--------------------------- MODULE ExtentsProofs ---------------------------
(***************************************************************************)
(* Proofs about Extents: after every step of a call each block is in one   *)
(* place, and between calls the nodes form a search tree, for every number *)
(* of blocks, size of nodes and depth of the tree.                         *)
(***************************************************************************)
EXTENDS TreeInvariant, FiniteSetTheorems, SequenceTheorems, TLAPS

-----------------------------------------------------------------------------
(* Sequences and numbers.                                                  *)

\* The least number of a set, the end of an induction.
LEMMA Least ==
  ASSUME NEW S \in SUBSET Nat, S # {}
  PROVE  \E m \in S : \A k \in S : m <= k
<1>1. PICK m \in S : \A k \in S : <<k, m>> \notin OpToRel(<, Nat)
  BY WFMin, NatLessThanWellFounded
<1>2. \A k \in S : ~(k < m)
  BY <1>1 DEF OpToRel
<1> QED
  BY <1>2

\* A bounded set of numbers has a greatest.
LEMMA Greatest ==
  ASSUME NEW n \in Nat, NEW S \in SUBSET (0 .. n), S # {}
  PROVE  Max(S) \in S /\ \A k \in S : k <= Max(S)
<1> DEFINE D == {n - k : k \in S}
<1>1. D \in SUBSET Nat /\ D # {}
  <2>1. \A k \in S : n - k \in Nat
    OBVIOUS
  <2> QED
    BY <2>1
<1>2. PICK d \in D : \A e \in D : d <= e
  BY <1>1, Least
<1>3. PICK m \in S : d = n - m
  BY <1>2
<1>4. \A k \in S : m >= k
  BY <1>2, <1>3
<1>5. Max(S) \in S /\ \A k \in S : Max(S) >= k
  BY <1>4 DEF Max
<1> QED
  BY <1>5

\* The block that the allocator gives is a free one.
LEMMA AllocatedFree ==
  ASSUME NEW goal, NEW b \in Allocated(goal), free \subseteq Block
  PROVE  b \in free
<1> DEFINE above == {c \in free : c >= goal}
           S == IF above = {} THEN free ELSE above
<1>1. free # {} /\ b = Min(S) /\ S \subseteq free /\ S # {}
  BY DEF Allocated
<1> HIDE DEF S
<1>3. PICK m \in S : \A k \in S : m <= k
  BY TreeAssumption, <1>1, Least DEF Block
<1>4. Min(S) \in S
  BY <1>3 DEF Min
<1> QED
  BY <1>1, <1>4

\* The entries of a node.
LEMMA EntSeq ==
  ASSUME NEW E \in Seq(Ent)
  PROVE  /\ Len(E) \in Nat /\ DOMAIN E = 1 .. Len(E)
         /\ \A k \in DOMAIN E : E[k] \in Ent
         /\ E = <<>> <=> Len(E) = 0
         /\ E = <<>> <=> DOMAIN E = {}
<1>1. Len(E) \in Nat /\ DOMAIN E = 1 .. Len(E) /\ \A k \in 1 .. Len(E) : E[k] \in Ent
  BY LenProperties, ElementOfSeq
<1>3. Len(E) = 0 <=> 1 .. Len(E) = {}
  <2>1. Len(E) # 0 => 1 \in 1 .. Len(E)
    BY <1>1
  <2> QED
    BY <1>1, <2>1
<1> QED
  BY EmptySeq, <1>1, <1>3

\* A function on the first numbers is a sequence.
LEMMA FunctionIsSeq ==
  ASSUME NEW S, NEW n \in Nat, NEW f \in [1 .. n -> S]
  PROVE  f \in Seq(S) /\ Len(f) = n /\ DOMAIN f = 1 .. n
<1>2. f \in Seq(S)
  BY IsASeq
<1> QED
  BY <1>2, LenProperties

LEMMA SubSeqIs ==
  ASSUME NEW E \in Seq(Ent), NEW a \in Nat \ {0}, NEW z \in Nat, z <= Len(E), a <= z + 1
  PROVE  /\ SubSeq(E, a, z) \in Seq(Ent) /\ Len(SubSeq(E, a, z)) = z - a + 1
         /\ DOMAIN SubSeq(E, a, z) = 1 .. (z - a + 1)
         /\ \A k \in 1 .. (z - a + 1) : SubSeq(E, a, z)[k] = E[k + a - 1]
<1> DEFINE f == SubSeq(E, a, z)
<1>1. \A k \in a .. z : E[k] \in Ent
  BY EntSeq
<1>2. /\ f \in Seq(Ent) /\ Len(f) = IF a <= z THEN z - a + 1 ELSE 0
      /\ \A k \in 1 .. (z - a + 1) : f[k] = E[a + k - 1]
  BY <1>1, SubSeqProperties
<1>3. Len(f) = z - a + 1
  BY <1>2
<1>4. \A k \in 1 .. (z - a + 1) : a + k - 1 = k + a - 1
  OBVIOUS
<1> HIDE DEF f
<1> QED
  BY <1>2, <1>3, EntSeq, <1>4 DEF f

\* An entry put in at place p.
LEMMA InsertIs ==
  ASSUME NEW E \in Seq(Ent), NEW p \in 1 .. (Len(E) + 1), NEW e \in Ent
  PROVE  /\ InsertAt(E, p, e) \in Seq(Ent) /\ Len(InsertAt(E, p, e)) = Len(E) + 1
         /\ DOMAIN InsertAt(E, p, e) = 1 .. (Len(E) + 1)
         /\ \A k \in 1 .. (Len(E) + 1) :
              InsertAt(E, p, e)[k] = IF k < p THEN E[k] ELSE IF k = p THEN e ELSE E[k - 1]
<1> DEFINE A == SubSeq(E, 1, p - 1)
           Z == SubSeq(E, p, Len(E))
           F == (A \o <<e>>) \o Z
<1>1. Len(E) \in Nat /\ DOMAIN E = 1 .. Len(E) /\ \A k \in 1 .. Len(E) : E[k] \in Ent
  BY EntSeq
<1>2. /\ A \in Seq(Ent) /\ Len(A) = p - 1
      /\ \A k \in 1 .. (p - 1) : A[k] = E[k]
  BY <1>1, SubSeqIs
<1>3. /\ Z \in Seq(Ent) /\ Len(Z) = Len(E) - p + 1
      /\ \A k \in 1 .. (Len(E) - p + 1) : Z[k] = E[k + p - 1]
  BY <1>1, SubSeqIs
<1> HIDE DEF A, Z
<1>5. /\ A \o <<e>> \in Seq(Ent) /\ Len(A \o <<e>>) = p
      /\ \A k \in 1 .. p : (A \o <<e>>)[k] = IF k < p THEN E[k] ELSE e
  BY <1>1, <1>2, ConcatProperties
<1>6. /\ F \in Seq(Ent) /\ Len(F) = Len(E) + 1
      /\ \A k \in 1 .. (Len(E) + 1) : F[k] = IF k <= p THEN (A \o <<e>>)[k] ELSE Z[k - p]
  <2> DEFINE B == A \o <<e>>
  <2> HIDE DEF B
  <2>1. B \in Seq(Ent) /\ Len(B) = p
    BY <1>5 DEF B
  <2>2. /\ B \o Z \in Seq(Ent) /\ Len(B \o Z) = Len(B) + Len(Z)
        /\ \A k \in 1 .. Len(B) + Len(Z) :
             (B \o Z)[k] = IF k <= Len(B) THEN B[k] ELSE Z[k - Len(B)]
    BY <1>3, <2>1, ConcatProperties
  <2>3. Len(B) + Len(Z) = Len(E) + 1
    BY <1>1, <1>3, <2>1
  <2> QED
    BY <2>1, <2>2, <2>3 DEF B
<1> HIDE DEF F
<1>7. DOMAIN F = 1 .. (Len(E) + 1)
  BY <1>6, EntSeq
<1>8. ASSUME NEW k \in DOMAIN F
      PROVE  F[k] = IF k < p THEN E[k] ELSE IF k = p THEN e ELSE E[k - 1]
  <2>1. CASE k <= p
    BY <1>7, <2>1, <1>5, <1>6
  <2>2. CASE k > p
    <3>1. k - p \in 1 .. (Len(E) - p + 1) /\ (k - p) + p - 1 = k - 1
      BY <1>1, <1>7, <2>2
    <3>2. Z[k - p] = E[k - 1]
      BY <1>3, <3>1
    <3> QED
      BY <1>6, <1>7, <2>2, <3>2
  <2> QED
    BY <1>7, <2>1, <2>2
<1> QED
  BY <1>6, <1>7, <1>8 DEF InsertAt, F, A, Z

\* The entry at place i taken out.
LEMMA RemoveIs ==
  ASSUME NEW E \in Seq(Ent), NEW i \in 1 .. Len(E)
  PROVE  /\ RemoveAt(E, i) \in Seq(Ent) /\ Len(RemoveAt(E, i)) = Len(E) - 1
         /\ DOMAIN RemoveAt(E, i) = 1 .. (Len(E) - 1)
         /\ \A k \in 1 .. (Len(E) - 1) : RemoveAt(E, i)[k] = IF k < i THEN E[k] ELSE E[k + 1]
<1> DEFINE A == SubSeq(E, 1, i - 1)
           Z == SubSeq(E, i + 1, Len(E))
           F == A \o Z
<1>1. Len(E) \in Nat /\ DOMAIN E = 1 .. Len(E) /\ \A k \in 1 .. Len(E) : E[k] \in Ent
  BY EntSeq
<1>2. /\ A \in Seq(Ent) /\ Len(A) = i - 1
      /\ \A k \in 1 .. (i - 1) : A[k] = E[k]
  BY <1>1, SubSeqIs
<1>3. /\ Z \in Seq(Ent) /\ Len(Z) = Len(E) - i
      /\ \A k \in 1 .. (Len(E) - i) : Z[k] = E[k + i]
  <2>1. i + 1 \in Nat \ {0} /\ Len(E) <= Len(E) /\ i + 1 <= Len(E) + 1
        /\ Len(E) - (i + 1) + 1 = Len(E) - i
    BY <1>1
  <2>2. \A k \in 1 .. (Len(E) - i) : k + (i + 1) - 1 = k + i
    OBVIOUS
  <2>3. /\ Z \in Seq(Ent) /\ Len(Z) = Len(E) - (i + 1) + 1
        /\ \A k \in 1 .. (Len(E) - (i + 1) + 1) : Z[k] = E[k + (i + 1) - 1]
    BY <1>1, <2>1, SubSeqIs
  <2> QED
    BY <2>1, <2>2, <2>3, Zenon
<1> HIDE DEF A, Z
<1>4. /\ F \in Seq(Ent) /\ Len(F) = Len(E) - 1
      /\ \A k \in 1 .. (Len(E) - 1) : F[k] = IF k < i THEN A[k] ELSE Z[k - (i - 1)]
  <2>1. /\ F \in Seq(Ent) /\ Len(F) = Len(A) + Len(Z)
        /\ \A k \in 1 .. Len(A) + Len(Z) :
             F[k] = IF k <= Len(A) THEN A[k] ELSE Z[k - Len(A)]
    BY <1>2, <1>3, ConcatProperties
  <2>2. Len(A) + Len(Z) = Len(E) - 1 /\ \A k \in Nat : k <= Len(A) <=> k < i
    BY <1>1, <1>2, <1>3
  <2> QED
    BY <1>2, <2>1, <2>2
<1> HIDE DEF F
<1>5. DOMAIN F = 1 .. (Len(E) - 1)
  BY <1>4, EntSeq
<1>6. ASSUME NEW k \in DOMAIN F
      PROVE  F[k] = IF k < i THEN E[k] ELSE E[k + 1]
  <2>1. CASE k < i
    BY <1>2, <1>4, <1>5, <2>1
  <2>2. CASE k >= i
    <3>1. k - (i - 1) \in 1 .. (Len(E) - i) /\ k - (i - 1) + i = k + 1
      BY <1>1, <1>5, <2>2
    <3>2. Z[k - (i - 1)] = E[k + 1]
      BY <1>3, <3>1
    <3> QED
      BY <1>4, <1>5, <2>2, <3>2
  <2> QED
    BY <1>5, <2>1, <2>2
<1> QED
  BY <1>4, <1>5, <1>6 DEF RemoveAt, F, A, Z

-----------------------------------------------------------------------------
(* Changes of one node.                                                    *)

LEMMA ShapeIs ==
  ASSUME NEW t, Shape(t), NEW n \in Node
  PROVE  /\ t[n].depth \in Nat /\ t[n].entries \in Seq(Ent)
         /\ Len(t[n].entries) \in Nat /\ DOMAIN t[n].entries = 1 .. Len(t[n].entries)
         /\ \A k \in DOMAIN t[n].entries : t[n].entries[k] \in Ent
         /\ t[n].entries = <<>> <=> DOMAIN t[n].entries = {}
<1> QED
  BY EntSeq DEF Shape

LEMMA RootNode == Root \in Node /\ Block \subseteq Node /\ Root \notin Block /\ Block \subseteq Nat
<1> QED
  BY TreeAssumption DEF Root, Node, Block

LEMMA ReplaceIs ==
  ASSUME NEW t \in Trees, NEW n \in Node, NEW d \in Nat, NEW E \in Seq(Ent)
  PROVE  /\ Replace(t, n, d, E) \in Trees
         /\ Replace(t, n, d, E)[n].depth = d /\ Replace(t, n, d, E)[n].entries = E
         /\ \A m \in Node : m # n => Replace(t, n, d, E)[m] = t[m]
BY DEF Replace, Trees

\* Node n gets the depth d, the entries E and the end u.
LEMMA Replaced ==
  ASSUME NEW t, NEW hi, Shape(t), Order(t, hi), Low(t, {}), Apart(t),
         NEW n \in Node, NEW d \in Nat, NEW E \in Seq(Ent), NEW u \in Nat, NEW X,
         Sorted(E, d, hi, u), Fits(t, n, d, E), Mine(t, n, E), Under(t, n, d, hi, u, X, E)
  PROVE  /\ Shape(Replace(t, n, d, E)) /\ Order(Replace(t, n, d, E), [hi EXCEPT ![n] = u])
         /\ Low(Replace(t, n, d, E), X) /\ Apart(Replace(t, n, d, E))
         /\ \A b \in Block : b \in Owned(Replace(t, n, d, E)) <=>
                (b \in Owned(t) /\ ~Has(t, n, b)) \/ Hold(E, b)
         /\ \A b \in Block : Linked(Replace(t, n, d, E), b) <=>
                                             \/ Linked(t, b) /\ ~(t[n].depth > 0 /\ Has(t, n, b))
                                             \/ d > 0 /\ Hold(E, b)
<1> USE DEF Under
<1> DEFINE v == Replace(t, n, d, E)
           hv == [hi EXCEPT ![n] = u]
<1>1. t \in Trees /\ hi \in [Node -> Nat]
  BY DEF Shape, Order, Trees
<1>2. /\ v \in Trees /\ v[n].depth = d /\ v[n].entries = E
      /\ \A m \in Node : m # n => v[m] = t[m]
  BY <1>1, ReplaceIs DEF v
<1> HIDE DEF v
<1>3. hv \in [Node -> Nat] /\ hv[n] = u /\ \A m \in Node : m # n => hv[m] = hi[m]
  BY <1>1
<1> HIDE DEF hv
<1>4. \A m \in Node : \A k \in DOMAIN t[m].entries : t[m].depth > 0 =>
         /\ t[m].entries[k].pblk \in Block /\ t[m].entries[k].pblk \in Node
         /\ t[m].entries[k].len = 0
         /\ t[t[m].entries[k].pblk].depth = t[m].depth - 1
         /\ t[m].entries[k].pblk # m
  <2> SUFFICES ASSUME NEW m \in Node, NEW k \in DOMAIN t[m].entries, t[m].depth > 0
               PROVE  /\ t[m].entries[k].pblk \in Block /\ t[m].entries[k].pblk \in Node
                      /\ t[m].entries[k].len = 0
                      /\ t[t[m].entries[k].pblk].depth = t[m].depth - 1
                      /\ t[m].entries[k].pblk # m
    OBVIOUS
  <2>1. t[m].depth \in Nat
    BY ShapeIs
  <2>2. /\ t[m].entries[k].len = 0 /\ t[m].entries[k].pblk \in Block
        /\ t[t[m].entries[k].pblk].depth = t[m].depth - 1
    BY <2>1 DEF Shape
  <2>4. t[m].entries[k].pblk # m
    BY <2>1, <2>2
  <2> QED
    BY <2>2, RootNode, <2>4, Zenon
<1>5. Shape(v)
  <2> SUFFICES ASSUME NEW m \in Node, NEW k \in DOMAIN v[m].entries
               PROVE  IF v[m].depth = 0 THEN v[m].entries[k].len # 0
                      ELSE /\ v[m].entries[k].len = 0 /\ v[m].entries[k].pblk \in Block
                           /\ v[v[m].entries[k].pblk].depth = v[m].depth - 1
    BY <1>2 DEF Shape, Trees
  <2>1. CASE m = n
    BY <1>2, <2>1, RootNode DEF Fits
  <2>2. CASE m # n /\ t[m].depth = 0
    BY <1>2, <2>2 DEF Shape
  <2>3. CASE m # n /\ t[m].depth # 0
    <3>1. v[m] = t[m] /\ t[m].depth > 0
      BY <1>2, <2>3, ShapeIs
    <3> DEFINE c == t[m].entries[k].pblk
    <3>2. c \in Node /\ c \in Block /\ t[m].entries[k].len = 0 /\ t[c].depth = t[m].depth - 1
      BY <1>4, <3>1
    <3> QED
      BY <3>1, <1>2, <3>2, <2>3 DEF Index2
  <2> QED
    BY <2>1, <2>2, <2>3
<1>6. Order(v, hv)
  <2> SUFFICES ASSUME NEW m \in Node
               PROVE  Sorted(v[m].entries, v[m].depth, hv, hv[m])
    BY <1>3 DEF Order, Sorted
  <2>1. CASE m = n
    <3>1. d > 0 => \A k \in DOMAIN E : hv[E[k].pblk] = hi[E[k].pblk]
      <4> SUFFICES ASSUME d > 0, NEW k \in DOMAIN E
                   PROVE  hv[E[k].pblk] = hi[E[k].pblk]
        OBVIOUS
      <4>1. E[k].pblk \in Block /\ E[k].pblk # n
        BY DEF Fits
      <4> QED
        BY <1>3, <4>1, RootNode
    <3> QED
      BY <1>2, <1>3, <2>1, <3>1 DEF Sorted
  <2>2. CASE m # n
    <3>1. v[m] = t[m] /\ hv[m] = hi[m]
      BY <1>2, <1>3, <2>2
    <3>2. Sorted(t[m].entries, t[m].depth, hi, hi[m])
      BY DEF Order, Sorted
    <3>3. ASSUME t[m].depth > 0, NEW k \in DOMAIN t[m].entries
          PROVE  /\ hv[t[m].entries[k].pblk] \in Nat /\ hi[t[m].entries[k].pblk] \in Nat
                 /\ hv[t[m].entries[k].pblk] <= hi[t[m].entries[k].pblk]
      <4> DEFINE c == t[m].entries[k].pblk
      <4>1. c \in Node
        BY <1>4, <3>3
      <4>2. c = n => u <= hi[n]
        BY <3>3 DEF Index2
      <4>3. hv[c] \in Nat /\ hi[c] \in Nat
        BY <1>1, <1>3, <4>1
      <4> QED
        BY <1>3, <4>1, <4>2, <4>3
    <3>4. hi[m] \in Nat /\ \A k \in DOMAIN t[m].entries : t[m].entries[k].lblk \in Nat
      BY <1>1, ShapeIs DEF Ent
    <3>5. t[m].depth > 0 => \A k \in DOMAIN t[m].entries :
                   /\ hv[t[m].entries[k].pblk] <= hi[m]
                   /\ \A j \in DOMAIN t[m].entries :
                        k < j => hv[t[m].entries[k].pblk] <= t[m].entries[j].lblk
      BY <3>2, <3>3, <3>4 DEF Sorted
    <3> QED
      BY <3>1, <3>2, <3>5 DEF Sorted
  <2> QED
    BY <2>1, <2>2
<1>7. Low(v, X)
  <2> SUFFICES ASSUME NEW m \in Node, NEW k \in DOMAIN v[m].entries, v[m].depth > 0,
                      <<m, k>> \notin X, NEW j \in DOMAIN v[v[m].entries[k].pblk].entries
               PROVE  v[m].entries[k].lblk <= v[v[m].entries[k].pblk].entries[j].lblk
    BY DEF Low
  <2>1. CASE m = n
    <3>1. d > 0 /\ k \in DOMAIN E /\ v[m].entries[k] = E[k]
      BY <1>2, <2>1
    <3>2. /\ E[k].pblk \in Block /\ E[k].pblk # n
          /\ \A i \in DOMAIN t[E[k].pblk].entries : E[k].lblk <= t[E[k].pblk].entries[i].lblk
      BY <3>1 DEF Fits
    <3>3. v[E[k].pblk] = t[E[k].pblk]
      BY <1>2, <3>2, RootNode
    <3> QED
      BY <3>1, <3>2, <3>3
  <2>2. CASE m # n
    <3> DEFINE c == t[m].entries[k].pblk
    <3>1. v[m] = t[m] /\ t[m].depth > 0 /\ k \in DOMAIN t[m].entries /\ c \in Node
      BY <1>2, <1>4, <2>2
    <3>2. CASE c = n
      BY <1>2, <2>2, <3>1, <3>2 DEF Index2
    <3>3. CASE c # n
      BY <1>2, <3>1, <3>3, Zenon DEF Low
    <3> QED
      BY <3>2, <3>3
  <2> QED
    BY <2>1, <2>2
<1>8. \A m \in Node : \A b \in Block :
         Has(v, m, b) <=> IF m = n THEN Hold(E, b) ELSE Has(t, m, b)
  BY <1>2 DEF Has
<1>11. \A b \in Block : Linked(v, b) <=> \/ Linked(t, b) /\ ~(t[n].depth > 0 /\ Has(t, n, b))
                                         \/ d > 0 /\ Hold(E, b)
  BY <1>2, <1>8 DEF Linked, Apart
<1> QED
  BY <1>2, <1>8, <1>5, <1>6, <1>7, <1>11 DEF Apart, Mine, Owned, v, hv

-----------------------------------------------------------------------------
(* Paths.                                                                  *)

\* Induction over the levels of a path, both ways, with the set of those done.
LEMMA CountUp ==
  ASSUME NEW n \in Nat, NEW S, 1 \in S, \A j \in 1 .. (n - 1) : j \in S => j + 1 \in S
  PROVE  \A j \in 1 .. n : j \in S
<1> DEFINE bad == {j \in 1 .. n : j \notin S}
<1> SUFFICES ASSUME bad # {}
             PROVE  FALSE
  OBVIOUS
<1>1. bad \in SUBSET Nat
  OBVIOUS
<1>2. PICK j \in bad : \A k \in bad : j <= k
  BY <1>1, Least
<1>3. j \in 1 .. n /\ j # 1
  BY <1>2
<1>6. j - 1 \in bad
  BY <1>3, <1>2
<1> QED
  BY <1>2, <1>3, <1>6

LEMMA CountDown ==
  ASSUME NEW n \in Nat, NEW S, n \in S, \A j \in 1 .. (n - 1) : j + 1 \in S => j \in S
  PROVE  \A j \in 1 .. n : j \in S
<1> DEFINE U == {j \in 1 .. n : n + 1 - j \in S}
<1> SUFFICES ASSUME n >= 1
             PROVE  \A j \in 1 .. n : j \in S
  OBVIOUS
<1>1. 1 \in U
  OBVIOUS
<1>2. ASSUME NEW j \in 1 .. (n - 1), j \in U
      PROVE  j + 1 \in U
  BY <1>2
<1> HIDE DEF U
<1>3. \A j \in 1 .. n : j \in U
  BY <1>1, <1>2, CountUp
<1>4. ASSUME NEW j \in 1 .. n
      PROVE  j \in S
  BY <1>3 DEF U
<1> QED
  BY <1>4

\* The nodes of a path are nodes, one on each level.
LEMMA StepFacts ==
  ASSUME NEW t, Shape(t), NEW path, NEW k \in Nat, Steps(t, path, k), k <= Len(path)
  PROVE  /\ Len(path) \in Nat \ {0} /\ DOMAIN path = 1 .. Len(path)
         /\ \A j \in 1 .. Len(path) : path[j].n \in Node /\ path[j].i \in Nat
         /\ path[1].n = Root
         /\ \A j \in 1 .. k : t[path[j].n].depth = Len(path) - j
         /\ \A i, j \in 1 .. k : path[i].n = path[j].n => i = j
<1>2. Len(path) \in Nat \ {0}
  BY RootNode, ShapeIs DEF Steps
<1>4. \A j \in 1 .. k : t[path[j].n].depth = Len(path) - j
  BY DEF Steps
<1>5. \A i, j \in 1 .. k : path[i].n = path[j].n => i = j
  <2> SUFFICES ASSUME NEW i \in 1 .. k, NEW j \in 1 .. k, path[i].n = path[j].n
               PROVE  i = j
    OBVIOUS
  <2>1. Len(path) - i = Len(path) - j
    BY <1>4
  <2> QED
    BY <1>2, <2>1
<1> QED
  BY <1>2, <1>4, <1>5 DEF Steps

\* What an index is, and that a node has only one.
LEMMA IndexIs ==
  ASSUME NEW t, Shape(t), NEW m \in Node, NEW k, NEW n, Index2(t, m, k, n)
  PROVE  /\ n \in Block /\ n \in Node /\ t[n].depth = t[m].depth - 1 /\ n # m
         /\ t[m].entries[k].len = 0 /\ Holds(t[m].entries[k], n)
         /\ Has(t, m, n) /\ Linked(t, n) /\ n \in Owned(t)
<1>1. k \in DOMAIN t[m].entries /\ t[m].depth > 0 /\ t[m].entries[k].pblk = n
  BY DEF Index2
<1>2. t[m].depth \in Nat
  BY ShapeIs
<1>3. /\ t[m].entries[k].len = 0 /\ t[m].entries[k].pblk \in Block
      /\ t[t[m].entries[k].pblk].depth = t[m].depth - 1
  BY <1>1, <1>2 DEF Shape
<1>4. n \in Block /\ n \in Node /\ t[n].depth = t[m].depth - 1 /\ n # m
  BY <1>1, <1>2, <1>3, RootNode
<1>5. Holds(t[m].entries[k], n)
  BY <1>1, <1>3 DEF Holds
<1>6. Has(t, m, n)
  BY <1>1, <1>5 DEF Has, Hold
<1> QED
  BY <1>1, <1>4, <1>6, <1>3, <1>5 DEF Linked, Owned

LEMMA IndexOnce ==
  ASSUME NEW t, Shape(t), Apart(t), NEW m \in Node, NEW k, NEW m2 \in Node, NEW k2, NEW n,
         Index2(t, m, k, n), Index2(t, m2, k2, n)
  PROVE  m = m2 /\ k = k2
<1>1. n \in Block /\ Holds(t[m].entries[k], n) /\ Has(t, m, n)
  BY IndexIs
<1>2. Holds(t[m2].entries[k2], n) /\ Has(t, m2, n)
  BY IndexIs
<1> QED
  BY <1>1, <1>2 DEF Apart, Index2

\* The way down a path goes along indexes.
LEMMA ChainFacts ==
  ASSUME NEW t, Shape(t), NEW path, NEW k \in Nat, k + 1 <= Len(path),
         Steps(t, path, k), Chain(t, path, k)
  PROVE  /\ Steps(t, path, k + 1)
         /\ \A j \in 1 .. k : /\ Index2(t, path[j].n, path[j].i, path[j + 1].n)
                              /\ path[j].i \in DOMAIN t[path[j].n].entries
                              /\ path[j].n \in Node
                              /\ path[j + 1].n \in Block /\ path[j + 1].n \in Node
                              /\ t[path[j].n].depth > 0
<1>1. /\ Len(path) \in Nat \ {0}
      /\ \A j \in 1 .. Len(path) : path[j].n \in Node
      /\ \A j \in 1 .. k : t[path[j].n].depth = Len(path) - j
      /\ t[path[1].n].depth = Len(path) - 1
  <2>2. t[Root].depth \in Nat
    BY RootNode, ShapeIs
  <2>1. Len(path) \in Nat /\ k <= Len(path)
    BY <2>2 DEF Steps
  <2> QED
    <3>1. /\ Len(path) \in Nat \ {0}
          /\ \A j \in 1 .. Len(path) : path[j].n \in Node
          /\ \A j \in 1 .. k : t[path[j].n].depth = Len(path) - j
      <4>1. /\ Len(path) \in Nat \ {0} /\ DOMAIN path = 1 .. Len(path)
            /\ \A j \in 1 .. Len(path) : path[j].n \in Node /\ path[j].i \in Nat
            /\ path[1].n = Root
            /\ \A j \in 1 .. k : t[path[j].n].depth = Len(path) - j
            /\ \A i, j \in 1 .. k : path[i].n = path[j].n => i = j
        BY <2>1, StepFacts, Zenon
      <4> QED
        BY <4>1, Zenon
    <3>3. t[path[1].n].depth = Len(path) - 1
      BY <2>2 DEF Steps
    <3> QED
      BY <3>1, <3>3
<1>2. ASSUME NEW j \in 1 .. k
      PROVE  Index2(t, path[j].n, path[j].i, path[j + 1].n)
  <2>1. t[path[j].n].depth > 0
    BY <1>1
  <2> QED
    BY <2>1 DEF Index2, Chain
<1>3. ASSUME NEW j \in 1 .. k
      PROVE  /\ path[j].i \in DOMAIN t[path[j].n].entries
             /\ path[j].n \in Node
             /\ path[j + 1].n \in Block /\ path[j + 1].n \in Node
             /\ t[path[j].n].depth > 0
             /\ t[path[j + 1].n].depth = t[path[j].n].depth - 1
  <2>1. path[j].n \in Node
    BY <1>1
  <2>2. Index2(t, path[j].n, path[j].i, path[j + 1].n)
    BY <1>2
  <2> QED
    BY <2>2, <2>1, IndexIs DEF Index2
<1>4. \A j \in 1 .. (k + 1) : t[path[j].n].depth = Len(path) - j
  <2> SUFFICES ASSUME NEW j \in 1 .. (k + 1), j # 1
               PROVE  t[path[j].n].depth = Len(path) - j
    BY <1>1
  <2>1. j - 1 \in 1 .. k /\ (j - 1) + 1 = j
    OBVIOUS
  <2>2. t[path[j].n].depth = t[path[j - 1].n].depth - 1
    BY <1>3, <2>1
  <2>3. t[path[j - 1].n].depth = Len(path) - (j - 1)
    BY <1>1, <2>1
  <2> QED
    BY <1>1, <2>2, <2>3
<1> QED
  BY <1>4, <1>2, <1>3 DEF Steps

\* What the index of a path is no greater than.
LEMMA LowChain ==
  ASSUME NEW t, Shape(t), Low(t, {}), NEW path, NEW k \in Nat, k + 1 <= Len(path),
         Steps(t, path, k), Chain(t, path, k)
  PROVE  \A j \in 1 .. k : \A m \in DOMAIN t[path[k + 1].n].entries :
           t[path[j].n].entries[path[j].i].lblk <= t[path[k + 1].n].entries[m].lblk
<1> DEFINE E == t[path[k + 1].n].entries
           S == {j \in 1 .. k : \A m \in DOMAIN E : t[path[j].n].entries[path[j].i].lblk <= E[m].lblk}
<1> SUFFICES ASSUME k > 0
             PROVE  \A j \in 1 .. k : j \in S
  OBVIOUS
<1>1. ASSUME NEW j \in 1 .. k
      PROVE  \A m \in DOMAIN t[path[j + 1].n].entries :
               t[path[j].n].entries[path[j].i].lblk <= t[path[j + 1].n].entries[m].lblk
  <2>1. Index2(t, path[j].n, path[j].i, path[j + 1].n) /\ path[j].n \in Node
    BY ChainFacts
  <2>2. /\ path[j].i \in DOMAIN t[path[j].n].entries /\ t[path[j].n].depth > 0
        /\ t[path[j].n].entries[path[j].i].pblk = path[j + 1].n
    BY <2>1 DEF Index2
  <2> QED
    BY <2>1, <2>2 DEF Low
<1>2. \A j \in 1 .. k : t[path[j].n].entries[path[j].i].lblk \in Nat
  BY ChainFacts, ShapeIs DEF Ent
<1>3. \A m \in DOMAIN E : E[m].lblk \in Nat
  <2>1. path[k + 1].n \in Node
    BY ChainFacts
  <2> QED
    BY <2>1, ShapeIs DEF Ent
<1>4. k \in S
  BY <1>1
<1>5. ASSUME NEW j \in 1 .. (k - 1), j + 1 \in S
      PROVE  j \in S
  <2>1. j \in 1 .. k /\ j + 1 \in 1 .. k
    OBVIOUS
  <2>2. t[path[j].n].entries[path[j].i].lblk <= t[path[j + 1].n].entries[path[j + 1].i].lblk
    BY <1>1, <2>1, ChainFacts
  <2>3. \A m \in DOMAIN E : t[path[j + 1].n].entries[path[j + 1].i].lblk <= E[m].lblk
    BY <1>5
  <2>4. \A m \in DOMAIN E : t[path[j].n].entries[path[j].i].lblk <= E[m].lblk
    <3> SUFFICES ASSUME NEW m \in DOMAIN E
                 PROVE  t[path[j].n].entries[path[j].i].lblk <= E[m].lblk
      OBVIOUS
    <3>1. t[path[j + 1].n].entries[path[j + 1].i].lblk <= E[m].lblk
      BY <2>3
    <3>2. /\ t[path[j].n].entries[path[j].i].lblk \in Nat /\ E[m].lblk \in Nat
          /\ t[path[j + 1].n].entries[path[j + 1].i].lblk \in Nat
      BY <1>2, <1>3, <2>1
    <3> QED
      BY <2>2, <3>1, <3>2
  <2> QED
    BY <2>1, <2>4
<1> HIDE DEF S
<1> QED
  BY <1>4, <1>5, CountDown

\* Where what is below a path has to end.
LEMMA HighChain ==
  ASSUME NEW t, NEW hi, Shape(t), Order(t, hi), NEW path, NEW k \in Nat, k + 1 <= Len(path),
         Steps(t, path, k), Chain(t, path, k)
  PROVE  \A j \in 1 .. k :
           /\ hi[path[k + 1].n] <= hi[path[j].n]
           /\ \A m \in DOMAIN t[path[j].n].entries :
                m > path[j].i => hi[path[k + 1].n] <= t[path[j].n].entries[m].lblk
<1> DEFINE u == hi[path[k + 1].n]
           S == {j \in 1 .. k : u <= hi[path[j].n]}
<1> SUFFICES ASSUME k > 0
             PROVE  \A j \in 1 .. k :
                      /\ u <= hi[path[j].n]
                      /\ \A m \in DOMAIN t[path[j].n].entries :
                           m > path[j].i => u <= t[path[j].n].entries[m].lblk
  OBVIOUS
<1>1. \A n \in Node : hi[n] \in Nat
  BY DEF Order
<1>2. \A j \in 1 .. (k + 1) : path[j].n \in Node
  <2>1. Len(path) \in Nat /\ k <= Len(path)
    <3> QED
      BY RootNode, ShapeIs DEF Steps
  <2> QED
    BY <2>1, StepFacts
<1>3. ASSUME NEW j \in 1 .. k
      PROVE  /\ hi[path[j + 1].n] <= hi[path[j].n]
             /\ \A m \in DOMAIN t[path[j].n].entries :
                  m > path[j].i => hi[path[j + 1].n] <= t[path[j].n].entries[m].lblk
  <2>1. /\ path[j].i \in DOMAIN t[path[j].n].entries /\ t[path[j].n].depth > 0
        /\ t[path[j].n].entries[path[j].i].pblk = path[j + 1].n /\ path[j].n \in Node
    BY ChainFacts DEF Index2
  <2> QED
    BY <2>1, ShapeIs DEF Order
<1>4. k \in S
  BY <1>3
<1>5. ASSUME NEW j \in 1 .. (k - 1), j + 1 \in S
      PROVE  j \in S
  <2>1. j \in 1 .. k /\ j + 1 \in 1 .. k
    OBVIOUS
  <2>2. hi[path[j + 1].n] <= hi[path[j].n] /\ u <= hi[path[j + 1].n]
    BY <1>3, <1>5, <2>1
  <2>3. u \in Nat /\ hi[path[j + 1].n] \in Nat /\ hi[path[j].n] \in Nat
    BY <1>1, <1>2
  <2> QED
    BY <2>1, <2>2, <2>3
<1>6. \A j \in 1 .. k : j \in S
  <2> HIDE DEF S
  <2> QED
    BY <1>4, <1>5, CountDown
<1>7. ASSUME NEW j \in 1 .. k, NEW m \in DOMAIN t[path[j].n].entries, m > path[j].i
      PROVE  u <= t[path[j].n].entries[m].lblk
  <2>1. hi[path[j + 1].n] <= t[path[j].n].entries[m].lblk
    BY <1>3, <1>7
  <2>2. u <= hi[path[j + 1].n]
    <3>1. CASE j = k
      BY <1>1, <1>2, <3>1
    <3>2. CASE j # k
      BY <3>2, <1>6
    <3> QED
      BY <3>1, <3>2
  <2>3. t[path[j].n].entries[m].lblk \in Nat
    BY <1>2, ShapeIs DEF Ent
  <2>4. u \in Nat /\ hi[path[j + 1].n] \in Nat
    BY <1>1, <1>2
  <2> QED
    BY <2>1, <2>2, <2>3, <2>4
<1> QED
  BY <1>6, <1>7

-----------------------------------------------------------------------------
(* The first keys of the nodes above a place.                              *)

\* What an entry of a node is.
LEMMA EntryIs ==
  ASSUME NEW t, Shape(t), NEW n \in Node, NEW q \in DOMAIN t[n].entries
  PROVE  /\ q \in Nat /\ q >= 1 /\ t[n].entries[q] \in Ent
         /\ t[n].entries[q].lblk \in Nat /\ t[n].entries[q].len \in Nat
         /\ End(t[n].entries[q]) \in Nat /\ t[n].entries[q].lblk < End(t[n].entries[q])
         /\ t[n].depth = 0 => t[n].entries[q].len # 0
         /\ t[n].depth # 0 =>
               /\ t[n].entries[q].len = 0 /\ t[n].entries[q].pblk \in Block
               /\ t[n].entries[q].pblk \in Node
               /\ End(t[n].entries[q]) = t[n].entries[q].lblk + 1
               /\ t[t[n].entries[q].pblk].depth = t[n].depth - 1
<1>1. q \in Nat /\ q >= 1 /\ t[n].entries[q] \in Ent
  BY ShapeIs
<1>2. t[n].entries[q].lblk \in Nat /\ t[n].entries[q].len \in Nat
  BY <1>1 DEF Ent
<1>5. End(t[n].entries[q]) \in Nat /\ t[n].entries[q].lblk < End(t[n].entries[q])
      /\ (t[n].entries[q].len = 0 => End(t[n].entries[q]) = t[n].entries[q].lblk + 1)
  BY <1>2 DEF End
<1> QED
  BY RootNode, <1>1, <1>2, <1>5 DEF Shape

LEMMA KeyIs ==
  ASSUME NEW E \in Seq(Ent), NEW i \in DOMAIN E, NEW border \in Nat
  PROVE  /\ [E EXCEPT ![i].lblk = border] \in Seq(Ent)
         /\ Len([E EXCEPT ![i].lblk = border]) = Len(E)
         /\ \A q \in DOMAIN E : q # i => [E EXCEPT ![i].lblk = border][q] = E[q]
         /\ [E EXCEPT ![i].lblk = border][i].lblk = border
         /\ [E EXCEPT ![i].lblk = border][i].len = E[i].len
         /\ [E EXCEPT ![i].lblk = border][i].pblk = E[i].pblk
<1> DEFINE e == [E[i] EXCEPT !.lblk = border]
<1>1. E[i] \in Ent /\ DOMAIN E = 1 .. Len(E) /\ Len(E) \in Nat
  BY EntSeq
<1>2. e \in Ent /\ e.lblk = border /\ e.len = E[i].len /\ e.pblk = E[i].pblk
  BY <1>1 DEF Ent
<1> HIDE DEF e
<1> QED
  BY <1>1, <1>2, ExceptSeq DEF e

LEMMA SetFirstIs ==
  ASSUME NEW t \in Trees, NEW path, NEW k \in Nat, NEW border \in Nat,
         \A j \in 1 .. (k - 1) : path[j].n \in Node /\ path[j].i \in DOMAIN t[path[j].n].entries,
         \A i, j \in 1 .. (k - 1) : path[i].n = path[j].n => i = j
  PROVE  Keyed(t, SetFirst(t, path, k, border), path, k, border)
<1> DEFINE v == SetFirst(t, path, k, border)
           At1(n) == CHOOSE j \in Above(path, k) : path[j].n = n
           new(n) == [t[n] EXCEPT !.entries[path[At1(n)].i].lblk = border]
<1>1. v = [n \in Node |-> IF \E j \in Above(path, k) : path[j].n = n THEN new(n) ELSE t[n]]
  BY DEF SetFirst, Above
<1> HIDE DEF v
<1>2. \A n \in Node : t[n] \in [depth : Nat, entries : Seq(Ent)]
  BY DEF Trees
<1>3. ASSUME NEW n \in Node, \E j \in Above(path, k) : path[j].n = n
      PROVE  /\ v[n] \in [depth : Nat, entries : Seq(Ent)]
             /\ v[n].depth = t[n].depth
             /\ Len(v[n].entries) = Len(t[n].entries)
             /\ \A q \in DOMAIN t[n].entries :
                  /\ v[n].entries[q].len = t[n].entries[q].len
                  /\ v[n].entries[q].pblk = t[n].entries[q].pblk
                  /\ v[n].entries[q].lblk = IF OnAbove(path, k, n, q) THEN border
                                            ELSE t[n].entries[q].lblk
  <2> DEFINE j == At1(n)
             E == t[n].entries
             F == [E EXCEPT ![path[j].i].lblk = border]
  <2>1. j \in Above(path, k) /\ path[j].n = n
    BY <1>3
  <2>2. v[n] = new(n)
    BY <1>1, <1>3, Zenon
  <2>3. E \in Seq(Ent) /\ t[n].depth \in Nat /\ t[n] = [depth |-> t[n].depth, entries |-> E]
    BY <1>2
  <2>4. v[n] = [t[n] EXCEPT !.entries = F]
    BY <2>2, Zenon
  <2> HIDE DEF j, At1
  <2>5. j \in 1 .. (k - 1) /\ path[j].i \in DOMAIN E
    BY <2>1 DEF Above
  <2>6. /\ F \in Seq(Ent) /\ Len(F) = Len(E)
        /\ \A q \in DOMAIN E : q # path[j].i => F[q] = E[q]
        /\ F[path[j].i].lblk = border
        /\ F[path[j].i].len = E[path[j].i].len
        /\ F[path[j].i].pblk = E[path[j].i].pblk
    BY <2>3, <2>5, KeyIs
  <2> HIDE DEF F, E
  <2>7. v[n].depth = t[n].depth /\ v[n].entries = F /\ v[n] \in [depth : Nat, entries : Seq(Ent)]
    BY <2>3, <2>4, <2>6
  <2>8. \A q : OnAbove(path, k, n, q) <=> q = path[j].i
    <3>1. \A i \in Above(path, k) : path[i].n = n => i = j
      BY <2>1 DEF Above
    <3> QED
      BY <2>1, <3>1 DEF OnAbove
  <2> QED
    BY <2>6, <2>7, <2>8 DEF E
<1>4. ASSUME NEW n \in Node, ~\E j \in Above(path, k) : path[j].n = n
      PROVE  v[n] = t[n] /\ \A q : ~OnAbove(path, k, n, q)
  BY <1>1, <1>4 DEF OnAbove
<1>5. v \in Trees
  <2>1. \A n \in Node : v[n] \in [depth : Nat, entries : Seq(Ent)]
    BY <1>2, <1>3, <1>4
  <2> QED
    BY <1>1, <2>1, Zenon DEF Trees
<1> QED
  BY <1>3, <1>4, <1>5 DEF Keyed, v

LEMMA KeyedKeeps ==
  ASSUME NEW t, NEW hi, NEW X, Shape(t), Order(t, hi), Low(t, X), Apart(t),
         NEW path, NEW k \in Nat \ {0}, k <= Len(path), Steps(t, path, k), Chain(t, path, k - 1),
         NEW border, Border(t, hi, X, path, k, border), NEW v, Keyed(t, v, path, k, border)
  PROVE  /\ Shape(v) /\ Order(v, hi) /\ Low(v, {}) /\ Apart(v)
         /\ \A n \in Node : \A b \in Block : Has(v, n, b) <=> Has(t, n, b)
         /\ Owned(v) = Owned(t)
         /\ \A b \in Block : Linked(v, b) <=> Linked(t, b)
<1> USE DEF Border
<1>1. /\ v \in Trees
      /\ \A n \in Node :
           /\ v[n].depth = t[n].depth
           /\ Len(v[n].entries) = Len(t[n].entries)
           /\ \A q \in DOMAIN t[n].entries :
                /\ v[n].entries[q].len = t[n].entries[q].len
                /\ v[n].entries[q].pblk = t[n].entries[q].pblk
                /\ v[n].entries[q].lblk = IF OnAbove(path, k, n, q) THEN border
                                          ELSE t[n].entries[q].lblk
  BY DEF Keyed
<1>2. \A n \in Node : DOMAIN v[n].entries = DOMAIN t[n].entries /\ v[n].entries \in Seq(Ent)
  <2> QED
    BY <1>1, ShapeIs, EntSeq DEF Trees
<1>3. \A n \in Node : \A q \in DOMAIN t[n].entries : \A b \in Block :
         Holds(v[n].entries[q], b) <=> Holds(t[n].entries[q], b)
  BY <1>1 DEF Holds
<1>4. \A n \in Node : \A b \in Block : Has(v, n, b) <=> Has(t, n, b)
  BY <1>2, <1>3 DEF Has, Hold
<1>7. Apart(v)
  BY <1>2, <1>3, <1>4 DEF Apart
<1>8. Shape(v)
  <2> SUFFICES ASSUME NEW n \in Node, NEW q \in DOMAIN v[n].entries
               PROVE  IF v[n].depth = 0 THEN v[n].entries[q].len # 0
                      ELSE /\ v[n].entries[q].len = 0 /\ v[n].entries[q].pblk \in Block
                           /\ v[v[n].entries[q].pblk].depth = v[n].depth - 1
    BY <1>1 DEF Shape, Trees
  <2>1. CASE t[n].depth = 0
    <3>1. t[n].entries[q].len # 0
      BY <1>2, <2>1, EntryIs
    <3> QED
      BY <1>1, <1>2, <2>1, <3>1
  <2>2. CASE t[n].depth # 0
    <3>0. t[n].entries[q].pblk \in Node
      BY <1>2, <2>2, EntryIs
    <3>1. /\ t[n].entries[q].len = 0 /\ t[n].entries[q].pblk \in Block
          /\ t[t[n].entries[q].pblk].depth = t[n].depth - 1
      BY <1>2, <2>2, EntryIs
    <3>2. v[n].depth # 0 /\ v[n].entries[q].len = 0 /\ v[n].depth = t[n].depth
          /\ v[n].entries[q].pblk = t[n].entries[q].pblk
      BY <1>1, <1>2, <2>2, <3>1
    <3>3. v[t[n].entries[q].pblk].depth = t[t[n].entries[q].pblk].depth
      BY <1>1, <3>0
    <3> QED
      BY <3>1, <3>2, <3>3
  <2> QED
    BY <2>1, <2>2
<1>9. k - 1 \in Nat /\ (k - 1) + 1 = k /\ k \in Nat /\ Steps(t, path, k - 1)
      /\ Len(path) \in Nat /\ k - 1 + 1 <= Len(path) /\ k - 1 <= Len(path)
  BY StepFacts DEF Steps
<1>10. \A j \in 1 .. (k - 1) : /\ Index2(t, path[j].n, path[j].i, path[j + 1].n)
                               /\ path[j].i \in DOMAIN t[path[j].n].entries
                               /\ path[j].n \in Node
                               /\ path[j + 1].n \in Block /\ path[j + 1].n \in Node
                               /\ t[path[j].n].depth > 0
  BY <1>9, ChainFacts
<1>11. \A j \in 1 .. (k - 1) :
           /\ hi[path[k].n] <= hi[path[j].n]
           /\ \A m \in DOMAIN t[path[j].n].entries :
                m > path[j].i => hi[path[k].n] <= t[path[j].n].entries[m].lblk
  BY <1>9, HighChain
<1>12. \A i, j \in 1 .. k : path[i].n = path[j].n => i = j
  BY <1>9, StepFacts
<1>13. hi \in [Node -> Nat] /\ path[k].n \in Node /\ path[1].n = Root
  BY <1>9, StepFacts DEF Order
<1>14. \A n \in Node : \A q \in DOMAIN t[n].entries :
          t[n].entries[q].lblk \in Nat /\ v[n].entries[q].lblk \in Nat /\ q \in Nat
          /\ t[n].entries[q] \in Ent
  <2> SUFFICES ASSUME NEW n \in Node, NEW q \in DOMAIN t[n].entries
               PROVE  t[n].entries[q].lblk \in Nat /\ v[n].entries[q].lblk \in Nat /\ q \in Nat
                      /\ t[n].entries[q] \in Ent
    OBVIOUS
  <2>1. v[n].entries[q] \in Ent
    BY <1>2, EntSeq
  <2>2. v[n].entries[q].lblk \in Nat
    BY <2>1 DEF Ent
  <2> QED
    BY <2>2, EntryIs
<1>15. ASSUME NEW n \in Node, NEW q \in DOMAIN t[n].entries, ~OnAbove(path, k, n, q)
       PROVE  End(v[n].entries[q]) = End(t[n].entries[q]) /\ v[n].entries[q].lblk = t[n].entries[q].lblk
  BY <1>1, <1>15 DEF End
<1>16. ASSUME NEW n \in Node, NEW q \in DOMAIN t[n].entries, OnAbove(path, k, n, q)
       PROVE  /\ v[n].entries[q].lblk = border /\ End(v[n].entries[q]) = border + 1
              /\ border + 1 <= hi[n] /\ t[n].depth > 0
              /\ q > 1 => t[n].entries[q].lblk <= border
              /\ \A m \in DOMAIN t[n].entries : m > q => border + 1 <= t[n].entries[m].lblk
              /\ \A m \in DOMAIN t[n].entries : OnAbove(path, k, n, m) => m = q
  <2>1. PICK j \in Above(path, k) : path[j].n = n /\ path[j].i = q
    BY <1>16 DEF OnAbove
  <2>2. j \in 1 .. (k - 1)
    BY <2>1 DEF Above
  <2>3. t[n].depth > 0 /\ t[n].entries[q].len = 0
    BY <1>10, <2>1, <2>2, ShapeIs DEF Shape
  <2>4. v[n].entries[q].lblk = border /\ End(v[n].entries[q]) = border + 1
    BY <1>1, <1>16, <2>3 DEF End
  <2>5. border + 1 <= hi[path[k].n] /\ hi[path[k].n] \in Nat /\ hi[n] \in Nat
    BY <1>13
  <2>6. border + 1 <= hi[n]
    BY <1>11, <2>1, <2>2, <2>5
  <2>7. ASSUME NEW m \in DOMAIN t[n].entries, m > q
        PROVE  border + 1 <= t[n].entries[m].lblk
    <3>1. hi[path[k].n] <= t[n].entries[m].lblk
      BY <1>11, <2>1, <2>2, <2>7
    <3> QED
      BY <1>14, <2>5, <3>1
  <2>8. \A m \in DOMAIN t[n].entries : OnAbove(path, k, n, m) => m = q
    BY <1>12, <2>1, <2>2 DEF OnAbove, Above
  <2> QED
    BY <2>1, <2>3, <2>4, <2>6, <2>7, <2>8
<1>17. Order(v, hi)
  <2> SUFFICES ASSUME NEW n \in Node
               PROVE  /\ \A j, m \in DOMAIN v[n].entries :
                           j < m => End(v[n].entries[j]) <= v[n].entries[m].lblk
                      /\ \A q \in DOMAIN v[n].entries : End(v[n].entries[q]) <= hi[n]
                      /\ v[n].depth > 0 =>
                         \A q \in DOMAIN v[n].entries :
                            /\ hi[v[n].entries[q].pblk] <= hi[n]
                            /\ \A m \in DOMAIN v[n].entries :
                                  q < m => hi[v[n].entries[q].pblk] <= v[n].entries[m].lblk
    BY <1>13 DEF Order
  <2>1. ASSUME NEW j \in DOMAIN t[n].entries, NEW m \in DOMAIN t[n].entries, j < m
        PROVE  End(v[n].entries[j]) <= v[n].entries[m].lblk
    <3>0. End(t[n].entries[j]) <= t[n].entries[m].lblk
      BY <2>1 DEF Order
    <3>1. CASE OnAbove(path, k, n, j)
      <4>1. ~OnAbove(path, k, n, m)
        BY <1>14, <1>16, <2>1, <3>1
      <4> QED
        BY <1>15, <1>16, <2>1, <3>1, <4>1
    <3>2. CASE ~OnAbove(path, k, n, j) /\ OnAbove(path, k, n, m)
      <4>1. t[n].entries[m].lblk <= border /\ v[n].entries[m].lblk = border
        BY <1>14, <1>16, <2>1, <3>2, EntSeq, ShapeIs
      <4>2. End(t[n].entries[j]) \in Nat
        BY EntryIs
      <4> QED
        BY <1>14, <1>15, <3>0, <3>2, <4>1, <4>2
    <3>3. CASE ~OnAbove(path, k, n, j) /\ ~OnAbove(path, k, n, m)
      BY <1>15, <3>0, <3>3
    <3> QED
      BY <3>1, <3>2, <3>3
  <2>2. ASSUME NEW q \in DOMAIN t[n].entries
        PROVE  End(v[n].entries[q]) <= hi[n]
    <3>1. End(t[n].entries[q]) <= hi[n]
      BY DEF Order
    <3> QED
      BY <1>15, <1>16, <3>1
  <2>3. ASSUME v[n].depth > 0, NEW q \in DOMAIN t[n].entries
        PROVE  /\ hi[v[n].entries[q].pblk] <= hi[n]
               /\ \A m \in DOMAIN t[n].entries :
                     q < m => hi[v[n].entries[q].pblk] <= v[n].entries[m].lblk
    <3>1. t[n].depth > 0 /\ v[n].entries[q].pblk = t[n].entries[q].pblk
      BY <1>1, <2>3
    <3>2. /\ hi[t[n].entries[q].pblk] <= hi[n]
          /\ \A m \in DOMAIN t[n].entries :
                q < m => hi[t[n].entries[q].pblk] <= t[n].entries[m].lblk
      BY <3>1 DEF Order
    <3>3. hi[t[n].entries[q].pblk] \in Nat
      <4>1. t[n].depth # 0
        BY <3>1
      <4>2. t[n].entries[q].pblk \in Node
        BY <4>1, EntryIs
      <4> QED
        BY <1>13, <4>2
    <3>4. ASSUME NEW m \in DOMAIN t[n].entries, q < m
          PROVE  hi[t[n].entries[q].pblk] <= v[n].entries[m].lblk
      <4>1. hi[t[n].entries[q].pblk] <= t[n].entries[m].lblk
        BY <3>2, <3>4
      <4>2. CASE OnAbove(path, k, n, m)
        <5>1. m > 1
          BY <3>4, ShapeIs
        <5>2. t[n].entries[m].lblk <= border /\ v[n].entries[m].lblk = border
          BY <1>16, <4>2, <5>1
        <5> QED
          BY <1>14, <3>3, <4>1, <5>2
      <4>3. CASE ~OnAbove(path, k, n, m)
        BY <1>15, <4>1, <4>3
      <4> QED
        BY <4>2, <4>3
    <3> QED
      BY <3>1, <3>2, <3>4
  <2> QED
    BY <1>2, <2>1, <2>2, <2>3
<1>18. ASSUME NEW n \in Node, NEW q, NEW c, Index2(t, n, q, c), NEW r \in DOMAIN t[c].entries
       PROVE  v[n].entries[q].lblk <= v[c].entries[r].lblk
  <2>0. Index2(t, n, q, c)
    BY <1>18
  <2>1. c \in Node /\ c \in Block /\ q \in DOMAIN t[n].entries
    BY <2>0, IndexIs DEF Index2
  <2>2. v[c].entries[r].lblk = IF OnAbove(path, k, c, r) THEN border ELSE t[c].entries[r].lblk
    BY <1>1, <2>1
  <2>3. CASE OnAbove(path, k, n, q)
    <3>1. PICK j \in Above(path, k) : path[j].n = n /\ path[j].i = q
      BY <2>3 DEF OnAbove
    <3>2. j \in 1 .. (k - 1) /\ v[n].entries[q].lblk = border
      BY <1>16, <2>1, <2>3, <3>1 DEF Above
    <3>3. c = path[j + 1].n
      BY <1>10, <2>0, <3>1, <3>2 DEF Index2
    <3>4. CASE j + 1 = k
      BY <2>2, <3>2, <3>3, <3>4
    <3>5. CASE j + 1 # k
      <4>1. j + 1 \in Above(path, k) /\ path[j + 1].i = 1 /\ j + 1 \in 1 .. (k - 1)
        BY <3>1, <3>2, <3>5 DEF Above
      <4>2. CASE r = 1
        BY <2>2, <3>2, <3>3, <4>1, <4>2 DEF OnAbove
      <4>3. CASE r # 1
        <5>1. r > 1 /\ r > path[j + 1].i
          <6>1. r \in Nat /\ r >= 1
            BY <2>1, EntryIs
          <6> QED
            BY <4>1, <4>3, <6>1
        <5>2. hi[path[k].n] <= t[c].entries[r].lblk
          BY <1>11, <3>3, <4>1, <5>1
        <5>3. border <= t[c].entries[r].lblk
          <6>1. hi[path[k].n] \in Nat /\ t[c].entries[r].lblk \in Nat
            BY <1>13, <1>14, <2>1
          <6> QED
            BY <5>2, <6>1
        <5> QED
          <6>1. v[c].entries[r].lblk \in {border, t[c].entries[r].lblk}
            BY <2>2
          <6> QED
            BY <3>2, <5>3, <6>1
      <4> QED
        BY <4>2, <4>3
    <3> QED
      BY <3>4, <3>5
  <2>4. CASE ~OnAbove(path, k, n, q)
    <3>1. <<n, q>> \notin X
      BY <2>4 DEF OnAbove
    <3>2. t[n].entries[q].lblk <= t[c].entries[r].lblk
      BY <2>0, <3>1 DEF Low, Index2
    <3>3. v[n].entries[q].lblk = t[n].entries[q].lblk
      BY <1>15, <2>1, <2>4
    <3>4. CASE ~OnAbove(path, k, c, r)
      BY <2>2, <3>2, <3>3, <3>4
    <3>5. CASE OnAbove(path, k, c, r)
      <4>1. PICK j \in Above(path, k) : path[j].n = c /\ path[j].i = r
        BY <3>5 DEF OnAbove
      <4>2. j \in 1 .. (k - 1) /\ j # 1
        BY <1>13, <2>1, <4>1, RootNode DEF Above
      <4>3. j - 1 \in 1 .. (k - 1) /\ (j - 1) + 1 = j
        BY <4>2
      <4>4. Index2(t, path[j - 1].n, path[j - 1].i, c) /\ path[j - 1].n \in Node
        BY <1>10, <4>1, <4>3
      <4>5. path[j - 1].n = n /\ path[j - 1].i = q
        BY <2>0, <4>4, IndexOnce
      <4>6. j - 1 \notin Above(path, k)
        BY <2>4, <4>5 DEF OnAbove
      <4>7. path[j].i # 1
        BY <4>1, <4>2, <4>3, <4>6 DEF Above
      <4>8. r > 1
        BY <2>1, <4>1, <4>7, ShapeIs
      <4>9. t[c].entries[r].lblk <= border
        BY <1>16, <2>1, <3>5, <4>8
      <4> QED
        <5>1. v[c].entries[r].lblk = border
          BY <2>2, <3>5
        <5>2. t[n].entries[q].lblk \in Nat /\ t[c].entries[r].lblk \in Nat
          BY <1>14, <2>1
        <5> QED
          BY <3>2, <3>3, <4>9, <5>1, <5>2
    <3> QED
      BY <3>4, <3>5
  <2> QED
    BY <2>3, <2>4
<1>19. Low(v, {})
  <2> SUFFICES ASSUME NEW n \in Node, NEW q \in DOMAIN v[n].entries, v[n].depth > 0,
                      NEW m \in DOMAIN v[v[n].entries[q].pblk].entries
               PROVE  v[n].entries[q].lblk <= v[v[n].entries[q].pblk].entries[m].lblk
    BY DEF Low
  <2>1. q \in DOMAIN t[n].entries /\ t[n].depth > 0 /\ t[n].depth # 0
    BY <1>1, <1>2
  <2>2. Index2(t, n, q, t[n].entries[q].pblk)
    BY <2>1 DEF Index2
  <2>3. v[n].entries[q].pblk = t[n].entries[q].pblk /\ t[n].entries[q].pblk \in Node
    BY <1>1, <2>1, EntryIs
  <2>4. m \in DOMAIN t[t[n].entries[q].pblk].entries
    BY <1>2, <2>3
  <2> QED
    BY <1>18, <2>2, <2>3, <2>4
<1> QED
  BY <1>1, <1>4, <1>7, <1>8, <1>17, <1>19 DEF Linked, Owned

-----------------------------------------------------------------------------
(* Whole paths, and changes at their end.                                  *)

LEMMA PathIs ==
  ASSUME NEW t, Shape(t), NEW path, IsPath(t, path)
  PROVE  /\ Len(path) \in Nat \ {0} /\ Len(path) - 1 \in Nat /\ DOMAIN path = 1 .. Len(path)
         /\ Len(path) = t[Root].depth + 1
         /\ path \in [1 .. Len(path) -> [n : Node, i : Nat]]
         /\ Steps(t, path, Len(path)) /\ Chain(t, path, Len(path) - 1)
         /\ \A j \in 1 .. Len(path) : /\ path[j].n \in Node /\ path[j].i \in Nat
                                      /\ t[path[j].n].depth = Len(path) - j
         /\ path[1].n = Root
         /\ \A i, j \in 1 .. Len(path) : path[i].n = path[j].n => i = j
         /\ \A j \in 1 .. (Len(path) - 1) :
              /\ Index2(t, path[j].n, path[j].i, path[j + 1].n)
              /\ path[j].i \in DOMAIN t[path[j].n].entries
              /\ path[j + 1].n \in Block
              /\ t[path[j].n].depth > 0
         /\ path[Len(path)].n \in Node /\ t[path[Len(path)].n].depth = 0
         /\ IF t[path[Len(path)].n].entries = <<>> THEN path[Len(path)].i = 0
            ELSE path[Len(path)].i \in DOMAIN t[path[Len(path)].n].entries
<1>1. Steps(t, path, Len(path)) /\ Chain(t, path, Len(path) - 1)
  BY DEF IsPath
<1>2. Len(path) = t[Root].depth + 1 /\ t[Root].depth \in Nat
      /\ path \in [1 .. Len(path) -> [n : Node, i : Nat]]
  BY <1>1, RootNode, ShapeIs DEF Steps
<1>3. Len(path) \in Nat \ {0} /\ Len(path) - 1 \in Nat /\ Len(path) \in Nat /\ Len(path) <= Len(path)
      /\ (Len(path) - 1) + 1 <= Len(path) /\ Len(path) \in 1 .. Len(path)
  BY <1>2
<1>4. /\ DOMAIN path = 1 .. Len(path)
      /\ \A j \in 1 .. Len(path) : path[j].n \in Node /\ path[j].i \in Nat
      /\ path[1].n = Root
      /\ \A j \in 1 .. Len(path) : t[path[j].n].depth = Len(path) - j
      /\ \A i, j \in 1 .. Len(path) : path[i].n = path[j].n => i = j
  BY <1>1, <1>3, StepFacts
<1>5. Steps(t, path, Len(path) - 1)
  BY <1>1, <1>3 DEF Steps
<1>6. \A j \in 1 .. (Len(path) - 1) :
              /\ Index2(t, path[j].n, path[j].i, path[j + 1].n)
              /\ path[j].i \in DOMAIN t[path[j].n].entries
              /\ path[j + 1].n \in Block
              /\ t[path[j].n].depth > 0
  BY <1>1, <1>3, <1>5, ChainFacts
<1>7. t[path[Len(path)].n].depth = 0 /\ path[Len(path)].n \in Node
  BY <1>3, <1>4
<1>8. IF t[path[Len(path)].n].entries = <<>> THEN path[Len(path)].i = 0
      ELSE path[Len(path)].i \in DOMAIN t[path[Len(path)].n].entries
  BY DEF IsPath
<1> QED
  BY <1>1, <1>2, <1>3, <1>4, <1>6, <1>7, <1>8

\* The bounds along a path can be raised as far as the entries after it allow.
LEMMA Raise ==
  ASSUME NEW t, NEW hi, Shape(t), Order(t, hi), Apart(t), NEW path, IsPath(t, path), NEW u \in Nat,
         \A j \in 1 .. Len(path) : \A m \in DOMAIN t[path[j].n].entries :
            m > path[j].i => u <= t[path[j].n].entries[m].lblk
  PROVE  \E h : /\ Order(t, h) /\ h \in [Node -> Nat]
                /\ \A n \in Node : hi[n] <= h[n]
                /\ \A j \in 1 .. Len(path) : u <= h[path[j].n]
<1> DEFINE on(n) == \E j \in 1 .. Len(path) : path[j].n = n
           h == [n \in Node |-> IF on(n) /\ hi[n] < u THEN u ELSE hi[n]]
<1>1. hi \in [Node -> Nat]
  BY DEF Order
<1>2. h \in [Node -> Nat] /\ \A n \in Node : hi[n] <= h[n] /\ (on(n) => u <= h[n])
  BY <1>1
<1>3. \A n \in Node : h[n] = hi[n] \/ (on(n) /\ h[n] = u)
  OBVIOUS
<1> HIDE DEF h
<1>4. \A j \in 1 .. Len(path) : u <= h[path[j].n]
  BY <1>2, PathIs
<1>6. ASSUME NEW n \in Node, NEW q, NEW c, Index2(t, n, q, c), on(c)
      PROVE  on(n) /\ \A j \in 1 .. Len(path) : path[j].n = n => path[j].i = q
  <2>1. PICK j \in 1 .. Len(path) : path[j].n = c
    BY <1>6
  <2>3. j # 1
    BY <1>6, IndexIs, RootNode, <2>1, PathIs
  <2>4. j - 1 \in 1 .. (Len(path) - 1) /\ (j - 1) + 1 = j /\ j - 1 \in 1 .. Len(path)
    BY PathIs, <2>3
  <2>5. Index2(t, path[j - 1].n, path[j - 1].i, c) /\ path[j - 1].n \in Node
    BY <2>1, <2>4, PathIs
  <2>6. path[j - 1].n = n /\ path[j - 1].i = q
    BY <1>6, <2>5, IndexOnce
  <2>7. \A i \in 1 .. Len(path) : path[i].n = n => i = j - 1
    <3>1. \A i, m \in 1 .. Len(path) : path[i].n = path[m].n => i = m
      BY PathIs
    <3> QED
      BY <2>4, <2>6, <3>1, Zenon
  <2> QED
    BY <2>4, <2>6, <2>7
<1> HIDE DEF on
<1>7. Order(t, h)
  <2> SUFFICES ASSUME NEW n \in Node
               PROVE  /\ \A q \in DOMAIN t[n].entries : End(t[n].entries[q]) <= h[n]
                      /\ t[n].depth > 0 =>
                         \A q \in DOMAIN t[n].entries :
                            /\ h[t[n].entries[q].pblk] <= h[n]
                            /\ \A m \in DOMAIN t[n].entries :
                                 q < m => h[t[n].entries[q].pblk] <= t[n].entries[m].lblk
    BY <1>2 DEF Order
  <2>1. ASSUME NEW q \in DOMAIN t[n].entries
        PROVE  End(t[n].entries[q]) <= h[n]
    BY EntryIs, <1>1, <1>2 DEF Order
  <2>2. ASSUME t[n].depth > 0, NEW q \in DOMAIN t[n].entries, NEW c, c = t[n].entries[q].pblk
        PROVE  /\ h[c] <= h[n]
               /\ \A m \in DOMAIN t[n].entries : q < m => h[c] <= t[n].entries[m].lblk
    <3>1. Index2(t, n, q, c)
      BY <2>2 DEF Index2
    <3>2. c \in Node
      BY <3>1, IndexIs
    <3>5. CASE h[c] = hi[c]
      BY <1>1, <1>2, <3>2, <2>2, <3>5 DEF Order
    <3>6. CASE on(c) /\ h[c] = u
      <4>1. on(n) /\ \A j \in 1 .. Len(path) : path[j].n = n => path[j].i = q
        BY <1>6, <3>1, <3>6
      <4>3. PICK j \in 1 .. Len(path) : path[j].n = n
        BY <4>1 DEF on
      <4>4. path[j].i = q
        BY <4>1, <4>3
      <4>5. \A m \in DOMAIN t[n].entries : m > q => u <= t[n].entries[m].lblk
        BY <4>3, <4>4
      <4>6. \A m \in DOMAIN t[n].entries : q < m <=> m > q
        OBVIOUS
      <4> QED
        BY <1>2, <3>6, <4>1, <4>5, <4>6
    <3> QED
      BY <1>3, <3>2, <3>5, <3>6
  <2> QED
    BY <2>1, <2>2
<1> QED
  BY <1>2, <1>4, <1>7

\* The nodes F, which only they themselves name, go.
LEMMA Drop ==
  ASSUME NEW t, NEW hi, Shape(t), Order(t, hi), Low(t, {}), Apart(t), NEW F \in SUBSET Block,
         \A m \in Node : \A k : \A b \in F : Index2(t, m, k, b) => m \in F
  PROVE  /\ Shape(Dropped(t, F)) /\ Order(Dropped(t, F), hi) /\ Low(Dropped(t, F), {})
         /\ Apart(Dropped(t, F))
         /\ \A n \in Node : \A b \in Block : Has(Dropped(t, F), n, b) <=> n \notin F /\ Has(t, n, b)
         /\ \A b \in Block : Linked(Dropped(t, F), b) <=>
                Linked(t, b) /\ b \notin F /\ \E n \in Node \ F : t[n].depth > 0 /\ Has(t, n, b)
<1> DEFINE v == Dropped(t, F)
<1>1. v = [n \in Node |-> v[n]] /\ \A n \in Node : v[n] = IF n \in F THEN NoNode ELSE t[n]
  BY DEF Dropped
<1> HIDE DEF v
<1>2. NoNode.depth = 0 /\ NoNode.entries = <<>> /\ NoNode \in [depth : Nat, entries : Seq(Ent)]
      /\ DOMAIN NoNode.entries = {}
  BY EmptySeq, EntSeq DEF NoNode
<1>3. v \in Trees
  BY <1>1, <1>2 DEF Shape, Trees
<1>4. ASSUME NEW n \in Node \ F, NEW q \in DOMAIN t[n].entries, t[n].depth > 0
      PROVE  /\ t[n].entries[q].pblk \in Node \ F /\ v[t[n].entries[q].pblk] = t[t[n].entries[q].pblk]
             /\ t[n].entries[q].len = 0 /\ t[n].entries[q].pblk \in Block
             /\ t[t[n].entries[q].pblk].depth = t[n].depth - 1
  BY <1>4, IndexIs, <1>1, EntryIs DEF Index2
<1>5. \A n \in Node : \A q \in DOMAIN v[n].entries : n \notin F /\ v[n] = t[n] /\ q \in DOMAIN t[n].entries
  BY <1>1, <1>2
<1>6. \A n \in Node : v[n].depth # 0 => n \notin F /\ v[n] = t[n] /\ t[n].depth > 0
  BY ShapeIs, <1>1, <1>2
<1> HIDE DEF NoNode
<1>7. Shape(v)
  BY <1>3, <1>5, EntryIs, <1>6, <1>4 DEF Shape, Trees
<1>8. Order(v, hi)
  <2>1. hi \in [Node -> Nat]
    BY DEF Order
  <2> SUFFICES ASSUME NEW n \in Node
               PROVE  /\ \A j, k \in DOMAIN v[n].entries :
                           j < k => End(v[n].entries[j]) <= v[n].entries[k].lblk
                      /\ \A k \in DOMAIN v[n].entries : End(v[n].entries[k]) <= hi[n]
                      /\ v[n].depth > 0 =>
                         \A k \in DOMAIN v[n].entries :
                            /\ hi[v[n].entries[k].pblk] <= hi[n]
                            /\ \A m \in DOMAIN v[n].entries :
                                 k < m => hi[v[n].entries[k].pblk] <= v[n].entries[m].lblk
    BY <2>1 DEF Order
  <2>2. CASE n \in F
    BY <1>1, <1>2, <2>2
  <2>3. CASE n \notin F
    <3> QED
      BY <1>1, <2>3 DEF Order
  <2> QED
    BY <2>2, <2>3
<1>9. Low(v, {})
  <2> SUFFICES ASSUME NEW n \in Node, NEW q \in DOMAIN v[n].entries, v[n].depth > 0,
                      NEW m \in DOMAIN v[v[n].entries[q].pblk].entries
               PROVE  v[n].entries[q].lblk <= v[v[n].entries[q].pblk].entries[m].lblk
    BY DEF Low
  <2>1. n \notin F /\ v[n] = t[n] /\ q \in DOMAIN t[n].entries
    BY <1>5
  <2>2. v[t[n].entries[q].pblk] = t[t[n].entries[q].pblk]
    BY <1>4, <2>1
  <2> QED
    BY <2>1, <2>2 DEF Low
<1>10. \A n \in Node : \A b \in Block : Has(v, n, b) <=> n \notin F /\ Has(t, n, b)
  BY <1>1, <1>5 DEF Has, Hold
<1>12. ASSUME NEW b \in Block, Linked(v, b)
       PROVE  Linked(t, b) /\ b \notin F /\ \E n \in Node \ F : t[n].depth > 0 /\ Has(t, n, b)
  <2>1. PICK n \in Node : v[n].depth > 0 /\ Has(v, n, b)
    BY <1>12 DEF Linked
  <2>2. n \notin F /\ t[n].depth > 0 /\ v[n] = t[n] /\ Has(t, n, b)
    BY <1>6, <1>10, <2>1
  <2>3. PICK k \in DOMAIN t[n].entries : Holds(t[n].entries[k], b)
    BY <2>2 DEF Has, Hold
  <2>4. t[n].entries[k].len = 0 /\ t[n].entries[k].pblk \in Node \ F
    BY <1>4, <2>2
  <2>5. b \notin F
    BY <2>3, <2>4 DEF Holds
  <2> QED
    BY <2>2, <2>5 DEF Linked
<1>13. ASSUME NEW b \in Block, NEW n \in Node \ F, t[n].depth > 0, Has(t, n, b)
       PROVE  Linked(v, b)
  BY <1>1, <1>10, <1>13 DEF Linked
<1> QED
  BY <1>5, <1>10, <1>7, <1>8, <1>9, <1>12, <1>13 DEF Apart, v

-----------------------------------------------------------------------------
(* Search.                                                                 *)

\* The last entry that does not begin after l, or the first.
LEMMA ClosestIs ==
  ASSUME NEW E \in Seq(Ent), NEW l \in Nat
  PROVE  /\ E = <<>> => Closest(E, l) = 0
         /\ E # <<>> => /\ Closest(E, l) \in DOMAIN E
                        /\ Closest(E, l) > 1 => E[Closest(E, l)].lblk <= l
                        /\ \A m \in DOMAIN E : m > Closest(E, l) => l < E[m].lblk
         /\ Closest(E, l) \in Nat
<1> DEFINE S == {1} \cup {k \in DOMAIN E : E[k].lblk <= l}
<1>1. CASE E = <<>>
  BY <1>1 DEF Closest
<1>2. CASE E # <<>>
  <2>1. Len(E) \in Nat /\ Len(E) # 0 /\ DOMAIN E = 1 .. Len(E)
    BY <1>2, EntSeq
  <2>2. S \in SUBSET (0 .. Len(E)) /\ S # {}
    BY <2>1
  <2>3. Closest(E, l) = Max(S)
    BY <1>2 DEF Closest
  <2> HIDE DEF S
  <2>4. Closest(E, l) \in S /\ \A k \in S : k <= Closest(E, l)
    BY <2>1, <2>2, <2>3, Greatest
  <2>5. Closest(E, l) \in DOMAIN E /\ (Closest(E, l) > 1 => E[Closest(E, l)].lblk <= l)
    BY <2>1, <2>4 DEF S
  <2>6. ASSUME NEW m \in DOMAIN E, m > Closest(E, l)
        PROVE  l < E[m].lblk
    <3>2. E[m].lblk \in Nat
      BY EntSeq DEF Ent
    <3> QED
      BY <2>1, <2>4, <2>5, <2>6, <3>2 DEF S
  <2> QED
    BY <1>2, <2>1, <2>5, <2>6
<1> QED
  BY <1>1, <1>2

\* It is the only entry of which that can be said.
LEMMA ClosestOnly ==
  ASSUME NEW E \in Seq(Ent), NEW l \in Nat, NEW i \in DOMAIN E, i > 1 => E[i].lblk <= l,
         \A m \in DOMAIN E : m > i => l < E[m].lblk
  PROVE  i = Closest(E, l)
<1>1. /\ E # <<>> /\ DOMAIN E = 1 .. Len(E) /\ Len(E) \in Nat
      /\ \A k \in DOMAIN E : E[k].lblk \in Nat
  BY EntSeq DEF Ent
<1>2. /\ Closest(E, l) \in DOMAIN E
      /\ Closest(E, l) > 1 => E[Closest(E, l)].lblk <= l
      /\ \A m \in DOMAIN E : m > Closest(E, l) => l < E[m].lblk
  BY <1>1, ClosestIs
<1> QED
  BY <1>1, <1>2

LEMMA HopsExist ==
  ASSUME NEW t, NEW l, NEW n \in Nat \ {0}
  PROVE  \E f : Hops(t, l, f, n)
<1> DEFINE S == {k \in 1 .. n : \E f : Hops(t, l, f, k)}
<1>1. 1 \in S
  <2> DEFINE f == [k \in 1 .. 1 |-> Hop(t, Root, l)]
  <2>1. Hops(t, l, f, 1)
    BY DEF Hops
  <2> QED
    BY <2>1
<1>2. ASSUME NEW j \in 1 .. (n - 1), j \in S
      PROVE  j + 1 \in S
  <2>1. PICK f : Hops(t, l, f, j)
    BY <1>2
  <2> DEFINE g == [k \in 1 .. (j + 1) |->
                     IF k = j + 1 THEN Hop(t, t[f[j].n].entries[f[j].i].pblk, l) ELSE f[k]]
  <2>2. \A k \in 1 .. j : f[k] = IF k = 1 THEN Hop(t, Root, l)
                                 ELSE Hop(t, t[f[k - 1].n].entries[f[k - 1].i].pblk, l)
    BY <2>1, Zenon DEF Hops
  <2>3. g = [k \in 1 .. (j + 1) |-> g[k]]
    OBVIOUS
  <2>4. \A k \in 1 .. j : g[k] = f[k] /\ k \in 1 .. (j + 1) /\ k # j + 1
    OBVIOUS
  <2>5. g[j + 1] = Hop(t, t[f[j].n].entries[f[j].i].pblk, l)
    OBVIOUS
  <2> HIDE DEF g
  <2>6. ASSUME NEW k \in 1 .. (j + 1)
        PROVE  g[k] = IF k = 1 THEN Hop(t, Root, l)
                      ELSE Hop(t, t[g[k - 1].n].entries[g[k - 1].i].pblk, l)
    BY <2>4, <2>5, <2>2
  <2>7. Hops(t, l, g, j + 1)
    BY <2>3, <2>6 DEF Hops
  <2> QED
    BY <2>7
<1> HIDE DEF S
<1>4. n \in 1 .. n
  OBVIOUS
<1> QED
  BY <1>1, <1>2, CountUp, <1>4 DEF S

LEMMA FindIs ==
  ASSUME NEW t, NEW l, t[Root].depth \in Nat
  PROVE  Hops(t, l, FindIn(t, l), t[Root].depth + 1)
<1> DEFINE n == t[Root].depth + 1
<1>2. FindIn(t, l) = CHOOSE f : Hops(t, l, f, n)
  BY DEF FindIn, Hops, Hop
<1> QED
  BY HopsExist, <1>2

\* A path with the place for l in it is what the search finds.
LEMMA FindOnly ==
  ASSUME NEW t, Shape(t), NEW path, IsPath(t, path), NEW l \in Nat, NEW u \in Nat, l < u,
         Between(t, path, l, u)
  PROVE  FindIn(t, l) = path
<1> DEFINE f == FindIn(t, l)
           n == Len(path)
<1>1. Hops(t, l, f, n)
  BY PathIs, RootNode, ShapeIs, FindIs
<1> HIDE DEF f
<1>2. f = [k \in 1 .. n |-> f[k]]
  BY <1>1 DEF Hops
<1>20. \A k \in 1 .. n : f[k] = IF k = 1 THEN Hop(t, Root, l)
                                 ELSE Hop(t, t[f[k - 1].n].entries[f[k - 1].i].pblk, l)
  BY <1>1, Zenon DEF Hops
<1>3. ASSUME NEW j \in 1 .. n
      PROVE  path[j] = Hop(t, path[j].n, l)
  <2>1. path[j].n \in Node /\ path[j] \in [n : Node, i : Nat]
    BY PathIs
  <2>2. path[j] = [n |-> path[j].n, i |-> path[j].i]
    BY <2>1
  <2>3. /\ t[path[j].n].entries \in Seq(Ent)
        /\ \A m \in DOMAIN t[path[j].n].entries : t[path[j].n].entries[m].lblk \in Nat
    BY <2>1, ShapeIs, EntryIs
  <2>4. CASE t[path[j].n].entries = <<>>
    <3>2. j = n
      <4>2. j # n => j \in 1 .. (n - 1)
        BY PathIs
      <4> QED
        BY <2>1, <2>4, ShapeIs, <4>2, PathIs
    <3>3. path[j].i = 0
      BY <2>4, <3>2, PathIs
    <3> QED
      BY <2>2, <2>3, <2>4, <3>3, ClosestIs DEF Hop
  <2>5. CASE t[path[j].n].entries # <<>>
    <3>1. path[j].i \in DOMAIN t[path[j].n].entries
      <4> QED
        BY PathIs, <2>5
    <3>2. /\ path[j].i > 1 => t[path[j].n].entries[path[j].i].lblk <= l
          /\ \A m \in DOMAIN t[path[j].n].entries :
               m > path[j].i => u <= t[path[j].n].entries[m].lblk
      BY PathIs DEF Between
    <3>3. \A m \in DOMAIN t[path[j].n].entries :
               m > path[j].i => l < t[path[j].n].entries[m].lblk
      BY <2>3, <3>2
    <3> QED
      BY <2>3, <3>1, <3>2, <3>3, ClosestOnly, <2>2 DEF Hop
  <2> QED
    BY <2>4, <2>5
<1> DEFINE S == {k \in 1 .. n : f[k] = path[k]}
<1>4. n \in Nat /\ 1 \in 1 .. n
  BY PathIs
<1>5. 1 \in S
  <2>1. f[1] = Hop(t, Root, l)
    BY <1>4, <1>20
  <2>2. path[1].n = Root
    BY PathIs
  <2> QED
    BY <1>3, <1>4, <2>1, <2>2
<1>6. ASSUME NEW j \in 1 .. (n - 1), j \in S
      PROVE  j + 1 \in S
  <2>1. j + 1 \in 1 .. n /\ j + 1 # 1 /\ (j + 1) - 1 = j /\ f[j] = path[j]
    BY <1>4, <1>6
  <2>2. t[path[j].n].entries[path[j].i].pblk = path[j + 1].n
    BY PathIs DEF Index2
  <2>3. f[j + 1] = Hop(t, path[j + 1].n, l)
    BY <1>20, <2>1, <2>2
  <2> QED
    BY <1>3, <2>1, <2>3
<1>7. \A j \in 1 .. n : f[j] = path[j]
  <2> HIDE DEF S
  <2> QED
    BY <1>4, <1>5, <1>6, CountUp DEF S
<1> QED
  BY PathIs, <1>2, <1>7 DEF f

LEMMA OneOn ==
  ASSUME NEW n \in Nat, NEW j \in 1 .. (n - 1)
  PROVE  j \in 1 .. n /\ j + 1 \in 1 .. n /\ j + 1 # 1 /\ (j + 1) - 1 = j /\ n - j # 0
         /\ (n - j) - 1 = n - (j + 1) /\ n - j > 0
  OBVIOUS

\* In a tree without empty nodes below the root the search finds a path.
LEMMA FindPath ==
  ASSUME NEW t, Shape(t), Filled(t, {}), t[Root].entries = <<>> => t[Root].depth = 0, NEW l \in Nat
  PROVE  IsPath(t, FindIn(t, l)) /\ Between(t, FindIn(t, l), l, l + 1)
<1> DEFINE f == FindIn(t, l)
           n == t[Root].depth + 1
<1>1. t[Root].depth \in Nat /\ n \in Nat \ {0} /\ n \in Nat /\ n - 1 \in Nat /\ n \in 1 .. n
  BY RootNode, ShapeIs
<1>2. Hops(t, l, f, n)
  BY <1>1, FindIs
<1> HIDE DEF f
<1>3. f = [k \in 1 .. n |-> f[k]]
  BY <1>2 DEF Hops
<1>20. \A k \in 1 .. n : f[k] = IF k = 1 THEN Hop(t, Root, l)
                                 ELSE Hop(t, t[f[k - 1].n].entries[f[k - 1].i].pblk, l)
  BY <1>2, Zenon DEF Hops
<1>21. 1 \in 1 .. n /\ f[1] = Hop(t, Root, l)
  <2>1. 1 \in 1 .. n
    BY <1>1
  <2> QED
    BY <1>20, <2>1
<1> DEFINE good(k) == /\ f[k] = Hop(t, f[k].n, l) /\ f[k].n \in Node
                      /\ t[f[k].n].depth = n - k
                      /\ t[f[k].n].entries = <<>> => t[f[k].n].depth = 0
           S == {k \in 1 .. n : good(k)}
<1>4. 1 \in S
  <2>1. f[1] = Hop(t, Root, l) /\ f[1].n = Root
    BY <1>21 DEF Hop
  <2> QED
    BY <1>1, <2>1, RootNode
<1>5. ASSUME NEW x \in Node
      PROVE  /\ Hop(t, x, l).n = x /\ Hop(t, x, l).i \in Nat
             /\ t[x].entries = <<>> => Hop(t, x, l).i = 0
             /\ t[x].entries # <<>> => Hop(t, x, l).i \in DOMAIN t[x].entries
             /\ Hop(t, x, l).i > 1 => t[x].entries[Hop(t, x, l).i].lblk <= l
             /\ \A m \in DOMAIN t[x].entries :
                   m > Hop(t, x, l).i => l + 1 <= t[x].entries[m].lblk
  <2>1. t[x].entries \in Seq(Ent) /\ Hop(t, x, l).i = Closest(t[x].entries, l)
        /\ Hop(t, x, l).n = x
    BY ShapeIs DEF Hop
  <2>2. t[x].entries = <<>> => DOMAIN t[x].entries = {}
    BY ShapeIs
  <2>3. \A m \in DOMAIN t[x].entries : t[x].entries[m].lblk \in Nat
    BY EntryIs
  <2>4. /\ t[x].entries = <<>> => Closest(t[x].entries, l) = 0
        /\ t[x].entries # <<>> =>
                        /\ Closest(t[x].entries, l) \in DOMAIN t[x].entries
                        /\ Closest(t[x].entries, l) > 1 => t[x].entries[Closest(t[x].entries, l)].lblk <= l
                        /\ \A m \in DOMAIN t[x].entries : m > Closest(t[x].entries, l) => l < t[x].entries[m].lblk
         /\ Closest(t[x].entries, l) \in Nat
    BY <2>1, ClosestIs
  <2>5. \A m \in DOMAIN t[x].entries : m > Closest(t[x].entries, l) => l + 1 <= t[x].entries[m].lblk
    BY <2>2, <2>3, <2>4
  <2> QED
    BY <2>1, <2>2, <2>4, <2>5
<1>6. ASSUME NEW j \in 1 .. (n - 1), good(j)
      PROVE  /\ f[j].i \in DOMAIN t[f[j].n].entries
             /\ t[f[j].n].entries[f[j].i].pblk = f[j + 1].n
             /\ good(j + 1)
  <2>1. j \in 1 .. n /\ j + 1 \in 1 .. n /\ j + 1 # 1 /\ (j + 1) - 1 = j /\ n - j # 0
        /\ (n - j) - 1 = n - (j + 1) /\ n - j > 0
    BY <1>1, <1>6, OneOn
  <2> DEFINE c == t[f[j].n].entries[f[j].i].pblk
  <2>2. t[f[j].n].entries # <<>> /\ t[f[j].n].depth # 0 /\ t[f[j].n].depth > 0
    BY <1>6, <2>1
  <2>3. f[j].i \in DOMAIN t[f[j].n].entries
    BY <1>5, <1>6, <2>2
  <2>4. Index2(t, f[j].n, f[j].i, c)
    BY <2>2, <2>3 DEF Index2
  <2>5. f[j + 1] = Hop(t, c, l)
    <3>1. f[j + 1] = Hop(t, t[f[(j + 1) - 1].n].entries[f[(j + 1) - 1].i].pblk, l)
      BY <1>20, <2>1
    <3> QED
      BY <2>1, <3>1
  <2>6. c \in Node /\ c \in Block /\ Linked(t, c) /\ t[c].depth = t[f[j].n].depth - 1
    <3>1. f[j].n \in Node
      BY <1>6
    <3> HIDE DEF c, good
    <3> QED
      BY <2>4, <3>1, IndexIs
  <2>7. f[j + 1].n = c
    BY <1>5, <2>5, <2>6, Zenon
  <2>8. t[c].entries # <<>>
    BY <2>6, Zenon DEF Filled
  <2> QED
    BY <1>6, <2>1, <2>3, <2>5, <2>6, <2>7, <2>8, Zenon
<1>7. \A j \in 1 .. n : good(j)
  <2>1. \A j \in 1 .. (n - 1) : j \in S => j + 1 \in S
    BY <1>1, <1>6
  <2> HIDE DEF S
  <2>2. \A j \in 1 .. n : j \in S
    BY <1>1, <1>4, <2>1, CountUp
  <2> QED
    BY <2>2 DEF S
<1>8. ASSUME NEW j \in 1 .. n
      PROVE  /\ f[j].n \in Node /\ f[j].i \in Nat /\ f[j] \in [n : Node, i : Nat]
             /\ t[f[j].n].depth = n - j
             /\ t[f[j].n].entries = <<>> => f[j].i = 0
             /\ t[f[j].n].entries # <<>> => f[j].i \in DOMAIN t[f[j].n].entries
             /\ f[j].i > 1 => t[f[j].n].entries[f[j].i].lblk <= l
             /\ \A m \in DOMAIN t[f[j].n].entries :
                   m > f[j].i => l + 1 <= t[f[j].n].entries[m].lblk
  <2>1. good(j)
    BY <1>7
  <2>2. f[j] = Hop(t, f[j].n, l) /\ f[j].n \in Node
    BY <2>1
  <2>3. Hop(t, f[j].n, l) = [n |-> f[j].n, i |-> Hop(t, f[j].n, l).i]
    BY DEF Hop
  <2>4. Hop(t, f[j].n, l).i \in Nat
    BY <1>5, <2>2
  <2>5. f[j] \in [n : Node, i : Nat]
    BY <2>2, <2>3, <2>4
  <2> QED
    BY <1>5, <2>1, <2>2, <2>5
<1>9. f \in Seq([n : Node, i : Nat]) /\ Len(f) = n /\ DOMAIN f = 1 .. n
  <2>1. f = [k \in 1 .. n |-> f[k]]
    BY <1>3
  <2>2. \A k \in 1 .. n : f[k] \in [n : Node, i : Nat]
    BY <1>8
  <2> HIDE DEF n
  <2> QED
    <3>1. f \in [1 .. n -> [n : Node, i : Nat]]
      BY <2>1, <2>2
    <3>2. n \in Nat
      BY <1>1
    <3> HIDE DEF n
    <3> QED
      BY <3>1, <3>2, FunctionIsSeq
<1>10. f[1].n = Root
  BY <1>21 DEF Hop
<1>11. Steps(t, f, n)
  <2>1. f \in [1 .. n -> [n : Node, i : Nat]]
    BY <1>3, <1>8, Zenon
  <2> QED
    BY <1>8, <1>9, <1>10, <2>1 DEF Steps
<1>12. Chain(t, f, n - 1)
  <2>1. \A j \in 1 .. (n - 1) : j \in 1 .. n
    BY <1>1
  <2>2. \A j \in 1 .. (n - 1) : good(j)
    BY <1>7, <2>1
  <2> QED
    BY <1>6, <2>2 DEF Chain
<1>13. IsPath(t, f)
  BY <1>1, <1>8, <1>9, <1>11, <1>12 DEF IsPath
<1>14. Between(t, f, l, l + 1)
  BY <1>8, <1>9 DEF Between
<1> QED
  BY <1>13, <1>14 DEF f

-----------------------------------------------------------------------------
(* Changes of a leaf.                                                      *)

LEMMA WithIs ==
  ASSUME NEW t \in Trees, NEW n \in Node, NEW E \in Seq(Ent)
  PROVE  /\ [t EXCEPT ![n].entries = E] = With(t, n, E) /\ With(t, n, E) \in Trees
         /\ With(t, n, E)[n].depth = t[n].depth /\ With(t, n, E)[n].entries = E
         /\ \A m \in Node : m # n => With(t, n, E)[m] = t[m]
         /\ \A m \in Node : With(t, n, E)[m].depth = t[m].depth
<1>1. t[n] \in [depth : Nat, entries : Seq(Ent)]
  BY DEF Trees
<1>2. [t[n] EXCEPT !.entries = E] = [depth |-> t[n].depth, entries |-> E]
  BY <1>1
<1>4. /\ With(t, n, E) \in Trees
      /\ With(t, n, E)[n].depth = t[n].depth /\ With(t, n, E)[n].entries = E
      /\ \A m \in Node : m # n => With(t, n, E)[m] = t[m]
  <2>1. t[n].depth \in Nat
    BY <1>1
  <2> QED
    BY <2>1, ReplaceIs DEF With
<1> QED
  BY <1>2, <1>4 DEF With, Replace

LEMMA LeafReplaced ==
  ASSUME NEW t, NEW hi, Tree(t, hi), NEW n \in Node, t[n].depth = 0, NEW E \in Seq(Ent), NEW X,
         \A k \in DOMAIN E : E[k].len # 0 /\ End(E[k]) <= hi[n],
         \A j, k \in DOMAIN E : j < k => End(E[j]) <= E[k].lblk,
         \A m \in Node : \A k : Index2(t, m, k, n) =>
            <<m, k>> \in X \/ \A j \in DOMAIN E : t[m].entries[k].lblk <= E[j].lblk,
         Mine(t, n, E)
  PROVE  /\ Shape(With(t, n, E)) /\ Order(With(t, n, E), hi) /\ Low(With(t, n, E), X)
         /\ Apart(With(t, n, E))
         /\ \A b \in Block : b \in Owned(With(t, n, E)) <=>
                               (b \in Owned(t) /\ ~Has(t, n, b)) \/ Hold(E, b)
         /\ \A b \in Block : Linked(With(t, n, E), b) <=> Linked(t, b)
<1>1. Shape(t) /\ Order(t, hi) /\ Low(t, {}) /\ Apart(t)
  BY DEF Tree
<1>2. hi \in [Node -> Nat] /\ hi[n] \in Nat /\ [hi EXCEPT ![n] = hi[n]] = hi
  BY <1>1 DEF Order
<1>3. Sorted(E, t[n].depth, hi, hi[n]) /\ Fits(t, n, t[n].depth, E)
  BY DEF Sorted, Fits
<1>4. t[n].depth \in Nat /\ hi[n] <= hi[n]
  BY <1>1, <1>2, ShapeIs
<1>5. Under(t, n, t[n].depth, hi, hi[n], X, E)
  BY <1>4 DEF Under
<1>6. /\ Shape(With(t, n, E)) /\ Order(With(t, n, E), [hi EXCEPT ![n] = hi[n]])
      /\ Low(With(t, n, E), X) /\ Apart(With(t, n, E))
      /\ \A b \in Block : b \in Owned(With(t, n, E)) <=>
                            (b \in Owned(t) /\ ~Has(t, n, b)) \/ Hold(E, b)
      /\ \A b \in Block : Linked(With(t, n, E), b) <=>
                            \/ Linked(t, b) /\ ~(t[n].depth > 0 /\ Has(t, n, b))
                            \/ t[n].depth > 0 /\ Hold(E, b)
  <2> DEFINE d == t[n].depth
             u == hi[n]
  <2>1. /\ d \in Nat /\ u \in Nat /\ Sorted(E, d, hi, u) /\ Fits(t, n, d, E)
        /\ Under(t, n, d, hi, u, X, E)
    BY <1>2, <1>3, <1>4, <1>5, Zenon
  <2> HIDE DEF d, u
  <2> QED
    BY <1>1, <2>1, Replaced DEF With, d, u
<1>7. ~(t[n].depth > 0)
  OBVIOUS
<1> QED
  BY <1>2, <1>6, <1>7

\* Nodes of the path have changed, and only the last may have become empty.
LEMMA PathChanged ==
  ASSUME NEW t, Shape(t), NEW path, IsPath(t, path), NEW v, v \in Trees,
         \A b \in Block : Linked(v, b) <=> Linked(t, b),
         \A m \in Node : v[m] = t[m] \/ \E j \in 1 .. Len(path) : path[j].n = m,
         \A m \in Node : v[m].entries = <<>> => t[m].entries = <<>> \/ m = Tip(path).n,
         v[Root].depth = t[Root].depth, RootOK(t),
         NEW X, Nodes(t, X), NEW Y, Filled(t, Y)
  PROVE  /\ RootOK(v) /\ Nodes(v, X)
         /\ v[Tip(path).n].entries # <<>> => Filled(v, Y \ {Tip(path).n})
         /\ Filled(v, Y \cup {Tip(path).n})
<1>1. /\ Len(path) \in Nat \ {0} /\ path[1].n = Root
      /\ \A j \in 1 .. (Len(path) - 1) : /\ path[j].n \in Node /\ path[j + 1].n \in Block
                                         /\ Index2(t, path[j].n, path[j].i, path[j + 1].n)
      /\ Len(path) = t[Root].depth + 1
      /\ Tip(path).n \in Node
  <2>1. /\ Len(path) \in Nat \ {0} /\ path[1].n = Root
        /\ \A j \in 1 .. Len(path) : path[j].n \in Node
        /\ \A j \in 1 .. (Len(path) - 1) : path[j + 1].n \in Block
                                           /\ Index2(t, path[j].n, path[j].i, path[j + 1].n)
        /\ Len(path) = t[Root].depth + 1
        /\ path[Len(path)].n \in Node
    BY PathIs
  <2> QED
    BY <2>1 DEF Tip
<1>2. \A j \in 2 .. Len(path) : Linked(t, path[j].n)
  <2> SUFFICES ASSUME NEW j \in 2 .. Len(path)
               PROVE  Linked(t, path[j].n)
    OBVIOUS
  <2>1. j - 1 \in 1 .. (Len(path) - 1) /\ (j - 1) + 1 = j
    BY <1>1
  <2> QED
    BY <1>1, <2>1, IndexIs
<1>3. Nodes(v, X)
  <2> SUFFICES ASSUME NEW b \in Block, v[b] # NoNode
               PROVE  Linked(t, b) \/ b \in X
    BY DEF Nodes
  <2>1. CASE v[b] = t[b]
    BY <2>1 DEF Nodes
  <2>2. CASE \E j \in 1 .. Len(path) : path[j].n = b
    <3>1. PICK j \in 1 .. Len(path) : path[j].n = b
      BY <2>2
    <3> QED
      BY <1>1, <3>1, RootNode, <1>2
  <2> QED
    BY <2>1, <2>2, RootNode
<1>4. RootOK(v)
  BY RootNode, PathIs DEF RootOK, Tip
<1>5. ASSUME NEW b \in Block, Linked(v, b), v[b].entries = <<>>, b # Tip(path).n
      PROVE  b \in Y
  BY <1>5, RootNode DEF Filled
<1> QED
  BY <1>3, <1>4, <1>5 DEF Filled

LEMMA RestWhole ==
  ASSUME NEW t, NEW hi, NEW c, NEW f, NEW g, Tree(t, hi), Parted(Owned(t), f, g, {}, {}),
         Nodes(t, {}), Filled(t, {}), RootOK(t), c.at \in {"idle", "again"}
  PROVE  Whole(t, hi, c, f, g)
<1> QED
  BY DEF NewOf, TopOf, BareOf, Whole, RootOK

-----------------------------------------------------------------------------
(* The new extent enters a leaf.                                           *)

\* What is known when ext4_ext_insert_extent tries.
LEMMA InsertFacts ==
  ASSUME NEW hi, Whole(tree, hi, call, free, foreign), call.at = "insert"
  PROVE  /\ Tree(tree, hi) /\ Shape(tree) /\ Order(tree, hi) /\ Low(tree, {}) /\ Apart(tree)
         /\ tree \in Trees /\ hi \in [Node -> Nat]
         /\ InsertOK(tree, call) /\ InsertCall(call) /\ IsPath(tree, call.path)
         /\ call.new \in Ent /\ call.new.len # 0 /\ call.combine \in BOOLEAN /\ call.fresh = <<>>
         /\ call.new.lblk \in Nat /\ End(call.new) \in Nat /\ call.new.lblk < End(call.new)
         /\ End(call.new) = call.new.lblk + call.new.len
         /\ call.new.len \in Nat /\ call.new.pblk \in Nat
         /\ Between(tree, call.path, call.new.lblk, End(call.new))
         /\ Clear(tree, call.path, call.new.lblk, End(call.new))
         /\ Parted(Owned(tree), free, foreign, {b \in Block : Holds(call.new, b)}, {})
         /\ Nodes(tree, {}) /\ Filled(tree, {Tip(call.path).n}) /\ RootOK(tree)
<1>1. /\ Tree(tree, hi) /\ InsertOK(tree, call) /\ call.fresh = <<>> /\ RootOK(tree)
      /\ Parted(Owned(tree), free, foreign, NewOf(call), TopOf(call))
      /\ Nodes(tree, TopOf(call)) /\ Filled(tree, BareOf(call))
  BY DEF Whole, RootOK
<1>3. call.new \in Ent /\ call.new.len # 0
  BY <1>1 DEF InsertOK
<1>5. Shape(tree) /\ Order(tree, hi) /\ Low(tree, {}) /\ Apart(tree)
  BY <1>1 DEF Tree
<1>6. tree \in Trees /\ hi \in [Node -> Nat]
  BY <1>5 DEF Shape, Order, Trees
<1> QED
  BY <1>3, <1>1, <1>5, <1>6 DEF Ent, End, NewOf, TopOf, BareOf, Tip, InsertOK

\* The bounds on the path can be taken behind the new extent.
LEMMA InsertRaise ==
  ASSUME NEW hi, Whole(tree, hi, call, free, foreign), call.at \in {"insert"}
  PROVE  \E h : /\ Tree(tree, h) /\ h \in [Node -> Nat]
                /\ \A j \in 1 .. Len(call.path) : End(call.new) <= h[call.path[j].n]
                /\ \A n \in Node : hi[n] <= h[n]
<1>1. /\ Shape(tree) /\ Order(tree, hi) /\ Low(tree, {}) /\ Apart(tree) /\ IsPath(tree, call.path)
      /\ End(call.new) \in Nat /\ Between(tree, call.path, call.new.lblk, End(call.new))
  BY InsertFacts
<1>2. \A j \in 1 .. Len(call.path) : \A m \in DOMAIN tree[call.path[j].n].entries :
            m > call.path[j].i => End(call.new) <= tree[call.path[j].n].entries[m].lblk
  BY <1>1, PathIs DEF Between
<1> QED
  BY <1>1, <1>2, Raise DEF Tree

\* How a call goes on after an insertion that has succeeded.
LEMMA InsertedRests ==
  ASSUME NEW pos, Inserted(pos), InsertCall(call)
  PROVE  call'.at \in {"idle", "again"}
<1>1. CASE call.then = {}
  BY <1>1 DEF Inserted, Return, Idle
<1>2. CASE call.then # {}
  <2> DEFINE q == [call.path EXCEPT ![Len(call.path)].i = pos]
  <2>1. call' = [[call EXCEPT !.at = "again"] EXCEPT !.path = q]
    BY <1>2 DEF Inserted, InsertCall
  <2> HIDE DEF q
  <2> QED
    BY <2>1 DEF InsertCall
<1> QED
  BY <1>1, <1>2

\* The blocks of a new extent become the leaf's.
LEMMA EnteredParts ==
  ASSUME NEW o, NEW f, NEW g, NEW w, Parted(o, f, g, w, {}), NEW o2,
         \A b \in Block : b \in o2 <=> b \in o \/ b \in w, o2 \subseteq Block
  PROVE  Parted(o2, f, g, {}, {})
<1> QED
  BY DEF Parted

LEMMA LenIs ==
  ASSUME NEW e \in Ent, NEW k \in Nat
  PROVE  /\ [e EXCEPT !.len = k] \in Ent /\ [e EXCEPT !.len = k].lblk = e.lblk
         /\ [e EXCEPT !.len = k].pblk = e.pblk /\ [e EXCEPT !.len = k].len = k
         /\ e.lblk \in Nat /\ e.len \in Nat /\ e.pblk \in Nat
BY DEF Ent

LEMMA EntryChange ==
  ASSUME NEW E \in Seq(Ent), NEW i \in DOMAIN E, NEW e \in Ent
  PROVE  /\ [E EXCEPT ![i] = e] \in Seq(Ent) /\ Len([E EXCEPT ![i] = e]) = Len(E)
         /\ DOMAIN [E EXCEPT ![i] = e] = DOMAIN E /\ DOMAIN E = 1 .. Len(E) /\ Len(E) \in Nat
         /\ \A k \in DOMAIN E : [E EXCEPT ![i] = e][k] = IF k = i THEN e ELSE E[k]
<1> QED
  BY EntSeq, ExceptSeq

\* Two extents side by side, and the one that takes their place.
LEMMA JoinedHolds ==
  ASSUME NEW a \in Ent, NEW b \in Ent, NEW c \in Ent, a.len # 0, b.len # 0,
         a.pblk + a.len = b.pblk, c.pblk = a.pblk, c.len = a.len + b.len, NEW x \in Nat
  PROVE  Holds(c, x) <=> Holds(a, x) \/ Holds(b, x)
<1>1. /\ a.pblk \in Nat /\ a.len \in Nat /\ b.pblk \in Nat /\ b.len \in Nat
      /\ c.pblk \in Nat /\ c.len \in Nat /\ c.len # 0
  BY DEF Ent
<1> QED
  BY <1>1 DEF Holds

LEMMA AppendKeeps ==
  ASSUME NEW hi, Whole(tree, hi, call, free, foreign), AppendToCur
  PROVE  \E h : Whole(tree', h, call', free', foreign')
<1> DEFINE p == call.path
           n == Tip(p).n
           i == Tip(p).i
           E == tree[n].entries
           new == call.new
           e == [E[i] EXCEPT !.len = E[i].len + new.len]
           F == [E EXCEPT ![i] = e]
<1>0. call.at = "insert"
  BY DEF AppendToCur
<1>1. /\ Tree(tree, hi) /\ Shape(tree) /\ Apart(tree) /\ Low(tree, {}) /\ tree \in Trees
      /\ IsPath(tree, p) /\ InsertCall(call)
      /\ new \in Ent /\ new.len \in Nat /\ new.len # 0 /\ new.lblk \in Nat /\ End(new) \in Nat
      /\ End(new) = new.lblk + new.len
      /\ Between(tree, p, new.lblk, End(new))
      /\ Parted(Owned(tree), free, foreign, {b \in Block : Holds(new, b)}, {})
      /\ Nodes(tree, {}) /\ Filled(tree, {n}) /\ RootOK(tree)
  BY <1>0, InsertFacts
<1>2. PICK h : /\ Tree(tree, h) /\ h \in [Node -> Nat]
               /\ \A j \in 1 .. Len(p) : End(new) <= h[p[j].n]
  BY <1>0, InsertRaise
<1>3. /\ Len(p) \in Nat \ {0} /\ Len(p) \in 1 .. Len(p) /\ n \in Node /\ tree[n].depth = 0
      /\ IF E = <<>> THEN i = 0 ELSE i \in DOMAIN E
      /\ DOMAIN p = 1 .. Len(p)
  BY <1>1, PathIs DEF Tip
<1>4. /\ i > 0 /\ CanMerge(E[i], E[i], new)
      /\ tree' = [tree EXCEPT ![n].entries[i].len = E[i].len + new.len]
      /\ Inserted(i) /\ free' = free /\ foreign' = foreign
  BY Zenon DEF AppendToCur, HasCur, CurEntry, CurHop, Entry, Last, Tip
<1>5. i \in DOMAIN E /\ E # <<>> /\ E \in Seq(Ent) /\ E[i] \in Ent /\ E[i].len # 0
  <2>1. i \in DOMAIN E /\ E # <<>>
    <3>1. i > 0 /\ (IF E = <<>> THEN i = 0 ELSE i \in DOMAIN E)
      BY <1>3, <1>4, Zenon
    <3> HIDE DEF i, E
    <3>2. CASE E = <<>>
      BY <3>1, <3>2
    <3>3. CASE E # <<>>
      BY <3>1, <3>3
    <3> QED
      BY <3>2, <3>3
  <2>2. E \in Seq(Ent)
    BY <1>1, <1>3, ShapeIs
  <2> HIDE DEF n, i
  <2> QED
    BY <1>1, <1>3, <2>1, EntryIs, <2>2
<1>6. E[i].pblk + E[i].len = new.pblk /\ E[i].lblk + E[i].len = new.lblk
  BY <1>4, Zenon DEF CanMerge
<1>7. /\ e \in Ent /\ e.lblk = E[i].lblk /\ e.pblk = E[i].pblk /\ e.len = E[i].len + new.len
      /\ e.len # 0 /\ End(e) = End(new)
  <2> HIDE DEF E, i, new
  <2>0. E[i] \in Ent /\ new \in Ent
    BY <1>1, <1>5
  <2>2. /\ e \in Ent /\ e.lblk = E[i].lblk /\ e.pblk = E[i].pblk /\ e.len = E[i].len + new.len
        /\ E[i].lblk \in Nat /\ E[i].len \in Nat
    BY <2>0, LenIs DEF Ent
  <2> HIDE DEF e
  <2> QED
    BY <1>1, <1>5, <1>6, <2>2 DEF End
<1>8. tree' = With(tree, n, F)
  <2>1. tree' = [tree EXCEPT ![n].entries = F]
    BY <1>4, Zenon
  <2>2. F \in Seq(Ent)
    BY <1>5, <1>7, EntryChange, Zenon
  <2> HIDE DEF F, n
  <2> QED
    BY <1>1, <1>3, <2>1, <2>2, WithIs
<1>9. /\ F \in Seq(Ent) /\ Len(F) = Len(E) /\ DOMAIN F = DOMAIN E /\ DOMAIN E = 1 .. Len(E) /\ Len(E) \in Nat
      /\ \A k \in DOMAIN E : F[k] = IF k = i THEN e ELSE E[k]
  <2> HIDE DEF e, E, i
  <2> QED
    BY <1>5, <1>7, EntryChange
<1> HIDE DEF F, e, E, i, n, p, new
<1>10. \A b \in Block : Holds(e, b) <=> Holds(E[i], b) \/ Holds(new, b)
  BY RootNode, <1>1, <1>5, <1>6, <1>7, JoinedHolds
<1>11. \A b \in Block : Hold(F, b) <=> Has(tree, n, b) \/ Holds(new, b)
  BY <1>5, <1>9, <1>10 DEF Hold, Has, E
<1>12. \A b \in Block : Holds(new, b) => b \notin Owned(tree)
  BY <1>1 DEF Parted
<1>13. Mine(tree, n, F)
  <2>1. ASSUME NEW j \in DOMAIN F, NEW k \in DOMAIN F, NEW b \in Block, Holds(F[j], b), Holds(F[k], b)
        PROVE  j = k
    <3>1. \A m \in DOMAIN E : Holds(E[m], b) => b \in Owned(tree)
      BY <1>3 DEF E, Owned, Has, Hold
    <3>3. \A m \in DOMAIN E : Holds(F[m], b) => Holds(E[m], b) \/ (m = i /\ Holds(new, b))
      BY <1>9, <1>10
    <3> QED
      BY <1>1, <1>3, <1>9, <1>12, <2>1, <3>1, <3>3 DEF Apart, E
  <2> QED
    BY <1>11, <1>12, <2>1 DEF Mine
<1>14. Order(tree, h) /\ h[n] \in Nat /\ End(new) <= h[n]
  BY <1>2, <1>3 DEF Tree, n, Tip
<1>15. \A k \in DOMAIN E : /\ E[k].lblk \in Nat /\ End(E[k]) \in Nat /\ E[k].len # 0
                           /\ End(E[k]) <= h[n]
  BY <1>1, <1>3, <1>14, EntryIs DEF E, Order
<1>16. \A k \in DOMAIN F : F[k].len # 0 /\ End(F[k]) <= h[n]
  BY <1>7, <1>9, <1>14, <1>15
<1>17. ASSUME NEW j \in DOMAIN F, NEW k \in DOMAIN F, j < k
       PROVE  End(F[j]) <= F[k].lblk
  <2>1. End(E[j]) <= E[k].lblk /\ F[k].lblk = E[k].lblk
    BY <1>3, <1>7, <1>9, <1>14, <1>17 DEF E, Order
  <2>2. CASE j = i
    <3>1. k > i /\ F[j] = e
      BY <1>9, <1>17, <2>2
    <3>2. End(new) <= E[k].lblk
      BY <1>1, <1>3, <1>9, <3>1 DEF Between, E, i, n, Tip
    <3> QED
      BY <1>7, <2>1, <3>1, <3>2
  <2>3. CASE j # i
    BY <1>9, <2>1, <2>3
  <2> QED
    BY <2>2, <2>3
<1>18. \A m \in Node : \A k : Index2(tree, m, k, n) =>
          <<m, k>> \in {} \/ \A j \in DOMAIN F : tree[m].entries[k].lblk <= F[j].lblk
  <2> QED
    BY <1>7, <1>9, <1>1 DEF Low, Index2, E
<1>19. /\ Shape(tree') /\ Order(tree', h) /\ Low(tree', {}) /\ Apart(tree')
       /\ \A b \in Block : b \in Owned(tree') <=> (b \in Owned(tree) /\ ~Has(tree, n, b)) \/ Hold(F, b)
       /\ \A b \in Block : Linked(tree', b) <=> Linked(tree, b)
  BY <1>2, <1>3, <1>8, <1>9, <1>13, <1>16, <1>17, <1>18, LeafReplaced
<1>20. /\ tree' \in Trees /\ tree'[n].entries = F /\ tree'[n].depth = tree[n].depth
       /\ \A m \in Node : m # n => tree'[m] = tree[m]
       /\ \A m \in Node : tree'[m].depth = tree[m].depth
  BY <1>1, <1>3, <1>8, <1>9, WithIs
<1>21. tree'[n].entries # <<>>
  BY <1>5, <1>9, <1>20, EntSeq
<1>22. RootOK(tree') /\ Nodes(tree', {}) /\ Filled(tree', {})
  <2>1. \A m \in Node : tree'[m] = tree[m] \/ \E j \in 1 .. Len(p) : p[j].n = m
    BY <1>3, <1>20 DEF n, Tip
  <2>2. \A m \in Node : tree'[m].entries = <<>> => tree[m].entries = <<>> \/ m = Tip(p).n
    BY <1>20 DEF n
  <2>3. RootOK(tree') /\ Nodes(tree', {}) /\ Filled(tree', {n} \ {n})
    BY <1>1, <1>19, <1>20, <1>21, <2>1, <2>2, RootNode, PathChanged DEF n
  <2> QED
    BY <2>3
<1>24. \A b \in Block : b \in Owned(tree') <=> b \in Owned(tree) \/ b \in {a \in Block : Holds(new, a)}
  BY <1>3, <1>11, <1>19 DEF Owned
<1>26. Tree(tree', h)
  BY <1>19 DEF Tree
<1>27. call'.at \in {"idle", "again"}
  BY <1>1, <1>4, InsertedRests
<1> QED
  BY <1>1, <1>4, <1>24, EnteredParts, <1>22, <1>26, <1>27, RestWhole DEF Owned

\* An entry put where its place is among the others.
LEMMA InsertedSorted ==
  ASSUME NEW E \in Seq(Ent), NEW p \in 1 .. (Len(E) + 1), NEW e \in Ent,
         \A j, k \in DOMAIN E : j < k => End(E[j]) <= E[k].lblk,
         \A m \in DOMAIN E : m < p => End(E[m]) <= e.lblk,
         \A m \in DOMAIN E : m >= p => End(e) <= E[m].lblk
  PROVE  \A j, k \in DOMAIN InsertAt(E, p, e) :
            j < k => End(InsertAt(E, p, e)[j]) <= InsertAt(E, p, e)[k].lblk
<1> DEFINE F == InsertAt(E, p, e)
<1> HIDE DEF F
<1>1. /\ DOMAIN F = 1 .. (Len(E) + 1) /\ Len(E) \in Nat /\ DOMAIN E = 1 .. Len(E)
      /\ \A k \in 1 .. (Len(E) + 1) : F[k] = IF k < p THEN E[k] ELSE IF k = p THEN e ELSE E[k - 1]
  <2>1. Len(E) \in Nat /\ DOMAIN E = 1 .. Len(E)
    BY EntSeq
  <2>2. /\ DOMAIN InsertAt(E, p, e) = 1 .. (Len(E) + 1)
        /\ \A k \in 1 .. (Len(E) + 1) :
             InsertAt(E, p, e)[k] = IF k < p THEN E[k] ELSE IF k = p THEN e ELSE E[k - 1]
    BY ONLY InsertIs, E \in Seq(Ent), p \in 1 .. (Len(E) + 1), e \in Ent
  <2> QED
    BY <2>1, <2>2, Zenon DEF F
<1>2. ASSUME NEW j \in 1 .. (Len(E) + 1), NEW k \in 1 .. (Len(E) + 1), j < k
      PROVE  End(F[j]) <= F[k].lblk
  <2>1. CASE k < p
    <3>1. F[j] = E[j] /\ F[k] = E[k] /\ j \in DOMAIN E /\ k \in DOMAIN E
      BY <1>1, <1>2, <2>1
    <3> QED
      BY <1>2, <3>1
  <2>2. CASE k = p
    <3>1. F[j] = E[j] /\ F[k] = e /\ j \in DOMAIN E /\ j < p
      BY <1>1, <1>2, <2>2
    <3> QED
      BY <3>1
  <2>3. CASE k > p
    <3>1. F[k] = E[k - 1] /\ k - 1 \in DOMAIN E /\ k - 1 >= p
      BY <1>1, <1>2, <2>3
    <3>2. CASE j < p
      <4>1. F[j] = E[j] /\ j \in DOMAIN E /\ j < k - 1
        BY <1>1, <1>2, <3>1, <3>2
      <4> QED
        BY <3>1, <4>1
    <3>3. CASE j = p
      <4>1. F[j] = e
        BY <1>1, <3>3
      <4> QED
        BY <3>1, <4>1
    <3>4. CASE j > p
      <4>1. F[j] = E[j - 1] /\ j - 1 \in DOMAIN E /\ j - 1 < k - 1
        BY <1>1, <1>2, <3>4
      <4> QED
        BY <3>1, <4>1
    <3> QED
      BY <3>2, <3>3, <3>4
  <2> QED
    BY <2>1, <2>2, <2>3
<1> QED
  BY <1>1, <1>2 DEF F

\* What an inserted entry adds to a node, and where every entry comes from.
LEMMA InsertedHolds ==
  ASSUME NEW E \in Seq(Ent), NEW p \in 1 .. (Len(E) + 1), NEW e \in Ent
  PROVE  /\ \A b : Hold(InsertAt(E, p, e), b) <=> Hold(E, b) \/ Holds(e, b)
         /\ \A k \in DOMAIN InsertAt(E, p, e) :
               \/ InsertAt(E, p, e)[k] = e
               \/ \E m \in DOMAIN E : InsertAt(E, p, e)[k] = E[m]
<1> DEFINE F == InsertAt(E, p, e)
<1> HIDE DEF F
<1>1. /\ DOMAIN F = 1 .. (Len(E) + 1) /\ Len(E) \in Nat /\ DOMAIN E = 1 .. Len(E)
      /\ \A k \in 1 .. (Len(E) + 1) : F[k] = IF k < p THEN E[k] ELSE IF k = p THEN e ELSE E[k - 1]
  <2>1. Len(E) \in Nat /\ DOMAIN E = 1 .. Len(E)
    BY EntSeq
  <2>2. /\ DOMAIN InsertAt(E, p, e) = 1 .. (Len(E) + 1)
        /\ \A k \in 1 .. (Len(E) + 1) :
             InsertAt(E, p, e)[k] = IF k < p THEN E[k] ELSE IF k = p THEN e ELSE E[k - 1]
    BY ONLY InsertIs, E \in Seq(Ent), p \in 1 .. (Len(E) + 1), e \in Ent
  <2> QED
    BY <2>1, <2>2, Zenon DEF F
<1>2. \A k \in DOMAIN F : F[k] = e \/ \E m \in DOMAIN E : F[k] = E[m]
  <2> TAKE k \in DOMAIN F
  <2>1. CASE k < p
    BY <1>1, <2>1
  <2>2. CASE k = p
    BY <1>1, <2>2
  <2>3. CASE k > p
    BY <1>1, <2>3
  <2> QED
    BY <1>1, <2>1, <2>2, <2>3
<1>3. \A m \in DOMAIN E : \E k \in DOMAIN F : F[k] = E[m]
  <2> TAKE m \in DOMAIN E
  <2>1. CASE m < p
    BY <1>1, <2>1
  <2>2. CASE m >= p
    <3>2. m + 1 \in DOMAIN F /\ F[m + 1] = E[m]
      BY <1>1, <2>2
    <3> QED
      BY <3>2
  <2> QED
    BY <1>1, <2>1, <2>2
<1>4. p \in DOMAIN F /\ F[p] = e
  BY <1>1
<1>5. ASSUME NEW b PROVE Hold(F, b) <=> Hold(E, b) \/ Holds(e, b)
  BY <1>2, <1>3, <1>4 DEF Hold
<1> QED
  BY <1>2, <1>5 DEF F

\* Blocks nobody has yet make the inserted entry the node's own.
LEMMA InsertedMine ==
  ASSUME NEW t, Apart(t), NEW n \in Node, t[n].entries \in Seq(Ent),
         NEW p \in 1 .. (Len(t[n].entries) + 1),
         NEW e \in Ent, \A b \in Block : Holds(e, b) => b \notin Owned(t)
  PROVE  Mine(t, n, InsertAt(t[n].entries, p, e))
<1> DEFINE E == t[n].entries
           F == InsertAt(E, p, e)
<1>1. /\ DOMAIN F = 1 .. (Len(E) + 1) /\ Len(E) \in Nat /\ DOMAIN E = 1 .. Len(E)
      /\ \A k \in 1 .. (Len(E) + 1) : F[k] = IF k < p THEN E[k] ELSE IF k = p THEN e ELSE E[k - 1]
  <2>1. E \in Seq(Ent) /\ p \in 1 .. (Len(E) + 1)
    OBVIOUS
  <2> HIDE DEF E
  <2>2. DOMAIN InsertAt(E, p, e) = 1 .. (Len(E) + 1)
    BY <2>1, InsertIs
  <2>4. ASSUME NEW k \in 1 .. (Len(E) + 1)
        PROVE  InsertAt(E, p, e)[k] = IF k < p THEN E[k] ELSE IF k = p THEN e ELSE E[k - 1]
    BY <2>1, InsertIs
  <2>3. Len(E) \in Nat /\ DOMAIN E = 1 .. Len(E)
    BY <2>1, EntSeq, Zenon
  <2> QED
    BY <2>2, <2>3, <2>4, Zenon DEF F
<1>2. \A b \in Block : Hold(F, b) => Has(t, n, b) \/ Holds(e, b)
  BY InsertedHolds DEF Has
<1>3. \A b \in Block : \A j, k \in DOMAIN E : Holds(E[j], b) /\ Holds(E[k], b) => j = k
  BY DEF Apart
<1>4. \A b \in Block : \A j \in DOMAIN E : Holds(E[j], b) => ~Holds(e, b)
  BY DEF Owned, Has, Hold
<1> HIDE DEF F, E
<1>5. ASSUME NEW j \in DOMAIN F, NEW k \in DOMAIN F, NEW b \in Block, Holds(F[j], b), Holds(F[k], b)
      PROVE  j = k
  <2>1. \A m \in DOMAIN F : /\ m < p => m \in DOMAIN E /\ F[m] = E[m]
                            /\ m > p => m - 1 \in DOMAIN E /\ F[m] = E[m - 1]
                            /\ m = p => F[m] = e
    <3> TAKE m \in DOMAIN F
    <3>1. m \in 1 .. (Len(E) + 1) /\ p \in 1 .. (Len(E) + 1)
      BY <1>1 DEF E
    <3>2. CASE m < p
      BY <1>1, <3>1, <3>2
    <3>3. CASE m = p
      BY <1>1, <3>1, <3>3
    <3>4. CASE m > p
      BY <1>1, <3>1, <3>4
    <3> QED
      BY <1>1, <3>1, <3>2, <3>3, <3>4
  <2>2. CASE j = p \/ k = p
    BY <1>1, <1>4, <1>5, <2>1, <2>2
  <2>3. CASE j < p /\ k < p
    BY <1>3, <1>5, <2>1, <2>3
  <2>4. CASE j < p /\ k > p
    <3>1. j = k - 1
      BY <1>3, <1>5, <2>1, <2>4
    <3> QED
      BY <1>1, <2>4, <3>1
  <2>5. CASE j > p /\ k < p
    <3>1. j - 1 = k
      BY <1>3, <1>5, <2>1, <2>5
    <3> QED
      BY <1>1, <2>5, <3>1
  <2>6. CASE j > p /\ k > p
    <3>1. j - 1 = k - 1
      BY <1>3, <1>5, <2>1, <2>6
    <3> QED
      BY <1>1, <2>6, <3>1
  <2> QED
    BY <1>1, <2>2, <2>3, <2>4, <2>5, <2>6
<1> QED
  BY <1>2, <1>5 DEF Mine, F, E

\* A leaf of a path with other entries is still where the path leads.
LEMMA LeafKeepsPath ==
  ASSUME NEW t, Shape(t), NEW path, IsPath(t, path), NEW v,
         \A m \in Node : v[m].depth = t[m].depth,
         \A m \in Node : m # Tip(path).n => v[m] = t[m],
         NEW i \in Nat
  PROVE  /\ Len(Turned(path, i)) = Len(path)
         /\ \A j \in 1 .. Len(path) : j # Len(path) => Turned(path, i)[j] = path[j]
         /\ \A j \in 1 .. Len(path) : Turned(path, i)[j].n = path[j].n
         /\ Turned(path, i)[Len(path)] = [n |-> Tip(path).n, i |-> i]
         /\ Steps(v, Turned(path, i), Len(path))
         /\ Chain(v, Turned(path, i), Len(path) - 1)
<1> DEFINE L == Len(path)
           q == [path EXCEPT ![Len(path)].i = i]
<1>1. /\ L \in Nat \ {0} /\ DOMAIN path = 1 .. L /\ L = t[Root].depth + 1
      /\ path \in [1 .. L -> [n : Node, i : Nat]]
      /\ \A j \in 1 .. L : path[j].n \in Node /\ t[path[j].n].depth = L - j
      /\ path[1].n = Root
      /\ \A k, j \in 1 .. L : path[k].n = path[j].n => k = j
      /\ Chain(t, path, L - 1)
  BY PathIs
<1>2. L \in 1 .. L /\ path[L] \in [n : Node, i : Nat]
  BY <1>1
<1>3. [path[L] EXCEPT !.i = i] = [n |-> Tip(path).n, i |-> i]
  BY <1>2 DEF Tip
<1>4. q = [path EXCEPT ![L] = [n |-> Tip(path).n, i |-> i]]
  BY <1>3
<1>5. [n |-> Tip(path).n, i |-> i] \in [n : Node, i : Nat] /\ path[L].n = Tip(path).n
  BY <1>2 DEF Tip
<1> HIDE DEF q, L, Turned
<1>6. q \in [1 .. L -> [n : Node, i : Nat]]
  BY <1>1, <1>2, <1>4, <1>5
<1>7. q[L] = [n |-> Tip(path).n, i |-> i] /\ \A j \in 1 .. L : j # L => q[j] = path[j]
  BY <1>1, <1>2, <1>4
<1>8. Len(q) = L
  BY <1>1, <1>6, FunctionIsSeq
<1>9. \A j \in 1 .. L : q[j].n = path[j].n
  BY <1>5, <1>7
<1>10. Steps(v, q, L)
  <2>2. v[Root].depth = t[Root].depth
    BY RootNode
  <2>3. \A j \in 1 .. L : v[q[j].n].depth = L - j
    BY <1>1, <1>9
  <2> QED
    BY <1>1, <1>9, <1>6, <1>8, <2>2, <2>3 DEF Steps
<1>11. ASSUME NEW j \in 1 .. (L - 1)
       PROVE  /\ q[j].i \in DOMAIN v[q[j].n].entries
              /\ v[q[j].n].entries[q[j].i].pblk = q[j + 1].n
  <2>1. j \in 1 .. L /\ j + 1 \in 1 .. L /\ j # L
    BY <1>1
  <2>3. path[j].n # Tip(path).n
    BY <1>1, <1>2, <1>5, <2>1
  <2>4. v[path[j].n] = t[path[j].n]
    BY <1>1, <2>1, <2>3
  <2>5. path[j].i \in DOMAIN t[path[j].n].entries /\ t[path[j].n].entries[path[j].i].pblk = path[j + 1].n
    BY <1>1 DEF Chain
  <2> QED
    BY <1>7, <1>9, <2>1, <2>4, <2>5
<1> QED
  BY <1>11, <1>7, <1>8, <1>9, <1>10 DEF Chain, q, L, Turned

\* The place of a new extent in its leaf, between those before and after it.
LEMMA LeafPlace ==
  ASSUME NEW t, NEW hi, Shape(t), Order(t, hi), NEW path, IsPath(t, path), NEW new \in Ent, new.len # 0,
         Between(t, path, new.lblk, End(new)), Clear(t, path, new.lblk, End(new)),
         NEW pos, pos = IF Tip(path).i = 0 THEN 1
                        ELSE IF new.lblk > t[Tip(path).n].entries[Tip(path).i].lblk
                             THEN Tip(path).i + 1 ELSE Tip(path).i
  PROVE  /\ pos \in 1 .. (Len(t[Tip(path).n].entries) + 1)
         /\ \A m \in DOMAIN t[Tip(path).n].entries :
              /\ m < pos => End(t[Tip(path).n].entries[m]) <= new.lblk
              /\ m >= pos => End(new) <= t[Tip(path).n].entries[m].lblk
<1> DEFINE n == Tip(path).n
           i == Tip(path).i
           E == t[n].entries
<1>1. /\ Len(path) \in 1 .. Len(path) /\ DOMAIN path = 1 .. Len(path) /\ n \in Node /\ t[n].depth = 0 /\ i \in Nat
      /\ IF E = <<>> THEN i = 0 ELSE i \in DOMAIN E
  BY PathIs DEF Tip
<1>2. Len(E) \in Nat /\ DOMAIN E = 1 .. Len(E) /\ (E = <<>> <=> Len(E) = 0)
  <2>1. E \in Seq(Ent)
    BY <1>1, ShapeIs
  <2> HIDE DEF E
  <2> QED
    BY <2>1, EntSeq
<1>3. new.lblk \in Nat /\ End(new) \in Nat /\ new.lblk < End(new)
  BY DEF Ent, End
<1>4. /\ i > 1 => E[i].lblk <= new.lblk
      /\ \A m \in DOMAIN E : m > i => End(new) <= E[m].lblk
  BY <1>1 DEF Between, Tip
<1>5. i > 0 => End(E[i]) <= new.lblk \/ End(new) <= E[i].lblk
  BY DEF Clear, Tip
<1>6. \A m \in DOMAIN E : /\ E[m].lblk \in Nat /\ End(E[m]) \in Nat /\ E[m].lblk < End(E[m])
                          /\ \A k \in DOMAIN E : k < m => End(E[k]) <= E[m].lblk
  BY <1>1, EntryIs DEF Order
<1>7. pos = IF i = 0 THEN 1 ELSE IF new.lblk > E[i].lblk THEN i + 1 ELSE i
  OBVIOUS
<1> HIDE DEF n, i, E
<1>8. CASE i = 0
  BY <1>1, <1>2, <1>7, <1>8 DEF E, n
<1>9. CASE i # 0
  <2>1. i \in DOMAIN E /\ i \in 1 .. Len(E) /\ i > 0
    BY <1>1, <1>2, <1>9
  <2>2. CASE new.lblk > E[i].lblk
    <3>1. pos = i + 1 /\ End(E[i]) <= new.lblk
      BY <1>3, <1>5, <1>6, <1>7, <1>9, <2>1, <2>2
    <3>2. \A m \in DOMAIN E : m < pos => End(E[m]) <= new.lblk
      <4> TAKE m \in DOMAIN E
      <4>1. CASE m = i
        BY <3>1, <4>1
      <4>2. CASE m < i
        BY <1>3, <1>6, <2>1, <3>1, <4>2
      <4> QED
        BY <1>2, <2>1, <3>1, <4>1, <4>2
    <3> QED
      BY <1>2, <2>1, <3>1, <1>4, <3>2 DEF E, n
  <2>3. CASE ~(new.lblk > E[i].lblk)
    <3>1. pos = i /\ End(new) <= E[i].lblk
      BY <1>3, <1>5, <1>6, <1>7, <1>9, <2>1, <2>3
    <3>3. \A m \in DOMAIN E : ~(m < pos) /\ (m = i \/ m > i)
      BY <1>3, <1>4, <1>6, <2>1, <3>1, <1>2
    <3> QED
      BY <1>2, <2>1, <3>1, <1>4, <3>3 DEF E, n
  <2> QED
    BY <2>2, <2>3
<1> QED
  BY <1>8, <1>9

\* The keys above a leaf follow the first extent of the leaf.
LEMMA LeafFirst ==
  ASSUME NEW t, NEW h, Shape(t), Apart(t), NEW path, IsPath(t, path),
         NEW v, NEW E \in Seq(Ent), E # <<>>, NewLeaf(t, path, v, E), Shape(v), Order(v, h), Apart(v),
         Low(v, Firsts(path)),
         Behind(t, path, E[1].lblk),
         NEW w, Keyed(v, w, Turned(path, 1), Len(path), E[1].lblk)
  PROVE  Tree(w, h) /\ Rekeyed(t, path, v, w)
<1> DEFINE L == Len(path)
           q == Turned(path, 1)
           n == Tip(path).n
           b1 == E[1].lblk
           X == Firsts(path)
<1>1. /\ L \in Nat \ {0} /\ L - 1 \in Nat /\ L \in 1 .. L /\ n \in Node /\ path[L].n = n
      /\ \A j \in 1 .. L : path[j].n \in Node
      /\ \A i, j \in 1 .. L : path[i].n = path[j].n => i = j
  BY PathIs DEF Tip
<1>2. /\ \A m \in Node : v[m].depth = t[m].depth
      /\ \A m \in Node : m # n => v[m] = t[m]
      /\ v[n].entries = E /\ v \in Trees
  BY DEF NewLeaf
<1>3. /\ Len(q) = L /\ \A j \in 1 .. L : j # L => q[j] = path[j]
      /\ \A j \in 1 .. L : q[j].n = path[j].n
      /\ q[L] = [n |-> n, i |-> 1]
      /\ Steps(v, q, L) /\ Chain(v, q, L - 1)
  <2>1. 1 \in Nat
    OBVIOUS
  <2>3. /\ \A m \in Node : v[m].depth = t[m].depth
        /\ \A m \in Node : m # Tip(path).n => v[m] = t[m]
    BY DEF NewLeaf
  <2> HIDE DEF q, n
  <2>2. /\ Len(Turned(path, 1)) = Len(path)
        /\ \A j \in 1 .. Len(path) : j # Len(path) => Turned(path, 1)[j] = path[j]
        /\ \A j \in 1 .. Len(path) : Turned(path, 1)[j].n = path[j].n
        /\ Turned(path, 1)[Len(path)] = [n |-> Tip(path).n, i |-> 1]
        /\ Steps(v, Turned(path, 1), Len(path))
        /\ Chain(v, Turned(path, 1), Len(path) - 1)
    BY <2>1, <2>3, LeafKeepsPath
  <2> QED
    BY <2>2 DEF q, n
<1>4. 1 \in DOMAIN E /\ b1 \in Nat /\ End(E[1]) \in Nat /\ b1 < End(E[1])
      /\ \A m \in DOMAIN E : m = 1 \/ m > 1
  <2>1. 1 \in DOMAIN E /\ \A m \in DOMAIN E : m = 1 \/ m > 1
    BY EntSeq
  <2>2. 1 \in DOMAIN v[n].entries
    BY <1>2, <2>1
  <2> HIDE DEF n
  <2> QED
    BY <1>1, <2>2, EntryIs, <1>2, <2>1
<1>5. b1 < h[n]
  BY <1>1, <1>2, <1>4 DEF Order
<1>6. \A m \in DOMAIN E : b1 <= E[m].lblk
  <2> TAKE m \in DOMAIN E
  <2>1. CASE m = 1
    BY <1>4, <2>1
  <2>2. CASE m > 1
    <3>1. End(E[1]) <= E[m].lblk
      BY <1>1, <1>2, <1>4, <2>2 DEF Order
    <3>2. m \in DOMAIN v[n].entries
      BY <1>2
    <3> HIDE DEF n
    <3>3. v[n].entries[m].lblk \in Nat
      BY <1>1, <3>2, EntryIs
    <3> QED
      BY <1>2, <1>4, <3>1, <3>3
  <2> QED
    BY <1>4, <2>1, <2>2
<1> HIDE DEF q, L, n
<1>7. \A j \in 1 .. (L - 1) : /\ j \in 1 .. L /\ q[j] = path[j] /\ path[j].n # n
                              /\ q[j].n \in Node
                              /\ v[q[j].n] = t[path[j].n]
  <2> TAKE j \in 1 .. (L - 1)
  <2>1. j \in 1 .. L /\ j # L
    BY <1>1
  <2> QED
    BY <1>1, <2>1, <1>2, <1>3
<1>10. q[L].n = n
  BY <1>3
<1>11. Keyed(v, w, q, L, b1)
  BY DEF q, L
<1>12. /\ Low(v, X)
       /\ \A x \in X : \E j \in Above(q, L) : x = <<q[j].n, q[j].i>>
       /\ \A j \in Above(q, L) : q[j].i > 1 => v[q[j].n].entries[q[j].i].lblk <= b1
  <2>1. \A j \in Above(q, L) : j \in 1 .. (L - 1)
    BY DEF Above
  <2> QED
    BY <1>7, <2>1 DEF q, L, Firsts, Behind
<1> HIDE DEF X, b1
<1>14. L \in Nat \ {0} /\ L <= Len(q) /\ Steps(v, q, L) /\ Chain(v, q, L - 1)
       /\ b1 \in Nat /\ Shape(v) /\ Order(v, h) /\ Apart(v)
  BY <1>1, <1>3, <1>4
<1>15. /\ Shape(w) /\ Order(w, h) /\ Low(w, {}) /\ Apart(w)
       /\ Owned(w) = Owned(v)
       /\ \A b \in Block : Linked(w, b) <=> Linked(v, b)
  <2>1. Border(v, h, X, q, L, b1)
    BY <1>2, <1>5, <1>6, <1>10, <1>12, <1>14 DEF Border
  <2> QED
    BY <1>11, <1>12, <1>14, <2>1, KeyedKeeps
<1>16. w \in Trees /\ \A m \in Node : /\ w[m].depth = v[m].depth
                                      /\ Len(w[m].entries) = Len(v[m].entries)
                                      /\ (\A j \in Above(q, L) : q[j].n # m) => w[m] = v[m]
  BY <1>11 DEF Keyed
<1>17. ASSUME NEW m \in Node PROVE w[m].entries = <<>> => v[m].entries = <<>>
  BY <1>15, <1>16, ShapeIs, EntSeq
<1>18. ASSUME NEW m \in Node PROVE w[m] = t[m] \/ \E j \in 1 .. L : path[j].n = m
  BY <1>7, <1>1, <1>2, <1>16 DEF Above
<1> QED
  BY <1>15, <1>1, <1>2, <1>17, <1>16, <1>18 DEF Tree, n, L, Rekeyed

LEMMA LeafSetFirst ==
  ASSUME NEW t, Shape(t), NEW path, IsPath(t, path), NEW v \in Trees,
         \A m \in Node : v[m].depth = t[m].depth,
         \A m \in Node : m # Tip(path).n => v[m] = t[m],
         NEW border \in Nat
  PROVE  Keyed(v, SetFirst(v, Turned(path, 1), Len(path), border),
               Turned(path, 1), Len(path), border)
<1> DEFINE L == Len(path)
           q == Turned(path, 1)
<1>1. /\ L \in Nat \ {0} /\ L - 1 \in Nat /\ L \in Nat
      /\ \A j \in 1 .. L : path[j].n \in Node
      /\ \A i, j \in 1 .. L : path[i].n = path[j].n => i = j
  BY PathIs
<1>2. /\ \A j \in 1 .. L : q[j].n = path[j].n
      /\ Chain(v, q, L - 1)
  <2>1. 1 \in Nat
    OBVIOUS
  <2> HIDE DEF q, L
  <2>2. /\ Len(Turned(path, 1)) = Len(path)
        /\ \A j \in 1 .. Len(path) : j # Len(path) => Turned(path, 1)[j] = path[j]
        /\ \A j \in 1 .. Len(path) : Turned(path, 1)[j].n = path[j].n
        /\ Turned(path, 1)[Len(path)] = [n |-> Tip(path).n, i |-> 1]
        /\ Steps(v, Turned(path, 1), Len(path))
        /\ Chain(v, Turned(path, 1), Len(path) - 1)
    BY <2>1, LeafKeepsPath
  <2> QED
    BY <2>2 DEF q, L
<1> HIDE DEF q, L
<1>3. \A j \in 1 .. (L - 1) : j \in 1 .. L
  BY <1>1
<1>5. \A i, j \in 1 .. (L - 1) : q[i].n = q[j].n => i = j
  BY <1>1, <1>2, <1>3
<1>6. Keyed(v, SetFirst(v, q, L, border), q, L, border)
  BY <1>1, <1>2, <1>3, <1>5, SetFirstIs DEF Chain
<1> QED
  BY <1>6 DEF q, L

\* ext4_ext_insert_leaf: the leaf with the new extent, and then the keys above.
LEMMA InLeafKeeps ==
  ASSUME NEW hi, Whole(tree, hi, call, free, foreign), InsertInLeaf
  PROVE  \E h : Whole(tree', h, call', free', foreign')
<1> DEFINE p == call.path
           n == Tip(p).n
           i == Tip(p).i
           E == tree[n].entries
           new == call.new
           pos == IF i = 0 THEN 1 ELSE IF new.lblk > E[i].lblk THEN i + 1 ELSE i
           F == InsertAt(E, pos, new)
           v == With(tree, n, F)
<1>0. call.at = "insert"
  BY DEF InsertInLeaf
<1>1. /\ Tree(tree, hi) /\ Shape(tree) /\ Apart(tree) /\ Low(tree, {}) /\ tree \in Trees
      /\ IsPath(tree, p) /\ InsertCall(call)
      /\ new \in Ent /\ new.len \in Nat /\ new.len # 0 /\ new.lblk \in Nat /\ End(new) \in Nat
      /\ End(new) = new.lblk + new.len
      /\ Between(tree, p, new.lblk, End(new)) /\ Clear(tree, p, new.lblk, End(new))
      /\ Parted(Owned(tree), free, foreign, {b \in Block : Holds(new, b)}, {})
      /\ Nodes(tree, {}) /\ Filled(tree, {n}) /\ RootOK(tree)
  BY <1>0, InsertFacts
<1>2. PICK h : /\ Tree(tree, h) /\ h \in [Node -> Nat]
               /\ \A j \in 1 .. Len(p) : End(new) <= h[p[j].n]
  BY <1>0, InsertRaise
<1>3. /\ Len(p) \in Nat \ {0} /\ Len(p) \in 1 .. Len(p) /\ n \in Node /\ tree[n].depth = 0
      /\ i \in Nat /\ IF E = <<>> THEN i = 0 ELSE i \in DOMAIN E
      /\ DOMAIN p = 1 .. Len(p)
  BY <1>1, PathIs DEF Tip
<1>4. E \in Seq(Ent)
  BY <1>1, <1>3, ShapeIs
<1>5. Shape(tree) /\ Order(tree, h)
  BY <1>2 DEF Tree
<1>6. /\ pos \in 1 .. (Len(E) + 1)
      /\ \A m \in DOMAIN E : /\ m < pos => End(E[m]) <= new.lblk
                             /\ m >= pos => End(new) <= E[m].lblk
  <2>1. pos = IF Tip(p).i = 0 THEN 1
              ELSE IF new.lblk > tree[Tip(p).n].entries[Tip(p).i].lblk THEN Tip(p).i + 1 ELSE Tip(p).i
    OBVIOUS
  <2> HIDE DEF pos, p, new
  <2> QED
    BY <1>1, <1>5, <2>1, LeafPlace
<1> HIDE DEF pos, p
<1>7. /\ F \in Seq(Ent) /\ Len(F) = Len(E) + 1 /\ DOMAIN F = 1 .. (Len(E) + 1)
      /\ \A b : Hold(F, b) <=> Hold(E, b) \/ Holds(new, b)
      /\ \A k \in DOMAIN F : F[k] = new \/ \E m \in DOMAIN E : F[k] = E[m]
  <2> HIDE DEF new, E
  <2> QED
    BY <1>1, <1>4, <1>6, InsertIs, InsertedHolds
<1>8. /\ i <= 1 => tree' = SetFirst(v, Turned(p, 1), Len(p), F[1].lblk)
      /\ i > 1 => tree' = v
      /\ Inserted(pos) /\ free' = free /\ foreign' = foreign
  <2>1. CurHop = Tip(p)
    BY DEF CurHop, Last, Tip, p
  <2>2. (~HasCur <=> i = 0) /\ CurEntry = E[i] /\ CurHop.n = n /\ CurHop.i = i
    BY <1>3, <2>1 DEF HasCur, CurEntry, Entry
  <2>4. Inserted(pos) /\ free' = free /\ foreign' = foreign
    BY <2>2 DEF pos, InsertInLeaf
  <2>5. Place(E, i, new) = F
    BY DEF Place, pos
  <2> DEFINE put == [tree EXCEPT ![CurHop.n].entries = Place(@, CurHop.i, call.new)]
  <2>6. put = v /\ v[n].entries = F
    <3>1. put = [tree EXCEPT ![n].entries = F]
      BY <2>2, <2>5
    <3> HIDE DEF n, F
    <3> QED
      BY <1>1, <1>3, <1>7, <3>1, WithIs
  <2>7. tree' = IF CurHop.i <= 1
                THEN SetFirst(put, Turned(call.path, 1), Len(call.path), put[CurHop.n].entries[1].lblk)
                ELSE put
    BY DEF InsertInLeaf, Turned
  <2> HIDE DEF put, v, F, n, i, E, new
  <2>9. i > 1 => ~(i <= 1)
    BY <1>3
  <2> QED
    BY <2>2, <2>6, <2>7, <2>4, <2>9 DEF p
<1>10. \A j, k \in DOMAIN E : j < k => End(E[j]) <= E[k].lblk
  BY <1>3, <1>5 DEF Order
<1>11. \A j, k \in DOMAIN F : j < k => End(F[j]) <= F[k].lblk
  <2> HIDE DEF E, new
  <2> QED
    BY <1>1, <1>4, <1>6, <1>10, InsertedSorted
<1>12. \A b \in Block : Holds(new, b) => b \notin Owned(tree)
  BY <1>1 DEF Parted
<1>13. Mine(tree, n, F)
  <2>1. tree[n].entries \in Seq(Ent) /\ pos \in 1 .. (Len(tree[n].entries) + 1)
    BY <1>4, <1>6
  <2> HIDE DEF n, new
  <2> QED
    BY <1>1, <1>3, <1>12, <2>1, InsertedMine
<1>14. \A k \in DOMAIN E : /\ E[k].lblk \in Nat /\ End(E[k]) \in Nat /\ E[k].len # 0
                           /\ End(E[k]) <= h[n]
  <2> TAKE k \in DOMAIN E
  <2> HIDE DEF n
  <2> QED
    BY <1>1, <1>3, EntryIs, <1>5 DEF Order
<1>15. End(new) <= h[n] /\ h[n] \in Nat
  BY <1>2, <1>3 DEF Tip
<1> HIDE DEF F, E, i, n, new
<1>16. \A k \in DOMAIN F : F[k].len # 0 /\ End(F[k]) <= h[n]
  BY <1>1, <1>7, <1>14, <1>15
<1> DEFINE X == IF i <= 1 THEN Firsts(p) ELSE {}
<1>17. \A m \in Node : \A k : Index2(tree, m, k, n) => 
          <<m, k>> \in X \/ \A j \in DOMAIN F : tree[m].entries[k].lblk <= F[j].lblk
  <2> SUFFICES ASSUME NEW m \in Node, NEW k, Index2(tree, m, k, n)
               PROVE  <<m, k>> \in X \/ \A j \in DOMAIN F : tree[m].entries[k].lblk <= F[j].lblk
    OBVIOUS
  <2>1. CASE i <= 1
    <3>3. Len(p) - 1 \in 1 .. (Len(p) - 1) /\ (Len(p) - 1) + 1 = Len(p)
      BY <1>1, IndexIs, RootNode, PathIs, <1>3 DEF n, Tip
    <3>4. Index2(tree, p[Len(p) - 1].n, p[Len(p) - 1].i, n) /\ p[Len(p) - 1].n \in Node
      <4>2. /\ \A j \in 1 .. Len(p) : p[j].n \in Node
            /\ \A j \in 1 .. (Len(p) - 1) : Index2(tree, p[j].n, p[j].i, p[j + 1].n)
        BY <1>1, PathIs
      <4>3. Index2(tree, p[Len(p) - 1].n, p[Len(p) - 1].i, p[(Len(p) - 1) + 1].n)
        BY <3>3, <4>2
      <4> QED
        BY <1>3, <3>3, <4>2, <4>3 DEF n, Tip
    <3>6. Turned(p, 1)[Len(p)].i = 1
      <4> QED
        BY <1>1, PathIs, <1>3 DEF Turned
    <3>7. Len(p) - 1 \in Above(Turned(p, 1), Len(p))
      BY <1>3, <3>3, <3>6 DEF Above
    <3> QED
      BY <1>1, <3>4, IndexOnce, <2>1, <3>7 DEF Firsts
  <2>2. CASE i > 1
    <3>1. \A j \in DOMAIN E : tree[m].entries[k].lblk <= E[j].lblk
      BY <1>1 DEF Low, Index2, E
    <3>2. i \in DOMAIN E /\ E[i].lblk <= new.lblk
      BY <1>3, <2>2, <1>1 DEF Between, E, n, i, Tip
    <3>4. tree[m].entries[k].lblk <= new.lblk
      BY <1>1, EntryIs, <1>14, <3>1, <3>2 DEF Index2
    <3> QED
      BY <1>7, <3>1, <3>4
  <2> QED
    BY <1>3, <2>1, <2>2
<1>18. /\ Shape(v) /\ Order(v, h) /\ Low(v, X) /\ Apart(v)
       /\ \A b \in Block : b \in Owned(v) <=> (b \in Owned(tree) /\ ~Has(tree, n, b)) \/ Hold(F, b)
       /\ \A b \in Block : Linked(v, b) <=> Linked(tree, b)
  <2> HIDE DEF X
  <2> QED
    BY <1>2, <1>3, <1>7, <1>11, <1>13, <1>16, <1>17, LeafReplaced
<1>19. /\ v \in Trees /\ v[n].entries = F /\ v[n].depth = tree[n].depth
       /\ \A m \in Node : m # n => v[m] = tree[m]
       /\ \A m \in Node : v[m].depth = tree[m].depth
  BY <1>1, <1>3, <1>7, WithIs
<1>20. F # <<>> /\ 1 \in DOMAIN F
  BY <1>4, EntSeq, <1>7
<1> HIDE DEF v
<1>21. /\ Tree(tree', h) /\ tree' \in Trees /\ Owned(tree') = Owned(v)
       /\ \A b \in Block : Linked(tree', b) <=> Linked(v, b)
       /\ \A m \in Node : /\ tree'[m].depth = v[m].depth
                          /\ tree'[m].entries = <<>> => v[m].entries = <<>>
                          /\ tree'[m] = tree[m] \/ \E j \in 1 .. Len(p) : p[j].n = m
       /\ tree'[n].entries # <<>>
  <2>1. CASE i <= 1
    <3>1. F[1].lblk \in Nat
      BY <1>1, <1>7, <1>14, <1>20
    <3>2. Behind(tree, p, F[1].lblk)
      <4> SUFFICES ASSUME NEW j \in 1 .. (Len(p) - 1), p[j].i > 1
                   PROVE  tree[p[j].n].entries[p[j].i].lblk <= F[1].lblk
        BY DEF Behind
      <4>1. tree[p[j].n].entries[p[j].i].lblk <= new.lblk
        BY <1>1, <1>3 DEF Between
      <4>2. \A m \in DOMAIN E : tree[p[j].n].entries[p[j].i].lblk <= E[m].lblk
        <5>1. /\ Len(p) - 1 \in Nat /\ (Len(p) - 1) + 1 = Len(p)
              /\ Steps(tree, p, Len(p) - 1) /\ Chain(tree, p, Len(p) - 1)
          <6>1. Steps(tree, p, Len(p)) /\ Chain(tree, p, Len(p) - 1)
            BY <1>1, PathIs
          <6>2. \A k \in 1 .. (Len(p) - 1) : k \in 1 .. Len(p)
            BY <1>3
          <6>3. Steps(tree, p, Len(p) - 1)
            BY <6>1, <6>2 DEF Steps
          <6> QED
            BY <1>3, <6>1, <6>3
        <5>2. (Len(p) - 1) + 1 <= Len(p)
          BY <1>3
        <5> QED
          BY <1>1, <5>1, <5>2, LowChain DEF E, n, Tip
      <4> QED
        BY <1>7, <1>20, <4>1, <4>2
    <3>3. Keyed(v, tree', Turned(p, 1), Len(p), F[1].lblk)
      BY <1>19, <1>1, <3>1, LeafSetFirst, <1>8, <2>1 DEF n
    <3>5. NewLeaf(tree, p, v, F)
      BY <1>19 DEF n, NewLeaf
    <3>6. /\ Shape(tree) /\ Apart(tree) /\ IsPath(tree, p) /\ F \in Seq(Ent) /\ F # <<>>
          /\ Shape(v) /\ Order(v, h) /\ Apart(v)
      BY <1>1, <1>7, <1>18, <1>19, <1>20
    <3>7. Tree(tree', h) /\ Rekeyed(tree, p, v, tree')
      BY <1>18, <2>1, <3>2, <3>3, <3>5, <3>6, LeafFirst
    <3> QED
      BY <3>7 DEF n, Rekeyed
  <2>2. CASE i > 1
    BY <1>8, <2>2, <1>3, <1>18, <1>19, <1>20 DEF Tree, n, Tip
  <2> QED
    BY <1>3, <2>1, <2>2
<1>22. RootOK(tree') /\ Nodes(tree', {}) /\ Filled(tree', {})
  <2>1. \A b \in Block : Linked(tree', b) <=> Linked(tree, b)
    BY <1>18, <1>21
  <2>2. \A m \in Node : tree'[m].entries = <<>> => tree[m].entries = <<>> \/ m = Tip(p).n
    BY <1>19, <1>21 DEF n
  <2>3. tree'[Root].depth = tree[Root].depth
    BY <1>19, <1>21, RootNode
  <2>4. /\ Shape(tree) /\ IsPath(tree, p) /\ tree' \in Trees /\ RootOK(tree)
        /\ Nodes(tree, {}) /\ Filled(tree, {n}) /\ tree'[Tip(p).n].entries # <<>>
        /\ \A m \in Node : tree'[m] = tree[m] \/ \E j \in 1 .. Len(p) : p[j].n = m
    BY <1>1, <1>21 DEF n
  <2>5. /\ RootOK(tree') /\ Nodes(tree', {})
        /\ tree'[Tip(p).n].entries # <<>> => Filled(tree', {n} \ {Tip(p).n})
    BY <2>1, <2>2, <2>3, <2>4, PathChanged
  <2> QED
    BY <2>4, <2>5 DEF n
<1>24. \A b \in Block : b \in Owned(tree') <=> b \in Owned(tree) \/ b \in {a \in Block : Holds(new, a)}
  BY <1>3, <1>7, <1>18, <1>21 DEF Owned, Has, E
<1>26. call'.at \in {"idle", "again"}
  BY <1>1, <1>8, InsertedRests
<1> QED
  BY <1>1, <1>8, <1>24, EnteredParts, <1>21, <1>22, <1>26, RestWhole DEF Owned

-----------------------------------------------------------------------------
(* Calls begin and end.                                                    *)

LEMMA IdleFacts ==
  ASSUME NEW hi, Whole(tree, hi, call, free, foreign), call = Idle
  PROVE  /\ Tree(tree, hi) /\ Shape(tree) /\ Order(tree, hi) /\ Low(tree, {}) /\ Apart(tree)
         /\ tree \in Trees
         /\ Parted(Owned(tree), free, foreign, {}, {})
         /\ Nodes(tree, {}) /\ Filled(tree, {}) /\ RootOK(tree)
         /\ free \subseteq Block /\ call.at = "idle"
<1>1. call.at = "idle"
  BY DEF Idle
<1>3. Tree(tree, hi) /\ Parted(Owned(tree), free, foreign, {}, {})
      /\ Nodes(tree, {}) /\ Filled(tree, {}) /\ RootOK(tree)
  BY <1>1 DEF NewOf, TopOf, BareOf, Whole, RootOK
<1> QED
  BY <1>3, <1>1 DEF Tree, Shape, Trees, Parted

LEMMA InsertRec ==
  ASSUME NEW path, NEW new, NEW combine, NEW then, NEW l
  PROVE  /\ InsertCall(Insert(path, new, combine, then, l))
         /\ Insert(path, new, combine, then, l).at = "insert"
         /\ Insert(path, new, combine, then, l).path = path
         /\ Insert(path, new, combine, then, l).new = new
         /\ Insert(path, new, combine, then, l).combine = combine
         /\ Insert(path, new, combine, then, l).fresh = <<>>
BY DEF Insert, InsertCall

LEMMA InsertWhole ==
  ASSUME NEW t, NEW hi, NEW c, NEW f, NEW g, c.at = "insert", Tree(t, hi),
         Parted(Owned(t), f, g, {b \in Block : Holds(c.new, b)}, {}),
         Nodes(t, {}), Filled(t, {Tip(c.path).n}), RootOK(t), InsertOK(t, c), c.fresh = <<>>
  PROVE  Whole(t, hi, c, f, g)
<1> QED
  BY DEF NewOf, TopOf, BareOf, Tip, Whole, RootOK

\* One free block is on its way into the tree.
LEMMA TakenParts ==
  ASSUME NEW o, NEW f, NEW g, Parted(o, f, g, {}, {}), NEW b \in f
  PROVE  Parted(o, f \ {b}, g, {b}, {})
BY DEF Parted

LEMMA FillHoleKeeps ==
  ASSUME NEW hi, Whole(tree, hi, call, free, foreign), NEW l \in FileBlock, FillHole(l)
  PROVE  \E h : Whole(tree', h, call', free', foreign')
<1> DEFINE p == FindIn(tree, l)
<1>0. l \in Nat /\ l + 1 \in Nat
  BY TreeAssumption DEF FileBlock
<1>1. PICK b \in Allocated(Goal(p, l)) :
         /\ ~Found(p, l) /\ free' = free \ {b}
         /\ call' = Insert(p, Extent(l, 1, b, FALSE), TRUE, {}, l)
  BY DEF FillHole, FindExtent
<1>2. call = Idle /\ tree' = tree /\ foreign' = foreign
  BY DEF FillHole
<1>3. /\ Tree(tree, hi) /\ Shape(tree) /\ free \subseteq Block /\ Nodes(tree, {}) /\ Filled(tree, {})
      /\ RootOK(tree) /\ Parted(Owned(tree), free, foreign, {}, {})
  BY <1>2, IdleFacts
<1>4. IsPath(tree, p) /\ Between(tree, p, l, l + 1)
  BY <1>0, <1>3, FindPath DEF RootOK
<1> HIDE DEF p
<1>5. b \in free /\ b \in Block /\ b \in Nat
  BY <1>1, <1>3, AllocatedFree, RootNode
<1> DEFINE new == Extent(l, 1, b, FALSE)
<1>6. /\ new \in Ent /\ new.len # 0 /\ new.lblk = l /\ End(new) = l + 1
      /\ {x \in Block : Holds(new, x)} = {b}
  <2>1. /\ new \in Ent /\ new.len = 1 /\ new.lblk = l /\ new.pblk = b
    BY <1>0, <1>5 DEF Extent, Ent
  <2>2. \A x \in Block : x \in b .. (b + 1 - 1) <=> x = b
    BY <1>5, RootNode
  <2> HIDE DEF new
  <2> QED
    BY <2>1, <2>2, <1>5, <1>0 DEF Holds, End
<1> HIDE DEF new
<1>7. Clear(tree, p, l, l + 1)
  <2> DEFINE n == p[Len(p)].n
             i == p[Len(p)].i
             e == tree[n].entries[i]
  <2> SUFFICES ASSUME i > 0 PROVE End(e) <= l \/ l + 1 <= e.lblk
    BY DEF Clear
  <2>1. n \in Node /\ tree[n].depth = 0 /\ i \in DOMAIN tree[n].entries
    <3>1. /\ n \in Node /\ tree[n].depth = 0
          /\ IF tree[n].entries = <<>> THEN i = 0 ELSE i \in DOMAIN tree[n].entries
      BY <1>3, <1>4, PathIs
    <3> HIDE DEF n, i
    <3>3. CASE tree[n].entries = <<>>
      BY <3>1, <3>3 DEF i
    <3> QED
      BY <3>1, <3>3
  <2>2. ~(l \in e.lblk .. (e.lblk + e.len - 1))
    BY <1>1 DEF Found, Covers, Entry, Last
  <2> HIDE DEF n, i
  <2>3. e.lblk \in Nat /\ e.len \in Nat /\ e.len # 0
    BY <1>3, <2>1, EntryIs
  <2> HIDE DEF e
  <2> QED
    BY <2>3, <1>0, <2>2 DEF End
<1>8. /\ InsertCall(call') /\ call'.at = "insert" /\ call'.path = p /\ call'.new = new
      /\ call'.combine = TRUE /\ call'.fresh = <<>>
  <2> DEFINE yes == TRUE
  <2>1. call' = Insert(p, new, yes, {}, l)
    BY <1>1 DEF new
  <2> HIDE DEF yes
  <2>2. /\ InsertCall(call') /\ call'.at = "insert" /\ call'.path = p /\ call'.new = new
        /\ call'.combine = yes /\ call'.fresh = <<>>
    BY <2>1, InsertRec
  <2> QED
    BY <2>2 DEF yes
<1>10. Parted(Owned(tree), free \ {b}, foreign, {x \in Block : Holds(call'.new, x)}, {})
  BY <1>3, <1>5, <1>6, <1>8, TakenParts
<1>11. Filled(tree, {Tip(call'.path).n})
  BY <1>3 DEF Filled
<1>12. Whole(tree, hi, call', free \ {b}, foreign)
  BY <1>4, <1>6, <1>7, <1>8, <1>3, <1>10, <1>11, InsertWhole DEF InsertOK
<1> QED
  BY <1>1, <1>2, <1>12

\* Calls that read the tree only.
LEMMA ReadKeeps ==
  ASSUME NEW hi, Whole(tree, hi, call, free, foreign),
         \/ AppendMapped \/ LookUp \/ \E l \in FileBlock : TruncateAtHole(l)
  PROVE  \E h : Whole(tree', h, call', free', foreign')
BY DEF AppendMapped, LookUp, TruncateAtHole

LEMMA TruncateKeeps ==
  ASSUME NEW hi, Whole(tree, hi, call, free, foreign), NEW l \in FileBlock, Truncate(l)
  PROVE  \E h : Whole(tree', h, call', free', foreign')
<1> DEFINE p == FindIn(tree, l)
           L == tree[Root].depth + 1
<1>0. l \in Nat /\ l + 1 \in Nat
  BY TreeAssumption DEF FileBlock
<1>1. /\ call = Idle /\ Found(p, l)
      /\ call' = [at |-> "remove", path |-> p, level |-> L, from |-> l]
      /\ tree' = tree /\ free' = free /\ foreign' = foreign
  BY DEF Truncate, FindExtent, Depth
<1>2. /\ Tree(tree, hi) /\ Shape(tree) /\ Order(tree, hi) /\ Nodes(tree, {}) /\ Filled(tree, {})
      /\ RootOK(tree) /\ Parted(Owned(tree), free, foreign, {}, {})
  BY <1>1, IdleFacts
<1>3. IsPath(tree, p) /\ Between(tree, p, l, l + 1)
  BY <1>0, <1>2, FindPath DEF RootOK
<1> HIDE DEF p, L
<1>4. /\ Len(p) = L /\ L \in Nat \ {0} /\ L - 1 \in Nat /\ DOMAIN p = 1 .. L
      /\ Steps(tree, p, L) /\ Chain(tree, p, L - 1)
      /\ p[L].n \in Node /\ p[L].i \in Nat /\ tree[p[L].n].depth = 0
      /\ IF tree[p[L].n].entries = <<>> THEN p[L].i = 0 ELSE p[L].i \in DOMAIN tree[p[L].n].entries
      /\ \A j \in 1 .. L : p[j].n \in Node
  <2> QED
    BY <1>2, <1>3, PathIs DEF L
<1>5. /\ call'.at = "remove" /\ call'.path = p /\ call'.level = L /\ call'.from = l
      /\ call' = [at |-> call'.at, path |-> call'.path, level |-> call'.level, from |-> call'.from]
  BY <1>1
<1>6. /\ p[L].i > 0 /\ p[L].i \in DOMAIN tree[p[L].n].entries
      /\ l < End(tree[p[L].n].entries[p[L].i])
  <2> DEFINE n == p[L].n
             i == p[L].i
             e == tree[n].entries[i]
  <2>1. i > 0 /\ l \in e.lblk .. (e.lblk + e.len - 1)
    BY <1>1, <1>4 DEF Found, Covers, Entry, Last
  <2> HIDE DEF n, i
  <2>2. n \in Node /\ i \in DOMAIN tree[n].entries
    <3>1. IF tree[n].entries = <<>> THEN i = 0 ELSE i \in DOMAIN tree[n].entries
      BY <1>4 DEF n, i
    <3>2. CASE tree[n].entries = <<>>
      BY <2>1, <3>1, <3>2
    <3> QED
      BY <1>4, <3>1, <3>2 DEF n
  <2>3. e.lblk \in Nat /\ e.len \in Nat /\ e.len # 0
    BY <1>2, <1>4, <2>2, EntryIs DEF n
  <2> HIDE DEF e
  <2> QED
    BY <1>0, <2>1, <2>3, <2>2 DEF End, n, i, e
<1>7. ASSUME NEW j \in 1 .. (L - 1), NEW m \in DOMAIN tree[p[j].n].entries, m > p[j].i
      PROVE  l <= tree[p[j].n].entries[m].lblk
  <2>1. j \in DOMAIN p /\ j \in 1 .. L
    BY <1>4
  <2>3. tree[p[j].n].entries[m].lblk \in Nat
    BY <1>2, <1>4, <2>1, EntryIs
  <2> QED
    BY <1>3, <1>7, <2>1, <1>0, <2>3 DEF Between
<1>8. RemoveOK(tree, call')
  BY <1>4, <1>5, <1>0, <1>7, <1>6 DEF At, RemoveOK
<1>10. Whole(tree, hi, call', free, foreign)
  BY <1>2, <1>5, <1>8 DEF NewOf, TopOf, Filled, Whole, RootOK
<1> QED
  BY <1>1, <1>10

-----------------------------------------------------------------------------
(* An extent changes its state, or is split.                               *)

LEMMA Shorten ==
  ASSUME NEW t, NEW hi, Tree(t, hi), t \in Trees, NEW n \in Node, t[n].depth = 0,
         NEW i \in DOMAIN t[n].entries, NEW e \in Ent, e.len # 0, e.lblk = t[n].entries[i].lblk,
         End(e) <= End(t[n].entries[i]),
         \A b \in Block : Holds(e, b) => Holds(t[n].entries[i], b)
  PROVE  Shortened(t, hi, With(t, n, [t[n].entries EXCEPT ![i] = e]), n, i, e)
<1> DEFINE E == t[n].entries
           F == [E EXCEPT ![i] = e]
           v == With(t, n, F)
<1>1. Shape(t) /\ Order(t, hi) /\ Low(t, {}) /\ Apart(t)
  BY DEF Tree
<1>2. E \in Seq(Ent) /\ i \in DOMAIN E
  BY <1>1, ShapeIs
<1>3. /\ F \in Seq(Ent) /\ Len(F) = Len(E) /\ DOMAIN F = DOMAIN E /\ DOMAIN E = 1 .. Len(E) /\ Len(E) \in Nat
      /\ \A k \in DOMAIN E : F[k] = IF k = i THEN e ELSE E[k]
  <2> HIDE DEF E
  <2> QED
    BY <1>2, EntryChange
<1>4. /\ \A k \in DOMAIN E : E[k].lblk \in Nat /\ End(E[k]) \in Nat /\ E[k].len # 0 /\ End(E[k]) <= hi[n]
      /\ hi[n] \in Nat
      /\ \A j, k \in DOMAIN E : j < k => End(E[j]) <= E[k].lblk
  BY <1>1, EntryIs DEF Order
<1>5. /\ e.lblk = E[i].lblk /\ End(e) <= End(E[i]) /\ End(e) \in Nat
      /\ \A b \in Block : Holds(e, b) => Holds(E[i], b)
  BY DEF Ent, End
<1> HIDE DEF F
<1>6. \A b \in Block : \A j \in DOMAIN E : Holds(F[j], b) => Holds(E[j], b)
  BY <1>3, <1>5
<1>7. \A b \in Block : \A j, k \in DOMAIN E : Holds(E[j], b) /\ Holds(E[k], b) => j = k
  BY <1>1 DEF Apart
<1>8. \A b \in Block : Hold(E, b) <=> Has(t, n, b)
  BY DEF Has
<1> HIDE DEF E
<1>10. \A k \in DOMAIN F : F[k].len # 0 /\ End(F[k]) <= hi[n] /\ F[k].lblk = E[k].lblk
                           /\ End(F[k]) <= End(E[k]) /\ End(F[k]) \in Nat
  <2> TAKE k \in DOMAIN F
  <2>1. CASE k = i
    BY <1>2, <1>3, <1>4, <1>5, <2>1
  <2>2. CASE k # i
    BY <1>3, <1>4, <2>2
  <2> QED
    BY <2>1, <2>2
<1>11. \A j, k \in DOMAIN F : j < k => End(F[j]) <= F[k].lblk
  BY <1>3, <1>4, <1>10
<1>12. \A m \in Node : \A k : Index2(t, m, k, n) =>
          <<m, k>> \in {} \/ \A j \in DOMAIN F : t[m].entries[k].lblk <= F[j].lblk
  BY <1>1, <1>3, <1>10 DEF Low, Index2, E
<1>13. /\ Shape(v) /\ Order(v, hi) /\ Low(v, {}) /\ Apart(v)
       /\ \A b \in Block : b \in Owned(v) <=> (b \in Owned(t) /\ ~Has(t, n, b)) \/ Hold(F, b)
       /\ \A b \in Block : Linked(v, b) <=> Linked(t, b)
  BY <1>3, <1>6, <1>7, <1>8, <1>10, <1>11, <1>12, LeafReplaced DEF Hold, Mine
<1>14. /\ v \in Trees /\ v[n].entries = F
       /\ \A m \in Node : m # n => v[m] = t[m]
       /\ \A m \in Node : v[m].depth = t[m].depth
  BY <1>3, WithIs
<1> HIDE DEF v
<1>15. ASSUME NEW b \in Block
       PROVE  b \in Owned(v) <=> b \in Owned(t) /\ (Holds(E[i], b) => Holds(e, b))
  <2>1. Hold(F, b) <=> Hold(E, b) /\ (Holds(E[i], b) => Holds(e, b))
    <3> QED
      BY <1>2, <1>3, <1>5, <1>7 DEF Hold
  <2> QED
    BY <1>2, <1>8, <1>13, <2>1 DEF Hold, Owned
<1>18. v[n].entries = [t[n].entries EXCEPT ![i] = e] /\ DOMAIN v[n].entries = DOMAIN t[n].entries
  BY <1>3, <1>14 DEF F, E
<1>19. \A b \in Block : b \in Owned(v) <=>
          b \in Owned(t) /\ (Holds(t[n].entries[i], b) => Holds(e, b))
  BY <1>15 DEF E
<1>20. Shortened(t, hi, v, n, i, e)
  BY <1>13, <1>2, <1>3, <1>14, EntSeq, <1>18, <1>19 DEF Tree, Shortened
<1> QED
  BY <1>20 DEF v, F, E

LEMMA FoundIs ==
  ASSUME NEW hi, Whole(tree, hi, call, free, foreign), call = Idle, NEW l \in FileBlock,
         NEW p, p = FindIn(tree, l), Found(p, l)
  PROVE  FoundAt(tree, p, l, Tip(p).n, Tip(p).i, tree[Tip(p).n].entries[Tip(p).i])
<1> DEFINE n == Tip(p).n
           i == Tip(p).i
           e == tree[n].entries[i]
<1>1. l \in Nat
  BY TreeAssumption DEF FileBlock
<1>2. Shape(tree) /\ Filled(tree, {}) /\ RootOK(tree)
  BY IdleFacts
<1>3. IsPath(tree, p) /\ Between(tree, p, l, l + 1)
  BY <1>1, <1>2, FindPath DEF RootOK
<1>4. i > 0 /\ l \in e.lblk .. (e.lblk + e.len - 1)
  BY DEF Found, Covers, Entry, Last, Tip
<1>5. /\ n \in Node /\ tree[n].depth = 0 /\ i \in Nat
      /\ IF tree[n].entries = <<>> THEN i = 0 ELSE i \in DOMAIN tree[n].entries
  BY <1>2, <1>3, PathIs DEF Tip
<1>6. Tip(p).n = n /\ Tip(p).i = i
  OBVIOUS
<1> HIDE DEF n, i
<1>7. i \in DOMAIN tree[n].entries
  BY <1>4, <1>5
<1>8. e \in Ent /\ e.len # 0
  BY <1>2, <1>5, <1>7, EntryIs
<1> HIDE DEF e
<1>9. e.lblk \in Nat /\ e.len \in Nat /\ e.pblk \in Nat /\ End(e) = e.lblk + e.len
  BY <1>8 DEF Ent, End
<1>10. e.lblk <= l /\ l < e.lblk + e.len
  BY <1>1, <1>4, <1>9
<1>11. FoundAt(tree, p, l, n, i, e)
  BY <1>3, <1>4, <1>5, <1>6, <1>7, <1>8, <1>9, <1>10 DEF e, FoundAt
<1> QED
  BY <1>11 DEF e, n, i

\* The rest of the tree after an extent was shortened.
LEMMA ShortenedRest ==
  ASSUME NEW t, NEW hi, NEW v, NEW p, NEW n, NEW i, NEW e, Shape(t), IsPath(t, p), Tip(p).n = n,
         Shortened(t, hi, v, n, i, e), Nodes(t, {}), Filled(t, {}), RootOK(t)
  PROVE  Nodes(v, {}) /\ Filled(v, {}) /\ RootOK(v)
<1>1. /\ v \in Trees /\ v[Tip(p).n].entries # <<>>
      /\ \A m \in Node : v[m].depth = t[m].depth
      /\ \A m \in Node : m # n => v[m] = t[m]
      /\ \A b \in Block : Linked(v, b) <=> Linked(t, b)
  BY DEF Shortened
<1>3. \A m \in Node : v[m] = t[m] \/ \E j \in 1 .. Len(p) : p[j].n = m
  BY PathIs, <1>1 DEF Tip
<1>4. \A m \in Node : v[m].entries = <<>> => t[m].entries = <<>> \/ m = Tip(p).n
  BY <1>1
<1>5. v[Root].depth = t[Root].depth
  BY <1>1, RootNode
<1>6. /\ RootOK(v) /\ Nodes(v, {})
      /\ v[Tip(p).n].entries # <<>> => Filled(v, {} \ {Tip(p).n})
  BY <1>1, <1>3, <1>4, <1>5, PathChanged, Zenon
<1> QED
  BY <1>1, <1>6

LEMMA InitializeWholeKeeps ==
  ASSUME NEW hi, Whole(tree, hi, call, free, foreign), NEW l \in FileBlock, InitializeWhole(l)
  PROVE  \E h : Whole(tree', h, call', free', foreign')
<1> DEFINE p == FindIn(tree, l)
           n == Tip(p).n
           i == Tip(p).i
           E == tree[n].entries
           e == [E[i] EXCEPT !.unwritten = FALSE]
           F == [E EXCEPT ![i] = e]
<1>1. /\ call = Idle /\ Found(p, l)
      /\ tree' = [tree EXCEPT ![n].entries[i].unwritten = FALSE]
      /\ call' = call /\ free' = free /\ foreign' = foreign
  BY DEF InitializeWhole, FindExtent, Tip, Last
<1>2. /\ Tree(tree, hi) /\ tree \in Trees /\ Shape(tree) /\ Parted(Owned(tree), free, foreign, {}, {})
      /\ Nodes(tree, {}) /\ Filled(tree, {}) /\ RootOK(tree) /\ call.at = "idle"
  BY <1>1, IdleFacts
<1>3. FoundAt(tree, p, l, n, i, E[i])
  BY <1>1, FoundIs
<1>4. tree' = [tree EXCEPT ![n].entries = F]
  BY <1>1
<1> HIDE DEF p
<1>5. n \in Node /\ tree[n].depth = 0 /\ i \in DOMAIN E /\ E[i] \in Ent /\ E[i].len # 0 /\ IsPath(tree, p)
  BY <1>3 DEF FoundAt
<1>6. /\ e \in Ent /\ e.lblk = E[i].lblk /\ e.pblk = E[i].pblk /\ e.len = E[i].len
  <2> HIDE DEF E, i
  <2> QED
    BY <1>5 DEF Ent
<1>7. End(e) = End(E[i]) /\ End(e) \in Nat /\ \A b : Holds(e, b) <=> Holds(E[i], b)
  <2> HIDE DEF e
  <2> QED
    BY <1>6 DEF End, Holds, Ent
<1> HIDE DEF e, n, i
<1>8. Shortened(tree, hi, With(tree, n, F), n, i, e)
  BY <1>5, <1>6, <1>7, <1>2, Shorten
<1>9. tree' = With(tree, n, F)
  <2>1. F \in Seq(Ent)
    <3>1. E \in Seq(Ent)
      BY <1>2, <1>5, ShapeIs
    <3> HIDE DEF E
    <3> QED
      BY <1>5, <1>6, <3>1, EntryChange
  <2> HIDE DEF F
  <2> QED
    BY <1>2, <1>4, <1>5, <2>1, WithIs
<1> HIDE DEF F, E
<1>10. Shortened(tree, hi, tree', n, i, e)
  BY <1>8, <1>9
<1>11. Tree(tree', hi) /\ Owned(tree') = Owned(tree)
  BY <1>7, <1>10 DEF Shortened, Owned, E
<1> QED
  BY <1>1, <1>2, <1>11, <1>5, <1>10, ShortenedRest, RestWhole DEF n

\* An extent is its two halves.
LEMMA HalvesHold ==
  ASSUME NEW e \in Ent, e.len # 0, NEW a \in Ent, NEW z \in Ent, NEW s \in Nat,
         e.lblk < s, s < e.lblk + e.len,
         a.lblk = e.lblk, a.pblk = e.pblk, a.len = s - e.lblk,
         z.lblk = s, z.pblk = e.pblk + (s - e.lblk), z.len = e.len - (s - e.lblk)
  PROVE  /\ a.len # 0 /\ z.len # 0 /\ End(a) = s /\ End(z) = End(e)
         /\ \A b \in Block : /\ Holds(e, b) <=> Holds(a, b) \/ Holds(z, b)
                             /\ ~(Holds(a, b) /\ Holds(z, b))
<1>1. /\ e.lblk \in Nat /\ e.len \in Nat /\ e.pblk \in Nat /\ a.len \in Nat /\ z.len \in Nat
      /\ z.pblk \in Nat
  BY DEF Ent
<1>2. a.len # 0 /\ z.len # 0
  BY <1>1
<1>4. ASSUME NEW b \in Block
      PROVE  /\ Holds(e, b) <=> Holds(a, b) \/ Holds(z, b)
             /\ ~(Holds(a, b) /\ Holds(z, b))
  BY RootNode, <1>1, <1>2 DEF Holds
<1> QED
  BY <1>1, <1>2, <1>4 DEF End

\* The blocks of one half are taken out of the tree.
LEMMA HalfParts ==
  ASSUME NEW o, NEW f, NEW g, Parted(o, f, g, {}, {}), NEW o2, NEW w,
         o2 \cap w = {}, o = o2 \cup w
  PROVE  Parted(o2, f, g, w, {})
BY DEF Parted

LEMMA ShortenedPath ==
  ASSUME NEW t, NEW hi, NEW v, NEW p, NEW e, Shape(t), IsPath(t, p),
         Tip(p).i \in DOMAIN t[Tip(p).n].entries, Shortened(t, hi, v, Tip(p).n, Tip(p).i, e)
  PROVE  IsPath(v, p)
<1>1. /\ Len(p) \in Nat \ {0} /\ Len(p) \in 1 .. Len(p) /\ p \in [1 .. Len(p) -> [n : Node, i : Nat]]
  BY PathIs
<1>2. Tip(p).i \in Nat /\ Tip(p) = p[Len(p)] /\ Tip(p) \in [n : Node, i : Nat]
  BY <1>1 DEF Tip
<1>3. Turned(p, Tip(p).i) = p
  BY <1>2, <1>1 DEF Turned
<1>4. /\ \A m \in Node : v[m].depth = t[m].depth
      /\ \A m \in Node : m # Tip(p).n => v[m] = t[m]
      /\ DOMAIN v[Tip(p).n].entries = DOMAIN t[Tip(p).n].entries /\ v[Tip(p).n].entries # <<>>
  BY DEF Shortened
<1>6. Steps(v, p, Len(p)) /\ Chain(v, p, Len(p) - 1)
  BY <1>2, <1>4, LeafKeepsPath, <1>3
<1> QED
  BY <1>4, <1>6 DEF IsPath, Tip

\* The part behind the split is what is to be inserted.
LEMMA SplitInsertOK ==
  ASSUME NEW t, NEW hi, Tree(t, hi), Shape(t), Order(t, hi), NEW v, NEW p, NEW l \in Nat, NEW s \in Nat, l <= s,
         NEW n, NEW i, NEW a, NEW z, NEW c, FoundAt(t, p, l, n, i, t[n].entries[i]),
         Shortened(t, hi, v, n, i, a), a.lblk <= s, a.lblk = t[n].entries[i].lblk, End(a) = s,
         z \in Ent, z.len # 0, z.lblk = s, End(z) = End(t[n].entries[i]),
         InsertCall(c), c.path = p, c.new = z, c.combine \in BOOLEAN
  PROVE  InsertOK(v, c)
<1>1. /\ IsPath(t, p) /\ Between(t, p, l, l + 1) /\ Tip(p).n = n /\ Tip(p).i = i
      /\ n \in Node /\ t[n].depth = 0 /\ i \in DOMAIN t[n].entries /\ i \in Nat /\ i > 0
  BY DEF FoundAt
<1>2. IsPath(v, p)
  BY <1>1, ShortenedPath
<1>3. /\ v[n].entries = [t[n].entries EXCEPT ![i] = a] /\ v[n].entries[i] = a
      /\ \A m \in Node : m # n => v[m] = t[m]
  BY DEF Shortened
<1>4. /\ Len(p) \in Nat \ {0} /\ Len(p) - 1 \in Nat /\ Len(p) \in 1 .. Len(p) /\ DOMAIN p = 1 .. Len(p)
      /\ \A j \in 1 .. Len(p) : p[j].n \in Node
      /\ \A k, j \in 1 .. Len(p) : p[k].n = p[j].n => k = j
      /\ Steps(t, p, Len(p)) /\ Chain(t, p, Len(p) - 1) /\ p[Len(p)].n = n /\ p[Len(p)].i = i
      /\ \A j \in 1 .. Len(p) : p[j].i \in Nat
      /\ \A j \in 1 .. (Len(p) - 1) : p[j].i \in DOMAIN t[p[j].n].entries
  BY <1>1, PathIs DEF Tip
<1>5. End(t[n].entries[i]) \in Nat /\ End(t[n].entries[i]) <= hi[n] /\ hi[n] \in Nat
  BY <1>1, EntryIs DEF Order
<1>6. Between(v, p, s, End(z))
  <2> SUFFICES ASSUME NEW j \in 1 .. Len(p)
               PROVE  /\ p[j].i > 1 => v[p[j].n].entries[p[j].i].lblk <= s
                      /\ \A m \in DOMAIN v[p[j].n].entries :
                           m > p[j].i => End(z) <= v[p[j].n].entries[m].lblk
    BY <1>4 DEF Between
  <2>1. CASE j = Len(p)
    <3>1. p[j].n = n /\ p[j].i = i
      BY <1>4, <2>1
    <3>2. ASSUME NEW m \in DOMAIN v[n].entries, m > i
          PROVE  End(z) <= v[n].entries[m].lblk
      <4>1. m \in DOMAIN t[n].entries /\ m # i /\ v[n].entries[m] = t[n].entries[m]
        BY <1>1, <1>3, <3>2
      <4> QED
        BY <1>1, <3>2, <4>1 DEF Order
    <3> QED
      BY <1>3, <3>1, <3>2
  <2>2. CASE j # Len(p)
    <3>1. j \in 1 .. (Len(p) - 1) /\ p[j].n # n /\ v[p[j].n] = t[p[j].n]
      <4>0. Len(p) \in Nat
        BY <1>4
      <4>1. j \in 1 .. (Len(p) - 1)
        BY <2>2, <4>0
      <4>2. p[j].n # n
        <5> SUFFICES ASSUME p[j].n = n PROVE FALSE
          OBVIOUS
        <5>1. p[j].n = p[Len(p)].n /\ Len(p) \in 1 .. Len(p)
          BY <1>4
        <5>2. \A k, q \in 1 .. Len(p) : p[k].n = p[q].n => k = q
          BY <1>1, PathIs
        <5>3. j = Len(p)
          BY <5>1, <5>2
        <5> QED
          BY <2>2, <5>3
      <4> QED
        BY <1>3, <1>4, <4>1, <4>2
    <3>2. p[j].i > 1 => t[p[j].n].entries[p[j].i].lblk <= s
      <4>1. p[j].i > 1 => t[p[j].n].entries[p[j].i].lblk <= l
        BY <1>1, <1>4 DEF Between
      <4>2. t[p[j].n].entries[p[j].i].lblk \in Nat
        BY <1>4, <3>1, EntryIs
      <4> QED
        BY <4>1, <4>2
    <3>3. ASSUME NEW m \in DOMAIN t[p[j].n].entries, m > p[j].i
          PROVE  End(z) <= t[p[j].n].entries[m].lblk
      <4>1. Steps(t, p, Len(p) - 1) /\ (Len(p) - 1) + 1 <= Len(p) /\ (Len(p) - 1) + 1 = Len(p)
        <5>1. \A k \in 1 .. (Len(p) - 1) : k \in 1 .. Len(p)
          BY <1>4
        <5>2. Steps(t, p, Len(p) - 1)
          BY <1>4, <5>1 DEF Steps
        <5> QED
          BY <1>4, <5>2
      <4>2. hi[n] <= t[p[j].n].entries[m].lblk
        <5> DEFINE K == Len(p) - 1
        <5>1. K \in Nat /\ K + 1 <= Len(p) /\ Steps(t, p, K) /\ Chain(t, p, K) /\ K + 1 = Len(p)
              /\ j \in 1 .. K
          BY <1>4, <3>1, <4>1
        <5> HIDE DEF K
        <5>2. hi[p[K + 1].n] <= t[p[j].n].entries[m].lblk
          BY <3>3, <5>1, HighChain
        <5> QED
          BY <1>4, <5>1, <5>2
      <4>3. t[p[j].n].entries[m].lblk \in Nat
        BY <1>4, EntryIs
      <4> QED
        BY <1>5, <4>2, <4>3
    <3> QED
      BY <3>1, <3>2, <3>3
  <2> QED
    BY <2>1, <2>2
<1>7. Clear(v, p, s, End(z))
  <2>1. p[Len(p)].n = n /\ p[Len(p)].i = i /\ v[n].entries[i] = a /\ End(a) <= s
    BY <1>3, <1>4
  <2> QED
    BY <2>1 DEF Clear
<1> QED
  BY <1>2, <1>6, <1>7 DEF InsertOK

LEMMA InitializePartKeeps ==
  ASSUME NEW hi, Whole(tree, hi, call, free, foreign), NEW l \in FileBlock, InitializePart(l)
  PROVE  \E h : Whole(tree', h, call', free', foreign')
<1> DEFINE p == FindIn(tree, l)
           n == Tip(p).n
           i == Tip(p).i
           E == tree[n].entries
           s == IF l + 1 = E[i].lblk + E[i].len THEN l ELSE l + 1
           u1 == s = l \/ l # E[i].lblk
           u2 == s # l
           a == Extent(E[i].lblk, s - E[i].lblk, E[i].pblk, u1)
           z == Extent(s, E[i].len - (s - E[i].lblk), E[i].pblk + (s - E[i].lblk), u2)
           then == IF l \in {s, E[i].lblk} THEN {} ELSE {l}
           F == [E EXCEPT ![i] = a]
<1>0. l \in Nat
  BY TreeAssumption DEF FileBlock
<1>1. /\ call = Idle /\ Found(p, l) /\ E[i].len > 1
      /\ tree' = SplitTree(p, s, u1) /\ call' = SplitCall(p, s, u2, then, l)
      /\ free' = free /\ foreign' = foreign
  BY Zenon DEF InitializePart, FindExtent, Tip, Last, Entry
<1>2. /\ Tree(tree, hi) /\ tree \in Trees /\ Shape(tree) /\ Order(tree, hi)
      /\ Parted(Owned(tree), free, foreign, {}, {})
      /\ Nodes(tree, {}) /\ Filled(tree, {}) /\ RootOK(tree)
  BY <1>1, IdleFacts, Zenon
<1>3. FoundAt(tree, p, l, n, i, E[i])
  BY <1>1, FoundIs, Zenon
<1>4. /\ n \in Node /\ tree[n].depth = 0 /\ i \in DOMAIN E /\ IsPath(tree, p)
      /\ E[i] \in Ent /\ E[i].len # 0 /\ E[i].lblk \in Nat /\ E[i].len \in Nat /\ E[i].pblk \in Nat
      /\ E[i].lblk <= l /\ l < E[i].lblk + E[i].len /\ E \in Seq(Ent)
  BY <1>2, <1>3, ShapeIs DEF FoundAt
<1>5. n = Last(p).n /\ i = Last(p).i /\ E = tree[n].entries /\ Tip(p).n = n /\ Tip(p).i = i
  BY DEF Tip, Last
<1>6. u1 \in BOOLEAN /\ u2 \in BOOLEAN
  OBVIOUS
<1> HIDE DEF p, n, i, u1, u2, then
<1>7. s \in Nat /\ E[i].lblk < s /\ s < E[i].lblk + E[i].len /\ l <= s
  <2> HIDE DEF E
  <2> QED
    BY <1>0, <1>1, <1>4
<1> HIDE DEF s
<1>8. /\ tree' = [tree EXCEPT ![n].entries = F]
      /\ call' = Insert(p, z, FALSE, then, l)
  <2>1. s > E[i].lblk
    BY <1>4, <1>7
  <2> HIDE DEF E
  <2>2. /\ SplitTree(p, s, u1) = [tree EXCEPT ![n].entries =
                 [E EXCEPT ![i] = Extent(E[i].lblk, s - E[i].lblk, E[i].pblk, u1)]]
        /\ SplitCall(p, s, u2, then, l) =
              Insert(p, Extent(s, E[i].len - (s - E[i].lblk),
                               E[i].pblk + (s - E[i].lblk), u2), FALSE, then, l)
    BY <1>5, <2>1 DEF SplitTree, SplitCall, Entry
  <2> QED
    BY <1>1, <2>2
<1> HIDE DEF E
<1>9. /\ a \in Ent /\ a.lblk = E[i].lblk /\ a.pblk = E[i].pblk /\ a.len = s - E[i].lblk
      /\ z \in Ent /\ z.lblk = s /\ z.pblk = E[i].pblk + (s - E[i].lblk)
      /\ z.len = E[i].len - (s - E[i].lblk)
  BY <1>4, <1>6, <1>7 DEF Extent, Ent
<1> HIDE DEF a, z
<1>10. /\ a.len # 0 /\ z.len # 0 /\ End(a) = s /\ End(z) = End(E[i])
       /\ \A b \in Block : /\ Holds(E[i], b) <=> Holds(a, b) \/ Holds(z, b)
                           /\ ~(Holds(a, b) /\ Holds(z, b))
  <2> DEFINE e == E[i]
  <2>1. /\ e \in Ent /\ e.len # 0 /\ a \in Ent /\ z \in Ent /\ s \in Nat /\ e.lblk < s
        /\ s < e.lblk + e.len /\ a.lblk = e.lblk /\ a.pblk = e.pblk /\ a.len = s - e.lblk
        /\ z.lblk = s /\ z.pblk = e.pblk + (s - e.lblk) /\ z.len = e.len - (s - e.lblk)
    BY <1>4, <1>7, <1>9
  <2> HIDE DEF e
  <2>2. /\ a.len # 0 /\ z.len # 0 /\ End(a) = s /\ End(z) = End(e)
        /\ \A b \in Block : /\ Holds(e, b) <=> Holds(a, b) \/ Holds(z, b)
                            /\ ~(Holds(a, b) /\ Holds(z, b))
    BY <2>1, HalvesHold
  <2> QED
    BY <2>2 DEF e
<1>11. End(E[i]) = E[i].lblk + E[i].len
  BY <1>4 DEF End
<1>12. Shortened(tree, hi, With(tree, n, F), n, i, a)
  <2>1. /\ i \in DOMAIN tree[n].entries /\ a.lblk = tree[n].entries[i].lblk
        /\ End(a) <= End(tree[n].entries[i])
        /\ \A b \in Block : Holds(a, b) => Holds(tree[n].entries[i], b)
    BY <1>4, <1>7, <1>9, <1>10, <1>11 DEF E
  <2>2. Shortened(tree, hi, With(tree, n, [tree[n].entries EXCEPT ![i] = a]), n, i, a)
    BY <1>2, <1>4, <1>9, <1>10, <2>1, Shorten
  <2> QED
    BY <2>2 DEF E
<1>13. tree' = With(tree, n, F)
  <2>1. F \in Seq(Ent)
    BY <1>4, <1>9, EntryChange
  <2> HIDE DEF F
  <2> QED
    BY <1>2, <1>4, <1>8, <2>1, WithIs
<1> HIDE DEF F
<1>14. Shortened(tree, hi, tree', n, i, a)
  BY <1>12, <1>13
<1>15. Tree(tree', hi) /\ \A b \in Block : b \in Owned(tree') <=>
          b \in Owned(tree) /\ (Holds(E[i], b) => Holds(a, b))
  BY <1>14 DEF Shortened, E
<1>16. Nodes(tree', {}) /\ Filled(tree', {}) /\ RootOK(tree')
  BY <1>2, <1>4, <1>5, <1>14, ShortenedRest
<1>17. /\ InsertCall(call') /\ call'.at = "insert" /\ call'.path = p /\ call'.new = z
       /\ call'.combine = FALSE /\ call'.fresh = <<>>
  <2> DEFINE no == FALSE
  <2>1. call' = Insert(p, z, no, then, l)
    BY <1>8
  <2> HIDE DEF no
  <2>2. /\ InsertCall(call') /\ call'.at = "insert" /\ call'.path = p /\ call'.new = z
        /\ call'.combine = no /\ call'.fresh = <<>>
    BY <2>1, InsertRec
  <2> QED
    BY <2>2 DEF no
<1>18. InsertOK(tree', call')
  <2>1. /\ FoundAt(tree, p, l, n, i, tree[n].entries[i]) /\ a.lblk = tree[n].entries[i].lblk
        /\ End(z) = End(tree[n].entries[i]) /\ a.lblk <= s /\ call'.combine \in BOOLEAN
    <3>3. call'.combine \in BOOLEAN
      BY <1>17
    <3> QED
      BY <1>4, <1>7, <1>9, <1>3, <1>10, <3>3 DEF E
  <2> QED
    BY <1>0, <1>2, <1>7, <1>9, <1>10, <1>14, <1>17, <2>1, SplitInsertOK
<1>19. Parted(Owned(tree'), free', foreign', {b \in Block : Holds(call'.new, b)}, {})
  <2> DEFINE w == {b \in Block : Holds(z, b)}
  <2>2. Owned(tree) \subseteq Block /\ Owned(tree') \subseteq Block
    BY DEF Owned
  <2>3. Owned(tree') \cap w = {} /\ Owned(tree) = Owned(tree') \cup w
    BY <1>4, <1>10, <1>15, <2>2 DEF Owned, Has, Hold, E
  <2> HIDE DEF w
  <2> QED
    BY <1>2, <2>3, HalfParts, <1>1, <1>17 DEF w
<1> QED
  BY <1>16, <1>15, <1>17, <1>18, <1>19, InsertWhole DEF Filled

-----------------------------------------------------------------------------
(* Nodes are split.                                                        *)

LEMMA KeyFits ==
  ASSUME NEW t, NEW h, Tree(t, h), NEW p, IsPath(t, p), Len(p) > 1, NEW new \in Ent, new.len # 0,
         Between(t, p, new.lblk, End(new)), Clear(t, p, new.lblk, End(new)),
         \A j \in 1 .. Len(p) : End(new) <= h[p[j].n],
         Len(t[Tip(p).n].entries) > 1, NEW key,
         Tip(p).i # Len(t[Tip(p).n].entries) => key = t[Tip(p).n].entries[Tip(p).i + 1].lblk,
         Tip(p).i = Len(t[Tip(p).n].entries) => key = new.lblk
  PROVE  KeyOK(t, h, p, new, key)
<1> DEFINE L == Len(p)
           n == Tip(p).n
           i == Tip(p).i
           E == t[n].entries
<1>1. Shape(t) /\ Order(t, h) /\ Low(t, {}) /\ Apart(t)
  BY DEF Tree
<1>2. /\ L \in Nat \ {0} /\ L - 1 \in Nat /\ L \in 1 .. L /\ DOMAIN p = 1 .. L
      /\ \A j \in 1 .. L : p[j].n \in Node /\ p[j].i \in Nat
      /\ Steps(t, p, L) /\ Chain(t, p, L - 1) /\ p[L].n = n /\ p[L].i = i
      /\ \A j \in 1 .. (L - 1) : p[j].i \in DOMAIN t[p[j].n].entries
      /\ n \in Node /\ t[n].depth = 0
      /\ IF E = <<>> THEN i = 0 ELSE i \in DOMAIN E
  BY <1>1, PathIs DEF Tip
<1>3. E \in Seq(Ent) /\ DOMAIN E = 1 .. Len(E) /\ Len(E) \in Nat /\ Len(E) > 1 /\ E # <<>>
  BY <1>1, <1>2, ShapeIs, EntSeq
<1>4. new.lblk \in Nat /\ End(new) \in Nat /\ new.lblk < End(new)
  BY DEF Ent, End
<1>5. /\ i # Len(E) => key = E[i + 1].lblk
      /\ i = Len(E) => key = new.lblk
      /\ \A j \in 1 .. L : End(new) <= h[p[j].n]
  OBVIOUS
<1>6. /\ \A j \in 1 .. L : \A m \in DOMAIN t[p[j].n].entries :
            m > p[j].i => End(new) <= t[p[j].n].entries[m].lblk
      /\ i > 1 => E[i].lblk <= new.lblk
      /\ i > 0 => End(E[i]) <= new.lblk \/ End(new) <= E[i].lblk
  BY <1>2, Zenon DEF Between, Clear
<1> DEFINE K == L - 1
<1>7. K \in Nat /\ K + 1 = L /\ K + 1 <= Len(p) /\ Chain(t, p, K) /\ Steps(t, p, K)
      /\ \A j \in 1 .. L : j = L \/ j \in 1 .. K
  <2>0. L \in Nat /\ L # 0
    BY <1>2
  <2>3. \A j \in 1 .. L : j = L \/ j \in 1 .. K
    BY <2>0
  <2>4. K \in Nat /\ K + 1 = L /\ K + 1 <= Len(p)
    BY <2>0
  <2> QED
    BY <2>0, <1>2, <2>3, <2>4 DEF Steps
<1> HIDE DEF n, i, E, K, L
<1>8. \A m \in DOMAIN E : /\ E[m].lblk \in Nat /\ End(E[m]) \in Nat /\ E[m].lblk < End(E[m])
                          /\ End(E[m]) <= h[n]
                          /\ \A k \in DOMAIN E : m < k => End(E[m]) <= E[k].lblk
  BY <1>1, <1>2, EntryIs DEF Order, E
<1>9. \A j \in 1 .. K : \A m \in DOMAIN E : t[p[j].n].entries[p[j].i].lblk <= E[m].lblk
  BY <1>1, <1>7, LowChain, <1>2 DEF E
<1>10. \A j \in 1 .. K : /\ h[n] <= h[p[j].n]
                         /\ \A m \in DOMAIN t[p[j].n].entries :
                              m > p[j].i => h[n] <= t[p[j].n].entries[m].lblk
  BY <1>1, <1>2, <1>7, HighChain
<1>11. i \in DOMAIN E /\ i \in Nat /\ i > 0
  BY <1>2, <1>3
<1>12. \A j \in 1 .. L : h[p[j].n] \in Nat
  BY <1>1, <1>2 DEF Order
<1>13. h[n] \in Nat
  BY <1>1, <1>2 DEF Order
<1>14. \A j \in 1 .. L : p[j].i > 0 /\ p[j].i \in DOMAIN t[p[j].n].entries
                         /\ t[p[j].n].entries[p[j].i].lblk \in Nat
                         /\ t[p[j].n].entries[p[j].i].lblk <= E[i].lblk
  <2> TAKE j \in 1 .. L
  <2>1. CASE j = L
    <3> QED
      BY <1>2, <2>1, <1>8, <1>11 DEF E
  <2>2. CASE j \in 1 .. K
    <3>1. p[j].i \in DOMAIN t[p[j].n].entries
      BY <1>2, <2>2 DEF K
    <3>2. p[j].i > 0 /\ t[p[j].n].entries[p[j].i].lblk \in Nat
      BY <1>1, <1>2, <3>1, EntryIs
    <3> QED
      BY <1>9, <1>11, <2>2, <3>1, <3>2
  <2> QED
    BY <1>7, <2>1, <2>2
<1>15. \A j \in 1 .. L : \A m \in DOMAIN t[p[j].n].entries : t[p[j].n].entries[m].lblk \in Nat
  BY <1>1, <1>2, EntryIs
<1>16. ASSUME key \in Nat, End(E[i]) <= key, NEW j \in 1 .. L
       PROVE  p[j].i > 0 /\ t[p[j].n].entries[p[j].i].lblk < key
  <2>1. E[i].lblk \in Nat /\ End(E[i]) \in Nat /\ E[i].lblk < End(E[i])
    BY <1>8, <1>11
  <2>2. p[j].i > 0 /\ t[p[j].n].entries[p[j].i].lblk \in Nat
        /\ t[p[j].n].entries[p[j].i].lblk <= E[i].lblk
    BY <1>14
  <2> QED
    BY <1>16, <2>1, <2>2
<1>17. CASE i = Len(E)
  <2>1. key = new.lblk
    BY <1>5, <1>17
  <2>2. End(E[i]) <= key
    <3> QED
      BY <1>3, <1>6, <1>17, <1>4, <1>8, <1>11, <2>1
  <2>4. ASSUME NEW j \in 1 .. L
        PROVE  /\ key < h[p[j].n]
               /\ \A m \in DOMAIN t[p[j].n].entries : m > p[j].i => key <= t[p[j].n].entries[m].lblk
    <3>1. key \in Nat /\ End(new) \in Nat /\ key < End(new)
      BY <1>4, <2>1
    <3>2. key < h[p[j].n]
      BY <1>5, <1>12, <3>1
    <3>3. ASSUME NEW m \in DOMAIN t[p[j].n].entries, m > p[j].i
          PROVE  key <= t[p[j].n].entries[m].lblk
      <4>1. End(new) <= t[p[j].n].entries[m].lblk
        BY <1>6, <3>3
      <4>2. t[p[j].n].entries[m].lblk \in Nat
        BY <1>15, <3>3
      <4> QED
        BY <3>1, <4>1, <4>2
    <3> QED
      BY <3>2, <3>3
  <2> QED
    BY <1>4, <2>1, <1>16, <2>2, <1>17, <2>4 DEF KeyOK, E, i, n, L
<1>18. CASE i # Len(E)
  <2>1. i + 1 \in DOMAIN E /\ i < i + 1
    BY <1>3, <1>11, <1>18
  <2>2. key = E[i + 1].lblk /\ key \in Nat /\ key < h[n] /\ End(E[i]) <= key
    BY <1>5, <1>18, <1>8, <2>1, <1>11, <1>13
  <2>3. \A j \in 1 .. L : p[j].i > 0 /\ t[p[j].n].entries[p[j].i].lblk < key
    BY <1>16, <2>2
  <2>4. ASSUME NEW j \in 1 .. L
        PROVE  /\ key < h[p[j].n]
               /\ \A m \in DOMAIN t[p[j].n].entries : m > p[j].i => key <= t[p[j].n].entries[m].lblk
    <3>1. CASE j = L
      <4>2. \A m \in DOMAIN E : m > i => key <= E[m].lblk
        <5> TAKE m \in DOMAIN E
        <5> SUFFICES ASSUME m > i PROVE key <= E[m].lblk
          OBVIOUS
        <5>1. CASE m = i + 1
          BY <2>2, <5>1
        <5>2. CASE m # i + 1
          <6>1. i + 1 < m
            BY <1>3, <1>11, <5>2
          <6>2. End(E[i + 1]) <= E[m].lblk /\ E[i + 1].lblk < End(E[i + 1])
                /\ E[m].lblk \in Nat /\ End(E[i + 1]) \in Nat
            BY <1>8, <2>1, <6>1
          <6> QED
            BY <2>2, <6>2
        <5> QED
          BY <5>1, <5>2
      <4> QED
        BY <1>2, <3>1, <2>2, <4>2 DEF E
    <3>2. CASE j \in 1 .. K
      <4>2. ASSUME NEW m \in DOMAIN t[p[j].n].entries, m > p[j].i
            PROVE  key <= t[p[j].n].entries[m].lblk
        <5>1. h[n] <= t[p[j].n].entries[m].lblk
          BY <1>10, <3>2, <4>2
        <5> QED
          BY <1>13, <1>15, <2>2, <5>1
      <4> QED
        BY <1>10, <3>2, <1>12, <1>13, <2>2, <4>2
    <3> QED
      BY <1>7, <3>1, <3>2
  <2>5. End(new) <= key /\ new.lblk < key
    <3>1. L \in 1 .. L /\ p[L].n = n /\ p[L].i = i
      BY <1>2
    <3>2. i + 1 \in DOMAIN t[p[L].n].entries /\ i + 1 > p[L].i
      BY <1>11, <2>1, <3>1 DEF E
    <3>3. End(new) <= t[p[L].n].entries[i + 1].lblk
      BY <1>6, <3>1, <3>2
    <3> QED
      BY <1>4, <2>2, <3>1, <3>3 DEF E
  <2> QED
    BY <1>18, <2>2, <2>3, <2>4, <2>5, Zenon DEF KeyOK, E, i, n, L
<1> QED
  BY <1>17, <1>18

\* A split that has made no node yet.
LEMMA SplitBegins ==
  ASSUME NEW t, NEW h, NEW c, InsertCall(c), InsertOK(t, c), c.fresh = <<>>, Shape(t),
         c.top \in 2 .. Len(c.path), KeyOK(t, h, c.path, c.new, c.key)
  PROVE  SplitOK(t, h, c)
<1> DEFINE p == c.path
<1>1. Len(p) \in Nat \ {0} /\ Len(p) \in 1 .. Len(p)
  BY PathIs DEF InsertOK
<1>2. Len(c.fresh) = 0 /\ c.fresh \in Seq(Block) /\ Level(c) = Len(p)
  BY <1>1 DEF Level
<1>3. \A j \in 1 .. Len(p) : Len(p) + 1 > j
  BY <1>1
<1>4. LeftOK(t, h, c)
  <2>2. \A j \in 1 .. Len(p) : p[j].i > 0 /\ On(t, c, j).lblk < c.key
    BY DEF KeyOK, On, At
  <2>3. End(On(t, c, Len(p))) <= c.key
    BY Zenon DEF KeyOK, On, At, Tip
  <2>4. \A j \in 1 .. Level(c) :
          /\ c.key < h[p[j].n]
          /\ \A m \in DOMAIN At(t, c, j) : m > p[j].i => c.key <= At(t, c, j)[m].lblk
    BY <1>2 DEF KeyOK, At
  <2> QED
    BY <1>1, <1>2, <2>2, <2>3, <2>4 DEF LeftOK
<1>6. SideOK(t, c)
  <2>1. IF c.new.lblk < c.key
        THEN End(c.new) <= c.key /\ p[Len(p)].i # Len(t[p[Len(p)].n].entries)
        ELSE c.new.lblk = c.key /\ p[Len(p)].i = Len(t[p[Len(p)].n].entries)
    BY DEF KeyOK, Tip
  <2>2. CASE c.new.lblk < c.key
    BY <2>1, <2>2 DEF SideOK, At
  <2>3. CASE ~(c.new.lblk < c.key)
    BY <2>1, <2>3, <1>2 DEF At, SideOK
  <2> QED
    BY <2>2, <2>3
<1>7. c.key \in Nat /\ Level(c) >= c.top - 1
  BY <1>1, <1>2 DEF KeyOK
<1> QED
  BY <1>2, <1>4, <1>6, <1>7 DEF RightOK, SplitOK

LEMMA NeedSplitKeeps ==
  ASSUME NEW hi, Whole(tree, hi, call, free, foreign), NeedSplit
  PROVE  \E h : Whole(tree', h, call', free', foreign')
<1> DEFINE p == call.path
           n == Tip(p).n
           i == Tip(p).i
           E == tree[n].entries
           new == call.new
           key == IF i # Len(E) THEN E[i + 1].lblk ELSE new.lblk
           S == {k \in DOMAIN p : ~Full(p[k])}
           room == Max(S)
<1>0. call.at = "insert"
  BY DEF NeedSplit
<1>1. /\ Tree(tree, hi) /\ Shape(tree) /\ IsPath(tree, p) /\ InsertCall(call)
      /\ new \in Ent /\ new.len # 0 /\ call.combine \in BOOLEAN /\ call.fresh = <<>>
      /\ Between(tree, p, new.lblk, End(new)) /\ Clear(tree, p, new.lblk, End(new))
      /\ Parted(Owned(tree), free, foreign, {b \in Block : Holds(new, b)}, {})
      /\ Nodes(tree, {}) /\ Filled(tree, {n}) /\ RootOK(tree) /\ InsertOK(tree, call)
  BY <1>0, InsertFacts
<1>2. PICK h : /\ Tree(tree, h) /\ h \in [Node -> Nat]
               /\ \A j \in 1 .. Len(p) : End(new) <= h[p[j].n]
  BY <1>0, InsertRaise
<1>3. /\ Len(p) \in Nat \ {0} /\ Len(p) \in 1 .. Len(p) /\ DOMAIN p = 1 .. Len(p) /\ n \in Node
      /\ p[1].n = Root /\ p[Len(p)].n = n
      /\ \A k, j \in 1 .. Len(p) : p[k].n = p[j].n => k = j
  BY <1>1, PathIs DEF Tip
<1>4. /\ Full(p[Len(p)]) /\ S # {}
      /\ call' = [call EXCEPT !.at = "split", !.top = room + 1, !.key = key]
      /\ tree' = tree /\ free' = free /\ foreign' = foreign
  BY DEF NeedSplit, CurHop, Last, Tip
<1> HIDE DEF key, n, i, E
<1>5. /\ InsertCall(call') /\ call'.at = "split" /\ call'.path = p /\ call'.new = new
      /\ call'.combine = call.combine /\ call'.fresh = <<>> /\ call'.top = room + 1 /\ call'.key = key
  <2> HIDE DEF room
  <2> QED
    BY <1>1, <1>4 DEF InsertCall
<1>6. room \in S /\ room \in 1 .. Len(p) /\ room # Len(p)
  <2>1. S \in SUBSET (0 .. Len(p))
    BY <1>3
  <2>2. room \in S
    <3> HIDE DEF S
    <3> QED
      BY <1>3, <1>4, <2>1, Greatest
  <2> QED
    BY <1>3, <1>4, <2>2
<1> HIDE DEF room, S
<1>7. Len(p) > 1 /\ room + 1 \in 2 .. Len(p)
  BY <1>3, <1>6
<1>8. n # Root /\ n \in Block
  BY <1>3, <1>7 DEF Node
<1>9. Len(E) > 1
  BY <1>3, <1>4, <1>8, TreeAssumption DEF Full, Space, E
<1>10. KeyOK(tree, h, p, new, key)
  <2>2. /\ Len(tree[Tip(p).n].entries) > 1
        /\ Tip(p).i # Len(tree[Tip(p).n].entries) => key = tree[Tip(p).n].entries[Tip(p).i + 1].lblk
        /\ Tip(p).i = Len(tree[Tip(p).n].entries) => key = new.lblk
    BY <1>9 DEF key, E, n, i
  <2> HIDE DEF p, new
  <2> QED
    BY <1>1, <1>2, <1>7, <2>2, KeyFits
<1>11. InsertOK(tree, call')
  BY <1>1, <1>5 DEF InsertOK
<1>14. Filled(tree, {})
  BY <1>9, <1>1 DEF Filled, E
<1>15. Whole(tree, h, call', free, foreign)
  BY <1>1, <1>5, <1>7, <1>10, <1>11, SplitBegins, <1>14, <1>2 DEF NewOf, TopOf, BareOf, Whole,
     RootOK
<1> QED
  BY <1>4, <1>15

-----------------------------------------------------------------------------
(* The tree grows.                                                         *)

LEMMA DeeperIs ==
  ASSUME NEW t \in Trees, NEW b \in Block, t[Root].entries # <<>>
  PROVE  /\ Index(t[Root].entries[1].lblk, b) \in Ent
         /\ <<Index(t[Root].entries[1].lblk, b)>> \in Seq(Ent)
         /\ Deeper(t, Replace(Replace(Replace(t, Root, 0, <<>>), b, t[Root].depth, t[Root].entries),
                              Root, t[Root].depth + 1, <<Index(t[Root].entries[1].lblk, b)>>), b)
         /\ \A v : Deeper(t, v, b) =>
              v = Replace(Replace(Replace(t, Root, 0, <<>>), b, t[Root].depth, t[Root].entries),
                          Root, t[Root].depth + 1, <<Index(t[Root].entries[1].lblk, b)>>)
<1> DEFINE R == t[Root].entries
           D == t[Root].depth
           x == Index(R[1].lblk, b)
           t1 == Replace(t, Root, 0, <<>>)
           t2 == Replace(t1, b, D, R)
           t3 == Replace(t2, Root, D + 1, <<x>>)
<1>1. Root \in Node /\ b \in Node /\ b # Root /\ b \in Nat
  BY RootNode
<1>2. t[Root] \in [depth : Nat, entries : Seq(Ent)] /\ D \in Nat /\ D + 1 \in Nat /\ R \in Seq(Ent)
      /\ t[Root] = [depth |-> D, entries |-> R]
  BY <1>1 DEF Trees
<1>3. x \in Ent
  <2>1. R[1] \in Ent
    BY <1>2, EntSeq
  <2> HIDE DEF R
  <2>2. R[1].lblk \in Nat
    BY <2>1 DEF Ent
  <2> QED
    BY <1>1, <2>2 DEF Index, Extent, Ent
<1> HIDE DEF x
<1>4. <<x>> \in Seq(Ent) /\ <<>> \in Seq(Ent)
  BY <1>3
<1> HIDE DEF R, D
<1>5. t1 \in Trees /\ \A m \in Node : m # Root => t1[m] = t[m]
  <2> DEFINE none == <<>>
             zero == 0
  <2>1. none \in Seq(Ent) /\ zero \in Nat
    BY <1>4
  <2> HIDE DEF none, zero
  <2>2. /\ Replace(t, Root, zero, none) \in Trees
        /\ Replace(t, Root, zero, none)[Root].depth = zero
        /\ Replace(t, Root, zero, none)[Root].entries = none
        /\ \A m \in Node : m # Root => Replace(t, Root, zero, none)[m] = t[m]
    BY <1>1, <2>1, ReplaceIs
  <2> QED
    BY <2>2 DEF none, zero
<1> HIDE DEF t1
<1>6. /\ t2 \in Trees /\ t2[b].depth = D /\ t2[b].entries = R
      /\ \A m \in Node : m # b => t2[m] = t1[m]
  <2>1. D \in Nat /\ R \in Seq(Ent)
    BY <1>2
  <2>2. /\ Replace(t1, b, D, R) \in Trees
        /\ Replace(t1, b, D, R)[b].depth = D /\ Replace(t1, b, D, R)[b].entries = R
        /\ \A m \in Node : m # b => Replace(t1, b, D, R)[m] = t1[m]
    BY <1>1, <1>5, <2>1, ReplaceIs
  <2> QED
    BY <2>2
<1>7. t2[b] = [depth |-> D, entries |-> R]
  BY <1>1, <1>6 DEF Trees
<1> HIDE DEF t2
<1>8. /\ t3 \in Trees /\ t3[Root].depth = D + 1 /\ t3[Root].entries = <<x>>
      /\ \A m \in Node : m # Root => t3[m] = t2[m]
  <2> DEFINE E == <<x>>
             d == D + 1
  <2>1. d \in Nat /\ E \in Seq(Ent)
    BY <1>2, <1>4
  <2> HIDE DEF E, d
  <2>2. /\ Replace(t2, Root, d, E) \in Trees
        /\ Replace(t2, Root, d, E)[Root].depth = d /\ Replace(t2, Root, d, E)[Root].entries = E
        /\ \A m \in Node : m # Root => Replace(t2, Root, d, E)[m] = t2[m]
    BY <1>1, <1>6, <2>1, ReplaceIs
  <2> QED
    BY <2>2 DEF E, d
<1> HIDE DEF t3
<1>9. Deeper(t, t3, b)
  <2>1. t3[b] = t[Root]
    BY <1>1, <1>2, <1>7, <1>8
  <2>2. \A m \in Node : m # Root /\ m # b => t3[m] = t[m]
    BY <1>5, <1>6, <1>8
  <2> QED
    BY <1>8, <2>1, <2>2 DEF Deeper, D, R, x
<1>10. ASSUME NEW v, Deeper(t, v, b) PROVE v = t3
  <2>1. v \in Trees /\ v[b] = t3[b] /\ v[Root].depth = t3[Root].depth
        /\ v[Root].entries = t3[Root].entries
        /\ \A m \in Node : m # Root /\ m # b => v[m] = t3[m]
    BY <1>9, <1>10 DEF Deeper
  <2>2. v[Root] = t3[Root]
    <3>1. v[Root] \in [depth : Nat, entries : Seq(Ent)] /\ t3[Root] \in [depth : Nat, entries : Seq(Ent)]
      BY <1>1, <1>8, <2>1 DEF Trees
    <3> QED
      BY <2>1, <3>1
  <2>3. \A m \in Node : v[m] = t3[m]
    BY <2>1, <2>2
  <2> QED
    BY <1>8, <2>1, <2>3 DEF Trees
<1> QED
  BY <1>3, <1>4, <1>9, <1>10 DEF t3, t2, t1, D, R, x

\* Replaced, where no index names the node.
LEMMA ReplacedFree ==
  ASSUME NEW t, NEW hi, Shape(t), Order(t, hi), Low(t, {}), Apart(t),
         NEW n \in Node, NEW d \in Nat, NEW E \in Seq(Ent), NEW u \in Nat,
         Sorted(E, d, hi, u), Fits(t, n, d, E), Mine(t, n, E), n \notin Owned(t) \/ n = Root
  PROVE  /\ Shape(Replace(t, n, d, E)) /\ Order(Replace(t, n, d, E), [hi EXCEPT ![n] = u])
         /\ Low(Replace(t, n, d, E), {}) /\ Apart(Replace(t, n, d, E))
         /\ \A b \in Block : b \in Owned(Replace(t, n, d, E)) <=>
                (b \in Owned(t) /\ ~Has(t, n, b)) \/ Hold(E, b)
         /\ \A b \in Block : Linked(Replace(t, n, d, E), b) <=>
                                             \/ Linked(t, b) /\ ~(t[n].depth > 0 /\ Has(t, n, b))
                                             \/ d > 0 /\ Hold(E, b)
<1>2. Under(t, n, d, hi, u, {}, E)
  BY IndexIs, RootNode DEF Under
<1> QED
  BY <1>2, Replaced

LEMMA OneHolds ==
  ASSUME NEW e \in Ent
  PROVE  /\ DOMAIN <<e>> = {1} /\ <<e>>[1] = e /\ \A x : Hold(<<e>>, x) <=> Holds(e, x)
BY DEF Hold

LEMMA NoneHolds == DOMAIN <<>> = {} /\ \A x : ~Hold(<<>>, x)
BY DEF Hold

LEMMA DeeperTree ==
  ASSUME NEW t, NEW hi, Tree(t, hi), t \in Trees, NEW b \in Block, b \notin Owned(t), t[b] = NoNode,
         t[Root].entries # <<>>, NEW v, Deeper(t, v, b)
  PROVE  /\ \E h : Tree(v, h)
         /\ \A x \in Block : x \in Owned(v) <=> x \in Owned(t) \/ x = b
         /\ \A x \in Block : Linked(v, x) <=> Linked(t, x) \/ x = b
<1> DEFINE R == t[Root].entries
           D == t[Root].depth
           key == Index(R[1].lblk, b)
           none == <<>>
           one == <<key>>
           u == hi[Root]
           t1 == Replace(t, Root, 0, none)
           t2 == Replace(t1, b, D, R)
           t3 == Replace(t2, Root, D + 1, one)
           h1 == [hi EXCEPT ![Root] = u]
           h2 == [h1 EXCEPT ![b] = u]
           h3 == [h2 EXCEPT ![Root] = u]
<1>1. /\ Root \in Node /\ b \in Node /\ b # Root /\ b \in Nat /\ Root \notin Block
      /\ Shape(t) /\ Order(t, hi) /\ Low(t, {}) /\ Apart(t) /\ 0 \in Nat
  BY RootNode DEF Tree
<1>2. /\ key \in Ent /\ one \in Seq(Ent) /\ v = t3
  BY DeeperIs
<1>3. /\ D \in Nat /\ D + 1 \in Nat /\ R \in Seq(Ent) /\ none \in Seq(Ent) /\ R # <<>>
      /\ u \in Nat /\ hi \in [Node -> Nat]
  <2>1. D \in Nat /\ R \in Seq(Ent)
    BY <1>1, ShapeIs
  <2> QED
    BY <1>1, <2>1 DEF Order
<1>4. 1 \in DOMAIN R /\ \A m \in DOMAIN R : m = 1 \/ (1 < m)
  <2> HIDE DEF R
  <2> QED
    BY <1>3, EntSeq
<1>5. /\ \A m \in DOMAIN R : /\ R[m].lblk \in Nat /\ End(R[m]) \in Nat /\ R[m].lblk < End(R[m])
                             /\ End(R[m]) <= u /\ R[1].lblk <= R[m].lblk
      /\ \A j, k \in DOMAIN R : j < k => End(R[j]) <= R[k].lblk
      /\ D > 0 => \A k \in DOMAIN R :
                    /\ hi[R[k].pblk] <= u
                    /\ \A m \in DOMAIN R : k < m => hi[R[k].pblk] <= R[m].lblk
  <2>1. \A m \in DOMAIN R : R[m].lblk \in Nat /\ End(R[m]) \in Nat /\ R[m].lblk < End(R[m])
    BY <1>1, EntryIs
  <2>2. /\ \A j, k \in DOMAIN R : j < k => End(R[j]) <= R[k].lblk
        /\ \A m \in DOMAIN R : End(R[m]) <= u
        /\ D > 0 => \A k \in DOMAIN R :
                      /\ hi[R[k].pblk] <= u
                      /\ \A m \in DOMAIN R : k < m => hi[R[k].pblk] <= R[m].lblk
    BY <1>1 DEF Order
  <2>3. ASSUME NEW m \in DOMAIN R PROVE R[1].lblk <= R[m].lblk
    <3>1. CASE m = 1
      BY <2>1, <3>1
    <3>2. CASE 1 < m
      BY <1>4, <2>1, <2>2, <3>2
    <3> QED
      BY <1>4, <3>1, <3>2
  <2> QED
    BY <2>1, <2>2, <2>3
<1>6. \A x \in Block : Hold(R, x) => x \in Owned(t) /\ x # b
  BY <1>1 DEF Owned, Has
<1>7. DOMAIN none = {} /\ \A x : ~Hold(none, x)
  BY NoneHolds
<1>8. DOMAIN one = {1} /\ one[1] = key /\ \A x : Hold(one, x) <=> x = b
  <2>1. DOMAIN one = {1} /\ one[1] = key /\ \A x : Hold(one, x) <=> Holds(key, x)
    <3> HIDE DEF key
    <3> QED
      BY <1>2, OneHolds
  <2>2. \A x : Holds(key, x) <=> x = b
    BY DEF Holds, Index, Extent
  <2> QED
    BY <2>1, <2>2
<1>9. key.lblk = R[1].lblk /\ key.len = 0 /\ key.pblk = b /\ End(key) = R[1].lblk + 1
  BY DEF Index, Extent, End
<1>10. /\ \A k \in DOMAIN R : IF D = 0 THEN R[k].len # 0
              ELSE R[k].len = 0 /\ R[k].pblk \in Block /\ t[R[k].pblk].depth = D - 1
       /\ D # 0 => \A k \in DOMAIN R : \A m \in DOMAIN t[R[k].pblk].entries :
                      R[k].lblk <= t[R[k].pblk].entries[m].lblk
  <2>1. \A k \in DOMAIN R : IF D = 0 THEN R[k].len # 0
              ELSE R[k].len = 0 /\ R[k].pblk \in Block /\ t[R[k].pblk].depth = D - 1
    BY <1>1 DEF Shape
  <2>2. D # 0 => D > 0
    BY <1>3
  <2> QED
    BY <1>1, <2>1, <2>2 DEF Low
<1>11. \A x \in Block : \A j, k \in DOMAIN R : Holds(R[j], x) /\ Holds(R[k], x) => j = k
  BY <1>1 DEF Apart
<1>12. \A k \in DOMAIN R : D # 0 => Hold(R, R[k].pblk)
  BY <1>10 DEF Hold, Holds
<1>13. t[Root].entries = R /\ t[Root].depth = D /\ t[b].entries = <<>>
  BY DEF NoNode
<1> HIDE DEF R, D, u, key, one, none
<1>14. /\ Shape(t1) /\ Order(t1, h1) /\ Low(t1, {}) /\ Apart(t1)
       /\ \A x \in Block : x \in Owned(t1) <=> (x \in Owned(t) /\ ~Has(t, Root, x)) \/ Hold(none, x)
       /\ \A x \in Block : Linked(t1, x) <=>
             \/ Linked(t, x) /\ ~(t[Root].depth > 0 /\ Has(t, Root, x))
             \/ 0 > 0 /\ Hold(none, x)
  <2> DEFINE zero == 0
  <2>1. /\ Sorted(none, zero, hi, u) /\ Fits(t, Root, zero, none) /\ Mine(t, Root, none)
        /\ zero \in Nat /\ (Root \notin Owned(t) \/ Root = Root)
    BY <1>7 DEF Sorted, Fits, Mine
  <2> HIDE DEF zero
  <2>2. /\ Shape(Replace(t, Root, zero, none))
        /\ Order(Replace(t, Root, zero, none), [hi EXCEPT ![Root] = u])
        /\ Low(Replace(t, Root, zero, none), {}) /\ Apart(Replace(t, Root, zero, none))
        /\ \A x \in Block : x \in Owned(Replace(t, Root, zero, none)) <=>
              (x \in Owned(t) /\ ~Has(t, Root, x)) \/ Hold(none, x)
        /\ \A x \in Block : Linked(Replace(t, Root, zero, none), x) <=>
             \/ Linked(t, x) /\ ~(t[Root].depth > 0 /\ Has(t, Root, x))
             \/ zero > 0 /\ Hold(none, x)
    BY <1>1, <1>3, <2>1, ReplacedFree
  <2> QED
    BY <2>2 DEF zero
<1>15. h1 = hi /\ t1 \in Trees /\ \A m \in Node : m # Root => t1[m] = t[m]
  <2>1. h1 = hi
    BY <1>3 DEF u
  <2> DEFINE zero == 0
  <2>2. zero \in Nat /\ none \in Seq(Ent) /\ Root \in Node
    BY <1>1, <1>3
  <2> HIDE DEF zero
  <2>3. /\ Replace(t, Root, zero, none) \in Trees
        /\ Replace(t, Root, zero, none)[Root].depth = zero
        /\ Replace(t, Root, zero, none)[Root].entries = none
        /\ \A m \in Node : m # Root => Replace(t, Root, zero, none)[m] = t[m]
    BY <2>2, ReplaceIs
  <2> QED
    BY <2>1, <2>3 DEF zero
<1> HIDE DEF t1, h1
<1>16. \A x \in Block : x \in Owned(t1) <=> x \in Owned(t) /\ ~Hold(R, x)
  BY <1>7, <1>13, <1>14 DEF Has
<1>17. /\ Shape(t2) /\ Order(t2, h2) /\ Low(t2, {}) /\ Apart(t2)
       /\ \A x \in Block : x \in Owned(t2) <=> (x \in Owned(t1) /\ ~Has(t1, b, x)) \/ Hold(R, x)
       /\ \A x \in Block : Linked(t2, x) <=>
             \/ Linked(t1, x) /\ ~(t1[b].depth > 0 /\ Has(t1, b, x))
             \/ D > 0 /\ Hold(R, x)
  <2>1. Sorted(R, D, h1, u)
    BY <1>5, <1>15 DEF Sorted
  <2>2. Fits(t1, b, D, R)
    <3> SUFFICES ASSUME NEW k \in DOMAIN R
                 PROVE  IF D = 0 THEN R[k].len # 0
                        ELSE /\ R[k].len = 0 /\ R[k].pblk \in Block /\ R[k].pblk # b
                             /\ t1[R[k].pblk].depth = D - 1
                             /\ \A m \in DOMAIN t1[R[k].pblk].entries :
                                   R[k].lblk <= t1[R[k].pblk].entries[m].lblk
      BY DEF Fits
    <3>1. CASE D = 0
      BY <1>10, <3>1
    <3>2. CASE D # 0
      <4>1. R[k].len = 0 /\ R[k].pblk \in Block /\ t[R[k].pblk].depth = D - 1
        BY <1>10, <3>2
      <4>2. R[k].pblk # b
        BY <1>6, <1>12, <3>2, <4>1
      <4>3. t1[R[k].pblk] = t[R[k].pblk]
        BY <1>1, <1>15, <4>1, RootNode
      <4> QED
        BY <1>10, <3>2, <4>1, <4>2, <4>3
    <3> QED
      BY <3>1, <3>2
  <2>3. Mine(t1, b, R)
    BY <1>11, <1>16 DEF Mine
  <2>4. b \notin Owned(t1) \/ b = Root
    BY <1>16
  <2> QED
    BY <1>1, <1>3, <1>14, <2>1, <2>2, <2>3, <2>4, ReplacedFree
<1>18. /\ t2 \in Trees /\ t2[b].depth = D /\ t2[b].entries = R
       /\ \A m \in Node : m # b => t2[m] = t1[m]
  <2>1. t1 \in Trees /\ b \in Node /\ D \in Nat /\ R \in Seq(Ent)
    BY <1>1, <1>3, <1>15
  <2>2. /\ Replace(t1, b, D, R) \in Trees
        /\ Replace(t1, b, D, R)[b].depth = D /\ Replace(t1, b, D, R)[b].entries = R
        /\ \A m \in Node : m # b => Replace(t1, b, D, R)[m] = t1[m]
    BY <2>1, ReplaceIs
  <2> QED
    BY <2>2
<1>19. h2[b] = u
  BY <1>1, <1>3, <1>15
<1>20. \A x \in Block : x \in Owned(t2) <=> x \in Owned(t)
  <2>1. \A x \in Block : ~Has(t1, b, x)
    BY <1>1, <1>13, <1>15, NoneHolds DEF Has
  <2> QED
    BY <1>6, <1>16, <1>17, <2>1
<1> HIDE DEF t2, h2
<1>21. /\ Shape(t3) /\ Order(t3, h3) /\ Low(t3, {}) /\ Apart(t3)
       /\ \A x \in Block : x \in Owned(t3) <=> (x \in Owned(t2) /\ ~Has(t2, Root, x)) \/ Hold(one, x)
       /\ \A x \in Block : Linked(t3, x) <=>
             \/ Linked(t2, x) /\ ~(t2[Root].depth > 0 /\ Has(t2, Root, x))
             \/ D + 1 > 0 /\ Hold(one, x)
  <2>1. Sorted(one, D + 1, h2, u)
    <3>1. End(key) <= u /\ h2[key.pblk] <= u
      BY <1>3, <1>4, <1>5, <1>9, <1>19
    <3> QED
      BY <1>8, <3>1 DEF Sorted
  <2>2. Fits(t2, Root, D + 1, one)
    <3>1. D + 1 # 0 /\ (D + 1) - 1 = D
      BY <1>3
    <3> QED
      BY <1>1, <1>5, <1>8, <1>9, <1>18, <3>1 DEF Fits
  <2>3. Mine(t2, Root, one)
    BY <1>8, <1>20 DEF Mine
  <2> DEFINE d == D + 1
  <2>4. d \in Nat /\ Sorted(one, d, h2, u) /\ Fits(t2, Root, d, one) /\ (Root \notin Owned(t2) \/ Root = Root)
    BY <1>3, <2>1, <2>2
  <2> HIDE DEF d
  <2>5. /\ Shape(Replace(t2, Root, d, one)) /\ Order(Replace(t2, Root, d, one), [h2 EXCEPT ![Root] = u])
        /\ Low(Replace(t2, Root, d, one), {}) /\ Apart(Replace(t2, Root, d, one))
        /\ \A x \in Block : x \in Owned(Replace(t2, Root, d, one)) <=>
              (x \in Owned(t2) /\ ~Has(t2, Root, x)) \/ Hold(one, x)
        /\ \A x \in Block : Linked(Replace(t2, Root, d, one), x) <=>
             \/ Linked(t2, x) /\ ~(t2[Root].depth > 0 /\ Has(t2, Root, x))
             \/ d > 0 /\ Hold(one, x)
    BY <1>1, <1>2, <1>3, <1>17, <2>3, <2>4, ReplacedFree
  <2> QED
    BY <2>5 DEF d
<1>22. \A x \in Block : x \in Owned(t3) <=> x \in Owned(t) \/ x = b
  <2>1. \A x \in Block : ~Has(t2, Root, x)
    <3>1. t2[Root] = t1[Root] /\ t1[Root].entries = none
      <4>1. t1[Root].entries = none
        BY <1>1, <1>3 DEF t1, Replace, Trees
      <4> QED
        BY <1>1, <1>18, <4>1
    <3> QED
      BY <1>7, <3>1 DEF Has
  <2> QED
    BY <1>8, <1>20, <1>21, <2>1
<1>23. \A x \in Block : Linked(t3, x) <=> Linked(t, x) \/ x = b
  <2> TAKE x \in Block
  <2>1. ~Has(t2, Root, x) /\ ~Has(t1, b, x)
    <3>1. t1[Root].entries = none /\ t2[Root] = t1[Root] /\ t1[b].entries = <<>>
      <4>1. t1[Root].entries = none
        BY <1>1, <1>3 DEF t1, Replace, Trees
      <4> QED
        BY <1>1, <1>13, <1>15, <1>18, <4>1
    <3> QED
      BY <1>7, <3>1, NoneHolds DEF Has
  <2>2. Linked(t3, x) <=> Linked(t2, x) \/ x = b
    BY <1>3, <1>8, <1>21, <2>1
  <2>3. Linked(t2, x) <=> Linked(t1, x) \/ (D > 0 /\ Hold(R, x))
    BY <1>17, <2>1
  <2>4. Linked(t1, x) <=> Linked(t, x) /\ ~(D > 0 /\ Hold(R, x))
    BY <1>13, <1>14 DEF Has
  <2>5. D > 0 /\ Hold(R, x) => Linked(t, x)
    BY <1>1, <1>13 DEF Linked, Has
  <2> QED
    BY <2>2, <2>3, <2>4, <2>5
<1>24. Tree(v, h3)
  BY <1>2, <1>21 DEF Tree
<1> QED
  BY <1>2, <1>22, <1>23, <1>24

LEMMA LongerPath ==
  ASSUME NEW t, Shape(t), NEW p, IsPath(t, p), NEW b \in Block, NEW v, Deeper(t, v, b),
         \A j \in 1 .. Len(p) : p[j].n # b, NEW l \in Nat, NEW u \in Nat,
         Between(t, p, l, u), Clear(t, p, l, u)
  PROVE  IsPath(v, Longer(p, b)) /\ Between(v, Longer(p, b), l, u) /\ Clear(v, Longer(p, b), l, u)
<1> DEFINE L == Len(p)
           q == Longer(p, b)
           M == L + 1
<1>1. /\ L \in Nat \ {0} /\ L - 1 \in Nat /\ DOMAIN p = 1 .. L /\ L = t[Root].depth + 1
      /\ p \in [1 .. L -> [n : Node, i : Nat]]
      /\ \A j \in 1 .. L : p[j].n \in Node /\ p[j].i \in Nat /\ t[p[j].n].depth = L - j
      /\ p[1].n = Root
      /\ \A i, j \in 1 .. L : p[i].n = p[j].n => i = j
      /\ Chain(t, p, L - 1)
      /\ IF t[p[L].n].entries = <<>> THEN p[L].i = 0 ELSE p[L].i \in DOMAIN t[p[L].n].entries
  BY PathIs
<1>2. /\ v[b] = t[Root] /\ v[Root].depth = t[Root].depth + 1
      /\ v[Root].entries = <<Index(t[Root].entries[1].lblk, b)>>
      /\ \A m \in Node : m # Root /\ m # b => v[m] = t[m]
  BY DEF Deeper
<1>3. L \in Nat /\ M \in Nat /\ 1 \in 1 .. L /\ M # 1 /\ M # 0 /\ M \in 1 .. M
  BY <1>1
<1>4. \A j \in 1 .. L : p[j] \in [n : Node, i : Nat]
  BY <1>1
<1>5. \A j \in 1 .. M : j # 1 => j - 1 \in 1 .. L /\ (j # 2 => j - 1 # 1) /\ (j = 2 => j - 1 = 1)
  BY <1>3
<1>6. q = [j \in 1 .. M |->
        IF j = 1 THEN [n |-> Root, i |-> 1] ELSE IF j = 2 THEN [n |-> b, i |-> p[1].i] ELSE p[j - 1]]
  BY DEF Longer
<1>7. q \in [1 .. M -> [n : Node, i : Nat]]
  <2>1. [n |-> Root, i |-> 1] \in [n : Node, i : Nat] /\ [n |-> b, i |-> p[1].i] \in [n : Node, i : Nat]
    BY <1>1, <1>3, RootNode
  <2> HIDE DEF q, M, L
  <2> QED
    BY <1>4, <1>5, <1>6, <2>1
<1> HIDE DEF q
<1>8. Len(q) = M /\ DOMAIN q = 1 .. M
  <2> HIDE DEF M
  <2> QED
    BY <1>3, <1>7, FunctionIsSeq
<1>9. q[1].n = Root /\ q[1].i = 1
  <2>1. 1 \in 1 .. M
    BY <1>3
  <2> QED
    BY <1>6, <2>1
<1>10. ASSUME NEW j \in 1 .. M, j # 1
       PROVE  /\ q[j].i = p[j - 1].i /\ v[q[j].n] = t[p[j - 1].n] /\ j - 1 \in 1 .. L
              /\ j # 2 => q[j].n = p[j - 1].n
              /\ j = 2 => q[j].n = b
  <2>1. CASE j = 2
    <3>1. q[j] = [n |-> b, i |-> p[1].i] /\ j - 1 = 1
      BY <1>6, <2>1
    <3> QED
      BY <1>1, <1>2, <1>3, <2>1, <3>1
  <2>2. CASE j # 2
    <3>1. q[j] = p[j - 1] /\ j - 1 \in 1 .. L /\ j - 1 # 1
      BY <1>5, <1>6, <1>10, <2>2
    <3>2. p[j - 1].n # Root /\ p[j - 1].n # b /\ p[j - 1].n \in Node
      BY <1>1, <1>3, <3>1
    <3> QED
      BY <1>2, <2>2, <3>1, <3>2
  <2> QED
    BY <2>1, <2>2
<1>11. Steps(v, q, M)
  <2>1. M = v[Root].depth + 1
    BY <1>1, <1>2
  <2>2. ASSUME NEW j \in 1 .. M PROVE v[q[j].n].depth = M - j
    <3>1. CASE j = 1
      BY <1>1, <1>2, <1>9, <3>1
    <3>2. CASE j # 1
      <4>1. v[q[j].n].depth = t[p[j - 1].n].depth /\ j - 1 \in 1 .. L
        BY <1>10, <3>2
      <4>2. t[p[j - 1].n].depth = L - (j - 1)
        BY <1>1, <4>1
      <4> QED
        BY <1>3, <4>1, <4>2
    <3> QED
      BY <3>1, <3>2
  <2> QED
    BY <1>7, <1>8, <1>9, <2>1, <2>2 DEF Steps
<1>12. Chain(v, q, M - 1)
  <2> SUFFICES ASSUME NEW j \in 1 .. (M - 1)
               PROVE  /\ q[j].i \in DOMAIN v[q[j].n].entries
                      /\ v[q[j].n].entries[q[j].i].pblk = q[j + 1].n
    BY DEF Chain
  <2>0. j \in 1 .. M /\ j + 1 \in 1 .. M /\ j + 1 # 1 /\ (j + 1) - 1 = j
    BY <1>3
  <2>1. CASE j = 1
    <3>1. q[j + 1].n = b
      BY <1>10, <2>0, <2>1
    <3>2. q[j].i = 1 /\ v[q[j].n].entries = <<Index(t[Root].entries[1].lblk, b)>>
      BY <1>2, <1>9, <2>1
    <3> QED
      BY <3>1, <3>2 DEF Index, Extent
  <2>2. CASE j # 1
    <3>1. q[j].i = p[j - 1].i /\ v[q[j].n] = t[p[j - 1].n]
      BY <1>10, <2>0, <2>2
    <3>2. j + 1 # 2 /\ j - 1 \in 1 .. (L - 1) /\ (j - 1) + 1 = j
      BY <1>3, <2>0, <2>2
    <3>3. q[j + 1].n = p[j].n
      <4>1. q[j + 1].n = p[(j + 1) - 1].n
        BY <1>10, <2>0, <3>2
      <4> QED
        BY <2>0, <4>1
    <3>4. /\ p[j - 1].i \in DOMAIN t[p[j - 1].n].entries
          /\ t[p[j - 1].n].entries[p[j - 1].i].pblk = p[(j - 1) + 1].n
      BY <1>1, <3>2 DEF Chain
    <3> QED
      BY <3>1, <3>2, <3>3, <3>4
  <2> QED
    BY <2>1, <2>2
<1>13. q[M].i = p[L].i /\ v[q[M].n] = t[p[L].n]
  <2>1. M - 1 = L
    BY <1>3
  <2> QED
    BY <1>3, <1>10, <2>1
<1>14. IsPath(v, q)
  BY <1>1, <1>8, <1>11, <1>12, <1>13 DEF IsPath
<1>15. Between(v, q, l, u)
  <2> SUFFICES ASSUME NEW j \in 1 .. M
               PROVE  /\ q[j].i > 1 => v[q[j].n].entries[q[j].i].lblk <= l
                      /\ \A m \in DOMAIN v[q[j].n].entries : m > q[j].i => u <= v[q[j].n].entries[m].lblk
    BY <1>8 DEF Between
  <2>1. CASE j = 1
    <3>1. q[j].i = 1 /\ \A m \in DOMAIN v[q[j].n].entries : m = 1
      BY <1>2, <1>9, <2>1
    <3> QED
      BY <3>1
  <2>2. CASE j # 1
    <3>1. q[j].i = p[j - 1].i /\ v[q[j].n] = t[p[j - 1].n] /\ j - 1 \in DOMAIN p
      BY <1>1, <1>10, <2>2
    <3> QED
      BY <3>1 DEF Between
  <2> QED
    BY <2>1, <2>2
<1>16. Clear(v, q, l, u)
  BY <1>8, <1>13 DEF Clear
<1> QED
  BY <1>14, <1>15, <1>16 DEF q

LEMMA GrownIs ==
  ASSUME tree \in Trees, NEW b \in Block, tree[Root].entries # <<>>
  PROVE  Deeper(tree, Grown(b), b)
<1> DEFINE x == <<Index(tree[Root].entries[1].lblk, b)>>
           v == Grown(b)
<1>1. Root \in Node /\ b \in Node /\ b # Root
  BY RootNode
<1>2. tree[Root] \in [depth : Nat, entries : Seq(Ent)] /\ tree[Root].depth + 1 \in Nat
  BY <1>1 DEF Trees
<1>3. x \in Seq(Ent)
  BY DeeperIs
<1> HIDE DEF x
<1>4. v = [tree EXCEPT ![b] = tree[Root], ![Root] = [depth |-> tree[Root].depth + 1, entries |-> x]]
  BY DEF Grown, Depth, x
<1>5. [depth |-> tree[Root].depth + 1, entries |-> x] \in [depth : Nat, entries : Seq(Ent)]
  BY <1>2, <1>3
<1>6. v \in Trees
  BY <1>1, <1>2, <1>4, <1>5 DEF Trees
<1>7. v[b] = tree[Root] /\ v[Root] = [depth |-> tree[Root].depth + 1, entries |-> x]
      /\ \A m \in Node : m # Root /\ m # b => v[m] = tree[m]
  BY <1>1, <1>4 DEF Trees
<1> QED
  BY <1>6, <1>7 DEF Deeper, x

LEMMA GrowKeeps ==
  ASSUME NEW hi, Whole(tree, hi, call, free, foreign), NEW b, Grow(b)
  PROVE  \E h : Whole(tree', h, call', free', foreign')
<1> DEFINE p == call.path
           new == call.new
           n == Tip(p).n
           v == Grown(b)
           q == Longer(p, b)
           W == {c \in Block : Holds(new, c)}
<1>0. call.at = "insert"
  BY DEF Grow
<1>1. /\ Tree(tree, hi) /\ Shape(tree) /\ IsPath(tree, p) /\ InsertCall(call) /\ tree \in Trees
      /\ new \in Ent /\ new.len # 0 /\ call.combine \in BOOLEAN /\ call.fresh = <<>>
      /\ new.lblk \in Nat /\ End(new) \in Nat /\ new.lblk < End(new)
      /\ Between(tree, p, new.lblk, End(new)) /\ Clear(tree, p, new.lblk, End(new))
      /\ Parted(Owned(tree), free, foreign, W, {})
      /\ Nodes(tree, {}) /\ Filled(tree, {n})
  BY <1>0, InsertFacts
<1>2. /\ \A k \in DOMAIN p : Full(p[k])
      /\ \E goal : b \in Allocated(goal)
      /\ free' = free \ {b} /\ tree' = v /\ foreign' = foreign
      /\ call' = [call EXCEPT !.path = FindIn(v, new.lblk)]
  BY DEF Grow
<1>4. b \in free /\ b \in Block /\ b \in Node
  BY <1>1, <1>2, AllocatedFree, RootNode DEF Parted
<1>5. /\ Len(p) \in Nat \ {0} /\ DOMAIN p = 1 .. Len(p) /\ 1 \in 1 .. Len(p) /\ Len(p) \in 1 .. Len(p)
      /\ p[1].n = Root /\ p[Len(p)].n = n /\ n \in Node
      /\ \A j \in 1 .. (Len(p) - 1) : p[j + 1].n \in Block /\ Index2(tree, p[j].n, p[j].i, p[j + 1].n)
                                      /\ p[j].n \in Node
  <2> HIDE DEF p
  <2>1. /\ Len(p) \in Nat \ {0} /\ DOMAIN p = 1 .. Len(p) /\ p[1].n = Root
        /\ \A j \in 1 .. Len(p) : p[j].n \in Node
        /\ \A j \in 1 .. (Len(p) - 1) : p[j + 1].n \in Block /\ Index2(tree, p[j].n, p[j].i, p[j + 1].n)
    BY <1>1, PathIs
  <2> QED
    BY <2>1 DEF Tip
<1>6. tree[Root].entries # <<>> /\ tree[n].entries # <<>>
  <2>1. Full(p[1]) /\ Full(p[Len(p)])
    BY <1>2, <1>5
  <2> QED
    BY <1>5, <2>1, TreeAssumption DEF Full, Space
<1>7. Filled(tree, {})
  BY <1>1, <1>6 DEF Filled
<1>8. b \notin Owned(tree) /\ b \notin W /\ b \notin foreign
  BY <1>1, <1>4 DEF Parted
<1>10. tree[b] = NoNode
  BY <1>1, <1>4, <1>8 DEF Linked, Owned, Nodes
<1>11. Deeper(tree, v, b)
  BY <1>1, <1>4, <1>6, GrownIs
<1> HIDE DEF v
<1>12. /\ \E h : Tree(v, h)
       /\ \A x \in Block : x \in Owned(v) <=> x \in Owned(tree) \/ x = b
       /\ \A x \in Block : Linked(v, x) <=> Linked(tree, x) \/ x = b
  BY <1>1, <1>4, <1>6, <1>8, <1>10, <1>11, DeeperTree
<1>13. PICK h : Tree(v, h)
  BY <1>12
<1>14. \A j \in 1 .. Len(p) : p[j].n # b
  <2> SUFFICES ASSUME NEW j \in 1 .. Len(p) PROVE p[j].n # b
    OBVIOUS
  <2>1. CASE j = 1
    BY <1>4, <1>5, <2>1, RootNode
  <2>2. CASE j # 1
    <3>1. j - 1 \in 1 .. (Len(p) - 1) /\ (j - 1) + 1 = j
      BY <1>5, <2>2
    <3>2. Index2(tree, p[j - 1].n, p[j - 1].i, p[j].n) /\ p[j - 1].n \in Node
      BY <1>5, <3>1
    <3> QED
      BY <1>1, <3>2, IndexIs, <1>8
  <2> QED
    BY <2>1, <2>2
<1>15. IsPath(v, q) /\ Between(v, q, new.lblk, End(new)) /\ Clear(v, q, new.lblk, End(new))
  <2> HIDE DEF p, new
  <2> QED
    BY <1>1, <1>4, <1>11, <1>14, LongerPath
<1>16. FindIn(v, new.lblk) = q
  <2>1. Shape(v)
    BY <1>13 DEF Tree
  <2> HIDE DEF q, new
  <2> QED
    BY <1>1, <1>15, <2>1, FindOnly
<1> HIDE DEF q
<1>17. /\ InsertCall(call') /\ call'.at = "insert" /\ call'.path = q /\ call'.new = new
       /\ call'.combine = call.combine /\ call'.fresh = <<>>
  BY <1>0, <1>1, <1>2, <1>16 DEF InsertCall
<1>18. InsertOK(v, call')
  BY <1>1, <1>15, <1>17 DEF InsertOK
<1>20. Nodes(v, {}) /\ Filled(v, {}) /\ RootOK(v)
  BY <1>11, RootNode, <1>6, <1>1, <1>12, <1>7 DEF Deeper, Nodes, Filled, RootOK
<1>21. Filled(v, {Tip(call'.path).n})
  BY <1>20 DEF Filled
<1>22. Whole(v, h, call', free \ {b}, foreign)
  <2>1. Parted(Owned(v), free \ {b}, foreign, {c \in Block : Holds(call'.new, c)}, {})
    BY <1>1, <1>4, <1>8, <1>12, <1>17 DEF Owned, Parted
  <2> HIDE DEF W
  <2> QED
    BY <1>13, <1>17, <1>18, <1>20, <1>21, <2>1, InsertWhole
<1> QED
  BY <1>2, <1>22

-----------------------------------------------------------------------------
(* A node is split.                                                        *)

LEMMA FrontIs ==
  ASSUME NEW E \in Seq(Ent), NEW i \in DOMAIN E
  PROVE  /\ SubSeq(E, 1, i) \in Seq(Ent) /\ Len(SubSeq(E, 1, i)) = i
         /\ DOMAIN SubSeq(E, 1, i) = 1 .. i /\ i \in 1 .. i
         /\ \A k \in 1 .. i : k \in DOMAIN E /\ SubSeq(E, 1, i)[k] = E[k]
<1>1. Len(E) \in Nat /\ DOMAIN E = 1 .. Len(E)
  BY EntSeq
<1>2. i \in Nat /\ i <= Len(E) /\ 1 <= i + 1 /\ (i - 1) + 1 = i /\ 1 \in Nat \ {0}
  BY <1>1
<1> QED
  BY <1>1, <1>2, SubSeqIs

LEMMA BackIs ==
  ASSUME NEW E \in Seq(Ent), NEW i \in DOMAIN E
  PROVE  /\ SubSeq(E, i + 1, Len(E)) \in Seq(Ent) /\ Len(SubSeq(E, i + 1, Len(E))) = Len(E) - i
         /\ TailOf(E, i, SubSeq(E, i + 1, Len(E)), 0)
<1> DEFINE a == i + 1
           z == Len(E)
           Z == SubSeq(E, a, z)
<1>1. Len(E) \in Nat /\ DOMAIN E = 1 .. Len(E) /\ i \in Nat
  BY EntSeq
<1>2. a \in Nat \ {0} /\ z \in Nat /\ z <= Len(E) /\ a <= z + 1 /\ z - a + 1 = Len(E) - i
  BY <1>1
<1> HIDE DEF a, z
<1>3. /\ Z \in Seq(Ent) /\ Len(Z) = z - a + 1
      /\ DOMAIN Z = 1 .. (z - a + 1)
      /\ \A k \in 1 .. (z - a + 1) : Z[k] = E[k + a - 1]
  BY <1>2, SubSeqIs
<1> HIDE DEF Z
<1>4. \A k \in 1 .. (Len(E) - i) : k + a - 1 = i + (k - 0) /\ i + (k - 0) \in DOMAIN E
  BY <1>1 DEF a
<1>5. Len(E) - i + 0 = Len(E) - i
  BY <1>1
<1>6. TailOf(E, i, Z, 0)
  BY <1>2, <1>3, <1>4, <1>5 DEF TailOf
<1> QED
  BY <1>2, <1>3, <1>6 DEF Z, a, z

LEMMA KeyedBackIs ==
  ASSUME NEW E \in Seq(Ent), NEW i \in DOMAIN E, NEW e \in Ent
  PROVE  TailOf(E, i, <<e>> \o SubSeq(E, i + 1, Len(E)), 1)
         /\ (<<e>> \o SubSeq(E, i + 1, Len(E)))[1] = e
         /\ 1 \in DOMAIN (<<e>> \o SubSeq(E, i + 1, Len(E)))
<1> DEFINE Z == SubSeq(E, i + 1, Len(E))
           N == <<e>> \o Z
<1>1. Len(E) \in Nat /\ DOMAIN E = 1 .. Len(E) /\ i \in Nat /\ i <= Len(E)
  BY EntSeq
<1>2. Z \in Seq(Ent) /\ Len(Z) = Len(E) - i /\ TailOf(E, i, Z, 0)
  BY BackIs
<1> HIDE DEF Z
<1>3. /\ N \in Seq(Ent) /\ Len(N) = 1 + Len(Z) /\ N[1] = e
      /\ \A k \in 1 .. (1 + Len(Z)) : k > 1 => N[k] = Z[k - 1]
  BY <1>1, <1>2, ConcatProperties
<1>4. DOMAIN N = 1 .. (Len(E) - i + 1)
  BY <1>1, <1>2, <1>3, EntSeq
<1>5. ASSUME NEW k \in 1 .. (Len(E) - i + 1), k > 1
      PROVE  i + (k - 1) \in DOMAIN E /\ N[k] = E[i + (k - 1)]
  <2>1. k - 1 \in DOMAIN Z /\ (k - 1) - 0 = k - 1 /\ k - 1 > 0 /\ k \in 1 .. (1 + Len(Z))
    BY <1>1, <1>2, <1>5, EntSeq
  <2> QED
    BY <1>2, <2>1, <1>3, <1>5 DEF TailOf
<1>7. 1 \in DOMAIN N
  BY <1>1, <1>4
<1> QED
  BY <1>3, <1>4, <1>5, <1>7 DEF TailOf, Z

\* Replaced, for a node that keeps its depth.
LEMMA NodeReplaced ==
  ASSUME NEW t, NEW hi, Tree(t, hi), NEW n \in Node, NEW E \in Seq(Ent), NEW u \in Nat, u <= hi[n],
         Sorted(E, t[n].depth, hi, u), Fits(t, n, t[n].depth, E), Mine(t, n, E), NEW X,
         \A m \in Node : \A k : Index2(t, m, k, n) =>
            <<m, k>> \in X \/ \A j \in DOMAIN E : t[m].entries[k].lblk <= E[j].lblk
  PROVE  /\ Shape(With(t, n, E)) /\ Order(With(t, n, E), [hi EXCEPT ![n] = u])
         /\ Low(With(t, n, E), X) /\ Apart(With(t, n, E))
         /\ \A b \in Block : b \in Owned(With(t, n, E)) <=>
                               (b \in Owned(t) /\ ~Has(t, n, b)) \/ Hold(E, b)
         /\ \A b \in Block : Linked(With(t, n, E), b) <=>
                               \/ Linked(t, b) /\ ~(t[n].depth > 0 /\ Has(t, n, b))
                               \/ t[n].depth > 0 /\ Hold(E, b)
<1>1. Shape(t) /\ Order(t, hi) /\ Low(t, {}) /\ Apart(t)
  BY DEF Tree
<1>4. t[n].depth \in Nat
  BY <1>1, ShapeIs
<1> DEFINE d == t[n].depth
<1>5. d \in Nat /\ Sorted(E, d, hi, u) /\ Fits(t, n, d, E) /\ Under(t, n, d, hi, u, X, E)
  BY <1>4 DEF Under
<1> HIDE DEF d
<1> QED
  BY <1>1, <1>5, Replaced DEF With, d

LEMMA FrontTree ==
  ASSUME NEW t, NEW hi, Tree(t, hi), t \in Trees, NEW n \in Node, NEW i \in DOMAIN t[n].entries,
         NEW key, Cut(t, hi, n, i, key)
  PROVE  /\ Tree(With(t, n, SubSeq(t[n].entries, 1, i)), [hi EXCEPT ![n] = key])
         /\ \A x \in Block :
              x \in Owned(With(t, n, SubSeq(t[n].entries, 1, i))) <=>
                x \in Owned(t) /\ ~\E m \in DOMAIN t[n].entries : m > i /\ Holds(t[n].entries[m], x)
         /\ \A x \in Block :
              Linked(With(t, n, SubSeq(t[n].entries, 1, i)), x) <=>
                /\ Linked(t, x)
                /\ ~(t[n].depth > 0 /\ \E m \in DOMAIN t[n].entries : m > i /\ Holds(t[n].entries[m], x))
<1> DEFINE E == t[n].entries
           A == SubSeq(E, 1, i)
           d == t[n].depth
<1>1. Shape(t) /\ Order(t, hi) /\ Low(t, {}) /\ Apart(t)
  BY DEF Tree
<1>2. d \in Nat /\ E \in Seq(Ent) /\ DOMAIN E = 1 .. Len(E) /\ Len(E) \in Nat /\ i \in Nat
      /\ i \in DOMAIN E
  BY <1>1, ShapeIs
<1>3. /\ key \in Nat /\ key < hi[n] /\ End(E[i]) <= key /\ (d > 0 => hi[E[i].pblk] <= key)
      /\ hi \in [Node -> Nat] /\ hi[n] \in Nat
  BY <1>1 DEF Cut, Order
<1>4. /\ A \in Seq(Ent) /\ DOMAIN A = 1 .. i /\ i \in 1 .. i
      /\ \A k \in 1 .. i : k \in DOMAIN E /\ A[k] = E[k]
  <2> HIDE DEF E
  <2> QED
    BY <1>2, FrontIs
<1>5. \A m \in DOMAIN E : /\ E[m].lblk \in Nat /\ End(E[m]) \in Nat /\ E[m].lblk < End(E[m])
  BY <1>1, EntryIs
<1>6. /\ \A j, k \in DOMAIN E : j < k => End(E[j]) <= E[k].lblk
      /\ \A k \in DOMAIN E : End(E[k]) <= hi[n]
      /\ d > 0 => \A k \in DOMAIN E :
                    /\ hi[E[k].pblk] <= hi[n]
                    /\ \A m \in DOMAIN E : k < m => hi[E[k].pblk] <= E[m].lblk
  BY <1>1 DEF Order
<1>7. \A k \in DOMAIN E : d # 0 =>
         /\ E[k].len = 0 /\ E[k].pblk \in Block /\ E[k].pblk # n /\ t[E[k].pblk].depth = d - 1
         /\ hi[E[k].pblk] \in Nat
         /\ \A m \in DOMAIN t[E[k].pblk].entries : E[k].lblk <= t[E[k].pblk].entries[m].lblk
  <2> SUFFICES ASSUME NEW k \in DOMAIN E, d # 0
               PROVE  /\ E[k].len = 0 /\ E[k].pblk \in Block /\ E[k].pblk # n /\ t[E[k].pblk].depth = d - 1
                      /\ hi[E[k].pblk] \in Nat
                      /\ \A m \in DOMAIN t[E[k].pblk].entries : E[k].lblk <= t[E[k].pblk].entries[m].lblk
    OBVIOUS
  <2>1. E[k].len = 0 /\ E[k].pblk \in Block /\ t[E[k].pblk].depth = d - 1
    BY <1>1 DEF Shape
  <2>2. E[k].pblk # n
    BY <1>2, <2>1
  <2>3. hi[E[k].pblk] \in Nat
    BY <1>3, <2>1, RootNode
  <2>4. \A m \in DOMAIN t[E[k].pblk].entries : E[k].lblk <= t[E[k].pblk].entries[m].lblk
    <3>1. t[n].depth > 0
      BY <1>2
    <3> QED
      BY <1>1, <3>1 DEF Low
  <2> QED
    BY <2>1, <2>2, <2>3, <2>4
<1>8. \A k \in DOMAIN E : d = 0 => E[k].len # 0
  BY <1>1 DEF Shape
<1>9. \A x \in Block : \A j, k \in DOMAIN E : Holds(E[j], x) /\ Holds(E[k], x) => j = k
  BY <1>1 DEF Apart
<1>10. \A m \in Node : \A k : Index2(t, m, k, n) => \A j \in DOMAIN A : t[m].entries[k].lblk <= A[j].lblk
  <2> SUFFICES ASSUME NEW m \in Node, NEW k, Index2(t, m, k, n)
               PROVE  \A j \in DOMAIN A : t[m].entries[k].lblk <= A[j].lblk
    OBVIOUS
  <2>1. \A j \in DOMAIN E : t[m].entries[k].lblk <= E[j].lblk
    BY <1>1 DEF Low, Index2
  <2> HIDE DEF E, A
  <2> QED
    BY <1>4, <2>1
<1>11. d = t[n].depth /\ key <= hi[n]
  BY <1>3
<1>12. \A x : Hold(E, x) <=> Has(t, n, x)
  BY DEF Has
<1> HIDE DEF E, A, d
<1>13. Sorted(A, d, hi, key)
  <2>2. ASSUME NEW k \in DOMAIN A, k # i PROVE k < i /\ End(E[k]) <= E[i].lblk /\ E[i].lblk < key
    BY <1>2, <1>3, <1>4, <1>5, <1>6, <2>2
  <2>3. ASSUME NEW k \in DOMAIN A PROVE End(A[k]) <= key
    <3>1. CASE k = i
      BY <1>3, <1>4, <3>1
    <3>2. CASE k # i
      BY <1>4, <1>5, <2>2, <3>2, <1>3
    <3> QED
      BY <3>1, <3>2
  <2>4. ASSUME d > 0, NEW k \in DOMAIN A PROVE hi[A[k].pblk] <= key
    <3>1. CASE k = i
      BY <1>3, <1>4, <2>4, <3>1
    <3>2. CASE k # i
      <4>1. hi[E[k].pblk] \in Nat /\ E[i].lblk \in Nat /\ hi[E[k].pblk] <= E[i].lblk /\ E[i].lblk < key
        BY <1>2, <1>4, <1>5, <1>6, <1>7, <2>2, <2>4, <3>2
      <4> QED
        BY <1>3, <1>4, <4>1
    <3> QED
      BY <3>1, <3>2
  <2> QED
    BY <1>4, <1>6, <2>3, <2>4 DEF Sorted
<1>14. Fits(t, n, d, A)
  BY <1>4, <1>7, <1>8 DEF Fits
<1>15. \A x : Hold(A, x) => Hold(E, x)
  BY <1>4 DEF Hold
<1>16. Mine(t, n, A)
  BY <1>4, <1>9, <1>12, <1>15 DEF Mine
<1>17. \A x \in Block : Hold(A, x) <=>
          Hold(E, x) /\ ~\E m \in DOMAIN E : m > i /\ Holds(E[m], x)
  <2> SUFFICES ASSUME NEW x \in Block
               PROVE  Hold(A, x) <=> Hold(E, x) /\ ~\E m \in DOMAIN E : m > i /\ Holds(E[m], x)
    OBVIOUS
  <2>1. ASSUME Hold(A, x), NEW m \in DOMAIN E, m > i PROVE ~Holds(E[m], x)
    <3>1. PICK k \in 1 .. i : Holds(A[k], x)
      BY <1>4, <2>1 DEF Hold
    <3> QED
      BY <1>2, <1>4, <2>1, <3>1, <1>9
  <2>2. ASSUME Hold(E, x), ~\E m \in DOMAIN E : m > i /\ Holds(E[m], x) PROVE Hold(A, x)
    <3>1. PICK k \in DOMAIN E : Holds(E[k], x)
      BY <2>2 DEF Hold
    <3> QED
      BY <1>2, <2>2, <3>1, <1>4 DEF Hold
  <2> QED
    BY <1>15, <2>1, <2>2
<1> DEFINE v == With(t, n, A)
           X == {}
<1>18. v = With(t, n, SubSeq(t[n].entries, 1, i))
  BY DEF A, E
<1>24. \A m \in Node : \A k : Index2(t, m, k, n) =>
         <<m, k>> \in X \/ \A j \in DOMAIN A : t[m].entries[k].lblk <= A[j].lblk
  BY <1>10
<1>25. /\ Sorted(A, t[n].depth, hi, key) /\ Fits(t, n, t[n].depth, A) /\ key <= hi[n]
       /\ key \in Nat /\ A \in Seq(Ent)
  BY <1>3, <1>4, <1>11, <1>13, <1>14
<1> HIDE DEF X
<1>26. /\ Shape(With(t, n, A)) /\ Order(With(t, n, A), [hi EXCEPT ![n] = key])
       /\ Low(With(t, n, A), X) /\ Apart(With(t, n, A))
       /\ \A b \in Block : b \in Owned(With(t, n, A)) <=> (b \in Owned(t) /\ ~Has(t, n, b)) \/ Hold(A, b)
       /\ \A b \in Block : Linked(With(t, n, A), b) <=>
               \/ Linked(t, b) /\ ~(t[n].depth > 0 /\ Has(t, n, b))
               \/ t[n].depth > 0 /\ Hold(A, b)
  BY <1>24, <1>25, <1>16, NodeReplaced
<1>19. /\ Shape(v) /\ Order(v, [hi EXCEPT ![n] = key])
       /\ Low(v, {}) /\ Apart(v)
       /\ \A b \in Block : b \in Owned(v) <=> (b \in Owned(t) /\ ~Has(t, n, b)) \/ Hold(A, b)
       /\ \A b \in Block : Linked(v, b) <=>
               \/ Linked(t, b) /\ ~(t[n].depth > 0 /\ Has(t, n, b))
               \/ d > 0 /\ Hold(A, b)
  BY <1>26, <1>11 DEF X
<1> HIDE DEF v
<1>20. \A x \in Block : Has(t, n, x) => x \in Owned(t) /\ (d > 0 => Linked(t, x))
  BY DEF Owned, Linked, d
<1>21. \A x \in Block : x \in Owned(v) <=>
          x \in Owned(t) /\ ~\E m \in DOMAIN E : m > i /\ Holds(E[m], x)
  BY <1>12, <1>17, <1>19, <1>20 DEF Hold
<1>23. Tree(v, [hi EXCEPT ![n] = key])
  BY <1>19 DEF Tree
<1> QED
  BY <1>12, <1>17, <1>19, <1>20, <1>18, <1>21, <1>23 DEF d, Hold, E

LEMMA HalvedTree ==
  ASSUME NEW t, NEW hi, Tree(t, hi), t \in Trees, NEW n \in Node, NEW i \in DOMAIN t[n].entries,
         NEW key, Cut(t, hi, n, i, key), NEW b \in Block, b \notin Owned(t), b # n, t[b] = NoNode,
         NEW N, NEW o \in {0, 1}, TailOf(t[n].entries, i, N, o), NEW x,
         Begins(t, hi, n, i, key, N, o, x, b)
  PROVE  /\ \E h : Tree(Halve(t, n, i, b, N), h) /\ Ends(hi, h, n, b, key)
         /\ Gains(t, Halve(t, n, i, b, N), o, x)
<1> DEFINE E == t[n].entries
           d == t[n].depth
           t1 == With(t, n, SubSeq(E, 1, i))
           u == hi[n]
           h1 == [hi EXCEPT ![n] = key]
           h2 == [h1 EXCEPT ![b] = u]
           v == Replace(t1, b, d, N)
           Later(y) == \E m \in DOMAIN E : m > i /\ Holds(E[m], y)
<1>1. Shape(t) /\ Order(t, hi) /\ Low(t, {}) /\ Apart(t) /\ b \in Node /\ b # Root
  BY RootNode DEF Tree
<1>2. d \in Nat /\ E \in Seq(Ent) /\ DOMAIN E = 1 .. Len(E) /\ Len(E) \in Nat /\ i \in Nat
      /\ i \in DOMAIN E
  BY <1>1, ShapeIs
<1>3. /\ key \in Nat /\ key < u /\ \A m \in DOMAIN E : m > i => key <= E[m].lblk
      /\ hi \in [Node -> Nat] /\ u \in Nat
  BY <1>1 DEF Cut, Order
<1>4. /\ Tree(t1, h1)
      /\ \A y \in Block : y \in Owned(t1) <=> y \in Owned(t) /\ ~Later(y)
      /\ \A y \in Block : Linked(t1, y) <=> Linked(t, y) /\ ~(d > 0 /\ Later(y))
  BY FrontTree
<1>5. /\ t1 \in Trees /\ t1[n].depth = d /\ \A m \in Node : m # n => t1[m] = t[m]
      /\ \A m \in Node : t1[m].depth = t[m].depth
  <2>1. SubSeq(E, 1, i) \in Seq(Ent)
    <3> HIDE DEF E
    <3> QED
      BY <1>2, FrontIs
  <2> DEFINE A == SubSeq(E, 1, i)
  <2>2. A \in Seq(Ent)
    BY <2>1
  <2> HIDE DEF A
  <2>3. /\ With(t, n, A) \in Trees
        /\ With(t, n, A)[n].depth = t[n].depth
        /\ \A m \in Node : m # n => With(t, n, A)[m] = t[m]
        /\ \A m \in Node : With(t, n, A)[m].depth = t[m].depth
    BY <2>2, WithIs
  <2> QED
    BY <2>3 DEF A
<1>6. \A m \in DOMAIN E : /\ E[m].lblk \in Nat /\ End(E[m]) \in Nat /\ E[m].lblk < End(E[m])
  BY <1>1, EntryIs
<1>7. /\ \A j, k \in DOMAIN E : j < k => End(E[j]) <= E[k].lblk
      /\ \A k \in DOMAIN E : End(E[k]) <= u
      /\ d > 0 => \A k \in DOMAIN E :
                    /\ hi[E[k].pblk] <= u
                    /\ \A m \in DOMAIN E : k < m => hi[E[k].pblk] <= E[m].lblk
  BY <1>1 DEF Order
<1>8. \A k \in DOMAIN E : d # 0 =>
         /\ E[k].len = 0 /\ E[k].pblk \in Block /\ E[k].pblk # n /\ E[k].pblk # b
         /\ E[k].pblk \in Node
         /\ t[E[k].pblk].depth = d - 1
         /\ \A m \in DOMAIN t[E[k].pblk].entries : E[k].lblk <= t[E[k].pblk].entries[m].lblk
  <2> SUFFICES ASSUME NEW k \in DOMAIN E, d # 0
               PROVE  /\ E[k].len = 0 /\ E[k].pblk \in Block /\ E[k].pblk # n /\ E[k].pblk # b
                      /\ E[k].pblk \in Node
                      /\ t[E[k].pblk].depth = d - 1
                      /\ \A m \in DOMAIN t[E[k].pblk].entries : E[k].lblk <= t[E[k].pblk].entries[m].lblk
    OBVIOUS
  <2>1. E[k].len = 0 /\ E[k].pblk \in Block /\ t[E[k].pblk].depth = d - 1
    BY <1>1 DEF Shape
  <2>2. E[k].pblk # n /\ E[k].pblk \in Node
    <3>1. E[k].pblk = n => d = d - 1
      BY <2>1
    <3>2. E[k].pblk \in Node
      BY <2>1, RootNode
    <3> HIDE DEF d
    <3>3. d # d - 1
      BY <1>2
    <3> QED
      BY <3>1, <3>2, <3>3
  <2>3. d > 0
    BY <1>2
  <2>4. \A m \in DOMAIN t[E[k].pblk].entries : E[k].lblk <= t[E[k].pblk].entries[m].lblk
    BY <1>1, <2>3 DEF Low
  <2>5. E[k].pblk \in Owned(t)
    BY <2>1, Zenon DEF Owned, Has, Hold, Holds
  <2> QED
    BY <2>1, <2>2, <2>4, <2>5, Zenon
<1>9. \A k \in DOMAIN E : d = 0 => E[k].len # 0
  BY <1>1 DEF Shape
<1>10. \A y \in Block : \A j, k \in DOMAIN E : Holds(E[j], y) /\ Holds(E[k], y) => j = k
  BY <1>1 DEF Apart
<1>11. \A y \in Block : \A k \in DOMAIN E : Holds(E[k], y) =>
          y \in Owned(t) /\ (d > 0 => Linked(t, y))
  BY DEF Owned, Linked, Has, Hold
<1>12. o = 1 => /\ d > 0 /\ x \in Block /\ x \notin Owned(t) /\ x # n /\ x # b /\ x \in Node
                /\ t[x].depth = d - 1
                /\ \A m \in DOMAIN t[x].entries : key <= t[x].entries[m].lblk
                /\ hi[x] \in Nat /\ key < hi[x] /\ hi[x] <= u
                /\ \A m \in DOMAIN E : m > i => hi[x] <= E[m].lblk
                /\ N[1].lblk = key /\ N[1].len = 0 /\ N[1].pblk = x /\ End(N[1]) = key + 1
                /\ \A y : Holds(N[1], y) <=> y = x
  <2> SUFFICES ASSUME o = 1
               PROVE  /\ d > 0 /\ x \in Block /\ x \notin Owned(t) /\ x # n /\ x # b /\ x \in Node
                      /\ t[x].depth = d - 1
                      /\ \A m \in DOMAIN t[x].entries : key <= t[x].entries[m].lblk
                      /\ hi[x] \in Nat /\ key < hi[x] /\ hi[x] <= u
                      /\ \A m \in DOMAIN E : m > i => hi[x] <= E[m].lblk
                      /\ N[1].lblk = key /\ N[1].len = 0 /\ N[1].pblk = x /\ End(N[1]) = key + 1
                      /\ \A y : Holds(N[1], y) <=> y = x
    OBVIOUS
  <2>1. Hangs(t, hi, n, i, key, x) /\ x # b /\ N[1] = Index(key, x)
    BY DEF Begins
  <2>2. x \in Node /\ hi[x] \in Nat
    BY <1>3, <2>1, RootNode DEF Hangs
  <2>3. N[1].lblk = key /\ N[1].len = 0 /\ N[1].pblk = x /\ End(N[1]) = key + 1
        /\ \A y : Holds(N[1], y) <=> y = x
    BY <2>1 DEF Index, Extent, End, Holds
  <2> QED
    BY <2>1, <2>2, <2>3 DEF Hangs
<1>13. t1[b] = t[b] /\ h1[b] = hi[b] /\ \A m \in Node : m # n => h1[m] = hi[m]
  BY <1>1, <1>3, <1>5
<1>14. o = 0 => d = 0
  BY DEF Begins
<1> HIDE DEF E, d, u, h1, t1
<1>15. /\ N \in Seq(Ent) /\ DOMAIN N = 1 .. (Len(E) - i + o)
       /\ \A k \in DOMAIN N : k > o => i + (k - o) \in DOMAIN E /\ N[k] = E[i + (k - o)]
  BY DEF TailOf, E
<1>16. \A k \in DOMAIN N : k <= o => k = 1 /\ o = 1
  BY <1>15
<1>17. o = 1 => 1 \in DOMAIN N
  BY <1>2, <1>15
<1>18. Sorted(N, d, h1, u)
  <2>1. ASSUME NEW j \in DOMAIN N, NEW k \in DOMAIN N, j < k
        PROVE  End(N[j]) <= N[k].lblk /\ (d > 0 => h1[N[j].pblk] <= N[k].lblk)
    <3>1. k > o /\ i + (k - o) \in DOMAIN E /\ N[k] = E[i + (k - o)] /\ i + (k - o) > i
      BY <1>2, <1>15, <1>16, <2>1
    <3>2. CASE j > o
      <4>1. i + (j - o) \in DOMAIN E /\ N[j] = E[i + (j - o)] /\ i + (j - o) < i + (k - o)
        BY <1>2, <1>15, <2>1, <3>2
      <4>2. d > 0 => h1[N[j].pblk] = hi[N[j].pblk]
        BY <1>2, <1>8, <1>13, <4>1
      <4> QED
        BY <1>7, <3>1, <4>1, <4>2
    <3>3. CASE ~(j > o)
      <4>1. j = 1 /\ o = 1
        BY <1>15, <1>16, <3>3
      <4>2. h1[x] = hi[x] /\ hi[x] <= N[k].lblk /\ N[k].lblk \in Nat
        BY <1>6, <1>12, <1>13, <3>1, <4>1
      <4> QED
        BY <1>3, <1>12, <4>1, <4>2
    <3> QED
      BY <3>2, <3>3
  <2>2. ASSUME NEW k \in DOMAIN N
        PROVE  End(N[k]) <= u /\ (d > 0 => h1[N[k].pblk] <= u)
    <3>1. CASE k > o
      <4>1. i + (k - o) \in DOMAIN E /\ N[k] = E[i + (k - o)]
        BY <1>15, <3>1
      <4>2. d > 0 => h1[N[k].pblk] = hi[N[k].pblk]
        BY <1>2, <1>8, <1>13, <4>1
      <4> QED
        BY <1>7, <4>1, <4>2
    <3>2. CASE ~(k > o)
      <4>1. k = 1 /\ o = 1
        BY <1>15, <1>16, <3>2
      <4>2. h1[x] = hi[x]
        BY <1>12, <1>13, <4>1
      <4> QED
        BY <1>3, <1>12, <4>1, <4>2
    <3> QED
      BY <3>1, <3>2
  <2> QED
    BY <2>1, <2>2 DEF Sorted
<1>19. Fits(t1, b, d, N)
  <2> SUFFICES ASSUME NEW k \in DOMAIN N
               PROVE  IF d = 0 THEN N[k].len # 0
                      ELSE /\ N[k].len = 0 /\ N[k].pblk \in Block /\ N[k].pblk # b
                           /\ t1[N[k].pblk].depth = d - 1
                           /\ \A m \in DOMAIN t1[N[k].pblk].entries :
                                 N[k].lblk <= t1[N[k].pblk].entries[m].lblk
    BY DEF Fits
  <2>1. CASE k > o
    <3>1. i + (k - o) \in DOMAIN E /\ N[k] = E[i + (k - o)]
      BY <1>15, <2>1
    <3>2. d # 0 => t1[N[k].pblk] = t[N[k].pblk]
      BY <1>5, <1>8, <3>1
    <3> QED
      BY <1>8, <1>9, <3>1, <3>2
  <2>2. CASE ~(k > o)
    <3>1. k = 1 /\ o = 1
      BY <1>15, <1>16, <2>2
    <3>2. t1[x] = t[x] /\ d # 0
      BY <1>2, <1>5, <1>12, <3>1
    <3> QED
      BY <1>12, <3>1, <3>2
  <2> QED
    BY <2>1, <2>2
<1>20. \A y \in Block : Hold(N, y) <=> Later(y) \/ (o = 1 /\ y = x)
  <2> SUFFICES ASSUME NEW y \in Block PROVE Hold(N, y) <=> Later(y) \/ (o = 1 /\ y = x)
    OBVIOUS
  <2>1. ASSUME NEW k \in DOMAIN N, Holds(N[k], y) PROVE Later(y) \/ (o = 1 /\ y = x)
    <3>1. CASE k > o
      <4>1. i + (k - o) \in DOMAIN E /\ N[k] = E[i + (k - o)] /\ i + (k - o) > i
        BY <1>2, <1>15, <3>1
      <4> QED
        BY <2>1, <4>1
    <3>2. CASE ~(k > o)
      BY <1>12, <1>15, <1>16, <2>1, <3>2
    <3> QED
      BY <3>1, <3>2
  <2>2. ASSUME NEW m \in DOMAIN E, m > i, Holds(E[m], y) PROVE Hold(N, y)
    <3>1. (m - i) + o \in DOMAIN N /\ (m - i) + o > o /\ i + (((m - i) + o) - o) = m
      BY <1>2, <1>15, <2>2
    <3>2. N[(m - i) + o] = E[m]
      BY <1>15, <3>1
    <3> QED
      BY <2>2, <3>1, <3>2 DEF Hold
  <2>3. ASSUME o = 1, y = x PROVE Hold(N, y)
    BY <1>12, <1>17, <2>3 DEF Hold
  <2> QED
    BY <2>1, <2>2, <2>3 DEF Hold
<1>21. Mine(t1, b, N)
  <2>1. ASSUME NEW j \in DOMAIN N, NEW k \in DOMAIN N, NEW y \in Block, Holds(N[j], y), Holds(N[k], y)
        PROVE  j = k
    <3>1. CASE j > o /\ k > o
      <4>1. /\ i + (j - o) \in DOMAIN E /\ N[j] = E[i + (j - o)]
            /\ i + (k - o) \in DOMAIN E /\ N[k] = E[i + (k - o)]
        BY <1>15, <3>1
      <4>2. i + (j - o) = i + (k - o)
        BY <1>10, <2>1, <4>1
      <4> QED
        BY <1>2, <1>15, <4>2
    <3>2. CASE j > o /\ ~(k > o)
      <4>1. i + (j - o) \in DOMAIN E /\ N[j] = E[i + (j - o)] /\ k = 1 /\ o = 1
        BY <1>15, <1>16, <3>2
      <4>2. y \in Owned(t) /\ y = x
        BY <1>11, <1>12, <2>1, <4>1
      <4> QED
        BY <1>12, <4>1, <4>2
    <3>3. CASE ~(j > o) /\ k > o
      <4>1. i + (k - o) \in DOMAIN E /\ N[k] = E[i + (k - o)] /\ j = 1 /\ o = 1
        BY <1>15, <1>16, <3>3
      <4>2. y \in Owned(t) /\ y = x
        BY <1>11, <1>12, <2>1, <4>1
      <4> QED
        BY <1>12, <4>1, <4>2
    <3>4. CASE ~(j > o) /\ ~(k > o)
      BY <1>15, <1>16, <3>4
    <3> QED
      BY <3>1, <3>2, <3>3, <3>4
  <2>2. \A y \in Block : Hold(N, y) => y \notin Owned(t1)
    BY <1>4, <1>12, <1>20
  <2> QED
    BY <2>1, <2>2 DEF Mine
<1>22. b \notin Owned(t1) \/ b = Root
  BY <1>4
<1>23. /\ Shape(t1) /\ Order(t1, h1) /\ Low(t1, {}) /\ Apart(t1) /\ N \in Seq(Ent) /\ d \in Nat
       /\ u \in Nat
  BY <1>2, <1>3, <1>4, <1>15 DEF Tree
<1>24. /\ Shape(v) /\ Order(v, h2) /\ Low(v, {}) /\ Apart(v)
       /\ \A y \in Block : y \in Owned(v) <=> (y \in Owned(t1) /\ ~Has(t1, b, y)) \/ Hold(N, y)
       /\ \A y \in Block : Linked(v, y) <=>
             \/ Linked(t1, y) /\ ~(t1[b].depth > 0 /\ Has(t1, b, y))
             \/ d > 0 /\ Hold(N, y)
  BY <1>1, <1>18, <1>19, <1>21, <1>22, <1>23, ReplacedFree
<1>25. \A y : ~Has(t1, b, y)
  BY <1>13, NoneHolds DEF Has, NoNode
<1>26. \A y \in Block : y \in Owned(v) <=> y \in Owned(t) \/ (o = 1 /\ y = x)
  BY <1>4, <1>11, <1>20, <1>24, <1>25
<1>27. \A y \in Block : Linked(v, y) <=> Linked(t, y) \/ (o = 1 /\ y = x)
  BY <1>4, <1>11, <1>12, <1>14, <1>20, <1>24, <1>25
<1>28. h2[n] = key /\ h2[b] = hi[n] /\ \A m \in Node : m # n /\ m # b => h2[m] = hi[m]
  BY <1>1, <1>3 DEF h1, u
<1>29. v = Halve(t, n, i, b, N)
  BY DEF Halve, t1, E, d
<1>30. Tree(v, h2)
  BY <1>24 DEF Tree
<1> HIDE DEF v, h2
<1>31. Ends(hi, h2, n, b, key) /\ Gains(t, v, o, x)
  BY <1>26, <1>27, <1>28 DEF Ends, Gains
<1> QED
  BY <1>29, <1>30, <1>31

LEMMA SplitFacts ==
  ASSUME NEW hi, Whole(tree, hi, call, free, foreign), call.at = "split"
  PROVE  /\ Tree(tree, hi) /\ Shape(tree) /\ Order(tree, hi) /\ Low(tree, {}) /\ Apart(tree)
         /\ tree \in Trees /\ hi \in [Node -> Nat] /\ free \subseteq Block
         /\ InsertOK(tree, call) /\ InsertCall(call) /\ IsPath(tree, call.path)
         /\ call.new \in Ent /\ call.new.len # 0 /\ call.combine \in BOOLEAN
         /\ call.new.lblk \in Nat /\ End(call.new) \in Nat /\ call.new.lblk < End(call.new)
         /\ Between(tree, call.path, call.new.lblk, End(call.new))
         /\ Clear(tree, call.path, call.new.lblk, End(call.new))
         /\ call.key \in Nat /\ call.fresh \in Seq(Block) /\ call.top \in 2 .. Len(call.path)
         /\ Level(call) >= call.top - 1
         /\ LeftOK(tree, hi, call) /\ RightOK(tree, hi, call) /\ SideOK(tree, call)
         /\ Parted(Owned(tree), free, foreign, {b \in Block : Holds(call.new, b)}, TopOf(call))
         /\ Nodes(tree, TopOf(call)) /\ Filled(tree, BareOf(call)) /\ RootOK(tree)
<1>1. /\ Tree(tree, hi) /\ SplitOK(tree, hi, call) /\ RootOK(tree)
      /\ Parted(Owned(tree), free, foreign, NewOf(call), TopOf(call))
      /\ Nodes(tree, TopOf(call)) /\ Filled(tree, BareOf(call))
  BY DEF Whole, RootOK
<1>3. /\ Shape(tree) /\ Order(tree, hi) /\ Low(tree, {}) /\ Apart(tree)
      /\ tree \in Trees /\ hi \in [Node -> Nat]
  BY <1>1 DEF Tree, Shape, Order, Trees
<1>4. free \subseteq Block
  BY <1>1 DEF Parted
<1>5. /\ InsertOK(tree, call) /\ call.key \in Nat
      /\ call.fresh \in Seq(Block) /\ call.top \in 2 .. Len(call.path) /\ Level(call) >= call.top - 1
      /\ LeftOK(tree, hi, call) /\ RightOK(tree, hi, call) /\ SideOK(tree, call)
  BY <1>1 DEF SplitOK
<1>6. /\ InsertCall(call) /\ IsPath(tree, call.path)
      /\ call.new \in Ent /\ call.new.len # 0 /\ call.combine \in BOOLEAN
      /\ Between(tree, call.path, call.new.lblk, End(call.new))
      /\ Clear(tree, call.path, call.new.lblk, End(call.new))
  BY <1>5 DEF InsertOK
<1>7. call.new.lblk \in Nat /\ End(call.new) \in Nat /\ call.new.lblk < End(call.new)
  BY <1>6 DEF Ent, End
<1> QED
  BY <1>1, <1>3, <1>4, <1>5, <1>6, <1>7 DEF NewOf

LEMMA FreshIs ==
  ASSUME NEW t, NEW hi, Shape(t), NEW c, RightOK(t, hi, c), c.fresh \in Seq(Block)
  PROVE  Made2(t, c.fresh, c.key)
<1> DEFINE F == c.fresh
<1>1. Len(F) \in Nat /\ DOMAIN F = 1 .. Len(F) /\ \A j \in 1 .. Len(F) : F[j] \in Block
  BY LenProperties, ElementOfSeq
<1>2. \A j \in 1 .. Len(F) :
         /\ t[F[j]].depth = j - 1
         /\ \A m \in DOMAIN t[F[j]].entries : c.key <= t[F[j]].entries[m].lblk
         /\ j > 1 => t[F[j]].entries # <<>> /\ t[F[j]].entries[1] = Index(c.key, F[j - 1])
  BY DEF RightOK
<1> HIDE DEF F
<1>3. ASSUME NEW j \in 1 .. Len(F), j > 1
      PROVE  j - 1 \in 1 .. Len(F) /\ Index2(t, F[j], 1, F[j - 1]) /\ F[j - 1] \in Owned(t)
  <2> DEFINE i == j - 1
  <2>4. j \in Nat /\ i \in 1 .. Len(F) /\ i > 0
    BY <1>1, <1>3
  <2>1. i \in 1 .. Len(F) /\ i > 0 /\ F[j] \in Node /\ F[i] \in Block
    <3> HIDE DEF i
    <3> QED
      BY <1>1, <2>4, RootNode
  <2>2. 1 \in DOMAIN t[F[j]].entries
    BY <1>2, <1>3, <2>1, ShapeIs
  <2>3. t[F[j]].depth > 0 /\ t[F[j]].entries[1].pblk = F[i]
    <3>1. t[F[j]].depth = i /\ t[F[j]].entries[1] = Index(c.key, F[i])
      BY <1>2, <1>3
    <3> HIDE DEF i
    <3> QED
      BY <2>1, <3>1 DEF Index, Extent
  <2>5. Index2(t, F[j], 1, F[i])
    <3> HIDE DEF i
    <3> QED
      BY <2>2, <2>3 DEF Index2
  <2> QED
    BY <2>1, <2>5, IndexIs
<1>4. \A j \in 1 .. Len(F) : F[j] \in Node
  BY <1>1, RootNode
<1>5. F \in Seq(Block)
  BY DEF F
<1>6. Made2(t, F, c.key)
  BY <1>1, <1>2, <1>3, <1>4, <1>5 DEF Made2
<1> QED
  BY <1>6 DEF F

LEMMA PartPath ==
  ASSUME NEW t, Shape(t), NEW p, IsPath(t, p), NEW v, Part(t, v, p), NEW l, NEW u,
         Between(t, p, l, u), Clear(t, p, l, u)
  PROVE  IsPath(v, p) /\ Between(v, p, l, u) /\ Clear(v, p, l, u)
<1>1. /\ Len(p) \in Nat \ {0} /\ DOMAIN p = 1 .. Len(p) /\ Len(p) = t[Root].depth + 1
      /\ p \in [1 .. Len(p) -> [n : Node, i : Nat]]
      /\ \A j \in 1 .. Len(p) : p[j].i \in Nat /\ t[p[j].n].depth = Len(p) - j
      /\ p[1].n = Root
      /\ Chain(t, p, Len(p) - 1)
      /\ IF t[p[Len(p)].n].entries = <<>> THEN p[Len(p)].i = 0
         ELSE p[Len(p)].i \in DOMAIN t[p[Len(p)].n].entries
      /\ \A j \in 1 .. (Len(p) - 1) : p[j].i \in DOMAIN t[p[j].n].entries
  BY PathIs
<1>2. /\ Len(p) \in 1 .. Len(p) /\ \A j \in 1 .. (Len(p) - 1) : j \in 1 .. Len(p)
  BY <1>1
<1>3. Steps(v, p, Len(p))
  BY <1>1 DEF Steps, Part
<1>4. Chain(v, p, Len(p) - 1)
  BY <1>1, <1>2 DEF Chain, Part
<1>5. IF v[p[Len(p)].n].entries = <<>> THEN p[Len(p)].i = 0
      ELSE p[Len(p)].i \in DOMAIN v[p[Len(p)].n].entries
  BY <1>1, <1>2 DEF Part
<1>6. IsPath(v, p)
  BY <1>3, <1>4, <1>5 DEF IsPath
<1>7. \A j \in 1 .. Len(p) : p[j].i > 0 => p[j].i \in DOMAIN t[p[j].n].entries
  <2> SUFFICES ASSUME NEW j \in 1 .. Len(p), p[j].i > 0 PROVE p[j].i \in DOMAIN t[p[j].n].entries
    OBVIOUS
  <2>1. CASE j = Len(p)
    BY <1>1, <2>1
  <2>2. CASE j # Len(p)
    <3> QED
      BY <1>1, <2>2
  <2> QED
    BY <2>1, <2>2
<1>8. \A j \in 1 .. Len(p) : p[j].i > 0 => v[p[j].n].entries[p[j].i] = t[p[j].n].entries[p[j].i]
  BY <1>7 DEF Part
<1>9. Between(v, p, l, u)
  <2> SUFFICES ASSUME NEW j \in 1 .. Len(p)
               PROVE  /\ p[j].i > 1 => v[p[j].n].entries[p[j].i].lblk <= l
                      /\ \A m \in DOMAIN v[p[j].n].entries : m > p[j].i => u <= v[p[j].n].entries[m].lblk
    BY <1>1 DEF Between
  <2>1. /\ p[j].i > 1 => t[p[j].n].entries[p[j].i].lblk <= l
        /\ \A m \in DOMAIN t[p[j].n].entries : m > p[j].i => u <= t[p[j].n].entries[m].lblk
    BY <1>1 DEF Between
  <2>2. p[j].i > 1 => p[j].i > 0
    BY <1>1
  <2> QED
    BY <1>8, <2>1, <2>2 DEF Part
<1>10. Clear(v, p, l, u)
  BY <1>2, <1>8 DEF Clear
<1> QED
  BY <1>6, <1>9, <1>10

LEMMA SplitCut ==
  ASSUME NEW t, NEW hi, Shape(t), NEW c, IsPath(t, c.path), LeftOK(t, hi, c), c.key \in Nat,
         Level(c) \in 1 .. Len(c.path), NEW n, NEW i,
         n = c.path[Level(c)].n, i = c.path[Level(c)].i
  PROVE  /\ \A j \in 1 .. Len(c.path) : c.path[j].i \in DOMAIN t[c.path[j].n].entries
         /\ n \in Node /\ i \in DOMAIN t[n].entries /\ Cut(t, hi, n, i, c.key)
<1> DEFINE p == c.path
           k == Level(c)
           key == c.key
<1>1. /\ Len(p) \in Nat \ {0}
      /\ \A j \in 1 .. Len(p) : p[j].n \in Node /\ p[j].i \in Nat /\ t[p[j].n].depth = Len(p) - j
      /\ IF t[p[Len(p)].n].entries = <<>> THEN p[Len(p)].i = 0
         ELSE p[Len(p)].i \in DOMAIN t[p[Len(p)].n].entries
      /\ \A j \in 1 .. (Len(p) - 1) :
           /\ p[j].i \in DOMAIN t[p[j].n].entries
           /\ Index2(t, p[j].n, p[j].i, p[j + 1].n)
  BY PathIs
<1>2. /\ \A j \in 1 .. Len(p) : p[j].i > 0 /\ t[p[j].n].entries[p[j].i].lblk < key
      /\ End(t[p[Len(p)].n].entries[p[Len(p)].i]) <= key
      /\ \A j \in 1 .. k :
           /\ key < hi[p[j].n]
           /\ \A m \in DOMAIN t[p[j].n].entries : m > p[j].i => key <= t[p[j].n].entries[m].lblk
      /\ \A j \in (k + 1) .. Len(p) : hi[p[j].n] <= key
  BY Zenon DEF LeftOK, On, At
<1> HIDE DEF p, key, k
<1>3. k \in 1 .. Len(p) /\ n = p[k].n /\ i = p[k].i /\ key \in Nat
  BY DEF k, p, key
<1>4. \A j \in 1 .. Len(p) : p[j].i \in DOMAIN t[p[j].n].entries
  <2> SUFFICES ASSUME NEW j \in 1 .. Len(p) PROVE p[j].i \in DOMAIN t[p[j].n].entries
    OBVIOUS
  <2>1. CASE j = Len(p)
    BY <1>1, <1>2, <2>1
  <2>2. CASE j # Len(p)
    <3>1. j \in 1 .. (Len(p) - 1)
      BY <1>1, <2>2
    <3> QED
      BY <1>1, <3>1
  <2> QED
    BY <2>1, <2>2
<1>5. n \in Node /\ i \in DOMAIN t[n].entries /\ i \in Nat /\ k \in 1 .. k
  BY <1>1, <1>3, <1>4
<1>6. /\ key < hi[n] /\ t[n].entries[i].lblk < key
      /\ \A m \in DOMAIN t[n].entries : m > i => key <= t[n].entries[m].lblk
  BY <1>2, <1>3, <1>5
<1>7. End(t[n].entries[i]) <= key /\ (t[n].depth > 0 => hi[t[n].entries[i].pblk] <= key)
  <2>1. CASE k = Len(p)
    <3>1. t[n].depth = 0 /\ End(t[n].entries[i]) <= key
      BY <1>1, <1>2, <1>3, <2>1
    <3> QED
      BY <3>1
  <2>2. CASE k # Len(p)
    <3>1. k \in 1 .. (Len(p) - 1) /\ k + 1 \in (k + 1) .. Len(p)
      BY <1>1, <1>3, <2>2
    <3>2. Index2(t, n, i, p[k + 1].n)
      BY <1>1, <1>3, <3>1
    <3>3. hi[t[n].entries[i].pblk] <= key
      <4>1. t[n].entries[i].pblk = p[k + 1].n
        BY <3>2 DEF Index2
      <4> QED
        BY <1>2, <3>1, <4>1
    <3>4. t[n].depth # 0
      BY <1>5, <3>2, ShapeIs DEF Index2
    <3>5. End(t[n].entries[i]) = t[n].entries[i].lblk + 1 /\ t[n].entries[i].lblk \in Nat
      BY <1>5, <3>4, EntryIs
    <3> QED
      BY <1>3, <1>6, <3>3, <3>5
  <2> QED
    BY <2>1, <2>2, Zenon
<1>8. Cut(t, hi, n, i, key)
  BY <1>3, <1>6, <1>7 DEF Cut
<1> QED
  BY <1>4, <1>5, <1>8 DEF p, key

LEMMA SplitHangs ==
  ASSUME NEW t, NEW hi, Shape(t), NEW c, IsPath(t, c.path), RightOK(t, hi, c), Made2(t, c.fresh, c.key),
         Level(c) \in 1 .. Len(c.path), NEW n, NEW i, NEW x,
         n = c.path[Level(c)].n, i = c.path[Level(c)].i, c.fresh # <<>>, x = c.fresh[Len(c.fresh)],
         x \notin Owned(t)
  PROVE  /\ Hangs(t, hi, n, i, c.key, x) /\ Len(c.fresh) \in 1 .. Len(c.fresh)
         /\ t[n].depth = Len(c.fresh)
<1> DEFINE F == c.fresh
           p == c.path
           k == Level(c)
<1>1. Len(F) \in Nat /\ Len(F) # 0
  BY EmptySeq DEF Made2
<1>2. /\ Len(p) \in Nat \ {0} /\ \A j \in 1 .. Len(p) : p[j].n \in Node /\ t[p[j].n].depth = Len(p) - j
  <2>1. IsPath(t, p)
    OBVIOUS
  <2> HIDE DEF p
  <2> QED
    BY <2>1, PathIs
<1>3. k = Len(p) - Len(F)
  BY DEF Level
<1>4. /\ c.key < hi[x] /\ hi[x] <= hi[n]
      /\ \A m \in DOMAIN t[n].entries : m > i => hi[x] <= t[n].entries[m].lblk
  BY DEF RightOK, At
<1>5. /\ x \in Block /\ t[x].depth = Len(F) - 1
      /\ \A m \in DOMAIN t[x].entries : c.key <= t[x].entries[m].lblk
  <2>1. Len(F) \in 1 .. Len(F)
    BY <1>1
  <2> QED
    BY <2>1 DEF Made2
<1>6. t[n].depth = Len(F)
  <2> HIDE DEF k, p, F
  <2>1. k \in 1 .. Len(p) /\ n = p[k].n
    BY DEF k, p
  <2>2. t[n].depth = Len(p) - k
    BY <1>2, <2>1
  <2> QED
    BY <1>1, <1>2, <1>3, <2>1, <2>2
<1>7. t[n].depth > 0 /\ x # n /\ t[x].depth = t[n].depth - 1 /\ Len(F) \in 1 .. Len(F)
  <2> HIDE DEF F
  <2> QED
    BY <1>1, <1>5, <1>6
<1> QED
  BY <1>4, <1>5, <1>6, <1>7 DEF Hangs

LEMMA HalvedIs ==
  ASSUME NEW t \in Trees, NEW n \in Node, NEW i \in DOMAIN t[n].entries, NEW b \in Node, b # n,
         NEW N \in Seq(Ent)
  PROVE  Halved(t, Halve(t, n, i, b, N), n, i, b, N)
<1> DEFINE A == SubSeq(t[n].entries, 1, i)
           t1 == With(t, n, A)
           d == t[n].depth
           v == Replace(t1, b, d, N)
<1>1. t[n].entries \in Seq(Ent) /\ d \in Nat
  BY DEF Trees
<1>2. A \in Seq(Ent)
  BY <1>1, FrontIs
<1> HIDE DEF A, d
<1>3. /\ t1 \in Trees /\ t1[n].entries = A /\ \A m \in Node : m # n => t1[m] = t[m]
      /\ \A m \in Node : t1[m].depth = t[m].depth
  BY <1>2, WithIs
<1> HIDE DEF t1
<1>4. /\ v \in Trees /\ v[b].depth = d /\ v[b].entries = N /\ \A m \in Node : m # b => v[m] = t1[m]
  <2>1. /\ Replace(t1, b, d, N) \in Trees /\ Replace(t1, b, d, N)[b].depth = d
        /\ Replace(t1, b, d, N)[b].entries = N
        /\ \A m \in Node : m # b => Replace(t1, b, d, N)[m] = t1[m]
    <3>1. t1 \in Trees /\ d \in Nat
      BY <1>1, <1>3
    <3> QED
      BY <3>1, ReplaceIs
  <2> QED
    BY <2>1
<1>5. v = Halve(t, n, i, b, N)
  BY DEF Halve, t1, A, d
<1> HIDE DEF v
<1> QED
  BY <1>3, <1>4, <1>5 DEF Halved, A, d

LEMMA HalvedPart ==
  ASSUME NEW t, Shape(t), NEW p, IsPath(t, p), NEW k, NEW n, NEW i, Stands(t, p, k, n, i),
         NEW b, Misses(p, b), NEW v, NEW N, Halved(t, v, n, i, b, N)
  PROVE  Part(t, v, p) /\ Others(t, v, p, k)
<1>0. /\ k \in 1 .. Len(p) /\ n = p[k].n /\ i = p[k].i /\ i \in DOMAIN t[n].entries
      /\ b \in Block /\ \A j \in 1 .. Len(p) : p[j].n # b
  BY DEF Stands, Misses
<1>1. /\ \A j \in 1 .. Len(p) : p[j].n \in Node
      /\ \A m, j \in 1 .. Len(p) : p[m].n = p[j].n => m = j
  BY PathIs
<1>2. n \in Node /\ t[n].entries \in Seq(Ent)
  BY <1>0, <1>1, ShapeIs
<1>3. \A j \in 1 .. Len(p) : j # k => v[p[j].n] = t[p[j].n]
  BY <1>0, <1>1 DEF Halved
<1>4. /\ DOMAIN v[n].entries = 1 .. i /\ i \in 1 .. i
      /\ \A m \in 1 .. i : m \in DOMAIN t[n].entries /\ v[n].entries[m] = t[n].entries[m]
      /\ v[n].entries \in Seq(Ent)
  <2> DEFINE E == t[n].entries
  <2>1. E \in Seq(Ent) /\ i \in DOMAIN E /\ v[n].entries = SubSeq(E, 1, i)
    BY <1>0, <1>2 DEF Halved
  <2> HIDE DEF E
  <2>2. /\ SubSeq(E, 1, i) \in Seq(Ent) /\ DOMAIN SubSeq(E, 1, i) = 1 .. i /\ i \in 1 .. i
        /\ \A m \in 1 .. i : m \in DOMAIN E /\ SubSeq(E, 1, i)[m] = E[m]
    BY <2>1, FrontIs
  <2> QED
    BY <2>1, <2>2 DEF E
<1>6. v[Root].depth = t[Root].depth /\ \A j \in 1 .. Len(p) : v[p[j].n].depth = t[p[j].n].depth
  BY <1>0, <1>1, RootNode DEF Halved
<1>7. \A j \in 1 .. Len(p) : p[j].i \in DOMAIN t[p[j].n].entries => t[p[j].n].entries # <<>>
  BY <1>1, ShapeIs
<1>8. ASSUME NEW j \in 1 .. Len(p)
      PROVE  /\ \A m \in DOMAIN v[p[j].n].entries :
                  m \in DOMAIN t[p[j].n].entries /\ v[p[j].n].entries[m] = t[p[j].n].entries[m]
             /\ p[j].i \in DOMAIN t[p[j].n].entries =>
                  p[j].i \in DOMAIN v[p[j].n].entries /\ v[p[j].n].entries # <<>>
             /\ t[p[j].n].entries = <<>> => v[p[j].n].entries = <<>>
  <2>1. CASE j = k
    BY <1>0, <1>2, <1>4, EntSeq, <2>1
  <2>2. CASE j # k
    BY <1>3, <1>7, <2>2
  <2> QED
    BY <2>1, <2>2
<1> QED
  BY <1>3, <1>6, <1>8 DEF Part, Others

LEMMA SplittingIs ==
  ASSUME NEW t, NEW hi, NEW v, NEW h, NEW c, NEW c2, NEW n, NEW i, NEW b, NEW N, NEW o,
         Splitting(t, hi, v, h, c, c2, n, i, b, N, o)
  PROVE  SplitKnown(t, hi, v, h, c, c2, n, i, b, o)
<1> DEFINE p == c.path
           k == Level(c)
           F == c.fresh
<1>1. /\ Shape(t) /\ IsPath(t, p) /\ Made2(t, F, c.key) /\ c.key \in Nat /\ LeftOK(t, hi, c)
      /\ k \in 2 .. Len(p) /\ n = p[k].n /\ i = p[k].i /\ b \in Block
      /\ \A j \in 1 .. Len(p) : p[j].n # b
      /\ \A j \in 1 .. Len(F) : F[j] # b /\ F[j] # n
      /\ Halved(t, v, n, i, b, N) /\ Ends(hi, h, n, b, c.key)
      /\ c2.path = p /\ c2.fresh = Append(F, b)
  BY DEF Splitting
<1>2. F \in Seq(Block) /\ Len(F) \in Nat /\ DOMAIN F = 1 .. Len(F) /\ \A j \in 1 .. Len(F) : F[j] \in Node
  BY <1>1 DEF Made2
<1>3. /\ Len(p) \in Nat \ {0} /\ \A j \in 1 .. Len(p) : p[j].n \in Node /\ t[p[j].n].depth = Len(p) - j
      /\ \A m, j \in 1 .. Len(p) : p[m].n = p[j].n => m = j
  <2>1. Shape(t) /\ IsPath(t, p)
    BY <1>1
  <2> HIDE DEF p
  <2> QED
    BY <2>1, PathIs
<1>4. k = Len(p) - Len(F) /\ Level(c2) = Len(p) - Len(c2.fresh)
  BY <1>1 DEF Level
<1>5. /\ Len(c2.fresh) = Len(F) + 1 /\ c2.fresh \in Seq(Block) /\ c2.fresh[Len(F) + 1] = b
      /\ \A j \in 1 .. Len(F) : c2.fresh[j] = F[j]
  <2> HIDE DEF F
  <2> QED
    BY <1>1, <1>2, AppendProperties
<1>6. /\ \A j \in 1 .. Len(p) : p[j].i \in DOMAIN t[p[j].n].entries
      /\ n \in Node /\ i \in DOMAIN t[n].entries /\ Cut(t, hi, n, i, c.key)
  <2>1. k \in 1 .. Len(p)
    BY <1>1, <1>3
  <2> QED
    BY <1>1, <2>1, SplitCut
<1>7. i \in Nat
  BY <1>1, <1>6, ShapeIs
<1> HIDE DEF k, p, F
<1>8. k \in Nat /\ k - 1 \in 1 .. Len(p) /\ k \in 1 .. Len(p) /\ Len(p) \in 1 .. Len(p)
      /\ Level(c2) = k - 1
  BY <1>1, <1>2, <1>3, <1>4, <1>5
<1>9. F = <<>> <=> Len(F) = 0
  BY <1>2, EmptySeq
<1>10. t[n].depth = Len(F)
  BY <1>1, <1>2, <1>3, <1>4, <1>8
<1>11. Part(t, v, p) /\ \A j \in 1 .. Len(p) : j # k => v[p[j].n] = t[p[j].n]
  <2>1. Shape(t) /\ IsPath(t, p) /\ Stands(t, p, k, n, i) /\ Misses(p, b) /\ Halved(t, v, n, i, b, N)
    BY <1>1, <1>6, <1>8 DEF Stands, Misses
  <2>2. Part(t, v, p) /\ Others(t, v, p, k)
    BY <2>1, HalvedPart
  <2> QED
    BY <2>2 DEF Others
<1>12. \A j \in 1 .. Len(p) : j # k => h[p[j].n] = hi[p[j].n]
  BY <1>1, <1>3, <1>8 DEF Ends
<1>13. \A j \in 1 .. Len(F) : v[F[j]] = t[F[j]]
  BY <1>1, <1>2 DEF Halved
<1>14. c2.fresh # <<>>
  BY <1>2, <1>5, EmptySeq
<1> QED
  BY <1>2, <1>3, <1>4, <1>5, <1>6, <1>7, <1>8, <1>9, <1>10, <1>11, <1>12, <1>13, <1>14 DEF k, p, F, SplitKnown

LEMMA SplitLeft ==
  ASSUME NEW t, NEW hi, NEW v, NEW h, NEW c, NEW c2, NEW n, NEW i, NEW b, NEW N, NEW o,
         Splitting(t, hi, v, h, c, c2, n, i, b, N, o)
  PROVE  LeftOK(v, h, c2)
<1> DEFINE p == c.path
           k == Level(c)
           key == c.key
<1>1. /\ k \in Nat /\ k \in 1 .. Len(p) /\ Level(c2) = k - 1
      /\ Len(p) \in Nat /\ Len(p) \in 1 .. Len(p)
      /\ n \in Node /\ i \in DOMAIN t[n].entries /\ Cut(t, hi, n, i, key)
      /\ \A j \in 1 .. Len(p) : p[j].i \in DOMAIN t[p[j].n].entries
      /\ \A j \in 1 .. Len(p) : j # k => v[p[j].n] = t[p[j].n]
      /\ \A j \in 1 .. Len(p) : j # k => h[p[j].n] = hi[p[j].n]
      /\ Part(t, v, p)
  <2>1. SplitKnown(t, hi, v, h, c, c2, n, i, b, o)
    BY SplittingIs
  <2> QED
    BY <2>1 DEF SplitKnown
<1>2. /\ Shape(t) /\ IsPath(t, p) /\ key \in Nat /\ LeftOK(t, hi, c) /\ n = p[k].n /\ i = p[k].i
      /\ h[n] = key /\ v[n].entries = SubSeq(t[n].entries, 1, i)
      /\ c2.path = p /\ c2.key = key
  BY DEF Splitting, Ends, Halved
<1>3. /\ \A j \in 1 .. Len(p) : p[j].i > 0 /\ t[p[j].n].entries[p[j].i].lblk < key
      /\ End(t[p[Len(p)].n].entries[p[Len(p)].i]) <= key
      /\ \A j \in 1 .. k :
           /\ key < hi[p[j].n]
           /\ \A m \in DOMAIN t[p[j].n].entries : m > p[j].i => key <= t[p[j].n].entries[m].lblk
      /\ \A j \in (k + 1) .. Len(p) :
           p[j].i = Len(t[p[j].n].entries) /\ hi[p[j].n] <= key
  BY <1>2, Zenon DEF LeftOK, On, At
<1>4. Len(v[n].entries) = i
  <2> DEFINE E == t[n].entries
  <2>1. E \in Seq(Ent) /\ i \in DOMAIN E /\ v[n].entries = SubSeq(E, 1, i)
    BY <1>1, <1>2, ShapeIs
  <2> HIDE DEF E
  <2> QED
    BY <2>1, FrontIs
<1>5. \A j \in 1 .. Len(p) : v[p[j].n].entries[p[j].i] = t[p[j].n].entries[p[j].i]
  BY <1>1 DEF Part
<1> HIDE DEF p, k, key
<1>6. \A j \in 1 .. Len(p) : p[j].i > 0 /\ On(v, c2, j).lblk < key
  BY <1>2, <1>3, <1>5 DEF On, At
<1>7. End(On(v, c2, Len(p))) <= key
  BY <1>1, <1>2, <1>3, <1>5 DEF On, At
<1>8. ASSUME NEW j \in 1 .. (k - 1)
      PROVE  /\ key < h[p[j].n]
             /\ \A m \in DOMAIN At(v, c2, j) : m > p[j].i => key <= At(v, c2, j)[m].lblk
  <2>1. j \in 1 .. Len(p) /\ j # k /\ j \in 1 .. k
    BY <1>1
  <2>2. v[p[j].n] = t[p[j].n] /\ h[p[j].n] = hi[p[j].n]
    BY <1>1, <2>1
  <2> QED
    BY <1>2, <1>3, <2>1, <2>2 DEF At
<1>9. ASSUME NEW j \in ((k - 1) + 1) .. Len(p)
      PROVE  p[j].i = Len(At(v, c2, j)) /\ h[p[j].n] <= key
  <2>1. CASE j = k
    <3>1. At(v, c2, j) = v[n].entries /\ p[j].n = n /\ p[j].i = i
      BY <1>2, <2>1 DEF At
    <3>2. h[p[j].n] = key /\ key <= key
      BY <1>2, <3>1
    <3> QED
      BY <1>4, <3>1, <3>2
  <2>2. CASE j # k
    <3>1. j \in 1 .. Len(p) /\ j \in (k + 1) .. Len(p)
      BY <1>1, <2>2
    <3>2. v[p[j].n] = t[p[j].n] /\ h[p[j].n] = hi[p[j].n]
      BY <1>1, <2>2, <3>1
    <3> QED
      BY <1>2, <1>3, <3>1, <3>2 DEF At
  <2> QED
    BY <2>1, <2>2
<1> QED
  BY <1>1, <1>2, <1>6, <1>7, <1>8, <1>9 DEF LeftOK

LEMMA SplitRight ==
  ASSUME NEW t, NEW hi, NEW v, NEW h, NEW c, NEW c2, NEW n, NEW i, NEW b, NEW N, NEW o,
         Splitting(t, hi, v, h, c, c2, n, i, b, N, o)
  PROVE  RightOK(v, h, c2)
<1> DEFINE p == c.path
           k == Level(c)
           key == c.key
           F == c.fresh
           G == c2.fresh
           M == Len(F)
<1>1. /\ k \in Nat /\ k - 1 \in 1 .. Len(p) /\ Level(c2) = k - 1 /\ k \in 1 .. Len(p)
      /\ M \in Nat /\ Len(G) = M + 1 /\ G[M + 1] = b
      /\ \A j \in 1 .. M : G[j] = F[j] /\ v[F[j]] = t[F[j]]
      /\ F = <<>> <=> M = 0
      /\ t[n].depth = M /\ n \in Node /\ i \in DOMAIN t[n].entries /\ i \in Nat /\ Cut(t, hi, n, i, key)
      /\ \A j \in 1 .. Len(p) : j # k => v[p[j].n] = t[p[j].n]
      /\ \A j \in 1 .. Len(p) : j # k => h[p[j].n] = hi[p[j].n]
      /\ Len(p) \in Nat
  <2>1. SplitKnown(t, hi, v, h, c, c2, n, i, b, o)
    BY SplittingIs
  <2> QED
    BY <2>1 DEF SplitKnown
<1>2. /\ Shape(t) /\ Order(t, hi) /\ IsPath(t, p) /\ Made2(t, F, key) /\ key \in Nat /\ n = p[k].n
      /\ i = p[k].i /\ RightOK(t, hi, c)
      /\ h[b] = hi[n] /\ v[b].entries = N /\ v[b].depth = t[n].depth
      /\ c2.path = p /\ c2.key = key
      /\ o \in {0, 1} /\ (o = 0 <=> F = <<>>) /\ TailOf(t[n].entries, i, N, o)
      /\ o = 1 => N[1] = Index(key, F[M])
  BY DEF Splitting, Ends, Halved
<1>3. /\ N \in Seq(Ent) /\ Len(t[n].entries) \in Nat /\ DOMAIN t[n].entries = 1 .. Len(t[n].entries)
      /\ DOMAIN N = 1 .. (Len(t[n].entries) - i + o)
      /\ \A m \in DOMAIN N : m > o => i + (m - o) \in DOMAIN t[n].entries /\ N[m] = t[n].entries[i + (m - o)]
  <2>1. Len(t[n].entries) \in Nat /\ DOMAIN t[n].entries = 1 .. Len(t[n].entries)
    BY <1>1, <1>2, ShapeIs
  <2> QED
    BY <1>2, <2>1, Zenon DEF TailOf
<1>4. key < hi[n] /\ \A m \in DOMAIN t[n].entries : m > i => key <= t[n].entries[m].lblk
  BY <1>1 DEF Cut
<1>5. \A j \in 1 .. M :
         /\ t[F[j]].depth = j - 1
         /\ \A m \in DOMAIN t[F[j]].entries : key <= t[F[j]].entries[m].lblk
         /\ j > 1 => j - 1 \in 1 .. M /\ t[F[j]].entries # <<>> /\ t[F[j]].entries[1] = Index(key, F[j - 1])
  BY <1>2 DEF Made2
<1>6. /\ hi[n] <= hi[p[k - 1].n]
      /\ \A m \in DOMAIN t[p[k - 1].n].entries :
           m > p[k - 1].i => hi[n] <= t[p[k - 1].n].entries[m].lblk
  <2> DEFINE a == k - 1
  <2>1. /\ \A j \in 1 .. (Len(p) - 1) : Index2(t, p[j].n, p[j].i, p[j + 1].n)
        /\ \A j \in 1 .. Len(p) : p[j].n \in Node
    <3> HIDE DEF p
    <3> QED
      BY <1>2, PathIs
  <2>2. a \in 1 .. (Len(p) - 1) /\ a + 1 = k /\ a \in 1 .. Len(p)
    <3> HIDE DEF k, p
    <3> QED
      BY <1>1
  <2> HIDE DEF a, k, p
  <2>3. Index2(t, p[a].n, p[a].i, n) /\ p[a].n \in Node
    BY <1>2, <2>1, <2>2
  <2>4. hi[n] <= hi[p[a].n] /\ \A m \in DOMAIN t[p[a].n].entries :
           p[a].i < m => hi[n] <= t[p[a].n].entries[m].lblk
    BY <1>2, <2>3 DEF Order, Index2
  <2>5. \A m \in DOMAIN t[p[a].n].entries : m > p[a].i => p[a].i < m
    BY <1>2, <2>3, EntryIs, ShapeIs DEF Index2
  <2> QED
    BY <2>4, <2>5 DEF a
<1> HIDE DEF p, k, key, F, G, M
<1>7. \A m \in DOMAIN N : key <= N[m].lblk
  <2> SUFFICES ASSUME NEW m \in DOMAIN N PROVE key <= N[m].lblk
    OBVIOUS
  <2>1. CASE m > o
    <3>1. i + (m - o) \in DOMAIN t[n].entries /\ N[m] = t[n].entries[i + (m - o)]
      BY <1>3, <2>1
    <3>2. i + (m - o) > i
      BY <1>1, <1>2, <1>3, <2>1
    <3> QED
      BY <1>4, <3>1, <3>2
  <2>2. CASE ~(m > o)
    <3>1. m = 1 /\ o = 1
      BY <1>2, <1>3, <2>2
    <3>2. N[1].lblk = key
      BY <1>2, <3>1 DEF Index, Extent
    <3> QED
      BY <1>2, <3>1, <3>2
  <2> QED
    BY <2>1, <2>2
<1>8. M > 0 => N # <<>> /\ N[1] = Index(key, F[M])
  <2>1. ASSUME M > 0 PROVE o = 1
    BY <1>1, <1>2, <2>1
  <2>2. o = 1 => 1 \in DOMAIN N
    BY <1>1, <1>3
  <2> QED
    BY <1>2, <1>3, <2>1, <2>2, EntSeq
<1>9. ASSUME NEW j \in 1 .. (M + 1)
      PROVE  /\ v[G[j]].depth = j - 1
             /\ \A m \in DOMAIN v[G[j]].entries : key <= v[G[j]].entries[m].lblk
             /\ j > 1 => v[G[j]].entries # <<>> /\ v[G[j]].entries[1] = Index(key, G[j - 1])
  <2>1. CASE j = M + 1
    <3>1. G[j] = b /\ j - 1 = M /\ (j > 1 => M > 0 /\ M \in 1 .. M)
      BY <1>1, <2>1
    <3>2. M \in 1 .. M => G[M] = F[M]
      BY <1>1
    <3> QED
      BY <1>1, <1>2, <1>7, <1>8, <3>1, <3>2
  <2>2. CASE j # M + 1
    <3>1. j \in 1 .. M
      BY <1>1, <2>2
    <3>2. G[j] = F[j] /\ v[F[j]] = t[F[j]] /\ (j > 1 => G[j - 1] = F[j - 1])
      BY <1>1, <1>5, <3>1
    <3> QED
      BY <1>5, <3>1, <3>2
  <2> QED
    BY <2>1, <2>2
<1>10. /\ key < h[b] /\ h[b] <= h[p[k - 1].n]
       /\ \A m \in DOMAIN At(v, c2, k - 1) : m > p[k - 1].i => h[b] <= At(v, c2, k - 1)[m].lblk
  <2>1. k - 1 # k
    BY <1>1
  <2>2. v[p[k - 1].n] = t[p[k - 1].n] /\ h[p[k - 1].n] = hi[p[k - 1].n]
    BY <1>1, <2>1
  <2> QED
    BY <1>2, <1>4, <1>6, <2>2 DEF At
<1>11. Len(G) = M + 1 /\ G[Len(G)] = b /\ c2.fresh = G /\ Level(c2) = k - 1 /\ c2.path = p /\ c2.key = key
  BY <1>1, <1>2 DEF G
<1> QED
  BY <1>9, <1>10, <1>11 DEF RightOK

LEMMA SplitSide ==
  ASSUME NEW t, NEW hi, NEW v, NEW h, NEW c, NEW c2, NEW n, NEW i, NEW b, NEW N, NEW o,
         Splitting(t, hi, v, h, c, c2, n, i, b, N, o),
         Between(t, c.path, c.new.lblk, End(c.new))
  PROVE  SideOK(v, c2)
<1> DEFINE p == c.path
           k == Level(c)
           key == c.key
           F == c.fresh
           G == c2.fresh
           M == Len(F)
           E == t[n].entries
           new == c.new
<1>1. /\ k \in Nat /\ Level(c2) = k - 1 /\ k \in 1 .. Len(p) /\ k = Len(p) - M
      /\ M \in Nat /\ Len(G) = M + 1 /\ G[M + 1] = b /\ G # <<>>
      /\ \A j \in 1 .. M : G[j] = F[j] /\ v[F[j]] = t[F[j]]
      /\ F = <<>> <=> M = 0
      /\ n \in Node /\ i \in DOMAIN E /\ i \in Nat
      /\ Len(p) \in Nat
  <2>1. SplitKnown(t, hi, v, h, c, c2, n, i, b, o)
    BY SplittingIs
  <2> QED
    BY <2>1 DEF SplitKnown
<1>2. /\ Shape(t) /\ IsPath(t, p) /\ n = p[k].n
      /\ i = p[k].i /\ SideOK(t, c)
      /\ v[b].entries = N
      /\ c2.path = p /\ c2.key = key /\ c2.new = new
      /\ o \in {0, 1} /\ (o = 0 <=> F = <<>>) /\ TailOf(E, i, N, o)
  BY DEF Splitting, Halved
<1>3. /\ N \in Seq(Ent) /\ Len(E) \in Nat /\ DOMAIN E = 1 .. Len(E)
      /\ DOMAIN N = 1 .. (Len(E) - i + o)
      /\ \A m \in DOMAIN N : m > o => i + (m - o) \in DOMAIN E /\ N[m] = E[i + (m - o)]
  BY <1>1, <1>2, ShapeIs, Zenon DEF TailOf
<1>4. \A m \in DOMAIN E : m > i => End(new) <= E[m].lblk
  <2>1. DOMAIN p = 1 .. Len(p)
    <3> HIDE DEF p
    <3> QED
      BY <1>2, PathIs
  <2> QED
    BY <1>1, <1>2, <2>1, Zenon DEF Between
<1>5. \A m \in DOMAIN N : m > 1 => End(new) <= N[m].lblk
  <2> SUFFICES ASSUME NEW m \in DOMAIN N, m > 1 PROVE End(new) <= N[m].lblk
    OBVIOUS
  <2> HIDE DEF p, k, key, F, G, M, E, new
  <2>1. m > o /\ m \in Nat
    BY <1>2, <1>3
  <2>3. i + (m - o) > i
    BY <1>1, <1>2, <2>1
  <2> QED
    BY <1>3, <2>1, <1>4, <2>3
<1>6. CASE new.lblk < key
  <2>1. /\ End(new) <= key
        /\ IF F = <<>> THEN p[Len(p)].i # Len(t[p[Len(p)].n].entries) ELSE t[F[1]].entries # <<>>
    BY <1>2, <1>6 DEF SideOK, At
  <2> HIDE DEF p, k, key, F, G, M, E
  <2>2. v[G[1]].entries # <<>>
    <3>1. CASE F = <<>>
      <4>1. M = 0 /\ k = Len(p) /\ G[1] = b /\ o = 0
        BY <1>1, <1>2, <3>1
      <4>2. i # Len(E) /\ i \in 1 .. Len(E)
        BY <1>1, <1>2, <1>3, <2>1, <3>1, <4>1 DEF E
      <4> DEFINE z == Len(E)
      <4>6. z \in Nat
        BY <1>3
      <4>7. o = 0 /\ i # z /\ i \in 1 .. z
        BY <4>1, <4>2
      <4>4. z \in Nat /\ i \in Nat /\ i < z /\ z - i + o = z - i
        <5> HIDE DEF z
        <5> QED
          BY <4>6, <4>7
      <4> HIDE DEF z
      <4> QED
        BY <4>4, <1>3, <1>2, <4>1 DEF z
    <3>2. CASE F # <<>>
      BY <1>1, <3>2, <2>1
    <3> QED
      BY <3>1, <3>2
  <2>3. c2.fresh = G /\ c2.new = new /\ c2.key = key /\ G # <<>>
    BY <1>1, <1>2 DEF G
  <2> HIDE DEF new
  <2> QED
    BY <1>6, <2>1, <2>2, <2>3 DEF SideOK
<1>7. CASE ~(new.lblk < key)
  <2>1. /\ new.lblk = key
        /\ IF F = <<>> THEN p[Len(p)].i = Len(t[p[Len(p)].n].entries) ELSE t[F[1]].entries = <<>>
        /\ \A j \in 2 .. Len(F) : \A m \in DOMAIN t[F[j]].entries :
              m > 1 => End(new) <= t[F[j]].entries[m].lblk
    BY <1>2, <1>7 DEF SideOK, At
  <2> HIDE DEF p, k, key, F, G, M, E
  <2>2. v[G[1]].entries = <<>>
    <3>1. CASE F = <<>>
      BY <1>1, <1>2, <3>1, <2>1, <1>3, EntSeq DEF E
    <3>2. CASE F # <<>>
      BY <1>1, <3>2, <2>1
    <3> QED
      BY <3>1, <3>2
  <2>3. ASSUME NEW j \in 2 .. (M + 1), NEW m \in DOMAIN v[G[j]].entries, m > 1
        PROVE  End(new) <= v[G[j]].entries[m].lblk
    <3>1. CASE j = M + 1
      BY <1>1, <1>2, <1>5, <2>3, <3>1
    <3>2. CASE j # M + 1
      BY <1>1, <3>2, <2>1, <2>3 DEF M
    <3> QED
      BY <3>1, <3>2
  <2>4. c2.fresh = G /\ Len(G) = M + 1 /\ c2.new = new /\ c2.key = key /\ G # <<>>
    BY <1>1, <1>2 DEF G
  <2> HIDE DEF new
  <2> QED
    BY <1>7, <2>1, <2>2, <2>3, <2>4 DEF SideOK
<1> QED
  BY <1>6, <1>7

LEMMA SplitNextOK ==
  ASSUME NEW t, NEW hi, NEW v, NEW h, NEW c, NEW c2, NEW n, NEW i, NEW b, NEW N, NEW o,
         Splitting(t, hi, v, h, c, c2, n, i, b, N, o), InsertOK(t, c), InsertCall(c2),
         c2.combine = c.combine, c2.top = c.top, c.top \in 2 .. Len(c.path), Level(c) >= c.top
  PROVE  SplitOK(v, h, c2)
<1>1. SplitKnown(t, hi, v, h, c, c2, n, i, b, o)
  BY SplittingIs
<1>2. /\ c.new \in Ent /\ c.new.len # 0 /\ c.combine \in BOOLEAN /\ IsPath(t, c.path)
      /\ Between(t, c.path, c.new.lblk, End(c.new))
      /\ Clear(t, c.path, c.new.lblk, End(c.new))
  BY DEF InsertOK
<1>3. Shape(t) /\ c.key \in Nat /\ c2.path = c.path /\ c2.key = c.key /\ c2.new = c.new
  BY DEF Splitting
<1>5. InsertOK(v, c2)
  BY <1>1, <1>2, <1>3, PartPath DEF SplitKnown, InsertOK
<1>6. LeftOK(v, h, c2)
  BY SplitLeft
<1>7. RightOK(v, h, c2)
  BY SplitRight
<1>8. SideOK(v, c2)
  BY <1>2, SplitSide
<1>9. c2.fresh \in Seq(Block) /\ Level(c2) >= c2.top - 1
  <2>1. c2.fresh \in Seq(Block) /\ Level(c2) = Level(c) - 1 /\ Level(c) \in Nat /\ Len(c.path) \in Nat
    BY <1>1 DEF SplitKnown
  <2> DEFINE a == Level(c)
             z == Len(c.path)
             top == c.top
  <2>2. a \in Nat /\ z \in Nat /\ top \in 2 .. z /\ a >= top
    BY <2>1
  <2> HIDE DEF a, z, top
  <2> QED
    BY <2>2, <2>1 DEF a, top
<1> QED
  BY <1>3, <1>5, <1>6, <1>7, <1>8, <1>9 DEF SplitOK

LEMMA NewEntriesIs ==
  ASSUME NEW E \in Seq(Ent), NEW i \in DOMAIN E, NEW F, NEW key \in Nat,
         NEW x, F # <<>> => x \in Block /\ x = Last(F)
  PROVE  \E o \in {0, 1} : /\ o = 0 <=> F = <<>>
                           /\ TailOf(E, i, NewEntries(E, i, F, key), o)
                           /\ o = 1 => NewEntries(E, i, F, key)[1] = Index(key, x)
<1> DEFINE Z == SubSeq(E, i + 1, Len(E))
<1>1. Z \in Seq(Ent) /\ TailOf(E, i, Z, 0)
  BY BackIs
<1>2. CASE F = <<>>
  <2>1. NewEntries(E, i, F, key) = <<>> \o Z
    BY <1>2 DEF NewEntries
  <2> HIDE DEF Z
  <2> QED
    BY <1>1, ConcatEmptySeq, <1>2, <2>1
<1>3. CASE F # <<>>
  <2> DEFINE e == Index(key, x)
  <2>1. e \in Ent
    BY <1>3, RootNode DEF Index, Extent, Ent
  <2>2. NewEntries(E, i, F, key) = <<e>> \o Z
    BY <1>3 DEF NewEntries
  <2> HIDE DEF e
  <2>4. TailOf(E, i, NewEntries(E, i, F, key), 1) /\ NewEntries(E, i, F, key)[1] = e
    BY <2>1, KeyedBackIs, <2>2
  <2> QED
    BY <1>3, <2>4 DEF e
<1> QED
  BY <1>2, <1>3

LEMMA SplitNodeKeeps ==
  ASSUME NEW hi, Whole(tree, hi, call, free, foreign), NEW b, SplitNode(b)
  PROVE  \E h : Whole(tree', h, call', free', foreign')
<1> DEFINE p == call.path
           F == call.fresh
           key == call.key
           new == call.new
           k == Level(call)
           n == p[k].n
           i == p[k].i
           E == tree[n].entries
           N == NewEntries(E, i, F, key)
           x == F[Len(F)]
           v == Halve(tree, n, i, b, N)
           W == {c \in Block : Holds(new, c)}
<1>0. call.at = "split"
  BY Zenon DEF SplitNode
<1>1. /\ Tree(tree, hi) /\ Shape(tree) /\ Order(tree, hi) /\ Low(tree, {}) /\ Apart(tree)
      /\ tree \in Trees /\ hi \in [Node -> Nat] /\ free \subseteq Block
      /\ InsertOK(tree, call) /\ InsertCall(call) /\ IsPath(tree, p)
      /\ key \in Nat /\ F \in Seq(Block) /\ call.top \in 2 .. Len(p)
      /\ LeftOK(tree, hi, call) /\ RightOK(tree, hi, call) /\ SideOK(tree, call)
      /\ Parted(Owned(tree), free, foreign, W, TopOf(call))
      /\ Nodes(tree, TopOf(call)) /\ Filled(tree, BareOf(call)) /\ RootOK(tree)
  BY <1>0, SplitFacts, Zenon
<1>2. /\ k >= call.top
      /\ \E goal : b \in Allocated(goal)
      /\ free' = free \ {b} /\ foreign' = foreign
      /\ tree' = [tree EXCEPT ![n].entries = SubSeq(E, 1, i), ![b] = [depth |-> tree[n].depth, entries |-> N]]
      /\ call' = [call EXCEPT !.fresh = Append(F, b)]
  BY Zenon DEF SplitNode, Level, NewEntries
<1>3. b \in free /\ b \in Block /\ b \in Node
  BY <1>1, <1>2, AllocatedFree, RootNode
<1>4. Made2(tree, F, key)
  BY <1>1, FreshIs
<1>5. /\ F \in Seq(Block) /\ Len(F) \in Nat
      /\ \A j \in 1 .. Len(F) : F[j] \in Block /\ F[j] \in Node /\ tree[F[j]].depth = j - 1
                                /\ (j > 1 => F[j - 1] \in Owned(tree))
  BY <1>4 DEF Made2
<1>6. k = Len(p) - Len(F)
  BY DEF Level
<1>7. /\ Len(p) \in Nat \ {0} /\ p[1].n = Root
      /\ \A j \in 1 .. Len(p) : p[j].n \in Node /\ tree[p[j].n].depth = Len(p) - j
      /\ \A j \in 1 .. (Len(p) - 1) : Index2(tree, p[j].n, p[j].i, p[j + 1].n) /\ p[j + 1].n \in Block
      /\ \A m, j \in 1 .. Len(p) : p[m].n = p[j].n => m = j
  <2> HIDE DEF p
  <2> QED
    BY <1>1, PathIs
<1>8. /\ k \in Nat /\ k \in 2 .. Len(p) /\ k \in 1 .. Len(p) /\ n \in Node /\ n \in Block /\ n # Root
      /\ n \in Owned(tree) /\ Linked(tree, n) /\ tree[n].depth = Len(F)
  <2> DEFINE a == k - 1
  <2>1. k \in Nat /\ k \in 2 .. Len(p) /\ k \in 1 .. Len(p) /\ a \in 1 .. (Len(p) - 1) /\ a + 1 = k
        /\ a \in 1 .. Len(p)
    <3> DEFINE top == call.top
    <3>1. top \in 2 .. Len(p) /\ k >= top /\ k = Len(p) - Len(F)
      BY <1>1, <1>2, <1>6
    <3> HIDE DEF p, k, F, top
    <3> QED
      BY <1>5, <1>7, <3>1
  <2> HIDE DEF a, k, p
  <2>4. Len(p) - k = Len(F)
    BY <1>5, <1>6, <1>7, <2>1
  <2> QED
    BY <1>7, <2>1, <1>1, IndexIs, <2>4, RootNode
<1> HIDE DEF k
<1>9. \A y \in Block : Linked(tree, y) => y \in Owned(tree)
  BY DEF Linked, Owned
<1>10. b \notin Owned(tree) /\ b \notin TopOf(call) /\ b \notin W /\ b \notin foreign
       /\ Owned(tree) \cap TopOf(call) = {}
  BY <1>1, <1>3 DEF Parted
<1>11. /\ F = <<>> => TopOf(call) = {} /\ BareOf(call) = {}
       /\ F # <<>> => /\ TopOf(call) = {x} /\ x = Last(F) /\ Len(F) \in 1 .. Len(F) /\ x \in Block
                      /\ x \notin Owned(tree) /\ x # b /\ 1 \in 1 .. Len(F) /\ BareOf(call) = {F[1]}
  <2>1. F = <<>> => TopOf(call) = {} /\ BareOf(call) = {}
    BY <1>0 DEF TopOf, BareOf
  <2>2. F # <<>> => TopOf(call) = {x} /\ BareOf(call) = {F[1]}
    BY <1>0 DEF TopOf, BareOf
  <2>3. F # <<>> => Len(F) \in 1 .. Len(F) /\ 1 \in 1 .. Len(F)
    <3> HIDE DEF F
    <3> QED
      BY <1>5, EmptySeq
  <2> QED
    BY <1>5, <1>10, <2>1, <2>2, <2>3 DEF Last
<1>12. ASSUME NEW j \in 1 .. Len(F) PROVE F[j] # b /\ F[j] # n
  <2>1. CASE j = Len(F)
    <3>1. F # <<>>
      <4> HIDE DEF F
      <4> QED
        BY <1>5, EmptySeq
    <3>2. F[j] # b
      BY <1>11, <2>1, <3>1
    <3>3. tree[F[j]].depth = Len(F) - 1
      BY <1>5, <2>1
    <3> HIDE DEF F, n
    <3> QED
      BY <1>5, <1>8, <3>2, <3>3
  <2>2. CASE j # Len(F)
    <3> DEFINE m == j + 1
    <3>1. m \in 1 .. Len(F) /\ m > 1 /\ m - 1 = j
      BY <1>5, <2>2
    <3> HIDE DEF F, n, m
    <3> QED
      BY <1>5, <3>1, <1>8, <1>10
  <2> QED
    BY <2>1, <2>2
<1>13. tree[b] = NoNode
  BY <1>1, <1>3, <1>9, <1>10 DEF Nodes
<1>14. /\ \A j \in 1 .. Len(p) : p[j].i \in DOMAIN tree[p[j].n].entries
       /\ i \in DOMAIN E /\ Cut(tree, hi, n, i, key)
  <2>1. n = p[Level(call)].n /\ i = p[Level(call)].i /\ Level(call) \in 1 .. Len(p)
    BY <1>8 DEF k
  <2>2. /\ \A j \in 1 .. Len(p) : p[j].i \in DOMAIN tree[p[j].n].entries
        /\ n \in Node /\ i \in DOMAIN tree[n].entries /\ Cut(tree, hi, n, i, key)
    <3> HIDE DEF n, i
    <3> QED
      BY <1>1, <2>1, SplitCut
  <2> QED
    BY <2>2
<1>15. E \in Seq(Ent) /\ i \in Nat
  BY <1>1, <1>8, <1>14, ShapeIs
<1> HIDE DEF n, i, F, x, key
<1>23. F # <<>> => x \in Block /\ x = Last(F)
  BY <1>11
<1> HIDE DEF E
<1>24. PICK o \in {0, 1} : /\ o = 0 <=> F = <<>>
                           /\ TailOf(E, i, NewEntries(E, i, F, key), o)
                           /\ o = 1 => NewEntries(E, i, F, key)[1] = Index(key, x)
  BY <1>1, <1>14, <1>15, <1>23, NewEntriesIs
<1> USE DEF E
<1>16. /\ o \in {0, 1} /\ (o = 0 <=> F = <<>>)
       /\ TailOf(E, i, N, o)
       /\ o = 1 => N[1] = Index(key, x)
  BY <1>24
<1> HIDE DEF N
<1>17. o = 1 => Hangs(tree, hi, n, i, key, x)
  BY <1>11, <1>16, <1>4, <1>8, <1>1, SplitHangs DEF k, n, i, F, x, key
<1>18. N \in Seq(Ent) /\ b # n /\ (o = 0 => tree[n].depth = 0)
  BY <1>8, <1>16, <1>10 DEF TailOf
<1>19. (\E h : Tree(v, h) /\ Ends(hi, h, n, b, key)) /\ Gains(tree, v, o, x)
  <2>1. Begins(tree, hi, n, i, key, N, o, x, b)
    BY <1>11, <1>16, <1>17, <1>18 DEF Begins
  <2>2. TailOf(tree[n].entries, i, N, o) /\ i \in DOMAIN tree[n].entries
    BY <1>14, <1>16
  <2>3. /\ \E h : Tree(Halve(tree, n, i, b, N), h) /\ Ends(hi, h, n, b, key)
        /\ Gains(tree, Halve(tree, n, i, b, N), o, x)
    <3>1. /\ Tree(tree, hi) /\ tree \in Trees /\ n \in Node /\ Cut(tree, hi, n, i, key)
          /\ b \in Block /\ b \notin Owned(tree) /\ b # n /\ tree[b] = NoNode /\ o \in {0, 1}
      BY <1>1, <1>3, <1>8, <1>10, <1>13, <1>14, <1>18
    <3> HIDE DEF E
    <3> QED
      BY <2>1, <2>2, <3>1, HalvedTree
  <2> QED
    BY <2>3
<1>20. PICK h : Tree(v, h) /\ Ends(hi, h, n, b, key)
  BY <1>19
<1>21. tree' = v
  <2> DEFINE A == SubSeq(E, 1, i)
  <2>1. A \in Seq(Ent)
    <3> HIDE DEF E
    <3> QED
      BY <1>14, <1>15, FrontIs
  <2>2. A = SubSeq(tree[n].entries, 1, i)
    OBVIOUS
  <2>3. tree' = [tree EXCEPT ![n].entries = A, ![b] = [depth |-> tree[n].depth, entries |-> N]]
    BY <1>2 DEF n, i, k, F, key, N
  <2>4. tree[n] \in [depth : Nat, entries : Seq(Ent)]
    BY <1>1, <1>8 DEF Trees
  <2> HIDE DEF A, E
  <2>5. [tree[n] EXCEPT !.entries = A] = [depth |-> tree[n].depth, entries |-> A]
    BY <2>1, <2>4
  <2>6. [tree EXCEPT ![n].entries = A] = With(tree, n, A)
    BY <2>5 DEF With, Replace
  <2> QED
    BY <2>2, <2>3, <2>6 DEF Halve, Replace
<1>22. Halved(tree, v, n, i, b, N)
  BY <1>1, <1>3, <1>8, <1>14, <1>18, HalvedIs
<1> HIDE DEF v
<1>25. ASSUME NEW j \in 1 .. Len(p) PROVE p[j].n # b
  <2>1. CASE j = 1
    BY <1>3, <1>7, <2>1, RootNode
  <2>2. CASE j # 1
    <3> DEFINE a == j - 1
    <3>1. a \in 1 .. (Len(p) - 1) /\ a + 1 = j /\ a \in 1 .. Len(p)
      BY <1>7, <2>2
    <3> HIDE DEF a, p
    <3>3. p[j].n \in Owned(tree)
      BY <1>7, <3>1, <1>1, IndexIs
    <3> QED
      BY <1>10, <3>3
  <2> QED
    BY <2>1, <2>2
<1>26. /\ InsertCall(call') /\ call'.at = "split" /\ call'.path = p /\ call'.new = new
       /\ call'.combine = call.combine /\ call'.fresh = Append(F, b) /\ call'.top = call.top
       /\ call'.key = key
  BY <1>0, <1>1, <1>2 DEF InsertCall, key, F
<1>27. Splitting(tree, hi, v, h, call, call', n, i, b, N, o)
  BY <1>8, <1>16, <1>1, <1>3, <1>4, <1>12, <1>20, <1>22, <1>25, <1>26 DEF k, n, i, x, Splitting,
     key, F
<1>28. SplitOK(v, h, call')
  <2> QED
    BY <1>2, <1>1, <1>26, <1>27, SplitNextOK DEF k
<1>29. SplitKnown(tree, hi, v, h, call, call', n, i, b, o)
  BY <1>27, SplittingIs
<1>30. /\ Len(Append(F, b)) = Len(F) + 1 /\ Append(F, b) # <<>> /\ Append(F, b)[Len(F) + 1] = b
       /\ \A j \in 1 .. Len(F) : Append(F, b)[j] = F[j] /\ v[F[j]] = tree[F[j]]
  BY <1>26, <1>29 DEF SplitKnown, F
<1>31. NewOf(call') = W /\ TopOf(call') = {b} /\ BareOf(call') = {Append(F, b)[1]}
  BY <1>26, <1>30 DEF NewOf, TopOf, BareOf
<1>32. \A y \in Block : o = 1 /\ y = x <=> y \in TopOf(call)
  BY <1>11, <1>16
<1>33. Parted(Owned(v), free \ {b}, foreign, W, {b})
  <2>1. Owned(v) \subseteq Block
    BY DEF Owned
  <2>2. TopOf(call) \subseteq Block
    BY <1>11
  <2>3. \A y \in Block : y \in Owned(v) <=> y \in Owned(tree) \/ y \in TopOf(call)
    BY <1>19, <1>32 DEF Gains
  <2> HIDE DEF W
  <2> QED
    BY <1>1, <1>3, <1>10, <2>1, <2>2, <2>3 DEF Parted
<1>34. \A y \in Block : Linked(v, y) <=> Linked(tree, y) \/ y \in TopOf(call)
  BY <1>19, <1>32 DEF Gains
<1>35. \A y \in Block : y # n /\ y # b => v[y] = tree[y]
  BY <1>22, RootNode DEF Halved
<1>36. Nodes(v, {b})
  BY <1>1, <1>8, <1>34, <1>35 DEF Nodes
<1>37. v[n].entries # <<>>
  <2> DEFINE A == SubSeq(E, 1, i)
  <2>1. v[n].entries = A
    BY <1>22 DEF Halved
  <2> HIDE DEF E
  <2>2. A \in Seq(Ent) /\ DOMAIN A = 1 .. i /\ i \in 1 .. i
    BY <1>14, <1>15, FrontIs
  <2> HIDE DEF A
  <2> QED
    BY <2>1, <2>2, EntSeq
<1>38. Filled(v, {Append(F, b)[1]})
  <2> SUFFICES ASSUME NEW y \in Block, Linked(v, y)
               PROVE  v[y].entries # <<>> \/ y = Append(F, b)[1]
    BY DEF Filled
  <2>1. CASE y \in TopOf(call)
    <3>1. F # <<>> /\ y = F[Len(F)] /\ Len(F) \in 1 .. Len(F) /\ 1 \in 1 .. Len(F)
      BY <1>11, <2>1 DEF x
    <3>2. v[y] = tree[y] /\ Append(F, b)[1] = F[1]
      BY <1>30, <3>1
    <3>3. CASE Len(F) = 1
      BY <3>1, <3>2, <3>3
    <3>4. CASE Len(F) # 1
      <4>1. Len(F) > 1
        <5>1. Len(F) \in Nat /\ 1 \in 1 .. Len(F)
          BY <1>5, <3>1
        <5> QED
          BY <3>4, <5>1
      <4>2. tree[F[Len(F)]].entries # <<>>
        BY <1>4, <3>1, <4>1 DEF Made2
      <4> QED
        BY <3>1, <3>2, <4>2
    <3> QED
      BY <3>3, <3>4
  <2>2. CASE y \notin TopOf(call)
    BY <1>9, <1>10, <1>34, <2>2, <1>37, <1>35, <1>1, <1>11, <1>30 DEF Filled
  <2> QED
    BY <2>1, <2>2
<1>40. Whole(v, h, call', free \ {b}, foreign)
  BY <1>3, <1>8, <1>22, RootNode, <1>1, <1>31, <1>33, <1>36, <1>38, <1>20, <1>26, <1>28 DEF
     Halved, RootOK, Whole
<1> QED
  BY <1>2, <1>21, <1>40

LEMMA BehindIs ==
  ASSUME NEW E \in Seq(Ent), NEW i \in DOMAIN E, NEW e \in Ent
  PROVE  Behind2(E, i, e, InsertAt(E, i + 1, e))
<1> DEFINE p == i + 1
           G == InsertAt(E, p, e)
           z == Len(E)
<1>1. z \in Nat /\ DOMAIN E = 1 .. z /\ i \in 1 .. z
  BY EntSeq
<1>2. p \in 1 .. (z + 1) /\ p = i + 1 /\ i \in Nat
  BY <1>1
<1> HIDE DEF p
<1>3. /\ InsertAt(E, p, e) \in Seq(Ent) /\ Len(InsertAt(E, p, e)) = Len(E) + 1
      /\ DOMAIN InsertAt(E, p, e) = 1 .. (Len(E) + 1)
      /\ \A k \in 1 .. (Len(E) + 1) :
           InsertAt(E, p, e)[k] = IF k < p THEN E[k] ELSE IF k = p THEN e ELSE E[k - 1]
  BY <1>2, InsertIs
<1>4. /\ G \in Seq(Ent) /\ Len(G) = z + 1 /\ DOMAIN G = 1 .. (z + 1)
      /\ \A k \in 1 .. (z + 1) : G[k] = IF k < p THEN E[k] ELSE IF k = p THEN e ELSE E[k - 1]
  BY <1>3
<1> HIDE DEF G, z
<1>5. ASSUME NEW k \in DOMAIN G
      PROVE  \/ k <= i /\ k \in DOMAIN E /\ G[k] = E[k]
             \/ k = i + 1 /\ G[k] = e
             \/ k > i + 1 /\ k - 1 \in DOMAIN E /\ k - 1 > i /\ G[k] = E[k - 1]
  BY <1>4, <1>1, <1>2
<1>6. ASSUME NEW k \in DOMAIN E, k <= i PROVE k \in DOMAIN G /\ G[k] = E[k]
  BY <1>1, <1>2, <1>6, <1>4
<1> QED
  BY <1>2, <1>4, <1>5, <1>6 DEF Behind2, z, G, p

LEMMA LinkTree ==
  ASSUME NEW t, NEW hi, Tree(t, hi), t \in Trees, NEW n \in Node, NEW i \in DOMAIN t[n].entries,
         NEW key, Cut(t, hi, n, i, key), NEW x, Hangs(t, hi, n, i, key, x)
  PROVE  /\ Tree(With(t, n, InsertAt(t[n].entries, i + 1, Index(key, x))), hi)
         /\ Joins(t, With(t, n, InsertAt(t[n].entries, i + 1, Index(key, x))), x)
<1> DEFINE E == t[n].entries
           d == t[n].depth
           e == Index(key, x)
           a == i + 1
           G == InsertAt(E, a, e)
           u == hi[n]
           v == With(t, n, G)
<1>1. Shape(t) /\ Order(t, hi) /\ Low(t, {}) /\ Apart(t)
  BY DEF Tree
<1>2. d \in Nat /\ E \in Seq(Ent) /\ DOMAIN E = 1 .. Len(E) /\ Len(E) \in Nat /\ i \in Nat
      /\ i \in DOMAIN E
  BY <1>1, ShapeIs
<1>3. /\ d > 0 /\ x \in Block /\ x \notin Owned(t) /\ x # n /\ x \in Node /\ t[x].depth = d - 1
      /\ \A m \in DOMAIN t[x].entries : key <= t[x].entries[m].lblk
      /\ key < hi[x] /\ hi[x] <= u
      /\ \A m \in DOMAIN E : m > i => hi[x] <= E[m].lblk
  BY RootNode DEF Hangs
<1>4. /\ key \in Nat /\ End(E[i]) <= key /\ hi[E[i].pblk] <= key
      /\ hi \in [Node -> Nat] /\ u \in Nat /\ hi[x] \in Nat
  BY <1>1, <1>3 DEF Cut, Order
<1>5. \A m \in DOMAIN E : /\ E[m].lblk \in Nat /\ End(E[m]) \in Nat /\ E[m].lblk < End(E[m])
  BY <1>1, EntryIs
<1>6. /\ \A j, k \in DOMAIN E : j < k => End(E[j]) <= E[k].lblk
      /\ \A k \in DOMAIN E : End(E[k]) <= u
      /\ \A k \in DOMAIN E :
            /\ hi[E[k].pblk] <= u
            /\ \A m \in DOMAIN E : k < m => hi[E[k].pblk] <= E[m].lblk
  BY <1>1, <1>3 DEF Order
<1>7. \A k \in DOMAIN E :
         /\ E[k].len = 0 /\ E[k].pblk \in Block /\ E[k].pblk # n /\ t[E[k].pblk].depth = d - 1
         /\ hi[E[k].pblk] \in Nat
         /\ \A m \in DOMAIN t[E[k].pblk].entries : E[k].lblk <= t[E[k].pblk].entries[m].lblk
  <2> SUFFICES ASSUME NEW k \in DOMAIN E
               PROVE  /\ E[k].len = 0 /\ E[k].pblk \in Block /\ E[k].pblk # n /\ t[E[k].pblk].depth = d - 1
                      /\ hi[E[k].pblk] \in Nat
                      /\ \A m \in DOMAIN t[E[k].pblk].entries : E[k].lblk <= t[E[k].pblk].entries[m].lblk
    OBVIOUS
  <2>1. E[k].len = 0 /\ E[k].pblk \in Block /\ t[E[k].pblk].depth = d - 1
    BY <1>1, <1>3 DEF Shape
  <2>2. E[k].pblk # n
    <3>1. d # d - 1
      <4> HIDE DEF d
      <4> QED
        BY <1>2
    <3> QED
      BY <2>1, <3>1
  <2>3. hi[E[k].pblk] \in Nat
    BY <1>4, <2>1, RootNode
  <2>4. \A m \in DOMAIN t[E[k].pblk].entries : E[k].lblk <= t[E[k].pblk].entries[m].lblk
    BY <1>1, <1>3 DEF Low
  <2> QED
    BY <2>1, <2>2, <2>3, <2>4
<1>8. /\ e \in Ent /\ e.lblk = key /\ e.len = 0 /\ e.pblk = x /\ End(e) = key + 1
      /\ \A y : Holds(e, y) <=> y = x
  BY <1>3, <1>4, RootNode DEF Index, Extent, End, Holds, Ent
<1>9. \A m \in Node : \A k : Index2(t, m, k, n) => \A j \in DOMAIN E : t[m].entries[k].lblk <= E[j].lblk
  BY <1>1 DEF Low, Index2
<1>10. \A m \in Node : \A k : Index2(t, m, k, n) => t[m].entries[k].lblk \in Nat
  BY <1>1, EntryIs DEF Index2
<1>11. \A y : Hold(E, y) <=> Has(t, n, y)
  BY DEF Has
<1>12. Mine(t, n, G)
  <2> DEFINE p == i + 1
  <2>1. p \in 1 .. (Len(t[n].entries) + 1) /\ t[n].entries \in Seq(Ent)
    BY <1>2
  <2>2. \A y \in Block : Holds(e, y) => y \notin Owned(t)
    BY <1>3, <1>8
  <2> HIDE DEF e
  <2>3. G = InsertAt(t[n].entries, p, e)
    OBVIOUS
  <2> HIDE DEF p, G
  <2>4. Mine(t, n, InsertAt(t[n].entries, p, e))
    BY <1>1, <1>8, <2>1, <2>2, InsertedMine
  <2> QED
    BY <2>3, <2>4
<1>13. Behind2(E, i, e, G)
  <2> HIDE DEF E, e
  <2> QED
    BY <1>2, <1>8, BehindIs
<1> HIDE DEF E, e, G, u, d
<1>14. /\ G \in Seq(Ent)
       /\ \A k \in DOMAIN G : k \in Nat
       /\ \A k \in DOMAIN G :
            \/ k <= i /\ k \in DOMAIN E /\ G[k] = E[k]
            \/ k = i + 1 /\ G[k] = e
            \/ k > i + 1 /\ k - 1 \in DOMAIN E /\ k - 1 > i /\ G[k] = E[k - 1]
  BY <1>2, <1>13 DEF Behind2
<1>15. \A k \in DOMAIN E : k <= i => E[k].lblk < key /\ End(E[k]) <= key /\ hi[E[k].pblk] <= key
  <2> SUFFICES ASSUME NEW k \in DOMAIN E, k <= i
               PROVE  E[k].lblk < key /\ End(E[k]) <= key /\ hi[E[k].pblk] <= key
    OBVIOUS
  <2>1. CASE k = i
    BY <1>2, <1>4, <1>5, <2>1
  <2>2. CASE k # i
    <3>1. k < i /\ End(E[k]) <= E[i].lblk /\ hi[E[k].pblk] <= E[i].lblk
      BY <1>2, <1>6, <2>2
    <3>2. E[i].lblk \in Nat /\ End(E[i]) \in Nat /\ E[i].lblk < End(E[i]) /\ End(E[k]) \in Nat
          /\ E[k].lblk \in Nat /\ E[k].lblk < End(E[k]) /\ hi[E[k].pblk] \in Nat
      BY <1>2, <1>5, <1>7
    <3> QED
      BY <1>4, <3>1, <3>2
  <2> QED
    BY <2>1, <2>2
<1>16. Sorted(G, d, hi, u)
  <2>1. ASSUME NEW j \in DOMAIN G, NEW k \in DOMAIN G, j < k
        PROVE  End(G[j]) <= G[k].lblk /\ hi[G[j].pblk] <= G[k].lblk
    <3>1. CASE k <= i
      <4>1. k \in DOMAIN E /\ G[k] = E[k] /\ j \in DOMAIN E /\ G[j] = E[j]
        BY <1>2, <1>14, <2>1, <3>1
      <4> QED
        BY <1>6, <2>1, <4>1
    <3>2. CASE k = i + 1
      <4>1. G[k] = e /\ j <= i /\ j \in DOMAIN E /\ G[j] = E[j]
        BY <1>2, <1>14, <2>1, <3>2
      <4> QED
        BY <1>8, <1>15, <4>1
    <3>3. CASE k > i + 1
      <4>1. k - 1 \in DOMAIN E /\ k - 1 > i /\ G[k] = E[k - 1]
        BY <1>2, <1>14, <3>3
      <4> DEFINE z == k - 1
      <4>2. z \in DOMAIN E /\ z > i /\ G[k] = E[z] /\ z \in Nat /\ k = z + 1 /\ E[z].lblk \in Nat
        BY <1>2, <1>5, <1>14, <4>1
      <4> HIDE DEF z
      <4>3. CASE j <= i
        <5>1. j \in DOMAIN E /\ G[j] = E[j] /\ j < z
          BY <1>2, <1>14, <4>2, <4>3
        <5> QED
          BY <1>6, <4>2, <5>1
      <4>4. CASE j = i + 1
        <5>1. G[j] = e /\ hi[x] <= E[z].lblk
          BY <1>2, <1>3, <1>14, <4>2, <4>4
        <5> QED
          BY <1>3, <1>4, <1>8, <4>2, <5>1
      <4>5. CASE j > i + 1
        <5>1. j - 1 \in DOMAIN E /\ G[j] = E[j - 1] /\ j - 1 < z
          BY <1>2, <1>14, <2>1, <4>2, <4>5
        <5> QED
          BY <1>6, <4>2, <5>1
      <4> QED
        BY <1>2, <1>14, <4>3, <4>4, <4>5
    <3> QED
      BY <1>2, <1>14, <3>1, <3>2, <3>3
  <2>2. ASSUME NEW k \in DOMAIN G PROVE End(G[k]) <= u /\ hi[G[k].pblk] <= u
    <3>1. CASE G[k] = e
      BY <1>3, <1>4, <1>8, <3>1
    <3>2. CASE \E m \in DOMAIN E : G[k] = E[m]
      BY <1>6, <3>2
    <3> QED
      BY <1>14, <3>1, <3>2
  <2> QED
    BY <2>1, <2>2 DEF Sorted
<1>17. Fits(t, n, d, G)
  <2> SUFFICES ASSUME NEW k \in DOMAIN G
               PROVE  IF d = 0 THEN G[k].len # 0
                      ELSE /\ G[k].len = 0 /\ G[k].pblk \in Block /\ G[k].pblk # n
                           /\ t[G[k].pblk].depth = d - 1
                           /\ \A m \in DOMAIN t[G[k].pblk].entries :
                                 G[k].lblk <= t[G[k].pblk].entries[m].lblk
    BY DEF Fits
  <2>0. d # 0
    BY <1>2, <1>3
  <2>1. CASE G[k] = e
    BY <1>3, <1>8, <2>0, <2>1
  <2>2. CASE \E m \in DOMAIN E : G[k] = E[m]
    BY <1>7, <2>0, <2>2
  <2> QED
    BY <1>14, <2>1, <2>2
<1>18. \A m \in Node : \A k : Index2(t, m, k, n) => \A j \in DOMAIN G : t[m].entries[k].lblk <= G[j].lblk
  <2> SUFFICES ASSUME NEW m \in Node, NEW k, Index2(t, m, k, n), NEW j \in DOMAIN G
               PROVE  t[m].entries[k].lblk <= G[j].lblk
    OBVIOUS
  <2> DEFINE y == t[m].entries[k].lblk
  <2>1. y \in Nat /\ \A r \in DOMAIN E : y <= E[r].lblk
    BY <1>9, <1>10
  <2> HIDE DEF y
  <2>2. y <= E[i].lblk /\ E[i].lblk < key /\ E[i].lblk \in Nat
    BY <1>2, <1>5, <1>15, <2>1
  <2>3. y <= key
    BY <1>4, <2>1, <2>2
  <2>4. y <= G[j].lblk
    BY <1>8, <1>14, <2>1, <2>3
  <2> QED
    BY <2>4 DEF y
<1>19. \A y : Hold(G, y) <=> Hold(E, y) \/ y = x
  <2> DEFINE p == i + 1
  <2>1. p \in 1 .. (Len(E) + 1)
    BY <1>2
  <2>2. G = InsertAt(E, p, e)
    BY DEF G
  <2> HIDE DEF p
  <2>3. /\ \A b : Hold(InsertAt(E, p, e), b) <=> Hold(E, b) \/ Holds(e, b)
        /\ \A k \in DOMAIN InsertAt(E, p, e) :
              \/ InsertAt(E, p, e)[k] = e
              \/ \E m \in DOMAIN E : InsertAt(E, p, e)[k] = E[m]
    BY <1>2, <1>8, <2>1, InsertedHolds
  <2> QED
    BY <1>8, <2>2, <2>3
<1> DEFINE X == {}
<1>20. \A m \in Node : \A k : Index2(t, m, k, n) =>
         <<m, k>> \in X \/ \A j \in DOMAIN G : t[m].entries[k].lblk <= G[j].lblk
  BY <1>18
<1>21. /\ Sorted(G, t[n].depth, hi, u) /\ Fits(t, n, t[n].depth, G) /\ u <= hi[n]
       /\ u \in Nat /\ G \in Seq(Ent)
  BY <1>4, <1>14, <1>16, <1>17 DEF d, u
<1> HIDE DEF X, v
<1>22. /\ Shape(With(t, n, G)) /\ Order(With(t, n, G), [hi EXCEPT ![n] = u])
       /\ Low(With(t, n, G), X) /\ Apart(With(t, n, G))
       /\ \A b \in Block : b \in Owned(With(t, n, G)) <=> (b \in Owned(t) /\ ~Has(t, n, b)) \/ Hold(G, b)
       /\ \A b \in Block : Linked(With(t, n, G), b) <=>
               \/ Linked(t, b) /\ ~(t[n].depth > 0 /\ Has(t, n, b))
               \/ t[n].depth > 0 /\ Hold(G, b)
  BY <1>12, <1>20, <1>21, NodeReplaced
<1>23. [hi EXCEPT ![n] = u] = hi
  BY <1>4 DEF u
<1>24. Tree(v, hi)
  BY <1>22, <1>23 DEF Tree, X, v
<1>25. \A y \in Block : Has(t, n, y) => y \in Owned(t) /\ Linked(t, y)
  BY <1>3 DEF Owned, Linked, d
<1>26. Joins(t, v, x)
  <2>1. t[n].depth > 0
    BY <1>3 DEF d
  <2> QED
    BY <1>11, <1>19, <1>22, <1>25, <2>1 DEF Joins, v
<1>27. v = With(t, n, InsertAt(t[n].entries, i + 1, Index(key, x)))
  BY DEF v, G, E, e
<1> QED
  BY <1>24, <1>26, <1>27

LEMMA LeftPath ==
  ASSUME NEW t, Shape(t), NEW p, IsPath(t, p), NEW k, k # Len(p), NEW n, NEW i, Stands(t, p, k, n, i),
         NEW e, NEW G, Behind2(t[n].entries, i, e, G), NEW v, Relinked(t, v, n, G),
         NEW l, NEW u, Between(t, p, l, u), Clear(t, p, l, u), u <= e.lblk
  PROVE  IsPath(v, p) /\ Between(v, p, l, u) /\ Clear(v, p, l, u)
<1>1. /\ Len(p) \in Nat \ {0} /\ DOMAIN p = 1 .. Len(p) /\ Len(p) = t[Root].depth + 1
      /\ p \in [1 .. Len(p) -> [n : Node, i : Nat]] /\ Len(p) \in 1 .. Len(p)
      /\ \A j \in 1 .. Len(p) : p[j].n \in Node /\ p[j].i \in Nat /\ t[p[j].n].depth = Len(p) - j
      /\ p[1].n = Root
      /\ Chain(t, p, Len(p) - 1)
      /\ IF t[p[Len(p)].n].entries = <<>> THEN p[Len(p)].i = 0
         ELSE p[Len(p)].i \in DOMAIN t[p[Len(p)].n].entries
      /\ \A m, j \in 1 .. Len(p) : p[m].n = p[j].n => m = j
  BY PathIs
<1>2. /\ k \in 1 .. Len(p) /\ n = p[k].n /\ i = p[k].i /\ i \in DOMAIN t[n].entries /\ i \in Nat
      /\ k # Len(p) /\ n \in Node
  BY <1>1 DEF Stands
<1>3. \A j \in 1 .. Len(p) : j # k => v[p[j].n] = t[p[j].n]
  BY <1>1, <1>2 DEF Relinked
<1>4. /\ v[n].entries = G /\ \A j \in 1 .. Len(p) : v[p[j].n].depth = t[p[j].n].depth
      /\ v[Root].depth = t[Root].depth
  BY <1>1, RootNode DEF Relinked
<1>5. v[p[Len(p)].n] = t[p[Len(p)].n]
  BY <1>1, <1>2, <1>3
<1>6. i \in DOMAIN G /\ G[i] = t[n].entries[i] /\ DOMAIN t[n].entries = 1 .. Len(t[n].entries)
  <2>1. i <= i /\ DOMAIN t[n].entries = 1 .. Len(t[n].entries)
    BY <1>2, ShapeIs
  <2> QED
    BY <1>2, <2>1 DEF Behind2
<1>7. Steps(v, p, Len(p))
  BY <1>1, <1>4 DEF Steps
<1>8. Chain(v, p, Len(p) - 1)
  <2> SUFFICES ASSUME NEW j \in 1 .. (Len(p) - 1)
               PROVE  /\ p[j].i \in DOMAIN v[p[j].n].entries
                      /\ v[p[j].n].entries[p[j].i].pblk = p[j + 1].n
    BY DEF Chain
  <2>1. j \in 1 .. Len(p)
    BY <1>1
  <2>2. p[j].i \in DOMAIN t[p[j].n].entries /\ t[p[j].n].entries[p[j].i].pblk = p[j + 1].n
    BY <1>1 DEF Chain
  <2> QED
    BY <1>2, <1>3, <1>4, <1>6, <2>1, <2>2
<1>9. IsPath(v, p)
  BY <1>1, <1>5, <1>7, <1>8 DEF IsPath
<1>10. Between(v, p, l, u)
  <2> SUFFICES ASSUME NEW j \in 1 .. Len(p)
               PROVE  /\ p[j].i > 1 => v[p[j].n].entries[p[j].i].lblk <= l
                      /\ \A m \in DOMAIN v[p[j].n].entries : m > p[j].i => u <= v[p[j].n].entries[m].lblk
    BY <1>1 DEF Between
  <2>1. /\ p[j].i > 1 => t[p[j].n].entries[p[j].i].lblk <= l
        /\ \A m \in DOMAIN t[p[j].n].entries : m > p[j].i => u <= t[p[j].n].entries[m].lblk
    BY <1>1 DEF Between
  <2>2. CASE j # k
    BY <1>3, <2>1, <2>2
  <2>3. CASE j = k
    <3>1. i > 1 => G[i].lblk <= l
      BY <1>2, <1>6, <2>1, <2>3
    <3>2. ASSUME NEW m \in DOMAIN G, m > i PROVE u <= G[m].lblk
      <4>1. CASE m = i + 1 /\ G[m] = e
        BY <4>1
      <4>2. CASE m - 1 \in DOMAIN t[n].entries /\ m - 1 > i /\ G[m] = t[n].entries[m - 1]
        BY <1>2, <2>1, <2>3, <4>2
      <4>3. m \in Nat /\ ~(m <= i)
        BY <1>2, <3>2 DEF Behind2
      <4> QED
        BY <3>2, <4>1, <4>2, <4>3 DEF Behind2
    <3> QED
      BY <1>2, <1>4, <2>3, <3>1, <3>2
  <2> QED
    BY <2>2, <2>3
<1>11. Clear(v, p, l, u)
  BY <1>5 DEF Clear
<1> QED
  BY <1>9, <1>10, <1>11

LEMMA RightIs ==
  ASSUME NEW t, NEW p, Len(p) \in Nat, p \in [1 .. Len(p) -> [n : Node, i : Nat]],
         NEW F \in Seq(Block), NEW k \in 1 .. Len(p), k = Len(p) - Len(F)
  PROVE  Rightly(t, p, k, F, Right(t, p, k, F))
<1> DEFINE L == Len(p)
           M == Len(F)
           q == Right(t, p, k, F)
           f(j) == IF j < k THEN p[j]
                   ELSE IF j = k THEN [p[k] EXCEPT !.i = @ + 1]
                   ELSE [n |-> F[Len(p) - j + 1],
                         i |-> IF t[F[Len(p) - j + 1]].entries = <<>> THEN 0 ELSE 1]
<1>1. M \in Nat /\ L \in Nat /\ k = L - M /\ k \in 1 .. L /\ \A j \in 1 .. M : F[j] \in Block /\ F[j] \in Node
  BY LenProperties, ElementOfSeq, RootNode
<1>2. \A j \in 1 .. L : p[j] \in [n : Node, i : Nat]
  OBVIOUS
<1>3. ASSUME NEW j \in 1 .. L, j > k PROVE L - j + 1 \in 1 .. M
  <2> HIDE DEF L, M
  <2> QED
    BY <1>1, <1>3
<1>4. ASSUME NEW j \in 1 .. L
      PROVE  /\ f(j) \in [n : Node, i : Nat]
             /\ j < k => f(j) = p[j]
             /\ j = k => f(j).n = p[k].n /\ f(j).i = p[k].i + 1
             /\ j > k => /\ L - j + 1 \in 1 .. M /\ f(j).n = F[L - j + 1]
                         /\ f(j).i = IF t[f(j).n].entries = <<>> THEN 0 ELSE 1
  <2>1. CASE j < k
    <3>1. f(j) = p[j] /\ ~(j = k) /\ ~(j > k)
      BY <1>1, <2>1
    <3> HIDE DEF f
    <3> QED
      BY <1>2, <3>1, Zenon
  <2>2. CASE j = k
    <3>1. f(j) = [p[k] EXCEPT !.i = @ + 1] /\ ~(j < k) /\ ~(j > k)
      BY <1>1, <2>2
    <3>2. [p[k] EXCEPT !.i = @ + 1] \in [n : Node, i : Nat]
          /\ [p[k] EXCEPT !.i = @ + 1].n = p[k].n /\ [p[k] EXCEPT !.i = @ + 1].i = p[k].i + 1
      <4>1. p[k] \in [n : Node, i : Nat]
        BY <1>2
      <4> QED
        BY ONLY <4>1
    <3> HIDE DEF f
    <3> QED
      BY <3>1, <3>2
  <2>3. CASE j > k
    <3> DEFINE b == F[L - j + 1]
    <3>1. f(j) = [n |-> b, i |-> IF t[b].entries = <<>> THEN 0 ELSE 1] /\ ~(j < k) /\ ~(j = k)
      BY <1>1, <2>3
    <3>2. L - j + 1 \in 1 .. M /\ b \in Node
      BY <1>1, <1>3, <2>3
    <3> DEFINE x == IF t[b].entries = <<>> THEN 0 ELSE 1
               z == f(j)
    <3>3. x \in Nat
      OBVIOUS
    <3>4. z = [n |-> b, i |-> x]
      BY <3>1, Zenon
    <3> HIDE DEF f, L, M, b, x, z
    <3>5. z \in [n : Node, i : Nat] /\ z.n = b /\ z.i = x
      BY <3>2, <3>3, <3>4
    <3> QED
      BY <3>1, <3>2, <3>5, Zenon DEF b, x, z
  <2>4. j < k \/ j = k \/ j > k
    <3>1. k \in 1 .. L /\ L \in Nat /\ j \in 1 .. L
      BY <1>1
    <3>2. \A a, b \in 1 .. L : a < b \/ a = b \/ a > b
      <4> HIDE DEF L
      <4> QED
        BY <3>1
    <3> QED
      BY <3>1, <3>2, Zenon
  <2> QED
    BY <2>1, <2>2, <2>3, <2>4
<1>5. q = [j \in 1 .. L |-> f(j)]
  BY DEF Right
<1> HIDE DEF f, q
<1>6. q \in [1 .. L -> [n : Node, i : Nat]] /\ \A j \in 1 .. L : q[j] = f(j)
  BY <1>4, <1>5, Zenon
<1>7. Len(q) = L /\ DOMAIN q = 1 .. L
  <2> DEFINE S == [n : Node, i : Nat]
  <2>1. q \in [1 .. L -> S] /\ L \in Nat
    BY <1>1, <1>6
  <2> HIDE DEF S, L
  <2> QED
    BY <2>1, FunctionIsSeq
<1>8. \A j \in 1 .. L :
        /\ j < k => q[j] = p[j]
        /\ j = k => q[j].n = p[k].n /\ q[j].i = p[k].i + 1
        /\ j > k => /\ L - j + 1 \in 1 .. M /\ q[j].n = F[L - j + 1]
                    /\ q[j].i = IF t[q[j].n].entries = <<>> THEN 0 ELSE 1
  <2> SUFFICES ASSUME NEW j \in 1 .. L
               PROVE  /\ j < k => q[j] = p[j]
                      /\ j = k => q[j].n = p[k].n /\ q[j].i = p[k].i + 1
                      /\ j > k => /\ L - j + 1 \in 1 .. M /\ q[j].n = F[L - j + 1]
                                  /\ q[j].i = IF t[q[j].n].entries = <<>> THEN 0 ELSE 1
    BY Zenon
  <2>1. q[j] = f(j)
    BY <1>6, Zenon
  <2> QED
    BY <1>4, <2>1, Zenon
<1>9. Rightly(t, p, k, F, q)
  BY <1>6, <1>7, <1>8, Zenon DEF Rightly
<1> QED
  BY <1>9 DEF q

LEMMA LevelNumbers ==
  ASSUME NEW L \in Nat, NEW M \in Nat, NEW k \in 1 .. L, k # L, k = L - M
  PROVE  k \in Nat /\ 1 <= k /\ k < L /\ L = k + M
  OBVIOUS

LEMMA RightPath ==
  ASSUME NEW t, Shape(t), NEW p, IsPath(t, p), NEW k, k # Len(p), NEW n, NEW i, Stands(t, p, k, n, i),
         NEW F, NEW key, Made2(t, F, key), k = Len(p) - Len(F),
         NEW e, e.lblk = key, e.pblk = F[Len(F)], NEW G, Behind2(t[n].entries, i, e, G),
         NEW v, Relinked(t, v, n, G), NEW q, Rightly(t, p, k, F, q),
         NEW u, Between(t, p, key, u), Bare(t, F, u), key \in Nat
  PROVE  IsPath(v, q) /\ Between(v, q, key, u) /\ Clear(v, q, key, u)
<1> DEFINE L == Len(p)
           M == Len(F)
<1>1. /\ L \in Nat \ {0} /\ L = t[Root].depth + 1 /\ DOMAIN p = 1 .. L
      /\ \A j \in 1 .. L : p[j].n \in Node /\ p[j].i \in Nat /\ t[p[j].n].depth = L - j
      /\ p[1].n = Root
      /\ \A j \in 1 .. (L - 1) : /\ p[j].i \in DOMAIN t[p[j].n].entries
                                 /\ t[p[j].n].entries[p[j].i].pblk = p[j + 1].n
      /\ \A m, j \in 1 .. L : p[m].n = p[j].n => m = j
  BY PathIs DEF Index2
<1>2. /\ k \in 1 .. L /\ n = p[k].n /\ i = p[k].i /\ i \in DOMAIN t[n].entries /\ i \in Nat
      /\ k # L /\ n \in Node /\ k \in Nat
  <2>1. k \in 1 .. L /\ n = p[k].n /\ i = p[k].i /\ i \in DOMAIN t[n].entries /\ k # L
    BY DEF Stands
  <2>2. n \in Node /\ i \in Nat
    BY <1>1, <2>1
  <2> HIDE DEF L
  <2>3. k \in Nat
    BY <1>1, <2>1
  <2> QED
    BY <2>1, <2>2, <2>3
<1>3. /\ M \in Nat /\ k = L - M
      /\ \A j \in 1 .. M :
           /\ F[j] \in Block /\ F[j] \in Node /\ t[F[j]].depth = j - 1
           /\ j > 1 => /\ t[F[j]].entries # <<>> /\ 1 \in DOMAIN t[F[j]].entries
                       /\ t[F[j]].entries[1].pblk = F[j - 1]
  <2>1. M \in Nat /\ k = L - M
    BY DEF Made2
  <2>2. \A j \in 1 .. M :
           /\ F[j] \in Block /\ F[j] \in Node /\ t[F[j]].depth = j - 1
           /\ j > 1 => t[F[j]].entries # <<>> /\ Index2(t, F[j], 1, F[j - 1])
    BY DEF Made2
  <2> QED
    BY <2>1, <2>2 DEF Index2
<1>4. /\ q \in [1 .. L -> [n : Node, i : Nat]] /\ Len(q) = L /\ DOMAIN q = 1 .. L
      /\ \A j \in 1 .. L :
           /\ j < k => q[j] = p[j]
           /\ j = k => q[j].n = n /\ q[j].i = i + 1
           /\ j > k => /\ L - j + 1 \in 1 .. M /\ q[j].n = F[L - j + 1]
                       /\ q[j].i = IF t[q[j].n].entries = <<>> THEN 0 ELSE 1
  BY <1>2 DEF Rightly
<1>5. /\ t[F[1]].entries = <<>>
      /\ \A j \in 2 .. M : \A m \in DOMAIN t[F[j]].entries : m > 1 => u <= t[F[j]].entries[m].lblk
  BY DEF Bare
<1>6. \A j \in 1 .. L :
        /\ p[j].i > 1 => t[p[j].n].entries[p[j].i].lblk <= key
        /\ \A m \in DOMAIN t[p[j].n].entries : m > p[j].i => u <= t[p[j].n].entries[m].lblk
  BY <1>1 DEF Between
<1>7. /\ v[n].entries = G /\ \A m \in Node : v[m].depth = t[m].depth
      /\ \A m \in Node : m # n => v[m] = t[m]
  BY DEF Relinked
<1>8. e.pblk = F[M] /\ e.lblk = key
  OBVIOUS
<1> HIDE DEF L, M
<1>30. L \in Nat /\ k \in Nat /\ M \in Nat /\ 1 <= k /\ k < L /\ L = k + M
  <2>1. L \in Nat /\ M \in Nat /\ k \in 1 .. L /\ k # L /\ k = L - M
    BY <1>1, <1>2, <1>3
  <2> QED
    BY <2>1, LevelNumbers, Zenon
<1>9. L \in 1 .. L /\ t[n].depth = M /\ M # 0 /\ M \in 1 .. M /\ 1 \in 1 .. M
  <2>1. t[n].depth = L - k
    BY <1>1, <1>2
  <2>2. L \in 1 .. L /\ L - k = M /\ M # 0 /\ M \in 1 .. M /\ 1 \in 1 .. M
    BY <1>30
  <2> QED
    BY <2>1, <2>2
<1>10. \A j \in 1 .. M : F[j] # n /\ v[F[j]] = t[F[j]]
  <2> SUFFICES ASSUME NEW j \in 1 .. M PROVE F[j] # n /\ v[F[j]] = t[F[j]]
    OBVIOUS
  <2>1. t[F[j]].depth = j - 1 /\ F[j] \in Node
    BY <1>3
  <2>2. j - 1 # M
    BY <1>3
  <2> QED
    BY <1>7, <1>9, <2>1, <2>2
<1>11. ASSUME NEW j \in 1 .. L, j < k
       PROVE  q[j] = p[j] /\ v[q[j].n] = t[p[j].n] /\ j \in 1 .. (L - 1)
  <2>0. j # k /\ j \in 1 .. (L - 1)
    BY <1>11, <1>30
  <2>1. q[j] = p[j] /\ j # k /\ j \in 1 .. (L - 1)
    BY <1>4, <1>11, <2>0
  <2>2. p[j].n # n /\ p[j].n \in Node
    BY <1>1, <1>2, <2>1
  <2> QED
    BY <1>7, <2>1, <2>2
<1>12. ASSUME NEW j \in 1 .. L, j > k
       PROVE  \E s \in 1 .. M : /\ s = L - j + 1 /\ q[j].n = F[s] /\ v[q[j].n] = t[F[s]]
                                /\ s = 1 => q[j].i = 0
                                /\ s > 1 => q[j].i = 1
  <2> DEFINE s == L - j + 1
  <2>1. s \in 1 .. M /\ q[j].n = F[s] /\ q[j].i = IF t[q[j].n].entries = <<>> THEN 0 ELSE 1
    BY <1>4, <1>12
  <2>2. s = L - j + 1
    OBVIOUS
  <2> HIDE DEF s
  <2>3. v[q[j].n] = t[F[s]]
    BY <1>10, <2>1
  <2>4. s = 1 => q[j].i = 0
    BY <1>5, <2>1
  <2>5. s > 1 => q[j].i = 1
    BY <1>3, <2>1
  <2> QED
    BY <2>1, <2>2, <2>3, <2>4, <2>5
<1>13. q[k].n = n /\ q[k].i = i + 1 /\ v[q[k].n].entries = G
  BY <1>2, <1>4, <1>7
<1>14. \A j \in 1 .. L : j < k \/ j = k \/ j > k
  BY <1>30
<1>15. i + 1 \in DOMAIN G /\ G[i + 1] = e
  BY DEF Behind2
<1>16. \A j \in 1 .. L : v[q[j].n].depth = L - j
  <2> SUFFICES ASSUME NEW j \in 1 .. L PROVE v[q[j].n].depth = L - j
    OBVIOUS
  <2>1. CASE j < k
    BY <1>1, <1>11, <2>1
  <2>2. CASE j = k
    <3>1. v[q[j].n].depth = t[n].depth /\ L - j = M
      BY <1>2, <1>7, <1>13, <1>30, <2>2
    <3> QED
      BY <1>9, <3>1
  <2>3. CASE j > k
    <3>1. PICK s \in 1 .. M : s = L - j + 1 /\ v[q[j].n] = t[F[s]]
      BY <1>12, <2>3
    <3>2. t[F[s]].depth = s - 1
      BY <1>3
    <3>3. s - 1 = L - j
      BY <1>1, <3>1
    <3> QED
      BY <3>1, <3>2, <3>3
  <2> QED
    BY <1>14, <2>1, <2>2, <2>3
<1>17. q[1].n = Root /\ 1 \in 1 .. L
  <2>1. 1 \in 1 .. L /\ (1 < k \/ 1 = k)
    BY <1>1, <1>2
  <2> QED
    BY <1>1, <1>2, <1>4, <2>1
<1>18. v[Root].depth = t[Root].depth
  BY <1>7, RootNode
<1>19. Steps(v, q, Len(q))
  BY <1>1, <1>4, <1>16, <1>17, <1>18 DEF Steps
<1>20. Chain(v, q, Len(q) - 1)
  <2> SUFFICES ASSUME NEW j \in 1 .. (L - 1)
               PROVE  /\ q[j].i \in DOMAIN v[q[j].n].entries
                      /\ v[q[j].n].entries[q[j].i].pblk = q[j + 1].n
    BY <1>4 DEF Chain
  <2>0. j \in 1 .. L /\ j + 1 \in 1 .. L
    BY <1>1
  <2>1. CASE j < k
    <3>1. q[j + 1].n = p[j + 1].n
      <4>1. CASE j + 1 < k
        BY <1>4, <2>0, <4>1
      <4>2. CASE j + 1 = k
        BY <1>2, <1>13, <4>2
      <4>3. j + 1 < k \/ j + 1 = k
        BY <1>30, <2>1
      <4> QED
        BY <4>1, <4>2, <4>3
    <3> QED
      BY <1>1, <1>11, <2>0, <2>1, <3>1
  <2>2. CASE j = k
    <3>1. PICK s \in 1 .. M : s = L - (j + 1) + 1 /\ q[j + 1].n = F[s]
      <4>1. j + 1 > k
        BY <1>2, <2>2
      <4> QED
        BY <1>12, <2>0, <4>1
    <3>2. s = M
      BY <1>30, <2>2, <3>1
    <3> QED
      BY <1>8, <1>13, <1>15, <2>2, <3>1, <3>2
  <2>3. CASE j > k
    <3>1. PICK s \in 1 .. M : /\ s = L - j + 1 /\ v[q[j].n] = t[F[s]] /\ (s > 1 => q[j].i = 1)
      BY <1>12, <2>0, <2>3
    <3>2. PICK r \in 1 .. M : r = L - (j + 1) + 1 /\ q[j + 1].n = F[r]
      <4>1. j + 1 > k
        BY <1>2, <2>0, <2>3
      <4> QED
        BY <1>12, <2>0, <4>1
    <3>3. s > 1 /\ r = s - 1
      <4>1. j + 1 \in 1 .. L /\ j \in Nat /\ s \in Nat /\ r \in Nat
        BY <1>30, <2>0
      <4>2. s = L - j + 1 /\ r = L - (j + 1) + 1 /\ L \in Nat
        BY <1>30, <3>1, <3>2, Zenon
      <4> HIDE DEF L, M
      <4> QED
        BY <4>1, <4>2
    <3> QED
      BY <1>3, <3>1, <3>2, <3>3
  <2> QED
    BY <1>14, <2>0, <2>1, <2>2, <2>3
<1>21. q[L].i = 0 /\ v[q[L].n].entries = <<>>
  <2>1. L > k
    BY <1>1, <1>2
  <2>2. PICK s \in 1 .. M : s = L - L + 1 /\ v[q[L].n] = t[F[s]] /\ (s = 1 => q[L].i = 0)
    BY <1>9, <1>12, <2>1
  <2>3. s = 1
    BY <1>1, <2>2
  <2> QED
    BY <1>5, <2>2, <2>3
<1>22. IsPath(v, q)
  BY <1>4, <1>19, <1>20, <1>21 DEF IsPath
<1>23. Clear(v, q, key, u)
  BY <1>4, <1>21 DEF Clear
<1>24. Between(v, q, key, u)
  <2> SUFFICES ASSUME NEW j \in 1 .. L
               PROVE  /\ q[j].i > 1 => v[q[j].n].entries[q[j].i].lblk <= key
                      /\ \A m \in DOMAIN v[q[j].n].entries : m > q[j].i => u <= v[q[j].n].entries[m].lblk
    BY <1>4 DEF Between
  <2>1. CASE j < k
    BY <1>6, <1>11, <2>1
  <2>2. CASE j = k
    <3>1. ASSUME NEW m \in DOMAIN G, m > i + 1 PROVE u <= G[m].lblk
      <4>1. m \in Nat /\ ~(m <= i) /\ m # i + 1
        BY <1>2, <3>1 DEF Behind2
      <4>2. m - 1 \in DOMAIN t[n].entries /\ m - 1 > i /\ G[m] = t[n].entries[m - 1]
        BY <3>1, <4>1 DEF Behind2
      <4> QED
        BY <1>2, <1>6, <4>2
    <3>2. G[i + 1].lblk <= key
      BY <1>8, <1>15
    <3> QED
      BY <1>13, <2>2, <3>1, <3>2
  <2>3. CASE j > k
    <3>1. PICK s \in 1 .. M : /\ v[q[j].n] = t[F[s]] /\ (s = 1 => q[j].i = 0)
                              /\ (s > 1 => q[j].i = 1)
      BY <1>12, <2>3
    <3>2. CASE s = 1
      <4>1. DOMAIN v[q[j].n].entries = {}
        BY <1>5, <3>1, <3>2
      <4> QED
        BY <3>1, <3>2, <4>1
    <3>3. CASE s # 1
      <4>1. s \in 2 .. M /\ s > 1
        BY <1>3, <3>3
      <4> QED
        BY <1>5, <3>1, <4>1
    <3> QED
      BY <3>2, <3>3
  <2> QED
    BY <1>14, <2>1, <2>2, <2>3
<1> QED
  BY <1>22, <1>23, <1>24

LEMMA LinkingIs ==
  ASSUME NEW hi, Whole(tree, hi, call, free, foreign), call.at = "split", Level(call) = call.top - 1
  PROVE  Linking(tree, hi, free, foreign, call, call.path, call.fresh, call.key, call.new,
                 Level(call), call.path[Level(call)].n, call.path[Level(call)].i,
                 call.fresh[Len(call.fresh)])
<1> DEFINE p == call.path
           F == call.fresh
           key == call.key
           new == call.new
           k == Level(call)
           n == p[k].n
           i == p[k].i
           x == F[Len(F)]
           W == {b \in Block : Holds(new, b)}
<1>1. /\ Tree(tree, hi) /\ Shape(tree) /\ tree \in Trees /\ IsPath(tree, p)
      /\ key \in Nat /\ F \in Seq(Block) /\ call.top \in 2 .. Len(p)
      /\ LeftOK(tree, hi, call) /\ RightOK(tree, hi, call) /\ SideOK(tree, call)
      /\ Parted(Owned(tree), free, foreign, W, TopOf(call))
      /\ Nodes(tree, TopOf(call)) /\ Filled(tree, BareOf(call)) /\ RootOK(tree)
  BY SplitFacts
<1>2. Made2(tree, F, key)
  BY <1>1, FreshIs
<1>3. Len(F) \in Nat /\ (F = <<>> => Len(F) = 0)
  BY <1>2 DEF Made2
<1>4. Len(p) \in Nat /\ \A j \in 1 .. Len(p) : p[j].n \in Node
  <2> HIDE DEF p
  <2> QED
    BY <1>1, PathIs
<1>5. k = Len(p) - Len(F)
  BY DEF Level
<1>6. k \in 1 .. Len(p) /\ k # Len(p) /\ Len(F) # 0
  <2> DEFINE top == call.top
             L == Len(p)
             M == Len(F)
  <2>1. top \in 2 .. L /\ k = top - 1 /\ k = L - M /\ L \in Nat /\ M \in Nat
    BY <1>1, <1>3, <1>4, <1>5
  <2> HIDE DEF L, M, top, k
  <2>2. k \in 1 .. L /\ k # L /\ M # 0
    BY <2>1
  <2> QED
    BY <2>2 DEF L, M
<1>7. F # <<>> /\ Len(F) \in 1 .. Len(F) /\ 1 \in 1 .. Len(F)
  <2> HIDE DEF F
  <2> QED
    BY <1>3, <1>6
<1>8. TopOf(call) = {x} /\ BareOf(call) = {F[1]}
  BY <1>7 DEF TopOf, BareOf
<1>9. x \in Block /\ x \notin Owned(tree) /\ x = Last(F)
  BY <1>2, <1>7, <1>1, <1>8 DEF Made2, Parted, Last
<1>10. n \in Node
  BY <1>4, <1>6
<1> HIDE DEF k
<1>11. Linking(tree, hi, free, foreign, call, p, F, key, new, k, n, i, x)
  BY <1>1, <1>2, <1>3, <1>5, <1>6, <1>7, <1>8, <1>9, <1>10 DEF Linking, k
<1> QED
  BY <1>11 DEF k

\* What has changed when the key is entered.
LEMMA LinkedUp ==
  ASSUME NEW t, NEW hi, NEW f, NEW g, NEW c, NEW p, NEW F, NEW key, NEW new, NEW k, NEW n, NEW i, NEW x,
         Linking(t, hi, f, g, c, p, F, key, new, k, n, i, x), NEW v,
         v = With(t, n, InsertAt(t[n].entries, i + 1, Index(key, x)))
  PROVE  /\ Tree(v, hi) /\ Stands(t, p, k, n, i)
         /\ Behind2(t[n].entries, i, Index(key, x), v[n].entries)
         /\ Relinked(t, v, n, v[n].entries)
         /\ Parted(Owned(v), f, g, {b \in Block : Holds(new, b)}, {})
         /\ Nodes(v, {}) /\ Filled(v, {F[1]}) /\ RootOK(v)
         /\ t[F[1]].entries # <<>> => Filled(v, {})
<1> DEFINE E == t[n].entries
           e == Index(key, x)
           G == InsertAt(E, i + 1, e)
           W == {b \in Block : Holds(new, b)}
<1>1. /\ Tree(t, hi) /\ Shape(t) /\ t \in Trees /\ IsPath(t, p)
      /\ n = p[k].n /\ i = p[k].i
      /\ k \in 1 .. Len(p) /\ k # Len(p) /\ n \in Node
      /\ key \in Nat /\ F \in Seq(Block) /\ F # <<>> /\ Len(F) \in 1 .. Len(F) /\ 1 \in 1 .. Len(F)
      /\ Len(F) \in Nat /\ Made2(t, F, key)
      /\ x \in Block /\ x \notin Owned(t)
      /\ Parted(Owned(t), f, g, W, {x})
      /\ Nodes(t, {x}) /\ Filled(t, {F[1]}) /\ RootOK(t) /\ x = F[Len(F)]
  BY DEF Linking
<1>2. /\ LeftOK(t, hi, c) /\ RightOK(t, hi, c) /\ IsPath(t, c.path) /\ c.key \in Nat
      /\ Level(c) \in 1 .. Len(c.path) /\ n = c.path[Level(c)].n /\ i = c.path[Level(c)].i
      /\ c.fresh # <<>> /\ x = c.fresh[Len(c.fresh)] /\ Made2(t, c.fresh, c.key)
      /\ key = c.key /\ F = c.fresh /\ p = c.path
  BY DEF Linking
<1>3. /\ \A j \in 1 .. Len(c.path) : c.path[j].i \in DOMAIN t[c.path[j].n].entries
      /\ n \in Node /\ i \in DOMAIN t[n].entries /\ Cut(t, hi, n, i, c.key)
  BY <1>1, <1>2, SplitCut
<1>5. i \in DOMAIN E /\ Cut(t, hi, n, i, key) /\ Hangs(t, hi, n, i, key, x) /\ t[n].depth = Len(F)
      /\ t[n].depth # 0
  BY <1>1, <1>2, SplitHangs, <1>3
<1>7. Tree(v, hi) /\ Joins(t, v, x)
  BY <1>1, <1>5, LinkTree
<1>8. Stands(t, p, k, n, i)
  BY <1>1, <1>5 DEF Stands
<1>9. E \in Seq(Ent) /\ e \in Ent
  BY <1>1, ShapeIs, RootNode DEF Index, Extent, Ent
<1>10. Behind2(E, i, e, G)
  <2> HIDE DEF E, e
  <2> QED
    BY <1>5, <1>9, BehindIs
<1>11. /\ G \in Seq(Ent) /\ G # <<>>
  BY <1>10, EntSeq DEF Behind2
<1>12. v = With(t, n, G)
  OBVIOUS
<1> HIDE DEF G
<1>13. /\ With(t, n, G) \in Trees
       /\ With(t, n, G)[n].depth = t[n].depth /\ With(t, n, G)[n].entries = G
       /\ \A m \in Node : m # n => With(t, n, G)[m] = t[m]
       /\ \A m \in Node : With(t, n, G)[m].depth = t[m].depth
  BY <1>1, <1>11, WithIs
<1>14. v[n].entries = G /\ Relinked(t, v, n, G) /\ \A m \in Node : m # n => v[m] = t[m]
  BY <1>12, <1>13 DEF Relinked
<1>15. Behind2(t[n].entries, i, Index(key, x), v[n].entries) /\ Relinked(t, v, n, v[n].entries)
  BY <1>10, <1>14
<1>16. Parted(Owned(v), f, g, W, {})
  <2>1. Owned(v) = Owned(t) \cup {x}
    BY <1>1, <1>7 DEF Joins, Owned
  <2> HIDE DEF W
  <2> QED
    BY <1>1, <2>1 DEF Parted
<1>18. Nodes(v, {})
  <2> SUFFICES ASSUME NEW b \in Block, v[b] # NoNode PROVE Linked(v, b)
    BY DEF Nodes
  <2> QED
    BY <1>5, <1>14, RootNode, <1>1, <1>7 DEF NoNode, Nodes, Joins
<1>19. \A b \in Block : Linked(v, b) => v[b].entries # <<>> \/ (b = F[1] /\ t[F[1]].entries = <<>>)
  <2> SUFFICES ASSUME NEW b \in Block, Linked(v, b)
               PROVE  v[b].entries # <<>> \/ (b = F[1] /\ t[F[1]].entries = <<>>)
    OBVIOUS
  <2>1. CASE b = n
    BY <1>11, <1>14, <2>1
  <2>2. CASE b # n
    <3>1. v[b] = t[b]
      BY <1>14, <2>2, RootNode
    <3>2. CASE b = x
      <4>1. CASE Len(F) = 1
        BY <1>1, <3>1, <3>2, <4>1
      <4>2. CASE Len(F) # 1
        <5>1. Len(F) > 1
          <6>1. Len(F) \in Nat /\ 1 \in 1 .. Len(F)
            BY <1>1
          <6>2. \A z \in Nat : 1 \in 1 .. z /\ z # 1 => z > 1
            OBVIOUS
          <6> QED
            BY <4>2, <6>1, <6>2
        <5> QED
          BY <1>1, <3>1, <3>2, <5>1 DEF Made2
      <4> QED
        BY <4>1, <4>2
    <3>3. CASE b # x
      <4> QED
        BY <1>7, <3>3, <1>1, <3>1 DEF Joins, Filled
    <3> QED
      BY <3>2, <3>3
  <2> QED
    BY <2>1, <2>2
<1>20. Filled(v, {F[1]}) /\ (t[F[1]].entries # <<>> => Filled(v, {}))
  BY <1>19 DEF Filled
<1>21. RootOK(v)
  BY <1>1, <1>11, <1>14, RootNode DEF RootOK
<1> QED
  BY <1>7, <1>8, <1>15, <1>16, <1>18, <1>20, <1>21

LEMMA LinkSplitKeeps ==
  ASSUME NEW hi, Whole(tree, hi, call, free, foreign), LinkSplit
  PROVE  \E h : Whole(tree', h, call', free', foreign')
<1> DEFINE p == call.path
           F == call.fresh
           key == call.key
           new == call.new
           k == Level(call)
           n == p[k].n
           i == p[k].i
           x == F[Len(F)]
           E == tree[n].entries
           e == Index(key, x)
           G == InsertAt(E, i + 1, e)
           v == With(tree, n, G)
           W == {b \in Block : Holds(new, b)}
           q == Right(tree, p, k, F)
           u == End(new)
<1>1. call.at = "split" /\ k = call.top - 1
  BY DEF LinkSplit, Level
<1>2. /\ InsertOK(tree, call) /\ InsertCall(call)
      /\ new \in Ent /\ new.len # 0 /\ call.combine \in BOOLEAN
      /\ new.lblk \in Nat /\ u \in Nat /\ new.lblk < u
      /\ Between(tree, p, new.lblk, u) /\ Clear(tree, p, new.lblk, u)
      /\ LeftOK(tree, hi, call) /\ Shape(tree)
  BY <1>1, SplitFacts
<1>3. Linking(tree, hi, free, foreign, call, p, F, key, new, k, n, i, x)
  BY <1>1, LinkingIs
<1>4. /\ IsPath(tree, p) /\ tree \in Trees
      /\ k = Len(p) - Len(F) /\ k \in 1 .. Len(p) /\ k # Len(p) /\ n \in Node
      /\ key \in Nat /\ F \in Seq(Block) /\ F # <<>>
      /\ Made2(tree, F, key) /\ SideOK(tree, call)
      /\ x \in Block /\ x = Last(F)
  BY <1>3 DEF Linking
<1>5. /\ Tree(v, hi) /\ Stands(tree, p, k, n, i)
      /\ Behind2(tree[n].entries, i, Index(key, x), v[n].entries)
      /\ Relinked(tree, v, n, v[n].entries)
      /\ Parted(Owned(v), free, foreign, W, {})
      /\ Nodes(v, {}) /\ Filled(v, {F[1]}) /\ RootOK(v)
      /\ tree[F[1]].entries # <<>> => Filled(v, {})
  <2>1. v = With(tree, n, InsertAt(tree[n].entries, i + 1, Index(key, x)))
    OBVIOUS
  <2> HIDE DEF v, p, F, key, new, k, n, i, x
  <2> QED
    BY <1>3, <2>1, LinkedUp
<1>6. i > 0 /\ E[i].lblk < key
  BY <1>4 , <1>2, Zenon DEF LeftOK, On, At
<1>7. E \in Seq(Ent) /\ e \in Ent /\ e.lblk = key /\ e.pblk = x
  <2>1. E \in Seq(Ent)
    BY <1>2, <1>4, ShapeIs
  <2> QED
    BY <1>4, <2>1, RootNode DEF Index, Extent, Ent
<1>8. Place(E, i, e) = G
  <2>1. i # 0 /\ e.lblk > E[i].lblk
    <3>1. E[i].lblk \in Nat
      <4>1. i \in DOMAIN E
        BY <1>5, Zenon DEF Stands
      <4> QED
        BY <1>2, <1>4, <4>1, EntryIs, Zenon
    <3> HIDE DEF E, i, e
    <3> QED
      BY <1>4, <1>6, <1>7, <3>1
  <2> HIDE DEF E, i, e
  <2> QED
    BY <2>1 DEF Place
<1>9. /\ tree' = [tree EXCEPT ![n].entries = Place(E, i, e)]
      /\ free' = free /\ foreign' = foreign
      /\ call' = Insert(IF new.lblk >= key THEN q ELSE p, new, call.combine, call.then, call.for)
  <2>1. Len(p) - Len(F) = call.top - 1
    BY <1>1 DEF Level
  <2>2. call.top - 1 = k
    BY <1>1
  <2>3. /\ tree' = [tree EXCEPT ![p[call.top - 1].n].entries =
                      Place(tree[p[call.top - 1].n].entries, p[call.top - 1].i, Index(key, Last(F)))]
        /\ free' = free /\ foreign' = foreign
        /\ call' = Insert(IF new.lblk >= key THEN Right(tree, p, call.top - 1, F) ELSE p,
                          new, call.combine, call.then, call.for)
    BY DEF LinkSplit, InsertIndex, Right
  <2> QED
    BY <1>4, <2>2, <2>3, Zenon
<1>10. tree' = v
  <2>1. G \in Seq(Ent)
    <3>1. i \in DOMAIN E
      BY <1>5 DEF Stands
    <3> HIDE DEF E, i, e
    <3>2. Behind2(E, i, e, InsertAt(E, i + 1, e))
      BY <1>7, <3>1, BehindIs
    <3> QED
      BY <3>2 DEF Behind2
  <2>2. tree' = [tree EXCEPT ![n].entries = G]
    BY <1>8, <1>9
  <2> HIDE DEF G, n, v
  <2>3. /\ [tree EXCEPT ![n].entries = G] = With(tree, n, G) /\ With(tree, n, G) \in Trees
        /\ With(tree, n, G)[n].depth = tree[n].depth /\ With(tree, n, G)[n].entries = G
        /\ \A m \in Node : m # n => With(tree, n, G)[m] = tree[m]
        /\ \A m \in Node : With(tree, n, G)[m].depth = tree[m].depth
    BY <1>4, <2>1, WithIs
  <2> QED
    BY <2>2, <2>3 DEF v
<1> DEFINE path2 == IF new.lblk >= key THEN q ELSE p
           g == v[n].entries
<1>11. /\ IsPath(v, path2) /\ Between(v, path2, new.lblk, u) /\ Clear(v, path2, new.lblk, u)
       /\ Filled(v, {Tip(path2).n})
  <2>1. k # Len(p) /\ Behind2(tree[n].entries, i, e, g) /\ Relinked(tree, v, n, g)
    BY <1>4, <1>5, Zenon
  <2>2. CASE ~(new.lblk >= key)
    <3>1. new.lblk < key
      BY <1>2, <1>4, <2>2
    <3>2. u <= key /\ tree[F[1]].entries # <<>>
      BY <1>4, <3>1 DEF SideOK
    <3>3. u <= e.lblk
      BY <1>7, <3>2
    <3>4. path2 = p
      BY <2>2
    <3>5. Filled(v, {})
      BY <1>5, <3>2, Zenon
    <3> DEFINE l == new.lblk
    <3>6. Between(tree, p, l, u) /\ Clear(tree, p, l, u)
      BY <1>2
    <3> HIDE DEF v, p, F, key, new, k, n, i, x, e, g, path2, u, l
    <3>7. IsPath(v, p) /\ Between(v, p, l, u) /\ Clear(v, p, l, u)
      BY <1>2, <1>4, <1>5, <2>1, <3>3, <3>6, LeftPath
    <3>8. Filled(v, {Tip(p).n})
      BY <3>5 DEF Filled
    <3> QED
      BY <3>4, <3>7, <3>8 DEF l
  <2>3. CASE new.lblk >= key
    <3>1. /\ new.lblk = key /\ tree[F[1]].entries = <<>>
          /\ \A j \in 2 .. Len(F) : \A m \in DOMAIN tree[F[j]].entries :
               m > 1 => u <= tree[F[j]].entries[m].lblk
      <4>1. ~(new.lblk < key)
        BY <1>2, <1>4, <2>3
      <4> QED
        BY <1>4, <4>1 DEF SideOK
    <3>2. Bare(tree, F, u)
      BY <3>1 DEF Bare
    <3>3. path2 = q
      BY <2>3
    <3>4. Between(tree, p, key, u)
      BY <1>2, <3>1
    <3>5. Len(p) \in Nat /\ p \in [1 .. Len(p) -> [n : Node, i : Nat]] /\ Len(p) \in 1 .. Len(p)
      <4> HIDE DEF p
      <4> QED
        BY <1>2, <1>4, PathIs
    <3>6. e.lblk = key /\ e.pblk = F[Len(F)]
      BY <1>7
    <3> HIDE DEF p, F, key, new, k, n, i, e, g, path2, u, x
    <3>7. Rightly(tree, p, k, F, Right(tree, p, k, F))
      BY <1>4, <3>5, RightIs
    <3> HIDE DEF v, q
    <3>8. Rightly(tree, p, k, F, q)
      BY <3>7 DEF q
    <3>9. IsPath(v, q) /\ Between(v, q, key, u) /\ Clear(v, q, key, u)
      BY <1>2, <1>4, <1>5, <2>1, <3>2, <3>4, <3>6, <3>8, RightPath
    <3>10. Tip(q).n = F[1]
      <4> DEFINE L == Len(p)
                 z == L - L + 1
      <4>1. L \in Nat /\ L \in 1 .. L /\ k \in 1 .. L /\ k # L
        BY <1>4, <3>5
      <4> HIDE DEF L
      <4>2. L > k /\ z = 1
        BY <4>1
      <4>3. Len(q) = L /\ q[L].n = F[z]
        BY <3>8, <4>1, <4>2 DEF Rightly, L
      <4> QED
        BY <4>2, <4>3 DEF Tip
    <3> QED
      BY <1>5, <3>1, <3>3, <3>9, <3>10
  <2> QED
    BY <2>2, <2>3
<1> HIDE DEF v, path2, q, g
<1>12. call' = Insert(path2, new, call.combine, call.then, call.for)
  BY <1>9 DEF path2
<1>13. /\ InsertCall(call') /\ call'.at = "insert" /\ call'.path = path2 /\ call'.new = new
       /\ call'.combine = call.combine /\ call'.fresh = <<>>
  <2> HIDE DEF new
  <2> QED
    BY <1>12, InsertRec
<1>14. InsertOK(v, call')
  BY <1>2, <1>11, <1>13 DEF InsertOK
<1>15. /\ Parted(Owned(v), free, foreign, {b \in Block : Holds(call'.new, b)}, {})
       /\ Filled(v, {Tip(call'.path).n})
  BY <1>5, <1>11, <1>13
<1> DEFINE c == call'
<1>16. /\ c.at = "insert" /\ Tree(v, hi) /\ Parted(Owned(v), free, foreign, {b \in Block : Holds(c.new, b)}, {})
       /\ Nodes(v, {}) /\ Filled(v, {Tip(c.path).n}) /\ RootOK(v) /\ InsertOK(v, c) /\ c.fresh = <<>>
  BY <1>5, <1>13, <1>14, <1>15
<1> HIDE DEF c
<1>17. Whole(v, hi, c, free, foreign)
  BY <1>16, InsertWhole
<1>18. Whole(tree', hi, call', free', foreign')
  BY <1>9, <1>10, <1>17 DEF c
<1> QED
  BY <1>18

-----------------------------------------------------------------------------
(* No block can be had.                                                    *)

LEMMA GivenBackParts ==
  ASSUME NEW o, NEW f, NEW g, NEW w, Parted(o, f, g, w, {})
  PROVE  Parted(o, f \cup w, g, {}, {})
BY DEF Parted

LEMMA GrowFailsKeeps ==
  ASSUME NEW hi, Whole(tree, hi, call, free, foreign), GrowFails, damage' = {}
  PROVE  \E h : Whole(tree', h, call', free', foreign')
<1> DEFINE p == call.path
           n == Tip(p).n
           W == {b \in Block : Holds(call.new, b)}
<1>1. call.at = "insert" /\ call' = Idle /\ foreign' = foreign
  BY DEF GrowFails, Return
<1>2. /\ Tree(tree, hi) /\ Shape(tree) /\ IsPath(tree, p) /\ call.combine \in BOOLEAN
      /\ Parted(Owned(tree), free, foreign, W, {})
      /\ Nodes(tree, {}) /\ Filled(tree, {n}) /\ RootOK(tree)
  BY <1>1, InsertFacts
<1>4. tree' = tree /\ free' = free \cup W
  BY DEF GrowFails, Harm, Undone, NewBlocks
<1>5. Len(p) \in 1 .. Len(p) /\ n \in Node /\ DOMAIN p = 1 .. Len(p)
  <2> HIDE DEF p
  <2> QED
    BY <1>2, PathIs DEF Tip
<1>7. Filled(tree, {})
  BY <1>5, TreeAssumption, <1>2 DEF GrowFails, Full, Tip, Space, Filled
<1>8. Parted(Owned(tree), free \cup W, foreign, {}, {})
  <2> HIDE DEF W
  <2> QED
    BY <1>2, GivenBackParts
<1> DEFINE c == Idle
           f == free \cup W
<1>9. c.at \in {"idle", "again"}
  BY DEF Idle
<1>10. Parted(Owned(tree), f, foreign, {}, {})
  BY <1>8
<1> HIDE DEF c, f
<1> QED
  BY <1>2, <1>7, <1>9, <1>10, RestWhole, <1>1, <1>4 DEF c, f

LEMMA FreshDropped ==
  ASSUME NEW t, NEW hi, Tree(t, hi), NEW F, NEW key, Made2(t, F, key), Moved(t, F), NEW T, NEW Y,
         F = <<>> => T = {}, F # <<>> => T = {F[Len(F)]}, NEW f, NEW g, NEW w,
         Parted(Owned(t), f, g, w, T), Nodes(t, T), Filled(t, Y), Y \subseteq ToSet(F), RootOK(t)
  PROVE  /\ Tree(Dropped(t, ToSet(F)), hi)
         /\ Parted(Owned(Dropped(t, ToSet(F))), f \cup w \cup ToSet(F), g, {}, {})
         /\ Nodes(Dropped(t, ToSet(F)), {}) /\ Filled(Dropped(t, ToSet(F)), {})
         /\ RootOK(Dropped(t, ToSet(F)))
<1> DEFINE X == ToSet(F)
           v == Dropped(t, X)
<1>1. Shape(t) /\ Order(t, hi) /\ Low(t, {}) /\ Apart(t)
  BY DEF Tree
<1>2. /\ F \in Seq(Block) /\ Len(F) \in Nat /\ DOMAIN F = 1 .. Len(F)
      /\ \A j \in 1 .. Len(F) :
           /\ F[j] \in Block /\ F[j] \in Node /\ t[F[j]].depth = j - 1
           /\ j > 1 => j - 1 \in 1 .. Len(F) /\ Index2(t, F[j], 1, F[j - 1])
  BY DEF Made2
<1>3. /\ X \subseteq Block /\ \A j \in 1 .. Len(F) : F[j] \in X
      /\ \A b \in X : \E j \in 1 .. Len(F) : b = F[j]
  BY <1>2 DEF ToSet
<1>4. T \subseteq X /\ T \cap Owned(t) = {}
  <2>1. T \cap Owned(t) = {}
    BY DEF Parted
  <2>2. CASE F = <<>>
    BY <2>1, <2>2
  <2>3. CASE F # <<>>
    <3>1. Len(F) \in 1 .. Len(F)
      BY <1>2, <2>3, EmptySeq
    <3> QED
      BY <1>3, <2>1, <2>3, <3>1
  <2> QED
    BY <2>2, <2>3
<1> HIDE DEF X
<1>5. ASSUME NEW j \in 1 .. Len(F), F[j] \notin T
      PROVE  \E m \in 1 .. Len(F) : m > 1 /\ m - 1 = j
  <2>1. F # <<>>
    <3>1. F = <<>> => Len(F) = 0
      OBVIOUS
    <3> QED
      BY <3>1
  <2>2. j # Len(F)
    BY <1>5, <2>1
  <2> DEFINE m == j + 1
  <2>3. m \in 1 .. Len(F) /\ m > 1 /\ m - 1 = j
    <3>1. \A z \in Nat : \A a \in 1 .. z : a # z => a + 1 \in 1 .. z /\ a + 1 > 1 /\ (a + 1) - 1 = a
      OBVIOUS
    <3> QED
      BY <1>2, <2>2, <3>1
  <2> QED
    BY <2>3
<1>6. \A b \in X : b \in T \/ \E m \in 1 .. Len(F) : Index2(t, F[m], 1, b)
  <2> SUFFICES ASSUME NEW b \in X, b \notin T PROVE \E m \in 1 .. Len(F) : Index2(t, F[m], 1, b)
    OBVIOUS
  <2>1. PICK j \in 1 .. Len(F) : b = F[j]
    BY <1>3
  <2>2. PICK m \in 1 .. Len(F) : m > 1 /\ m - 1 = j
    BY <1>5, <2>1
  <2> QED
    BY <1>2, <2>1, <2>2
<1>7. ASSUME NEW m \in Node, NEW k, NEW b \in X, Index2(t, m, k, b) PROVE m \in X
  <2>1. b \in Owned(t)
    BY <1>1, <1>7, IndexIs
  <2>2. b \notin T
    BY <1>4, <2>1
  <2>3. PICK j \in 1 .. Len(F) : Index2(t, F[j], 1, b)
    BY <1>6, <2>2
  <2> DEFINE one == 1
             z == F[j]
  <2>4. Index2(t, z, one, b) /\ z \in Node
    BY <1>2, <2>3
  <2> HIDE DEF one, z
  <2>5. m = z
    BY <1>1, <1>7, <2>4, IndexOnce
  <2> QED
    BY <1>3, <2>5 DEF z
<1>8. /\ Shape(Dropped(t, X)) /\ Order(Dropped(t, X), hi) /\ Low(Dropped(t, X), {})
      /\ Apart(Dropped(t, X))
      /\ \A n \in Node : \A b \in Block : Has(Dropped(t, X), n, b) <=> n \notin X /\ Has(t, n, b)
      /\ \A b \in Block : Linked(Dropped(t, X), b) <=>
             Linked(t, b) /\ b \notin X /\ \E n \in Node \ X : t[n].depth > 0 /\ Has(t, n, b)
  <2>1. \A m \in Node : \A k : \A b \in X : Index2(t, m, k, b) => m \in X
    BY <1>7
  <2>2. X \in SUBSET Block
    BY <1>3
  <2> QED
    BY <1>1, <2>1, <2>2, Drop
<1>9. \A n \in Node : v[n] = IF n \in X THEN NoNode ELSE t[n]
  BY DEF Dropped
<1> HIDE DEF v
<1>10. Tree(v, hi)
  BY <1>8 DEF Tree, v
<1>11. \A n \in X : \A b \in Block : Has(t, n, b) => b \in X
  <2> SUFFICES ASSUME NEW n \in X, NEW b \in Block, Has(t, n, b) PROVE b \in X
    OBVIOUS
  <2>1. PICK j \in 1 .. Len(F) : n = F[j]
    BY <1>3
  <2>2. j # 1
    BY <2>1, NoneHolds DEF Moved, Has
  <2>3. j > 1
    BY <1>2, <2>2
  <2>4. b = F[j - 1] /\ j - 1 \in 1 .. Len(F)
    BY <1>2, <2>1, <2>3 DEF Moved
  <2> QED
    BY <1>3, <2>4
<1>12. \A b \in Block : b \in Owned(v) <=> b \in Owned(t) /\ b \notin X
  <2>1. \A b \in Block : b \in Owned(v) <=> \E n \in Node : n \notin X /\ Has(t, n, b)
    BY <1>8 DEF Owned, v
  <2>2. ASSUME NEW b \in Block, b \in X, NEW n \in Node, n \notin X, Has(t, n, b) PROVE FALSE
    <3>1. b \in Owned(t)
      BY <2>2 DEF Owned
    <3>2. PICK j \in 1 .. Len(F) : Index2(t, F[j], 1, b)
      BY <1>4, <1>6, <2>2, <3>1
    <3> DEFINE z == F[j]
               one == 1
    <3>3. Index2(t, z, one, b) /\ z \in Node /\ z \in X
      BY <1>2, <1>3, <3>2
    <3> HIDE DEF z, one
    <3>4. Has(t, z, b)
      BY <1>1, <3>3, IndexIs
    <3> QED
      BY <1>1, <2>2, <3>3, <3>4 DEF Apart
  <2> QED
    BY <1>11, <2>1, <2>2 DEF Owned
<1>13. \A b \in X : b \in Owned(t) \/ b \in T
  <2> SUFFICES ASSUME NEW b \in X, b \notin T PROVE b \in Owned(t)
    OBVIOUS
  <2>1. PICK j \in 1 .. Len(F) : Index2(t, F[j], 1, b)
    BY <1>6
  <2> DEFINE z == F[j]
             one == 1
  <2>2. Index2(t, z, one, b) /\ z \in Node
    BY <1>2, <2>1
  <2> HIDE DEF z, one
  <2> QED
    BY <1>1, <2>2, IndexIs
<1>14. Parted(Owned(v), f \cup w \cup X, g, {}, {})
  <2>1. Owned(v) \subseteq Block /\ Owned(t) \subseteq Block
    BY DEF Owned
  <2> QED
    BY <1>3, <1>4, <1>12, <1>13, <2>1 DEF Parted
<1>15. \A b \in Block : b \notin X /\ Linked(t, b) => Linked(v, b)
  <2> SUFFICES ASSUME NEW b \in Block, b \notin X, Linked(t, b) PROVE Linked(v, b)
    OBVIOUS
  <2>1. PICK n \in Node : t[n].depth > 0 /\ Has(t, n, b)
    BY DEF Linked
  <2>2. n \notin X
    BY <1>11, <2>1
  <2> QED
    BY <1>8, <2>1, <2>2 DEF v
<1>16. Nodes(v, {})
  <2> SUFFICES ASSUME NEW b \in Block, v[b] # NoNode PROVE Linked(v, b)
    BY DEF Nodes
  <2>1. b \notin X /\ t[b] # NoNode
    BY <1>9, RootNode
  <2>2. Linked(t, b)
    BY <1>4, <2>1 DEF Nodes
  <2> QED
    BY <1>15, <2>1, <2>2
<1>17. Filled(v, {})
  <2> SUFFICES ASSUME NEW b \in Block, Linked(v, b) PROVE v[b].entries # <<>>
    BY DEF Filled
  <2>1. Linked(t, b) /\ b \notin X
    BY <1>8 DEF v
  <2>2. v[b] = t[b]
    BY <1>9, <2>1, RootNode
  <2>3. b \notin Y
    BY <2>1 DEF X
  <2> QED
    BY <2>1, <2>2, <2>3 DEF Filled
<1>18. RootOK(v)
  <2>1. v[Root] = t[Root]
    BY <1>3, <1>9, RootNode
  <2> QED
    BY <2>1 DEF RootOK
<1> QED
  BY <1>10, <1>14, <1>16, <1>17, <1>18 DEF v, X

LEMMA SplitFailsKeeps ==
  ASSUME NEW hi, Whole(tree, hi, call, free, foreign), SplitFails, damage' = {}
  PROVE  \E h : Whole(tree', h, call', free', foreign')
<1> DEFINE F == call.fresh
           X == ToSet(F)
           v == Dropped(tree, X)
           W == {b \in Block : Holds(call.new, b)}
           T == TopOf(call)
           Y == BareOf(call)
           key == call.key
<1>1. call.at = "split" /\ call' = Idle /\ foreign' = foreign
  BY DEF SplitFails, Return
<1>2. /\ Tree(tree, hi) /\ Shape(tree) /\ tree \in Trees
      /\ RightOK(tree, hi, call) /\ F \in Seq(Block)
      /\ Parted(Owned(tree), free, foreign, W, T)
      /\ Nodes(tree, T) /\ Filled(tree, Y) /\ RootOK(tree)
  BY <1>1, SplitFacts
<1>3. Made2(tree, F, key)
  BY <1>2, FreshIs
<1>4. call.combine /\ ~\E b \in X : Len(tree[b].entries) > Made(b)
  BY DEF SplitFails, Harm
<1>5. tree' = v /\ free' = free \cup W \cup X
  BY <1>4 DEF SplitFails, Undone, NewBlocks, Dropped
<1>6. /\ Len(F) \in Nat /\ DOMAIN F = 1 .. Len(F)
      /\ \A j \in 1 .. Len(F) :
           /\ F[j] \in Block /\ F[j] \in Node /\ tree[F[j]].depth = j - 1
           /\ j > 1 => /\ tree[F[j]].entries # <<>> /\ tree[F[j]].entries[1] = Index(key, F[j - 1])
  BY <1>3 DEF Made2
<1>7. \A j \in 1 .. Len(F) : F[j] \in X
  BY <1>6 DEF ToSet
<1> HIDE DEF F, X
<1>8. Moved(tree, F)
  <2> SUFFICES ASSUME NEW j \in 1 .. Len(F)
               PROVE  /\ j = 1 => tree[F[j]].entries = <<>>
                      /\ j > 1 => \A b : Has(tree, F[j], b) <=> b = F[j - 1]
    BY DEF Moved
  <2> DEFINE E == tree[F[j]].entries
  <2>1. E \in Seq(Ent) /\ Len(E) \in Nat /\ DOMAIN E = 1 .. Len(E) /\ (E = <<>> <=> Len(E) = 0)
    <3>1. E \in Seq(Ent)
      BY <1>2, <1>6, ShapeIs
    <3> HIDE DEF E
    <3> QED
      BY <3>1, EntSeq
  <2>2. ~(Len(E) > Made(F[j]))
    BY <1>4, <1>7
  <2>3. tree[F[j]].depth = j - 1 /\ j \in Nat
    BY <1>6
  <2>4. ASSUME j = 1 PROVE E = <<>>
    <3>1. Made(F[j]) = 0
      BY <2>3, <2>4 DEF Made
    <3> HIDE DEF E
    <3> QED
      BY <2>1, <2>2, <3>1
  <2>5. ASSUME j > 1, NEW b PROVE Has(tree, F[j], b) <=> b = F[j - 1]
    <3>1. Made(F[j]) = 1
      BY <2>3, <2>5 DEF Made
    <3>2. E # <<>> /\ E[1] = Index(key, F[j - 1])
      BY <1>6, <2>5
    <3>3. Has(tree, F[j], b) <=> Hold(E, b)
      BY DEF Has
    <3> HIDE DEF E
    <3> QED
      BY <2>1, <2>2, <3>1, <3>2, <3>3 DEF Hold, Holds, Index, Extent
  <2> QED
    BY <2>4, <2>5
<1>9. /\ F = <<>> => T = {} /\ Y = {}
      /\ F # <<>> => T = {F[Len(F)]} /\ Y = {F[1]}
  BY <1>1 DEF TopOf, BareOf, F
<1>10. Y \subseteq ToSet(F)
  BY <1>2, <1>6, EmptySeq, <1>7, <1>9 DEF F, X
<1>11. (F = <<>> => T = {}) /\ (F # <<>> => T = {F[Len(F)]})
  BY <1>9
<1> HIDE DEF T, Y, W, key
<1>12. /\ Tree(Dropped(tree, ToSet(F)), hi)
       /\ Parted(Owned(Dropped(tree, ToSet(F))), free \cup W \cup ToSet(F), foreign, {}, {})
       /\ Nodes(Dropped(tree, ToSet(F)), {}) /\ Filled(Dropped(tree, ToSet(F)), {})
       /\ RootOK(Dropped(tree, ToSet(F)))
  BY <1>2, <1>3, <1>8, <1>10, <1>11, FreshDropped
<1> DEFINE c == Idle
           f == free \cup W \cup X
<1>13. c.at \in {"idle", "again"}
  BY DEF Idle
<1>14. /\ Tree(v, hi) /\ Parted(Owned(v), f, foreign, {}, {})
       /\ Nodes(v, {}) /\ Filled(v, {}) /\ RootOK(v)
  BY <1>12 DEF X
<1> HIDE DEF v, c, f
<1> QED
  BY <1>13, <1>14, RestWhole, <1>1, <1>5 DEF c, f

-----------------------------------------------------------------------------
(* Removal.                                                                *)

LEMMA Thin ==
  ASSUME NEW t, NEW hi, Tree(t, hi), t \in Trees, NEW n \in Node, NEW G \in Seq(Ent),
         Thins(t[n].entries, G)
  PROVE  Thinned(t, hi, With(t, n, G), n, G)
<1> DEFINE E == t[n].entries
           d == t[n].depth
           u == hi[n]
           v == With(t, n, G)
<1>1. Shape(t) /\ Order(t, hi) /\ Low(t, {}) /\ Apart(t)
  BY DEF Tree
<1>2. d \in Nat /\ E \in Seq(Ent) /\ DOMAIN E \subseteq Nat /\ DOMAIN G \subseteq Nat
  <2>1. d \in Nat /\ E \in Seq(Ent)
    BY <1>1, ShapeIs
  <2> HIDE DEF E
  <2> QED
    BY <2>1, EntSeq
<1>3. hi \in [Node -> Nat] /\ u \in Nat
  BY <1>1 DEF Order
<1>4. PICK s : \A k \in DOMAIN G :
        /\ s[k] \in DOMAIN E /\ G[k] = E[s[k]]
        /\ \A j \in DOMAIN G : j < k => s[j] < s[k]
  BY DEF Thins
<1>5. /\ \A j, k \in DOMAIN E : j < k => End(E[j]) <= E[k].lblk
      /\ \A k \in DOMAIN E : End(E[k]) <= u
      /\ d > 0 => \A k \in DOMAIN E :
                    /\ hi[E[k].pblk] <= u
                    /\ \A m \in DOMAIN E : k < m => hi[E[k].pblk] <= E[m].lblk
  BY <1>1 DEF Order
<1>6. \A k \in DOMAIN E : IF d = 0 THEN E[k].len # 0
         ELSE /\ E[k].len = 0 /\ E[k].pblk \in Block /\ E[k].pblk # n /\ t[E[k].pblk].depth = d - 1
              /\ \A m \in DOMAIN t[E[k].pblk].entries : E[k].lblk <= t[E[k].pblk].entries[m].lblk
  <2> SUFFICES ASSUME NEW k \in DOMAIN E
               PROVE  IF d = 0 THEN E[k].len # 0
                      ELSE /\ E[k].len = 0 /\ E[k].pblk \in Block /\ E[k].pblk # n
                           /\ t[E[k].pblk].depth = d - 1
                           /\ \A m \in DOMAIN t[E[k].pblk].entries :
                                 E[k].lblk <= t[E[k].pblk].entries[m].lblk
    OBVIOUS
  <2>1. CASE d = 0
    BY <1>1, <2>1 DEF Shape
  <2>2. CASE d # 0
    <3>1. E[k].len = 0 /\ E[k].pblk \in Block /\ t[E[k].pblk].depth = d - 1
      BY <1>1, <2>2 DEF Shape
    <3>2. E[k].pblk # n
      <4>1. d # d - 1
        <5> HIDE DEF d
        <5> QED
          BY <1>2
      <4> QED
        BY <3>1, <4>1
    <3>3. \A m \in DOMAIN t[E[k].pblk].entries : E[k].lblk <= t[E[k].pblk].entries[m].lblk
      <4> QED
        BY <1>2, <2>2, <1>1 DEF Low
    <3> QED
      BY <2>2, <3>1, <3>2, <3>3, Zenon
  <2> QED
    BY <2>1, <2>2
<1>7. \A x \in Block : \A j, k \in DOMAIN E : Holds(E[j], x) /\ Holds(E[k], x) => j = k
  BY <1>1 DEF Apart
<1>8. \A m \in Node : \A k : Index2(t, m, k, n) => \A j \in DOMAIN E : t[m].entries[k].lblk <= E[j].lblk
  BY <1>1 DEF Low, Index2
<1>9. \A x : Hold(E, x) <=> Has(t, n, x)
  BY DEF Has
<1> HIDE DEF E, d, u
<1>10. Sorted(G, d, hi, u)
  BY <1>4, <1>5 DEF Sorted
<1>11. Fits(t, n, d, G)
  <2> SUFFICES ASSUME NEW k \in DOMAIN G
               PROVE  IF d = 0 THEN G[k].len # 0
                      ELSE /\ G[k].len = 0 /\ G[k].pblk \in Block /\ G[k].pblk # n
                           /\ t[G[k].pblk].depth = d - 1
                           /\ \A m \in DOMAIN t[G[k].pblk].entries :
                                 G[k].lblk <= t[G[k].pblk].entries[m].lblk
    BY DEF Fits
  <2>1. s[k] \in DOMAIN E /\ G[k] = E[s[k]]
    BY <1>4
  <2> QED
    BY <1>6, <2>1
<1>12. \A x : Hold(G, x) => Hold(E, x)
  BY <1>4 DEF Hold
<1>13. Mine(t, n, G)
  <2>1. ASSUME NEW j \in DOMAIN G, NEW k \in DOMAIN G, NEW b \in Block, Holds(G[j], b), Holds(G[k], b)
        PROVE  j = k
    <3>1. s[j] = s[k] /\ s[j] \in Nat
      BY <1>2, <1>4, <1>7, <2>1
    <3> QED
      BY <1>4, <3>1, <1>2
  <2> QED
    BY <1>9, <1>12, <2>1 DEF Mine
<1> DEFINE X == {}
<1>14. \A m \in Node : \A k : Index2(t, m, k, n) =>
         <<m, k>> \in X \/ \A j \in DOMAIN G : t[m].entries[k].lblk <= G[j].lblk
  BY <1>4, <1>8
<1>15. Sorted(G, t[n].depth, hi, u) /\ Fits(t, n, t[n].depth, G) /\ u <= hi[n] /\ u \in Nat
  BY <1>3, <1>10, <1>11 DEF d, u
<1> HIDE DEF X
<1>16. /\ Shape(With(t, n, G)) /\ Order(With(t, n, G), [hi EXCEPT ![n] = u])
       /\ Low(With(t, n, G), X) /\ Apart(With(t, n, G))
       /\ \A b \in Block : b \in Owned(With(t, n, G)) <=> (b \in Owned(t) /\ ~Has(t, n, b)) \/ Hold(G, b)
       /\ \A b \in Block : Linked(With(t, n, G), b) <=>
               \/ Linked(t, b) /\ ~(t[n].depth > 0 /\ Has(t, n, b))
               \/ t[n].depth > 0 /\ Hold(G, b)
  BY <1>13, <1>14, <1>15, NodeReplaced
<1>18. Tree(v, hi)
  BY <1>3, <1>16 DEF u, Tree, X
<1>20. \A x \in Block : Has(t, n, x) => x \in Owned(t) /\ (t[n].depth > 0 => Linked(t, x))
  BY DEF Owned, Linked
<1>21. \A x \in Block : Hold(G, x) => Has(t, n, x)
  BY <1>9, <1>12
<1>22. \A b \in Block : b \in Owned(v) <=> b \in Owned(t) /\ (Has(t, n, b) => Hold(G, b))
  BY <1>16, <1>20, <1>21
<1>23. \A b \in Block : Linked(v, b) <=>
          Linked(t, b) /\ (t[n].depth > 0 /\ Has(t, n, b) => Hold(G, b))
  BY <1>16, <1>20, <1>21
<1> QED
  BY WithIs, <1>18, <1>22, <1>23 DEF Thinned

LEMMA RemoveThins ==
  ASSUME NEW E \in Seq(Ent), NEW i \in DOMAIN E
  PROVE  /\ RemoveAt(E, i) \in Seq(Ent) /\ Thins(E, RemoveAt(E, i))
         /\ \A k \in DOMAIN RemoveAt(E, i) : k >= i => k + 1 \in DOMAIN E /\ RemoveAt(E, i)[k] = E[k + 1]
         /\ \A b : Hold(E, b) /\ ~Holds(E[i], b) => Hold(RemoveAt(E, i), b)
         /\ \A b : Hold(RemoveAt(E, i), b) => \E k \in DOMAIN E : k # i /\ Holds(E[k], b)
<1> DEFINE R == RemoveAt(E, i)
           z == Len(E)
           s == [k \in DOMAIN R |-> IF k < i THEN k ELSE k + 1]
<1>1. z \in Nat /\ DOMAIN E = 1 .. z /\ i \in 1 .. z
  BY EntSeq
<1>2. /\ R \in Seq(Ent) /\ DOMAIN R = 1 .. (z - 1)
      /\ \A k \in 1 .. (z - 1) : R[k] = IF k < i THEN E[k] ELSE E[k + 1]
  BY <1>1, RemoveIs
<1> HIDE DEF R, z
<1>3. \A k \in DOMAIN R : /\ k < i => s[k] = k
                          /\ ~(k < i) => s[k] = k + 1
  OBVIOUS
<1>4. \A k \in DOMAIN R : k \in Nat /\ (k < i => k \in DOMAIN E) /\ k + 1 \in DOMAIN E
  BY <1>1, <1>2
<1> HIDE DEF s
<1>5. ASSUME NEW k \in DOMAIN R
      PROVE  /\ s[k] \in DOMAIN E /\ R[k] = E[s[k]] /\ s[k] # i
             /\ \A j \in DOMAIN R : j < k => s[j] < s[k]
  <2>3. ASSUME NEW j \in DOMAIN R, j < k PROVE s[j] < s[k]
    BY <1>1, <1>4, <1>3, <2>3
  <2> QED
    BY <1>1, <1>3, <1>4, <1>2, <2>3
<1>6. Thins(E, R)
  BY <1>5 DEF Thins
<1>7. \A k \in DOMAIN R : k >= i => k + 1 \in DOMAIN E /\ R[k] = E[k + 1]
  BY <1>1, <1>4, <1>3, <1>5
<1>8. ASSUME NEW b, NEW m \in DOMAIN E, Holds(E[m], b), ~Holds(E[i], b) PROVE Hold(R, b)
  <2>1. m # i /\ m \in Nat /\ i \in Nat
    BY <1>1, <1>8
  <2>2. CASE m < i
    BY <1>1, <2>1, <2>2, <1>2, <1>8 DEF Hold
  <2>3. CASE ~(m < i)
    <3> DEFINE k == m - 1
    <3>1. k \in 1 .. (z - 1) /\ ~(k < i) /\ k + 1 = m
      BY <1>1, <2>1, <2>3
    <3> HIDE DEF k
    <3> QED
      BY <1>2, <3>1, <1>8 DEF Hold
  <2> QED
    BY <2>2, <2>3
<1> QED
  BY <1>5, <1>8, <1>2, <1>6, <1>7 DEF Hold, R

LEMMA PrefixThins ==
  ASSUME NEW E \in Seq(Ent), NEW i \in DOMAIN E
  PROVE  /\ SubSeq(E, 1, i - 1) \in Seq(Ent) /\ Thins(E, SubSeq(E, 1, i - 1))
         /\ DOMAIN SubSeq(E, 1, i - 1) = 1 .. (i - 1)
         /\ \A k \in 1 .. (i - 1) : k \in DOMAIN E /\ SubSeq(E, 1, i - 1)[k] = E[k]
<1> DEFINE a == i - 1
           R == SubSeq(E, 1, a)
           one == 1
<1>1. Len(E) \in Nat /\ DOMAIN E = 1 .. Len(E) /\ i \in 1 .. Len(E)
  BY EntSeq
<1>2. a \in Nat /\ a <= Len(E) /\ one \in Nat \ {0} /\ one <= a + 1 /\ a - one + 1 = a /\ a \in 0 .. Len(E)
  BY <1>1
<1> HIDE DEF a, one
<1>4. R \in Seq(Ent) /\ DOMAIN R = 1 .. a /\ \A k \in 1 .. a : R[k] = E[k + 1 - 1]
  BY <1>2, SubSeqIs DEF one
<1> HIDE DEF R
<1>5. \A k \in 1 .. a : k \in DOMAIN E /\ R[k] = E[k]
  BY <1>1, <1>2, <1>4
<1> DEFINE s == [k \in DOMAIN R |-> k]
<1>6. \A k \in DOMAIN R : s[k] = k
  OBVIOUS
<1> HIDE DEF s
<1>7. Thins(E, R)
  BY <1>4, <1>5, <1>6 DEF Thins
<1> QED
  BY <1>4, <1>5, <1>7 DEF R, a

\* The key that goes up has been in the node before.
LEMMA Rekey ==
  ASSUME NEW t, NEW hi, Tree(t, hi), NEW v, Tree(v, hi), v \in Trees,
         NEW path, NEW k \in Nat \ {0}, k <= Len(path), Steps(t, path, k), Chain(t, path, k - 1),
         v[Root].depth = t[Root].depth,
         \A j \in 1 .. (k - 1) : v[path[j].n] = t[path[j].n],
         v[path[k].n].depth = t[path[k].n].depth,
         NEW q \in DOMAIN t[path[k].n].entries,
         \A m \in DOMAIN v[path[k].n].entries :
            t[path[k].n].entries[q].lblk <= v[path[k].n].entries[m].lblk
  PROVE  Reset(v, hi, SetFirst(v, path, k, t[path[k].n].entries[q].lblk), path, k)
<1> DEFINE border == t[path[k].n].entries[q].lblk
           w == SetFirst(v, path, k, border)
           X == {}
<1>1. Shape(t) /\ Order(t, hi) /\ Low(t, {}) /\ Apart(t)
  BY DEF Tree
<1>2. Shape(v) /\ Order(v, hi) /\ Low(v, X) /\ Apart(v)
  BY DEF Tree
<1>3. /\ Len(path) \in Nat \ {0}
      /\ \A j \in 1 .. Len(path) : path[j].n \in Node /\ path[j].i \in Nat
      /\ path[1].n = Root
      /\ \A i, j \in 1 .. k : path[i].n = path[j].n => i = j
  BY <1>1, StepFacts
<1>4. k \in 1 .. Len(path) /\ k - 1 \in Nat /\ \A j \in 1 .. (k - 1) : j \in 1 .. k /\ j \in 1 .. Len(path)
  BY <1>3
<1>5. path[k].n \in Node /\ q \in DOMAIN t[path[k].n].entries
  BY <1>3, <1>4
<1>6. border \in Nat /\ border < hi[path[k].n]
  <2>1. border \in Nat /\ End(t[path[k].n].entries[q]) \in Nat /\ border < End(t[path[k].n].entries[q])
    BY <1>1, <1>5, EntryIs
  <2>2. End(t[path[k].n].entries[q]) <= hi[path[k].n] /\ hi[path[k].n] \in Nat
    BY <1>1, <1>5 DEF Order
  <2> HIDE DEF border
  <2> QED
    BY <2>1, <2>2
<1> DEFINE K == k - 1
<1>7. K \in Nat /\ K + 1 = k /\ K + 1 <= Len(path) /\ Steps(t, path, K) /\ Chain(t, path, K)
  BY <1>3, <1>4 DEF Steps
<1> HIDE DEF K
<1>8. \A j \in 1 .. K : path[j].i \in DOMAIN t[path[j].n].entries /\ path[j].n \in Node
  BY <1>1, <1>7, ChainFacts
<1>9. \A j \in 1 .. K : \A m \in DOMAIN t[path[K + 1].n].entries :
           t[path[j].n].entries[path[j].i].lblk <= t[path[K + 1].n].entries[m].lblk
  BY <1>1, <1>7, LowChain
<1>10. \A j \in 1 .. (k - 1) : /\ path[j].n \in Node
                               /\ path[j].i \in DOMAIN v[path[j].n].entries
                               /\ v[path[j].n].entries[path[j].i].lblk <= border
  BY <1>7, <1>8, <1>9 DEF K
<1>11. Steps(v, path, k) /\ Chain(v, path, k - 1)
  <2>1. \A j \in 1 .. k : v[path[j].n].depth = t[path[j].n].depth
    BY <1>4
  <2>2. Steps(v, path, k)
    BY <1>4, <2>1 DEF Steps
  <2>3. Chain(v, path, k - 1)
    BY DEF Chain
  <2> QED
    BY <2>2, <2>3
<1>12. Keyed(v, w, path, k, border)
  <2>1. k \in Nat /\ \A i, j \in 1 .. (k - 1) : path[i].n = path[j].n => i = j
    BY <1>3, <1>4
  <2>2. \A j \in 1 .. (k - 1) : path[j].n \in Node /\ path[j].i \in DOMAIN v[path[j].n].entries
    BY <1>10
  <2> HIDE DEF border
  <2> QED
    BY <1>6, <2>1, <2>2, SetFirstIs
<1>13. \A j \in Above(path, k) : j \in 1 .. (k - 1)
  BY DEF Above
<1>14. \A j \in Above(path, k) : path[j].i > 1 => v[path[j].n].entries[path[j].i].lblk <= border
  BY <1>10, <1>13
<1>15. \A x \in X : \E j \in Above(path, k) : x = <<path[j].n, path[j].i>>
  OBVIOUS
<1>16. \A m \in DOMAIN v[path[k].n].entries : border <= v[path[k].n].entries[m].lblk
  OBVIOUS
<1> HIDE DEF border, w, X
<1>17. /\ Shape(w) /\ Order(w, hi) /\ Low(w, {}) /\ Apart(w)
       /\ \A n \in Node : \A b \in Block : Has(w, n, b) <=> Has(v, n, b)
       /\ Owned(w) = Owned(v)
       /\ \A b \in Block : Linked(w, b) <=> Linked(v, b)
  <2>1. Border(v, hi, X, path, k, border)
    BY <1>6, <1>11, <1>12, <1>14, <1>15, <1>16 DEF Border
  <2> QED
    BY <1>2, <1>6, <1>11, <1>12, <2>1, KeyedKeeps
<1>18. Tree(w, hi)
  BY <1>17 DEF Tree
<1>19. /\ w \in Trees
       /\ \A n \in Node :
         /\ w[n].depth = v[n].depth
         /\ Len(w[n].entries) = Len(v[n].entries)
         /\ (\A j \in Above(path, k) : path[j].n # n) => w[n] = v[n]
         /\ \A q1 \in DOMAIN v[n].entries :
              /\ w[n].entries[q1].pblk = v[n].entries[q1].pblk
              /\ w[n].entries[q1].lblk = IF OnAbove(path, k, n, q1) THEN border
                                        ELSE v[n].entries[q1].lblk
  BY <1>12 DEF Keyed
<1>20. \A n \in Node : /\ DOMAIN w[n].entries = DOMAIN v[n].entries
                       /\ w[n].entries = <<>> <=> v[n].entries = <<>>
  <2> TAKE n \in Node
  <2>1. w[n].entries \in Seq(Ent) /\ v[n].entries \in Seq(Ent)
    BY <1>2, <1>17, ShapeIs
  <2> QED
    BY <1>19, <2>1, EntSeq
<1>21. \A m \in Node : w[m] = v[m] \/ \E j \in 1 .. (k - 1) : path[j].n = m
  BY <1>13, <1>19
<1>22. w[path[k].n] = v[path[k].n]
  <2>1. \A j \in 1 .. (k - 1) : path[j].n # path[k].n
    <3> SUFFICES ASSUME NEW j \in 1 .. (k - 1), path[j].n = path[k].n PROVE FALSE
      OBVIOUS
    <3>1. j \in 1 .. k /\ k \in 1 .. k /\ j # k
      BY <1>4
    <3> QED
      BY <1>3, <3>1
  <2> QED
    BY <1>5, <1>21, <2>1
<1>23. Kept(v, w, path, k)
  <2>1. \A j \in 1 .. k : w[path[j].n].depth = v[path[j].n].depth
    <3> TAKE j \in 1 .. k
    <3>1. path[j].n \in Node
      BY <1>3, <1>4
    <3> QED
      BY <1>19, <3>1
  <2>2. w[Root].depth = v[Root].depth
    BY <1>19, RootNode
  <2>3. ASSUME NEW j \in 1 .. (k - 1), NEW r \in DOMAIN v[path[j].n].entries
        PROVE  /\ w[path[j].n].entries[r].pblk = v[path[j].n].entries[r].pblk
               /\ r # path[j].i => w[path[j].n].entries[r].lblk = v[path[j].n].entries[r].lblk
    <3>1. path[j].n \in Node /\ j \in 1 .. k
      BY <1>4, <1>10
    <3>2. OnAbove(path, k, path[j].n, r) => r = path[j].i
      BY <1>3, <1>4, <1>13, <3>1 DEF OnAbove
    <3> QED
      BY <1>19, <3>1, <3>2
  <2>4. \A j \in 1 .. (k - 1) : DOMAIN w[path[j].n].entries = DOMAIN v[path[j].n].entries
    BY <1>10, <1>20
  <2> QED
    BY <2>1, <2>2, <2>3, <2>4 DEF Kept
<1>24. Reset(v, hi, w, path, k)
  <2>1. \A m \in Node : w[m].depth = v[m].depth
    BY <1>19
  <2> QED
    BY <1>17, <1>18, <1>19, <1>20, <1>21, <1>22, <1>23, <2>1 DEF Reset
<1> QED
  BY <1>24 DEF w, border

\* No key has to follow.
LEMMA NoReset ==
  ASSUME NEW v, NEW hi, Tree(v, hi), v \in Trees, NEW path, NEW k
  PROVE  Reset(v, hi, v, path, k)
BY DEF Reset, Kept

\* An index of an empty node goes with the node.
LEMMA IndexGone ==
  ASSUME NEW t, NEW hi, Tree(t, hi), t \in Trees, NEW n \in Node, NEW i, NEW b \in Node,
         Index2(t, n, i, b), t[b].entries = <<>>
  PROVE  /\ Tree(Without(t, n, i, b), hi) /\ Without(t, n, i, b) \in Trees
         /\ Without(t, n, i, b)[b] = NoNode
         /\ \A x \in Block : x \in Owned(Without(t, n, i, b)) <=> x \in Owned(t) /\ x # b
         /\ \A x \in Block : Linked(Without(t, n, i, b), x) <=> Linked(t, x) /\ x # b
         /\ \A m \in Node : m # b /\ m # n => Without(t, n, i, b)[m] = t[m]
         /\ Without(t, n, i, b)[n].depth = t[n].depth
         /\ Without(t, n, i, b)[n].entries = RemoveAt(t[n].entries, i)
<1> DEFINE E == t[n].entries
           G == RemoveAt(E, i)
           w == With(t, n, G)
           F == {b}
           v == Dropped(w, F)
<1>1. Shape(t) /\ Order(t, hi) /\ Low(t, {}) /\ Apart(t)
  BY DEF Tree
<1>2. /\ b \in Block /\ b # n /\ t[n].entries[i].len = 0 /\ Has(t, n, b) /\ Linked(t, b)
      /\ b \in Owned(t)
  BY <1>1, IndexIs
<1>3. i \in DOMAIN E /\ t[n].depth > 0 /\ t[n].entries[i].pblk = b
  BY DEF Index2
<1>4. E \in Seq(Ent)
  BY <1>1, ShapeIs
<1>5. \A x : Holds(E[i], x) <=> x = b
  BY <1>2, <1>3 DEF Holds
<1>6. \A j, k \in DOMAIN E : Holds(E[j], b) /\ Holds(E[k], b) => j = k
  BY <1>1, <1>2 DEF Apart
<1>7. \A x : Hold(E, x) <=> Has(t, n, x)
  BY DEF Has
<1> HIDE DEF E
<1>8. /\ G \in Seq(Ent) /\ Thins(E, G)
      /\ \A x : Hold(E, x) /\ ~Holds(E[i], x) => Hold(G, x)
      /\ \A x : Hold(G, x) => \E k \in DOMAIN E : k # i /\ Holds(E[k], x)
  BY <1>3, <1>4, RemoveThins
<1> HIDE DEF G
<1>9. Thinned(t, hi, w, n, G)
  BY <1>8, Thin DEF E
<1> HIDE DEF w
<1>10. /\ Tree(w, hi) /\ w \in Trees /\ w[n].entries = G
       /\ \A m \in Node : w[m].depth = t[m].depth
       /\ \A m \in Node : m # n => w[m] = t[m]
       /\ \A x \in Block : x \in Owned(w) <=> x \in Owned(t) /\ (Has(t, n, x) => Hold(G, x))
       /\ \A x \in Block : Linked(w, x) <=>
             Linked(t, x) /\ (t[n].depth > 0 /\ Has(t, n, x) => Hold(G, x))
  BY <1>9 DEF Thinned
<1>11. ~Hold(G, b)
  BY <1>3, <1>5, <1>6, <1>8
<1>12. \A x : x # b => (Has(t, n, x) => Hold(G, x))
  BY <1>5, <1>7, <1>8
<1>13. \A x \in Block : x \in Owned(w) <=> x \in Owned(t) /\ x # b
  BY <1>2, <1>10, <1>11, <1>12
<1>14. \A x \in Block : Linked(w, x) <=> Linked(t, x) /\ x # b
  BY <1>2, <1>3, <1>10, <1>11, <1>12
<1>15. Shape(w) /\ Order(w, hi) /\ Low(w, {}) /\ Apart(w)
  BY <1>10 DEF Tree
<1>16. \A m \in Node : \A k : \A x \in F : Index2(w, m, k, x) => m \in F
  BY <1>15, IndexIs, <1>2, <1>14
<1>17. F \in SUBSET Block
  BY <1>2
<1>18. F = {b}
  OBVIOUS
<1> HIDE DEF F
<1>19. /\ Shape(v) /\ Order(v, hi) /\ Low(v, {}) /\ Apart(v)
       /\ \A m \in Node : \A x \in Block : Has(v, m, x) <=> m \notin F /\ Has(w, m, x)
       /\ \A x \in Block : Linked(v, x) <=>
                Linked(w, x) /\ x \notin F /\ \E m \in Node \ F : w[m].depth > 0 /\ Has(w, m, x)
  BY <1>15, <1>16, <1>17, Drop
<1>20. /\ \A m \in Node : m # b => v[m] = w[m]
       /\ v[b] = NoNode
  BY <1>18 DEF Dropped
<1>21. \A x \in Block : ~Has(w, b, x)
  BY <1>2, <1>10, NoneHolds DEF Has
<1>22. v \in Trees
  BY <1>10 DEF NoNode, Trees, Dropped
<1> HIDE DEF v
<1>23. Owned(v) = Owned(w)
  BY <1>18, <1>19, <1>21 DEF Owned
<1>24. \A x \in Block : Linked(v, x) <=> Linked(w, x)
  <2> SUFFICES ASSUME NEW x \in Block, Linked(w, x)
               PROVE  x \notin F /\ \E m \in Node \ F : w[m].depth > 0 /\ Has(w, m, x)
    BY <1>19
  <2>1. PICK m \in Node : w[m].depth > 0 /\ Has(w, m, x)
    BY DEF Linked
  <2> QED
    BY <1>14, <1>18, <1>21, <2>1
<1>26. /\ \A m \in Node : m # b /\ m # n => v[m] = t[m]
       /\ v[n].depth = t[n].depth /\ v[n].entries = G
  BY <1>2, <1>10, <1>20
<1>27. /\ \A x \in Block : x \in Owned(v) <=> x \in Owned(t) /\ x # b
       /\ \A x \in Block : Linked(v, x) <=> Linked(t, x) /\ x # b
  BY <1>13, <1>14, <1>23, <1>24
<1>28. v = Without(t, n, i, b) /\ G = RemoveAt(t[n].entries, i)
  BY DEF v, w, F, G, E, Without
<1> QED
  BY <1>19, <1>20, <1>22, <1>26, <1>27, <1>28 DEF Tree

\* ext4_ext_remove_idx.
LEMMA RemoveIdxIs ==
  ASSUME NEW t, NEW hi, Tree(t, hi), t \in Trees, NEW path, NEW k \in Nat \ {0},
         k + 1 <= Len(path), Steps(t, path, k), Chain(t, path, k),
         t[path[k + 1].n].entries = <<>>
  PROVE  Unlinked(t, hi, RemoveIdx(t, path, k), path, k, path[k + 1].n)
<1> DEFINE n == path[k].n
           i == path[k].i
           b == path[k + 1].n
           E == t[n].entries
           G == RemoveAt(E, i)
           w == Without(t, n, i, b)
           border == IF G = <<>> THEN E[i].lblk ELSE G[1].lblk
           v == RemoveIdx(t, path, k)
<1>1. Shape(t) /\ Order(t, hi) /\ Low(t, {}) /\ Apart(t)
  BY DEF Tree
<1>2. /\ Steps(t, path, k + 1)
      /\ \A j \in 1 .. k : /\ Index2(t, path[j].n, path[j].i, path[j + 1].n)
                           /\ path[j].i \in DOMAIN t[path[j].n].entries
                           /\ path[j].n \in Node
                           /\ path[j + 1].n \in Block /\ path[j + 1].n \in Node
                           /\ t[path[j].n].depth > 0
  BY <1>1, ChainFacts
<1>3. /\ Index2(t, n, i, b) /\ i \in DOMAIN E /\ n \in Node /\ b \in Block /\ b \in Node
      /\ E[i].pblk = b
  BY <1>2 DEF Index2
<1>4. Len(path) \in Nat /\ k + 1 \in Nat
  BY <1>1, <1>2, StepFacts DEF Steps
<1>5. \A x, y \in 1 .. (k + 1) : path[x].n = path[y].n => x = y
  BY <1>1, <1>2, <1>4, StepFacts
<1>6. \A j \in 1 .. (k - 1) : /\ j \in 1 .. k /\ path[j].n \in Node
                              /\ path[j].n # n /\ path[j].n # b
  <2> TAKE j \in 1 .. (k - 1)
  <2>1. j \in 1 .. k /\ j \in 1 .. (k + 1) /\ k \in 1 .. (k + 1) /\ k + 1 \in 1 .. (k + 1) /\ j # k /\ j # k + 1
    OBVIOUS
  <2> QED
    BY <1>2, <1>5, <2>1
<1>7. path[1].n = Root /\ b # Root /\ n # b
  BY <1>1, <1>3, IndexIs, RootNode DEF Steps
<1>8. /\ Tree(w, hi) /\ w \in Trees /\ w[b] = NoNode
      /\ \A x \in Block : x \in Owned(w) <=> x \in Owned(t) /\ x # b
      /\ \A x \in Block : Linked(w, x) <=> Linked(t, x) /\ x # b
      /\ \A m \in Node : m # b /\ m # n => w[m] = t[m]
      /\ w[n].depth = t[n].depth /\ w[n].entries = G
  <2>1. Index2(t, n, i, b) /\ t[b].entries = <<>>
    BY <1>3
  <2> HIDE DEF n, i, b
  <2> QED
    BY <1>3, <2>1, IndexGone
<1>9. /\ G \in Seq(Ent)
      /\ \A q \in DOMAIN G : q >= i => q + 1 \in DOMAIN E /\ G[q] = E[q + 1]
  <2>1. E \in Seq(Ent)
    BY <1>1, <1>3, ShapeIs
  <2> HIDE DEF E
  <2> QED
    BY <1>3, <2>1, RemoveThins
<1>10. v = IF i # 1 THEN w ELSE SetFirst(w, path, k, border)
  <2>1. [t EXCEPT ![n].entries = G, ![E[i].pblk] = NoNode] = w
    <3>1. \A x : x \in {b} <=> x = b
      OBVIOUS
    <3>2. t[n] = [depth |-> t[n].depth, entries |-> t[n].entries]
      BY <1>3 DEF Trees
    <3>3. DOMAIN t = Node
      BY DEF Trees
    <3> HIDE DEF G, n, i
    <3>4. [t[n] EXCEPT !.entries = G] = [depth |-> t[n].depth, entries |-> G]
      BY <3>2
    <3>5. [t EXCEPT ![n].entries = G, ![E[i].pblk] = NoNode] = Dropped(With(t, n, G), {b})
      BY <1>3, <1>7, <3>3, <3>4 DEF Dropped, With, Replace
    <3> QED
      BY <3>5 DEF Without, G
  <2> QED
    BY <2>1 DEF RemoveIdx
<1> HIDE DEF v, w, G
<1>11. \E q \in DOMAIN E : /\ border = E[q].lblk
                           /\ i = 1 => \A m \in DOMAIN G : E[q].lblk <= G[m].lblk
  <2>1. CASE G = <<>>
    <3>1. DOMAIN G = {}
      BY <1>9, <2>1, EntSeq
    <3> QED
      BY <1>3, <2>1, <3>1
  <2>2. CASE G # <<>>
    <3>1. 1 \in DOMAIN G /\ \A m \in DOMAIN G : m \in Nat /\ m >= 1
      <4>1. DOMAIN G = 1 .. Len(G) /\ Len(G) \in Nat /\ Len(G) # 0
        BY <1>9, <2>2, EntSeq
      <4> QED
        BY <4>1
    <3>2. CASE i = 1
      <4>1. 2 \in DOMAIN E /\ G[1] = E[2]
        BY <1>9, <3>1, <3>2
      <4>2. \A m \in DOMAIN G : m + 1 \in DOMAIN E /\ G[m] = E[m + 1]
        BY <1>9, <3>1, <3>2
      <4>3. ASSUME NEW m \in DOMAIN G PROVE E[2].lblk <= G[m].lblk
        <5>1. CASE m = 1
          <6>1. E[2].lblk \in Nat
            BY <1>1, <1>3, <4>1, EntryIs
          <6> QED
            BY <4>1, <5>1, <6>1
        <5>2. CASE m # 1
          <6>1. 2 < m + 1
            BY <3>1, <5>2
          <6>2. End(E[2]) <= E[m + 1].lblk
            BY <1>1, <1>3, <4>1, <4>2, <6>1 DEF Order
          <6>3. E[2].lblk < End(E[2]) /\ E[2].lblk \in Nat /\ End(E[2]) \in Nat /\ E[m + 1].lblk \in Nat
            BY <1>1, <1>3, <4>1, <4>2, EntryIs
          <6> HIDE DEF E
          <6> QED
            BY <4>2, <6>2, <6>3
        <5> QED
          BY <5>1, <5>2
      <4> QED
        BY <2>2, <4>1, <4>3
    <3>3. CASE i # 1
      <4>1. PICK s : \A m \in DOMAIN G : s[m] \in DOMAIN E /\ G[m] = E[s[m]]
        <5>1. E \in Seq(Ent)
          BY <1>1, <1>3, ShapeIs
        <5>2. Thins(E, RemoveAt(E, i))
          <6> HIDE DEF E
          <6> QED
            BY <1>3, <5>1, RemoveThins
        <5> QED
          BY <5>2 DEF Thins, G
      <4> QED
        BY <2>2, <3>1, <3>3, <4>1
    <3> QED
      BY <3>2, <3>3
  <2> QED
    BY <2>1, <2>2
<1>12. PICK q \in DOMAIN E : /\ border = E[q].lblk
                             /\ i = 1 => \A m \in DOMAIN G : E[q].lblk <= G[m].lblk
  BY <1>11
<1> HIDE DEF border
<1>13. Reset(w, hi, v, path, k)
  <2>1. CASE i # 1
    BY <1>8, <1>10, <2>1, NoReset
  <2>2. CASE i = 1
    <3>1. /\ k <= Len(path) /\ Chain(t, path, k - 1)
          /\ w[Root].depth = t[Root].depth
          /\ \A j \in 1 .. (k - 1) : w[path[j].n] = t[path[j].n]
          /\ w[path[k].n].depth = t[path[k].n].depth
          /\ \A m \in DOMAIN w[path[k].n].entries :
                t[path[k].n].entries[q].lblk <= w[path[k].n].entries[m].lblk
          /\ q \in DOMAIN t[path[k].n].entries
      <4>1. w[Root].depth = t[Root].depth
        BY <1>7, <1>8, RootNode
      <4>2. Chain(t, path, k - 1)
        BY <1>6 DEF Chain
      <4>3. k <= Len(path)
        BY <1>4
      <4>4. \A m \in DOMAIN G : E[q].lblk <= G[m].lblk
        BY <1>12, <2>2
      <4> QED
        BY <1>6, <1>8, <4>1, <4>2, <4>3, <4>4
    <3>2. Reset(w, hi, SetFirst(w, path, k, t[path[k].n].entries[q].lblk), path, k)
      BY <1>8, <3>1, Rekey
    <3> QED
      BY <1>10, <1>12, <2>2, <3>2
  <2> QED
    BY <2>1, <2>2
<1>14. /\ Tree(v, hi) /\ v \in Trees /\ Owned(v) = Owned(w)
       /\ \A x \in Block : Linked(v, x) <=> Linked(w, x)
       /\ \A m \in Node : v[m] = w[m] \/ \E j \in 1 .. (k - 1) : path[j].n = m
       /\ \A m \in Node : v[m].entries = <<>> <=> w[m].entries = <<>>
       /\ v[n] = w[n]
       /\ Kept(w, v, path, k)
  BY <1>13 DEF Reset
<1>15. v[b] = NoNode
  BY <1>3, <1>6, <1>8, <1>14
<1>16. \A m \in Node : m # b => v[m] = t[m] \/ \E j \in 1 .. k : path[j].n = m
  <2>1. k \in 1 .. k
    OBVIOUS
  <2> QED
    BY <1>6, <1>8, <1>14, <2>1
<1>17. \A m \in Node : m # b => (v[m].entries = <<>> => t[m].entries = <<>> \/ m = path[k].n)
  BY <1>8, <1>14
<1>18. Kept(t, v, path, k)
  <2>1. \A j \in 1 .. k : w[path[j].n].depth = t[path[j].n].depth
    <3> TAKE j \in 1 .. k
    <3>1. CASE j = k
      BY <1>8, <3>1
    <3>2. CASE j # k
      <4>1. j \in 1 .. (k - 1)
        BY <3>2
      <4> QED
        BY <1>6, <1>8, <4>1
    <3> QED
      BY <3>1, <3>2
  <2>2. \A j \in 1 .. (k - 1) : w[path[j].n] = t[path[j].n]
    BY <1>6, <1>8
  <2>3. w[Root].depth = t[Root].depth
    BY <1>7, <1>8, RootNode
  <2>4. /\ v[Root].depth = w[Root].depth
        /\ \A j \in 1 .. k : v[path[j].n].depth = w[path[j].n].depth
        /\ \A j \in 1 .. (k - 1) :
             /\ DOMAIN v[path[j].n].entries = DOMAIN w[path[j].n].entries
             /\ \A r \in DOMAIN w[path[j].n].entries :
                  /\ v[path[j].n].entries[r].pblk = w[path[j].n].entries[r].pblk
                  /\ r # path[j].i => v[path[j].n].entries[r].lblk = w[path[j].n].entries[r].lblk
    BY <1>14 DEF Kept
  <2>5. \A j \in 1 .. (k - 1) :
             /\ DOMAIN v[path[j].n].entries = DOMAIN t[path[j].n].entries
             /\ \A r \in DOMAIN t[path[j].n].entries :
                  /\ v[path[j].n].entries[r].pblk = t[path[j].n].entries[r].pblk
                  /\ r # path[j].i => v[path[j].n].entries[r].lblk = t[path[j].n].entries[r].lblk
    <3> TAKE j \in 1 .. (k - 1)
    <3> DEFINE W == w[path[j].n]
               T == t[path[j].n]
    <3>1. W = T
      BY <2>2
    <3>2. /\ DOMAIN v[path[j].n].entries = DOMAIN W.entries
          /\ \A r \in DOMAIN W.entries :
               /\ v[path[j].n].entries[r].pblk = W.entries[r].pblk
               /\ r # path[j].i => v[path[j].n].entries[r].lblk = W.entries[r].lblk
      BY <2>4, Zenon
    <3> HIDE DEF W, T
    <3>3. /\ DOMAIN v[path[j].n].entries = DOMAIN T.entries
          /\ \A r \in DOMAIN T.entries :
               /\ v[path[j].n].entries[r].pblk = T.entries[r].pblk
               /\ r # path[j].i => v[path[j].n].entries[r].lblk = T.entries[r].lblk
      BY <3>1, <3>2, Zenon
    <3> QED
      BY <3>3, Zenon DEF T
  <2> QED
    BY <2>1, <2>3, <2>4, <2>5 DEF Kept
<1>19. \A m \in DOMAIN v[n].entries : m >= i => \E r \in DOMAIN E : r > i /\ v[n].entries[m].lblk = E[r].lblk
  <2> SUFFICES ASSUME NEW m \in DOMAIN G, m >= i
               PROVE  \E r \in DOMAIN E : r > i /\ G[m].lblk = E[r].lblk
    BY <1>8, <1>14
  <2>1. m + 1 \in DOMAIN E /\ G[m] = E[m + 1]
    BY <1>9
  <2>2. m \in Nat /\ i \in Nat
    <3>1. E \in Seq(Ent)
      BY <1>1, <1>3, ShapeIs
    <3>2. DOMAIN E \subseteq Nat /\ DOMAIN G \subseteq Nat
      <4> HIDE DEF E
      <4> QED
        BY <1>9, <3>1, EntSeq
    <3> QED
      BY <1>3, <3>2
  <2>3. m + 1 > i
    BY <2>2
  <2> QED
    BY <2>1, <2>3
<1>20. Unlinked(t, hi, v, path, k, b)
  <2>1. /\ \A x \in Block : x \in Owned(v) <=> x \in Owned(t) /\ x # b
        /\ \A x \in Block : Linked(v, x) <=> Linked(t, x) /\ x # b
    BY <1>8, <1>14
  <2> QED
    BY <1>14, <1>15, <1>16, <1>17, <1>18, <1>19, <2>1 DEF Unlinked
<1> QED
  BY <1>20 DEF v

LEMMA RemoveFacts ==
  ASSUME NEW hi, Whole(tree, hi, call, free, foreign), call.at = "remove"
  PROVE  /\ Tree(tree, hi) /\ Shape(tree) /\ tree \in Trees
         /\ Parted(Owned(tree), free, foreign, {}, {})
         /\ Nodes(tree, {}) /\ Filled(tree, BareOf(call)) /\ RemoveOK(tree, call)
         /\ call = [at |-> call.at, path |-> call.path, level |-> call.level, from |-> call.from]
         /\ Len(call.path) \in Nat \ {0} /\ call.level \in 0 .. Len(call.path) /\ call.from \in Nat
         /\ Steps(tree, call.path, call.level) /\ Chain(tree, call.path, call.level - 1)
         /\ \A j \in 1 .. Len(call.path) : call.path[j].n \in Node /\ call.path[j].i \in Nat
         /\ call.path[1].n = Root
         /\ tree[Root].entries = <<>> /\ call.level # 0 /\ call.level # 1 => tree[Root].depth = 0
<1>2. /\ Tree(tree, hi) /\ Parted(Owned(tree), free, foreign, {}, {})
      /\ Nodes(tree, {}) /\ Filled(tree, BareOf(call)) /\ RemoveOK(tree, call)
      /\ tree[Root].entries = <<>> /\ ~(call.at = "remove" /\ call.level <= 1) => tree[Root].depth = 0
  BY DEF NewOf, TopOf, Whole
<1>3. Shape(tree) /\ tree \in Trees
  BY <1>2 DEF Tree, Shape, Trees
<1>4. /\ call = [at |-> call.at, path |-> call.path, level |-> call.level, from |-> call.from]
      /\ Steps(tree, call.path, call.level) /\ call.level \in 0 .. Len(call.path) /\ call.from \in Nat
      /\ Chain(tree, call.path, call.level - 1)
  BY <1>2 DEF RemoveOK
<1>5. /\ Len(call.path) = tree[Root].depth + 1 /\ tree[Root].depth \in Nat
      /\ call.path \in [1 .. Len(call.path) -> [n : Node, i : Nat]]
      /\ call.path[1].n = Root
  BY <1>3, <1>4, ShapeIs, RootNode DEF Steps
<1>6. Len(call.path) \in Nat \ {0}
  BY <1>5
<1>8. call.level # 0 /\ call.level # 1 => ~(call.level <= 1)
  BY <1>4, <1>6
<1> QED
  BY <1>2, <1>3, <1>4, <1>5, <1>6, <1>8

LEMMA RemoveWhole ==
  ASSUME NEW t, NEW hi, NEW c, NEW f, NEW g, c.at = "remove", Tree(t, hi),
         Parted(Owned(t), f, g, {}, {}), Nodes(t, {}), Filled(t, BareOf(c)), RemoveOK(t, c)
  PROVE  Whole(t, hi, c, f, g)
<1>2. t[Root].entries = <<>> /\ ~(c.at = "remove" /\ c.level <= 1) => t[Root].depth = 0
  <2> SUFFICES ASSUME t[Root].entries = <<>>, ~(c.level <= 1) PROVE FALSE
    OBVIOUS
  <2>1. /\ c.path[1].n = Root /\ Chain(t, c.path, c.level - 1) /\ c.level \in 0 .. Len(c.path)
    BY DEF RemoveOK, Steps
  <2>2. c.level \in Nat
    <3> QED
      BY RootNode, ShapeIs, <2>1 DEF RemoveOK, Steps, Tree
  <2>3. 1 \in 1 .. (c.level - 1)
    BY <2>2
  <2>4. c.path[1].i \in DOMAIN t[Root].entries
    BY <2>1, <2>3 DEF Chain
  <2> QED
    BY <2>4
<1> QED
  BY <1>2 DEF NewOf, TopOf, Whole

\* The removal goes on one level up, where the path's node v keeps its place.
LEMMA LevelUp ==
  ASSUME NEW t, NEW c, Shape(t), RemoveOK(t, c), NEW k \in Nat \ {0}, c.level = k + 1,
         NEW v, Kept(t, v, c.path, k), NEW p,
         p \in [1 .. Len(c.path) -> [n : Node, i : Nat]], Len(p) = Len(c.path),
         \A j \in 1 .. (k - 1) : p[j] = c.path[j],
         p[k].n = c.path[k].n, p[k].i > 0,
         \A m \in DOMAIN v[c.path[k].n].entries :
            m >= p[k].i => c.from <= v[c.path[k].n].entries[m].lblk,
         NEW d, d = [at |-> d.at, path |-> p, level |-> k, from |-> c.from]
  PROVE  RemoveOK(v, d)
<1>1. d.path = p /\ d.level = k /\ d.from = c.from
      /\ d = [at |-> d.at, path |-> d.path, level |-> d.level, from |-> d.from]
  <2> DEFINE a == d.at
  <2>1. d = [at |-> a, path |-> p, level |-> k, from |-> c.from]
    OBVIOUS
  <2> HIDE DEF a
  <2>2. d.path = p /\ d.level = k /\ d.from = c.from
    BY <2>1
  <2> QED
    BY <2>1, <2>2 DEF a
<1>2. /\ Steps(t, c.path, c.level) /\ c.level \in 0 .. Len(c.path) /\ c.from \in Nat
      /\ Chain(t, c.path, c.level - 1)
      /\ \A j \in 1 .. (c.level - 1) : \A m \in DOMAIN At(t, c, j) :
           m > c.path[j].i => c.from <= At(t, c, j)[m].lblk
  BY DEF RemoveOK
<1>3. Len(c.path) = t[Root].depth + 1 /\ t[Root].depth \in Nat
  BY <1>2, RootNode, ShapeIs DEF Steps
<1>4. /\ k \in 0 .. Len(p) /\ k # Len(p) /\ k + 1 <= Len(p)
      /\ \A j \in 1 .. k : j \in 1 .. c.level /\ j \in 1 .. (c.level - 1)
      /\ \A j \in 1 .. (k - 1) : j \in 1 .. k /\ j \in 1 .. (c.level - 1)
  BY <1>2, <1>3
<1>5. /\ v[Root].depth = t[Root].depth
      /\ \A j \in 1 .. k : v[c.path[j].n].depth = t[c.path[j].n].depth
      /\ \A j \in 1 .. (k - 1) :
         /\ DOMAIN v[c.path[j].n].entries = DOMAIN t[c.path[j].n].entries
         /\ \A q \in DOMAIN t[c.path[j].n].entries :
              /\ v[c.path[j].n].entries[q].pblk = t[c.path[j].n].entries[q].pblk
              /\ q # c.path[j].i => v[c.path[j].n].entries[q].lblk = t[c.path[j].n].entries[q].lblk
  BY DEF Kept
<1>6. \A j \in 1 .. k : p[j].n = c.path[j].n
  <2> TAKE j \in 1 .. k
  <2>1. CASE j = k
    BY <2>1
  <2>2. CASE j # k
    <3>1. j \in 1 .. (k - 1)
      BY <2>2
    <3> QED
      BY <3>1
  <2> QED
    BY <2>1, <2>2
<1>7. Steps(v, p, k)
  <2>1. c.path[1].n = Root /\ \A j \in 1 .. k : t[c.path[j].n].depth = Len(c.path) - j
    BY <1>2, <1>4 DEF Steps
  <2>2. 1 \in 1 .. k
    OBVIOUS
  <2>3. p[1].n = Root
    BY <1>6, <2>1, <2>2
  <2>4. \A j \in 1 .. k : v[p[j].n].depth = Len(p) - j
    BY <1>5, <1>6, <2>1
  <2> QED
    BY <1>3, <1>5, <2>3, <2>4 DEF Steps
<1>8. Chain(v, p, k - 1)
  <2> SUFFICES ASSUME NEW j \in 1 .. (k - 1)
               PROVE  /\ p[j].i \in DOMAIN v[p[j].n].entries
                      /\ v[p[j].n].entries[p[j].i].pblk = p[j + 1].n
    BY DEF Chain
  <2>1. /\ c.path[j].i \in DOMAIN t[c.path[j].n].entries
        /\ t[c.path[j].n].entries[c.path[j].i].pblk = c.path[j + 1].n
    BY <1>2, <1>4 DEF Chain
  <2>2. p[j + 1].n = c.path[j + 1].n /\ p[j] = c.path[j]
    <3>1. j + 1 \in 1 .. k
      OBVIOUS
    <3> QED
      BY <1>6, <3>1
  <2> QED
    BY <1>5, <2>1, <2>2, Zenon
<1>9. \A j \in 1 .. (k - 1) : \A m \in DOMAIN v[p[j].n].entries :
           m > p[j].i => c.from <= v[p[j].n].entries[m].lblk
  <2> SUFFICES ASSUME NEW j \in 1 .. (k - 1), NEW m \in DOMAIN v[p[j].n].entries, m > p[j].i
               PROVE  c.from <= v[p[j].n].entries[m].lblk
    OBVIOUS
  <2>1. p[j] = c.path[j] /\ m \in DOMAIN t[c.path[j].n].entries /\ j \in 1 .. (c.level - 1)
    BY <1>4, <1>5
  <2>2. c.from <= t[c.path[j].n].entries[m].lblk
    BY <1>2, <2>1 DEF At
  <2>3. m # c.path[j].i
    <3>1. j \in 1 .. Len(p)
      BY <1>3, <1>4
    <3>2. p[j].i \in Nat
      BY <3>1
    <3> QED
      BY <2>1, <3>2
  <2>4. v[c.path[j].n].entries[m].lblk = t[c.path[j].n].entries[m].lblk
    BY <1>5, <2>1, <2>3, Zenon
  <2> QED
    BY <2>1, <2>2, <2>4, Zenon
<1>10. \A m \in DOMAIN v[p[k].n].entries : m >= p[k].i => c.from <= v[p[k].n].entries[m].lblk
  OBVIOUS
<1>11. /\ \A j \in 1 .. (d.level - 1) : \A m \in DOMAIN At(v, d, j) :
            m > d.path[j].i => d.from <= At(v, d, j)[m].lblk
       /\ d.path[d.level].i > 0 /\ d.level # Len(d.path)
       /\ \A m \in DOMAIN At(v, d, d.level) :
            m >= d.path[d.level].i => d.from <= At(v, d, d.level)[m].lblk
  BY <1>1, <1>4, <1>9, <1>10 DEF At
<1>12. /\ d = [at |-> d.at, path |-> d.path, level |-> d.level, from |-> d.from]
       /\ Steps(v, d.path, d.level) /\ d.level \in 0 .. Len(d.path) /\ d.from \in Nat
       /\ Chain(v, d.path, d.level - 1)
  BY <1>1, <1>2, <1>4, <1>7, <1>8
<1> QED
  BY <1>11, <1>12 DEF RemoveOK

\* Above the root nothing is left of the path.
LEMMA LevelOut ==
  ASSUME NEW t, NEW c, Shape(t), RemoveOK(t, c), NEW v, v[Root].depth = t[Root].depth,
         NEW d, d = [at |-> d.at, path |-> c.path, level |-> 0, from |-> c.from]
  PROVE  RemoveOK(v, d)
<1> DEFINE zero == 0
<1>1. d.path = c.path /\ d.level = zero /\ d.from = c.from
      /\ d = [at |-> d.at, path |-> d.path, level |-> d.level, from |-> d.from]
  <2> DEFINE a == d.at
  <2>1. d = [at |-> a, path |-> c.path, level |-> zero, from |-> c.from]
    OBVIOUS
  <2> HIDE DEF a, zero
  <2> QED
    BY <2>1 DEF a
<1>2. /\ Len(c.path) = t[Root].depth + 1 /\ c.path \in [1 .. Len(c.path) -> [n : Node, i : Nat]]
      /\ c.path[1].n = Root /\ t[Root].depth \in Nat /\ c.from \in Nat
  BY RootNode, ShapeIs DEF RemoveOK, Steps
<1>3. Steps(v, c.path, zero) /\ Chain(v, c.path, zero - 1) /\ zero \in 0 .. Len(c.path)
  BY <1>2 DEF Steps, Chain
<1>4. /\ ~(zero > 0) /\ \A j \in 1 .. (zero - 1) : FALSE
  OBVIOUS
<1> HIDE DEF zero
<1> QED
  BY <1>1, <1>2, <1>3, <1>4 DEF RemoveOK

\* The climb goes to the next place one level up.
LEMMA StepUpOK ==
  ASSUME NEW hi, Whole(tree, hi, call, free, foreign), call.at = "remove",
         NEW k \in Nat \ {0}, call.level = k, NEW v, Kept(tree, v, call.path, k),
         call' = StepUp(call.path, k)
  PROVE  /\ call'.at = "remove" /\ RemoveOK(v, call')
         /\ k = 1 => BareOf(call') = {}
         /\ k > 1 => BareOf(call') = {call.path[k - 1].n}
<1> DEFINE path == call.path
           K == k - 1
           up == [path EXCEPT ![K].i = @ + 1]
<1>1. /\ Shape(tree) /\ RemoveOK(tree, call)
      /\ call = [at |-> call.at, path |-> path, level |-> call.level, from |-> call.from]
      /\ Len(path) \in Nat \ {0} /\ call.level \in 0 .. Len(path) /\ call.from \in Nat
      /\ Steps(tree, path, call.level) /\ Chain(tree, path, call.level - 1)
      /\ \A j \in 1 .. Len(path) : path[j].n \in Node /\ path[j].i \in Nat
  BY RemoveFacts
<1>2. path \in [1 .. Len(path) -> [n : Node, i : Nat]]
  BY <1>1 DEF Steps
<1>3. call' = [at |-> "remove", path |-> IF k = 1 THEN path ELSE up, level |-> K, from |-> call.from]
  <2>1. call' = [call EXCEPT !.level = K, !.path = IF k = 1 THEN path ELSE up]
    BY DEF StepUp
  <2> HIDE DEF up, K, path
  <2> QED
    BY <1>1, <2>1
<1>4. call'.at = "remove" /\ call'.level = K
  <2> HIDE DEF up, K, path
  <2> QED
    BY <1>3
<1>5. CASE k = 1
  <2>1. call' = [at |-> call'.at, path |-> path, level |-> 0, from |-> call.from]
    <3>1. K = 0
      BY <1>5
    <3> HIDE DEF up, K, path
    <3> QED
      BY <1>3, <1>5, <3>1
  <2>2. RemoveOK(v, call')
    BY <1>1, <2>1, LevelOut DEF Kept
  <2> QED
    BY <1>4, <1>5, <2>2 DEF BareOf
<1>6. CASE k # 1
  <2>1. K \in Nat \ {0} /\ K + 1 = k /\ K \in 1 .. Len(path) /\ K \in 1 .. (call.level - 1) /\ k > 1
    BY <1>1, <1>6
  <2>2. /\ up \in [1 .. Len(path) -> [n : Node, i : Nat]]
        /\ \A j \in 1 .. Len(path) : j # K => up[j] = path[j]
        /\ up[K].n = path[K].n /\ up[K].i = path[K].i + 1
    <3>1. path[K] \in [n : Node, i : Nat]
      BY <1>2, <2>1
    <3>2. [path[K] EXCEPT !.i = @ + 1] = [n |-> path[K].n, i |-> path[K].i + 1]
          /\ path[K].i + 1 \in Nat /\ path[K].n \in Node
      <4> HIDE DEF K, path
      <4> QED
        BY <3>1
    <3>3. up = [path EXCEPT ![K] = [n |-> path[K].n, i |-> path[K].i + 1]]
      BY <3>2
    <3> HIDE DEF up, K, path
    <3> QED
      BY <1>2, <2>1, <3>2, <3>3
  <2>3. Len(up) = Len(path)
    <3> DEFINE S == [n : Node, i : Nat]
               L == Len(path)
    <3>1. L \in Nat /\ up \in [1 .. L -> S]
      BY <1>1, <2>2
    <3> HIDE DEF up, path, L, S
    <3> QED
      BY <3>1, FunctionIsSeq DEF L
  <2>4. \A j \in 1 .. (K - 1) : up[j] = path[j]
    <3> TAKE j \in 1 .. (K - 1)
    <3>1. j \in 1 .. Len(path) /\ j # K
      BY <1>1, <2>1
    <3> QED
      BY <2>2, <3>1
  <2>5. path[K].i \in Nat /\ up[K].i > 0 /\ \A m \in Nat : m >= up[K].i => m > path[K].i
    <3>1. path[K].i \in Nat
      BY <1>1, <2>1
    <3> HIDE DEF up, K, path
    <3> QED
      BY <2>2, <3>1
  <2>6. \A m \in DOMAIN tree[path[K].n].entries :
           m > path[K].i => call.from <= tree[path[K].n].entries[m].lblk
    BY <1>1, <2>1 DEF RemoveOK, At
  <2>7. /\ v[Root].depth = tree[Root].depth
        /\ \A j \in 1 .. k : v[path[j].n].depth = tree[path[j].n].depth
        /\ \A j \in 1 .. (k - 1) :
             /\ DOMAIN v[path[j].n].entries = DOMAIN tree[path[j].n].entries
             /\ \A q \in DOMAIN tree[path[j].n].entries :
                  /\ v[path[j].n].entries[q].pblk = tree[path[j].n].entries[q].pblk
                  /\ q # path[j].i =>
                       v[path[j].n].entries[q].lblk = tree[path[j].n].entries[q].lblk
    BY DEF Kept
  <2>8. ASSUME NEW m \in DOMAIN v[path[K].n].entries, m >= up[K].i
        PROVE  call.from <= v[path[K].n].entries[m].lblk
    <3>1. K \in 1 .. (k - 1) /\ path[K].n \in Node
      BY <1>1, <2>1
    <3>2. m \in DOMAIN tree[path[K].n].entries
      BY <2>7, <3>1
    <3>3. m \in Nat
      BY <1>1, <3>1, <3>2, ShapeIs
    <3>4. m > path[K].i /\ m # path[K].i
      BY <2>5, <2>8, <3>3
    <3> QED
      BY <2>6, <2>7, <3>1, <3>2, <3>4
  <2>9. call' = [at |-> call'.at, path |-> up, level |-> K, from |-> call.from]
    <3> HIDE DEF up, K, path
    <3> QED
      BY <1>3, <1>4, <1>6
  <2>10. Kept(tree, v, path, K)
    <3>1. \A j \in 1 .. K : j \in 1 .. k
      BY <2>1
    <3>2. \A j \in 1 .. (K - 1) : j \in 1 .. (k - 1)
      BY <2>1
    <3> HIDE DEF K, path
    <3> QED
      BY <2>7, <3>1, <3>2 DEF Kept
  <2> HIDE DEF up, K, path
  <2>11. /\ call.level = K + 1
         /\ \A j \in 1 .. (K - 1) : up[j] = call.path[j]
         /\ up[K].n = call.path[K].n
         /\ up \in [1 .. Len(call.path) -> [n : Node, i : Nat]] /\ Len(up) = Len(call.path)
         /\ \A m \in DOMAIN v[call.path[K].n].entries :
               m >= up[K].i => call.from <= v[call.path[K].n].entries[m].lblk
    BY <2>1, <2>2, <2>3, <2>4, <2>8 DEF path
  <2>12. RemoveOK(v, call')
    <3>1. Kept(tree, v, call.path, K)
      BY <2>10 DEF path
    <3> QED
      BY <1>1, <2>1, <2>5, <2>9, <2>11, <3>1, LevelUp, Zenon
  <2> QED
    BY <2>9, <1>4, <2>1, <2>2, <1>6, <2>12 DEF BareOf, K, path
<1> QED
  BY <1>5, <1>6

LEMMA LevelSame ==
  ASSUME NEW t, NEW c, Shape(t), RemoveOK(t, c), NEW k \in Nat \ {0}, c.level = k + 1,
         NEW v, Kept(t, v, c.path, k), c.path[k].i > 0,
         c.path \in [1 .. Len(c.path) -> [n : Node, i : Nat]],
         NEW d, SamePlace(v, d, c, k)
  PROVE  RemoveOK(v, d)
<1> DEFINE p == c.path
<1>1. /\ p \in [1 .. Len(c.path) -> [n : Node, i : Nat]] /\ Len(p) = Len(c.path)
      /\ \A j \in 1 .. (k - 1) : p[j] = c.path[j]
      /\ p[k].n = c.path[k].n /\ p[k].i > 0
      /\ \A m \in DOMAIN v[c.path[k].n].entries :
            m >= p[k].i => c.from <= v[c.path[k].n].entries[m].lblk
  BY DEF SamePlace
<1>2. d = [at |-> d.at, path |-> p, level |-> k, from |-> c.from]
  BY DEF SamePlace
<1> HIDE DEF p
<1> QED
  BY <1>1, <1>2, LevelUp

\* The empty node at level k goes, and the removal is one level up.
LEMMA Unlinks ==
  ASSUME NEW hi, Whole(tree, hi, call, free, foreign), call.at = "remove",
         NEW k \in Nat \ {0}, k > 1, call.level = k,
         NEW t, Tree(t, hi), t \in Trees,
         \A m \in Node : m # call.path[k].n => t[m] = tree[m],
         t[call.path[k].n].depth = tree[call.path[k].n].depth,
         t[call.path[k].n].entries = <<>>,
         \A x \in Block : Linked(t, x) <=> Linked(tree, x),
         NEW f, Parted(Owned(t), f, foreign, {}, {}),
         call' = Raised(call, k)
  PROVE  Whole(RemoveIdx(t, call.path, k - 1), hi, call', f \cup {call.path[k].n}, foreign)
<1> DEFINE path == call.path
           K == k - 1
           b == path[k].n
           v == RemoveIdx(t, path, K)
<1>1. /\ Shape(tree) /\ RemoveOK(tree, call) /\ Nodes(tree, {}) /\ Filled(tree, BareOf(call))
      /\ call = [at |-> call.at, path |-> path, level |-> call.level, from |-> call.from]
      /\ Len(path) \in Nat \ {0} /\ call.level \in 0 .. Len(path) /\ call.from \in Nat
      /\ Steps(tree, path, call.level) /\ Chain(tree, path, call.level - 1)
      /\ \A j \in 1 .. Len(path) : path[j].n \in Node /\ path[j].i \in Nat
      /\ path[1].n = Root
  BY RemoveFacts
<1>2. K \in Nat \ {0} /\ K + 1 = k /\ K + 1 <= Len(path) /\ k \in Nat /\ k <= Len(path) /\ K \in Nat
  BY <1>1
<1>3. Filled(tree, {b})
  BY <1>1 DEF BareOf
<1>4. \A x, y \in 1 .. k : path[x].n = path[y].n => x = y
  BY <1>1, <1>2, StepFacts
<1>5. call' = [at |-> "remove", path |-> path, level |-> K, from |-> call.from]
  <2> HIDE DEF K, path
  <2>1. call' = [call EXCEPT !.level = K]
    BY DEF K, Raised
  <2> QED
    BY <1>1, <2>1
<1>6. call'.at = "remove" /\ call'.path = path /\ call'.level = K
  <2> HIDE DEF K, path
  <2> QED
    BY <1>5
<1> HIDE DEF K
<1>7. \A j \in 1 .. K : /\ path[j].n # b /\ path[j].n \in Node /\ t[path[j].n] = tree[path[j].n]
                        /\ j \in 1 .. k
  <2> TAKE j \in 1 .. K
  <2>1. j \in 1 .. k /\ k \in 1 .. k /\ j # k /\ j \in 1 .. Len(path)
    BY <1>1, <1>2
  <2> QED
    BY <1>1, <1>4, <2>1
<1>8. Steps(t, path, K) /\ Chain(t, path, K)
  <2>1. 1 \in 1 .. K
    BY <1>2
  <2>2. t[Root] = tree[Root]
    BY <1>1, <1>7, <2>1
  <2>3. Steps(t, path, K)
    BY <1>1, <1>7, <2>2 DEF Steps
  <2>4. Chain(t, path, K)
    <3>1. Chain(tree, path, K)
      BY <1>1 DEF K
    <3> QED
      BY <1>7, <3>1 DEF Chain
  <2> QED
    BY <2>3, <2>4
<1>9. /\ \A j \in 1 .. K : /\ Index2(t, path[j].n, path[j].i, path[j + 1].n)
                           /\ path[j + 1].n \in Block
  <2>1. Shape(t)
    BY DEF Tree
  <2> QED
    BY <1>2, <1>8, <2>1, ChainFacts
<1>10. Index2(t, path[K].n, path[K].i, b) /\ b \in Block /\ b \in Node /\ path[K].n \in Node
  <2>1. K \in 1 .. K
    BY <1>2
  <2> QED
    BY <1>2, <1>7, <1>9, <2>1, RootNode
<1>11. Unlinked(t, hi, v, path, K, b)
  <2>1. t[path[K + 1].n].entries = <<>> /\ b = path[K + 1].n
    BY <1>2
  <2> HIDE DEF path, v, b
  <2>2. Unlinked(t, hi, RemoveIdx(t, path, K), path, K, path[K + 1].n)
    BY <1>2, <1>8, <2>1, RemoveIdxIs
  <2> QED
    BY <2>1, <2>2 DEF v
<1> HIDE DEF v
<1>12. /\ Tree(v, hi) /\ v \in Trees /\ v[b] = NoNode
       /\ \A x \in Block : x \in Owned(v) <=> x \in Owned(t) /\ x # b
       /\ \A x \in Block : Linked(v, x) <=> Linked(t, x) /\ x # b
       /\ \A m \in Node : m # b => v[m] = t[m] \/ \E j \in 1 .. K : path[j].n = m
       /\ \A m \in Node : m # b => (v[m].entries = <<>> => t[m].entries = <<>> \/ m = path[K].n)
       /\ Kept(t, v, path, K)
       /\ \A m \in DOMAIN v[path[K].n].entries : m >= path[K].i =>
          \E q \in DOMAIN t[path[K].n].entries :
             q > path[K].i /\ v[path[K].n].entries[m].lblk = t[path[K].n].entries[q].lblk
  BY <1>11, Zenon DEF Unlinked
<1>13. Parted(Owned(v), f \cup {b}, foreign, {}, {})
  <2>1. b \in Owned(t)
    <3>1. Shape(t)
      BY DEF Tree
    <3> QED
      BY <1>10, <3>1, IndexIs
  <2>2. Owned(v) = Owned(t) \ {b}
    BY <1>12 DEF Owned
  <2> QED
    BY <1>10, <2>1, <2>2 DEF Parted
<1>14. Nodes(v, {})
  <2> SUFFICES ASSUME NEW x \in Block, v[x] # NoNode PROVE Linked(v, x)
    BY DEF Nodes
  <2>1. x # b /\ x \in Node
    BY <1>12, RootNode
  <2>2. CASE v[x] = t[x]
    <3>1. tree[x] # NoNode
      BY <2>1, <2>2
    <3>2. Linked(tree, x)
      BY <1>1, <3>1 DEF Nodes
    <3> QED
      BY <1>12, <2>1, <3>2
  <2>3. CASE \E j \in 1 .. K : path[j].n = x
    <3>1. PICK j \in 1 .. K : path[j].n = x
      BY <2>3
    <3>2. j # 1
      BY <1>1, <3>1, RootNode
    <3> DEFINE z == j - 1
    <3>3. z \in 1 .. K /\ z + 1 = j
      BY <1>2, <3>2
    <3> HIDE DEF z
    <3>4. Index2(t, path[z].n, path[z].i, x) /\ path[z].n \in Node
      BY <1>7, <1>9, <3>1, <3>3
    <3>5. Linked(t, x)
      <4>1. Shape(t)
        BY DEF Tree
      <4> QED
        BY <3>4, <4>1, IndexIs
    <3> QED
      BY <1>12, <2>1, <3>5
  <2> QED
    BY <1>12, <2>1, <2>2, <2>3
<1>15. Filled(v, {path[K].n})
  <2> SUFFICES ASSUME NEW x \in Block, Linked(v, x), v[x].entries = <<>>, x # path[K].n PROVE FALSE
    BY DEF Filled
  <2>1. x # b /\ Linked(tree, x) /\ x \in Node
    BY <1>12, RootNode
  <2>2. tree[x].entries # <<>>
    BY <1>3, <2>1 DEF Filled
  <2>3. t[x].entries # <<>>
    BY <2>1, <2>2
  <2> QED
    BY <1>12, <2>1, <2>3
<1>16. RemoveOK(v, call')
  <2>1. Kept(tree, v, path, K)
    <3>1. /\ v[Root].depth = t[Root].depth
          /\ \A j \in 1 .. K : v[path[j].n].depth = t[path[j].n].depth
          /\ \A j \in 1 .. (K - 1) :
               /\ DOMAIN v[path[j].n].entries = DOMAIN t[path[j].n].entries
               /\ \A q \in DOMAIN t[path[j].n].entries :
                    /\ v[path[j].n].entries[q].pblk = t[path[j].n].entries[q].pblk
                    /\ q # path[j].i => v[path[j].n].entries[q].lblk = t[path[j].n].entries[q].lblk
      BY <1>12, Zenon DEF Kept
    <3>2. \A j \in 1 .. (K - 1) : j \in 1 .. K
      BY <1>2
    <3>3. t[Root] = tree[Root]
      <4>1. 1 \in 1 .. K
        BY <1>2
      <4> QED
        BY <1>1, <1>7, <4>1
    <3>4. \A j \in 1 .. (K - 1) :
               /\ DOMAIN v[path[j].n].entries = DOMAIN tree[path[j].n].entries
               /\ \A q \in DOMAIN tree[path[j].n].entries :
                    /\ v[path[j].n].entries[q].pblk = tree[path[j].n].entries[q].pblk
                    /\ q # path[j].i => v[path[j].n].entries[q].lblk = tree[path[j].n].entries[q].lblk
      <4> TAKE j \in 1 .. (K - 1)
      <4>1. t[path[j].n] = tree[path[j].n]
        BY <1>7, <3>2
      <4>2. DOMAIN t[path[j].n].entries = DOMAIN tree[path[j].n].entries
        BY <4>1
      <4>3. ASSUME NEW q \in DOMAIN tree[path[j].n].entries
            PROVE  /\ v[path[j].n].entries[q].pblk = tree[path[j].n].entries[q].pblk
                   /\ q # path[j].i => v[path[j].n].entries[q].lblk = tree[path[j].n].entries[q].lblk
        <5>1. /\ v[path[j].n].entries[q].pblk = t[path[j].n].entries[q].pblk
              /\ q # path[j].i => v[path[j].n].entries[q].lblk = t[path[j].n].entries[q].lblk
          <6> HIDE DEF path
          <6> QED
            BY <3>1, <4>2
        <5> HIDE DEF path
        <5> QED
          BY <4>1, <5>1
      <4>4. DOMAIN v[path[j].n].entries = DOMAIN t[path[j].n].entries
        BY <3>1
      <4> QED
        BY <4>2, <4>3, <4>4, Zenon
    <3>5. \A j \in 1 .. K : v[path[j].n].depth = tree[path[j].n].depth
      BY <1>7, <3>1, Zenon
    <3> QED
      BY <3>1, <3>3, <3>4, <3>5, Zenon DEF Kept
  <2>2. K \in 1 .. (call.level - 1) /\ K \in 1 .. K
    BY <1>2
  <2>3. \A m \in DOMAIN v[path[K].n].entries :
           m >= path[K].i => call.from <= v[path[K].n].entries[m].lblk
    <3> SUFFICES ASSUME NEW m \in DOMAIN v[path[K].n].entries, m >= path[K].i
                 PROVE  call.from <= v[path[K].n].entries[m].lblk
      OBVIOUS
    <3>1. PICK q \in DOMAIN t[path[K].n].entries :
             q > path[K].i /\ v[path[K].n].entries[m].lblk = t[path[K].n].entries[q].lblk
      BY <1>12
    <3>2. t[path[K].n] = tree[path[K].n]
      BY <1>7, <2>2
    <3>3. call.from <= tree[path[K].n].entries[q].lblk
      BY <1>1, <2>2, <3>1, <3>2, Zenon DEF RemoveOK, At
    <3> QED
      BY <3>1, <3>2, <3>3
  <2>4. path[K].i > 0
    <3>1. path[K].i \in DOMAIN t[path[K].n].entries
      BY <1>10 DEF Index2
    <3>2. path[K].i >= 1 /\ path[K].i \in Nat
      <4>1. Shape(t)
        BY DEF Tree
      <4> QED
        BY <1>10, <3>1, <4>1, EntryIs
    <3> QED
      BY <3>2
  <2>5. path \in [1 .. Len(path) -> [n : Node, i : Nat]]
    BY <1>1 DEF Steps
  <2>6. call' = [at |-> call'.at, path |-> path, level |-> K, from |-> call.from]
    BY <1>5, <1>6
  <2>7. /\ Shape(tree) /\ RemoveOK(tree, call) /\ K \in Nat \ {0}
        /\ call.level = K + 1 /\ Kept(tree, v, call.path, K)
        /\ path \in [1 .. Len(call.path) -> [n : Node, i : Nat]] /\ Len(path) = Len(call.path)
        /\ \A j \in 1 .. (K - 1) : path[j] = call.path[j]
        /\ path[K].n = call.path[K].n
        /\ \A m \in DOMAIN v[call.path[K].n].entries :
              m >= path[K].i => call.from <= v[call.path[K].n].entries[m].lblk
    BY <1>1, <1>2, <2>1, <2>3, <2>5
  <2>8. SamePlace(v, call', call, K)
    BY <2>3, <2>6 DEF SamePlace
  <2> HIDE DEF path
  <2> QED
    BY <2>4, <2>5, <2>7, <2>8, LevelSame DEF path
<1>17. BareOf(call') = {path[K].n}
  BY <1>2, <1>6 DEF BareOf
<1>18. Whole(v, hi, call', f \cup {b}, foreign)
  BY <1>6, <1>12, <1>13, <1>14, <1>15, <1>16, <1>17, RemoveWhole, Zenon
<1> QED
  BY <1>18 DEF v, b, K

LEMMA RemoveUpKeeps ==
  ASSUME NEW hi, Whole(tree, hi, call, free, foreign), RemoveUp
  PROVE  \E h : Whole(tree', h, call', free', foreign')
<1> DEFINE k == call.level
           path == call.path
           n == path[k].n
<1>1. /\ call.at = "remove" /\ k \in 1 .. (Len(path) - 1) /\ ~MoreToRm(path[k])
      /\ IF k > 1 /\ tree[n].entries = <<>>
         THEN /\ tree' = RemoveIdx(tree, path, k - 1)
              /\ free' = free \cup {n}
              /\ call' = [call EXCEPT !.level = k - 1]
         ELSE /\ call' = StepUp(path, k)
              /\ UNCHANGED <<tree, free>>
      /\ foreign' = foreign
  BY DEF RemoveUp
<1>2. /\ Tree(tree, hi) /\ Shape(tree) /\ tree \in Trees /\ Parted(Owned(tree), free, foreign, {}, {})
      /\ Nodes(tree, {}) /\ Filled(tree, BareOf(call)) /\ Len(path) \in Nat \ {0}
      /\ \A j \in 1 .. Len(path) : path[j].n \in Node /\ path[j].i \in Nat
      /\ path[1].n = Root
  BY <1>1, RemoveFacts
<1>3. k \in Nat \ {0} /\ k \in 1 .. Len(path)
  BY <1>1, <1>2
<1>4. Filled(tree, {n})
  BY <1>3, <1>1, <1>2 DEF BareOf
<1>5. CASE k > 1 /\ tree[n].entries = <<>>
  <2>1. /\ tree' = RemoveIdx(tree, path, k - 1) /\ free' = free \cup {n}
        /\ call' = [call EXCEPT !.level = k - 1]
    BY <1>1, <1>5
  <2>2. call' = Raised(call, k)
    BY <2>1 DEF Raised
  <2> DEFINE K == call.level
  <2> HIDE DEF K
  <2>3. /\ K \in Nat \ {0} /\ K > 1 /\ call.level = K
        /\ tree[call.path[K].n].entries = <<>> /\ call' = Raised(call, K)
        /\ tree' = RemoveIdx(tree, call.path, K - 1) /\ free' = free \cup {call.path[K].n}
    BY <1>3, <1>5, <2>1, <2>2 DEF K
  <2>4. Whole(RemoveIdx(tree, call.path, K - 1), hi, call', free \cup {call.path[K].n}, foreign)
    <3> HIDE DEF k, path, n
    <3> QED
      BY <1>1, <1>2, <2>3, Unlinks
  <2> QED
    BY <1>1, <2>3, <2>4
<1>6. CASE ~(k > 1 /\ tree[n].entries = <<>>)
  <2>1. call' = StepUp(path, k) /\ tree' = tree /\ free' = free
    BY <1>1, <1>6
  <2> DEFINE K == call.level
  <2> HIDE DEF K
  <2>2. K \in Nat \ {0} /\ call.level = K /\ call' = StepUp(call.path, K)
    BY <1>3, <2>1 DEF K
  <2>3. Kept(tree, tree, call.path, K)
    BY DEF Kept
  <2>4. /\ call'.at = "remove" /\ RemoveOK(tree, call')
    <3> HIDE DEF k, path, n
    <3> QED
      BY <1>1, <2>2, <2>3, StepUpOK
  <2>6. Filled(tree, BareOf(call'))
    BY <1>2, <1>4, RootNode, <1>3, <1>6 DEF Filled
  <2> QED
    BY <1>2, <2>4, <2>6, RemoveWhole, <1>1, <2>1
<1> QED
  BY <1>5, <1>6

\* What is left to go through at a node above the leaves.
LEMMA MoreFacts ==
  ASSUME NEW hi, Whole(tree, hi, call, free, foreign), call.at = "remove",
         NEW k, k = call.level, k \in 1 .. (Len(call.path) - 1), MoreToRm(call.path[k])
  PROVE  /\ k \in Nat \ {0} /\ k \in 1 .. Len(call.path) /\ call.path[k].n \in Node
         /\ call.path[k].i \in DOMAIN tree[call.path[k].n].entries
         /\ tree[call.path[k].n].depth = Len(call.path) - k
         /\ \A m \in DOMAIN tree[call.path[k].n].entries :
               m >= call.path[k].i => call.from <= tree[call.path[k].n].entries[m].lblk
         /\ Filled(tree, {})
<1>1. /\ Shape(tree) /\ Filled(tree, BareOf(call)) /\ Len(call.path) \in Nat \ {0}
      /\ Steps(tree, call.path, call.level)
      /\ \A j \in 1 .. Len(call.path) : call.path[j].n \in Node /\ call.path[j].i \in Nat
      /\ RemoveOK(tree, call)
  BY RemoveFacts
<1>2. k \in Nat \ {0} /\ k \in 1 .. Len(call.path) /\ k # Len(call.path) /\ k > 0
  BY <1>1
<1>3. /\ call.path[k].i > 0
      /\ \A m \in DOMAIN tree[call.path[k].n].entries :
               m >= call.path[k].i => call.from <= tree[call.path[k].n].entries[m].lblk
  BY <1>1, <1>2 DEF RemoveOK, At
<1>4. tree[call.path[k].n].depth = Len(call.path) - k
  <2>2. \A j \in 1 .. call.level : tree[call.path[j].n].depth = Len(call.path) - j
    BY <1>1 DEF Steps
  <2> QED
    BY <1>2, <2>2
<1>5. call.path[k].i \in DOMAIN tree[call.path[k].n].entries
  <2> DEFINE i == call.path[k].i
             E == tree[call.path[k].n].entries
  <2>1. i <= Len(E) /\ i > 0 /\ i \in Nat
    BY <1>1, <1>2, <1>3, Zenon DEF MoreToRm
  <2>2. Len(E) \in Nat /\ DOMAIN E = 1 .. Len(E)
    BY <1>1, <1>2, ShapeIs
  <2> HIDE DEF i, E
  <2> QED
    BY <2>1, <2>2 DEF i, E
<1>6. tree[call.path[k].n].entries # <<>>
  BY <1>5
<1>8. Filled(tree, {})
  BY <1>2, <1>1, <1>6 DEF BareOf, Filled
<1> QED
  BY <1>1, <1>2, <1>3, <1>4, <1>5, <1>8, Zenon

LEMMA RemoveFailsKeeps ==
  ASSUME NEW hi, Whole(tree, hi, call, free, foreign), RemoveFails
  PROVE  \E h : Whole(tree', h, call', free', foreign')
<1> DEFINE k == call.level
<1>1. /\ call.at = "remove" /\ k \in 1 .. (Len(call.path) - 1) /\ MoreToRm(call.path[k])
      /\ call' = Idle /\ tree' = tree /\ free' = free /\ foreign' = foreign
  BY DEF RemoveFails, Return
<1>2. /\ Tree(tree, hi) /\ Parted(Owned(tree), free, foreign, {}, {})
      /\ Nodes(tree, {}) /\ call.path[1].n = Root
      /\ tree[Root].entries = <<>> /\ call.level # 0 /\ call.level # 1 => tree[Root].depth = 0
  BY <1>1, RemoveFacts
<1>3. k = call.level
  OBVIOUS
<1> HIDE DEF k
<1>6. call'.at = "idle"
  BY <1>1 DEF Idle
<1>7. Whole(tree, hi, call', free, foreign)
  BY <1>1, <1>3, MoreFacts, <1>2, <1>6, RestWhole DEF RootOK
<1> QED
  BY <1>1, <1>7

LEMMA RemoveDoneKeeps ==
  ASSUME NEW hi, Whole(tree, hi, call, free, foreign), RemoveDone
  PROVE  \E h : Whole(tree', h, call', free', foreign')
<1>1. /\ call.at = "remove" /\ call.level = 0 /\ call' = Idle
      /\ tree' = IF tree[Root].entries = <<>> THEN [tree EXCEPT ![Root].depth = 0] ELSE tree
      /\ free' = free /\ foreign' = foreign
  BY DEF RemoveDone, Return
<1>2. /\ Tree(tree, hi) /\ Shape(tree) /\ tree \in Trees /\ Parted(Owned(tree), free, foreign, {}, {})
      /\ Nodes(tree, {}) /\ Filled(tree, BareOf(call))
  BY <1>1, RemoveFacts
<1>3. Filled(tree, {})
  BY <1>1, <1>2 DEF BareOf
<1>4. call'.at = "idle"
  BY <1>1 DEF Idle
<1>5. CASE tree[Root].entries # <<>>
  BY <1>1, <1>5, <1>2, <1>3, <1>4, RestWhole DEF RootOK
<1>6. CASE tree[Root].entries = <<>>
  <2> DEFINE none == <<>>
             zero == 0
             u == hi[Root]
             v == Replace(tree, Root, zero, none)
  <2>1. Shape(tree) /\ Order(tree, hi) /\ Low(tree, {}) /\ Apart(tree) /\ Root \in Node
    BY <1>2, RootNode DEF Tree
  <2>2. none \in Seq(Ent) /\ zero \in Nat /\ DOMAIN none = {} /\ \A x : ~Hold(none, x)
    BY NoneHolds
  <2>3. \A x : ~Has(tree, Root, x)
    BY <1>6, NoneHolds DEF Has
  <2>4. v = [tree EXCEPT ![Root].depth = 0]
    <3>2. [tree[Root] EXCEPT !.depth = 0] = [depth |-> zero, entries |-> none]
      BY <1>2, <1>6, <2>1 DEF Trees
    <3>3. v = [tree EXCEPT ![Root] = [depth |-> zero, entries |-> none]]
      BY DEF Replace
    <3> HIDE DEF v, none, zero
    <3> QED
      BY <3>2, <3>3
  <2>5. hi \in [Node -> Nat] /\ u \in Nat /\ [hi EXCEPT ![Root] = u] = hi
    BY <2>1 DEF Order
  <2> HIDE DEF none, zero, u
  <2>7. /\ Shape(v) /\ Order(v, [hi EXCEPT ![Root] = u]) /\ Low(v, {}) /\ Apart(v)
        /\ \A b \in Block : b \in Owned(v) <=> (b \in Owned(tree) /\ ~Has(tree, Root, b)) \/ Hold(none, b)
        /\ \A b \in Block : Linked(v, b) <=>
                         \/ Linked(tree, b) /\ ~(tree[Root].depth > 0 /\ Has(tree, Root, b))
                         \/ zero > 0 /\ Hold(none, b)
    BY <2>2, <2>1, <2>5, ReplacedFree DEF Sorted, Fits, Mine
  <2>8. /\ v[Root].depth = zero /\ \A m \in Node : m # Root => v[m] = tree[m]
    <3>1. /\ Replace(tree, Root, zero, none) \in Trees
          /\ Replace(tree, Root, zero, none)[Root].depth = zero
          /\ Replace(tree, Root, zero, none)[Root].entries = none
          /\ \A m \in Node : m # Root => Replace(tree, Root, zero, none)[m] = tree[m]
      <4>1. tree \in Trees /\ Root \in Node /\ zero \in Nat /\ none \in Seq(Ent)
        BY <1>2, <2>1, <2>2
      <4> DEFINE w == tree
                 r == Root
      <4>2. w \in Trees /\ r \in Node
        BY <4>1
      <4> HIDE DEF v, w, r
      <4>3. /\ Replace(w, r, zero, none) \in Trees
            /\ Replace(w, r, zero, none)[r].depth = zero
            /\ Replace(w, r, zero, none)[r].entries = none
            /\ \A m \in Node : m # r => Replace(w, r, zero, none)[m] = w[m]
        BY <4>1, <4>2, ReplaceIs
      <4> QED
        BY <4>3 DEF w, r
    <3> QED
      BY <3>1
  <2> HIDE DEF v
  <2>9. Owned(v) = Owned(tree) /\ \A b \in Block : Linked(v, b) <=> Linked(tree, b)
    BY <2>2, <2>3, <2>7 DEF Owned
  <2>12. Nodes(v, {}) /\ Filled(v, {})
    BY <2>8, RootNode, <1>2, <1>3, <2>9 DEF Nodes, Filled
  <2>14. Parted(Owned(v), free, foreign, {}, {})
    BY <1>2, <2>9
  <2>15. Whole(v, hi, call', free, foreign)
    BY <2>8, <2>5, <2>7, <1>4, <2>12, <2>14, RestWhole DEF RootOK, zero, Tree
  <2> QED
    BY <1>1, <1>6, <2>4, <2>15
<1> QED
  BY <1>5, <1>6

LEMMA EnteredIs ==
  ASSUME NEW c, c = [at |-> "remove", path |-> c.path, level |-> c.level, from |-> c.from],
         c.path \in [1 .. Len(c.path) -> [n : Node, i : Nat]], Len(c.path) \in Nat,
         NEW k \in Nat \ {0}, k + 1 \in 1 .. Len(c.path), NEW b \in Node
  PROVE  Entered(c, [c EXCEPT !.level = k + 1, !.path[k + 1] = [n |-> b, i |-> 1]], k, b)
<1> DEFINE L == Len(c.path)
           K == k + 1
           S == [n : Node, i : Nat]
           q == [c.path EXCEPT ![K] = [n |-> b, i |-> 1]]
           d == [c EXCEPT !.level = K, !.path[K] = [n |-> b, i |-> 1]]
           p == c.path
           x == c.level
           y == c.from
<1>2. q \in [1 .. L -> S] /\ L \in Nat
  OBVIOUS
<1>3. q[K] = [n |-> b, i |-> 1] /\ \A j \in 1 .. k : q[j] = c.path[j]
  <2>1. \A j \in 1 .. k : j \in 1 .. L /\ j # K
    OBVIOUS
  <2>2. DOMAIN p = 1 .. L /\ K \in 1 .. L
    OBVIOUS
  <2> HIDE DEF p, L, K
  <2> QED
    BY <2>1, <2>2 DEF p
<1>4. Len(q) = L
  <2> HIDE DEF q, L, S
  <2> QED
    BY <1>2, FunctionIsSeq
<1>5. d = [at |-> "remove", path |-> q, level |-> K, from |-> c.from]
  <2>1. c = [at |-> "remove", path |-> p, level |-> x, from |-> y]
    OBVIOUS
  <2>2. d = [c EXCEPT !.level = K, !.path = q]
    BY <2>1
  <2> HIDE DEF p, x, y, q, K, d
  <2>3. d = [at |-> "remove", path |-> q, level |-> K, from |-> y]
    BY <2>1, <2>2
  <2> QED
    BY <2>3 DEF y
<1> HIDE DEF d, q
<1>7. Entered(c, d, k, b)
  BY <1>5, <1>2, <1>3, <1>4 DEF Entered
<1> QED
  BY <1>7 DEF d

LEMMA NextChild ==
  ASSUME NEW t, Shape(t), Low(t, {}), Filled(t, {}), NEW n \in Node, t[n].depth > 0,
         NEW i \in DOMAIN t[n].entries, NEW from \in Nat, Upward(t, n, i, from)
  PROVE  /\ t[n].entries[i].pblk \in Block /\ t[n].entries[i].pblk \in Node
         /\ t[t[n].entries[i].pblk].depth = t[n].depth - 1
         /\ i \in Nat /\ 1 \in DOMAIN t[t[n].entries[i].pblk].entries
         /\ \A m \in DOMAIN t[t[n].entries[i].pblk].entries :
              /\ from <= t[t[n].entries[i].pblk].entries[m].lblk
              /\ from < End(t[t[n].entries[i].pblk].entries[m])
<1> DEFINE e == t[n].entries[i]
           b == e.pblk
           C == t[b].entries
<1>1. e.lblk \in Nat /\ i \in Nat /\ i >= i
  BY EntryIs
<1>2. Index2(t, n, i, b)
  BY Zenon DEF Index2
<1>3. b \in Block /\ b \in Node /\ t[b].depth = t[n].depth - 1 /\ Linked(t, b)
  <2> HIDE DEF e, b
  <2>1. /\ b \in Block /\ b \in Node /\ t[b].depth = t[n].depth - 1 /\ b # n
        /\ t[n].entries[i].len = 0 /\ Holds(t[n].entries[i], b)
        /\ Has(t, n, b) /\ Linked(t, b) /\ b \in Owned(t)
    BY <1>2, IndexIs
  <2> QED
    BY <2>1, Zenon
<1>4. C # <<>>
  BY <1>3, Zenon DEF Filled
<1>5. \A m \in DOMAIN C : e.lblk <= C[m].lblk
  BY Zenon DEF Low
<1>6. from <= e.lblk
  BY <1>1, Zenon DEF Upward
<1> HIDE DEF e, b
<1>7. C \in Seq(Ent)
  BY <1>3, ShapeIs, Zenon
<1>8. ASSUME NEW m \in DOMAIN C
      PROVE  from <= C[m].lblk /\ from < End(C[m])
  <2>1. C[m].lblk \in Nat /\ End(C[m]) \in Nat /\ C[m].lblk < End(C[m])
    BY <1>3, EntryIs, Zenon
  <2>2. e.lblk <= C[m].lblk
    BY <1>5, Zenon
  <2> HIDE DEF C
  <2> QED
    BY <1>1, <1>6, <2>1, <2>2
<1>9. 1 \in DOMAIN C
  <2> HIDE DEF C
  <2> QED
    BY <1>4, <1>7, EntSeq
<1> QED
  BY <1>1, <1>3, <1>8, <1>9, Zenon DEF e, b, C

LEMMA RemoveDownKeeps ==
  ASSUME NEW hi, Whole(tree, hi, call, free, foreign), RemoveDown
  PROVE  \E h : Whole(tree', h, call', free', foreign')
<1> DEFINE k == call.level
<1>1. /\ call.at = "remove" /\ k \in 1 .. (Len(call.path) - 1) /\ MoreToRm(call.path[k])
      /\ call' = [call EXCEPT !.level = k + 1,
                   !.path[k + 1] = [n |-> Entry(call.path[k]).pblk, i |-> 1]]
      /\ tree' = tree /\ free' = free /\ foreign' = foreign
  BY DEF RemoveDown
<1>2. /\ Tree(tree, hi) /\ Shape(tree) /\ tree \in Trees /\ Parted(Owned(tree), free, foreign, {}, {})
      /\ Nodes(tree, {}) /\ RemoveOK(tree, call)
      /\ call = [at |-> call.at, path |-> call.path, level |-> call.level, from |-> call.from]
      /\ Len(call.path) \in Nat \ {0} /\ call.from \in Nat
      /\ Steps(tree, call.path, call.level) /\ Chain(tree, call.path, call.level - 1)
      /\ call.path[1].n = Root
  BY <1>1, RemoveFacts
<1>3. k = call.level
  OBVIOUS
<1> HIDE DEF k
<1> DEFINE h == call.path[k]
           n == h.n
           i == h.i
           E == tree[n].entries
           b == E[i].pblk
           C == tree[b].entries
<1>4. /\ k \in Nat \ {0} /\ k \in 1 .. Len(call.path) /\ n \in Node
      /\ i \in DOMAIN E /\ tree[n].depth = Len(call.path) - k
      /\ \A m \in DOMAIN E : m >= i => call.from <= E[m].lblk
      /\ Filled(tree, {})
  BY <1>1, <1>3, MoreFacts
<1> HIDE DEF h
<1>5. k + 1 \in 1 .. Len(call.path) /\ tree[n].depth > 0 /\ tree[n].depth # 0
  <2> DEFINE d == tree[n].depth
             L == Len(call.path)
  <2>1. k \in 1 .. (L - 1) /\ k \in Nat \ {0} /\ L \in Nat /\ d = L - k
    BY <1>1, <1>2, <1>4, Zenon
  <2> HIDE DEF d, L
  <2>2. k + 1 \in 1 .. L /\ d > 0 /\ d # 0
    BY <2>1
  <2> QED
    BY <2>2, Zenon DEF d, L
<1> HIDE DEF n, i
<1>6. /\ b \in Block /\ b \in Node /\ tree[b].depth = tree[n].depth - 1
      /\ i \in Nat /\ 1 \in DOMAIN C
      /\ \A m \in DOMAIN C : call.from <= C[m].lblk /\ call.from < End(C[m])
  <2>1. Upward(tree, n, i, call.from)
    BY <1>4, Zenon DEF Upward
  <2>2. Low(tree, {})
    BY <1>2, Zenon DEF Tree
  <2> QED
    BY <1>2, <1>4, <1>5, <2>1, <2>2, NextChild, Zenon
<1> HIDE DEF E, C
<1>11. Entered(call, call', k, b)
  <2>1. call.path \in [1 .. Len(call.path) -> [n : Node, i : Nat]]
    BY <1>2 DEF Steps
  <2>2. call = [at |-> "remove", path |-> call.path, level |-> call.level, from |-> call.from]
    BY <1>1, <1>2
  <2>3. call' = [call EXCEPT !.level = k + 1, !.path[k + 1] = [n |-> b, i |-> 1]]
    BY <1>1, Zenon DEF Entry, h, n, i, E
  <2> HIDE DEF b
  <2>4. Entered(call, [call EXCEPT !.level = k + 1, !.path[k + 1] = [n |-> b, i |-> 1]], k, b)
    BY <1>2, <1>4, <1>5, <1>6, <2>1, <2>2, EnteredIs, Zenon
  <2> QED
    BY <2>3, <2>4
<1> DEFINE p == call'.path
<1>12. /\ call' = [at |-> "remove", path |-> p, level |-> k + 1, from |-> call.from]
       /\ p \in [1 .. Len(call.path) -> [n : Node, i : Nat]] /\ Len(p) = Len(call.path)
       /\ \A j \in 1 .. k : p[j] = call.path[j]
       /\ p[k + 1].n = b /\ p[k + 1].i = 1
  BY <1>11 DEF Entered
<1>13. call'.at = "remove" /\ call'.level = k + 1 /\ call'.from = call.from
  <2> HIDE DEF p
  <2> QED
    BY <1>12
<1> HIDE DEF p, b
<1>14. Steps(tree, p, k + 1)
  <2>1. /\ Len(call.path) = tree[Root].depth + 1
        /\ \A j \in 1 .. call.level : tree[call.path[j].n].depth = Len(call.path) - j
    BY <1>2 DEF Steps
  <2>2. 1 \in 1 .. k
    BY <1>4
  <2>3. p[1].n = Root
    BY <1>2, <1>12, <2>2
  <2>4. \A j \in 1 .. (k + 1) : tree[p[j].n].depth = Len(p) - j
    <3> TAKE j \in 1 .. (k + 1)
    <3>1. CASE j \in 1 .. k
      BY <1>3, <1>12, <2>1, <3>1
    <3>2. CASE j = k + 1
      <4>1. tree[b].depth = Len(call.path) - k - 1
        BY <1>4, <1>6
      <4> QED
        BY <1>2, <1>4, <1>12, <3>2, <4>1
    <3> QED
      BY <1>4, <3>1, <3>2
  <2> QED
    BY <1>12, <2>1, <2>3, <2>4 DEF Steps
<1>15. Chain(tree, p, k)
  <2> SUFFICES ASSUME NEW j \in 1 .. k
               PROVE  /\ p[j].i \in DOMAIN tree[p[j].n].entries
                      /\ tree[p[j].n].entries[p[j].i].pblk = p[j + 1].n
    BY DEF Chain
  <2>1. CASE j = k
    BY <1>4, <1>12, <2>1 DEF b, E, n, i, h
  <2>2. CASE j # k
    <3>1. j \in 1 .. (call.level - 1) /\ j + 1 \in 1 .. k
      BY <1>3, <1>4, <2>2
    <3>2. p[j] = call.path[j] /\ p[j + 1] = call.path[j + 1]
      BY <1>12, <3>1
    <3> QED
      BY <1>2, <3>1, <3>2 DEF Chain
  <2> QED
    BY <2>1, <2>2
<1>16. \A j \in 1 .. k : \A m \in DOMAIN tree[p[j].n].entries :
           m > p[j].i => call.from <= tree[p[j].n].entries[m].lblk
  <2> SUFFICES ASSUME NEW j \in 1 .. k, NEW m \in DOMAIN tree[p[j].n].entries, m > p[j].i
               PROVE  call.from <= tree[p[j].n].entries[m].lblk
    OBVIOUS
  <2>1. p[j] = call.path[j]
    BY <1>12
  <2>2. CASE j = k
    <3>1. m \in DOMAIN E /\ m > i
      BY <2>1, <2>2 DEF E, n, i, h
    <3>2. m \in Nat
      BY <1>2, <1>4, <3>1, EntryIs DEF E
    <3>3. m >= i
      BY <1>6, <3>1, <3>2
    <3> QED
      BY <1>4, <2>1, <2>2, <3>1, <3>3 DEF E, n, i, h
  <2>3. CASE j # k
    <3>1. j \in 1 .. (call.level - 1)
      BY <1>3, <1>4, <2>3
    <3> QED
      BY <1>2, <2>1, <3>1 DEF RemoveOK, At
  <2> QED
    BY <2>2, <2>3
<1>17. RemoveOK(tree, call')
  <2> DEFINE K == k + 1
  <2>1. K \in Nat \ {0} /\ K - 1 = k /\ K \in 0 .. Len(p) /\ K > 0
    BY <1>4, <1>5, <1>12
  <2>2. /\ call' = [at |-> "remove", path |-> p, level |-> K, from |-> call.from]
        /\ call'.at = "remove" /\ call'.level = K /\ call'.from = call.from /\ call'.path = p
        /\ p[K].n = b /\ p[K].i = 1 /\ Steps(tree, p, K) /\ Chain(tree, p, K - 1)
        /\ \A j \in 1 .. (K - 1) : \A m \in DOMAIN tree[p[j].n].entries :
             m > p[j].i => call.from <= tree[p[j].n].entries[m].lblk
    BY <1>12, <1>13, <1>14, <1>15, <1>16, <2>1 DEF p
  <2> HIDE DEF K
  <2>3. /\ call' = [at |-> call'.at, path |-> call'.path, level |-> call'.level, from |-> call'.from]
        /\ Steps(tree, call'.path, call'.level) /\ call'.level \in 0 .. Len(call'.path)
        /\ call'.from \in Nat
        /\ Chain(tree, call'.path, call'.level - 1)
    BY <1>2, <2>1, <2>2
  <2>4. \A j \in 1 .. (call'.level - 1) : \A m \in DOMAIN At(tree, call', j) :
           m > call'.path[j].i => call'.from <= At(tree, call', j)[m].lblk
    BY <2>2 DEF At
  <2>5. /\ At(tree, call', call'.level) = C
        /\ call'.path[call'.level].i = 1
    BY <2>2, Zenon DEF At, C
  <2>6. /\ 1 \in DOMAIN C /\ call.from < End(C[1])
        /\ \A m \in DOMAIN C : call'.from <= C[m].lblk
    BY <1>6, <2>2
  <2>7. /\ call'.path[call'.level].i > 0
        /\ call'.path[call'.level].i \in DOMAIN At(tree, call', call'.level)
        /\ call'.from < End(At(tree, call', call'.level)[call'.path[call'.level].i])
        /\ \A m \in DOMAIN At(tree, call', call'.level) :
              m >= call'.path[call'.level].i => call'.from <= At(tree, call', call'.level)[m].lblk
    BY <2>2, <2>5, <2>6
  <2> QED
    BY <2>3, <2>4, <2>7 DEF RemoveOK
<1>18. Filled(tree, BareOf(call'))
  BY <1>4 DEF Filled
<1>19. Whole(tree, hi, call', free, foreign)
  BY <1>2, <1>13, <1>17, <1>18, RemoveWhole
<1> QED
  BY <1>1, <1>19

LEMMA KeepIs ==
  ASSUME NEW o \in Ent, o.len # 0, NEW l \in Nat, o.lblk < l, l < End(o)
  PROVE  FrontOf([o EXCEPT !.len = l - o.lblk], o)
<1> DEFINE e == [o EXCEPT !.len = l - o.lblk]
<1>1. o.lblk \in Nat /\ o.len \in Nat /\ o.pblk \in Nat
      /\ o = [lblk |-> o.lblk, len |-> o.len, pblk |-> o.pblk, unwritten |-> o.unwritten]
      /\ o.unwritten \in BOOLEAN
  BY DEF Ent
<1>2. l - o.lblk \in Nat /\ l - o.lblk # 0 /\ l < o.lblk + o.len
  BY <1>1 DEF End
<1>3. /\ e = [lblk |-> o.lblk, len |-> l - o.lblk, pblk |-> o.pblk, unwritten |-> o.unwritten]
  BY <1>1
<1> HIDE DEF e
<1>4. /\ e \in Ent /\ e.lblk = o.lblk /\ e.len = l - o.lblk /\ e.pblk = o.pblk
  BY <1>1, <1>2, <1>3 DEF Ent
<1> QED
  BY <1>2, <1>4, RootNode, <1>1 DEF Holds, End, FrontOf, e

LEMMA EndedBy ==
  ASSUME NEW F \in Seq(Ent), NEW e \in Ent
  PROVE  /\ F \o <<e>> \in Seq(Ent) /\ Len(F \o <<e>>) = Len(F) + 1
         /\ DOMAIN (F \o <<e>>) = 1 .. (Len(F) + 1)
         /\ \A k \in 1 .. Len(F) : (F \o <<e>>)[k] = F[k]
         /\ (F \o <<e>>)[Len(F) + 1] = e
<1>1. Len(F) \in Nat
  OBVIOUS
<1>2. <<e>> \in Seq(Ent) /\ Len(<<e>>) = 1 /\ <<e>>[1] = e
  OBVIOUS
<1> QED
  BY <1>1, <1>2

\* What a leaf keeps.
LEMMA LeftIs ==
  ASSUME NEW E \in Seq(Ent), NEW i \in DOMAIN E, E[i].len # 0, NEW l \in Nat, l < End(E[i])
  PROVE  /\ Left(E, i, l) \in Seq(Ent)
         /\ E[i].lblk < l =>
              \E e \in Ent : /\ FrontOf(e, E[i]) /\ \A x : x \in ToSet(Keep(E, i, l)) <=> x = e
                             /\ DOMAIN Left(E, i, l) = 1 .. i /\ Left(E, i, l)[i] = e
                             /\ \A k \in 1 .. (i - 1) : k \in DOMAIN E /\ Left(E, i, l)[k] = E[k]
         /\ ~(E[i].lblk < l) =>
              /\ \A x : x \notin ToSet(Keep(E, i, l))
              /\ Left(E, i, l) = SubSeq(E, 1, i - 1)
<1> DEFINE F == SubSeq(E, 1, i - 1)
           e == [E[i] EXCEPT !.len = l - E[i].lblk]
<1>1. Len(E) \in Nat /\ DOMAIN E = 1 .. Len(E) /\ E[i] \in Ent /\ i \in Nat \ {0} /\ i - 1 \in Nat
  BY EntSeq
<1>2. /\ F \in Seq(Ent) /\ DOMAIN F = 1 .. (i - 1)
      /\ \A k \in 1 .. (i - 1) : k \in DOMAIN E /\ F[k] = E[k]
  BY PrefixThins
<1> HIDE DEF F
<1>3. Len(F) = i - 1
  <2>1. DOMAIN F = 1 .. Len(F) /\ Len(F) \in Nat
    BY <1>2, EntSeq
  <2> DEFINE a == i - 1
             b == Len(F)
  <2>2. a \in Nat /\ b \in Nat /\ 1 .. a = 1 .. b
    BY <1>1, <1>2, <2>1
  <2> HIDE DEF a, b
  <2>5. (a \in 1 .. b \/ a = 0) /\ (b \in 1 .. a \/ b = 0)
    BY <2>2
  <2>6. a = b
    BY <2>2, <2>5
  <2> QED
    BY <2>6 DEF a, b
<1>4. CASE E[i].lblk < l
  <2>1. FrontOf(e, E[i])
    BY <1>1, <1>4, KeepIs
  <2>2. Keep(E, i, l) = <<e>>
    BY <1>4 DEF Keep
  <2> HIDE DEF e
  <2>3. e \in Ent
    BY <2>1 DEF FrontOf
  <2>5. Left(E, i, l) = F \o <<e>>
    BY <2>2 DEF Left, F
  <2>6. /\ F \o <<e>> \in Seq(Ent) /\ Len(F \o <<e>>) = Len(F) + 1
        /\ DOMAIN (F \o <<e>>) = 1 .. (Len(F) + 1)
        /\ \A k \in 1 .. Len(F) : (F \o <<e>>)[k] = F[k]
        /\ (F \o <<e>>)[Len(F) + 1] = e
    BY <1>2, <2>3, EndedBy
  <2>7. Len(F) + 1 = i
    BY <1>1, <1>3
  <2>8. /\ Left(E, i, l) \in Seq(Ent) /\ DOMAIN Left(E, i, l) = 1 .. i /\ Left(E, i, l)[i] = e
        /\ \A k \in 1 .. (i - 1) : k \in DOMAIN E /\ Left(E, i, l)[k] = E[k]
    BY <1>2, <1>3, <2>5, <2>6, <2>7
  <2> QED
    BY <2>2, <1>4, <2>1, <2>3, <2>8 DEF ToSet
<1>5. CASE ~(E[i].lblk < l)
  BY <1>5, <1>2, ConcatEmptySeq DEF Keep, ToSet, Left, F
<1> QED
  BY <1>4, <1>5

\* An extent of the leaf that is kept in part.
LEMMA CutInside ==
  ASSUME NEW t, NEW hi, Tree(t, hi), t \in Trees, NEW n \in Node, t[n].depth = 0,
         NEW i \in DOMAIN t[n].entries, NEW e, FrontOf(e, t[n].entries[i]),
         NEW G \in Seq(Ent), DOMAIN G = 1 .. i, G[i] = e,
         \A k \in 1 .. (i - 1) : k \in DOMAIN t[n].entries /\ G[k] = t[n].entries[k]
  PROVE  Shorn(t, hi, With(t, n, G), n, G)
<1> DEFINE E == t[n].entries
           F == [E EXCEPT ![i] = e]
           w == With(t, n, F)
           v == With(w, n, G)
<1>1. Shape(t) /\ Apart(t) /\ E \in Seq(Ent) /\ Len(E) \in Nat /\ DOMAIN E = 1 .. Len(E) /\ i \in Nat \ {0}
  <2>1. Shape(t) /\ Apart(t)
    BY DEF Tree
  <2>2. E \in Seq(Ent) /\ Len(E) \in Nat /\ DOMAIN E = 1 .. Len(E)
    BY <2>1, ShapeIs
  <2>3. i \in DOMAIN E
    OBVIOUS
  <2> HIDE DEF E
  <2> QED
    BY <2>1, <2>2, <2>3
<1>2. /\ e \in Ent /\ e.len # 0 /\ e.lblk = t[n].entries[i].lblk
      /\ End(e) <= End(t[n].entries[i])
      /\ \A b \in Block : Holds(e, b) => Holds(t[n].entries[i], b)
  BY DEF FrontOf
<1>3. Shortened(t, hi, w, n, i, e)
  BY <1>2, Shorten
<1>4. /\ Tree(w, hi) /\ w \in Trees
      /\ w[n].entries = F /\ DOMAIN w[n].entries = DOMAIN E /\ w[n].entries[i] = e
      /\ \A m \in Node : w[m].depth = t[m].depth
      /\ \A m \in Node : m # n => w[m] = t[m]
      /\ \A b \in Block : b \in Owned(w) <=>
          b \in Owned(t) /\ (Holds(t[n].entries[i], b) => Holds(e, b))
      /\ \A b \in Block : Linked(w, b) <=> Linked(t, b)
  BY <1>3 DEF Shortened
<1>5. \A k \in DOMAIN E : k # i => w[n].entries[k] = E[k]
  BY <1>4
<1> HIDE DEF w, F
<1>6. \A k \in DOMAIN G : k \in DOMAIN w[n].entries /\ G[k] = w[n].entries[k]
  <2> TAKE k \in DOMAIN G
  <2>1. CASE k = i
    BY <1>4, <2>1
  <2>2. CASE k # i
    BY <1>1, <2>2, <1>4, <1>5
  <2> QED
    BY <2>1, <2>2
<1>7. Thins(w[n].entries, G)
  <2> DEFINE s == [k \in DOMAIN G |-> k]
  <2>1. \A k \in DOMAIN G : s[k] = k
    OBVIOUS
  <2> HIDE DEF s
  <2> QED
    BY <1>6, <2>1 DEF Thins
<1>8. Thinned(w, hi, v, n, G)
  BY <1>4, <1>7, Thin
<1>9. v = With(t, n, G)
  <2>1. w = [t EXCEPT ![n] = [depth |-> t[n].depth, entries |-> F]]
    BY DEF w, With, Replace
  <2>2. v = [w EXCEPT ![n] = [depth |-> w[n].depth, entries |-> G]]
    BY DEF With, Replace
  <2>3. w[n].depth = t[n].depth
    BY <1>4
  <2> DEFINE a == [depth |-> t[n].depth, entries |-> F]
             c == [depth |-> t[n].depth, entries |-> G]
  <2>4. w = [t EXCEPT ![n] = a] /\ v = [w EXCEPT ![n] = c]
    BY <2>1, <2>2, <2>3
  <2>5. With(t, n, G) = [t EXCEPT ![n] = c]
    BY DEF With, Replace
  <2>6. DOMAIN t = Node
    BY DEF Trees
  <2> HIDE DEF a, c, v
  <2> QED
    BY <2>4, <2>6, <2>5
<1> HIDE DEF v
<1>10. /\ Tree(v, hi) /\ v \in Trees /\ v[n].entries = G
       /\ \A m \in Node : v[m].depth = w[m].depth
       /\ \A m \in Node : m # n => v[m] = w[m]
       /\ \A b \in Block : b \in Owned(v) <=> b \in Owned(w) /\ (Has(w, n, b) => Hold(G, b))
       /\ \A b \in Block : Linked(v, b) <=>
             Linked(w, b) /\ (w[n].depth > 0 /\ Has(w, n, b) => Hold(G, b))
  BY <1>8 DEF Thinned
<1>11. \A b \in Block : Linked(v, b) <=> Linked(t, b)
  BY <1>4, <1>10
<1>12. ASSUME NEW b \in Block
       PROVE  b \in Owned(v) <=> b \in Owned(t) /\ (Has(t, n, b) => Hold(G, b))
  <2>1. \A j, k \in DOMAIN E : Holds(E[j], b) /\ Holds(E[k], b) => j = k
    BY <1>1 DEF Apart
  <2>2. Has(w, n, b) <=> \E k \in DOMAIN E : Holds(w[n].entries[k], b)
    BY <1>4 DEF Has, Hold
  <2>3. Has(t, n, b) <=> \E k \in DOMAIN E : Holds(E[k], b)
    BY DEF Has, Hold
  <2>4. i \in DOMAIN E /\ (Holds(e, b) => Holds(E[i], b))
    BY <1>2
  <2>5. Holds(e, b) => Hold(G, b)
    BY <1>1 DEF Hold
  <2>6. Hold(G, b) => Has(w, n, b)
    BY <1>6 DEF Hold, Has
  <2>7. b \in Owned(v) <=> b \in Owned(t) /\ (Holds(E[i], b) => Holds(e, b)) /\ (Has(w, n, b) => Hold(G, b))
    BY <1>4, <1>10
  <2> HIDE DEF E
  <2>8. CASE Holds(E[i], b)
    BY <2>3, <2>4, <2>8, <2>1, <1>5, <1>4, <2>2, <2>5, <2>6, <2>7
  <2>9. CASE ~Holds(E[i], b)
    BY <2>4, <2>9, <1>4, <1>5, <2>2, <2>3, <2>7
  <2> QED
    BY <2>8, <2>9
<1> QED
  BY <1>4, <1>10, <1>11, <1>12, <1>9 DEF Shorn

\* ext4_ext_remove_leaf's change of the leaf.
LEMMA CutIs ==
  ASSUME NEW t, NEW hi, Tree(t, hi), t \in Trees, NEW n \in Node, t[n].depth = 0,
         NEW i \in DOMAIN t[n].entries, NEW l \in Nat, l < End(t[n].entries[i])
  PROVE  LeafCut(t, hi, With(t, n, Left(t[n].entries, i, l)), n, i, l)
<1> DEFINE E == t[n].entries
           G == Left(E, i, l)
           v == With(t, n, G)
           A == Gone(E, i, l)
<1>1. Shape(t) /\ Apart(t)
  BY DEF Tree
<1>2. E \in Seq(Ent) /\ Len(E) \in Nat /\ DOMAIN E = 1 .. Len(E) /\ i \in DOMAIN E
  BY <1>1, ShapeIs
<1>3. E[i].len # 0
  BY <1>1, EntryIs
<1>4. \A b \in Block : \A j, k \in DOMAIN E : Holds(E[j], b) /\ Holds(E[k], b) => j = k
  BY <1>1 DEF Apart
<1>5. \A b : Hold(E, b) <=> Has(t, n, b)
  BY DEF Has
<1>6. \A b \in Block : Has(t, n, b) => b \in Owned(t)
  BY DEF Owned
<1>7. l < End(E[i])
  OBVIOUS
<1> HIDE DEF E
<1>8. /\ G \in Seq(Ent)
      /\ E[i].lblk < l =>
           \E e \in Ent : /\ FrontOf(e, E[i]) /\ \A x : x \in ToSet(Keep(E, i, l)) <=> x = e
                          /\ DOMAIN Left(E, i, l) = 1 .. i /\ Left(E, i, l)[i] = e
                          /\ \A k \in 1 .. (i - 1) : k \in DOMAIN E /\ Left(E, i, l)[k] = E[k]
      /\ ~(E[i].lblk < l) =>
           /\ \A x : x \notin ToSet(Keep(E, i, l))
           /\ Left(E, i, l) = SubSeq(E, 1, i - 1)
  BY <1>2, <1>3, <1>7, LeftIs
<1>9. i \in Nat \ {0} /\ i <= Len(E)
  BY <1>2
<1>10. \A b \in Block : b \in A <=> \E j \in DOMAIN E : j >= i /\ Holds(E[j], b)
                                       /\ ~\E e \in ToSet(Keep(E, i, l)) : Holds(e, b)
  BY <1>2, <1>9 DEF Gone
<1> HIDE DEF A
<1>12. A \subseteq Owned(t)
  BY <1>5, <1>6, <1>10 DEF A, Gone, Hold
<1>13. CASE E[i].lblk < l
  <2>1. PICK e \in Ent : /\ FrontOf(e, E[i]) /\ \A x : x \in ToSet(Keep(E, i, l)) <=> x = e
                         /\ DOMAIN G = 1 .. i /\ G[i] = e
                         /\ \A k \in 1 .. (i - 1) : k \in DOMAIN E /\ G[k] = E[k]
    BY <1>8, <1>13
  <2> HIDE DEF G
  <2>2. /\ Tree(v, hi) /\ v \in Trees /\ v[n].entries = G
        /\ \A m \in Node : v[m].depth = t[m].depth
        /\ \A m \in Node : m # n => v[m] = t[m]
        /\ \A b \in Block : Linked(v, b) <=> Linked(t, b)
        /\ \A b \in Block : b \in Owned(v) <=>
                      b \in Owned(t) /\ (Has(t, n, b) => Hold(G, b))
    <3>3. Shorn(t, hi, v, n, G)
      BY <2>1, <1>8, CutInside DEF E
    <3> HIDE DEF v
    <3> QED
      BY <3>3 DEF Shorn
  <2>3. ASSUME NEW b \in Block
        PROVE  b \in A <=> Has(t, n, b) /\ ~Hold(G, b)
    <3>1. b \in A <=> \E j \in DOMAIN E : j >= i /\ Holds(E[j], b) /\ ~Holds(e, b)
      BY <1>10, <2>1
    <3>2. Hold(G, b) <=> Holds(e, b) \/ \E k \in DOMAIN E : ~(k >= i) /\ Holds(E[k], b)
      <4>2. \A k \in DOMAIN E : ~(k >= i) => G[k] = E[k]
        <5> TAKE k \in DOMAIN E
        <5> HAVE ~(k >= i)
        <5> QED
          BY <1>2, <1>9, <2>1
      <4> QED
        BY <2>1, <1>2, <1>9, <4>2 DEF Hold
    <3>3. Holds(e, b) => Holds(E[i], b)
      BY <2>1 DEF FrontOf
    <3>4. i >= i /\ i \in DOMAIN E
      BY <1>2, <1>9
    <3>5. Has(t, n, b) <=> \E k \in DOMAIN E : Holds(E[k], b)
      BY <1>5 DEF Hold
    <3>7. CASE b \in A
      <4>1. PICK j \in DOMAIN E : j >= i /\ Holds(E[j], b) /\ ~Holds(e, b)
        BY <3>1, <3>7
      <4> QED
        BY <1>4, <3>2, <3>5, <4>1, <3>7
    <3>8. CASE Has(t, n, b) /\ ~Hold(G, b)
      <4>1. PICK k \in DOMAIN E : Holds(E[k], b)
        BY <3>5, <3>8
      <4> QED
        BY <3>2, <3>8, <4>1, <3>1
    <3> QED
      BY <3>7, <3>8
  <2>4. \A b \in Block : b \in Owned(v) <=> b \in Owned(t) /\ b \notin A
    BY <2>2, <2>3
  <2>6. LeafCut(t, hi, v, n, i, l)
    BY <1>2, <1>9, <2>1, <1>12, <2>2, <2>4 DEF FrontOf, LeafCut, G, E, A
  <2> QED
    BY <2>6 DEF G, E
<1>14. CASE ~(E[i].lblk < l)
  <2>1. (\A x : x \notin ToSet(Keep(E, i, l))) /\ G = SubSeq(E, 1, i - 1)
    BY <1>8, <1>14
  <2>2. /\ Thins(E, G) /\ DOMAIN G = 1 .. (i - 1)
        /\ \A k \in 1 .. (i - 1) : k \in DOMAIN E /\ G[k] = E[k]
    BY <1>2, <2>1, PrefixThins
  <2> HIDE DEF G
  <2>4. /\ Tree(v, hi) /\ v \in Trees /\ v[n].entries = G
        /\ \A m \in Node : v[m].depth = t[m].depth
        /\ \A m \in Node : m # n => v[m] = t[m]
        /\ \A b \in Block : b \in Owned(v) <=> b \in Owned(t) /\ (Has(t, n, b) => Hold(G, b))
        /\ \A b \in Block : Linked(v, b) <=>
              Linked(t, b) /\ (t[n].depth > 0 /\ Has(t, n, b) => Hold(G, b))
    BY <2>2, <1>8, Thin DEF E, Thinned
  <2>6. ASSUME NEW b \in Block
        PROVE  b \in A <=> Has(t, n, b) /\ ~Hold(G, b)
    <3>1. b \in A <=> \E j \in DOMAIN E : j >= i /\ Holds(E[j], b)
      BY <1>10, <2>1
    <3>2. Hold(G, b) <=> \E k \in DOMAIN E : ~(k >= i) /\ Holds(E[k], b)
      BY <1>2, <1>9, <2>2 DEF Hold
    <3>3. Has(t, n, b) <=> \E k \in DOMAIN E : Holds(E[k], b)
      BY <1>5 DEF Hold
    <3>4. \A j, k \in DOMAIN E : Holds(E[j], b) /\ Holds(E[k], b) => j = k
      BY <1>4
    <3> QED
      BY <3>1, <3>2, <3>3, <3>4
  <2>8. G # <<>> => 1 \in DOMAIN E /\ 1 \in DOMAIN G /\ G[1].lblk = E[1].lblk
    BY <1>8, EntSeq, <1>9, <2>2 DEF G
  <2>9. LeafCut(t, hi, v, n, i, l)
    BY <2>4, <2>6, <1>12, <2>8 DEF LeafCut, G, E, A
  <2> QED
    BY <2>9 DEF G, E
<1> QED
  BY <1>13, <1>14

LEMMA LeafStarts ==
  ASSUME NEW hi, Whole(tree, hi, call, free, foreign), RemoveLeaf
  PROVE  \E k, n, i, G, gone, cut : LeafState(hi, k, n, i, G, gone, cut)
<1> DEFINE k == Len(call.path)
           n == call.path[k].n
           i == call.path[k].i
           G == Left(tree[n].entries, i, call.from)
           gone == Gone(tree[n].entries, i, call.from)
           cut == [tree EXCEPT ![n].entries = G]
<1>0. /\ G = <<>> /\ k > 1 =>
           /\ tree' = RemoveIdx(cut, call.path, k - 1)
           /\ free' = free \cup gone \cup {n}
           /\ call' = Raised(call, k)
      /\ ~(G = <<>> /\ k > 1) =>
           /\ tree' = IF i = 1 /\ G # <<>> THEN SetFirst(cut, call.path, k, G[1].lblk) ELSE cut
           /\ free' = free \cup gone
           /\ call' = StepUp(call.path, k)
      /\ foreign' = foreign
  BY Zenon DEF RemoveLeaf, Left, Keep, Gone, Raised
<1>1. call.at = "remove" /\ call.level = k
  BY Zenon DEF RemoveLeaf
<1>2. /\ Tree(tree, hi) /\ Shape(tree) /\ tree \in Trees /\ Parted(Owned(tree), free, foreign, {}, {})
      /\ Filled(tree, BareOf(call)) /\ RemoveOK(tree, call)
      /\ Len(call.path) \in Nat \ {0} /\ call.from \in Nat
      /\ Steps(tree, call.path, call.level) /\ Chain(tree, call.path, call.level - 1)
      /\ \A j \in 1 .. Len(call.path) : call.path[j].n \in Node /\ call.path[j].i \in Nat
      /\ call.path[1].n = Root
      /\ tree[Root].entries = <<>> /\ call.level # 0 /\ call.level # 1 => tree[Root].depth = 0
  BY <1>1, RemoveFacts
<1>3. k \in Nat \ {0} /\ k \in 1 .. Len(call.path) /\ call.level > 0 /\ k \in 1 .. call.level
  BY <1>1, <1>2
<1>4. n \in Node /\ tree[n].depth = 0
  <2> QED
    BY <1>2, <1>3 DEF Steps
<1>5. i \in DOMAIN tree[n].entries /\ call.from < End(tree[n].entries[i])
  BY <1>1, <1>2, <1>3 DEF RemoveOK, At
<1>12. n = call.path[k].n /\ k = Len(call.path)
  OBVIOUS
<1>13. G = Left(tree[n].entries, i, call.from) /\ gone = Gone(tree[n].entries, i, call.from)
       /\ cut = [tree EXCEPT ![n].entries = G]
  OBVIOUS
<1>14. k \in 1 .. Len(call.path) /\ call.path[k] = Tip(call.path) /\ i = call.path[k].i
  BY <1>3 DEF Tip
<1> HIDE DEF k, n, i, gone, cut, G
<1>6. IsPath(tree, call.path)
  BY <1>5, <1>1, <1>2, <1>12, <1>14 DEF IsPath
<1>7. RootOK(tree)
  BY <1>2, RootNode, ShapeIs, <1>12, <1>1, <1>3 DEF Steps, RootOK
<1>8. Filled(tree, {n})
  BY <1>1, <1>3, <1>2, <1>12 DEF BareOf
<1>9. LeafCut(tree, hi, With(tree, n, Left(tree[n].entries, i, call.from)), n, i, call.from)
  BY <1>2, <1>4, <1>5, CutIs
<1>10. LeafCut(tree, hi, cut, n, i, call.from)
  <2>1. G \in Seq(Ent)
    BY <1>9, <1>4, <1>13 DEF LeafCut, Trees
  <2>2. [tree EXCEPT ![n].entries = G] = With(tree, n, G)
    BY <1>2, <1>4, <2>1, WithIs
  <2>3. cut = With(tree, n, Left(tree[n].entries, i, call.from))
    BY <1>13, <2>2
  <2> QED
    BY <1>9, <2>3
<1>11. Parted(Owned(cut), free \cup gone, foreign, {}, {})
  <2>1. /\ \A b \in Block : b \in Owned(cut) <=> b \in Owned(tree) /\ b \notin gone
        /\ gone \subseteq Owned(tree)
    BY <1>10, <1>13, Zenon DEF LeafCut
  <2>2. Owned(cut) = Owned(tree) \ gone
    BY <2>1 DEF Owned
  <2> QED
    BY <1>2, <2>1, <2>2 DEF Parted
<1>15. LeafState(hi, k, n, i, G, gone, cut)
  BY <1>0, <1>1, <1>3, <1>4, <1>5, <1>6, <1>7, <1>8, <1>10, <1>11, <1>12, <1>13, Zenon DEF LeafState
<1> QED
  BY <1>15

LEMMA RemoveLeafKeeps ==
  ASSUME NEW hi, Whole(tree, hi, call, free, foreign), RemoveLeaf
  PROVE  \E h : Whole(tree', h, call', free', foreign')
<1>1. PICK k, n, i, G, gone, cut : LeafState(hi, k, n, i, G, gone, cut)
  BY LeafStarts
<1>2. /\ IsPath(tree, call.path) /\ RootOK(tree) /\ Filled(tree, {n})
      /\ k \in Nat \ {0} /\ call.level = k /\ call.at = "remove"
      /\ n \in Node /\ i \in DOMAIN tree[n].entries
      /\ LeafCut(tree, hi, cut, n, i, call.from) /\ G = Left(tree[n].entries, i, call.from)
      /\ Parted(Owned(cut), free \cup gone, foreign, {}, {})
  BY <1>1, Zenon DEF LeafState
<1>3. /\ Tree(tree, hi) /\ Shape(tree) /\ tree \in Trees
      /\ Nodes(tree, {}) /\ RemoveOK(tree, call)
      /\ Steps(tree, call.path, call.level) /\ Chain(tree, call.path, call.level - 1)
      /\ call.path[1].n = Root
  BY <1>2, RemoveFacts
<1>4. /\ Tree(cut, hi) /\ cut \in Trees /\ cut[n].entries = G
      /\ \A m \in Node : cut[m].depth = tree[m].depth
      /\ \A m \in Node : m # n => cut[m] = tree[m]
      /\ \A b \in Block : Linked(cut, b) <=> Linked(tree, b)
      /\ G # <<>> => 1 \in DOMAIN tree[n].entries /\ 1 \in DOMAIN G
                     /\ G[1].lblk = tree[n].entries[1].lblk
  BY <1>2 DEF LeafCut
<1>6. /\ G = <<>> /\ k > 1 =>
           /\ tree' = RemoveIdx(cut, call.path, k - 1)
           /\ free' = free \cup gone \cup {n}
           /\ call' = Raised(call, k)
      /\ ~(G = <<>> /\ k > 1) =>
           /\ tree' = IF i = 1 /\ G # <<>> THEN SetFirst(cut, call.path, k, G[1].lblk) ELSE cut
           /\ free' = free \cup gone
           /\ call' = StepUp(call.path, k)
      /\ foreign' = foreign
  BY <1>1, Zenon DEF LeafState
<1>7. n = call.path[k].n /\ k = Len(call.path)
  BY <1>1, Zenon DEF LeafState
<1>8. CASE G = <<>> /\ k > 1
  <2> DEFINE f == free \cup gone
  <2>1. /\ \A m \in Node : m # call.path[k].n => cut[m] = tree[m]
        /\ cut[call.path[k].n].depth = tree[call.path[k].n].depth
        /\ cut[call.path[k].n].entries = <<>>
        /\ call' = Raised(call, k) /\ k > 1 /\ Parted(Owned(cut), f, foreign, {}, {})
    BY <1>2, <1>4, <1>6, <1>7, <1>8, Zenon
  <2> HIDE DEF f
  <2>2. Whole(RemoveIdx(cut, call.path, k - 1), hi, call', f \cup {call.path[k].n}, foreign)
    BY <1>2, <1>4, <2>1, Unlinks
  <2>3. free' = f \cup {call.path[k].n}
    BY <1>6, <1>7, <1>8 DEF f
  <2> QED
    BY <1>6, <1>8, <2>2, <2>3
<1>9. CASE ~(G = <<>> /\ k > 1)
  <2>1. /\ \A j \in 1 .. Len(call.path) : call.path[j].n \in Node
        /\ \A x, y \in 1 .. Len(call.path) : call.path[x].n = call.path[y].n => x = y
    BY <1>2, <1>3, PathIs
  <2>2. \A j \in 1 .. (k - 1) : /\ call.path[j].n \in Node /\ call.path[j].n # n
                                /\ cut[call.path[j].n] = tree[call.path[j].n]
    <3> TAKE j \in 1 .. (k - 1)
    <3>1. j \in 1 .. Len(call.path) /\ k \in 1 .. Len(call.path) /\ j # k
      BY <1>2, <1>7
    <3>2. call.path[j].n \in Node /\ call.path[j].n # n
      BY <1>7, <2>1, <3>1
    <3> QED
      BY <1>4, <3>2
  <2>3. Reset(cut, hi, tree', call.path, k)
    <3>1. CASE i = 1 /\ G # <<>>
      <4>1. 1 \in DOMAIN tree[n].entries /\ 1 \in DOMAIN G /\ G[1].lblk = tree[n].entries[1].lblk
        BY <1>4, <3>1
      <4>2. \A m \in DOMAIN cut[n].entries : tree[n].entries[1].lblk <= cut[n].entries[m].lblk
        <5> SUFFICES ASSUME NEW m \in DOMAIN G PROVE G[1].lblk <= G[m].lblk
          BY <1>4, <4>1
        <5>1. Shape(cut) /\ Order(cut, hi)
          BY <1>4 DEF Tree
        <5>2. G[1].lblk \in Nat /\ G[1].lblk < End(G[1]) /\ End(G[1]) \in Nat /\ m \in Nat /\ m >= 1
              /\ G[m].lblk \in Nat
          BY <1>2, <1>4, <4>1, <5>1, EntryIs
        <5>3. CASE m = 1
          BY <5>2, <5>3
        <5>4. CASE m # 1
          <6>1. 1 < m
            BY <5>2, <5>4
          <6>2. End(G[1]) <= G[m].lblk
            BY <1>2, <1>4, <4>1, <5>1, <6>1 DEF Order
          <6> QED
            BY <5>2, <6>2
        <5> QED
          BY <5>3, <5>4
      <4> DEFINE q == 1
      <4>3. /\ q \in DOMAIN tree[call.path[k].n].entries
            /\ \A m \in DOMAIN cut[call.path[k].n].entries :
                 tree[call.path[k].n].entries[q].lblk <= cut[call.path[k].n].entries[m].lblk
            /\ tree' = SetFirst(cut, call.path, k, tree[call.path[k].n].entries[q].lblk)
        BY <1>6, <1>7, <1>9, <3>1, <4>1, <4>2, Zenon
      <4>4. /\ Tree(tree, hi) /\ Tree(cut, hi) /\ cut \in Trees
            /\ k \in Nat \ {0} /\ k <= Len(call.path)
            /\ Steps(tree, call.path, k) /\ Chain(tree, call.path, k - 1)
            /\ cut[Root].depth = tree[Root].depth
            /\ \A j \in 1 .. (k - 1) : cut[call.path[j].n] = tree[call.path[j].n]
            /\ cut[call.path[k].n].depth = tree[call.path[k].n].depth
        BY <1>2, <1>3, <1>4, <1>7, <2>2, RootNode
      <4> HIDE DEF q
      <4>5. Reset(cut, hi, SetFirst(cut, call.path, k, tree[call.path[k].n].entries[q].lblk), call.path, k)
        BY <4>3, <4>4, Rekey, Zenon
      <4> QED
        BY <4>3, <4>5, Zenon
    <3>2. CASE ~(i = 1 /\ G # <<>>)
      <4>1. tree' = cut
        BY <1>6, <1>9, <3>2
      <4>2. Reset(cut, hi, cut, call.path, k)
        BY <1>4, NoReset
      <4> QED
        BY <4>1, <4>2
    <3> QED
      BY <3>1, <3>2
  <2> DEFINE v == tree'
  <2>4. /\ Tree(v, hi) /\ v \in Trees /\ Owned(v) = Owned(cut)
        /\ \A b \in Block : Linked(v, b) <=> Linked(cut, b)
        /\ \A m \in Node : v[m] = cut[m] \/ \E j \in 1 .. (k - 1) : call.path[j].n = m
        /\ \A m \in Node : v[m].entries = <<>> <=> cut[m].entries = <<>>
        /\ \A m \in Node : v[m].depth = cut[m].depth
        /\ v[n] = cut[n]
        /\ Kept(cut, v, call.path, k)
    BY <1>7, <2>3 DEF Reset
  <2> HIDE DEF v
  <2>5. Kept(tree, v, call.path, k)
    <3>1. /\ \A j \in 1 .. (k - 1) :
               /\ DOMAIN v[call.path[j].n].entries = DOMAIN cut[call.path[j].n].entries
               /\ \A q \in DOMAIN cut[call.path[j].n].entries :
                    /\ v[call.path[j].n].entries[q].pblk = cut[call.path[j].n].entries[q].pblk
                    /\ q # call.path[j].i =>
                          v[call.path[j].n].entries[q].lblk = cut[call.path[j].n].entries[q].lblk
      BY <2>4 DEF Kept
    <3>2. \A j \in 1 .. k : v[call.path[j].n].depth = tree[call.path[j].n].depth
      <4> TAKE j \in 1 .. k
      <4>1. j \in 1 .. Len(call.path)
        BY <1>7
      <4> QED
        BY <1>4, <2>1, <2>4, <4>1
    <3>3. v[Root].depth = tree[Root].depth
      BY <1>4, <2>4, RootNode
    <3>4. ASSUME NEW j \in 1 .. (k - 1)
          PROVE  /\ DOMAIN v[call.path[j].n].entries = DOMAIN tree[call.path[j].n].entries
                 /\ \A q \in DOMAIN tree[call.path[j].n].entries :
                      /\ v[call.path[j].n].entries[q].pblk = tree[call.path[j].n].entries[q].pblk
                      /\ q # call.path[j].i =>
                          v[call.path[j].n].entries[q].lblk = tree[call.path[j].n].entries[q].lblk
      <4>1. cut[call.path[j].n] = tree[call.path[j].n]
        BY <2>2
      <4> QED
        BY <3>1, <4>1
    <3> QED
      BY <3>2, <3>3, <3>4 DEF Kept
  <2>6. /\ RemoveOK(v, call') /\ call'.at = "remove"
    <3>1. call' = StepUp(call.path, k)
      BY <1>6, <1>9
    <3> QED
      BY <1>2, <2>5, <3>1, StepUpOK
  <2>7. /\ Nodes(v, {}) /\ (v[n].entries # <<>> => Filled(v, {n} \ {n})) /\ Filled(v, {n} \cup {n})
    <3>1. Tip(call.path).n = n /\ \A j \in 1 .. (k - 1) : j \in 1 .. Len(call.path)
          /\ Len(call.path) \in 1 .. Len(call.path)
      BY <1>2, <1>7 DEF Tip
    <3>2. \A b \in Block : Linked(v, b) <=> Linked(tree, b)
      BY <1>4, <2>4
    <3>3. \A m \in Node : v[m] = tree[m] \/ \E j \in 1 .. Len(call.path) : call.path[j].n = m
      <4>1. k \in 1 .. Len(call.path)
        BY <1>2, <1>7
      <4> QED
        BY <1>4, <1>7, <2>4, <3>1, <4>1
    <3>4. \A m \in Node : v[m].entries = <<>> => tree[m].entries = <<>> \/ m = Tip(call.path).n
      BY <1>4, <2>4, <3>1
    <3>5. v[Root].depth = tree[Root].depth
      BY <1>4, <2>4, RootNode
    <3> DEFINE X == {}
               Y == {n}
    <3>6. Nodes(tree, X) /\ Filled(tree, Y)
      BY <1>2, <1>3
    <3> HIDE DEF X, Y
    <3>7. /\ RootOK(v) /\ Nodes(v, X)
          /\ v[Tip(call.path).n].entries # <<>> => Filled(v, Y \ {Tip(call.path).n})
          /\ Filled(v, Y \cup {Tip(call.path).n})
      BY <1>2, <1>3, <2>4, <3>2, <3>3, <3>4, <3>5, <3>6, PathChanged
    <3> QED
      BY <3>1, <3>7 DEF X, Y
  <2>8. Filled(v, {})
    <3>1. CASE v[n].entries # <<>>
      <4>1. {n} \ {n} = {}
        OBVIOUS
      <4> QED
        BY <2>7, <3>1, <4>1
    <3>2. CASE v[n].entries = <<>>
      <4>1. G = <<>>
        BY <1>4, <2>4, <3>2
      <4>2. k = 1
        BY <1>2, <1>9, <4>1
      <4>3. n = Root
        BY <1>3, <1>7, <4>2
      <4> QED
        BY <2>7, <4>3, RootNode DEF Filled
    <3> QED
      BY <3>1, <3>2
  <2>9. Filled(v, BareOf(call'))
    BY <2>8 DEF Filled
  <2>10. Parted(Owned(v), free', foreign', {}, {})
    BY <1>2, <1>6, <1>9, <2>4
  <2>11. Whole(v, hi, call', free', foreign')
    BY <2>4, <2>6, <2>7, <2>9, <2>10, RemoveWhole
  <2> QED
    BY <2>11 DEF v
<1> QED
  BY <1>8, <1>9

-----------------------------------------------------------------------------
(* The tree that another system has made, and every step.                  *)

LEMMA InitTree == Init => TreeInv
<1> SUFFICES ASSUME Init PROVE TreeInv
  OBVIOUS
<1>0. FileBlocks \in Nat
  BY TreeAssumption
<1>20. PICK n \in 0 .. RootMax :
        \E E \in [1 .. n -> MadeElsewhere], F \in ForeignSets :
        LET used == {b \in Block : \E k \in 1 .. n : Holds(E[k], b)} IN
        /\ \A j, k \in 1 .. n : j < k =>
              /\ E[j].lblk + E[j].len <= E[k].lblk
              /\ \A b \in Block : ~(Holds(E[j], b) /\ Holds(E[k], b))
        /\ tree = [m \in Node |-> IF m = Root THEN [depth |-> 0, entries |-> E] ELSE NoNode]
        /\ foreign = F \ used
        /\ free = Block \ (F \cup used)
  BY DEF Init
<1>1. PICK E \in [1 .. n -> MadeElsewhere], F \in ForeignSets :
        LET used == {b \in Block : \E k \in 1 .. n : Holds(E[k], b)} IN
        /\ \A j, k \in 1 .. n : j < k =>
              /\ E[j].lblk + E[j].len <= E[k].lblk
              /\ \A b \in Block : ~(Holds(E[j], b) /\ Holds(E[k], b))
        /\ tree = [m \in Node |-> IF m = Root THEN [depth |-> 0, entries |-> E] ELSE NoNode]
        /\ foreign = F \ used
        /\ free = Block \ (F \cup used)
  BY <1>20
<1> DEFINE used == {b \in Block : \E k \in 1 .. n : Holds(E[k], b)}
           hi == [m \in Node |-> FileBlocks]
<1>2. n \in Nat /\ F \subseteq Block
  BY TreeAssumption
<1>3. \A k \in 1 .. n : /\ E[k] \in Ent /\ E[k].len # 0 /\ End(E[k]) = E[k].lblk + E[k].len
                        /\ End(E[k]) <= FileBlocks
  <2> SUFFICES ASSUME NEW k \in 1 .. n
               PROVE  /\ E[k] \in Ent /\ E[k].len # 0 /\ End(E[k]) = E[k].lblk + E[k].len
                      /\ End(E[k]) <= FileBlocks
    OBVIOUS
  <2>1. E[k] \in MadeElsewhere
    OBVIOUS
  <2> DEFINE e == E[k]
  <2>2. /\ e \in [lblk : FileBlock, len : Nat \ {0}, pblk : Block, unwritten : BOOLEAN]
        /\ e.lblk + e.len <= FileBlocks
    BY <2>1, TreeAssumption
  <2> HIDE DEF e
  <2>3. e.lblk \in Nat /\ e.len \in Nat /\ e.len # 0 /\ e.pblk \in Nat /\ e.unwritten \in BOOLEAN
    <3>1. /\ e.lblk \in FileBlock /\ e.len \in Nat \ {0} /\ e.pblk \in Block
          /\ e.unwritten \in BOOLEAN
      BY <2>2
    <3>3. e.pblk \in Nat
      BY <3>1, RootNode
    <3> QED
      BY <1>0, <3>1, <3>3 DEF FileBlock
  <2> QED
    BY <2>2, <2>3 DEF Ent, End, e
<1>4. E \in Seq(Ent) /\ Len(E) = n /\ DOMAIN E = 1 .. n
  BY <1>3, <1>2, FunctionIsSeq
<1>5. /\ tree[Root].depth = 0 /\ tree[Root].entries = E
      /\ \A b \in Block : tree[b] = NoNode
      /\ tree \in [Node -> [depth : Nat, entries : Seq(Ent)]]
  <2>1. \A b \in Block : tree[b] = NoNode
    BY <1>1, RootNode
  <2>2. tree[Root] = [depth |-> 0, entries |-> E]
    BY <1>1, RootNode
  <2>3. \A m \in Node : tree[m] \in [depth : Nat, entries : Seq(Ent)]
    <3>1. NoNode \in [depth : Nat, entries : Seq(Ent)]
      BY EmptySeq DEF NoNode
    <3> QED
      BY <1>4, <2>2, <2>1, <3>1 DEF Node
  <2> QED
    BY <1>1, <2>1, <2>2, <2>3
<1>6. \A m \in Node : /\ tree[m].depth = 0
                      /\ m = Root \/ (tree[m].entries = <<>> /\ DOMAIN tree[m].entries = {})
  BY <1>5 DEF Node, NoNode
<1>7. \A j, k \in 1 .. n : j < k =>
        /\ End(E[j]) <= E[k].lblk
        /\ \A b \in Block : ~(Holds(E[j], b) /\ Holds(E[k], b))
  BY <1>1, <1>3
<1>8. Shape(tree)
  BY <1>3, <1>4, <1>5, <1>6 DEF Shape
<1>9. Order(tree, hi)
  <2>1. hi \in [Node -> Nat] /\ \A m \in Node : hi[m] = FileBlocks
    BY <1>0
  <2> HIDE DEF hi
  <2>2. ASSUME NEW m \in Node
        PROVE  /\ \A j, k \in DOMAIN tree[m].entries :
                     j < k => End(tree[m].entries[j]) <= tree[m].entries[k].lblk
               /\ \A k \in DOMAIN tree[m].entries : End(tree[m].entries[k]) <= hi[m]
    BY <1>3, <1>4, <1>5, <1>7, <2>1, <1>6
  <2> QED
    BY <1>6, <2>1, <2>2 DEF Order
<1>10. Low(tree, {})
  BY <1>6 DEF Low
<1>11. \A m \in Node : \A b \in Block : Has(tree, m, b) => m = Root
  BY <1>6 DEF Has, Hold
<1>12. Apart(tree)
  BY <1>6, <1>4, <1>5, <1>2, <1>7, <1>11 DEF Apart
<1>13. Owned(tree) = used
  BY <1>4, <1>5, <1>11, RootNode DEF Has, Hold, Owned
<1>14. foreign = F \ used /\ free = Block \ (F \cup used) /\ used \subseteq Block
  BY <1>1
<1>15. Parted(Owned(tree), free, foreign, {}, {})
  <2> HIDE DEF used
  <2> QED
    BY <1>2, <1>13, <1>14 DEF Parted
<1>16. Nodes(tree, {}) /\ Filled(tree, {}) /\ RootOK(tree)
  BY <1>5, <1>6 DEF Nodes, Filled, Linked, RootOK
<1>17. call.at = "idle"
  BY DEF Init, Idle
<1> HIDE DEF hi
<1> QED
  BY <1>8, <1>9, <1>10, <1>12, <1>15, <1>16, <1>17, RestWhole DEF Tree, TreeInv

\* Damage is never undone.
LEMMA DamageKept ==
  ASSUME [Next]_vars, damage' = {}
  PROVE  damage = {}
<1>1. CASE Step
  <2>1. \/ AppendToCur \/ PrependToCur \/ InsertInLeaf \/ SplitAgain \/ NeedSplit
        \/ \E b \in free : Grow(b) \/ SplitNode(b)
        \/ LinkSplit \/ GrowFails \/ SplitFails
        \/ RemoveLeaf \/ RemoveDown \/ RemoveFails \/ RemoveUp \/ RemoveDone
    BY <1>1 DEF Step
  <2>2. \/ damage' = damage
        \/ \E D : damage' = damage \cup D
    BY <2>1, Zenon DEF AppendToCur, PrependToCur, InsertInLeaf, SplitAgain, NeedSplit, Grow, SplitNode,
       LinkSplit, GrowFails, SplitFails, RemoveLeaf, RemoveDown, RemoveFails, RemoveUp, RemoveDone
  <2> QED
    BY <2>2
<1>2. CASE Call
  <2> QED
    BY <1>2 DEF Call, FillHole, InitializeWhole, InitializePart, AppendMapped, LookUp,
       TruncateAtHole, Truncate
<1>3. CASE UNCHANGED vars
  BY <1>3 DEF vars
<1> QED
  BY <1>1, <1>2, <1>3 DEF Next

LEMMA StepTree ==
  ASSUME NEW hi, Whole(tree, hi, call, free, foreign), Step, damage' = {}
  PROVE  \E h : Whole(tree', h, call', free', foreign')
<1>1. CASE AppendToCur
  BY <1>1, AppendKeeps
<1>2. CASE InsertInLeaf
  BY <1>2, InLeafKeeps
<1>3. CASE NeedSplit
  BY <1>3, NeedSplitKeeps
<1>4. CASE \E b \in free : Grow(b) \/ SplitNode(b)
  <2>1. PICK b : Grow(b) \/ SplitNode(b)
    BY <1>4
  <2>2. CASE Grow(b)
    BY <2>2, GrowKeeps
  <2>3. CASE SplitNode(b)
    BY <2>3, SplitNodeKeeps
  <2> QED
    BY <2>1, <2>2, <2>3
<1>5. CASE LinkSplit
  BY <1>5, LinkSplitKeeps
<1>6. CASE GrowFails
  BY <1>6, GrowFailsKeeps
<1>7. CASE SplitFails
  BY <1>7, SplitFailsKeeps
<1>8. CASE RemoveLeaf
  BY <1>8, RemoveLeafKeeps
<1>9. CASE RemoveDown
  BY <1>9, RemoveDownKeeps
<1>10. CASE RemoveFails
  BY <1>10, RemoveFailsKeeps
<1>11. CASE RemoveUp
  BY <1>11, RemoveUpKeeps
<1>12. CASE RemoveDone
  BY <1>12, RemoveDoneKeeps
<1>13. CASE PrependToCur
  BY <1>13 DEF PrependToCur
<1>14. CASE SplitAgain
  BY <1>14 DEF SplitAgain
<1> QED
  BY <1>1, <1>2, <1>3, <1>4, <1>5, <1>6, <1>7, <1>8, <1>9, <1>10, <1>11, <1>12, <1>13, <1>14
  DEF Step

LEMMA CallTree ==
  ASSUME NEW hi, Whole(tree, hi, call, free, foreign), Call
  PROVE  \E h : Whole(tree', h, call', free', foreign')
<1>1. CASE \E l \in FileBlock : FillHole(l)
  BY <1>1, FillHoleKeeps
<1>2. CASE \E l \in FileBlock : InitializeWhole(l)
  BY <1>2, InitializeWholeKeeps
<1>3. CASE \E l \in FileBlock : InitializePart(l)
  BY <1>3, InitializePartKeeps
<1>4. CASE AppendMapped \/ LookUp \/ \E l \in FileBlock : TruncateAtHole(l)
  BY <1>4, ReadKeeps
<1>5. CASE \E l \in FileBlock : Truncate(l)
  BY <1>5, TruncateKeeps
<1> QED
  BY <1>1, <1>2, <1>3, <1>4, <1>5 DEF Call

LEMMA NextTree == TreeInv /\ [Next]_vars => TreeInv'
<1> SUFFICES ASSUME TreeInv, [Next]_vars, damage' = {}
             PROVE  \E h : Whole(tree', h, call', free', foreign')
  BY DEF TreeInv
<1>1. damage = {}
  BY DamageKept
<1>2. PICK hi : Whole(tree, hi, call, free, foreign)
  BY <1>1 DEF TreeInv
<1>3. CASE Step
  BY <1>2, <1>3, StepTree
<1>4. CASE Call
  BY <1>2, <1>4, CallTree
<1>5. CASE UNCHANGED vars
  BY <1>5, <1>2 DEF vars
<1> QED
  BY <1>3, <1>4, <1>5 DEF Next

-----------------------------------------------------------------------------
(* What the invariant says.                                                *)

LEMMA OwnersAre ==
  ASSUME NEW b \in Block, NEW x
  PROVE  x \in Owners(b) <=> \E n \in {Root} \cup InUse : \E k \in DOMAIN tree[n].entries :
                                x = <<n, k>> /\ Holds(tree[n].entries[k], b)
BY DEF Owners

LEMMA OneOwner ==
  ASSUME Shape(tree), Apart(tree), NEW b \in Block
  PROVE  Cardinality(Owners(b)) = IF b \in Owned(tree) THEN 1 ELSE 0
<1>1. {Root} \cup InUse \subseteq Node
  BY RootNode DEF InUse
<1>2. CASE b \notin Owned(tree)
  BY <1>2, <1>1, OwnersAre, FS_EmptySet DEF Owned, Has, Hold
<1>3. CASE b \in Owned(tree)
  <2>1. PICK n \in Node : Has(tree, n, b)
    BY <1>3 DEF Owned
  <2>2. PICK k \in DOMAIN tree[n].entries : Holds(tree[n].entries[k], b)
    BY <2>1 DEF Has, Hold
  <2>4. ASSUME NEW m \in Node, NEW j \in DOMAIN tree[m].entries, Holds(tree[m].entries[j], b)
        PROVE  m = n /\ j = k
    BY <2>4, <2>1, <2>2 DEF Has, Hold, Apart
  <2>5. Owners(b) = {<<n, k>>}
    <3>2. ASSUME NEW x \in Owners(b) PROVE x = <<n, k>>
      <4>1. PICK m \in Node : \E j \in DOMAIN tree[m].entries :
                x = <<m, j>> /\ Holds(tree[m].entries[j], b)
        BY <1>1, OwnersAre
      <4>2. PICK j \in DOMAIN tree[m].entries : x = <<m, j>> /\ Holds(tree[m].entries[j], b)
        BY <4>1
      <4> QED
        BY <2>4, <4>2
    <3> QED
      BY <2>2, ShapeIs, OwnersAre, <3>2 DEF NoNode, InUse, Node
  <2>6. Cardinality({<<n, k>>}) = 1
    BY FS_Singleton
  <2> QED
    BY <1>3, <2>5, <2>6
<1> QED
  BY <1>2, <1>3

LEMMA TreeInvPlaces == TreeInv => EveryBlockInOnePlace
<1> SUFFICES ASSUME TreeInv, damage = {}, NEW b \in Block
             PROVE  Cardinality(Owners(b)) + (IF HeldByCall(b) THEN 1 ELSE 0)
                      + (IF b \in free THEN 1 ELSE 0) + (IF b \in foreign THEN 1 ELSE 0) = 1
  BY DEF EveryBlockInOnePlace
<1>1. PICK hi : Whole(tree, hi, call, free, foreign)
  BY DEF TreeInv
<1>2. Shape(tree) /\ Apart(tree) /\ Parted(Owned(tree), free, foreign, NewOf(call), TopOf(call))
  BY <1>1 DEF Whole, Tree
<1>4. HeldByCall(b) <=> b \in NewOf(call) \/ b \in TopOf(call)
  BY DEF HeldByCall, NewOf, TopOf, Last
<1> QED
  BY <1>2, <1>4, OneOwner DEF Parted

LEMMA TreeInvShape == TreeInv => TreeShape
<1> SUFFICES ASSUME TreeInv, damage = {}, call = Idle, NEW n \in {Root} \cup InUse
             PROVE  LET E == tree[n].entries
                        end(e) == IF tree[n].depth = 0 THEN e.lblk + e.len ELSE e.lblk + 1
                    IN
                    /\ E = <<>> => n = Root /\ Depth = 0
                    /\ \A k \in 1 .. (Len(E) - 1) : end(E[k]) <= E[k + 1].lblk
                    /\ tree[n].depth > 0 =>
                        \A k \in DOMAIN E :
                            LET C == tree[E[k].pblk] IN
                            /\ C.depth = tree[n].depth - 1 /\ C.entries # <<>>
                            /\ E[k].lblk <= C.entries[1].lblk
                            /\ k < Len(E) => Last(C.entries).lblk < E[k + 1].lblk
  BY DEF TreeShape
<1> DEFINE E == tree[n].entries
           end(e) == IF tree[n].depth = 0 THEN e.lblk + e.len ELSE e.lblk + 1
<1>1. PICK hi : Whole(tree, hi, call, free, foreign)
  BY DEF TreeInv
<1>2. /\ Tree(tree, hi) /\ Shape(tree) /\ Order(tree, hi) /\ Low(tree, {})
      /\ Nodes(tree, {}) /\ Filled(tree, {}) /\ RootOK(tree)
  BY <1>1, IdleFacts
<1>3. n \in Node /\ (n = Root \/ (n \in Block /\ tree[n] # NoNode))
  BY RootNode DEF InUse
<1>4. /\ tree[n].depth \in Nat /\ E \in Seq(Ent) /\ Len(E) \in Nat /\ DOMAIN E = 1 .. Len(E)
  BY <1>2, <1>3, ShapeIs
<1>5. E = <<>> => n = Root /\ Depth = 0
  BY <1>2, <1>3 DEF RootOK, Depth, Nodes, Filled
<1>6. ASSUME NEW k \in DOMAIN E PROVE end(E[k]) = End(E[k])
  BY <1>2, <1>3, EntryIs DEF End
<1>7. ASSUME NEW k \in 1 .. (Len(E) - 1) PROVE end(E[k]) <= E[k + 1].lblk
  <2>1. k \in DOMAIN E /\ k + 1 \in DOMAIN E /\ k < k + 1
    BY <1>4
  <2>2. End(E[k]) <= E[k + 1].lblk
    BY <1>2, <1>3, <2>1 DEF Order
  <2> QED
    BY <1>6, <2>1, <2>2
<1>8. ASSUME tree[n].depth > 0, NEW k \in DOMAIN E
      PROVE  /\ tree[E[k].pblk].depth = tree[n].depth - 1 /\ tree[E[k].pblk].entries # <<>>
             /\ E[k].lblk <= tree[E[k].pblk].entries[1].lblk
             /\ k < Len(E) => Last(tree[E[k].pblk].entries).lblk < E[k + 1].lblk
  <2> DEFINE b == E[k].pblk
             C == tree[b].entries
  <2>1. /\ E[k].len = 0 /\ b \in Block /\ b \in Node /\ k \in Nat
        /\ tree[b].depth = tree[n].depth - 1
    <3>1. tree[n].depth # 0
      BY <1>8
    <3>2. E[k].len = 0 /\ b \in Block /\ b \in Node /\ k \in Nat
      BY <1>2, <1>3, <3>1, EntryIs
    <3> QED
      BY <1>2, <1>3, <3>1, <3>2 DEF Shape
  <2>2. Holds(E[k], b)
    BY <2>1 DEF Holds
  <2>4. C # <<>>
    BY <1>3, <1>8, <2>2, <1>2, <2>1 DEF Linked, Has, Hold, Filled
  <2>5. Len(C) \in Nat /\ DOMAIN C = 1 .. Len(C) /\ 1 \in DOMAIN C /\ Len(C) \in DOMAIN C
    <3> QED
      BY <1>2, <2>1, ShapeIs, <2>4, EntSeq
  <2>6. E[k].lblk <= C[1].lblk
    BY <1>2, <1>3, <1>8, <2>5 DEF Low
  <2>7. ASSUME k < Len(E) PROVE Last(C).lblk < E[k + 1].lblk
    <3> DEFINE z == C[Len(C)]
               y == E[k + 1]
    <3>1. k + 1 \in DOMAIN E /\ k < k + 1
      BY <1>4, <2>1, <2>7
    <3>2. hi[b] <= y.lblk
      BY <1>2, <1>3, <1>8, <3>1 DEF Order
    <3>3. End(z) <= hi[b]
      BY <1>2, <2>1, <2>5 DEF Order
    <3>4. z.lblk \in Nat /\ End(z) \in Nat /\ z.lblk < End(z)
      BY <1>2, <2>1, <2>5, EntryIs, Zenon
    <3>5. y.lblk \in Nat
      BY <1>2, <1>3, <3>1, EntryIs
    <3>6. hi[b] \in Nat
      BY <1>2, <2>1 DEF Order
    <3>7. Last(C) = z
      BY DEF Last
    <3> HIDE DEF z, y
    <3> QED
      BY <3>2, <3>3, <3>4, <3>5, <3>6, <3>7 DEF y
  <2> QED
    BY <2>1, <2>4, <2>6, <2>7
<1> QED
  BY <1>5, <1>7, <1>8

-----------------------------------------------------------------------------
(* Theorems.                                                               *)

\* The inductive invariant: as long as nothing is damaged, the nodes form a
\* search tree in which at most the node that the call works on is empty, the
\* path of the call lies in it, and the blocks are parted between the tree, the
\* free ones, the other files and the call.
THEOREM TreeIsWhole == Spec => []TreeInv
<1> QED
  BY InitTree, NextTree, PTL DEF Spec

\* After every step of a call to ext4_extent_get_blocks or
\* ext4_extent_remove_space, one that fails included, each block of the volume is
\* in exactly one place, for every volume, node size and depth of the tree.
THEOREM BlocksInOnePlace == Spec => []EveryBlockInOnePlace
<1> QED
  BY InitTree, NextTree, TreeInvPlaces, PTL DEF Spec

\* Between calls the nodes form a search tree with every leaf at the same depth,
\* whatever was split, grown, merged or removed in them.
THEOREM TreeIsSearchTree == Spec => []TreeShape
<1> QED
  BY InitTree, NextTree, TreeInvShape, PTL DEF Spec
=============================================================================
