--------------------------- MODULE JournalProofs ---------------------------
(***************************************************************************)
(* Proofs about Journal: a dirty buffer that no call holds is always waited *)
(* for by a transaction of the checkpoint queue, for every number of blocks,*)
(* size of the log, and number of transactions and losses of power.         *)
(***************************************************************************)
EXTENDS Journal, FiniteSetTheorems, SequenceTheorems, TLAPS

\* A transaction of the checkpoint queue: what it has to write is counted by the
\* blocks whose copies it still answers for.
IsTrans(t) ==
    /\ DOMAIN t = {"n", "id", "start", "alloc", "cnt", "written", "at"}
    /\ t.cnt \in Nat /\ t.written \in Nat
    /\ DOMAIN t.at \subseteq Block
    /\ t.cnt = t.written + Cardinality(DOMAIN t.at)

Has(c, x) == c # NoTrans /\ x \in ToSet(c.bufs)

\* The open transaction c is the last one begun; a block is in it once; and what it
\* has in the log are the first of its blocks, all of them once its descriptor is
\* to be written.
CurrOK(c, b) ==
    c # NoTrans =>
        /\ DOMAIN c = {"pc", "n", "bufs", "revoked", "freed", "id", "start", "alloc",
                       "slot", "desc", "at", "last", "left"}
        /\ c.n = b
        /\ c.pc \in {"open", "desc", "data", "tags", "revoke", "commit", "complete"}
        /\ b >= 1
        /\ c.bufs \in Seq(Block)
        /\ \A i, j \in DOMAIN c.bufs : i # j => c.bufs[i] # c.bufs[j]
        /\ c.revoked \subseteq Pool /\ c.left \subseteq c.revoked
        /\ DOMAIN c.at \subseteq Block
        /\ DOMAIN c.at = {c.bufs[j] : j \in 1 .. Cardinality(DOMAIN c.at)}
        /\ Cardinality(DOMAIN c.at) <= Len(c.bufs)
        /\ c.pc \in {"open", "desc"} => DOMAIN c.at = {}
        /\ c.pc = "open" => c.left = {}
        /\ c.pc = "desc" => c.bufs # <<>>
        /\ c.pc = "data" => Cardinality(DOMAIN c.at) < Len(c.bufs)
        /\ c.pc \in {"tags", "revoke", "commit", "complete"} =>
               Cardinality(DOMAIN c.at) = Len(c.bufs)

\* The queue q is in the order in which its transactions were begun.
QueueOK(q, c, b) ==
    /\ q \in Seq(ToSet(q))
    /\ \A i \in DOMAIN q :
         IsTrans(q[i]) /\ q[i].n \in 1 .. b /\ (c # NoTrans => q[i].n < c.n)
    /\ \A i, j \in DOMAIN q : i < j => q[i].n < q[j].n

Waits(q, x, k) == \E i \in DOMAIN q : q[i].n = k /\ x \in DOMAIN q[i].at

\* A block's record lists the transactions that still have it, of the queue and the
\* open one, and its owner is not older than any of them.
RecOK(q, r, c, b, x) ==
    /\ DOMAIN r[x] = {"owner", "in"}
    /\ r[x].owner \in 0 .. b
    /\ r[x].in \subseteq 1 .. b
    /\ \A k \in r[x].in : k <= r[x].owner
    /\ \A k \in 1 .. b : k \in r[x].in <=> Waits(q, x, k) \/ (Has(c, x) /\ k = c.n)
    /\ Has(c, x) => r[x].owner = c.n

Books(q, r, c, b) ==
    /\ QueueOK(q, c, b)
    /\ DOMAIN r = Block
    /\ \A x \in Block : RecOK(q, r, c, b, x)

\* A dirty buffer is the open transaction's if that has the block, and otherwise the
\* owner's of the block's record, which still waits for it.  A block that is to be
\* revoked has no dirty buffer.
BufOK(d, r, c, b, x) ==
    /\ d[x] # Clean => d[x].arg \in 1 .. b
    /\ Has(c, x) => d[x] = Clean \/ d[x].arg = c.n
    /\ Has(c, x) /\ (c.pc # "open" \/ x = Bitmap) => d[x] # Clean
    /\ ~Has(c, x) /\ d[x] # Clean => d[x].arg = r[x].owner /\ d[x].arg \in r[x].in
    /\ c # NoTrans /\ x \in c.revoked => d[x] = Clean

JournalInv ==
    /\ begun \in Nat
    /\ CurrOK(curr, begun)
    /\ Books(queue, recs, curr, begun)
    /\ DOMAIN cache = Block
    /\ \A x \in Block : BufOK(cache, recs, curr, begun, x)

-----------------------------------------------------------------------------
(* Sequences and numbers.                                                  *)

\* A sequence is the function of its places.
LEMMA SeqSelf ==
  ASSUME NEW S, NEW s \in Seq(S)
  PROVE  /\ s \in Seq(ToSet(s))
         /\ Len(s) \in Nat /\ DOMAIN s = 1 .. Len(s)
<1>1. Len(s) \in Nat /\ DOMAIN s = 1 .. Len(s) /\ s = [i \in 1 .. Len(s) |-> s[i]]
  BY LenProperties
<1>2. \A i \in 1 .. Len(s) : s[i] \in ToSet(s)
  BY <1>1 DEF ToSet
<1>3. s \in Seq(ToSet(s))
  <2> HIDE DEF ToSet
  <2>1. [i \in 1 .. Len(s) |-> s[i]] \in Seq(ToSet(s))
    BY <1>1, <1>2
  <2> QED
    BY <1>1, <2>1
<1> QED
  BY <1>1, <1>3

\* A part of a finite set is finite and not larger.
LEMMA SubsetFinite ==
  ASSUME NEW S \in SUBSET Block
  PROVE  IsFiniteSet(S) /\ Cardinality(S) \in Nat
<1>1. IsFiniteSet(Block)
  <2>1. IsFiniteSet(Pool \cup {Bitmap}) /\ Block = Pool \cup {Bitmap}
    BY JournalAssumption, FS_AddElement DEF Block
  <2> QED
    BY <2>1
<1> QED
  BY <1>1, FS_Subset, FS_CardinalityType

\* The numbers up to n.
LEMMA UpTo ==
  ASSUME NEW n \in Nat
  PROVE  IsFiniteSet(1 .. n) /\ Cardinality(1 .. n) = n
<1>1. n \in Int /\ 1 \in Int /\ (1 > n => n = 0) /\ n - 1 + 1 = n
  OBVIOUS
<1>2. /\ IsFiniteSet(1 .. n)
      /\ Cardinality(1 .. n) = IF 1 > n THEN 0 ELSE n - 1 + 1
  BY <1>1, FS_Interval
<1> QED
  BY <1>1, <1>2

\* The least number of a set, the end of an induction.
LEMMA Least ==
  ASSUME NEW S \in SUBSET Nat, S # {}
  PROVE  \E m \in S : \A k \in S : m <= k
<1>1. PICK m \in S : \A k \in S : <<k, m>> \notin OpToRel(<, Nat)
  BY WFMin, NatLessThanWellFounded
<1>2. \A k \in S : ~(k < m)
  BY <1>1 DEF OpToRel
<1> QED
  BY <1>2

\* A list of transactions that is not empty has a last one.
LEMMA LastOfIs ==
  ASSUME NEW b \in Nat, NEW in \in SUBSET (1 .. b), in # {}
  PROVE  LastOf(in) \in in /\ \A j \in in : j <= LastOf(in)
<1> DEFINE Above == {m \in Nat : \A j \in in : j <= m}
<1>1. b \in Above
  OBVIOUS
<1>2. PICK m \in Above : \A k \in Above : m <= k
  BY <1>1, Least
<1>3. m \in in
  <2>1. SUFFICES ASSUME m \notin in PROVE FALSE
    OBVIOUS
  <2>2. PICK i \in in : TRUE
    OBVIOUS
  <2>3. m \in Nat /\ i \in 1 .. b /\ i <= m
    BY <1>2, <2>2
  <2>4. ASSUME NEW j \in in
        PROVE  j <= m - 1
    <3>1. j \in 1 .. b /\ j <= m /\ j # m
      BY <1>2, <2>1
    <3> QED
      BY <2>3, <3>1
  <2>5. m - 1 \in Above
    BY <2>3, <2>4
  <2>6. m <= m - 1
    BY <1>2, <2>5
  <2> QED
    BY <2>3, <2>6
<1>4. \E k \in in : \A j \in in : j <= k
  BY <1>2, <1>3
<1> QED
  BY <1>4 DEF LastOf

-----------------------------------------------------------------------------
(* A transaction is done with a block.                                     *)

IsMem(m) == DOMAIN m = {"queue", "recs", "jr", "due"}

\* From m to w the record of x loses the transactions of S and no other changes;
\* a record that still lists one keeps its owner.
Ended(m, w, c, b, x, S) ==
    /\ IsMem(w) /\ Books(w.queue, w.recs, c, b)
    /\ \A y \in Block :
         /\ w.recs[y].in = IF y = x THEN m.recs[y].in \ S ELSE m.recs[y].in
         /\ w.recs[y].in # {} => w.recs[y].owner = m.recs[y].owner

\* The checkpoint queue is a sequence of transactions.
LEMMA QueueSeq ==
  ASSUME NEW q, NEW c, NEW b \in Nat, QueueOK(q, c, b)
  PROVE  Len(q) \in Nat /\ DOMAIN q = 1 .. Len(q)
BY SeqSelf DEF QueueOK

\* A transaction that is complete has no block left.
LEMMA CompleteEmpty ==
  ASSUME NEW t, IsTrans(t), Complete(t)
  PROVE  DOMAIN t.at = {}
<1>1. IsFiniteSet(DOMAIN t.at) /\ Cardinality(DOMAIN t.at) \in Nat
  BY SubsetFinite DEF IsTrans
<1>2. Cardinality(DOMAIN t.at) = 0
  BY <1>1 DEF IsTrans, Complete
<1> QED
  BY <1>1, <1>2, FS_EmptySet

\* The records without those that the first k transactions of the queue own.
Kept(q, r, k) ==
    [x \in Block |-> IF r[x].owner \in {q[i].n : i \in 1 .. k} THEN NoRec ELSE r[x]]

\* The first k transactions of the queue leave it when each is complete, and with
\* them the records that they own.
LEMMA Popped ==
  ASSUME NEW q, NEW r, NEW c, NEW b \in Nat, Books(q, r, c, b), CurrOK(c, b),
         NEW k \in 0 .. Len(q), \A i \in 1 .. k : Complete(q[i])
  PROVE  /\ Books(SubSeq(q, k + 1, Len(q)), Kept(q, r, k), c, b)
         /\ \A x \in Block : /\ Kept(q, r, k)[x].in = r[x].in
                             /\ r[x].in # {} => Kept(q, r, k)[x].owner = r[x].owner
<1> DEFINE p == SubSeq(q, k + 1, Len(q))
           s == Kept(q, r, k)
<1>1. Len(q) \in Nat /\ DOMAIN q = 1 .. Len(q) /\ QueueOK(q, c, b)
  BY QueueSeq DEF Books
<1>2. /\ p \in Seq(ToSet(p))
      /\ DOMAIN p = 1 .. (Len(q) - k)
      /\ \A i \in 1 .. (Len(q) - k) : p[i] = q[k + i]
  <2>1. \A i \in k + 1 .. Len(q) : q[i] \in ToSet(q)
    BY <1>1 DEF ToSet
  <2>2. /\ p \in Seq(ToSet(q))
        /\ Len(p) = IF k + 1 <= Len(q) THEN Len(q) - (k + 1) + 1 ELSE 0
        /\ \A i \in 1 .. Len(q) - (k + 1) + 1 : p[i] = q[(k + 1) + i - 1]
    BY <1>1, <2>1, SubSeqProperties
  <2> HIDE DEF p
  <2>3. p \in Seq(ToSet(p)) /\ DOMAIN p = 1 .. Len(p)
    BY <2>2, SeqSelf
  <2>4. Len(p) = Len(q) - k
    <3>1. k \in Int /\ Len(q) \in Int /\ k <= Len(q)
      BY <1>1
    <3> QED
      BY <2>2, <3>1
  <2>5. \A i \in 1 .. Len(q) - k : p[i] = q[k + i]
    <3>1. k \in Int /\ Len(q) \in Int /\ k <= Len(q)
      BY <1>1
    <3> QED
      BY <2>2, <3>1
  <2> QED
    BY <2>3, <2>4, <2>5
<1> HIDE DEF p
<1>3. QueueOK(p, c, b)
  <2>1. \A i \in DOMAIN p : k + i \in DOMAIN q /\ p[i] = q[k + i]
    BY <1>1, <1>2
  <2>2. \A i, j \in DOMAIN p : i < j => p[i].n < p[j].n
    <3> SUFFICES ASSUME NEW i \in DOMAIN p, NEW j \in DOMAIN p, i < j
                 PROVE  p[i].n < p[j].n
      OBVIOUS
    <3>1. k + i \in DOMAIN q /\ k + j \in DOMAIN q /\ k + i < k + j
      BY <1>1, <1>2, <2>1
    <3>2. \A f, g \in DOMAIN q : f < g => q[f].n < q[g].n
      BY <1>1 DEF QueueOK
    <3> QED
      BY <2>1, <3>1, <3>2
  <2>3. \A i \in DOMAIN p :
           IsTrans(p[i]) /\ p[i].n \in 1 .. b /\ (c # NoTrans => p[i].n < c.n)
    BY <1>1, <2>1 DEF QueueOK
  <2> QED
    BY <1>2, <2>2, <2>3 DEF QueueOK
<1>4. \A i \in 1 .. k : i \in DOMAIN q /\ DOMAIN q[i].at = {}
  BY <1>1, CompleteEmpty DEF QueueOK
<1>5. \A x \in Block, n \in 1 .. b : Waits(q, x, n) <=> Waits(p, x, n)
  <2> TAKE x \in Block, n \in 1 .. b
  <2>1. ASSUME NEW i \in DOMAIN q, q[i].n = n, x \in DOMAIN q[i].at
        PROVE  Waits(p, x, n)
    <3>1. i > k
      BY <1>1, <1>4, <2>1
    <3>2. i - k \in DOMAIN p /\ p[i - k] = q[i]
      BY <1>1, <1>2, <3>1
    <3> QED
      BY <2>1, <3>2 DEF Waits
  <2>2. ASSUME NEW i \in DOMAIN p, p[i].n = n, x \in DOMAIN p[i].at
        PROVE  Waits(q, x, n)
    <3>1. k + i \in DOMAIN q /\ p[i] = q[k + i]
      BY <1>1, <1>2
    <3> QED
      BY <2>2, <3>1 DEF Waits
  <2> QED
    BY <2>1, <2>2 DEF Waits
<1>6. ASSUME NEW x \in Block, r[x].owner \in {q[i].n : i \in 1 .. k}
      PROVE  r[x].in = {} /\ ~Has(c, x)
  <2>1. PICK i \in 1 .. k : r[x].owner = q[i].n
    BY <1>6
  <2>2. RecOK(q, r, c, b, x)
    BY DEF Books
  <2>3. i \in DOMAIN q /\ q[i].n \in 1 .. b /\ (c # NoTrans => q[i].n < c.n)
    BY <1>1, <1>4 DEF QueueOK
  <2>4. ~Has(c, x)
    <3>1. c # NoTrans => c.n = b
      BY DEF CurrOK
    <3> QED
      BY <2>1, <2>2, <2>3, <3>1 DEF RecOK, Has
  <2>5. ASSUME NEW n \in r[x].in
        PROVE  FALSE
    <3>1. n \in 1 .. b /\ n <= q[i].n
      BY <2>1, <2>2, <2>5 DEF RecOK
    <3>2. PICK j \in DOMAIN q : q[j].n = n /\ x \in DOMAIN q[j].at
      BY <2>2, <2>4, <2>5, <3>1 DEF RecOK, Waits
    <3>3. j <= i
      <4>1. i < j => q[i].n < q[j].n
        BY <1>1, <2>3, <3>2 DEF QueueOK
      <4>2. i \in Int /\ j \in Int
        BY <1>1, <2>3, <3>2
      <4> QED
        BY <2>3, <3>1, <3>2, <4>1, <4>2
    <3> QED
      BY <1>1, <1>4, <3>2, <3>3
  <2> QED
    BY <2>4, <2>5
<1>7. \A x \in Block : /\ s[x].in = r[x].in
                       /\ r[x].in # {} => s[x].owner = r[x].owner
                       /\ Has(c, x) => s[x] = r[x]
                       /\ s[x] = NoRec \/ s[x] = r[x]
  BY <1>6 DEF NoRec, Kept
<1> HIDE DEF s
<1>8. ASSUME NEW x \in Block
      PROVE  RecOK(p, s, c, b, x)
  <2>1. RecOK(q, r, c, b, x)
    BY DEF Books
  <2>2. CASE s[x] = r[x]
    BY <1>5, <2>1, <2>2 DEF RecOK
  <2>3. CASE s[x] = NoRec
    <3>1. s[x].in = {} /\ s[x].owner = 0 /\ DOMAIN s[x] = {"owner", "in"}
      BY <2>3 DEF NoRec
    <3>2. r[x].in = {}
      BY <1>7, <3>1
    <3>3. Has(c, x) => s[x] = r[x]
      BY <1>7
    <3>4. \A n \in 1 .. b : ~Waits(p, x, n) /\ ~(Has(c, x) /\ n = c.n)
      BY <1>5, <2>1, <3>2 DEF RecOK
    <3> QED
      BY <2>1, <3>1, <3>2, <3>3, <3>4 DEF RecOK
  <2> QED
    BY <1>7, <2>2, <2>3
<1>9. DOMAIN s = Block
  BY DEF Kept, s
<1> QED
  BY <1>3, <1>7, <1>8, <1>9 DEF Books, p, s

\* The purge of the queue's head changes nothing that a block waits for.
LEMMA ShiftEnds ==
  ASSUME NEW c, NEW b \in Nat, CurrOK(c, b), NEW m, IsMem(m), Books(m.queue, m.recs, c, b),
         NEW x \in Block
  PROVE  Ended(m, Shift(m), c, b, x, {})
<1> DEFINE q == m.queue
           P == {i \in DOMAIN q : \A j \in 1 .. i : Complete(q[j])}
           k == Cardinality(P)
           p == SubSeq(q, k + 1, Len(q))
           s == Kept(q, m.recs, k)
<1>1. Len(q) \in Nat /\ DOMAIN q = 1 .. Len(q)
  BY QueueSeq DEF Books
<1>2. IsFiniteSet(1 .. Len(q)) /\ Cardinality(1 .. Len(q)) = Len(q)
  BY <1>1, UpTo
<1>3. P \in SUBSET (1 .. Len(q))
  BY <1>1
<1>4. k \in 0 .. Len(q)
  <2> HIDE DEF P
  <2>1. IsFiniteSet(P) /\ k <= Len(q)
    BY <1>2, <1>3, FS_Subset
  <2>2. k \in Nat
    BY <2>1, FS_CardinalityType
  <2> QED
    BY <1>1, <2>1, <2>2
<1>5. ASSUME NEW i \in 1 .. k
      PROVE  Complete(q[i])
  <2>1. SUFFICES ASSUME ~Complete(q[i]) PROVE FALSE
    OBVIOUS
  <2>2. i \in Nat /\ i >= 1 /\ i <= k
    BY <1>4
  <2>3. P \in SUBSET (1 .. (i - 1))
    <3>1. ASSUME NEW j \in P
          PROVE  j \in 1 .. (i - 1)
      <4>1. j \in 1 .. Len(q) /\ \A g \in 1 .. j : Complete(q[g])
        BY <1>1
      <4>2. ~(i \in 1 .. j)
        BY <2>1, <4>1
      <4> QED
        BY <1>1, <2>2, <4>1, <4>2
    <3> QED
      BY <3>1
  <2>4. IsFiniteSet(1 .. (i - 1)) /\ Cardinality(1 .. (i - 1)) = i - 1
    BY <2>2, FS_Interval
  <2>5. k <= i - 1
    <3> HIDE DEF P
    <3> QED
      BY <2>3, <2>4, FS_Subset
  <2> QED
    BY <1>4, <2>2, <2>5
<1>6. /\ Books(p, s, c, b)
      /\ \A y \in Block : /\ s[y].in = m.recs[y].in
                          /\ m.recs[y].in # {} => s[y].owner = m.recs[y].owner
  <2> HIDE DEF k, P
  <2>1. \A i \in 1 .. k : Complete(q[i])
    BY <1>5
  <2> QED
    BY <1>4, <2>1, Popped
<1>7. Shift(m).queue = p /\ Shift(m).recs = s /\ IsMem(Shift(m))
  BY DEF Shift, IsMem, Kept
<1> HIDE DEF p, s
<1> QED
  BY <1>6, <1>7 DEF Ended

\* One transaction that is told of a block ends its part in it and no other's.
LEMMA EndOneEnds ==
  ASSUME NEW c, NEW b \in Nat, CurrOK(c, b), NEW m, IsMem(m), Books(m.queue, m.recs, c, b),
         NEW x \in Block, NEW n \in 1 .. b, Waits(m.queue, x, n), NEW first
  PROVE  Ended(m, EndOne(m, x, n, first), c, b, x, {n})
<1> DEFINE q == m.queue
           i == CHOOSE i \in DOMAIN q : q[i].n = n
           t == q[i]
           u == [t EXCEPT !.written = @ + 1, !.at = [y \in DOMAIN t.at \ {x} |-> t.at[y]]]
           p == [q EXCEPT ![i] = u]
           s == [m.recs EXCEPT ![x].in = @ \ {n}]
           w == [m EXCEPT !.queue[i] = u, !.recs[x].in = @ \ {n}]
<1>1. Len(q) \in Nat /\ DOMAIN q = 1 .. Len(q) /\ QueueOK(q, c, b)
  BY QueueSeq DEF Books
<1>2. /\ i \in DOMAIN q /\ t.n = n /\ x \in DOMAIN t.at
      /\ \A j \in DOMAIN q : q[j].n = n => j = i
  <2>1. PICK j \in DOMAIN q : q[j].n = n /\ x \in DOMAIN q[j].at
    BY DEF Waits
  <2>2. i \in DOMAIN q /\ q[i].n = n
    BY <2>1
  <2> HIDE DEF i
  <2>3. ASSUME NEW f \in DOMAIN q, q[f].n = n
        PROVE  f = i
    <3>1. f \in Int /\ i \in Int
      BY <1>1, <2>2, <2>3
    <3>2. f < i => q[f].n < q[i].n
      BY <1>1, <2>2, <2>3 DEF QueueOK
    <3>3. i < f => q[i].n < q[f].n
      BY <1>1, <2>2, <2>3 DEF QueueOK
    <3> QED
      BY <2>2, <2>3, <3>1, <3>2, <3>3
  <2> QED
    BY <2>1, <2>2, <2>3
<1> HIDE DEF i
<1>3. IsTrans(t)
  BY <1>1, <1>2 DEF QueueOK
<1>4. /\ IsTrans(u) /\ u.n = n
      /\ DOMAIN u.at = DOMAIN t.at \ {x}
  <2> HIDE DEF t
  <2>1. DOMAIN t = {"n", "id", "start", "alloc", "cnt", "written", "at"}
    BY <1>3 DEF IsTrans
  <2>2. /\ u.n = t.n /\ u.cnt = t.cnt /\ u.written = t.written + 1
        /\ DOMAIN u.at = DOMAIN t.at \ {x}
    BY <2>1
  <2>3. DOMAIN u = {"n", "id", "start", "alloc", "cnt", "written", "at"}
    BY <2>1
  <2> HIDE DEF u
  <2>4. IsFiniteSet(DOMAIN t.at) /\ Cardinality(DOMAIN t.at) \in Nat
    BY <1>3, SubsetFinite DEF IsTrans
  <2>5. Cardinality(DOMAIN t.at \ {x}) = Cardinality(DOMAIN t.at) - 1
    BY <1>2, <2>4, FS_RemoveElement
  <2>6. /\ t.cnt \in Nat /\ t.written \in Nat /\ DOMAIN t.at \subseteq Block
        /\ t.cnt = t.written + Cardinality(DOMAIN t.at)
    BY <1>3 DEF IsTrans
  <2>7. u.cnt = u.written + Cardinality(DOMAIN u.at)
    BY <2>2, <2>4, <2>5, <2>6
  <2> QED
    BY <1>2, <2>2, <2>3, <2>6, <2>7 DEF IsTrans
<1> HIDE DEF u, t
<1>5. /\ p \in Seq(ToSet(p)) /\ DOMAIN p = DOMAIN q /\ Len(p) = Len(q)
      /\ \A j \in DOMAIN q : p[j] = IF j = i THEN u ELSE q[j]
  <2>1. q \in Seq(ToSet(q))
    BY <1>1 DEF QueueOK
  <2>2. p \in Seq(ToSet(q) \cup {u}) /\ Len(p) = Len(q)
    <3>1. q \in Seq(ToSet(q) \cup {u})
      BY <2>1, SeqMonotonic
    <3> QED
      BY <1>1, <1>2, <3>1, ExceptSeq
  <2>3. p \in Seq(ToSet(p))
    BY <2>2, SeqSelf
  <2> QED
    BY <1>1, <1>2, <2>2, <2>3
<1> HIDE DEF p
<1>6. QueueOK(p, c, b)
  <2>1. \A j \in DOMAIN p : p[j].n = q[j].n
    BY <1>2, <1>4, <1>5 DEF t
  <2>2. \A j \in DOMAIN p :
           IsTrans(p[j]) /\ p[j].n \in 1 .. b /\ (c # NoTrans => p[j].n < c.n)
    BY <1>1, <1>4, <1>5, <2>1 DEF QueueOK
  <2>3. \A j, g \in DOMAIN p : j < g => p[j].n < p[g].n
    BY <1>1, <1>5, <2>1 DEF QueueOK
  <2> QED
    BY <1>5, <2>2, <2>3 DEF QueueOK
<1>7. \A y \in Block, k \in 1 .. b :
         Waits(p, y, k) <=> Waits(q, y, k) /\ ~(y = x /\ k = n)
  <2> TAKE y \in Block, k \in 1 .. b
  <2>1. ASSUME NEW j \in DOMAIN p, p[j].n = k, y \in DOMAIN p[j].at
        PROVE  Waits(q, y, k) /\ ~(y = x /\ k = n)
    <3>1. CASE j = i
      BY <1>2, <1>4, <1>5, <2>1, <3>1 DEF Waits, t
    <3>2. CASE j # i
      BY <1>2, <1>5, <2>1, <3>2 DEF Waits
    <3> QED
      BY <3>1, <3>2
  <2>2. ASSUME NEW j \in DOMAIN q, q[j].n = k, y \in DOMAIN q[j].at, ~(y = x /\ k = n)
        PROVE  Waits(p, y, k)
    <3>1. CASE j = i
      BY <1>2, <1>4, <1>5, <2>2, <3>1 DEF Waits, t
    <3>2. CASE j # i
      BY <1>5, <2>2, <3>2 DEF Waits
    <3> QED
      BY <3>1, <3>2
  <2> QED
    BY <2>1, <2>2 DEF Waits
<1>8. /\ DOMAIN m.recs = Block
      /\ \A y \in Block : RecOK(q, m.recs, c, b, y)
  BY DEF Books
<1>9. /\ DOMAIN s = Block
      /\ DOMAIN s[x] = {"owner", "in"}
      /\ s[x].owner = m.recs[x].owner /\ s[x].in = m.recs[x].in \ {n}
      /\ \A y \in Block \ {x} : s[y] = m.recs[y]
  <2>1. DOMAIN m.recs[x] = {"owner", "in"}
    BY <1>8 DEF RecOK
  <2> QED
    BY <1>8, <2>1
<1> HIDE DEF s
<1>10. ~(Has(c, x) /\ c.n = n)
  <2>1. q[i].n < c.n \/ c = NoTrans
    BY <1>1, <1>2 DEF QueueOK
  <2>2. c # NoTrans => c.n = b
    BY DEF CurrOK
  <2> QED
    BY <1>2, <2>1, <2>2 DEF Has, t
<1>11. ASSUME NEW y \in Block
       PROVE  RecOK(p, s, c, b, y)
  <2>1. RecOK(q, m.recs, c, b, y)
    BY <1>8
  <2>2. CASE y # x
    <3>1. s[y] = m.recs[y]
      BY <1>9, <2>2
    <3> QED
      BY <1>7, <2>1, <2>2, <3>1 DEF RecOK
  <2>3. CASE y = x
    <3>1. s[y].owner = m.recs[y].owner /\ s[y].in = m.recs[y].in \ {n}
      BY <1>9, <2>3
    <3>2. DOMAIN s[y] = {"owner", "in"}
      BY <1>9, <2>3
    <3>3. \A k \in 1 .. b : k \in s[y].in <=> Waits(p, y, k) \/ (Has(c, y) /\ k = c.n)
      BY <1>7, <1>10, <2>1, <2>3, <3>1 DEF RecOK
    <3> QED
      BY <2>1, <3>1, <3>2, <3>3 DEF RecOK
  <2> QED
    BY <2>2, <2>3
<1>12. /\ IsMem(w) /\ w.queue = p /\ w.recs = s
  <2>1. w.queue = [m.queue EXCEPT ![i] = u] /\ w.recs = [m.recs EXCEPT ![x].in = @ \ {n}]
    BY DEF IsMem
  <2>2. IsMem(w)
    BY DEF IsMem
  <2> QED
    BY <2>1, <2>2 DEF p, s
<1> HIDE DEF w
<1>13. Books(w.queue, w.recs, c, b)
  BY <1>6, <1>9, <1>11, <1>12 DEF Books
<1>14. Ended(m, w, c, b, x, {n})
  BY <1>9, <1>12, <1>13 DEF Ended
<1>15. EndOne(m, x, n, first) = IF first /\ Complete(u) THEN Shift(w) ELSE w
  BY Zenon DEF EndOne, w, u, t, i
<1>16. Ended(w, Shift(w), c, b, x, {})
  BY <1>12, <1>13, ShiftEnds
<1>17. Ended(m, Shift(w), c, b, x, {n})
  BY <1>14, <1>16 DEF Ended
<1> QED
  BY <1>14, <1>15, <1>17

\* Two ends in a row end what each of them does.
LEMMA EndedTwice ==
  ASSUME NEW c, NEW b, NEW m, NEW g, NEW w, NEW x \in Block, NEW S, NEW T, NEW U, U = S \cup T,
         Ended(m, g, c, b, x, S), Ended(g, w, c, b, x, T)
  PROVE  Ended(m, w, c, b, x, U)
<1>1. IsMem(w) /\ Books(w.queue, w.recs, c, b)
  BY DEF Ended
<1>2. ASSUME NEW y \in Block
      PROVE  /\ w.recs[y].in = IF y = x THEN m.recs[y].in \ U ELSE m.recs[y].in
             /\ w.recs[y].in # {} => w.recs[y].owner = m.recs[y].owner
  <2>1. /\ g.recs[y].in = IF y = x THEN m.recs[y].in \ S ELSE m.recs[y].in
        /\ g.recs[y].in # {} => g.recs[y].owner = m.recs[y].owner
        /\ w.recs[y].in = IF y = x THEN g.recs[y].in \ T ELSE g.recs[y].in
        /\ w.recs[y].in # {} => w.recs[y].owner = g.recs[y].owner
    BY DEF Ended
  <2> QED
    BY <2>1
<1> QED
  BY <1>1, <1>2 DEF Ended

\* One transaction of S after the other is done with block x, up to n.
Chain(m, x, S, n, f) ==
    f = [k \in 0 .. n |-> IF k = 0 THEN m
                          ELSE IF k \in S THEN EndOne(f[k - 1], x, k, IsFirst(f[k - 1], k))
                          ELSE f[k - 1]]

\* The recursive function of EndWrite is the chain of EndOne from the oldest on.
LEMMA ChainExists ==
  ASSUME NEW m, NEW x, NEW S, NEW n \in Nat
  PROVE  \E f : Chain(m, x, S, n, f)
<1> DEFINE D == {k \in Nat : ~\E f : Chain(m, x, S, k, f)}
<1>1. SUFFICES ASSUME D # {} PROVE FALSE
  OBVIOUS
<1>2. PICK k \in D : \A j \in D : k <= j
  BY <1>1, Least
<1>3. k # 0
  <2>1. Chain(m, x, S, 0, [j \in 0 .. 0 |-> m])
    BY DEF Chain
  <2> QED
    BY <1>2, <2>1
<1>4. PICK f : Chain(m, x, S, k - 1, f)
  BY <1>2, <1>3
<1> DEFINE h == IF k \in S THEN EndOne(f[k - 1], x, k, IsFirst(f[k - 1], k)) ELSE f[k - 1]
           g == [j \in 0 .. k |-> IF j = k THEN h ELSE f[j]]
<1> HIDE DEF h
<1>5. ASSUME NEW j \in 0 .. k
      PROVE  g[j] = IF j = 0 THEN m
                    ELSE IF j \in S THEN EndOne(g[j - 1], x, j, IsFirst(g[j - 1], j))
                    ELSE g[j - 1]
  <2>1. k \in Nat /\ k # 0 /\ j \in Nat /\ j <= k
    BY <1>2, <1>3
  <2>2. CASE j = k
    <3>1. g[j] = h /\ g[j - 1] = f[j - 1] /\ j # 0
      BY <2>1, <2>2
    <3> QED
      BY <2>2, <3>1 DEF h
  <2>3. CASE j = 0
    <3>1. g[j] = f[j]
      BY <2>1, <2>3
    <3>2. f[j] = m
      BY <1>4, <2>1, <2>3 DEF Chain
    <3> QED
      BY <2>3, <3>1, <3>2
  <2>4. CASE j # k /\ j # 0
    <3>1. g[j] = f[j] /\ g[j - 1] = f[j - 1] /\ j \in 0 .. (k - 1)
      BY <2>1, <2>4
    <3>2. f[j] = IF j \in S THEN EndOne(f[j - 1], x, j, IsFirst(f[j - 1], j)) ELSE f[j - 1]
      BY <1>4, <2>4, <3>1 DEF Chain
    <3> QED
      BY <2>4, <3>1, <3>2
  <2> QED
    BY <2>2, <2>3, <2>4
<1>6. Chain(m, x, S, k, g)
  <2>1. g = [j \in 0 .. k |-> g[j]]
    OBVIOUS
  <2> HIDE DEF g
  <2> QED
    BY <1>5, <2>1 DEF Chain
<1> QED
  BY <1>2, <1>6

\* The transactions that end with n.
Older(m, x, n) == IF m.recs[x].owner = n THEN m.recs[x].in \ {n} ELSE {}

\* EndWrite ends the older transactions of the owner, oldest first, and then n.
LEMMA EndWriteIs ==
  ASSUME NEW m, NEW x, NEW n \in Nat
  PROVE  \E f : /\ Chain(m, x, Older(m, x, n), n, f)
                /\ EndWrite(m, x, n) = EndOne(f[n], x, n, IsFirst(m, n))
<1> DEFINE g == CHOOSE f : Chain(m, x, Older(m, x, n), n, f)
<1>1. Chain(m, x, Older(m, x, n), n, g)
  BY ChainExists
<1>2. EndWrite(m, x, n) = EndOne(g[n], x, n, IsFirst(m, n))
  BY DEF EndWrite, Chain, Older
<1> QED
  BY <1>1, <1>2

\* With n end the transactions before it, if the block is its own; no other does.
LEMMA EndWriteEnds ==
  ASSUME NEW c, NEW b \in Nat, CurrOK(c, b), NEW m, IsMem(m), Books(m.queue, m.recs, c, b),
         NEW x \in Block, NEW n \in 1 .. b, Waits(m.queue, x, n)
  PROVE  \E S : /\ Ended(m, EndWrite(m, x, n), c, b, x, S)
                /\ m.recs[x].owner # n => S = {n}
<1> DEFINE older == Older(m, x, n)
           upto(k) == {j \in older : j <= k}
<1>1. PICK f : Chain(m, x, older, n, f) /\ EndWrite(m, x, n) = EndOne(f[n], x, n, IsFirst(m, n))
  BY EndWriteIs
<1>2. RecOK(m.queue, m.recs, c, b, x) /\ QueueOK(m.queue, c, b)
  BY DEF Books
<1>3. ~(Has(c, x) /\ c.n <= n)
  <2>1. PICK i \in DOMAIN m.queue : m.queue[i].n = n
    BY DEF Waits
  <2>2. c # NoTrans => n < c.n /\ c.n = b
    BY <1>2, <2>1 DEF QueueOK, CurrOK
  <2> QED
    BY <2>2 DEF Has
<1>4. older \subseteq 1 .. (n - 1)
  <2>1. ASSUME NEW k \in older
        PROVE  k \in 1 .. (n - 1)
    <3>1. k \in 1 .. b /\ k <= n /\ k # n
      BY <1>2 DEF RecOK, Older
    <3> QED
      BY <3>1
  <2> QED
    BY <2>1
<1>5. older \subseteq m.recs[x].in
  BY DEF Older
<1>6. m.recs[x].owner # n => older = {}
  BY DEF Older
<1> HIDE DEF older
<1>7. \A j \in older : j \in Nat /\ 1 <= j /\ j < n
  BY <1>4
<1>8. \A k \in 0 .. n : Ended(m, f[k], c, b, x, upto(k))
  <2> DEFINE D == {k \in 0 .. n : ~Ended(m, f[k], c, b, x, upto(k))}
  <2>1. SUFFICES ASSUME D # {} PROVE FALSE
    OBVIOUS
  <2>2. PICK k \in D : \A j \in D : k <= j
    <3>1. D \in SUBSET Nat
      OBVIOUS
    <3> QED
      BY <2>1, <3>1, Least
  <2>3. k \in 0 .. n
    OBVIOUS
  <2>4. k # 0
    <3>1. upto(0) = {}
      BY <1>7
    <3>2. f[0] = m
      BY <1>1 DEF Chain
    <3>3. Ended(m, m, c, b, x, {})
      BY DEF Ended
    <3> QED
      BY <2>2, <3>1, <3>2, <3>3
  <2> DEFINE g == f[k - 1]
  <2>5. k - 1 \in 0 .. n /\ Ended(m, g, c, b, x, upto(k - 1))
    <3>1. k - 1 \in 0 .. n /\ ~(k <= k - 1)
      BY <2>3, <2>4
    <3> QED
      BY <2>2, <3>1
  <2>6. f[k] = IF k \in older THEN EndOne(g, x, k, IsFirst(g, k)) ELSE g
    BY <1>1, <2>3, <2>4 DEF Chain
  <2> HIDE DEF g
  <2>7. CASE k \in older
    <3>1. upto(k) = upto(k - 1) \cup {k}
      <4>1. k \in Nat
        BY <2>3
      <4>2. \A j \in older : j <= k <=> j <= k - 1 \/ j = k
        BY <1>7, <4>1
      <4> QED
        BY <2>7, <4>1, <4>2
    <3>2. IsMem(g) /\ Books(g.queue, g.recs, c, b) /\ g.recs[x].in = m.recs[x].in \ upto(k - 1)
      BY <2>5 DEF Ended
    <3>3. k \in g.recs[x].in /\ k \in 1 .. b /\ k < n
      BY <1>4, <1>5, <2>7, <3>2
    <3>4. Waits(g.queue, x, k)
      <4>1. RecOK(g.queue, g.recs, c, b, x)
        BY <3>2 DEF Books
      <4>2. ~(Has(c, x) /\ k = c.n)
        BY <1>3, <3>3
      <4> QED
        BY <3>3, <4>1, <4>2 DEF RecOK
    <3>5. Ended(g, f[k], c, b, x, {k})
      BY <2>6, <2>7, <3>2, <3>3, <3>4, EndOneEnds
    <3> HIDE DEF upto
    <3> QED
      BY <2>2, <2>5, <3>1, <3>5, EndedTwice DEF D
  <2>8. CASE k \notin older
    <3>1. upto(k) = upto(k - 1)
      <4>1. \A j \in older : j # k
        BY <2>8
      <4>2. k \in Nat
        BY <2>3
      <4> QED
        BY <1>7, <4>1, <4>2
    <3> QED
      BY <2>2, <2>5, <2>6, <2>8, <3>1
  <2> QED
    BY <2>7, <2>8
<1> DEFINE g == f[n]
           S == older \cup {n}
<1>9. Ended(m, g, c, b, x, older)
  <2>1. upto(n) = older
    BY <1>7
  <2> QED
    BY <1>8, <2>1
<1> HIDE DEF g
<1>10. IsMem(g) /\ Books(g.queue, g.recs, c, b) /\ g.recs[x].in = m.recs[x].in \ older
  BY <1>9 DEF Ended
<1>11. Waits(g.queue, x, n)
  <2>1. n \in m.recs[x].in
    BY <1>2 DEF RecOK
  <2>2. n \in g.recs[x].in
    BY <1>4, <1>10, <2>1
  <2>3. RecOK(g.queue, g.recs, c, b, x)
    BY <1>10 DEF Books
  <2> QED
    BY <1>3, <2>2, <2>3 DEF RecOK
<1>12. Ended(g, EndWrite(m, x, n), c, b, x, {n})
  BY <1>1, <1>10, <1>11, EndOneEnds DEF g
<1>13. Ended(m, EndWrite(m, x, n), c, b, x, S)
  BY <1>9, <1>12, EndedTwice
<1> QED
  BY <1>6, <1>13

-----------------------------------------------------------------------------
(* The open transaction.                                                   *)

\* The blocks of the open transaction are a list.
LEMMA BufsAre ==
  ASSUME NEW c, NEW b \in Nat, CurrOK(c, b), c # NoTrans
  PROVE  /\ Len(c.bufs) \in Nat /\ DOMAIN c.bufs = 1 .. Len(c.bufs)
         /\ ToSet(c.bufs) \subseteq Block
         /\ \A i, j \in 1 .. Len(c.bufs) : i # j => c.bufs[i] # c.bufs[j]
<1>1. c.bufs \in Seq(Block)
  BY DEF CurrOK
<1>2. Len(c.bufs) \in Nat /\ DOMAIN c.bufs = 1 .. Len(c.bufs)
      /\ \A i \in 1 .. Len(c.bufs) : c.bufs[i] \in Block
  BY <1>1, LenProperties, ElementOfSeq
<1> QED
  BY <1>2 DEF CurrOK, ToSet

\* Only its number and its blocks tell one open transaction from another.
LEMMA SameBooks ==
  ASSUME NEW q, NEW r, NEW c, NEW d, NEW b, Books(q, r, c, b), c # NoTrans, d # NoTrans,
         d.n = c.n, ToSet(d.bufs) = ToSet(c.bufs)
  PROVE  Books(q, r, d, b)
<1>1. QueueOK(q, d, b)
  BY DEF QueueOK, Books
<1>2. \A x \in Block : Has(d, x) <=> Has(c, x)
  BY DEF Has
<1> QED
  BY <1>1, <1>2 DEF Books, RecOK

\* A block put at the head of the open transaction is one more of its blocks.
LEMMA Prepended ==
  ASSUME NEW S, NEW s \in Seq(S), NEW z \in S
  PROVE  LET t == <<z>> \o s
         IN  /\ t \in Seq(S) /\ Len(t) = Len(s) + 1
             /\ DOMAIN t = 1 .. Len(s) + 1 /\ t[1] = z
             /\ \A i \in 2 .. Len(s) + 1 : i - 1 \in 1 .. Len(s) /\ t[i] = s[i - 1]
             /\ ToSet(t) = ToSet(s) \cup {z}
<1> DEFINE t == <<z>> \o s
<1>1. Len(s) \in Nat /\ DOMAIN s = 1 .. Len(s)
  BY LenProperties
<1>2. <<z>> \in Seq(S) /\ Len(<<z>>) = 1 /\ <<z>>[1] = z
  OBVIOUS
<1>3. /\ t \in Seq(S) /\ Len(t) = 1 + Len(s)
      /\ \A i \in 1 .. 1 + Len(s) : t[i] = IF i <= 1 THEN <<z>>[i] ELSE s[i - 1]
  BY <1>2, ConcatProperties
<1> HIDE DEF t
<1>4. DOMAIN t = 1 .. Len(s) + 1 /\ Len(t) = Len(s) + 1
  BY <1>1, <1>3, LenProperties
<1>5. t[1] = z
  BY <1>1, <1>2, <1>3
<1>6. \A i \in 2 .. Len(s) + 1 : i - 1 \in 1 .. Len(s) /\ t[i] = s[i - 1]
  BY <1>1, <1>3
<1>7. ToSet(t) = ToSet(s) \cup {z}
  <2>1. ASSUME NEW y \in ToSet(t) PROVE y \in ToSet(s) \cup {z}
    <3>1. PICK i \in 1 .. Len(s) + 1 : y = t[i]
      BY <1>4 DEF ToSet
    <3>2. CASE i = 1
      BY <1>5, <3>1, <3>2
    <3>3. CASE i # 1
      <4>1. i \in 2 .. Len(s) + 1
        BY <1>1, <3>3
      <4>2. i - 1 \in DOMAIN s /\ y = s[i - 1]
        BY <1>1, <1>6, <3>1, <4>1
      <4> QED
        BY <4>2 DEF ToSet
    <3> QED
      BY <3>2, <3>3
  <2>2. z \in ToSet(t)
    <3>1. 1 \in DOMAIN t
      BY <1>1, <1>4
    <3> QED
      BY <1>5, <3>1 DEF ToSet
  <2>3. ASSUME NEW y \in ToSet(s) PROVE y \in ToSet(t)
    <3>1. PICK i \in 1 .. Len(s) : y = s[i]
      BY <1>1 DEF ToSet
    <3>2. i + 1 \in 2 .. Len(s) + 1 /\ (i + 1) - 1 = i
      BY <1>1
    <3>3. i + 1 \in DOMAIN t /\ t[i + 1] = y
      BY <1>1, <1>4, <1>6, <3>1, <3>2
    <3> QED
      BY <3>3 DEF ToSet
  <2> QED
    BY <2>1, <2>2, <2>3
<1> QED
  BY <1>3, <1>4, <1>5, <1>6, <1>7 DEF t

\* An open transaction has a stage.
LEMMA NotNone ==
  ASSUME NEW d, d.pc # "none"
  PROVE  d # NoTrans
BY DEF NoTrans

\* A block joins the open transaction, in its list and in the block's record.
Enter(c, z) == [c EXCEPT !.bufs = <<z>> \o @, !.revoked = @ \ {z}]
Note(r, c, z) == [r EXCEPT ![z] = [owner |-> c.n, in |-> @.in \cup {c.n}]]

\* A block that joins the open transaction is noted in its record.
LEMMA JoinKeeps ==
  ASSUME NEW q, NEW r, NEW c, NEW b \in Nat, CurrOK(c, b), c # NoTrans, c.pc = "open",
         Books(q, r, c, b), NEW z \in Block, z \notin ToSet(c.bufs)
  PROVE  LET d == Enter(c, z)
             s == Note(r, c, z)
         IN  /\ CurrOK(d, b) /\ d # NoTrans /\ Books(q, s, d, b)
             /\ ToSet(d.bufs) = ToSet(c.bufs) \cup {z}
             /\ d.pc = "open" /\ d.n = c.n /\ d.revoked = c.revoked \ {z}
             /\ DOMAIN d = DOMAIN c /\ d.at = c.at /\ d.left = c.left
             /\ \A y \in Block \ {z} : s[y] = r[y]
<1> DEFINE d == Enter(c, z)
           s == Note(r, c, z)
<1>1. DOMAIN c = {"pc", "n", "bufs", "revoked", "freed", "id", "start", "alloc",
                  "slot", "desc", "at", "last", "left"}
  BY DEF CurrOK
<1>2. /\ DOMAIN d = DOMAIN c /\ d.pc = "open" /\ d.n = c.n /\ d.revoked = c.revoked \ {z}
      /\ d.at = c.at /\ d.left = c.left /\ d.bufs = <<z>> \o c.bufs
  BY <1>1 DEF Enter
<1> HIDE DEF d
<1>3. d # NoTrans
  BY <1>2, NotNone
<1>4. /\ Len(c.bufs) \in Nat /\ DOMAIN c.bufs = 1 .. Len(c.bufs) /\ c.bufs \in Seq(Block)
      /\ \A i, j \in 1 .. Len(c.bufs) : i # j => c.bufs[i] # c.bufs[j]
  BY BufsAre DEF CurrOK
<1>5. /\ d.bufs \in Seq(Block) /\ Len(d.bufs) = Len(c.bufs) + 1
      /\ DOMAIN d.bufs = 1 .. Len(c.bufs) + 1 /\ d.bufs[1] = z
      /\ \A i \in 2 .. Len(c.bufs) + 1 : i - 1 \in 1 .. Len(c.bufs) /\ d.bufs[i] = c.bufs[i - 1]
  BY <1>2, <1>4, Prepended
<1>7. ToSet(d.bufs) = ToSet(c.bufs) \cup {z}
  BY <1>2, <1>4, Prepended
<1>8. \A i, j \in DOMAIN d.bufs : i # j => d.bufs[i] # d.bufs[j]
  <2>1. ASSUME NEW i \in DOMAIN d.bufs, NEW j \in DOMAIN d.bufs, i < j
        PROVE  d.bufs[i] # d.bufs[j]
    <3>1. i \in 1 .. Len(c.bufs) + 1 /\ j \in 2 .. Len(c.bufs) + 1 /\ i \in Int /\ j \in Int
      BY <1>4, <1>5, <2>1
    <3>2. j - 1 \in 1 .. Len(c.bufs) /\ d.bufs[j] = c.bufs[j - 1]
      BY <1>5, <3>1
    <3>3. CASE i = 1
      <4>1. c.bufs[j - 1] \in ToSet(c.bufs) /\ d.bufs[i] = z
        BY <1>4, <1>5, <3>2, <3>3 DEF ToSet
      <4> QED
        BY <3>2, <4>1
    <3>4. CASE i # 1
      <4>1. i \in 2 .. Len(c.bufs) + 1 /\ i - 1 # j - 1
        BY <1>4, <2>1, <3>1, <3>4
      <4>2. i - 1 \in 1 .. Len(c.bufs) /\ d.bufs[i] = c.bufs[i - 1]
        BY <1>5, <4>1
      <4> QED
        BY <1>4, <3>2, <4>1, <4>2
    <3> QED
      BY <3>3, <3>4
  <2>2. ASSUME NEW i \in DOMAIN d.bufs, NEW j \in DOMAIN d.bufs, i # j
        PROVE  i < j \/ j < i
    BY <1>4, <1>5, <2>2
  <2> QED
    BY <2>1, <2>2
<1>9. DOMAIN c.at = {} /\ Cardinality(DOMAIN c.at) = 0 /\ c.left = {} /\ b >= 1 /\ c.n = b
      /\ c.revoked \subseteq Pool
  BY FS_EmptySet DEF CurrOK
<1>10. CurrOK(d, b)
  <2>1. DOMAIN d.at = {d.bufs[j] : j \in 1 .. Cardinality(DOMAIN d.at)}
    <3>1. DOMAIN d.at = {} /\ Cardinality(DOMAIN d.at) = 0
      BY <1>2, <1>9
    <3>2. {d.bufs[j] : j \in 1 .. 0} = {}
      OBVIOUS
    <3> QED
      BY <3>1, <3>2
  <2>2. Cardinality(DOMAIN d.at) <= Len(d.bufs)
    <3>1. Cardinality(DOMAIN d.at) = 0
      BY <1>2, <1>9
    <3> QED
      BY <1>4, <1>5, <3>1
  <2>3. d.revoked \subseteq Pool /\ d.left \subseteq d.revoked
    BY <1>2, <1>9
  <2> QED
    BY <1>1, <1>2, <1>5, <1>8, <1>9, <2>1, <2>2, <2>3 DEF CurrOK
<1>11. /\ DOMAIN s = Block /\ s[z] = [owner |-> c.n, in |-> r[z].in \cup {c.n}]
       /\ \A y \in Block \ {z} : s[y] = r[y]
  BY DEF Books, Note
<1> HIDE DEF s
<1>12. QueueOK(q, d, b)
  BY <1>2 DEF QueueOK, Books
<1>13. ASSUME NEW y \in Block
       PROVE  RecOK(q, s, d, b, y)
  <2>1. RecOK(q, r, c, b, y)
    BY DEF Books
  <2>2. Has(d, y) <=> Has(c, y) \/ y = z
    BY <1>3, <1>7 DEF Has
  <2>3. CASE y # z
    BY <1>2, <1>11, <2>1, <2>2, <2>3 DEF RecOK
  <2>4. CASE y = z
    <3>1. s[y].owner = b /\ s[y].in = r[y].in \cup {b} /\ DOMAIN s[y] = {"owner", "in"}
      BY <1>9, <1>11, <2>4
    <3>2. ~Has(c, y)
      BY <2>4 DEF Has
    <3>3. r[y].in \subseteq 1 .. b /\ \A k \in 1 .. b : k \in r[y].in <=> Waits(q, y, k)
      BY <2>1, <3>2 DEF RecOK
    <3>4. \A k \in 1 .. b : k \in s[y].in <=> Waits(q, y, k) \/ (Has(d, y) /\ k = d.n)
      BY <1>2, <1>9, <2>2, <2>4, <3>1, <3>3
    <3>5. s[y].in \subseteq 1 .. b /\ \A k \in s[y].in : k <= s[y].owner
      BY <1>9, <3>1, <3>3
    <3> QED
      BY <1>2, <1>9, <3>1, <3>4, <3>5 DEF RecOK
  <2> QED
    BY <2>3, <2>4
<1>14. Books(q, s, d, b)
  BY <1>11, <1>12, <1>13 DEF Books
<1> QED
  BY <1>2, <1>3, <1>7, <1>10, <1>11, <1>14 DEF d, s

-----------------------------------------------------------------------------
(* Steps that leave the queue alone.                                       *)

\* Where no transaction is and no buffer is dirty, the books are right.
LEMMA NothingWaits ==
  ASSUME NEW b \in Nat, NEW r, r = [x \in Block |-> NoRec], NEW d, d = [x \in Block |-> Clean]
  PROVE  /\ CurrOK(NoTrans, b) /\ Books(<<>>, r, NoTrans, b)
         /\ DOMAIN d = Block /\ \A x \in Block : BufOK(d, r, NoTrans, b, x)
<1>1. CurrOK(NoTrans, b)
  BY DEF CurrOK
<1>2. QueueOK(<<>>, NoTrans, b)
  <2>1. <<>> \in Seq(ToSet(<<>>)) /\ DOMAIN <<>> = {}
    OBVIOUS
  <2> QED
    BY <2>1 DEF QueueOK
<1>3. \A x \in Block : RecOK(<<>>, r, NoTrans, b, x)
  <2>1. DOMAIN <<>> = {}
    OBVIOUS
  <2> QED
    BY <2>1 DEF RecOK, NoRec, Waits, Has
<1>4. \A x \in Block : BufOK(d, r, NoTrans, b, x)
  BY DEF BufOK, Has
<1> QED
  BY <1>1, <1>2, <1>3, <1>4 DEF Books

\* The first state has no transaction and no dirty buffer.
LEMMA InitKeeps == Init => JournalInv
<1> SUFFICES ASSUME Init PROVE JournalInv
  OBVIOUS
<1> QED
  BY NothingWaits DEF Init, JournalInv

\* A loss of power leaves no transaction and no dirty buffer.
LEMMA PowerLossKeeps ==
  ASSUME JournalInv, PowerLoss
  PROVE  JournalInv'
<1>1. begun' = begun /\ curr' = NoTrans /\ queue' = <<>>
      /\ recs' = [x \in Block |-> NoRec] /\ cache' = [x \in Block |-> Clean]
  BY DEF PowerLoss
<1> QED
  BY <1>1, NothingWaits DEF JournalInv

\* Only the device, the log or the journal's own numbers change.
LEMMA ElsewhereKeeps ==
  ASSUME JournalInv, UNCHANGED <<cache, recs, queue, curr, begun>>
  PROVE  JournalInv'
BY DEF JournalInv

\* A transaction that begins is the last one and has no block.
LEMMA BeginKeeps ==
  ASSUME JournalInv, Begin
  PROVE  JournalInv'
<1> DEFINE d == curr'
<1>1. /\ curr = NoTrans /\ begun \in Nat /\ begun' = begun + 1
      /\ queue' = queue /\ recs' = recs /\ cache' = cache
      /\ d = [pc |-> "open", n |-> begun + 1, bufs |-> <<>>, revoked |-> {}, freed |-> {},
              id |-> 0, start |-> 0, alloc |-> 0, slot |-> 0, desc |-> 0, at |-> <<>>,
              last |-> 0, left |-> {}]
  BY DEF Begin, JournalInv
<1>2. d # NoTrans /\ d.n = begun + 1 /\ d.bufs = <<>> /\ d.revoked = {}
  BY <1>1, NotNone
<1>3. CurrOK(d, begun')
  <2>1. DOMAIN <<>> = {} /\ <<>> \in Seq(Block) /\ Len(<<>>) = 0
    OBVIOUS
  <2>2. DOMAIN d.at = {} /\ Cardinality(DOMAIN d.at) = 0
    BY <1>1, <2>1, FS_EmptySet
  <2>3. DOMAIN d.at = {d.bufs[j] : j \in 1 .. Cardinality(DOMAIN d.at)}
    <3>1. {d.bufs[j] : j \in 1 .. 0} = {}
      OBVIOUS
    <3> QED
      BY <2>2, <3>1
  <2> QED
    BY <1>1, <2>1, <2>2, <2>3 DEF CurrOK
<1> HIDE DEF d
<1>4. \A x \in Block : ~Has(d, x) /\ ~Has(curr, x)
  BY <1>1, <1>2 DEF Has, ToSet
<1>5. QueueOK(queue, d, begun')
  <2>1. QueueOK(queue, curr, begun)
    BY DEF JournalInv, Books
  <2>2. \A i \in DOMAIN queue : queue[i].n \in 1 .. begun' /\ queue[i].n < d.n
    BY <1>1, <1>2, <2>1 DEF QueueOK
  <2> QED
    BY <2>1, <2>2 DEF QueueOK
<1>6. ASSUME NEW x \in Block
      PROVE  RecOK(queue, recs, d, begun', x) /\ BufOK(cache, recs, d, begun', x)
  <2>1. RecOK(queue, recs, curr, begun, x) /\ BufOK(cache, recs, curr, begun, x)
    BY DEF JournalInv, Books
  <2>2. \A k \in 1 .. begun' : k \in 1 .. begun \/ (k = begun' /\ ~Waits(queue, x, k))
    <3>1. \A i \in DOMAIN queue : queue[i].n \in 1 .. begun
      BY DEF JournalInv, Books, QueueOK
    <3> QED
      BY <1>1, <3>1 DEF Waits
  <2>3. RecOK(queue, recs, d, begun', x)
    <3>1. /\ DOMAIN recs[x] = {"owner", "in"} /\ recs[x].owner \in 0 .. begun
          /\ recs[x].in \subseteq 1 .. begun /\ \A k \in recs[x].in : k <= recs[x].owner
          /\ \A k \in 1 .. begun : k \in recs[x].in <=> Waits(queue, x, k)
      BY <1>4, <2>1 DEF RecOK
    <3>2. \A k \in 1 .. begun' : k \in recs[x].in <=> Waits(queue, x, k)
      BY <1>1, <2>2, <3>1
    <3>3. recs[x].owner \in 0 .. begun' /\ recs[x].in \subseteq 1 .. begun'
      BY <1>1, <3>1
    <3> QED
      BY <1>4, <3>1, <3>2, <3>3 DEF RecOK
  <2>4. BufOK(cache, recs, d, begun', x)
    <3>1. cache[x] # Clean => cache[x].arg \in 1 .. begun'
      BY <1>1, <2>1 DEF BufOK
    <3> QED
      BY <1>2, <1>4, <2>1, <3>1 DEF BufOK
  <2> QED
    BY <2>3, <2>4
<1>7. DOMAIN recs = Block /\ DOMAIN cache = Block
  BY DEF JournalInv, Books
<1>8. Books(queue, recs, d, begun')
  BY <1>5, <1>6, <1>7 DEF Books
<1>9. begun' \in Nat
  BY <1>1
<1>10. /\ CurrOK(curr', begun') /\ Books(queue', recs', curr', begun')
       /\ DOMAIN cache' = Block /\ \A x \in Block : BufOK(cache', recs', curr', begun', x)
  BY <1>1, <1>3, <1>6, <1>7, <1>8 DEF d
<1> QED
  BY <1>9, <1>10 DEF JournalInv

\* A buffer is the open transaction's only if its block has joined it.
LEMMA NotJoined ==
  ASSUME JournalInv, curr # NoTrans, NEW x \in Block, x \notin ToSet(curr.bufs)
  PROVE  ~InTrans(x)
<1>1. curr.n = begun /\ begun >= 1 /\ begun \in Nat
  BY DEF JournalInv, CurrOK
<1>2. SUFFICES ASSUME InTrans(x) PROVE FALSE
  OBVIOUS
<1>3. cache[x] # Clean
  BY <1>1, <1>2 DEF Clean, InTrans
<1>4. /\ BufOK(cache, recs, curr, begun, x) /\ RecOK(queue, recs, curr, begun, x)
      /\ QueueOK(queue, curr, begun)
  BY DEF JournalInv, Books
<1>5. ~Has(curr, x)
  BY DEF Has
<1>6. begun \in recs[x].in
  BY <1>1, <1>2, <1>3, <1>4, <1>5 DEF BufOK, InTrans
<1>7. Waits(queue, x, begun)
  BY <1>1, <1>4, <1>5, <1>6 DEF RecOK
<1>8. PICK i \in DOMAIN queue : queue[i].n = begun
  BY <1>7 DEF Waits
<1> QED
  BY <1>1, <1>4, <1>8 DEF QueueOK

\* The bitmap joins the open transaction, if it has not yet.
LEMMA BitmapJoins ==
  ASSUME JournalInv, curr.pc = "open", NEW c, c = Joined(Bitmap), NEW r, r = Owned(Bitmap)
  PROVE  /\ curr # NoTrans /\ c # NoTrans
         /\ CurrOK(c, begun) /\ Books(queue, r, c, begun)
         /\ ToSet(c.bufs) = ToSet(curr.bufs) \cup {Bitmap}
         /\ c.pc = "open" /\ c.n = curr.n /\ c.revoked = curr.revoked
         /\ DOMAIN c = DOMAIN curr /\ c.at = curr.at /\ c.left = curr.left
         /\ \A y \in Block \ {Bitmap} : r[y] = recs[y]
<1>1. curr # NoTrans
  BY NotNone
<1>2. /\ CurrOK(curr, begun) /\ Books(queue, recs, curr, begun) /\ begun \in Nat
      /\ BufOK(cache, recs, curr, begun, Bitmap) /\ Bitmap \in Block /\ Bitmap \notin Pool
  BY JournalAssumption DEF JournalInv, Block
<1>3. Bitmap \notin curr.revoked
  BY <1>1, <1>2 DEF CurrOK
<1>4. CASE InTrans(Bitmap)
  <2>1. Bitmap \in ToSet(curr.bufs)
    BY <1>1, <1>2, <1>4, NotJoined
  <2> QED
    BY <1>1, <1>2, <1>4, <2>1 DEF Joined, Owned
<1>5. CASE ~InTrans(Bitmap)
  <2>1. Bitmap \notin ToSet(curr.bufs)
    BY <1>1, <1>2, <1>5 DEF BufOK, Has, InTrans
  <2>2. c = Enter(curr, Bitmap) /\ r = Note(recs, curr, Bitmap)
    BY <1>5 DEF Joined, Owned, Enter, Note
  <2>3. /\ CurrOK(c, begun) /\ c # NoTrans /\ Books(queue, r, c, begun)
        /\ ToSet(c.bufs) = ToSet(curr.bufs) \cup {Bitmap}
        /\ c.pc = "open" /\ c.n = curr.n /\ c.revoked = curr.revoked \ {Bitmap}
        /\ DOMAIN c = DOMAIN curr /\ c.at = curr.at /\ c.left = curr.left
        /\ \A y \in Block \ {Bitmap} : r[y] = recs[y]
    BY <1>1, <1>2, <2>1, <2>2, JoinKeeps
  <2> QED
    BY <1>1, <1>3, <2>3
<1> QED
  BY <1>4, <1>5

\* A buffer made dirty by the open transaction, whose block has joined it.
LEMMA MadeDirty ==
  ASSUME NEW b \in Nat, NEW c, CurrOK(c, b), c # NoTrans, NEW x \in Block, Has(c, x),
         x \notin c.revoked, NEW d, d[x].arg = c.n, NEW r
  PROVE  BufOK(d, r, c, b, x)
<1>1. c.n = b /\ b >= 1
  BY DEF CurrOK
<1>2. d[x] # Clean /\ d[x].arg \in 1 .. b
  BY <1>1 DEF Clean
<1> QED
  BY <1>2 DEF BufOK

\* A buffer that the change does not touch.
LEMMA Untouched ==
  ASSUME NEW b, NEW c, c # NoTrans, NEW e, e # NoTrans, e.n = c.n, e.pc = "open", c.pc = "open",
         NEW d, NEW g, NEW r, NEW s, NEW x \in Block, BufOK(d, r, c, b, x),
         g[x] = d[x] \/ (g[x] = Clean /\ x # Bitmap), s[x] = r[x], Has(e, x) <=> Has(c, x),
         x \in e.revoked => x \in c.revoked \/ g[x] = Clean
  PROVE  BufOK(g, s, e, b, x)
BY DEF BufOK

\* A block that a call changes joins the open transaction.
LEMMA UpdateKeeps ==
  ASSUME JournalInv, NEW x \in Pool, Update(x)
  PROVE  JournalInv'
<1>1. /\ curr # NoTrans /\ curr.pc = "open" /\ x \notin ToSet(curr.bufs) /\ x \in Block
      /\ cache' = [cache EXCEPT ![x] = NewBlock] /\ recs' = Owned(x) /\ curr' = Joined(x)
      /\ queue' = queue /\ begun' = begun
  BY NotNone DEF Update, Open, Block
<1>2. /\ CurrOK(curr, begun) /\ Books(queue, recs, curr, begun) /\ begun \in Nat
      /\ DOMAIN cache = Block /\ \A y \in Block : BufOK(cache, recs, curr, begun, y)
  BY DEF JournalInv
<1>3. curr' = Enter(curr, x) /\ recs' = Note(recs, curr, x)
  BY <1>1, NotJoined DEF Joined, Owned, Enter, Note
<1>4. /\ CurrOK(curr', begun) /\ curr' # NoTrans /\ Books(queue, recs', curr', begun)
      /\ ToSet((curr').bufs) = ToSet(curr.bufs) \cup {x}
      /\ (curr').pc = "open" /\ (curr').n = curr.n /\ (curr').revoked = curr.revoked \ {x}
      /\ \A y \in Block \ {x} : recs'[y] = recs[y]
  BY <1>1, <1>2, <1>3, JoinKeeps
<1>5. /\ DOMAIN cache' = Block /\ cache'[x].arg = curr.n
      /\ \A y \in Block \ {x} : cache'[y] = cache[y]
  BY <1>1, <1>2 DEF NewBlock
<1>6. \A y \in Block : Has(curr', y) <=> Has(curr, y) \/ y = x
  BY <1>1, <1>4 DEF Has
<1>7. ASSUME NEW y \in Block
      PROVE  BufOK(cache', recs', curr', begun, y)
  <2>1. CASE y = x
    BY <1>2, <1>4, <1>5, <1>6, <2>1, MadeDirty
  <2>2. CASE y # x
    BY <1>1, <1>2, <1>4, <1>5, <1>6, <2>2, Untouched
  <2> QED
    BY <2>1, <2>2
<1> QED
  BY <1>1, <1>2, <1>4, <1>5, <1>7 DEF JournalInv

\* A block given to data leaves the transactions that wait for it.
LEMMA AllocDataKeeps ==
  ASSUME JournalInv, NEW x \in Pool, AllocData(x)
  PROVE  JournalInv'
<1>1. /\ curr.pc = "open" /\ Bitmap \in Block
      /\ cache' = [cache EXCEPT ![Bitmap] = NewBitmap(x, "data")]
      /\ recs' = Owned(Bitmap) /\ curr' = Joined(Bitmap) /\ queue' = queue /\ begun' = begun
  BY DEF AllocData, Open, Block
<1>2. /\ begun \in Nat /\ DOMAIN cache = Block
      /\ \A y \in Block : BufOK(cache, recs, curr, begun, y)
  BY DEF JournalInv
<1>3. /\ curr # NoTrans /\ curr' # NoTrans
      /\ CurrOK(curr', begun) /\ Books(queue, recs', curr', begun)
      /\ ToSet((curr').bufs) = ToSet(curr.bufs) \cup {Bitmap}
      /\ (curr').pc = "open" /\ (curr').n = curr.n /\ (curr').revoked = curr.revoked
      /\ \A y \in Block \ {Bitmap} : recs'[y] = recs[y]
  BY <1>1, BitmapJoins
<1>4. /\ DOMAIN cache' = Block /\ cache'[Bitmap].arg = curr.n
      /\ \A y \in Block \ {Bitmap} : cache'[y] = cache[y]
  BY <1>1, <1>2 DEF NewBitmap
<1>5. \A y \in Block : Has(curr', y) <=> Has(curr, y) \/ y = Bitmap
  BY <1>3 DEF Has
<1>6. Bitmap \notin (curr').revoked
  BY <1>3, JournalAssumption DEF CurrOK
<1>7. ASSUME NEW y \in Block
      PROVE  BufOK(cache', recs', curr', begun, y)
  <2>1. CASE y = Bitmap
    BY <1>2, <1>3, <1>4, <1>5, <1>6, <2>1, MadeDirty
  <2>2. CASE y # Bitmap
    <3>1. /\ BufOK(cache, recs, curr, begun, y) /\ cache'[y] = cache[y]
          /\ recs'[y] = recs[y] /\ (Has(curr', y) <=> Has(curr, y))
      BY <1>2, <1>3, <1>4, <1>5, <2>2
    <3>2. /\ curr # NoTrans /\ curr' # NoTrans /\ (curr').n = curr.n
          /\ (curr').pc = "open" /\ curr.pc = "open"
          /\ y \in (curr').revoked => y \in curr.revoked
      BY <1>1, <1>3
    <3> QED
      BY <3>1, <3>2, Untouched
  <2> QED
    BY <2>1, <2>2
<1> QED
  BY <1>1, <1>2, <1>3, <1>4, <1>7 DEF JournalInv

\* A block given to metadata joins the open transaction.
LEMMA AllocMetaKeeps ==
  ASSUME JournalInv, NEW x \in Pool, AllocMeta(x)
  PROVE  JournalInv'
<1> DEFINE c == Joined(Bitmap)
           r == Owned(Bitmap)
<1>1. /\ curr.pc = "open" /\ Bitmap \in Block /\ x \in Block /\ x # Bitmap
      /\ x \notin ToSet(curr.bufs)
      /\ cache' = [cache EXCEPT ![Bitmap] = NewBitmap(x, "meta"), ![x] = NewBlock]
      /\ recs' = [r EXCEPT ![x] = Owned(x)[x]]
      /\ curr' = [c EXCEPT !.bufs = <<x>> \o @, !.revoked = @ \ {x}]
      /\ queue' = queue /\ begun' = begun
  BY JournalAssumption DEF AllocMeta, Open, Block
<1>2. /\ begun \in Nat /\ DOMAIN cache = Block /\ DOMAIN recs = Block
      /\ \A y \in Block : BufOK(cache, recs, curr, begun, y)
  BY DEF JournalInv, Books
<1>3. /\ curr # NoTrans /\ c # NoTrans
      /\ CurrOK(c, begun) /\ Books(queue, r, c, begun)
      /\ ToSet(c.bufs) = ToSet(curr.bufs) \cup {Bitmap}
      /\ c.pc = "open" /\ c.n = curr.n /\ c.revoked = curr.revoked
      /\ \A y \in Block \ {Bitmap} : r[y] = recs[y]
  BY <1>1, BitmapJoins
<1>4. Owned(x)[x] = [owner |-> c.n, in |-> r[x].in \cup {c.n}]
  BY <1>1, <1>2, <1>3, NotJoined DEF Owned
<1> HIDE DEF c, r
<1>5. /\ CurrOK(curr', begun) /\ curr' # NoTrans /\ Books(queue, recs', curr', begun)
      /\ ToSet((curr').bufs) = ToSet(c.bufs) \cup {x}
      /\ (curr').pc = "open" /\ (curr').n = c.n /\ (curr').revoked = c.revoked \ {x}
      /\ \A y \in Block \ {x} : recs'[y] = r[y]
  <2>1. recs' = Note(r, c, x) /\ curr' = Enter(c, x)
    BY <1>1, <1>4 DEF Note, Enter
  <2>2. x \notin ToSet(c.bufs)
    BY <1>1, <1>3
  <2>3. /\ CurrOK(c, begun) /\ c # NoTrans /\ c.pc = "open" /\ Books(queue, r, c, begun)
        /\ begun \in Nat /\ x \in Block
    BY <1>1, <1>2, <1>3
  <2> QED
    BY <2>1, <2>2, <2>3, JoinKeeps
<1>6. /\ DOMAIN cache' = Block /\ cache'[Bitmap].arg = curr.n /\ cache'[x].arg = curr.n
      /\ \A y \in Block \ {x, Bitmap} : cache'[y] = cache[y]
  BY <1>1, <1>2 DEF NewBitmap, NewBlock
<1>7. \A y \in Block : Has(curr', y) <=> Has(curr, y) \/ y \in {x, Bitmap}
  BY <1>3, <1>5 DEF Has
<1>8. x \notin (curr').revoked /\ Bitmap \notin (curr').revoked
  BY <1>5, JournalAssumption DEF CurrOK
<1>9. ASSUME NEW y \in Block
      PROVE  BufOK(cache', recs', curr', begun, y)
  <2>1. CASE y \in {x, Bitmap}
    BY <1>2, <1>3, <1>5, <1>6, <1>7, <1>8, <2>1, MadeDirty
  <2>2. CASE y \notin {x, Bitmap}
    <3>1. /\ BufOK(cache, recs, curr, begun, y) /\ cache'[y] = cache[y]
          /\ recs'[y] = recs[y] /\ (Has(curr', y) <=> Has(curr, y))
      BY <1>2, <1>3, <1>5, <1>6, <1>7, <2>2
    <3>2. /\ curr # NoTrans /\ curr' # NoTrans /\ (curr').n = curr.n
          /\ (curr').pc = "open" /\ curr.pc = "open"
          /\ y \in (curr').revoked => y \in curr.revoked
      BY <1>1, <1>3, <1>5
    <3> QED
      BY <3>1, <3>2, Untouched
  <2> QED
    BY <2>1, <2>2
<1> QED
  BY <1>1, <1>2, <1>5, <1>6, <1>9 DEF JournalInv

\* A freed block's buffer is clean, and the bitmap joins the open transaction.
LEMMA FreeBlockKeeps ==
  ASSUME JournalInv, NEW x \in Pool, FreeBlock(x)
  PROVE  JournalInv'
<1> DEFINE c == Joined(Bitmap)
<1>1. /\ curr.pc = "open" /\ Bitmap \in Block /\ x \in Block /\ x # Bitmap
      /\ cache' = [cache EXCEPT ![Bitmap] = NewBitmap(x, "free"), ![x] = Clean]
      /\ recs' = Owned(Bitmap)
      /\ curr' = [c EXCEPT !.freed = @ \cup {x},
                     !.revoked = IF NeedsRevoke(x) THEN @ \cup {x} ELSE @]
      /\ queue' = queue /\ begun' = begun
  BY JournalAssumption DEF FreeBlock, Open, Block
<1>2. /\ begun \in Nat /\ DOMAIN cache = Block
      /\ \A y \in Block : BufOK(cache, recs, curr, begun, y)
  BY DEF JournalInv
<1>3. /\ curr # NoTrans /\ c # NoTrans
      /\ CurrOK(c, begun) /\ Books(queue, recs', c, begun)
      /\ ToSet(c.bufs) = ToSet(curr.bufs) \cup {Bitmap}
      /\ c.pc = "open" /\ c.n = curr.n /\ c.revoked = curr.revoked
      /\ \A y \in Block \ {Bitmap} : recs'[y] = recs[y]
  BY <1>1, BitmapJoins
<1> HIDE DEF c
<1>4. /\ DOMAIN curr' = DOMAIN c /\ (curr').pc = c.pc /\ (curr').n = c.n
      /\ (curr').bufs = c.bufs /\ (curr').at = c.at /\ (curr').left = c.left
      /\ (curr').revoked \subseteq c.revoked \cup {x} /\ c.revoked \subseteq (curr').revoked
  <2>1. {"freed", "revoked"} \subseteq DOMAIN c
    BY <1>3 DEF CurrOK
  <2> QED
    BY <1>1, <2>1
<1>5. CurrOK(curr', begun) /\ curr' # NoTrans
  BY <1>3, <1>4, NotNone DEF CurrOK
<1>6. Books(queue, recs', curr', begun)
  BY <1>3, <1>4, <1>5, SameBooks
<1>7. /\ DOMAIN cache' = Block /\ cache'[Bitmap].arg = curr.n /\ cache'[x] = Clean
      /\ \A y \in Block \ {x, Bitmap} : cache'[y] = cache[y]
  BY <1>1, <1>2 DEF NewBitmap
<1>8. \A y \in Block : Has(curr', y) <=> Has(curr, y) \/ y = Bitmap
  BY <1>3, <1>4, <1>5 DEF Has
<1>9. Bitmap \notin (curr').revoked
  BY <1>5, JournalAssumption DEF CurrOK
<1>10. ASSUME NEW y \in Block
       PROVE  BufOK(cache', recs', curr', begun, y)
  <2>1. CASE y = Bitmap
    BY <1>2, <1>3, <1>4, <1>5, <1>7, <1>8, <1>9, <2>1, MadeDirty
  <2>2. CASE y # Bitmap
    <3>1. cache'[y] = cache[y] \/ cache'[y] = Clean
      BY <1>7, <2>2
    <3>2. y \in (curr').revoked => y \in curr.revoked \/ cache'[y] = Clean
      BY <1>3, <1>4, <1>7
    <3>3. /\ BufOK(cache, recs, curr, begun, y)
          /\ recs'[y] = recs[y] /\ (Has(curr', y) <=> Has(curr, y))
      BY <1>2, <1>3, <1>8, <2>2
    <3>4. /\ curr # NoTrans /\ curr' # NoTrans /\ (curr').n = curr.n
          /\ (curr').pc = "open" /\ curr.pc = "open"
      BY <1>1, <1>3, <1>4, <1>5
    <3> QED
      BY <2>2, <3>1, <3>2, <3>3, <3>4, Untouched
  <2> QED
    BY <2>1, <2>2
<1> QED
  BY <1>1, <1>2, <1>5, <1>6, <1>7, <1>10 DEF JournalInv

\* A transaction that is given up leaves its blocks' buffers clean or to their owners.
LEMMA GiveUpKeeps ==
  ASSUME JournalInv, curr # NoTrans, GiveUp, queue' = queue, begun' = begun
  PROVE  JournalInv'
<1> DEFINE Bufs == ToSet(curr.bufs)
           older(x) == recs[x].in \ {curr.n}
<1>1. /\ cache' = [x \in Block |->
                     IF x \notin Bufs THEN cache[x]
                     ELSE IF older(x) = {} THEN Clean
                     ELSE [data |-> LogCopy(x, LastOf(older(x))), arg |-> LastOf(older(x))]]
      /\ recs' = [x \in Block |->
                    IF x \notin Bufs THEN recs[x]
                    ELSE IF older(x) = {} THEN NoRec
                    ELSE [owner |-> LastOf(older(x)), in |-> older(x)]]
      /\ curr' = NoTrans
  BY DEF GiveUp
<1>2. /\ CurrOK(curr, begun) /\ QueueOK(queue, curr, begun) /\ begun \in Nat /\ curr.n = begun
      /\ \A x \in Block : /\ RecOK(queue, recs, curr, begun, x)
                          /\ BufOK(cache, recs, curr, begun, x)
  BY DEF JournalInv, Books, CurrOK
<1>3. QueueOK(queue, NoTrans, begun) /\ CurrOK(NoTrans, begun)
  BY <1>2 DEF QueueOK, CurrOK
<1>4. \A x \in Block : ~Has(NoTrans, x)
  BY DEF Has
<1>5. DOMAIN cache' = Block /\ DOMAIN recs' = Block
  BY <1>1
<1>6. ASSUME NEW x \in Block
      PROVE  RecOK(queue, recs', NoTrans, begun, x) /\ BufOK(cache', recs', NoTrans, begun, x)
  <2>1. RecOK(queue, recs, curr, begun, x) /\ BufOK(cache, recs, curr, begun, x)
    BY <1>2
  <2>2. older(x) \in SUBSET (1 .. begun)
    BY <2>1 DEF RecOK
  <2>3. ASSUME NEW k \in 1 .. begun
        PROVE  k \in older(x) <=> Waits(queue, x, k)
    <3>1. Waits(queue, x, k) => k # curr.n
      <4>1. \A i \in DOMAIN queue : queue[i].n < curr.n /\ queue[i].n \in 1 .. begun
        BY <1>2 DEF QueueOK
      <4> QED
        BY <1>2, <4>1 DEF Waits
    <3> QED
      BY <2>1, <3>1 DEF RecOK, Has
  <2>4. CASE x \notin Bufs
    <3>1. cache'[x] = cache[x] /\ recs'[x] = recs[x] /\ ~Has(curr, x)
      BY <1>1, <2>4 DEF Has
    <3> QED
      BY <1>4, <2>1, <3>1 DEF RecOK, BufOK
  <2>5. CASE x \in Bufs /\ older(x) = {}
    <3>1. cache'[x] = Clean /\ recs'[x] = NoRec
      BY <1>1, <2>5
    <3>2. RecOK(queue, recs', NoTrans, begun, x)
      BY <1>2, <1>4, <2>3, <2>5, <3>1 DEF RecOK, NoRec
    <3> QED
      BY <1>4, <3>1, <3>2 DEF BufOK
  <2>6. CASE x \in Bufs /\ older(x) # {}
    <3> DEFINE l == LastOf(older(x))
    <3>1. l \in older(x) /\ (\A j \in older(x) : j <= l) /\ l \in 1 .. begun
      BY <1>2, <2>2, <2>6, LastOfIs
    <3>2. /\ recs'[x] = [owner |-> l, in |-> older(x)]
          /\ cache'[x] = [data |-> LogCopy(x, l), arg |-> l]
      BY <1>1, <2>6
    <3> HIDE DEF l, older
    <3>3. RecOK(queue, recs', NoTrans, begun, x)
      BY <1>2, <1>4, <2>2, <2>3, <3>1, <3>2 DEF RecOK
    <3>4. BufOK(cache', recs', NoTrans, begun, x)
      BY <1>4, <3>1, <3>2 DEF BufOK
    <3> QED
      BY <3>3, <3>4
  <2> QED
    BY <2>4, <2>5, <2>6
<1>7. Books(queue, recs', NoTrans, begun)
  BY <1>3, <1>5, <1>6 DEF Books
<1> QED
  BY <1>1, <1>2, <1>3, <1>5, <1>6, <1>7 DEF JournalInv

\* The buffers that are still dirty, in their order.
Filter(n, f) ==
    f = [k \in 0 .. n |-> IF k = 0 THEN <<>>
                          ELSE IF InTrans(curr.bufs[k]) THEN Append(f[k - 1], curr.bufs[k])
                          ELSE f[k - 1]]

\* The recursive function of CommitBegin, as a chain of lists.
LEMMA FilterExists ==
  ASSUME NEW n \in Nat
  PROVE  \E f : Filter(n, f)
<1> DEFINE D == {k \in Nat : ~\E f : Filter(k, f)}
<1>1. SUFFICES ASSUME D # {} PROVE FALSE
  OBVIOUS
<1>2. PICK k \in D : \A j \in D : k <= j
  BY <1>1, Least
<1>3. k # 0
  <2>1. Filter(0, [j \in 0 .. 0 |-> <<>>])
    BY DEF Filter
  <2> QED
    BY <1>2, <2>1
<1>4. PICK f : Filter(k - 1, f)
  BY <1>2, <1>3
<1> DEFINE h == IF InTrans(curr.bufs[k]) THEN Append(f[k - 1], curr.bufs[k]) ELSE f[k - 1]
           g == [j \in 0 .. k |-> IF j = k THEN h ELSE f[j]]
<1> HIDE DEF h
<1>5. ASSUME NEW j \in 0 .. k
      PROVE  g[j] = IF j = 0 THEN <<>>
                    ELSE IF InTrans(curr.bufs[j]) THEN Append(g[j - 1], curr.bufs[j])
                    ELSE g[j - 1]
  <2>1. k \in Nat /\ k # 0 /\ j \in Nat /\ j <= k
    BY <1>2, <1>3
  <2>2. CASE j = k
    <3>1. g[j] = h /\ g[j - 1] = f[j - 1] /\ j # 0
      BY <2>1, <2>2
    <3> QED
      BY <2>2, <3>1 DEF h
  <2>3. CASE j = 0
    <3>1. g[j] = f[j]
      BY <2>1, <2>3
    <3>2. f[j] = <<>>
      BY <1>4, <2>1, <2>3 DEF Filter
    <3> QED
      BY <2>3, <3>1, <3>2
  <2>4. CASE j # k /\ j # 0
    <3>1. g[j] = f[j] /\ g[j - 1] = f[j - 1] /\ j \in 0 .. (k - 1)
      BY <2>1, <2>4
    <3>2. f[j] = IF InTrans(curr.bufs[j]) THEN Append(f[j - 1], curr.bufs[j]) ELSE f[j - 1]
      BY <1>4, <2>4, <3>1 DEF Filter
    <3> QED
      BY <2>4, <3>1, <3>2
  <2> QED
    BY <2>2, <2>3, <2>4
<1>6. Filter(k, g)
  <2>1. g = [j \in 0 .. k |-> g[j]]
    OBVIOUS
  <2> HIDE DEF g
  <2> QED
    BY <1>5, <2>1 DEF Filter
<1> QED
  BY <1>2, <1>6

\* Each block that is in the transaction once stays in it, once, if its buffer is
\* dirty.
Part(s, k) ==
    /\ s \in Seq(Block) /\ Len(s) \in Nat /\ DOMAIN s = 1 .. Len(s)
    /\ \A i, j \in DOMAIN s : i # j => s[i] # s[j]
    /\ ToSet(s) = {x \in Block : InTrans(x) /\ \E j \in 1 .. k : x = curr.bufs[j]}

\* What CommitBegin keeps are the blocks with a dirty buffer, each once.
LEMMA FilterIs ==
  ASSUME JournalInv, curr # NoTrans, NEW n, n = Len(curr.bufs), NEW f, Filter(n, f)
  PROVE  Part(f[n], n)
<1>1. /\ n \in Nat /\ \A i \in 1 .. n : curr.bufs[i] \in Block
      /\ \A i, j \in 1 .. n : i # j => curr.bufs[i] # curr.bufs[j]
  <2>1. CurrOK(curr, begun) /\ begun \in Nat
    BY DEF JournalInv
  <2> QED
    BY <2>1, BufsAre DEF ToSet
<1> DEFINE D == {k \in 0 .. n : ~Part(f[k], k)}
<1>2. SUFFICES ASSUME D # {} PROVE FALSE
  BY <1>1
<1>3. PICK k \in D : \A j \in D : k <= j
  <2>1. D \in SUBSET Nat
    BY <1>1
  <2> QED
    BY <1>2, <2>1, Least
<1>4. k \in 0 .. n /\ k \in Nat /\ k <= n
  BY <1>1
<1>5. k # 0
  <2>1. f[0] = <<>>
    BY <1>1 DEF Filter
  <2>2. <<>> \in Seq(Block) /\ Len(<<>>) = 0 /\ DOMAIN <<>> = 1 .. 0 /\ DOMAIN <<>> = {}
    OBVIOUS
  <2>3. Part(<<>>, 0)
    BY <2>2 DEF Part, ToSet
  <2> QED
    BY <1>3, <2>1, <2>3
<1> DEFINE s == f[k - 1]
           z == curr.bufs[k]
<1>6. k - 1 \in 0 .. n /\ Part(s, k - 1)
  <2>1. k - 1 \in 0 .. n /\ ~(k <= k - 1)
    BY <1>4, <1>5
  <2> QED
    BY <1>3, <2>1
<1>7. f[k] = IF InTrans(z) THEN Append(s, z) ELSE s
  BY <1>4, <1>5 DEF Filter
<1>8. z \in Block /\ \A j \in 1 .. (k - 1) : curr.bufs[j] # z
  BY <1>1, <1>4, <1>5
<1>9. \A x : (\E j \in 1 .. k : x = curr.bufs[j])
             <=> x = z \/ \E j \in 1 .. (k - 1) : x = curr.bufs[j]
  <2>1. \A j \in 1 .. k : j = k \/ j \in 1 .. (k - 1)
    BY <1>4
  <2>2. k \in 1 .. k /\ \A j \in 1 .. (k - 1) : j \in 1 .. k
    BY <1>4, <1>5
  <2> QED
    BY <2>1, <2>2
<1> HIDE DEF s, z
<1>10. CASE ~InTrans(z)
  <2>1. Part(s, k)
    <3>1. \A x \in Block : x \in ToSet(s) <=> InTrans(x) /\ \E j \in 1 .. k : x = curr.bufs[j]
      <4> TAKE x \in Block
      <4>1. x \in ToSet(s) <=> InTrans(x) /\ \E j \in 1 .. (k - 1) : x = curr.bufs[j]
        BY <1>6 DEF Part
      <4> QED
        BY <1>9, <1>10, <4>1
    <3>2. ToSet(s) \subseteq Block
      BY <1>6 DEF Part
    <3>3. ToSet(s) = {x \in Block : InTrans(x) /\ \E j \in 1 .. k : x = curr.bufs[j]}
      BY <3>1, <3>2
    <3> QED
      BY <1>6, <3>3 DEF Part
  <2> QED
    BY <1>3, <1>7, <1>10, <2>1
<1>11. CASE InTrans(z)
  <2> DEFINE t == Append(s, z)
  <2>1. /\ t \in Seq(Block) /\ Len(t) = Len(s) + 1
        /\ \A i \in 1 .. Len(s) : t[i] = s[i]
        /\ t[Len(s) + 1] = z
    BY <1>6, <1>8 DEF Part
  <2> HIDE DEF t
  <2>2. Len(t) \in Nat /\ DOMAIN t = 1 .. Len(t)
    BY <1>6, <2>1, LenProperties DEF Part
  <2>3. z \notin ToSet(s)
    BY <1>6, <1>8 DEF Part
  <2>4. \A i \in DOMAIN t : i = Len(s) + 1 \/ (i \in DOMAIN s /\ t[i] = s[i] /\ t[i] # z)
    BY <1>6, <2>1, <2>2, <2>3 DEF Part, ToSet
  <2>5. \A i, j \in DOMAIN t : i # j => t[i] # t[j]
    BY <1>6, <2>1, <2>4 DEF Part
  <2>6. ToSet(t) = ToSet(s) \cup {z}
    <3>1. Len(s) + 1 \in DOMAIN t /\ \A i \in DOMAIN s : i \in DOMAIN t /\ t[i] = s[i]
      BY <1>6, <2>1, <2>2 DEF Part
    <3> QED
      BY <2>1, <2>4, <3>1 DEF ToSet
  <2>7. ToSet(t) = {x \in Block : InTrans(x) /\ \E j \in 1 .. k : x = curr.bufs[j]}
    <3>1. \A x \in Block : x \in ToSet(t) <=> InTrans(x) /\ \E j \in 1 .. k : x = curr.bufs[j]
      <4> TAKE x \in Block
      <4>1. x \in ToSet(s) <=> InTrans(x) /\ \E j \in 1 .. (k - 1) : x = curr.bufs[j]
        BY <1>6 DEF Part
      <4> QED
        BY <1>9, <1>11, <2>6, <4>1
    <3>2. ToSet(t) \subseteq Block
      BY <1>6, <1>8, <2>6 DEF Part
    <3> QED
      BY <3>1, <3>2
  <2>8. Part(t, k)
    BY <2>1, <2>2, <2>5, <2>7 DEF Part
  <2> QED
    BY <1>3, <1>7, <1>11, <2>8 DEF t
<1> QED
  BY <1>10, <1>11

\* A commit begins by leaving out the blocks whose buffer is clean.
LEMMA CommitBeginKeeps ==
  ASSUME JournalInv, CommitBegin
  PROVE  JournalInv'
<1> DEFINE n == Len(curr.bufs)
           F == CHOOSE f : Filter(n, f)
           bufs == F[n]
           Gone == ToSet(curr.bufs) \ ToSet(bufs)
           older(x) == recs[x].in \ {curr.n}
<1>1. curr.pc = "open" /\ curr # NoTrans
  BY NotNone DEF CommitBegin, Open
<1>2. /\ CurrOK(curr, begun) /\ Books(queue, recs, curr, begun) /\ QueueOK(queue, curr, begun)
      /\ begun \in Nat /\ curr.n = begun /\ DOMAIN cache = Block
      /\ \A x \in Block : /\ RecOK(queue, recs, curr, begun, x)
                          /\ BufOK(cache, recs, curr, begun, x)
  BY <1>1 DEF JournalInv, Books, CurrOK
<1>3. n \in Nat /\ DOMAIN curr.bufs = 1 .. n /\ ToSet(curr.bufs) \subseteq Block
  BY <1>1, <1>2, BufsAre
<1>4. Filter(n, F)
  BY <1>3, FilterExists
<1>5. Part(bufs, n)
  BY <1>1, <1>4, FilterIs
<1>6. /\ queue' = queue /\ begun' = begun /\ cache' = cache
      /\ recs' = [x \in Block |->
                    IF x \notin Gone THEN recs[x]
                    ELSE IF older(x) = {} THEN NoRec
                    ELSE [owner |-> LastOf(older(x)), in |-> older(x)]]
      /\ curr' = IF bufs = <<>> /\ curr.revoked = {} THEN NoTrans
                 ELSE [curr EXCEPT !.pc = IF bufs = <<>> THEN "revoke" ELSE "desc",
                                   !.bufs = bufs, !.id = jr.next, !.last = jr.last,
                                   !.left = curr.revoked]
  BY DEF CommitBegin, Filter
<1> HIDE DEF F
<1>7. ToSet(bufs) = {x \in ToSet(curr.bufs) : InTrans(x)}
  BY <1>3, <1>5 DEF Part, ToSet
<1> HIDE DEF bufs
<1>8. \A x \in Block : x \in Gone <=> Has(curr, x) /\ ~InTrans(x)
  BY <1>1, <1>7 DEF Has
<1> HIDE DEF Gone
<1> DEFINE d == curr'
<1>9. /\ CurrOK(d, begun)
      /\ d # NoTrans => d.n = curr.n /\ d.pc # "open" /\ d.revoked = curr.revoked
      /\ \A x \in Block : Has(d, x) <=> Has(curr, x) /\ x \notin Gone
  <2>1. CASE bufs = <<>> /\ curr.revoked = {}
    <3>1. d = NoTrans /\ ToSet(bufs) = {}
      BY <1>6, <2>1 DEF ToSet
    <3> QED
      BY <1>7, <1>8, <3>1 DEF CurrOK, Has
  <2>2. CASE ~(bufs = <<>> /\ curr.revoked = {})
    <3>1. DOMAIN curr = {"pc", "n", "bufs", "revoked", "freed", "id", "start", "alloc",
                         "slot", "desc", "at", "last", "left"}
      BY <1>1, <1>2 DEF CurrOK
    <3>2. d = [curr EXCEPT !.pc = IF bufs = <<>> THEN "revoke" ELSE "desc",
                           !.bufs = bufs, !.id = jr.next, !.last = jr.last,
                           !.left = curr.revoked]
      BY <1>6, <2>2
    <3>3. /\ DOMAIN d = DOMAIN curr /\ d.n = curr.n /\ d.revoked = curr.revoked
          /\ d.pc = (IF bufs = <<>> THEN "revoke" ELSE "desc") /\ d.bufs = bufs
          /\ d.at = curr.at /\ d.left = curr.revoked
      BY <3>1, <3>2
    <3> HIDE DEF d
    <3>4. d # NoTrans
      BY <3>3, NotNone
    <3>5. DOMAIN d.at = {} /\ Cardinality(DOMAIN d.at) = 0
      <4>1. DOMAIN d.at = {}
        BY <1>1, <1>2, <3>3 DEF CurrOK
      <4> QED
        BY <4>1, FS_EmptySet
    <3>6. DOMAIN d.at = {d.bufs[j] : j \in 1 .. Cardinality(DOMAIN d.at)}
      <4>1. {d.bufs[j] : j \in 1 .. 0} = {}
        OBVIOUS
      <4> QED
        BY <3>5, <4>1
    <3>7. /\ d.bufs \in Seq(Block) /\ Len(d.bufs) \in Nat
          /\ (\A i, j \in DOMAIN d.bufs : i # j => d.bufs[i] # d.bufs[j])
          /\ bufs = <<>> => Len(d.bufs) = 0
      BY <1>5, <3>3 DEF Part
    <3>8. /\ d.revoked \subseteq Pool /\ d.left \subseteq d.revoked /\ begun >= 1
          /\ d.n = begun
      BY <1>1, <1>2, <3>3 DEF CurrOK
    <3>9. Cardinality(DOMAIN d.at) <= Len(d.bufs)
      BY <3>5, <3>7
    <3>10. /\ d.pc = "desc" => d.bufs # <<>>
           /\ d.pc = "revoke" => Cardinality(DOMAIN d.at) = Len(d.bufs)
           /\ d.pc \in {"desc", "revoke"}
      BY <3>3, <3>5, <3>7
    <3>11. CurrOK(d, begun)
      BY <3>1, <3>3, <3>5, <3>6, <3>7, <3>8, <3>9, <3>10 DEF CurrOK
    <3>12. \A x \in Block : Has(d, x) <=> x \in ToSet(bufs)
      BY <3>3, <3>4 DEF Has
    <3>13. \A x \in Block : Has(d, x) <=> Has(curr, x) /\ x \notin Gone
      BY <1>1, <1>7, <1>8, <3>12 DEF Has
    <3> QED
      BY <3>3, <3>10, <3>11, <3>13
  <2> QED
    BY <2>1, <2>2
<1> HIDE DEF d
<1>10. QueueOK(queue, d, begun)
  BY <1>1, <1>2, <1>9 DEF QueueOK
<1>11. ASSUME NEW x \in Block
       PROVE  RecOK(queue, recs', d, begun, x) /\ BufOK(cache, recs', d, begun, x)
  <2>1. RecOK(queue, recs, curr, begun, x) /\ BufOK(cache, recs, curr, begun, x)
    BY <1>2
  <2>2. Has(d, x) => d.n = curr.n
    BY <1>9 DEF Has
  <2>3. CASE x \notin Gone
    <3>1. recs'[x] = recs[x] /\ (Has(d, x) <=> Has(curr, x)) /\ (Has(d, x) => InTrans(x))
      BY <1>6, <1>8, <1>9, <2>3
    <3>2. RecOK(queue, recs', d, begun, x)
      BY <2>1, <2>2, <3>1 DEF RecOK
    <3>3. InTrans(x) => cache[x] # Clean
      <4>1. begun >= 1
        BY <1>1, <1>2 DEF CurrOK
      <4> QED
        BY <1>2, <4>1 DEF InTrans, Clean
    <3>4. BufOK(cache, recs', d, begun, x)
      BY <1>1, <1>9, <2>1, <2>2, <3>1, <3>3 DEF BufOK
    <3> QED
      BY <3>2, <3>4
  <2>4. CASE x \in Gone
    <3>1. ~Has(d, x) /\ Has(curr, x) /\ ~InTrans(x)
      BY <1>8, <1>9, <2>4
    <3>2. cache[x] = Clean
      BY <2>1, <3>1 DEF BufOK, InTrans
    <3>3. BufOK(cache, recs', d, begun, x)
      BY <3>1, <3>2 DEF BufOK
    <3>4. older(x) \in SUBSET (1 .. begun)
      BY <2>1 DEF RecOK
    <3>5. ASSUME NEW k \in 1 .. begun
          PROVE  k \in older(x) <=> Waits(queue, x, k)
      <4>1. Waits(queue, x, k) => k # curr.n
        <5>1. \A i \in DOMAIN queue : queue[i].n < curr.n /\ queue[i].n \in 1 .. begun
          BY <1>1, <1>2 DEF QueueOK
        <5> QED
          BY <1>2, <5>1 DEF Waits
      <4> QED
        BY <2>1, <4>1 DEF RecOK, Has
    <3>6. CASE older(x) = {}
      <4>1. recs'[x] = NoRec
        BY <1>6, <2>4, <3>6
      <4> QED
        BY <1>2, <3>1, <3>3, <3>5, <3>6, <4>1 DEF RecOK, NoRec
    <3>7. CASE older(x) # {}
      <4> DEFINE l == LastOf(older(x))
      <4>1. l \in older(x) /\ (\A j \in older(x) : j <= l) /\ l \in 1 .. begun
        BY <1>2, <3>4, <3>7, LastOfIs
      <4>2. recs'[x] = [owner |-> l, in |-> older(x)]
        BY <1>6, <2>4, <3>7
      <4> HIDE DEF l, older
      <4>3. RecOK(queue, recs', d, begun, x)
        BY <1>2, <3>1, <3>4, <3>5, <4>1, <4>2 DEF RecOK
      <4> QED
        BY <3>3, <4>3
    <3> QED
      BY <3>6, <3>7
  <2> QED
    BY <2>3, <2>4
<1>12. DOMAIN recs' = Block
  BY <1>6
<1>13. Books(queue, recs', d, begun)
  BY <1>10, <1>11, <1>12 DEF Books
<1> QED
  BY <1>2, <1>6, <1>9, <1>11, <1>13 DEF JournalInv, d

\* A commit goes on with the blocks it has.
LEMMA CommitGoesOn ==
  ASSUME JournalInv, curr # NoTrans, curr.pc # "open", UNCHANGED <<cache, recs, queue, begun>>,
         CurrOK(curr', begun), curr' # NoTrans, (curr').pc # "open", (curr').n = curr.n,
         (curr').bufs = curr.bufs, (curr').revoked = curr.revoked
  PROVE  JournalInv'
<1>1. Books(queue, recs, curr', begun)
  BY SameBooks DEF JournalInv
<1>2. \A x \in Block : Has(curr', x) <=> Has(curr, x)
  BY DEF Has
<1>3. \A x \in Block : BufOK(cache, recs, curr', begun, x)
  BY <1>2 DEF JournalInv, BufOK
<1> QED
  BY <1>1, <1>3 DEF JournalInv

\* The log's blocks that the transaction has taken are not looked at.
LEMMA SlotsOK ==
  ASSUME NEW c, NEW b, CurrOK(c, b), c # NoTrans, NEW d, DOMAIN d = DOMAIN c, d.n = c.n,
         d.bufs = c.bufs, d.revoked = c.revoked, d.left \subseteq c.left, d.at = c.at,
         c.pc # "open",
         d.pc = c.pc \/ (c.pc = "desc" /\ d.pc = "data")
                     \/ (c.pc \in {"tags", "revoke", "commit"}
                         /\ d.pc \in {"revoke", "commit", "complete"})
  PROVE  CurrOK(d, b) /\ d # NoTrans /\ d.pc # "open"
<1>1. /\ d.pc \in {"desc", "data", "tags", "revoke", "commit", "complete"}
      /\ c.pc \in {"desc", "data", "tags", "revoke", "commit", "complete"}
  BY DEF CurrOK
<1>2. d # NoTrans
  BY <1>1, NotNone
<1>3. c.pc = "desc" /\ d.pc = "data" => Cardinality(DOMAIN d.at) < Len(d.bufs)
  <2>1. SUFFICES ASSUME c.pc = "desc", d.pc = "data"
                 PROVE  Cardinality(DOMAIN d.at) < Len(d.bufs)
    OBVIOUS
  <2>2. Cardinality(DOMAIN d.at) = 0
    <3>1. DOMAIN d.at = {}
      BY <2>1 DEF CurrOK
    <3> QED
      BY <3>1, FS_EmptySet
  <2>3. d.bufs \in Seq(Block) /\ d.bufs # <<>>
    BY <2>1 DEF CurrOK
  <2> QED
    BY <2>2, <2>3
<1> QED
  BY <1>1, <1>2, <1>3 DEF CurrOK

\* The steps of a commit that only write the log.
LEMMA CommitStepsKeep ==
  ASSUME JournalInv, AllocSlot \/ LogDesc \/ LogRevoke \/ LogCommit
  PROVE  JournalInv'
<1>1. /\ UNCHANGED <<cache, recs, queue, begun>>
      /\ curr.pc \in {"desc", "data", "tags", "revoke", "commit"}
  BY DEF AllocSlot, LogDesc, LogRevoke, LogCommit, HasSlot, At
<1>2. curr # NoTrans /\ curr.pc # "open" /\ CurrOK(curr, begun)
  BY <1>1, NotNone DEF JournalInv
<1>3. DOMAIN curr = {"pc", "n", "bufs", "revoked", "freed", "id", "start", "alloc",
                     "slot", "desc", "at", "last", "left"}
  BY <1>2 DEF CurrOK
<1> DEFINE Slots(d) ==
       /\ DOMAIN d = DOMAIN curr /\ d.n = curr.n
       /\ d.bufs = curr.bufs /\ d.revoked = curr.revoked /\ d.left = curr.left
       /\ d.at = curr.at
       /\ d.pc = curr.pc \/ (curr.pc = "desc" /\ d.pc = "data")
                         \/ (curr.pc \in {"tags", "revoke", "commit"}
                             /\ d.pc \in {"revoke", "commit", "complete"})
<1>4. CASE AllocSlot
  <2>1. CASE curr.pc = "desc"
    <3>1. curr' = [curr EXCEPT !.pc = "data", !.desc = jr.last, !.start = jr.last,
                               !.alloc = @ + 1]
      BY <1>4, <2>1 DEF AllocSlot
    <3>2. Slots(curr')
      BY <1>3, <2>1, <3>1
    <3> QED
      BY <1>1, <1>2, <3>2, SlotsOK, CommitGoesOn
  <2>2. CASE curr.pc # "desc"
    <3>1. curr' = [curr EXCEPT !.slot = jr.last, !.alloc = @ + 1]
      BY <1>4, <2>2 DEF AllocSlot
    <3>2. Slots(curr')
      BY <1>3, <3>1
    <3> QED
      BY <1>1, <1>2, <3>2, SlotsOK, CommitGoesOn
  <2> QED
    BY <2>1, <2>2
<1>5. CASE LogDesc
  <2>1. curr' = [curr EXCEPT !.pc = IF curr.revoked = {} THEN "commit" ELSE "revoke"]
        /\ curr.pc = "tags"
    BY <1>5 DEF LogDesc, At
  <2>2. Slots(curr')
    BY <1>3, <2>1
  <2> QED
    BY <1>1, <1>2, <2>2, SlotsOK, CommitGoesOn
<1>6. CASE LogRevoke
  <2>1. /\ curr' = [curr EXCEPT !.pc = "commit", !.slot = 0,
                                !.start = IF @ = 0 THEN curr.slot ELSE @]
        /\ curr.pc = "revoke"
    BY <1>6 DEF LogRevoke, HasSlot, At
  <2>2. Slots(curr')
    BY <1>3, <2>1
  <2> QED
    BY <1>1, <1>2, <2>2, SlotsOK, CommitGoesOn
<1>7. CASE LogCommit
  <2>1. curr' = [curr EXCEPT !.pc = "complete", !.slot = 0] /\ curr.pc = "commit"
    BY <1>7 DEF LogCommit, HasSlot, At
  <2>2. Slots(curr')
    BY <1>3, <2>1
  <2> QED
    BY <1>1, <1>2, <2>2, SlotsOK, CommitGoesOn
<1> QED
  BY <1>4, <1>5, <1>6, <1>7

\* The next of the blocks has its copy in the log.
LEMMA LogDataKeeps ==
  ASSUME JournalInv, LogData
  PROVE  JournalInv'
<1> DEFINE m == Cardinality(DOMAIN curr.at)
           x == curr.bufs[m + 1]
           d == curr'
<1>1. /\ UNCHANGED <<cache, recs, queue, begun>> /\ curr.pc = "data"
      /\ d = [curr EXCEPT !.at = [y \in DOMAIN @ \cup {x} |->
                                    IF y = x THEN curr.slot ELSE @[y]],
                          !.slot = 0,
                          !.pc = IF m + 1 = Len(curr.bufs) THEN "tags" ELSE @]
  BY DEF LogData, HasSlot, At
<1>2. curr # NoTrans /\ curr.pc # "open" /\ CurrOK(curr, begun) /\ begun \in Nat
  BY <1>1, NotNone DEF JournalInv
<1>3. DOMAIN curr = {"pc", "n", "bufs", "revoked", "freed", "id", "start", "alloc",
                     "slot", "desc", "at", "last", "left"}
  BY <1>2 DEF CurrOK
<1>4. /\ DOMAIN d = DOMAIN curr /\ d.n = curr.n /\ d.bufs = curr.bufs
      /\ d.revoked = curr.revoked /\ d.left = curr.left
      /\ DOMAIN d.at = DOMAIN curr.at \cup {x}
      /\ d.pc = IF m + 1 = Len(curr.bufs) THEN "tags" ELSE "data"
  BY <1>1, <1>3
<1> HIDE DEF d
<1>5. /\ Len(curr.bufs) \in Nat /\ DOMAIN curr.bufs = 1 .. Len(curr.bufs)
      /\ ToSet(curr.bufs) \subseteq Block
      /\ \A i, j \in 1 .. Len(curr.bufs) : i # j => curr.bufs[i] # curr.bufs[j]
  BY <1>2, BufsAre
<1>6. /\ DOMAIN curr.at = {curr.bufs[j] : j \in 1 .. m} /\ m < Len(curr.bufs)
  BY <1>1, <1>2 DEF CurrOK
<1>7. IsFiniteSet(DOMAIN curr.at) /\ m \in Nat
  BY <1>2, SubsetFinite DEF CurrOK
<1>8. x \notin DOMAIN curr.at
  <2> HIDE DEF m
  <2>1. \A j \in 1 .. m : j \in 1 .. Len(curr.bufs) /\ m + 1 \in 1 .. Len(curr.bufs) /\ j # m + 1
    BY <1>5, <1>6, <1>7
  <2> QED
    BY <1>5, <1>6, <2>1
<1>9. Cardinality(DOMAIN d.at) = m + 1
  <2>1. Cardinality(DOMAIN curr.at \cup {x}) = m + 1
    BY <1>7, <1>8, FS_AddElement
  <2> QED
    BY <1>4, <2>1
<1> HIDE DEF m
<1>10. DOMAIN d.at = {d.bufs[j] : j \in 1 .. Cardinality(DOMAIN d.at)}
  <2>1. \A j \in 1 .. (m + 1) : j = m + 1 \/ j \in 1 .. m
    BY <1>7
  <2>2. m + 1 \in 1 .. (m + 1) /\ \A j \in 1 .. m : j \in 1 .. (m + 1)
    BY <1>7
  <2>3. {curr.bufs[j] : j \in 1 .. m} \cup {x} = {curr.bufs[j] : j \in 1 .. (m + 1)}
    BY <2>1, <2>2
  <2> QED
    BY <1>4, <1>6, <1>9, <2>3
<1>11. /\ Cardinality(DOMAIN d.at) <= Len(d.bufs)
       /\ d.pc = "data" => Cardinality(DOMAIN d.at) < Len(d.bufs)
       /\ d.pc = "tags" => Cardinality(DOMAIN d.at) = Len(d.bufs)
  BY <1>4, <1>5, <1>6, <1>7, <1>9
<1>12. CurrOK(d, begun)
  <2>1. /\ curr.n = begun /\ begun >= 1 /\ curr.bufs \in Seq(Block)
        /\ (\A i, j \in DOMAIN curr.bufs : i # j => curr.bufs[i] # curr.bufs[j])
        /\ curr.revoked \subseteq Pool /\ curr.left \subseteq curr.revoked
        /\ DOMAIN curr.at \subseteq Block
    BY <1>2 DEF CurrOK
  <2>3. m + 1 \in 1 .. Len(curr.bufs) /\ x \in Block
    BY <1>5, <1>6, <1>7 DEF ToSet
  <2>4. DOMAIN d.at \subseteq Block
    BY <1>4, <2>1, <2>3
  <2>2. d.pc \in {"data", "tags"}
    BY <1>4
  <2> QED
    BY <1>3, <1>4, <1>10, <1>11, <2>1, <2>2, <2>4 DEF CurrOK
<1>13. d # NoTrans /\ d.pc # "open"
  BY <1>4, NotNone
<1> QED
  BY <1>1, <1>2, <1>4, <1>12, <1>13, CommitGoesOn DEF d

-----------------------------------------------------------------------------
(* Checkpoint: steps that end writes.                                      *)

\* Transaction n is done with block x, which is clean from now on or not n's last.
LEMMA EndKeeps ==
  ASSUME JournalInv, NEW x \in Block, NEW n \in 1 .. begun, Waits(queue, x, n),
         Becomes(EndWrite(mem, x, n)), DOMAIN cache' = Block,
         \A y \in Block \ {x} : cache'[y] = cache[y],
         \/ cache'[x] = Clean /\ (Has(curr, x) => cache[x] = Clean)
         \/ cache'[x] = cache[x] /\ recs[x].owner # n
  PROVE  /\ Books(queue', recs', curr, begun)
         /\ \A y \in Block : BufOK(cache', recs', curr, begun, y)
<1> DEFINE w == EndWrite(mem, x, n)
<1>1. IsMem(mem) /\ mem.queue = queue /\ mem.recs = recs
  BY DEF mem, IsMem
<1>2. CurrOK(curr, begun) /\ Books(queue, recs, curr, begun) /\ begun \in Nat
      /\ \A y \in Block : BufOK(cache, recs, curr, begun, y)
  BY DEF JournalInv
<1>3. PICK S : Ended(mem, w, curr, begun, x, S) /\ (recs[x].owner # n => S = {n})
  BY <1>1, <1>2, EndWriteEnds
<1>4. queue' = w.queue /\ recs' = w.recs
  BY DEF Becomes
<1> HIDE DEF w
<1>5. Books(queue', recs', curr, begun)
  BY <1>3, <1>4 DEF Ended
<1>6. \A y \in Block : /\ recs'[y].in = IF y = x THEN recs[y].in \ S ELSE recs[y].in
                       /\ recs'[y].in # {} => recs'[y].owner = recs[y].owner
  BY <1>1, <1>3, <1>4 DEF Ended
<1>7. ASSUME NEW y \in Block
      PROVE  BufOK(cache', recs', curr, begun, y)
  <2>1. BufOK(cache, recs, curr, begun, y)
    BY <1>2
  <2>2. CASE y # x
    <3>1. /\ cache'[y] = cache[y] /\ recs'[y].in = recs[y].in
          /\ recs'[y].in # {} => recs'[y].owner = recs[y].owner
      BY <1>6, <2>2
    <3> QED
      BY <2>1, <3>1 DEF BufOK
  <2>3. CASE y = x /\ cache'[x] = Clean /\ (Has(curr, x) => cache[x] = Clean)
    BY <2>1, <2>3 DEF BufOK
  <2>4. CASE y = x /\ cache'[x] = cache[x] /\ recs[x].owner # n
    <3>1. /\ recs'[y].in = recs[y].in \ {n}
          /\ recs'[y].in # {} => recs'[y].owner = recs[y].owner
      BY <1>3, <1>6, <2>4
    <3> QED
      BY <2>1, <2>4, <3>1 DEF BufOK
  <2> QED
    BY <2>2, <2>3, <2>4
<1> QED
  BY <1>5, <1>7

\* The queue's transactions and the blocks that records list.
LEMMA Listed ==
  ASSUME JournalInv, NEW x \in Block, ~Has(curr, x), NEW n \in recs[x].in
  PROVE  n \in 1 .. begun /\ Waits(queue, x, n)
<1>1. RecOK(queue, recs, curr, begun, x)
  BY DEF JournalInv, Books
<1> QED
  BY <1>1 DEF RecOK

\* A buffer written home is clean, and its transaction has it no longer.
LEMMA WriteHomeKeeps ==
  ASSUME JournalInv, NEW x \in Block, WriteHome(x)
  PROVE  JournalInv'
<1>1. /\ cache[x] # Clean /\ ~Has(curr, x) /\ cache' = [cache EXCEPT ![x] = Clean]
      /\ Becomes(EndWrite(mem, x, cache[x].arg)) /\ curr' = curr /\ begun' = begun
  BY DEF WriteHome, Held, Has
<1>2. cache[x].arg \in recs[x].in
  BY <1>1 DEF JournalInv, BufOK
<1>3. cache[x].arg \in 1 .. begun /\ Waits(queue, x, cache[x].arg)
  BY <1>1, <1>2, Listed
<1>4. /\ DOMAIN cache' = Block /\ cache'[x] = Clean
      /\ \A y \in Block \ {x} : cache'[y] = cache[y]
  BY <1>1 DEF JournalInv
<1>5. /\ Books(queue', recs', curr, begun)
      /\ \A y \in Block : BufOK(cache', recs', curr, begun, y)
  BY <1>1, <1>3, <1>4, EndKeeps
<1> QED
  BY <1>1, <1>4, <1>5 DEF JournalInv

\* The oldest transaction is written home to make room in the log.
LEMMA FlushHeadKeeps ==
  ASSUME JournalInv, NEW x \in Block, FlushHead(x)
  PROVE  JournalInv'
<1>1. /\ queue # <<>> /\ x \in DOMAIN Head(queue).at
      /\ cache[x] = Clean \/ recs[x].owner # Head(queue).n
      /\ Becomes(EndWrite(mem, x, Head(queue).n))
      /\ cache' = cache /\ curr' = curr /\ begun' = begun
  BY DEF FlushHead
<1>2. QueueOK(queue, curr, begun) /\ Len(queue) \in Nat /\ DOMAIN queue = 1 .. Len(queue)
  BY QueueSeq DEF JournalInv, Books
<1>3. 1 \in DOMAIN queue /\ Head(queue) = queue[1]
  BY <1>1, <1>2 DEF QueueOK
<1>4. Head(queue).n \in 1 .. begun /\ Waits(queue, x, Head(queue).n)
  BY <1>1, <1>2, <1>3 DEF QueueOK, Waits
<1>5. DOMAIN cache' = Block
  BY <1>1 DEF JournalInv
<1>6. /\ Books(queue', recs', curr, begun)
      /\ \A y \in Block : BufOK(cache', recs', curr, begun, y)
  BY <1>1, <1>4, <1>5, EndKeeps
<1> QED
  BY <1>1, <1>5, <1>6 DEF JournalInv

\* The block has no dirty buffer, and the transaction that revokes it does not have it.
LEMMA FinishRevokedKeeps ==
  ASSUME JournalInv, NEW x \in Block, FinishRevoked(x)
  PROVE  JournalInv'
<1>1. /\ curr.pc = "complete" /\ x \in curr.left /\ curr' = [curr EXCEPT !.left = @ \ {x}]
      /\ cache' = cache /\ begun' = begun
      /\ IF recs[x].in = {} THEN UNCHANGED <<queue, recs, jr, due>>
         ELSE Becomes(EndWrite(mem, x, LastOf(recs[x].in)))
  BY DEF FinishRevoked, At
<1>2. curr # NoTrans /\ CurrOK(curr, begun) /\ begun \in Nat /\ DOMAIN cache = Block
      /\ BufOK(cache, recs, curr, begun, x) /\ RecOK(queue, recs, curr, begun, x)
  BY <1>1, NotNone DEF JournalInv, Books
<1>3. cache[x] = Clean /\ ~Has(curr, x)
  BY <1>1, <1>2 DEF CurrOK, BufOK
<1>4. /\ Books(queue', recs', curr, begun)
      /\ \A y \in Block : BufOK(cache', recs', curr, begun, y)
  <2>1. CASE recs[x].in = {}
    BY <1>1, <2>1 DEF JournalInv
  <2>2. CASE recs[x].in # {}
    <3>1. LastOf(recs[x].in) \in recs[x].in
      BY <1>2, <2>2, LastOfIs DEF RecOK
    <3>2. LastOf(recs[x].in) \in 1 .. begun /\ Waits(queue, x, LastOf(recs[x].in))
      BY <1>3, <3>1, Listed
    <3>3. /\ Becomes(EndWrite(mem, x, LastOf(recs[x].in))) /\ DOMAIN cache' = Block
          /\ cache'[x] = Clean /\ \A y \in Block \ {x} : cache'[y] = cache[y]
      BY <1>1, <1>2, <1>3, <2>2
    <3> QED
      BY <1>3, <3>2, <3>3, EndKeeps
  <2> QED
    BY <2>1, <2>2
<1>5. DOMAIN curr = {"pc", "n", "bufs", "revoked", "freed", "id", "start", "alloc",
                     "slot", "desc", "at", "last", "left"}
  BY <1>2 DEF CurrOK
<1>6. /\ DOMAIN curr' = DOMAIN curr /\ (curr').n = curr.n
      /\ (curr').bufs = curr.bufs /\ (curr').revoked = curr.revoked
      /\ (curr').left = curr.left \ {x} /\ (curr').at = curr.at /\ (curr').pc = curr.pc
  BY <1>1, <1>5
<1>7. CurrOK(curr', begun) /\ curr' # NoTrans
  BY <1>1, <1>2, <1>6, SlotsOK
<1>8. Books(queue', recs', curr', begun)
  BY <1>2, <1>4, <1>6, <1>7, SameBooks
<1>9. \A y \in Block : Has(curr', y) <=> Has(curr, y)
  BY <1>2, <1>6, <1>7 DEF Has
<1>10. \A y \in Block : BufOK(cache', recs', curr', begun, y)
  BY <1>2, <1>4, <1>6, <1>7, <1>9 DEF BufOK
<1> QED
  BY <1>1, <1>2, <1>7, <1>8, <1>10 DEF JournalInv

\* The head of the queue that is complete leaves it.
LEMMA PopHeadKeeps ==
  ASSUME JournalInv, PopHead
  PROVE  JournalInv'
<1>1. /\ queue # <<>> /\ Complete(Head(queue)) /\ queue' = Tail(queue)
      /\ recs' = [x \in Block |-> IF recs[x].owner = Head(queue).n THEN NoRec ELSE recs[x]]
      /\ cache' = cache /\ curr' = curr /\ begun' = begun
  BY DEF PopHead
<1>2. /\ QueueOK(queue, curr, begun) /\ Len(queue) \in Nat /\ DOMAIN queue = 1 .. Len(queue)
      /\ CurrOK(curr, begun) /\ Books(queue, recs, curr, begun) /\ begun \in Nat
  BY QueueSeq DEF JournalInv, Books
<1>3. /\ 1 \in 0 .. Len(queue) /\ Head(queue) = queue[1]
      /\ Tail(queue) = SubSeq(queue, 1 + 1, Len(queue))
  <2>1. queue \in Seq(ToSet(queue))
    BY <1>2 DEF QueueOK
  <2> QED
    BY <1>1, <1>2, <2>1, TailIsSubSeq
<1>4. recs' = Kept(queue, recs, 1)
  <2>1. {queue[i].n : i \in 1 .. 1} = {Head(queue).n}
    BY <1>3
  <2> QED
    BY <1>1, <2>1 DEF Kept
<1>5. \A i \in 1 .. 1 : Complete(queue[i])
  BY <1>1, <1>3
<1>6. /\ Books(queue', recs', curr, begun)
      /\ \A x \in Block : /\ recs'[x].in = recs[x].in
                          /\ recs[x].in # {} => recs'[x].owner = recs[x].owner
  <2>1. /\ Books(SubSeq(queue, 1 + 1, Len(queue)), Kept(queue, recs, 1), curr, begun)
        /\ \A x \in Block :
             /\ Kept(queue, recs, 1)[x].in = recs[x].in
             /\ recs[x].in # {} => Kept(queue, recs, 1)[x].owner = recs[x].owner
    BY <1>2, <1>3, <1>5, Popped
  <2> QED
    BY <1>1, <1>3, <1>4, <2>1
<1>7. \A x \in Block : BufOK(cache, recs', curr, begun, x)
  BY <1>6 DEF JournalInv, BufOK
<1> QED
  BY <1>1, <1>6, <1>7 DEF JournalInv

\* A queue with one transaction more.
LEMMA Appended ==
  ASSUME NEW q, q \in Seq(ToSet(q)), NEW t
  PROVE  LET p == Append(q, t)
         IN  /\ p \in Seq(ToSet(p)) /\ Len(q) \in Nat /\ DOMAIN q = 1 .. Len(q)
             /\ DOMAIN p = 1 .. (Len(q) + 1) /\ p[Len(q) + 1] = t
             /\ \A i \in 1 .. Len(q) : p[i] = q[i]
<1> DEFINE p == Append(q, t)
           S == ToSet(q) \cup {t}
<1>1. Len(q) \in Nat /\ DOMAIN q = 1 .. Len(q)
  BY SeqSelf
<1>2. q \in Seq(S) /\ t \in S
  BY SeqMonotonic
<1> HIDE DEF S
<1>3. p \in Seq(S) /\ Len(p) = Len(q) + 1 /\ p[Len(q) + 1] = t
      /\ \A i \in 1 .. Len(q) : p[i] = q[i]
  BY <1>1, <1>2
<1> HIDE DEF p
<1>4. p \in Seq(ToSet(p)) /\ DOMAIN p = 1 .. Len(p)
  BY <1>3, SeqSelf
<1> QED
  BY <1>1, <1>3, <1>4 DEF p

\* The transaction passes its blocks to the queue.
LEMMA EnqueueKeeps ==
  ASSUME JournalInv, Enqueue
  PROVE  JournalInv'
<1> DEFINE t == [n |-> curr.n, id |-> curr.id, start |-> curr.start, alloc |-> curr.alloc,
                 cnt |-> Len(curr.bufs), written |-> 0, at |-> curr.at]
<1>1. /\ curr.pc = "complete" /\ curr' = NoTrans
      /\ cache' = cache /\ recs' = recs /\ begun' = begun
      /\ \/ queue' = Append(queue, t)
         \/ queue' = queue /\ Len(curr.bufs) = 0
         \/ queue = <<>> /\ ~(Len(curr.bufs) > 0) /\ queue' = queue
  <2>1. CASE queue # <<>>
    BY <2>1 DEF Enqueue, At
  <2>2. CASE queue = <<>>
    <3>1. <<t>> = Append(<<>>, t)
      OBVIOUS
    <3> QED
      BY <2>2, <3>1 DEF Enqueue, At
  <2> QED
    BY <2>1, <2>2
<1>2. /\ CurrOK(curr, begun) /\ curr # NoTrans /\ QueueOK(queue, curr, begun) /\ begun \in Nat
      /\ DOMAIN recs = Block /\ DOMAIN cache = Block
      /\ \A x \in Block : /\ RecOK(queue, recs, curr, begun, x)
                          /\ BufOK(cache, recs, curr, begun, x)
  BY <1>1, NotNone DEF JournalInv, Books
<1>3. /\ curr.n = begun /\ begun >= 1 /\ DOMAIN curr.at \subseteq Block
      /\ Cardinality(DOMAIN curr.at) = Len(curr.bufs)
      /\ DOMAIN curr.at = {curr.bufs[j] : j \in 1 .. Len(curr.bufs)}
  BY <1>1, <1>2 DEF CurrOK
<1>4. Len(curr.bufs) \in Nat /\ DOMAIN curr.bufs = 1 .. Len(curr.bufs)
  BY <1>2, BufsAre
<1>5. \A x \in Block : Has(curr, x) <=> x \in DOMAIN curr.at
  BY <1>2, <1>3, <1>4 DEF Has, ToSet
<1>6. IsTrans(t) /\ t.n = begun /\ t.at = curr.at
  <2>1. /\ DOMAIN t = {"n", "id", "start", "alloc", "cnt", "written", "at"}
        /\ t.n = curr.n /\ t.cnt = Len(curr.bufs) /\ t.written = 0 /\ t.at = curr.at
    OBVIOUS
  <2> HIDE DEF t
  <2>2. t.n = begun /\ t.at = curr.at
    BY <1>3, <2>1
  <2>3. DOMAIN t.at \subseteq Block /\ Cardinality(DOMAIN t.at) = Len(curr.bufs)
    BY <1>3, <2>2
  <2>4. t.cnt \in Nat /\ t.written \in Nat
    BY <1>4, <2>1
  <2>5. t.cnt = t.written + Cardinality(DOMAIN t.at)
    BY <1>4, <2>1, <2>3
  <2>6. IsTrans(t)
    BY <2>1, <2>3, <2>4, <2>5 DEF IsTrans
  <2> QED
    BY <2>2, <2>6
<1> HIDE DEF t
<1>7. /\ QueueOK(queue', NoTrans, begun)
      /\ \A x \in Block, k \in 1 .. begun :
           Waits(queue', x, k) <=> Waits(queue, x, k) \/ (Has(curr, x) /\ k = begun)
  <2>1. CASE queue' = Append(queue, t)
    <3> DEFINE p == Append(queue, t)
    <3>1. /\ p \in Seq(ToSet(p)) /\ Len(queue) \in Nat /\ DOMAIN queue = 1 .. Len(queue)
          /\ DOMAIN p = 1 .. (Len(queue) + 1) /\ p[Len(queue) + 1] = t
          /\ \A i \in 1 .. Len(queue) : p[i] = queue[i]
      BY <1>2, Appended DEF QueueOK
    <3> HIDE DEF p
    <3>2. \A i \in DOMAIN p : i \in DOMAIN queue \/ i = Len(queue) + 1
      BY <3>1
    <3>3. \A i \in DOMAIN queue : /\ i \in DOMAIN p /\ p[i] = queue[i] /\ IsTrans(queue[i])
                                  /\ queue[i].n \in 1 .. begun /\ queue[i].n < begun
      BY <1>2, <1>3, <3>1 DEF QueueOK
    <3>4. begun \in 1 .. begun /\ Len(queue) + 1 \in DOMAIN p
      BY <1>2, <1>3, <3>1
    <3>5. \A i \in DOMAIN p : IsTrans(p[i]) /\ p[i].n \in 1 .. begun
      BY <1>6, <3>1, <3>2, <3>3, <3>4
    <3>6. ASSUME NEW i \in DOMAIN p, NEW j \in DOMAIN p, i < j
          PROVE  p[i].n < p[j].n
      <4>1. i \in DOMAIN queue
        BY <3>1, <3>6
      <4>2. CASE j = Len(queue) + 1
        BY <1>6, <3>1, <3>3, <4>1, <4>2
      <4>3. CASE j \in DOMAIN queue
        BY <1>2, <3>3, <3>6, <4>1, <4>3 DEF QueueOK
      <4> QED
        BY <3>2, <4>2, <4>3
    <3>7. QueueOK(p, NoTrans, begun)
      BY <3>1, <3>5, <3>6 DEF QueueOK
    <3>8. ASSUME NEW x \in Block, NEW k \in 1 .. begun
          PROVE  Waits(p, x, k) <=> Waits(queue, x, k) \/ (Has(curr, x) /\ k = begun)
      <4>1. ASSUME NEW i \in DOMAIN p, p[i].n = k, x \in DOMAIN p[i].at
            PROVE  Waits(queue, x, k) \/ (Has(curr, x) /\ k = begun)
        <5>1. CASE i \in DOMAIN queue
          BY <3>3, <4>1, <5>1 DEF Waits
        <5>2. CASE i = Len(queue) + 1
          BY <1>5, <1>6, <3>1, <4>1, <5>2
        <5> QED
          BY <3>2, <5>1, <5>2
      <4>2. Waits(queue, x, k) => Waits(p, x, k)
        BY <3>3 DEF Waits
      <4>3. Has(curr, x) /\ k = begun => Waits(p, x, k)
        BY <1>5, <1>6, <3>1, <3>4 DEF Waits
      <4> QED
        BY <4>1, <4>2, <4>3 DEF Waits
    <3> QED
      BY <2>1, <3>7, <3>8 DEF p
  <2>2. CASE queue' = queue /\ ~(Len(curr.bufs) > 0)
    <3>1. Len(curr.bufs) = 0
      BY <1>4, <2>2
    <3>2. \A x \in Block : ~Has(curr, x)
      <4>1. {curr.bufs[j] : j \in 1 .. 0} = {}
        OBVIOUS
      <4> QED
        BY <1>3, <1>5, <3>1, <4>1
    <3> QED
      BY <1>2, <2>2, <3>2 DEF QueueOK
  <2> QED
    BY <1>1, <1>4, <2>1, <2>2
<1>8. ASSUME NEW x \in Block
      PROVE  RecOK(queue', recs, NoTrans, begun, x) /\ BufOK(cache, recs, NoTrans, begun, x)
  <2>1. RecOK(queue, recs, curr, begun, x) /\ BufOK(cache, recs, curr, begun, x)
    BY <1>2
  <2>2. ~Has(NoTrans, x)
    BY DEF Has
  <2>3. RecOK(queue', recs, NoTrans, begun, x)
    BY <1>3, <1>7, <2>1, <2>2 DEF RecOK
  <2>4. Has(curr, x) => recs[x].owner = begun /\ begun \in recs[x].in
    <3>1. begun \in 1 .. begun
      BY <1>2, <1>3
    <3> QED
      BY <1>3, <2>1, <3>1 DEF RecOK
  <2>5. BufOK(cache, recs, NoTrans, begun, x)
    BY <1>1, <1>3, <2>1, <2>2, <2>4 DEF BufOK
  <2> QED
    BY <2>3, <2>5
<1>9. Books(queue', recs, NoTrans, begun)
  BY <1>2, <1>7, <1>8 DEF Books
<1>10. CurrOK(NoTrans, begun)
  BY DEF CurrOK
<1> QED
  BY <1>1, <1>2, <1>8, <1>9, <1>10 DEF JournalInv

-----------------------------------------------------------------------------
(* The theorem.                                                            *)

\* Every step keeps the invariant, one case for each action.
LEMMA NextKeeps == JournalInv /\ [Next]_vars => JournalInv'
<1> SUFFICES ASSUME JournalInv, [Next]_vars
             PROVE  JournalInv'
  OBVIOUS
<1>1. CASE UNCHANGED vars
  BY <1>1, ElsewhereKeeps DEF vars, memory
<1>2. CASE Begin
  BY <1>2, BeginKeeps
<1>3. CASE Abort
  <2>1. curr.pc = "open" /\ GiveUp /\ queue' = queue /\ begun' = begun
    BY <1>3 DEF Abort, Open
  <2> QED
    BY <2>1, NotNone, GiveUpKeeps
<1>4. CASE CommitBegin
  BY <1>4, CommitBeginKeeps
<1>5. ASSUME NEW x \in Pool, Update(x) \/ AllocMeta(x) \/ AllocData(x) \/ FreeBlock(x)
      PROVE  JournalInv'
  BY <1>5, UpdateKeeps, AllocMetaKeeps, AllocDataKeeps, FreeBlockKeeps
<1>6. CASE JournalStart \/ JournalStop
  BY <1>6, ElsewhereKeeps DEF JournalStart, JournalStop, memory
<1>7. CASE Recover \/ ReplayBlock \/ ReplayDone
  BY <1>7, ElsewhereKeeps DEF Recover, ReplayBlock, ReplayDone, memory
<1>8. CASE WriteSb \/ StopDone
  BY <1>8, ElsewhereKeeps DEF WriteSb, StopDone, memory
<1>9. CASE PopHead
  BY <1>9, PopHeadKeeps
<1>10. CASE AllocSlot \/ LogDesc \/ LogRevoke \/ LogCommit
  BY <1>10, CommitStepsKeep
<1>11. CASE LogData
  BY <1>11, LogDataKeeps
<1>12. ASSUME NEW x \in Block, FinishRevoked(x) \/ FlushHead(x) \/ WriteHome(x)
       PROVE  JournalInv'
  BY <1>12, FinishRevokedKeeps, FlushHeadKeeps, WriteHomeKeeps
<1>13. CASE Enqueue
  BY <1>13, EnqueueKeeps
<1>14. CASE CommitFails
  <2>1. curr.pc \in {"data", "revoke", "commit"} /\ GiveUp /\ queue' = queue /\ begun' = begun
    BY <1>14 DEF CommitFails
  <2> QED
    BY <2>1, NotNone, GiveUpKeeps
<1>15. CASE PowerLoss
  BY <1>15, PowerLossKeeps
<1> QED
  BY <1>1, <1>2, <1>3, <1>4, <1>5, <1>6, <1>7, <1>8, <1>9, <1>10, <1>11, <1>12, <1>13,
     <1>14, <1>15 DEF Next, Call, Step

\* Whatever commits, aborts, frees and revokes, and whatever of the queue is written
\* home, flushed for room or lost with the power: a dirty buffer that no open call
\* holds is waited for by the transaction in its end_write_arg, which is on the
\* checkpoint queue and still answers for the block.  So jbd_journal never takes the
\* log's copy of a block for done while only the cache has its contents.
THEOREM BuffersWaitedFor == Spec => []DirtyIsQueued
<1>1. Init => JournalInv
  BY InitKeeps
<1>2. JournalInv /\ [Next]_vars => JournalInv'
  BY NextKeeps
<1>3. JournalInv => DirtyIsQueued
  <2> SUFFICES ASSUME JournalInv, NEW x \in Block, cache[x] # Clean, ~Held(x)
               PROVE  \E i \in DOMAIN queue :
                          queue[i].n = cache[x].arg /\ x \in DOMAIN queue[i].at
    BY DEF DirtyIsQueued
  <2>1. ~Has(curr, x)
    BY DEF Has, Held
  <2>2. cache[x].arg \in recs[x].in
    BY <2>1 DEF JournalInv, BufOK
  <2>3. Waits(queue, x, cache[x].arg)
    BY <2>1, <2>2, Listed
  <2> QED
    BY <2>3 DEF Waits
<1> QED
  BY <1>1, <1>2, <1>3, PTL DEF Spec
=============================================================================
