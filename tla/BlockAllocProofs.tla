-------------------------- MODULE BlockAllocProofs --------------------------
(***************************************************************************)
(* Proofs about BlockAlloc, for every geometry of the volume, every set of *)
(* metadata blocks and every set of inodes.                                *)
(***************************************************************************)
EXTENDS BlockAlloc, FiniteSetTheorems, TLAPS

-----------------------------------------------------------------------------
(* Division with remainder by a constant: the provers' arithmetic is linear. *)

\* Division with remainder.
LEMMA DivMod ==
  ASSUME NEW a \in Nat, NEW w \in Nat \ {0}
  PROVE  /\ a \div w \in Nat /\ a % w \in 0 .. w - 1
         /\ a = w * (a \div w) + (a % w)
  OBVIOUS

\* A product grows with its second factor.
LEMMA MulMono ==
  ASSUME NEW w \in Nat \ {0}, NEW p \in Int, NEW q \in Int, p + 1 <= q
  PROVE  w * p + w <= w * q /\ w * p \in Int /\ w * q \in Int
<1>1. PICK d \in Nat : q = p + 1 + d
  <2>1. q - p - 1 \in Nat
    OBVIOUS
  <2> QED
    BY <2>1
<1>2. w * q = w * p + w + w * d
  BY <1>1
<1>3. w * d >= 0
  OBVIOUS
<1> QED
  BY <1>2, <1>3

\* Quotient and remainder are the only ones.
LEMMA DivUnique ==
  ASSUME NEW w \in Nat \ {0}, NEW q \in Nat, NEW r \in 0 .. w - 1
  PROVE  w * q + r \in Nat /\ (w * q + r) \div w = q /\ (w * q + r) % w = r
<1> DEFINE a == w * q + r
           p == a \div w
           t == a % w
<1>1. a \in Nat
  OBVIOUS
<1> HIDE DEF a
<1>2. p \in Nat /\ t \in 0 .. w - 1 /\ a = w * p + t
  BY <1>1, DivMod
<1> HIDE DEF p, t
<1>3. a = w * q + r /\ w * p \in Int /\ w * q \in Int
  BY <1>2 DEF a
<1>4. ~(p + 1 <= q)
  <2> SUFFICES ASSUME p + 1 <= q PROVE FALSE
    OBVIOUS
  <2>1. w * p + w <= w * q
    BY <1>2, MulMono
  <2> QED
    BY <2>1, <1>2, <1>3
<1>5. ~(q + 1 <= p)
  <2> SUFFICES ASSUME q + 1 <= p PROVE FALSE
    OBVIOUS
  <2>1. w * q + w <= w * p
    BY <1>2, MulMono
  <2> QED
    BY <2>1, <1>2, <1>3
<1>6. p = q
  BY <1>2, <1>4, <1>5
<1>7. t = r
  BY <1>2, <1>3, <1>6
<1> QED
  BY <1>1, <1>6, <1>7 DEF a, p, t

-----------------------------------------------------------------------------
(* Arithmetic of the geometry.                                             *)

\* RoundUp returns the next multiple.
LEMMA RoundUpBounds ==
  ASSUME NEW s \in Nat, NEW w \in Nat \ {0}
  PROVE  \E p \in Nat : RoundUp(s, w) = w * p /\ s <= w * p /\ w * p <= s + w - 1
<1> DEFINE p == (s + w - 1) \div w
           t == (s + w - 1) % w
<1>1. p \in Nat /\ t \in 0 .. w - 1 /\ s + w - 1 = w * p + t
  <2>1. s + w - 1 \in Nat
    OBVIOUS
  <2> QED
    BY <2>1, DivMod
<1>2. RoundUp(s, w) = w * p
  BY <1>1 DEF RoundUp
<1> HIDE DEF p, t
<1>3. w * p \in Int
  BY <1>1
<1> QED
  BY <1>1, <1>2, <1>3

\* The neighbourhood ends at a word boundary: no word boundary is met later.
LEMMA RoundUpNested ==
  ASSUME NEW s \in Nat
  PROVE  /\ RoundUp(s, W) \in Nat /\ RoundUp(s, K * W) \in Nat
         /\ s <= RoundUp(s, W) /\ RoundUp(s, W) <= RoundUp(s, K * W)
<1>1. K * W \in Nat \ {0} /\ W \in Nat \ {0} /\ K \in Nat \ {0}
  BY GeometryAssumption
<1>2. PICK p \in Nat : RoundUp(s, W) = W * p /\ s <= W * p /\ W * p <= s + W - 1
  BY <1>1, RoundUpBounds
<1>3. PICK q \in Nat : RoundUp(s, K * W) = (K * W) * q /\ s <= (K * W) * q
  BY <1>1, RoundUpBounds
<1> DEFINE u == K * q
<1>4. u \in Nat /\ (K * W) * q = W * u
  BY <1>1
<1> HIDE DEF u
<1>5. W * p \in Int /\ W * u \in Int
  BY <1>1, <1>2, <1>4
<1>6. ~(u + 1 <= p)
  <2> SUFFICES ASSUME u + 1 <= p PROVE FALSE
    OBVIOUS
  <2>1. W * u + W <= W * p
    BY <1>1, <1>2, <1>4, MulMono
  <2> QED
    BY <2>1, <1>1, <1>2, <1>3, <1>4, <1>5
<1>7. p <= u
  BY <1>2, <1>4, <1>6
<1>8. W * p <= W * u
  <2>1. CASE p = u
    BY <2>1, <1>5
  <2>2. CASE p + 1 <= u
    <3>1. W * p + W <= W * u
      BY <2>2, <1>1, <1>4, MulMono
    <3> QED
      BY <3>1, <1>1, <1>5
  <2> QED
    BY <2>1, <2>2, <1>2, <1>4, <1>7
<1> QED
  BY <1>2, <1>3, <1>4, <1>5, <1>8

\* There is a whole number of groups, enough for every block.
LEMMA GroupCntNat ==
  GroupCnt \in Nat /\ Total <= BPG * GroupCnt
<1> DEFINE c == (Total + BPG - 1) \div BPG
           t == (Total + BPG - 1) % BPG
<1>1. BPG \in Nat \ {0} /\ Total \in Nat /\ Total + BPG - 1 \in Nat
  BY GeometryAssumption
<1>2. c \in Nat /\ t \in 0 .. BPG - 1 /\ Total + BPG - 1 = BPG * c + t
  BY <1>1, DivMod
<1>3. GroupCnt = c
  BY DEF GroupCnt
<1> HIDE DEF c, t
<1>4. BPG * c \in Int
  BY <1>1, <1>2
<1> QED
  BY <1>1, <1>2, <1>3, <1>4

\* Every block has a group and a bit, and they give its address back.
LEMMA BlockPlace ==
  ASSUME NEW b \in Block
  PROVE  /\ Bgid(b) \in Group /\ Idx(b) \in Bit
         /\ Addr(Idx(b), Bgid(b)) = b
<1> DEFINE a == b - Fdb
           q == a \div BPG
           r == a % BPG
<1>1. a \in Nat /\ Rel(b) = a /\ b = a + Fdb /\ a < Total /\ b \in Nat
  BY GeometryAssumption DEF Block, Rel
<1>2. q \in Nat /\ r \in 0 .. BPG - 1 /\ a = BPG * q + r
  BY <1>1, GeometryAssumption, DivMod
<1>3. Bgid(b) = q /\ Idx(b) = r
  BY <1>1 DEF Bgid, Idx
<1> HIDE DEF a, q, r
<1>4. BPG * q \in Int /\ BPG * GroupCnt \in Int
  BY <1>2, GroupCntNat, GeometryAssumption
<1>5. q < GroupCnt
  <2>1. ~(GroupCnt = q)
    BY <1>1, <1>2, <1>4, GroupCntNat, GeometryAssumption
  <2>2. ~(GroupCnt + 1 <= q)
    <3> SUFFICES ASSUME GroupCnt + 1 <= q PROVE FALSE
      OBVIOUS
    <3>1. BPG * GroupCnt + BPG <= BPG * q
      BY <1>2, GroupCntNat, GeometryAssumption, MulMono
    <3> QED
      BY <3>1, <1>1, <1>2, <1>4, GroupCntNat, GeometryAssumption
  <2> QED
    BY <2>1, <2>2, <1>2, GroupCntNat
<1> QED
  BY <1>1, <1>2, <1>3, <1>4, <1>5, GroupCntNat DEF Group, Bit, Addr

\* A bit that is not past the end is a block, and the one its address finds.
LEMMA PlaceBlock ==
  ASSUME NEW g \in Group, NEW i \in Bit, ~(Addr(i, g) >= Total)
  PROVE  /\ Addr(i, g) \in Block
         /\ Bgid(Addr(i, g)) = g /\ Idx(Addr(i, g)) = i
<1> DEFINE a == BPG * g + i
<1>1. g \in Nat /\ i \in 0 .. BPG - 1 /\ BPG \in Nat \ {0}
  <2>1. GroupCnt \in Nat
    BY GroupCntNat
  <2> QED
    BY <2>1, GeometryAssumption DEF Group, Bit
<1>2. a \in Nat /\ a \div BPG = g /\ a % BPG = i
  BY <1>1, DivUnique
<1>3. Addr(i, g) = a + Fdb
  BY DEF Addr
<1> HIDE DEF a
<1>4. Addr(i, g) \in Block
  BY <1>2, <1>3, GeometryAssumption DEF Block
<1>5. Rel(Addr(i, g)) = a
  BY <1>2, <1>3, GeometryAssumption DEF Rel
<1> QED
  BY <1>2, <1>4, <1>5 DEF Bgid, Idx
-----------------------------------------------------------------------------
(* Sums over a finite set: MapThenSumSet, as a recursion on the set.       *)

Choice(s) == CHOOSE x \in s : TRUE
SumOf(f, D) == MapThenSumSet(LAMBDA x : f[x], D)

\* One turn of the recursion, with it for the sums of the smaller sets.
SumStep(f, it, s) == IF s = {} THEN 0 ELSE f[Choice(s)] + it[s \ {Choice(s)}]
Sums(f, D, it) == [s \in SUBSET D |-> SumStep(f, it, s)]
Adds(f, D, it) == \A s \in SUBSET D : it[s] = SumStep(f, it, s)

\* Induction over the numbers, the property given by the set that has it.
LEMMA NatIsAll ==
  ASSUME NEW S \in SUBSET Nat, 0 \in S, \A n \in S : n + 1 \in S
  PROVE  S = Nat
<1>1. SUFFICES ASSUME S # Nat PROVE FALSE
  OBVIOUS
<1>2. PICK m \in Nat \ S : \A k \in Nat \ S : <<k, m>> \notin OpToRel(<, Nat)
  BY <1>1, WFMin, NatLessThanWellFounded
<1>3. \A k \in Nat \ S : ~(k < m)
  BY <1>2 DEF OpToRel
<1> HIDE <1>2
<1>4. m - 1 \in Nat /\ m \in Nat
  <2>1. m # 0
    OBVIOUS
  <2> QED
    BY <2>1
<1>5. m - 1 \in S
  BY <1>3, <1>4
<1> QED
  BY <1>4, <1>5

LEMMA ChoiceIs ==
  ASSUME NEW D, IsFiniteSet(D), NEW s \in SUBSET D, s # {}
  PROVE  /\ Choice(s) \in s /\ s \ {Choice(s)} \in SUBSET D
         /\ Cardinality(s) \in Nat /\ Cardinality(s \ {Choice(s)}) = Cardinality(s) - 1
<1>1. Choice(s) \in s
  BY DEF Choice
<1>2. IsFiniteSet(s)
  BY FS_Subset
<1> QED
  BY <1>1, <1>2, FS_RemoveElement, FS_CardinalityType

\* Induction over the subsets of a finite set, in the order of the recursion.
LEMMA SubsetInduction ==
  ASSUME NEW D, IsFiniteSet(D), NEW B \in SUBSET SUBSET D, {} \in B,
         \A s \in SUBSET D : s # {} /\ s \ {Choice(s)} \in B => s \in B
  PROVE  D \in B
<1> DEFINE S == {n \in Nat : \A s \in SUBSET D : Cardinality(s) = n => s \in B}
<1>1. 0 \in S
  <2>1. \A s \in SUBSET D : Cardinality(s) = 0 => s = {}
    BY FS_Subset, FS_EmptySet
  <2> QED
    BY <2>1
<1>2. ASSUME NEW n \in S PROVE n + 1 \in S
  <2>1. SUFFICES ASSUME NEW s \in SUBSET D, Cardinality(s) = n + 1 PROVE s \in B
    BY <1>2
  <2>2. s # {}
    BY <1>2, <2>1, FS_EmptySet
  <2>3. Cardinality(s \ {Choice(s)}) = n /\ s \ {Choice(s)} \in SUBSET D
    BY <1>2, <2>1, <2>2, ChoiceIs
  <2>4. s \ {Choice(s)} \in B
    BY <1>2, <2>3
  <2> QED
    BY <2>2, <2>4
<1>3. S = Nat
  <2> HIDE DEF S
  <2>1. S \in SUBSET Nat
    BY DEF S
  <2> QED
    BY <1>1, <1>2, <2>1, NatIsAll
<1>4. Cardinality(D) \in Nat
  BY FS_CardinalityType
<1> QED
  BY <1>3, <1>4

\* The recursion has a solution.
LEMMA SumsExist ==
  ASSUME NEW f, NEW D, IsFiniteSet(D)
  PROVE  \E it : it = Sums(f, D, it)
<1> DEFINE Upto(it, n) == \A s \in SUBSET D : Cardinality(s) <= n => it[s] = SumStep(f, it, s)
           S == {n \in Nat : \E it : Upto(it, n)}
<1>1. 0 \in S
  <2> DEFINE z == [s \in SUBSET D |-> 0]
  <2>1. ASSUME NEW s \in SUBSET D, Cardinality(s) <= 0
        PROVE  z[s] = SumStep(f, z, s)
    <3>1. s = {}
      BY <2>1, FS_Subset, FS_EmptySet, FS_CardinalityType
    <3> QED
      BY <3>1 DEF SumStep
  <2>2. Upto(z, 0)
    BY <2>1
  <2> HIDE DEF Upto
  <2> QED
    BY <2>2
<1>2. ASSUME NEW n \in S PROVE n + 1 \in S
  <2>1. PICK it : Upto(it, n)
    BY <1>2
  <2> DEFINE jt == Sums(f, D, it)
  <2>2. ASSUME NEW s \in SUBSET D, Cardinality(s) <= n + 1
        PROVE  jt[s] = SumStep(f, jt, s)
    <3>1. jt[s] = SumStep(f, it, s)
      BY DEF Sums
    <3>2. CASE s = {}
      BY <3>1, <3>2 DEF SumStep
    <3>3. CASE s # {}
      <4> DEFINE t == s \ {Choice(s)}
      <4>1. t \in SUBSET D /\ Cardinality(t) <= n
        BY <1>2, <2>2, <3>3, ChoiceIs
      <4>2. jt[t] = it[t]
        BY <2>1, <4>1 DEF Sums
      <4> QED
        BY <3>1, <3>3, <4>2 DEF SumStep
    <3> QED
      BY <3>2, <3>3
  <2>3. Upto(jt, n + 1)
    BY <2>2
  <2> HIDE DEF Upto, jt
  <2> QED
    BY <1>2, <2>3
<1>3. S = Nat
  <2> HIDE DEF S
  <2>1. S \in SUBSET Nat
    BY DEF S
  <2> QED
    BY <1>1, <1>2, <2>1, NatIsAll
<1>4. Cardinality(D) \in Nat
  BY FS_CardinalityType
<1>5. PICK it : Upto(it, Cardinality(D))
  <2> HIDE DEF Upto
  <2> QED
    BY <1>3, <1>4
<1> DEFINE jt == Sums(f, D, it)
<1>6. \A s \in SUBSET D : it[s] = SumStep(f, it, s)
  BY <1>5, FS_Subset
<1>7. \A s \in SUBSET D : jt[s] = it[s]
  BY <1>6 DEF Sums
<1>8. \A s \in SUBSET D : s \ {Choice(s)} \in SUBSET D
  OBVIOUS
<1>9. \A s \in SUBSET D : SumStep(f, jt, s) = SumStep(f, it, s)
  <2> HIDE DEF jt
  <2> QED
    BY <1>7, <1>8 DEF SumStep
<1>10. Sums(f, D, jt) = jt
  BY <1>9 DEF Sums
<1> QED
  BY <1>10

LEMMA SumRecursion ==
  ASSUME NEW f, NEW D, IsFiniteSet(D)
  PROVE  \E it : SumOf(f, D) = it[D] /\ Adds(f, D, it)
<1>1. SumOf(f, D) = (CHOOSE it : it = Sums(f, D, it))[D]
  BY DEF SumOf, MapThenSumSet, MapThenFoldSet, Sums, SumStep, Choice
<1>2. PICK it : it = Sums(f, D, it) /\ SumOf(f, D) = it[D]
  BY <1>1, SumsExist
<1>3. \A s \in SUBSET D : it[s] = SumStep(f, it, s)
  BY <1>2 DEF Sums
<1> QED
  BY <1>2, <1>3 DEF Adds

\* A sum of numbers changes by what one of them does.
LEMMA SumChange ==
  ASSUME NEW D, IsFiniteSet(D), NEW f \in [D -> Int], NEW g \in [D -> Int],
         NEW n \in D, NEW d \in Int, g[n] = f[n] + d, \A x \in D \ {n} : g[x] = f[x]
  PROVE  SumOf(f, D) \in Int /\ SumOf(g, D) = SumOf(f, D) + d
<1>1. PICK it : SumOf(f, D) = it[D] /\ Adds(f, D, it)
  BY SumRecursion
<1>2. PICK jt : SumOf(g, D) = jt[D] /\ Adds(g, D, jt)
  BY SumRecursion
<1> DEFINE B == {s \in SUBSET D : it[s] \in Int /\ jt[s] = it[s] + (IF n \in s THEN d ELSE 0)}
<1>3. {} \in B
  <2>1. it[{}] = 0 /\ jt[{}] = 0
    BY <1>1, <1>2 DEF SumStep, Adds
  <2> QED
    BY <2>1
<1>4. ASSUME NEW s \in SUBSET D, s # {}, s \ {Choice(s)} \in B
      PROVE  s \in B
  <2> DEFINE c == Choice(s)
             t == s \ {c}
  <2>1. c \in D /\ c \in s
    BY <1>4, ChoiceIs
  <2>2. it[s] = f[c] + it[t] /\ jt[s] = g[c] + jt[t]
    BY <1>1, <1>2, <1>4 DEF SumStep, Adds
  <2>3. it[t] \in Int /\ jt[t] = it[t] + (IF n \in t THEN d ELSE 0)
    BY <1>4
  <2> HIDE DEF c
  <2>4. f[c] \in Int /\ g[c] \in Int
    BY <2>1
  <2>5. CASE c = n
    BY <2>1, <2>2, <2>3, <2>4, <2>5
  <2>6. CASE c # n
    BY <2>1, <2>2, <2>3, <2>4, <2>6
  <2> QED
    BY <2>5, <2>6
<1>5. D \in B
  <2> HIDE DEF B
  <2>1. B \in SUBSET SUBSET D
    BY DEF B
  <2> QED
    BY <1>3, <1>4, <2>1, SubsetInduction
<1> QED
  BY <1>1, <1>2, <1>5

\* Numbers that count the members of F with each image sum up to all of F.
LEMMA SumCounts ==
  ASSUME NEW D, IsFiniteSet(D), NEW F, IsFiniteSet(F), NEW h \in [F -> D], NEW f,
         \A d \in D : f[d] = Cardinality({x \in F : h[x] = d})
  PROVE  SumOf(f, D) = Cardinality(F)
<1>1. PICK it : SumOf(f, D) = it[D] /\ Adds(f, D, it)
  BY SumRecursion
<1> DEFINE Over(s) == {x \in F : h[x] \in s}
           B == {s \in SUBSET D : it[s] = Cardinality(Over(s))}
<1>2. {} \in B
  <2>1. Over({}) = {} /\ it[{}] = 0
    BY <1>1 DEF SumStep, Adds
  <2> QED
    BY <2>1, FS_EmptySet
<1>3. ASSUME NEW s \in SUBSET D, s # {}, s \ {Choice(s)} \in B
      PROVE  s \in B
  <2> DEFINE c == Choice(s)
             t == s \ {c}
             C == {x \in F : h[x] = c}
  <2>1. c \in D /\ c \in s
    BY <1>3, ChoiceIs
  <2>2. it[s] = f[c] + it[t]
    BY <1>1, <1>3 DEF SumStep, Adds
  <2>3. it[t] = Cardinality(Over(t)) /\ f[c] = Cardinality(C)
    BY <1>3, <2>1
  <2>4. Over(s) = Over(t) \cup C /\ Over(t) \cap C = {}
    BY <2>1
  <2>5. IsFiniteSet(Over(t)) /\ IsFiniteSet(C)
    BY FS_Subset
  <2>6. Cardinality(Over(s)) = Cardinality(Over(t)) + Cardinality(C)
    <3> HIDE DEF Over, C, t
    <3>1. Cardinality(Over(t) \cup C) = Cardinality(Over(t)) + Cardinality(C) - Cardinality(Over(t) \cap C)
      BY <2>5, FS_Union
    <3>2. Cardinality(Over(t) \cap C) = 0
      BY <2>4, FS_EmptySet
    <3>3. Cardinality(Over(t)) \in Nat /\ Cardinality(C) \in Nat
      BY <2>5, FS_CardinalityType
    <3> QED
      BY <2>4, <3>1, <3>2, <3>3
  <2>7. Cardinality(Over(t)) \in Nat /\ Cardinality(C) \in Nat
    BY <2>5, FS_CardinalityType
  <2>8. it[s] = Cardinality(Over(s))
    <3> HIDE DEF Over, C, t, c
    <3> QED
      BY <2>2, <2>3, <2>6, <2>7
  <2> QED
    BY <2>8
<1>4. D \in B
  <2> HIDE DEF B
  <2>1. B \in SUBSET SUBSET D
    BY DEF B
  <2> QED
    BY <1>2, <1>3, <2>1, SubsetInduction
<1>5. Over(D) = F
  OBVIOUS
<1> QED
  BY <1>1, <1>4, <1>5

-----------------------------------------------------------------------------
(* The search.                                                             *)

\* The size of a group is a number.
LEMMA BlocksInInt ==
  ASSUME NEW g \in Group
  PROVE  BlocksIn(g) \in Int
BY GroupCntNat, GeometryAssumption DEF BlocksIn

\* The start of a group is a word boundary.
LEMMA RoundUpZero == RoundUp(0, W) = 0
<1>1. W \in Nat \ {0}
  BY GeometryAssumption
<1>2. PICK p \in Nat : RoundUp(0, W) = W * p /\ 0 <= W * p /\ W * p <= 0 + W - 1
  BY <1>1, RoundUpBounds
<1>3. p = 0
  <2>1. CASE 0 + 1 <= p
    <3>1. W * 0 + W <= W * p
      BY <2>1, <1>1, <1>2, MulMono
    <3> QED
      BY <3>1, <1>1, <1>2
  <2> QED
    BY <2>1, <1>2
<1> QED
  BY <1>1, <1>2, <1>3

\* From a word boundary, the bitmap search returns a clear bit.
LEMMA FindClrAligned ==
  ASSUME NEW bits, NEW e \in Int, NEW i \in Bit, FindClr(bits, 0, e, i)
  PROVE  i \notin bits
<1>4. RoundUp(0, W) = 0
  BY RoundUpZero
<1>5. Least(0, e) \in Int /\ Least(0, e) <= 0
  BY DEF Least
<1>6. 0 .. Least(0, e) - 1 = {}
  BY <1>5
<1> QED
  BY <1>4, <1>6 DEF FindClr

\* The search of a group from the goal returns a clear bit: when it reports
\* its starting bit for another one, that one is in the neighbourhood and has
\* been tried before.
LEMMA InGoalGroupClear ==
  ASSUME NEW g \in Group, NEW s \in Nat, NEW i \in Bit, InGoalGroup(g, s, i)
  PROVE  i \notin Bits(g)
<1> DEFINE e == BlocksIn(g)
           head == s .. Least(RoundUp(s, W), e) - 1
           near == s + 1 .. Least(RoundUp(s, K * W), e) - 1
<1>1. CASE /\ s \in Bits(g)
           /\ Near(s, e) \subseteq Bits(g)
           /\ FindClr(Bits(g), s, e, i)
  <2>1. e \in Int
    BY BlocksInInt
  <2> HIDE DEF e
  <2>2. Least(RoundUp(s, W), e) <= Least(RoundUp(s, K * W), e)
        /\ Least(RoundUp(s, W), e) \in Int /\ Least(RoundUp(s, K * W), e) \in Int
    BY <2>1, RoundUpNested DEF Least
  <2>3. head \subseteq {s} \cup near
    BY <2>2
  <2>4. head \subseteq Bits(g)
    BY <2>3, <1>1 DEF Near
  <2> QED
    BY <2>4, <1>1 DEF FindClr
<1> QED
  BY <1>1 DEF InGoalGroup

\* The goal's index is a number, also one past the end of the volume.
LEMMA GoalNat ==
  ASSUME NEW goal \in 0 .. Total
  PROVE  Idx(goal) \in Nat
<1>1. Rel(goal) \in Nat /\ BPG \in Nat \ {0}
  BY GeometryAssumption DEF Rel
<1> QED
  BY <1>1, DivMod DEF Idx

\* What ext4_balloc_alloc_block settles on is clear, in a group it has loaded.
LEMMA FoundClear ==
  ASSUME NEW goal \in 0 .. Total, NEW k \in 0 .. GroupCnt,
         NEW g \in Group, NEW i \in Bit, Found(goal, k, g, i)
  PROVE  i \notin Bits(g) /\ g \in Visited(goal, k)
<1>1. CASE k = 0 /\ g = Bgid(goal) /\ InGoalGroup(g, Idx(goal), i)
  BY <1>1, GoalNat, InGoalGroupClear DEF Visited
<1>2. CASE k \in Turns /\ g = Turn(Bgid(goal), k) /\ InOtherGroup(g, i)
  <2>1. i \notin Bits(g)
    BY <1>2, BlocksInInt, FindClrAligned DEF InOtherGroup
  <2>2. k \in 1 .. k
    BY <1>2, GroupCntNat DEF Turns
  <2> QED
    BY <1>2, <2>1, <2>2 DEF Visited
<1> QED
  BY <1>1, <1>2 DEF Found

-----------------------------------------------------------------------------
(* The inductive invariant.                                                *)

\* What owner, the bitmaps and the counters have to do with each other.  It
\* adds to the properties that the metadata of a group is marked even before
\* its bitmap is written, that the superblock counts the clear bits and that
\* an inode is charged for at least the blocks it refers to.
Typed ==
    /\ bitmap \in [Group -> SUBSET Bit]
    /\ uninit \subseteq Group
    /\ bg_free \in [Group -> Int]
    /\ sb_free \in Int
    /\ ino_blocks \in [Ino -> Int]
    /\ owner \in [Ino -> SUBSET Block]

Charged == \A n \in Ino : Cardinality(owner[n]) <= ino_blocks[n]

IInv ==
    /\ Typed
    /\ MetaMarked
    /\ NotShared
    /\ GroupsCounted
    /\ sb_free = Cardinality(free)
    /\ Charged

\* Blocks, bits and what is free of them are finite.
LEMMA Finite ==
  /\ IsFiniteSet(Bit) /\ \A S \in SUBSET Bit : IsFiniteSet(S)
  /\ IsFiniteSet(Block) /\ \A S \in SUBSET Block : IsFiniteSet(S)
<1>1. IsFiniteSet(Bit)
  BY GeometryAssumption, FS_Interval DEF Bit
<1>2. IsFiniteSet(Block)
  BY GeometryAssumption, FS_Interval DEF Block
<1> QED
  BY <1>1, <1>2, FS_Subset

\* Disjoint sets add up.
LEMMA Disjoint ==
  ASSUME NEW S, IsFiniteSet(S), NEW T, IsFiniteSet(T), S \cap T = {}
  PROVE  Cardinality(S \cup T) = Cardinality(S) + Cardinality(T)
<1>1. Cardinality(S \cup T) = Cardinality(S) + Cardinality(T) - Cardinality(S \cap T)
  BY FS_Union
<1>2. Cardinality(S \cap T) = 0
  BY FS_EmptySet
<1>3. Cardinality(S) \in Nat /\ Cardinality(T) \in Nat
  BY FS_CardinalityType
<1> QED
  BY <1>1, <1>2, <1>3

\* A marked bit belongs to one block only.
LEMMA OnePlace ==
  ASSUME NEW b \in Block, NEW c \in Block, Bgid(b) = Bgid(c), Idx(b) = Idx(c)
  PROVE  b = c
BY BlockPlace

\* A clear bit is a block, free, of no inode and not the file system's.
LEMMA ClearIsFree ==
  ASSUME Typed, MetaMarked, NotShared, NEW g \in Group, NEW i \in Bit, i \notin Bits(g)
  PROVE  /\ Addr(i, g) \in free \ Meta
         /\ Bgid(Addr(i, g)) = g /\ Idx(Addr(i, g)) = i
         /\ \A n \in Ino : Addr(i, g) \notin owner[n]
<1>1. i \notin FirstBitmap(g)
  BY DEF MetaMarked
<1>2. ~(Addr(i, g) >= Total) /\ Addr(i, g) \notin Meta
  BY <1>1 DEF FirstBitmap
<1>3. Addr(i, g) \in Block /\ Bgid(Addr(i, g)) = g /\ Idx(Addr(i, g)) = i
  BY <1>2, PlaceBlock
<1>4. \A n \in Ino : Addr(i, g) \notin owner[n]
  BY <1>3 DEF NotShared, Marked, Bits
<1> QED
  BY <1>2, <1>3, <1>4 DEF free

\* The bitmaps start out with the metadata marked and nothing else.
LEMMA InitIInv ==
  ASSUME Init
  PROVE  IInv
<1>1. \A g \in Group : Bits(g) = FirstBitmap(g) /\ FirstBitmap(g) \subseteq Bit
  BY DEF Init, Bits, FirstBitmap
<1>2. Typed
  <2>1. \A g \in Group : Cardinality(Bit \ FirstBitmap(g)) \in Int
    BY Finite, FS_CardinalityType
  <2>2. Cardinality(Block \ Meta) \in Int
    BY Finite, FS_CardinalityType
  <2> QED
    BY <1>1, <2>1, <2>2, MetaAssumption DEF Init, Typed
<1>3. MetaMarked
  BY <1>1 DEF MetaMarked
<1>4. NotShared
  BY DEF Init, NotShared, Marked, Apart
<1>5. GroupsCounted
  BY <1>1 DEF Init, GroupsCounted
<1>6. free = Block \ Meta
  <2>1. ASSUME NEW b \in Block
        PROVE  Idx(b) \in Bits(Bgid(b)) <=> b \in Meta
    <3>1. Bgid(b) \in Group /\ Idx(b) \in Bit /\ Addr(Idx(b), Bgid(b)) = b
      BY BlockPlace
    <3>2. ~(b >= Total)
      BY GeometryAssumption DEF Block
    <3> QED
      BY <1>1, <3>1, <3>2 DEF FirstBitmap
  <2> QED
    BY <2>1 DEF free
<1>7. Charged
  <2>1. \A n \in Ino : owner[n] = {} /\ ino_blocks[n] = 0
    BY DEF Init
  <2> QED
    BY <2>1, FS_EmptySet DEF Charged
<1> QED
  BY <1>2, <1>3, <1>4, <1>5, <1>6, <1>7 DEF IInv, Init

\* Loading group descriptors changes no bitmap a caller can read.
LEMMA PrepareStep ==
  ASSUME IInv, NEW gs \in SUBSET Group, Prepare(gs)
  PROVE  IInv' /\ free' = free /\ owner' = owner
<1>1. \A g \in Group : Bits(g)' = Bits(g) /\ Bits(g) \subseteq Bit
  BY DEF IInv, Typed, Prepare, Written, Current, Bits, FirstBitmap
<1>2. free' = free
  BY <1>1, BlockPlace DEF free
<1>3. Typed'
  BY <1>1 DEF IInv, Typed, Prepare, Written, Current
<1>4. MetaMarked' /\ GroupsCounted' /\ Charged'
  BY <1>1 DEF IInv, MetaMarked, GroupsCounted, Charged, Prepare
<1>5. NotShared'
  BY <1>1 DEF IInv, NotShared, Marked, Apart, Prepare, Bits, Typed
<1> QED
  BY <1>2, <1>3, <1>4, <1>5 DEF IInv, Prepare

\* Setting a clear bit for an inode takes its block out of the free ones.
LEMMA ChargeStep ==
  ASSUME IInv, NEW gs \in SUBSET Group, NEW n \in Ino, NEW g \in gs, NEW i \in Bit,
         i \notin Bits(g), Charge(n, g, i, gs)
  PROVE  IInv' /\ Pool!Take(n, Addr(i, g)) /\ Addr(i, g) \in Block
<1> DEFINE a == Addr(i, g)
<1>1. /\ a \in free /\ a \in Block /\ a \notin Meta
      /\ Bgid(a) = g /\ Idx(a) = i
      /\ \A m \in Ino : a \notin owner[m]
  BY ClearIsFree DEF IInv, free
<1> HIDE DEF a
<1>2. /\ bitmap' = Written(gs, [Current EXCEPT ![g] = @ \cup {i}])
      /\ uninit' = uninit \ gs
      /\ bg_free' = [bg_free EXCEPT ![g] = @ - 1]
      /\ sb_free' = sb_free - 1
      /\ ino_blocks' = [ino_blocks EXCEPT ![n] = @ + 1]
      /\ owner' = [owner EXCEPT ![n] = @ \cup {a}]
  BY DEF Charge, a
<1>3. \A h \in Group : /\ Bits(h)' = IF h = g THEN Bits(h) \cup {i} ELSE Bits(h)
                       /\ Bits(h) \subseteq Bit
  BY <1>2 DEF IInv, Typed, Written, Current, Bits, FirstBitmap
<1>4. Typed'
  <2>1. \A h \in Group : [Current EXCEPT ![g] = @ \cup {i}][h] \in SUBSET Bit
    BY <1>3 DEF Current
  <2>2. bitmap' \in [Group -> SUBSET Bit]
    BY <1>2, <2>1 DEF IInv, Typed, Written
  <2>3. owner' \in [Ino -> SUBSET Block]
    BY <1>1, <1>2 DEF IInv, Typed
  <2>4. bg_free' \in [Group -> Int] /\ ino_blocks' \in [Ino -> Int]
    BY <1>2 DEF IInv, Typed
  <2>5. uninit' \subseteq Group /\ sb_free' \in Int
    BY <1>2 DEF IInv, Typed
  <2> QED
    BY <2>2, <2>3, <2>4, <2>5 DEF Typed
<1>5. MetaMarked'
  BY <1>3 DEF IInv, MetaMarked
<1>6. \A h \in gs : h \notin uninit' /\ bitmap'[h] = Bits(h)'
  BY <1>2 DEF Bits
<1>7. Marked'
  <2> SUFFICES ASSUME NEW m \in Ino, NEW b \in owner'[m]
               PROVE  Bgid(b) \in Group \ uninit' /\ Idx(b) \in bitmap'[Bgid(b)]
    BY DEF Marked
  <2>1. b \in Block
    BY <1>4 DEF Typed
  <2>2. CASE b = a
    BY <2>2, <1>1, <1>3, <1>6
  <2>3. CASE b \in owner[m]
    <3>1. Bgid(b) \in Group \ uninit /\ Idx(b) \in bitmap[Bgid(b)]
      BY <2>3 DEF IInv, NotShared, Marked
    <3>2. Idx(b) \in Bits(Bgid(b))'
      BY <3>1, <1>3 DEF Bits
    <3> QED
      BY <3>1, <3>2, <1>2 DEF Bits
  <2> QED
    BY <2>2, <2>3, <1>2 DEF IInv, Typed
<1>8. Apart' /\ \A m \in Ino : owner'[m] \cap Meta = {}
  BY <1>1, <1>2 DEF IInv, Typed, NotShared, Apart
<1>9. GroupsCounted'
  <2> SUFFICES ASSUME NEW h \in Group
               PROVE  bg_free'[h] = Cardinality(Bit \ Bits(h)')
    BY DEF GroupsCounted
  <2>1. bg_free[h] = Cardinality(Bit \ Bits(h)) /\ IsFiniteSet(Bit \ Bits(h))
    BY Finite DEF IInv, GroupsCounted
  <2>2. CASE h = g
    <3>1. Bit \ Bits(h)' = (Bit \ Bits(h)) \ {i}
      BY <2>2, <1>3
    <3>2. Cardinality((Bit \ Bits(h)) \ {i}) = Cardinality(Bit \ Bits(h)) - 1
      BY <2>1, <2>2, FS_RemoveElement
    <3> QED
      BY <2>1, <2>2, <3>1, <3>2, <1>2 DEF IInv, Typed
  <2>3. CASE h # g
    BY <2>1, <2>3, <1>2, <1>3 DEF IInv, Typed
  <2> QED
    BY <2>2, <2>3
<1>10. free' = free \ {a}
  <2>1. ASSUME NEW b \in Block
        PROVE  Idx(b) \notin Bits(Bgid(b))' <=> Idx(b) \notin Bits(Bgid(b)) /\ b # a
    BY <1>1, <1>3, BlockPlace, OnePlace
  <2> QED
    BY <2>1 DEF free
<1>11. sb_free' = Cardinality(free')
  <2>1. IsFiniteSet(free)
    BY Finite DEF free
  <2>2. Cardinality(free \ {a}) = Cardinality(free) - 1
    BY <2>1, <1>1, FS_RemoveElement
  <2> QED
    BY <2>2, <1>2, <1>10 DEF IInv
<1>12. Charged'
  <2> SUFFICES ASSUME NEW m \in Ino
               PROVE  Cardinality(owner'[m]) <= ino_blocks'[m]
    BY DEF Charged
  <2>1. IsFiniteSet(owner[m]) /\ Cardinality(owner[m]) <= ino_blocks[m]
        /\ Cardinality(owner[m]) \in Nat /\ ino_blocks[m] \in Int
    BY Finite, FS_CardinalityType DEF IInv, Typed, Charged
  <2>2. CASE m = n
    <3>1. Cardinality(owner[m] \cup {a}) = Cardinality(owner[m]) + 1
      BY <2>1, <1>1, FS_AddElement
    <3> QED
      BY <2>1, <2>2, <3>1, <1>2 DEF IInv, Typed
  <2>3. CASE m # n
    BY <2>1, <2>3, <1>2 DEF IInv, Typed
  <2> QED
    BY <2>2, <2>3
<1>13. Pool!Take(n, a)
  BY <1>1, <1>2, <1>10 DEF Pool!Take
<1> QED
  BY <1>1, <1>4, <1>5, <1>7, <1>8, <1>9, <1>11, <1>12, <1>13 DEF IInv, NotShared, a

\* Releasing blocks returns the ones of the groups reached to the free ones.
LEMMA GiveUpStep ==
  ASSUME IInv, NEW n \in Ino, NEW S \in SUBSET owner[n],
         NEW seen \in SUBSET Group, NEW gs \in SUBSET seen, GiveUp(n, S, gs, seen)
  PROVE  IInv' /\ Pool!Release(n, S, Freed(S, gs))
<1> DEFINE R == Freed(S, gs)
<1>1. R \in SUBSET S /\ \A b \in R : Bgid(b) \in gs
  BY DEF Freed
<1>2. \A b \in S : /\ b \in Block /\ b \notin Meta /\ Bgid(b) \in Group \ uninit
                   /\ Idx(b) \in Bits(Bgid(b)) /\ Idx(b) \in Bit
  BY BlockPlace DEF IInv, Typed, NotShared, Marked, Bits
<1>3. /\ bitmap' = Written(seen, [g \in Group |-> Bits(g) \ IdxIn(R, g)])
      /\ uninit' = uninit \ seen
      /\ bg_free' = [g \in Group |-> bg_free[g] + Cardinality(IdxIn(R, g))]
      /\ sb_free' = sb_free + Cardinality(R)
      /\ ino_blocks' = [ino_blocks EXCEPT ![n] = @ - Cardinality(R)]
      /\ owner' = [owner EXCEPT ![n] = @ \ S]
  BY DEF GiveUp, GroupGain
<1> HIDE DEF R
<1>4. \A h \in Group : IdxIn(R, h) \subseteq Bits(h) /\ Bits(h) \subseteq Bit
                       /\ (h \notin gs => IdxIn(R, h) = {})
  BY <1>1, <1>2 DEF IInv, Typed, IdxIn, Bits, FirstBitmap
<1>5. \A h \in Group : Bits(h)' = Bits(h) \ IdxIn(R, h)
  BY <1>3, <1>4 DEF IInv, Typed, Written, Bits
<1>6. \A h \in Group : IsFiniteSet(IdxIn(R, h)) /\ Cardinality(IdxIn(R, h)) \in Nat
  <2> SUFFICES ASSUME NEW h \in Group
               PROVE  IsFiniteSet(IdxIn(R, h)) /\ Cardinality(IdxIn(R, h)) \in Nat
    OBVIOUS
  <2>1. IdxIn(R, h) \in SUBSET Bit
    BY <1>4
  <2> QED
    BY <2>1, Finite, FS_CardinalityType
<1>7. IsFiniteSet(R) /\ IsFiniteSet(S) /\ Cardinality(R) \in Nat /\ Cardinality(S) \in Nat
      /\ Cardinality(R) <= Cardinality(S)
  <2>1. S \in SUBSET Block /\ R \in SUBSET Block
    BY <1>1, <1>2
  <2> QED
    BY <1>1, <2>1, Finite, FS_CardinalityType, FS_Subset
<1>8. Typed'
  <2>1. bitmap' \in [Group -> SUBSET Bit]
    BY <1>3, <1>4 DEF IInv, Typed, Written
  <2> QED
    BY <1>3, <1>6, <1>7, <2>1 DEF IInv, Typed
<1>9. \A b \in Block \ R : Idx(b) \notin IdxIn(R, Bgid(b))
  <2> SUFFICES ASSUME NEW b \in Block \ R, Idx(b) \in IdxIn(R, Bgid(b))
               PROVE  FALSE
    OBVIOUS
  <2>1. PICK c \in R : Bgid(c) = Bgid(b) /\ Idx(c) = Idx(b)
    BY DEF IdxIn
  <2>2. c \in Block
    BY <2>1, <1>1, <1>2
  <2> QED
    BY <2>1, <2>2, OnePlace
<1>10. MetaMarked'
  <2> SUFFICES ASSUME NEW h \in Group, NEW i \in FirstBitmap(h)
               PROVE  i \in Bits(h)'
    BY DEF MetaMarked, FirstBitmap
  <2>1. i \in Bits(h) /\ i \in Bit
    BY DEF IInv, MetaMarked, FirstBitmap
  <2>2. i \notin IdxIn(R, h)
    <3> SUFFICES ASSUME i \in IdxIn(R, h) PROVE FALSE
      OBVIOUS
    <3>1. PICK c \in R : Bgid(c) = h /\ Idx(c) = i
      BY DEF IdxIn
    <3>2. c \in Block /\ c \notin Meta /\ Addr(i, h) = c /\ c < Total
      <4>1. c \in Block /\ c \notin Meta
        BY <3>1, <1>1, <1>2
      <4> QED
        BY <3>1, <4>1, BlockPlace, GeometryAssumption DEF Block
    <3>3. ~(c >= Total)
      BY <3>2, GeometryAssumption DEF Block
    <3> QED
      BY <3>2, <3>3 DEF FirstBitmap
  <2> QED
    BY <2>1, <2>2, <1>5
<1>11. Marked'
  <2> SUFFICES ASSUME NEW m \in Ino, NEW b \in owner'[m]
               PROVE  Bgid(b) \in Group \ uninit' /\ Idx(b) \in bitmap'[Bgid(b)]
    BY DEF Marked
  <2>1. b \in owner[m] /\ b \in Block /\ b \notin S
    BY <1>3 DEF IInv, Typed, NotShared, Apart
  <2>2. Bgid(b) \in Group \ uninit /\ Idx(b) \in Bits(Bgid(b))
    BY <2>1 DEF IInv, NotShared, Marked, Bits
  <2>3. Idx(b) \in Bits(Bgid(b))' /\ Bgid(b) \notin uninit'
    BY <2>1, <2>2, <1>1, <1>3, <1>5, <1>9
  <2> QED
    BY <2>2, <2>3 DEF Bits
<1>12. Apart' /\ \A m \in Ino : owner'[m] \cap Meta = {}
  BY <1>3 DEF IInv, Typed, NotShared, Apart
<1>13. GroupsCounted'
  <2> SUFFICES ASSUME NEW h \in Group
               PROVE  bg_free'[h] = Cardinality(Bit \ Bits(h)')
    BY DEF GroupsCounted
  <2> DEFINE T == Bit \ Bits(h)
             X == IdxIn(R, h)
  <2>1. bg_free[h] = Cardinality(T) /\ IsFiniteSet(T) /\ IsFiniteSet(X)
    BY Finite, <1>6 DEF IInv, GroupsCounted
  <2>2. Bit \ Bits(h)' = T \cup X /\ T \cap X = {}
    BY <1>4, <1>5
  <2>3. bg_free'[h] = bg_free[h] + Cardinality(X)
    BY <1>3
  <2>4. Cardinality(T) \in Nat /\ Cardinality(X) \in Nat
    BY <2>1, FS_CardinalityType
  <2> HIDE DEF T, X
  <2>5. Cardinality(T \cup X) = Cardinality(T) + Cardinality(X)
    BY <2>1, <2>2, Disjoint
  <2> QED
    BY <2>1, <2>2, <2>3, <2>5
<1>14. free' = free \cup R /\ free \cap R = {}
  <2>1. \A b \in Block : Idx(b) \notin Bits(Bgid(b))' <=> Idx(b) \notin Bits(Bgid(b)) \/ b \in R
    <3> SUFFICES ASSUME NEW b \in Block
                 PROVE  Idx(b) \notin Bits(Bgid(b))' <=> Idx(b) \notin Bits(Bgid(b)) \/ b \in R
      OBVIOUS
    <3>1. Bgid(b) \in Group
      BY BlockPlace
    <3>2. b \in R => Idx(b) \in IdxIn(R, Bgid(b))
      BY DEF IdxIn
    <3> QED
      BY <3>1, <3>2, <1>5, <1>9
  <2>2. R \subseteq Block /\ \A b \in R : Idx(b) \in Bits(Bgid(b))
    BY <1>1, <1>2
  <2> QED
    BY <2>1, <2>2 DEF free
<1>15. sb_free' = Cardinality(free')
  <2>1. IsFiniteSet(free) /\ Cardinality(free) \in Nat
    BY Finite, FS_CardinalityType DEF free
  <2>2. Cardinality(free \cup R) = Cardinality(free) + Cardinality(R)
    BY <2>1, <1>7, <1>14, Disjoint
  <2> QED
    BY <2>2, <1>3, <1>14 DEF IInv
<1>16. Charged'
  <2> SUFFICES ASSUME NEW m \in Ino
               PROVE  Cardinality(owner'[m]) <= ino_blocks'[m]
    BY DEF Charged
  <2>1. IsFiniteSet(owner[m]) /\ Cardinality(owner[m]) <= ino_blocks[m]
        /\ Cardinality(owner[m]) \in Nat /\ ino_blocks[m] \in Int
    BY Finite, FS_CardinalityType DEF IInv, Typed, Charged
  <2>2. CASE m = n
    <3> DEFINE D == owner[n] \ S
    <3>1. owner[n] = D \cup S /\ D \cap S = {} /\ IsFiniteSet(D)
      BY <2>1, <2>2, FS_Subset
    <3>2. Cardinality(D) \in Nat
      BY <3>1, FS_CardinalityType
    <3> HIDE DEF D
    <3>3. Cardinality(owner[n]) = Cardinality(D) + Cardinality(S)
      BY <3>1, <1>7, Disjoint
    <3>4. owner'[n] = D /\ ino_blocks'[n] = ino_blocks[n] - Cardinality(R)
      BY <1>3 DEF IInv, Typed, D
    <3> QED
      BY <2>1, <2>2, <3>2, <3>3, <3>4, <1>7
  <2>3. CASE m # n
    BY <2>1, <2>3, <1>3 DEF IInv, Typed
  <2> QED
    BY <2>2, <2>3
<1>17. Pool!Release(n, S, R)
  BY <1>1, <1>3, <1>14 DEF Pool!Release
<1> QED
  BY <1>8, <1>10, <1>11, <1>12, <1>13, <1>15, <1>16, <1>17 DEF IInv, NotShared, R

-----------------------------------------------------------------------------
(* Every operation is a step of the pool.                                  *)

\* The groups an allocation loads exist.
LEMMA VisitedGroups ==
  ASSUME NEW goal, NEW k
  PROVE  Visited(goal, k) \subseteq Group
BY DEF Visited

\* One case per operation.
LEMMA NextIInv ==
  ASSUME IInv, Next
  PROVE  IInv' /\ [Pool!Next]_(Pool!vars)
<1>1. ASSUME NEW gs \in SUBSET Group, Prepare(gs)
      PROVE  IInv' /\ [Pool!Next]_(Pool!vars)
  BY <1>1, PrepareStep DEF Pool!vars
<1>2. ASSUME NEW gs \in SUBSET Group, NEW n \in Ino, NEW g \in gs, NEW i \in Bit,
             i \notin Bits(g), Charge(n, g, i, gs)
      PROVE  IInv' /\ [Pool!Next]_(Pool!vars)
  BY <1>2, ChargeStep DEF Pool!Next
<1>3. ASSUME NEW n \in Ino, NEW S \in SUBSET owner[n],
             NEW seen \in SUBSET Group, NEW gs \in SUBSET seen, GiveUp(n, S, gs, seen)
      PROVE  IInv' /\ [Pool!Next]_(Pool!vars)
  <2>1. IInv' /\ Pool!Release(n, S, Freed(S, gs)) /\ Freed(S, gs) \in SUBSET S
    BY <1>3, GiveUpStep DEF Freed
  <2> QED
    BY <2>1 DEF Pool!Next
<1>4. ASSUME NEW n \in Ino, NEW goal \in 0 .. Total, AllocBlock(n, goal)
      PROVE  IInv' /\ [Pool!Next]_(Pool!vars)
  <2>1. PICK k \in 0 .. GroupCnt, g \in Group, i \in Bit :
            Found(goal, k, g, i) /\ Charge(n, g, i, Visited(goal, k))
    BY <1>4 DEF AllocBlock
  <2>2. i \notin Bits(g) /\ g \in Visited(goal, k)
    BY <2>1, FoundClear
  <2> QED
    BY <2>1, <2>2, <1>2, VisitedGroups
<1>5. ASSUME NEW goal \in 0 .. Total, AllocNoSpace(goal) \/ AllocFails(goal)
      PROVE  IInv' /\ [Pool!Next]_(Pool!vars)
  BY <1>5, <1>1, VisitedGroups DEF AllocNoSpace, AllocFails
<1>6. ASSUME NEW n \in Ino, NEW b \in Block, TryAllocBlock(n, b)
      PROVE  IInv' /\ [Pool!Next]_(Pool!vars)
  <2>1. Bgid(b) \in Group /\ Idx(b) \in Bit
    BY BlockPlace
  <2> QED
    BY <1>6, <2>1, <1>1, <1>2 DEF TryAllocBlock
<1>7. ASSUME NEW n \in Ino, NEW b \in Block, FreeBlock(n, b) \/ FreeBlockFails(n, b)
      PROVE  IInv' /\ [Pool!Next]_(Pool!vars)
  <2>1. Bgid(b) \in Group /\ {b} \in SUBSET owner[n]
    BY <1>7, BlockPlace DEF FreeBlock, FreeBlockFails
  <2> QED
    BY <1>7, <2>1, <1>3 DEF FreeBlock, FreeBlockFails
<1>8. ASSUME NEW n \in Ino, NEW first \in Block, NEW last \in Block, FreeBlocks(n, first, last)
      PROVE  IInv' /\ [Pool!Next]_(Pool!vars)
  <2> DEFINE g1 == Bgid(first)
             g2 == Bgid(last)
  <2>1. g1 \in Group /\ g2 \in Group
    BY BlockPlace
  <2> HIDE DEF g1, g2
  <2>2. PICK stop \in g1 .. g2 + 1 : \E seen \in {g1 .. stop - 1, g1 .. Least(stop, g2)} :
                 GiveUp(n, first .. last, g1 .. stop - 1, seen)
    BY <1>8 DEF FreeBlocks, g1, g2
  <2>3. PICK seen \in {g1 .. stop - 1, g1 .. Least(stop, g2)} :
                 GiveUp(n, first .. last, g1 .. stop - 1, seen)
    BY <2>2
  <2>4. g1 \in Int /\ g2 \in Int /\ 0 <= g1 /\ g2 <= GroupCnt - 1 /\ GroupCnt \in Nat
    BY <2>1, GroupCntNat DEF Group
  <2>5. seen \in SUBSET Group /\ g1 .. stop - 1 \in SUBSET seen
    BY <2>2, <2>3, <2>4 DEF Least, Group
  <2>6. first .. last \in SUBSET owner[n]
    BY <1>8 DEF FreeBlocks
  <2> QED
    BY <2>3, <2>5, <2>6, <1>3
<1> QED
  BY <1>4, <1>5, <1>6, <1>7, <1>8 DEF Next

\* The invariant holds in every state.
THEOREM AllocInvariance == Spec => []IInv
<1>1. Init => IInv
  BY InitIInv
<1>2. IInv /\ [Next]_vars => IInv'
  <2>1. ASSUME IInv, UNCHANGED vars
        PROVE  IInv'
    BY <2>1 DEF vars, IInv, Typed, MetaMarked, NotShared, Marked, Apart,
                GroupsCounted, Charged, free, Bits
  <2> QED
    BY <2>1, NextIInv
<1> QED
  BY <1>1, <1>2, PTL DEF Spec

\* The counters and the bitmaps keep their types; no free count and no charge
\* ever falls below zero (they are unsigned in the code).
THEOREM AllocTypeCorrect == Spec => []TypeOK
<1>1. IInv => TypeOK
  <2> SUFFICES ASSUME IInv PROVE TypeOK
    OBVIOUS
  <2>1. \A g \in Group : bg_free[g] \in Nat
    <3> SUFFICES ASSUME NEW g \in Group PROVE bg_free[g] \in Nat
      OBVIOUS
    <3>1. IsFiniteSet(Bit \ Bits(g))
      BY Finite
    <3> QED
      BY <3>1, FS_CardinalityType DEF IInv, GroupsCounted
  <2>2. sb_free \in Nat
    <3>1. IsFiniteSet(free)
      BY Finite DEF free
    <3> QED
      BY <3>1, FS_CardinalityType DEF IInv
  <2>3. \A n \in Ino : ino_blocks[n] \in Nat
    <3> SUFFICES ASSUME NEW n \in Ino PROVE ino_blocks[n] \in Nat
      OBVIOUS
    <3>1. Cardinality(owner[n]) \in Nat
      BY Finite, FS_CardinalityType DEF IInv, Typed
    <3> QED
      BY <3>1 DEF IInv, Typed, Charged
  <2> QED
    BY <2>1, <2>2, <2>3 DEF IInv, Typed, TypeOK
<1> QED
  BY <1>1, AllocInvariance, PTL

\* A block in use is marked, is not the file system's, and has one user.
THEOREM BlocksNotShared == Spec => []NotShared
<1>1. IInv => NotShared
  BY DEF IInv
<1> QED
  BY <1>1, AllocInvariance, PTL

\* Every group's free count is the number of clear bits of its bitmap.
THEOREM GroupCountsRight == Spec => []GroupsCounted
<1>1. IInv => GroupsCounted
  BY DEF IInv
<1> QED
  BY <1>1, AllocInvariance, PTL

\* The allocator implements the pool: what it hands out was free.
THEOREM AllocatorIsPool == Spec => ImplementsPool
<1>1. Init => Pool!Init
  BY DEF Init, Pool!Init, free
<1>2. IInv /\ [Next]_vars => [Pool!Next]_(Pool!vars)
  <2>1. ASSUME UNCHANGED vars
        PROVE  UNCHANGED Pool!vars
    BY <2>1 DEF vars, Pool!vars, free, Bits
  <2> QED
    BY <2>1, NextIInv
<1> QED
  BY <1>1, <1>2, AllocInvariance, PTL DEF Spec, ImplementsPool, Pool!Spec

\* Every group comes up in one of the turns after the goal's.
LEMMA TurnReaches ==
  ASSUME NEW g0 \in Nat, NEW g \in Group
  PROVE  \E k \in Turns : Turn(g0, k) = g
<1>1. GroupCnt \in Nat \ {0} /\ g \in 0 .. GroupCnt - 1
  BY GroupCntNat DEF Group
<1> DEFINE q == g0 \div GroupCnt
           r == g0 % GroupCnt
           k == IF r < g THEN g - r ELSE g - r + GroupCnt
           p == IF r < g THEN q ELSE q + 1
<1>2. q \in Nat /\ r \in 0 .. GroupCnt - 1 /\ g0 = GroupCnt * q + r
  BY <1>1, DivMod
<1> HIDE DEF q, r
<1>3. k \in 1 .. GroupCnt /\ p \in Nat
  BY <1>1, <1>2
<1>4. g0 + k = GroupCnt * p + g
  <2>1. GroupCnt * (q + 1) = GroupCnt * q + GroupCnt /\ GroupCnt * q \in Int
    BY <1>1, <1>2
  <2> QED
    BY <1>1, <1>2, <2>1
<1>5. (g0 + k) % GroupCnt = g
  BY <1>1, <1>3, <1>4, DivUnique
<1> QED
  BY <1>3, <1>5 DEF Turns, Turn

\* A group with a clear bit is not passed over.
LEMMA ClearIsFound ==
  ASSUME IInv, NEW g \in Group, NEW c \in Bit, c \notin Bits(g)
  PROVE  \E i \in Bit : InOtherGroup(g, i)
<1>1. bg_free[g] # 0
  <2>1. IsFiniteSet(Bit \ Bits(g)) /\ c \in Bit \ Bits(g)
    BY Finite
  <2>2. Cardinality(Bit \ Bits(g)) # 0
    BY <2>1, FS_EmptySet
  <2> QED
    BY <2>2 DEF IInv, GroupsCounted
<1>2. /\ Bit \subseteq Nat /\ BlocksIn(g) \in Int /\ BPG \in Nat \ {0} /\ Bit = 0 .. BPG - 1
  BY BlocksInInt, GeometryAssumption DEF Bit
<1>3. ASSUME NEW i \in Bit, i \notin Bits(g) PROVE i < BlocksIn(g)
  <2>1. Addr(i, g) \in Block
    BY <1>3, ClearIsFree DEF IInv, free
  <2>2. CASE g < GroupCnt - 1
    BY <1>2, <2>2 DEF BlocksIn
  <2>3. CASE ~(g < GroupCnt - 1)
    <3>1. g = GroupCnt - 1 /\ g \in Nat
      BY <2>3, GroupCntNat DEF Group
    <3>2. BPG * g + i < Total /\ BPG * g \in Int
      BY <1>2, <2>1, <3>1, GeometryAssumption DEF Block, Addr
    <3>3. BlocksIn(g) = Total - g * BPG
      BY <2>3, <3>1 DEF BlocksIn
    <3>4. g * BPG = BPG * g
      BY <1>2, <3>1
    <3> QED
      BY <1>2, <3>2, <3>3, <3>4, GeometryAssumption
  <2> QED
    BY <2>2, <2>3
<1>4. PICK i \in Bit \ Bits(g) : \A j \in Bit \ Bits(g) : <<j, i>> \notin OpToRel(<, Nat)
  <2>1. Bit \ Bits(g) \subseteq Nat /\ Bit \ Bits(g) # {}
    BY <1>2
  <2> QED
    BY <2>1, WFMin, NatLessThanWellFounded
<1>5. \A j \in Bit \ Bits(g) : ~(j < i)
  BY <1>2, <1>4 DEF OpToRel
<1>6. 0 .. i - 1 \subseteq Bits(g) /\ i \in 0 .. BlocksIn(g) - 1
  BY <1>2, <1>3, <1>5
<1>7. RoundUp(0, W) = 0
  BY RoundUpZero
<1>8. 0 .. Least(0, BlocksIn(g)) - 1 = {}
  BY <1>2 DEF Least
<1>9. FindClr(Bits(g), 0, BlocksIn(g), i)
  BY <1>6, <1>7, <1>8 DEF FindClr
<1> QED
  BY <1>1, <1>9 DEF InOtherGroup

\* No space is said only when nothing is free: of the turns that have something
\* the first settles.
LEMMA NoSpaceIsFull == IInv => FullWhenNoSpace
<1> SUFFICES ASSUME IInv, NEW goal \in 0 .. Total, NoSpace(goal), NEW g \in Group
             PROVE  Bits(g) = Bit
  BY DEF FullWhenNoSpace
<1>1. Bits(g) \subseteq Bit
  BY DEF IInv, Typed, Bits, FirstBitmap
<1> SUFFICES ASSUME NEW c \in Bit, c \notin Bits(g) PROVE FALSE
  BY <1>1
<1> DEFINE g0 == Bgid(goal)
           InGoal(j) == g0 \in Group /\ InGoalGroup(g0, Idx(goal), j)
           Has(k) == \E j \in Bit : InOtherGroup(Turn(g0, k), j)
<1>2. g0 \in Nat /\ GroupCnt \in Nat \ {0} /\ Turns \subseteq Nat
  <2>1. Rel(goal) \in Nat /\ BPG \in Nat \ {0}
    BY GeometryAssumption DEF Rel
  <2> QED
    BY <2>1, DivMod, GroupCntNat DEF Bgid, Group, Turns
<1>3. \A j \in Bit : ~InGoal(j)
  <2> SUFFICES ASSUME NEW j \in Bit, InGoal(j) PROVE FALSE
    OBVIOUS
  <2>1. Found(goal, 0, g0, j)
    BY DEF Found
  <2> QED
    BY <1>2, <2>1 DEF NoSpace
<1> DEFINE T == {k \in Turns : Has(k)}
<1>4. T # {} /\ T \subseteq Nat
  <2>1. PICK k \in Turns : Turn(g0, k) = g
    BY <1>2, TurnReaches
  <2>2. Has(k)
    BY <2>1, ClearIsFound
  <2> HIDE DEF Has
  <2> QED
    BY <1>2, <2>2
<1>5. PICK k \in T : \A m \in T : <<m, k>> \notin OpToRel(<, Nat)
  <2> HIDE DEF T
  <2> QED
    BY <1>4, WFMin, NatLessThanWellFounded
<1>6. \A m \in T : ~(m < k)
  BY <1>4, <1>5 DEF OpToRel
<1>7. k \in Turns /\ k \in 0 .. GroupCnt /\ \A m \in 1 .. k - 1 : m \in Turns /\ m < k
  BY <1>2 DEF Turns
<1>8. \A m \in 1 .. k - 1 : ~Has(m)
  BY <1>6, <1>7
<1>9. PICK i \in Bit : InOtherGroup(Turn(g0, k), i)
  OBVIOUS
<1>10. Turn(g0, k) \in Group
  BY <1>2, <1>7 DEF Turn, Turns, Group
<1>11. Found(goal, k, Turn(g0, k), i)
  BY <1>3, <1>7, <1>8, <1>9 DEF Found
<1> QED
  BY <1>7, <1>10, <1>11 DEF NoSpace

-----------------------------------------------------------------------------
(* The counters together.                                                  *)

\* The blocks of a group that are free are as many as its clear bits.
LEMMA GroupCount ==
  ASSUME IInv, NEW g \in Group
  PROVE  bg_free[g] = Cardinality({b \in free : Bgid(b) = g})
<1> DEFINE S == Bit \ Bits(g)
           T == {b \in free : Bgid(b) = g}
           f == [i \in S |-> Addr(i, g)]
<1>1. \A i \in S : f[i] \in T /\ Idx(f[i]) = i
  BY ClearIsFree DEF IInv
<1>2. \A b \in T : Idx(b) \in S /\ f[Idx(b)] = b
  BY BlockPlace DEF free
<1>3. f \in Bijection(S, T)
  <2>1. f \in [S -> T] /\ \A i, j \in S : f[i] = f[j] => i = j
    BY <1>1
  <2>2. \A b \in T : \E i \in S : f[i] = b
    BY <1>2
  <2> HIDE DEF f, S, T
  <2> QED
    BY <2>1, <2>2 DEF Bijection, Injection, Surjection, IsInjective
<1>4. IsFiniteSet(S)
  BY Finite
<1>5. Cardinality(T) = Cardinality(S)
  <2>1. ExistsBijection(S, T)
    BY <1>3 DEF ExistsBijection
  <2> HIDE DEF S, T
  <2> QED
    BY <1>4, <2>1, FS_Bijection
<1> QED
  BY <1>5 DEF IInv, GroupsCounted

LEMMA GroupsSum == IInv => sb_free = SumOf(bg_free, Group)
<1> SUFFICES ASSUME IInv PROVE sb_free = SumOf(bg_free, Group)
  OBVIOUS
<1> DEFINE h == [b \in free |-> Bgid(b)]
<1>1. h \in [free -> Group]
  BY BlockPlace DEF free
<1>2. IsFiniteSet(free) /\ IsFiniteSet(Group)
  BY Finite, GroupCntNat, FS_Interval DEF free, Group
<1>3. \A g \in Group : bg_free[g] = Cardinality({b \in free : h[b] = g})
  <2> SUFFICES ASSUME NEW g \in Group PROVE bg_free[g] = Cardinality({b \in free : h[b] = g})
    OBVIOUS
  <2>1. {b \in free : h[b] = g} = {b \in free : Bgid(b) = g}
    OBVIOUS
  <2> QED
    BY <2>1, GroupCount
<1>4. SumOf(bg_free, Group) = Cardinality(free)
  <2> HIDE DEF h
  <2> QED
    BY <1>1, <1>2, <1>3, SumCounts
<1> QED
  BY <1>4 DEF IInv

\* What is free and what the inodes are charged with is all there is.
Accounts == SumOf(ino_blocks, Ino) + sb_free = Cardinality(Block \ Meta)

LEMMA AccountsInit == Init => Accounts
<1> SUFFICES ASSUME Init PROVE Accounts
  OBVIOUS
<1> DEFINE h == [b \in {} |-> CHOOSE n \in Ino : TRUE]
<1>1. h \in [{} -> Ino] /\ IsFiniteSet({}) /\ Cardinality({}) = 0 /\ IsFiniteSet(Ino)
  BY FS_EmptySet, MetaAssumption
<1>2. \A n \in Ino : ino_blocks[n] = Cardinality({b \in {} : h[b] = n})
  <2> SUFFICES ASSUME NEW n \in Ino PROVE ino_blocks[n] = Cardinality({b \in {} : h[b] = n})
    OBVIOUS
  <2>1. {b \in {} : h[b] = n} = {}
    OBVIOUS
  <2> QED
    BY <1>1, <2>1 DEF Init
<1>3. SumOf(ino_blocks, Ino) = 0
  <2> HIDE DEF h
  <2> QED
    BY <1>1, <1>2, SumCounts
<1>4. sb_free = Cardinality(Block \ Meta) /\ sb_free \in Int
  BY InitIInv DEF Init, IInv, Typed
<1> QED
  BY <1>3, <1>4 DEF Accounts

\* What one inode's count gains the superblock's loses.
Moved(n, d) ==
    /\ ino_blocks' \in [Ino -> Int] /\ ino_blocks'[n] = ino_blocks[n] + d
    /\ \A m \in Ino \ {n} : ino_blocks'[m] = ino_blocks[m]
    /\ sb_free' = sb_free - d

LEMMA AccountsMove ==
  ASSUME IInv, Accounts, NEW n \in Ino, NEW d \in Int, Moved(n, d)
  PROVE  Accounts'
<1>1. ino_blocks \in [Ino -> Int] /\ IsFiniteSet(Ino) /\ sb_free \in Int
  BY MetaAssumption DEF IInv, Typed
<1>2. SumOf(ino_blocks, Ino) \in Int /\ SumOf(ino_blocks', Ino) = SumOf(ino_blocks, Ino) + d
  BY <1>1, SumChange DEF Moved
<1>3. SumOf(ino_blocks', Ino) + sb_free' = Cardinality(Block \ Meta)
  BY <1>1, <1>2 DEF Accounts, Moved
<1> QED
  BY <1>3 DEF Accounts

LEMMA AccountsNext == ASSUME IInv, Accounts, Next PROVE Accounts'
<1>1. ASSUME NEW gs, Prepare(gs) PROVE Accounts'
  BY <1>1 DEF Prepare, Accounts
<1>2. ASSUME NEW gs, NEW n \in Ino, NEW g, NEW i, Charge(n, g, i, gs) PROVE Accounts'
  <2>1. ino_blocks' = [ino_blocks EXCEPT ![n] = @ + 1] /\ sb_free' = sb_free - 1
    BY <1>2 DEF Charge
  <2>2. Moved(n, 1)
    BY <2>1 DEF Moved, IInv, Typed
  <2> QED
    BY <2>2, AccountsMove
<1>3. ASSUME NEW n \in Ino, NEW S \in SUBSET owner[n], NEW gs, NEW seen, GiveUp(n, S, gs, seen)
      PROVE  Accounts'
  <2> DEFINE c == Cardinality(Freed(S, gs))
             d == 0 - c
  <2>1. c \in Nat
    <3>1. Freed(S, gs) \in SUBSET Block
      BY DEF Freed, IInv, Typed
    <3> QED
      BY <3>1, Finite, FS_CardinalityType
  <2>2. ino_blocks' = [ino_blocks EXCEPT ![n] = @ - c] /\ sb_free' = sb_free + c
    BY <1>3 DEF GiveUp
  <2> HIDE DEF c
  <2>3. Moved(n, d) /\ d \in Int
    BY <2>1, <2>2 DEF IInv, Typed, Moved
  <2> HIDE DEF d
  <2> QED
    BY <2>3, AccountsMove
<1>4. ASSUME NEW n \in Ino, NEW goal \in 0 .. Total, AllocBlock(n, goal) PROVE Accounts'
  BY <1>2, <1>4 DEF AllocBlock
<1>5. ASSUME NEW goal \in 0 .. Total, AllocNoSpace(goal) \/ AllocFails(goal) PROVE Accounts'
  BY <1>1, <1>5 DEF AllocNoSpace, AllocFails
<1>6. ASSUME NEW n \in Ino, NEW b \in Block, TryAllocBlock(n, b) PROVE Accounts'
  BY <1>1, <1>2, <1>6 DEF TryAllocBlock
<1>7. ASSUME NEW n \in Ino, NEW b \in Block, FreeBlock(n, b) \/ FreeBlockFails(n, b) PROVE Accounts'
  <2>1. {b} \in SUBSET owner[n]
    BY <1>7 DEF FreeBlock, FreeBlockFails
  <2> QED
    BY <1>3, <1>7, <2>1 DEF FreeBlock, FreeBlockFails
<1>8. ASSUME NEW n \in Ino, NEW first \in Block, NEW last \in Block, FreeBlocks(n, first, last) PROVE Accounts'
  <2>1. first .. last \in SUBSET owner[n]
    BY <1>8 DEF FreeBlocks
  <2>2. PICK gs, seen : GiveUp(n, first .. last, gs, seen)
    BY <1>8 DEF FreeBlocks
  <2> QED
    BY <1>3, <2>1, <2>2
<1> QED
  BY <1>4, <1>5, <1>6, <1>7, <1>8 DEF Next

\* ext4_balloc.c writes three counts with every block, in three structures: the
\* group descriptors' always add up to the superblock's, and with what the
\* inodes are charged with they make up the volume, also after a release that
\* stopped half way.
THEOREM CountsAddUp == Spec => []TotalsAgree
<1>1. IInv /\ Accounts => TotalsAgree
  <2>1. TotalsAgree <=> /\ sb_free = SumOf(bg_free, Group)
                        /\ SumOf(ino_blocks, Ino) + sb_free = Cardinality(Block \ Meta)
    BY DEF TotalsAgree, SumOf
  <2> QED
    BY <2>1, GroupsSum DEF Accounts
<1>2. Init => Accounts
  BY AccountsInit
<1>3. IInv /\ Accounts /\ [Next]_vars => Accounts'
  <2>1. ASSUME Accounts, UNCHANGED vars PROVE Accounts'
    BY <2>1 DEF vars, Accounts
  <2> QED
    BY <2>1, AccountsNext
<1> QED
  BY <1>1, <1>2, <1>3, AllocInvariance, PTL DEF Spec

\* ext4_balloc_alloc_block answers ENOSPC only on a volume whose bitmaps are all
\* full, from every goal: the turns over the groups come back to the goal's own.
THEOREM NoSpaceMeansFull == Spec => []FullWhenNoSpace
BY NoSpaceIsFull, AllocInvariance, PTL
=============================================================================
