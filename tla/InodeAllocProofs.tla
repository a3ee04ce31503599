-------------------------- MODULE InodeAllocProofs --------------------------
(***************************************************************************)
(* Proofs about InodeAlloc, for every number of groups and inodes and any  *)
(* reserved inodes, with loss of power and volumes that are exchanged.     *)
(***************************************************************************)
EXTENDS InodeAlloc, FiniteSetTheorems, TLAPS

-----------------------------------------------------------------------------
(* Division with remainder by a constant: the provers' arithmetic is linear. *)

\* Division with remainder.
LEMMA DivMod ==
  ASSUME NEW a \in Nat, NEW w \in Nat \ {0}
  PROVE  /\ a \div w \in Nat /\ a % w \in 0 .. w - 1
         /\ a = w * (a \div w) + (a % w)
  OBVIOUS

\* A product grows with its second factor.
LEMMA MulMono ==
  ASSUME NEW w \in Nat \ {0}, NEW p \in Int, NEW q \in Int, p + 1 <= q
  PROVE  w * p + w <= w * q /\ w * p \in Int /\ w * q \in Int
<1>1. PICK d \in Nat : q = p + 1 + d
  <2>1. q - p - 1 \in Nat
    OBVIOUS
  <2> QED
    BY <2>1
<1>2. w * q = w * p + w + w * d
  BY <1>1
<1>3. w * d >= 0
  OBVIOUS
<1> QED
  BY <1>2, <1>3

\* Quotient and remainder are the only ones.
LEMMA DivUnique ==
  ASSUME NEW w \in Nat \ {0}, NEW q \in Nat, NEW r \in 0 .. w - 1
  PROVE  w * q + r \in Nat /\ (w * q + r) \div w = q /\ (w * q + r) % w = r
<1> DEFINE a == w * q + r
           p == a \div w
           t == a % w
<1>1. a \in Nat
  OBVIOUS
<1> HIDE DEF a
<1>2. p \in Nat /\ t \in 0 .. w - 1 /\ a = w * p + t
  BY <1>1, DivMod
<1> HIDE DEF p, t
<1>3. a = w * q + r /\ w * p \in Int /\ w * q \in Int
  BY <1>2 DEF a
<1>4. ~(p + 1 <= q)
  <2> SUFFICES ASSUME p + 1 <= q PROVE FALSE
    OBVIOUS
  <2>1. w * p + w <= w * q
    BY <1>2, MulMono
  <2> QED
    BY <2>1, <1>2, <1>3
<1>5. ~(q + 1 <= p)
  <2> SUFFICES ASSUME q + 1 <= p PROVE FALSE
    OBVIOUS
  <2>1. w * q + w <= w * p
    BY <1>2, MulMono
  <2> QED
    BY <2>1, <1>2, <1>3
<1>6. p = q
  BY <1>2, <1>4, <1>5
<1>7. t = r
  BY <1>2, <1>3, <1>6
<1> QED
  BY <1>1, <1>6, <1>7 DEF a, p, t

-----------------------------------------------------------------------------
(* Numbers and sets of inodes.                                             *)

\* The largest volume has a whole number of groups.
LEMMA Largest ==
  Max(Sizes) \in Nat \ {0} /\ \A s \in Sizes : s <= Max(Sizes)
<1>1. PICK m \in Sizes : \A s \in Sizes : s <= m
  BY InodeGeometry
<1>2. \A s \in Sizes : m >= s
  BY <1>1, InodeGeometry
<1>3. Max(Sizes) \in Sizes /\ \A s \in Sizes : Max(Sizes) >= s
  BY <1>2 DEF Max
<1> QED
  BY <1>3, InodeGeometry

\* The groups of a mounted volume are groups.
LEMMA GroupsOf ==
  ASSUME NEW s \in Sizes
  PROVE  s \in Nat \ {0} /\ 0 .. s - 1 \subseteq Group /\ 0 \in 0 .. s - 1
BY Largest, InodeGeometry DEF Group

\* A group and a bit make an inode number that gives them back.
LEMMA NumberPlace ==
  ASSUME NEW g \in Group, NEW i \in Bit
  PROVE  /\ Number(i, g) \in Inode
         /\ Bgid(Number(i, g)) = g /\ Idx(Number(i, g)) = i
<1> DEFINE M == Max(Sizes)
           a == IPG * g + i
<1>1. M \in Nat \ {0} /\ g \in Nat /\ g + 1 <= M /\ IPG \in Nat \ {0} /\ i \in 0 .. IPG - 1
  BY Largest, InodeGeometry DEF Group, Bit
<1>2. a \in Nat /\ a \div IPG = g /\ a % IPG = i
  BY <1>1, DivUnique
<1>3. IPG * g + IPG <= IPG * M /\ IPG * g \in Int /\ IPG * M \in Int
  BY <1>1, MulMono
<1>4. Number(i, g) = a + 1 /\ M * IPG = IPG * M
  BY <1>1 DEF Number
<1>5. a + 1 <= IPG * M
  BY <1>1, <1>3
<1> HIDE DEF a, M
<1>6. Number(i, g) - 1 = a
  BY <1>2, <1>4
<1>7. Number(i, g) \in Inode
  BY <1>2, <1>3, <1>4, <1>5 DEF Inode, M
<1> QED
  BY <1>2, <1>6, <1>7 DEF Bgid, Idx

\* Every inode number has a group and a bit, and they make it.
LEMMA InodePlace ==
  ASSUME NEW ino \in Inode
  PROVE  Bgid(ino) \in Group /\ Idx(ino) \in Bit /\ Number(Idx(ino), Bgid(ino)) = ino
<1> DEFINE M == Max(Sizes)
           a == ino - 1
           q == a \div IPG
           r == a % IPG
<1>1. M \in Nat \ {0} /\ IPG \in Nat \ {0} /\ M * IPG = IPG * M /\ IPG * M \in Int
  BY Largest, InodeGeometry
<1>2. a \in Nat /\ a < IPG * M /\ ino = a + 1
  BY <1>1 DEF Inode
<1>3. Bgid(ino) = q /\ Idx(ino) = r
  BY DEF Bgid, Idx
<1> HIDE DEF a
<1>4. q \in Nat /\ r \in 0 .. IPG - 1 /\ a = IPG * q + r
  BY <1>1, <1>2, DivMod
<1> HIDE DEF q, r, M
<1>5. IPG * q \in Int /\ Number(r, q) = a + 1
  BY <1>1, <1>4 DEF Number
<1>6. q < M
  <2>1. q # M
    BY <1>1, <1>2, <1>4
  <2>2. ~(M + 1 <= q)
    <3> SUFFICES ASSUME M + 1 <= q PROVE FALSE
      OBVIOUS
    <3>1. IPG * M + IPG <= IPG * q
      BY <1>1, <1>4, MulMono
    <3> QED
      BY <3>1, <1>1, <1>2, <1>4, <1>5
  <2> QED
    BY <2>1, <2>2, <1>1, <1>4
<1> QED
  BY <1>1, <1>2, <1>3, <1>4, <1>5, <1>6 DEF Group, Bit, M

\* Sets of bits are finite; the largest is the only one of its size.
LEMMA BitSets ==
  /\ IsFiniteSet(Bit) /\ Cardinality(Bit) = IPG
  /\ \A S \in SUBSET Bit : /\ IsFiniteSet(S) /\ Cardinality(S) \in 0 .. IPG
                           /\ Cardinality(S) = IPG => S = Bit
<1>1. IsFiniteSet(Bit) /\ Cardinality(Bit) = IPG
  BY InodeGeometry, FS_Interval DEF Bit
<1>2. ASSUME NEW S \in SUBSET Bit
      PROVE  /\ IsFiniteSet(S) /\ Cardinality(S) \in 0 .. IPG
             /\ Cardinality(S) = IPG => S = Bit
  <2>1. IsFiniteSet(S) /\ Cardinality(S) <= IPG /\ (Cardinality(S) = IPG => S = Bit)
    BY <1>1, FS_Subset
  <2> QED
    BY <2>1, FS_CardinalityType, InodeGeometry
<1> QED
  BY <1>1, <1>2

\* The reserved inodes are the first of group 0.
LEMMA ReservedFirst ==
  /\ Reserved \in SUBSET Bit /\ IsFiniteSet(Reserved) /\ Cardinality(Reserved) \in 0 .. IPG
  /\ \A i \in Reserved : i < Cardinality(Reserved)
<1>1. PICK r \in 0 .. IPG : Reserved = 0 .. r - 1
  BY InodeGeometry
<1>2. r \in Int /\ r >= 0 /\ r <= IPG /\ IPG \in Int
  BY InodeGeometry
<1>3. Cardinality(0 .. r - 1) = r
  BY <1>2, FS_Interval
<1>4. Reserved \in SUBSET Bit
  BY <1>1, <1>2 DEF Bit
<1> QED
  BY <1>1, <1>2, <1>3, <1>4, BitSets

\* What a new volume counts as free: all but the reserved inodes of group 0.
Usable(s) == ((0 .. s - 1) \X Bit) \ ({0} \X Reserved)
LEMMA NewVolume ==
  ASSUME NEW s \in Sizes
  PROVE  /\ NewFree(s) \in Int /\ IsFiniteSet(Usable(s))
         /\ Cardinality(Usable(s)) = NewFree(s)
         /\ \A F \in SUBSET Usable(s) : IsFiniteSet(F) /\ Cardinality(F) <= NewFree(s)
<1> DEFINE A == (0 .. s - 1) \X Bit
           R == {0} \X Reserved
<1>1. s \in Nat \ {0} /\ IPG \in Nat \ {0} /\ Reserved \in SUBSET Bit
  BY InodeGeometry, ReservedFirst
<1>2. IsFiniteSet(0 .. s - 1) /\ Cardinality(0 .. s - 1) = s
  BY <1>1, FS_Interval
<1>3. IsFiniteSet(A) /\ Cardinality(A) = s * IPG
  BY <1>2, BitSets, FS_Product
<1>4. IsFiniteSet(Reserved) /\ Cardinality(Reserved) \in Nat
  BY ReservedFirst, FS_CardinalityType
<1>5. IsFiniteSet({0}) /\ Cardinality({0}) = 1
  BY FS_Singleton
<1>6. IsFiniteSet(R) /\ Cardinality(R) = Cardinality(Reserved)
  BY <1>4, <1>5, FS_Product
<1>7. A \cap R = R
  <2>1. 0 \in 0 .. s - 1
    BY <1>1
  <2> QED
    BY <1>1, <2>1
<1>8. IsFiniteSet(A \ R) /\ Cardinality(A \ R) = Cardinality(A) - Cardinality(A \cap R)
  BY <1>3, FS_Difference
<1>9. s * IPG \in Int
  BY <1>1
<1>10. IsFiniteSet(Usable(s)) /\ Cardinality(Usable(s)) = NewFree(s) /\ NewFree(s) \in Int
  <2>1. Cardinality(A \ R) = s * IPG - Cardinality(Reserved)
    BY <1>3, <1>6, <1>7, <1>8
  <2>2. Usable(s) = A \ R
    BY DEF Usable
  <2>3. NewFree(s) = s * IPG - Cardinality(Reserved)
    BY DEF NewFree
  <2>4. NewFree(s) \in Int
    BY <2>3, <1>4, <1>9
  <2> QED
    BY <1>8, <2>1, <2>2, <2>3, <2>4
<1> QED
  BY <1>10, FS_Subset

-----------------------------------------------------------------------------
(* The inductive invariant.                                                *)

\* A bitmap and descriptors, in memory or on the device: group 0 was written
\* when the volume was made, and a descriptor has room for its counters.
Fields == [free : 0 .. IPG, dirs : 0 .. IPG, unused : 0 .. IPG, uninit : BOOLEAN]
Kept(b, d) ==
    /\ b \in [Group -> SUBSET Bit] /\ Reserved \subseteq b[0]
    /\ d \in [Group -> Fields] /\ ~d[0].uninit
    /\ \A g \in Group : d[g].free + d[g].dirs <= IPG

\* The superblock never counts less than is clear, even after a loss of power:
\* the device has the count of the new volume.
Typed ==
    /\ groups \in Sizes
    /\ Kept(ibitmap, desc)
    /\ disk = [ibitmap |-> disk.ibitmap, desc |-> disk.desc, sb_free |-> NewFree(groups)]
    /\ Kept(disk.ibitmap, disk.desc)
    /\ sb_free \in Int /\ Cardinality(Clear) <= sb_free
    /\ last_bg \in Group
    /\ search \in [bgid : Nat, cnt : Nat, rewind : BOOLEAN, is_dir : BOOLEAN, on : BOOLEAN]
    /\ result \in {"none", "inode", "ENOSPC", "EIO"}
    /\ live \in [Inode -> {"none", "file", "dir"}]
    /\ crashed \in BOOLEAN /\ swapped \in BOOLEAN

LiveInside == \A ino \in Inode : live[ino] # "none" => Bgid(ino) < groups

\* The groups a search has left behind, which had no inode to give.
Passed(g) ==
    IF search.rewind THEN g < search.bgid \/ last_bg <= g
                     ELSE last_bg <= g /\ g < search.bgid
SearchOrder ==
    search.on =>
        /\ result # "ENOSPC"
        /\ search.rewind => search.cnt = last_bg /\ last_bg <= groups
        /\ ~search.rewind => search.cnt = groups /\ last_bg <= search.bgid
        /\ ~swapped => search.bgid <= search.cnt
        /\ ~swapped /\ ~crashed => \A g \in 0 .. groups - 1 : Passed(g) => Bits(g) = Bit
LastInside == ~swapped => last_bg < groups

IInv == Typed /\ LiveInside /\ Counted /\ SearchOrder /\ LastInside /\ NoSpaceMeansFull

\* The clear bits of a volume are among the usable ones, so they are finite.
LEMMA ClearUsable ==
  ASSUME Typed
  PROVE  /\ Clear \in SUBSET Usable(groups)
         /\ IsFiniteSet(Clear) /\ Cardinality(Clear) \in Nat
<1>1. 0 \in Group /\ Bits(0) = ibitmap[0] /\ Reserved \subseteq ibitmap[0]
  BY GroupsOf DEF Typed, Kept, Bits
<1>2. Clear \in SUBSET Usable(groups)
  BY <1>1 DEF Clear, Usable
<1> QED
  BY <1>2, NewVolume, FS_Subset, FS_CardinalityType DEF Typed

\* A bitmap can be read whether it was ever written or not.
LEMMA BitsInBit ==
  ASSUME Typed, NEW g \in Group
  PROVE  Bits(g) \in SUBSET Bit
BY DEF Typed, Kept, Bits

\* The search looks at groups of the volume only.
LEMMA InVolume ==
  ASSUME Typed, SearchOrder, InLoop
  PROVE  search.bgid \in 0 .. groups - 1 /\ search.bgid \in Group
<1>1. groups \in Nat /\ 0 .. groups - 1 \subseteq Group
  BY GroupsOf DEF Typed
<1>2. search.bgid \in Nat /\ search.cnt \in Nat /\ search.rewind \in BOOLEAN
  BY DEF Typed
<1>3. last_bg \in Nat
  BY Largest DEF Typed, Group
<1>4. search.bgid < groups
  BY <1>1, <1>2, <1>3 DEF SearchOrder, InLoop
<1> QED
  BY <1>1, <1>2, <1>4

\* Making a bitmap and its descriptor ready changes nothing that is read.
LEMMA LoadReady ==
  ASSUME Kept(ibitmap, desc), NEW g \in Group,
         Load(g, Bits(g)), desc' = [desc EXCEPT ![g] = Ready(@)]
  PROVE  /\ Kept(ibitmap', desc')
         /\ \A h \in Group : /\ Bits(h)' = Bits(h)
                             /\ desc'[h].free = desc[h].free
                             /\ desc'[h].dirs = desc[h].dirs
                             /\ desc'[h].unused = desc[h].unused
<1>1. \A h \in Group : desc[h] \in Fields
  BY DEF Kept
<1>2. /\ \A h \in Group : desc'[h] = IF h = g THEN Ready(desc[h]) ELSE desc[h]
      /\ DOMAIN desc' = Group
  BY DEF Kept
<1>3. \A h \in Group : /\ desc'[h] \in Fields
                       /\ desc'[h].free = desc[h].free
                       /\ desc'[h].dirs = desc[h].dirs
                       /\ desc'[h].unused = desc[h].unused
                       /\ desc'[h].uninit = IF h = g THEN FALSE ELSE desc[h].uninit
  BY <1>1, <1>2 DEF Ready, Fields
<1>4. ibitmap' \in [Group -> SUBSET Bit]
      /\ \A h \in Group : ibitmap'[h] = IF h = g THEN Bits(g) ELSE ibitmap[h]
  BY DEF Kept, Load, Bits
<1>5. \A h \in Group : Bits(h)' = Bits(h)
  BY <1>3, <1>4 DEF Bits
<1>6. Reserved \subseteq ibitmap'[0]
  <2>1. 0 \in Group
    BY Largest DEF Group
  <2>2. Bits(0) = ibitmap[0]
    BY DEF Kept, Bits
  <2> QED
    BY <2>1, <2>2, <1>4 DEF Kept
<1>7. desc' \in [Group -> Fields]
  <2>1. desc' = [h \in Group |-> desc'[h]]
    BY DEF Kept
  <2> QED
    BY <2>1, <1>3
<1>8. ~desc'[0].uninit
  <2>1. 0 \in Group
    BY Largest DEF Group
  <2> QED
    BY <2>1, <1>3 DEF Kept
<1>9. \A h \in Group : desc'[h].free + desc'[h].dirs <= IPG
  BY <1>3 DEF Kept
<1> QED
  BY <1>3, <1>4, <1>5, <1>6, <1>7, <1>8, <1>9 DEF Kept

\* What follows for the counters when nothing that is read has changed.
LEMMA Unread ==
  ASSUME Typed, LiveInside, Counted,
         UNCHANGED <<groups, live, sb_free, crashed>>,
         \A h \in Group : /\ Bits(h)' = Bits(h)
                          /\ desc'[h].free = desc[h].free
                          /\ desc'[h].dirs = desc[h].dirs
                          /\ desc'[h].unused = desc[h].unused
  PROVE  LiveInside' /\ Counted' /\ Clear' = Clear /\ (Full' <=> Full)
<1>1. 0 .. groups - 1 \subseteq Group
  BY GroupsOf DEF Typed
<1>2. Clear' = Clear
  BY <1>1 DEF Clear
<1>3. \A h : \A K : InodesOf(h, K)' = InodesOf(h, K)
  BY DEF InodesOf
<1>4. Counted'
  <2> SUFFICES ASSUME ~crashed
               PROVE  Counted'
    BY DEF Counted
  <2> QED
    BY <1>1, <1>2, <1>3 DEF Counted
<1>5. Full' <=> Full
  BY <1>1 DEF Full
<1> QED
  BY <1>2, <1>4, <1>5 DEF LiveInside

\* An inode number that is handed out or given back changes one bit of one set.
LEMMA Relive ==
  ASSUME NEW g \in Group, NEW i \in Bit, NEW k \in {"none", "file", "dir"},
         live \in [Inode -> {"none", "file", "dir"}], live' = [live EXCEPT ![Number(i, g)] = k]
  PROVE  /\ \A h \in Group : h # g => /\ InodesOf(h, {"file", "dir"})' = InodesOf(h, {"file", "dir"})
                                      /\ InodesOf(h, {"dir"})' = InodesOf(h, {"dir"})
         /\ InodesOf(g, {"file", "dir"})' =
              IF k = "none" THEN InodesOf(g, {"file", "dir"}) \ {i} ELSE InodesOf(g, {"file", "dir"}) \cup {i}
         /\ InodesOf(g, {"dir"})' =
              IF k = "dir" THEN InodesOf(g, {"dir"}) \cup {i} ELSE InodesOf(g, {"dir"}) \ {i}
<1> DEFINE All == {"file", "dir"}
<1>1. \A h \in Group, j \in Bit :
        live'[Number(j, h)] = IF h = g /\ j = i THEN k ELSE live[Number(j, h)]
  BY NumberPlace
<1>2. ASSUME NEW h \in Group, h # g
      PROVE  InodesOf(h, All)' = InodesOf(h, All) /\ InodesOf(h, {"dir"})' = InodesOf(h, {"dir"})
  BY <1>1, <1>2 DEF InodesOf
<1>3. live'[Number(i, g)] = k /\ \A j \in Bit : j # i => live'[Number(j, g)] = live[Number(j, g)]
  BY <1>1
<1>4. InodesOf(g, All)' = IF k = "none" THEN InodesOf(g, All) \ {i} ELSE InodesOf(g, All) \cup {i}
  <2>1. \A j \in Bit : j \in InodesOf(g, All)' <=> IF j = i THEN k # "none" ELSE j \in InodesOf(g, All)
    BY <1>3 DEF InodesOf
  <2>2. InodesOf(g, All)' \subseteq Bit /\ InodesOf(g, All) \subseteq Bit
    BY DEF InodesOf
  <2> QED
    BY <2>1, <2>2
<1>5. InodesOf(g, {"dir"})' = IF k = "dir" THEN InodesOf(g, {"dir"}) \cup {i} ELSE InodesOf(g, {"dir"}) \ {i}
  <2>1. \A j \in Bit : j \in InodesOf(g, {"dir"})' <=> IF j = i THEN k = "dir" ELSE j \in InodesOf(g, {"dir"})
    BY <1>3 DEF InodesOf
  <2>2. InodesOf(g, {"dir"})' \subseteq Bit /\ InodesOf(g, {"dir"}) \subseteq Bit
    BY DEF InodesOf
  <2> QED
    BY <2>1, <2>2
<1> QED
  BY <1>2, <1>4, <1>5

-----------------------------------------------------------------------------
(* Every step keeps it.                                                    *)

\* What a volume just made, or mounted, has.
LEMMA Fresh ==
  ASSUME NEW s \in Sizes
  PROVE  Kept(NewBitmap, NewDesc) /\ NewFree(s) \in Int
<1>1. Cardinality(Reserved) \in 0 .. IPG /\ Reserved \in SUBSET Bit /\ IPG \in Nat \ {0}
  BY ReservedFirst, InodeGeometry
<1>2. 0 \in Group
  BY Largest DEF Group
<1>3. NewBitmap \in [Group -> SUBSET Bit] /\ Reserved \subseteq NewBitmap[0]
  BY <1>1, <1>2 DEF NewBitmap
<1> DEFINE R == Cardinality(Reserved)
<1> HIDE DEF R
<1>4. IPG - R \in 0 .. IPG /\ IPG \in 0 .. IPG /\ 0 \in 0 .. IPG
  BY <1>1 DEF R
<1>5. \A g \in Group : /\ NewDesc[g] \in Fields
                       /\ NewDesc[g].free + NewDesc[g].dirs <= IPG
                       /\ g = 0 => ~NewDesc[g].uninit
  <2> SUFFICES ASSUME NEW g \in Group
               PROVE  /\ NewDesc[g] \in Fields
                      /\ NewDesc[g].free + NewDesc[g].dirs <= IPG
                      /\ g = 0 => ~NewDesc[g].uninit
    OBVIOUS
  <2>1. CASE g = 0
    <3>1. NewDesc[g] = [free |-> IPG - R, dirs |-> 0, unused |-> IPG - R, uninit |-> FALSE]
      BY <2>1 DEF NewDesc, R
    <3> QED
      BY <3>1, <1>4 DEF Fields
  <2>2. CASE g # 0
    <3>1. NewDesc[g] = [free |-> IPG, dirs |-> 0, unused |-> IPG, uninit |-> TRUE]
      BY <2>2 DEF NewDesc
    <3> QED
      BY <3>1, <2>2, <1>4 DEF Fields
  <2> QED
    BY <2>1, <2>2
<1>6. NewDesc \in [Group -> Fields]
  BY <1>5 DEF NewDesc
<1> QED
  BY <1>2, <1>3, <1>5, <1>6, NewVolume DEF Kept

Unused ==
    /\ groups \in Sizes
    /\ ibitmap = NewBitmap /\ desc = NewDesc /\ sb_free = NewFree(groups)
    /\ live = [ino \in Inode |-> "none"]
LEMMA UnusedCounted ==
  Unused => Counted /\ Cardinality(Clear) = sb_free
<1> SUFFICES ASSUME Unused
             PROVE  Counted /\ Cardinality(Clear) = sb_free
  OBVIOUS
<1>1. /\ 0 .. groups - 1 \subseteq Group /\ 0 \in Group /\ Reserved \in SUBSET Bit
      /\ IPG \in Nat \ {0} /\ \A h \in Group : h \in Nat
  BY GroupsOf, InodeGeometry, Largest, ReservedFirst DEF Unused, Group
<1>2. \A h \in Group : Bits(h) = IF h = 0 THEN Reserved ELSE {}
  BY <1>1 DEF Unused, Bits, NewBitmap, NewDesc
<1>3. Clear = Usable(groups)
  BY <1>1, <1>2 DEF Clear, Usable
<1>4. \A h \in Group : \A K : "none" \notin K => InodesOf(h, K) = {}
  BY NumberPlace DEF Unused, InodesOf
<1>5. Cardinality({}) = 0 /\ Cardinality(Reserved) \in 0 .. IPG
  BY ReservedFirst, FS_EmptySet
<1>6. ASSUME NEW g \in 0 .. groups - 1
      PROVE  LET held == IF g = 0 THEN Reserved ELSE {}
             IN  /\ Bits(g) = InodesOf(g, {"file", "dir"}) \cup held
                 /\ held \cap InodesOf(g, {"file", "dir"}) = {}
                 /\ desc[g].free = IPG - Cardinality(Bits(g))
                 /\ \A i \in Bits(g) : i < IPG - desc[g].unused
                 /\ desc[g].dirs = Cardinality(InodesOf(g, {"dir"}))
  <2>1. g \in Group /\ InodesOf(g, {"file", "dir"}) = {} /\ InodesOf(g, {"dir"}) = {}
    BY <1>1, <1>4
  <2>2. desc[g] = NewDesc[g]
    BY DEF Unused
  <2>3. CASE g = 0
    <3>1. /\ desc[g].free = IPG - Cardinality(Reserved) /\ desc[g].dirs = 0
          /\ desc[g].unused = IPG - Cardinality(Reserved)
      BY <2>1, <2>2, <2>3 DEF NewDesc
    <3>2. Bits(g) = Reserved
      BY <1>2, <2>1, <2>3
    <3>3. IPG - desc[g].unused = Cardinality(Reserved)
      BY <3>1, <1>1, <1>5
    <3>4. \A i \in Bits(g) : i < IPG - desc[g].unused
      BY <3>2, <3>3, ReservedFirst
    <3> QED
      BY <1>5, <2>1, <2>3, <3>1, <3>2, <3>4
  <2>4. CASE g # 0
    <3>1. desc[g].free = IPG /\ desc[g].dirs = 0
      BY <2>1, <2>2, <2>4 DEF NewDesc
    <3>2. Bits(g) = {}
      BY <1>2, <2>1, <2>4
    <3>3. desc[g].free = IPG - Cardinality(Bits(g))
      BY <3>1, <3>2, <1>1, <1>5
    <3> QED
      BY <1>5, <2>1, <2>4, <3>1, <3>2, <3>3
  <2> QED
    BY <2>3, <2>4
<1> QED
  BY <1>3, <1>6, NewVolume DEF Counted, Unused

LEMMA InitIInv ==
  ASSUME Init
  PROVE  IInv
<1>1. Unused
  BY DEF Init, Unused
<1>2. Counted /\ Cardinality(Clear) = sb_free
  BY <1>1, UnusedCounted
<1>3. Kept(ibitmap, desc) /\ sb_free \in Int
  BY <1>1, Fresh DEF Unused
<1>4. groups \in Nat \ {0} /\ 0 \in Group
  BY <1>1, GroupsOf DEF Unused
<1>5. disk = [ibitmap |-> disk.ibitmap, desc |-> disk.desc, sb_free |-> NewFree(groups)]
      /\ Kept(disk.ibitmap, disk.desc)
  BY <1>3 DEF Init
<1>6. search = Idle /\ last_bg = 0 /\ result = "none" /\ crashed = FALSE /\ swapped = FALSE
  BY DEF Init
<1>7. search \in [bgid : Nat, cnt : Nat, rewind : BOOLEAN, is_dir : BOOLEAN, on : BOOLEAN]
      /\ ~search.on
  BY <1>6 DEF Idle
<1>8. live \in [Inode -> {"none", "file", "dir"}] /\ \A ino \in Inode : live[ino] = "none"
  BY <1>1 DEF Unused
<1>9. Cardinality(Clear) <= sb_free
  BY <1>2, <1>3
<1>10. Typed
  BY <1>1, <1>3, <1>4, <1>5, <1>6, <1>7, <1>8, <1>9 DEF Unused, Typed
<1> QED
  BY <1>2, <1>4, <1>6, <1>7, <1>8, <1>10
  DEF IInv, LiveInside, SearchOrder, LastInside, NoSpaceMeansFull

\* A search that begins, and goes on from the first group or ends without one:
\* nothing but its locals change.
LEMMA SearchLocals ==
  ASSUME IInv, (\E d \in BOOLEAN : AllocStart(d)) \/ Rewind \/ NoSpace
  PROVE  IInv'
<1>1. groups \in Nat \ {0} /\ 0 .. groups - 1 \subseteq Group /\ last_bg \in Nat
  BY GroupsOf, Largest DEF IInv, Typed, Group
<1>2. UNCHANGED <<groups, ibitmap, desc, sb_free, disk, last_bg, live, crashed, swapped>>
  BY DEF AllocStart, Rewind, NoSpace, volume
<1>3. LiveInside' /\ Counted' /\ Clear' = Clear /\ (Full' <=> Full)
  BY <1>2, Unread DEF IInv, Bits
<1>4. LastInside'
  BY <1>2 DEF IInv, LastInside
<1>5. \A g : Bits(g)' = Bits(g)
  BY <1>2 DEF Bits
<1>6. ASSUME search' \in [bgid : Nat, cnt : Nat, rewind : BOOLEAN, is_dir : BOOLEAN, on : BOOLEAN],
             result' \in {"none", "inode", "ENOSPC", "EIO"}
      PROVE  Typed'
  BY <1>2, <1>3, <1>6 DEF IInv, Typed
<1>7. ASSUME NEW d \in BOOLEAN, AllocStart(d)
      PROVE  IInv'
  <2>1. search' = [bgid |-> last_bg, cnt |-> groups, rewind |-> FALSE, is_dir |-> d, on |-> TRUE]
        /\ result' = "none"
    BY <1>7 DEF AllocStart
  <2>2. Typed'
    BY <2>1, <1>1, <1>6
  <2>3. SearchOrder'
    <3>1. ~swapped => last_bg <= groups
      BY <1>1 DEF IInv, LastInside
    <3>2. \A g \in 0 .. groups - 1 : ~Passed(g)'
      BY <2>1, <1>1, <1>2 DEF Passed
    <3> QED
      BY <2>1, <3>1, <3>2, <1>1, <1>2 DEF SearchOrder
  <2> QED
    BY <1>3, <1>4, <2>1, <2>2, <2>3 DEF IInv, NoSpaceMeansFull
<1>8. CASE Rewind
  <2>1. /\ search' = [search EXCEPT !.bgid = 0, !.cnt = last_bg, !.rewind = TRUE]
        /\ result' = result /\ search.on /\ search.bgid = search.cnt /\ ~search.rewind
    BY <1>8 DEF Rewind, Rewound
  <2>2. search \in [bgid : Nat, cnt : Nat, rewind : BOOLEAN, is_dir : BOOLEAN, on : BOOLEAN]
    BY DEF IInv, Typed
  <2>3. /\ search'.bgid = 0 /\ search'.cnt = last_bg /\ search'.rewind = TRUE /\ search'.on = search.on
        /\ search' \in [bgid : Nat, cnt : Nat, rewind : BOOLEAN, is_dir : BOOLEAN, on : BOOLEAN]
    BY <2>1, <2>2, <1>1
  <2>4. Typed'
    BY <2>1, <2>3, <1>6 DEF IInv, Typed
  <2>5. search.cnt = groups /\ last_bg <= groups /\ search.bgid = groups
    BY <2>1, <1>1 DEF IInv, SearchOrder
  <2>6. \A g \in 0 .. groups - 1 : Passed(g)' => Passed(g)
    BY <2>1, <2>3, <2>5, <1>1, <1>2 DEF Passed
  <2>7. SearchOrder'
    BY <2>1, <2>3, <2>5, <2>6, <1>1, <1>2, <1>5 DEF IInv, SearchOrder
  <2> QED
    BY <1>2, <1>3, <1>4, <2>1, <2>4, <2>7 DEF IInv, NoSpaceMeansFull
<1>9. CASE NoSpace
  <2>1. search' = Idle /\ ~search'.on /\ search.on
    BY <1>9 DEF NoSpace, Idle
  <2>2. Typed'
    <3>1. search' \in [bgid : Nat, cnt : Nat, rewind : BOOLEAN, is_dir : BOOLEAN, on : BOOLEAN]
      BY <2>1 DEF Idle
    <3> QED
      BY <3>1, <1>6, <1>9 DEF NoSpace
  <2>3. SearchOrder'
    BY <2>1 DEF SearchOrder
  <2>4. ASSUME ~crashed, ~swapped
        PROVE  Full
    <3>1. search.bgid \in Nat /\ search.cnt \in Nat
      BY DEF IInv, Typed
    <3>2. search.bgid <= search.cnt
      BY <2>1, <2>4 DEF IInv, SearchOrder
    <3>3. search.rewind /\ search.bgid = search.cnt
      BY <1>9, <3>1, <3>2 DEF NoSpace
    <3>4. search.bgid = last_bg
      BY <2>1, <3>3 DEF IInv, SearchOrder
    <3>5. \A g \in 0 .. groups - 1 : Passed(g)
      BY <1>1, <3>3, <3>4 DEF Passed
    <3> QED
      BY <2>1, <2>4, <3>5 DEF IInv, SearchOrder, Full
  <2> QED
    BY <1>2, <1>3, <1>4, <2>2, <2>3, <2>4 DEF IInv, NoSpaceMeansFull
<1> QED
  BY <1>7, <1>8, <1>9

\* A group that is passed had no clear bit; a failed read ends the search.
LEMMA SearchReads ==
  ASSUME IInv, SkipGroup \/ ReadFails
  PROVE  IInv'
<1> DEFINE g == search.bgid
           S == [bgid : Nat, cnt : Nat, rewind : BOOLEAN, is_dir : BOOLEAN, on : BOOLEAN]
<1>1. groups \in Nat \ {0} /\ 0 .. groups - 1 \subseteq Group /\ last_bg \in Nat
  BY GroupsOf, Largest DEF IInv, Typed, Group
<1>2. UNCHANGED <<groups, sb_free, disk, last_bg, live, crashed, swapped>> /\ InLoop
  BY DEF SkipGroup, ReadFails
<1>3. g \in 0 .. groups - 1 /\ g \in Group
  BY <1>2, InVolume DEF IInv
<1>4. /\ Kept(ibitmap', desc')
      /\ \A h \in Group : /\ Bits(h)' = Bits(h)
                          /\ desc'[h].free = desc[h].free
                          /\ desc'[h].dirs = desc[h].dirs
                          /\ desc'[h].unused = desc[h].unused
  <2>1. CASE Load(g, Bits(g)) /\ desc' = [desc EXCEPT ![g] = Ready(@)]
    BY <2>1, <1>3, LoadReady DEF IInv, Typed
  <2>2. CASE UNCHANGED <<ibitmap, desc>>
    BY <2>2 DEF Bits, IInv, Typed
  <2> QED
    BY <2>1, <2>2 DEF SkipGroup, ReadFails
<1>5. LiveInside' /\ Counted' /\ Clear' = Clear /\ (Full' <=> Full)
  BY <1>2, <1>4, Unread DEF IInv
<1>6. LastInside'
  BY <1>2 DEF IInv, LastInside
<1>7. search \in S /\ search.on
  BY <1>2 DEF IInv, Typed, InLoop
<1>8. ASSUME search' \in S, result' \in {"none", "inode", "ENOSPC", "EIO"}
      PROVE  Typed'
  BY <1>2, <1>4, <1>5, <1>8 DEF IInv, Typed
<1>9. CASE SkipGroup
  <2>1. desc[g].free = 0 /\ search' = [search EXCEPT !.bgid = g + 1] /\ result' = result
    BY <1>9 DEF SkipGroup, NextGroup
  <2>2. /\ search'.bgid = g + 1 /\ search'.cnt = search.cnt /\ search'.rewind = search.rewind
        /\ search'.on /\ search' \in S
    BY <2>1, <1>3, <1>7
  <2>3. Typed'
    BY <2>1, <2>2, <1>8 DEF IInv, Typed
  <2>4. ASSUME ~crashed
        PROVE  Bits(g) = Bit
    <3>1. 0 = IPG - Cardinality(Bits(g))
      BY <2>1, <2>4, <1>3 DEF IInv, Counted
    <3>2. Bits(g) \in SUBSET Bit
      BY <1>3, BitsInBit DEF IInv
    <3>3. Cardinality(Bits(g)) \in 0 .. IPG /\ IPG \in Nat
      BY <3>2, BitSets, InodeGeometry
    <3> QED
      BY <3>1, <3>2, <3>3, BitSets
  <2>5. \A h \in 0 .. groups - 1 : Passed(h)' => Passed(h) \/ h = g
    BY <2>2, <1>1, <1>2, <1>3 DEF Passed
  <2>6. g + 1 <= search.cnt /\ search.cnt \in Nat
    BY <1>2, <1>3, <1>7 DEF InLoop
  <2>7. SearchOrder'
    <3>1. /\ search.rewind => search.cnt = last_bg /\ last_bg <= groups
          /\ ~search.rewind => search.cnt = groups /\ last_bg <= g
          /\ result # "ENOSPC"
      BY <1>7 DEF IInv, SearchOrder
    <3>2. ~search.rewind => last_bg <= g + 1
      BY <3>1, <1>1, <1>3
    <3>3. ASSUME ~swapped, ~crashed, NEW h \in 0 .. groups - 1, Passed(h)'
          PROVE  Bits(h)' = Bit
      BY <3>3, <2>4, <2>5, <1>1, <1>4, <1>7 DEF IInv, SearchOrder
    <3> QED
      BY <3>1, <3>2, <3>3, <2>1, <2>2, <2>6, <1>2 DEF SearchOrder
  <2> QED
    BY <1>2, <1>5, <1>6, <2>1, <2>3, <2>7 DEF IInv, NoSpaceMeansFull
<1>10. CASE ReadFails
  <2>1. search' = Idle /\ result' = "EIO"
    BY <1>10 DEF ReadFails
  <2>2. search' \in S /\ ~search'.on
    BY <2>1 DEF Idle
  <2> QED
    BY <1>5, <1>6, <1>8, <2>1, <2>2 DEF IInv, SearchOrder, NoSpaceMeansFull
<1> QED
  BY <1>9, <1>10

\* An inode is taken: its bit was clear and its number not in use.
LEMMA TakeStep ==
  ASSUME IInv, TakeInode
  PROVE  IInv'
<1>1. groups \in Nat \ {0} /\ 0 .. groups - 1 \subseteq Group /\ IPG \in Nat \ {0}
  BY GroupsOf, InodeGeometry DEF IInv, Typed
<1>2. PICK g \in 0 .. groups - 1 : g = search.bgid /\ g \in Group
  BY InVolume DEF IInv, TakeInode
<1>0. PICK k \in {"file", "dir"} : k = IF search.is_dir THEN "dir" ELSE "file"
  OBVIOUS
<1>3. PICK i \in Bit \ Bits(g) :
        /\ Load(g, Bits(g) \cup {i})
        /\ desc' = [desc EXCEPT ![g] =
             [free   |-> @.free - 1,
              dirs   |-> DirsAfter(@.dirs, search.is_dir),
              unused |-> UnusedAfter(@.unused, i),
              uninit |-> FALSE]]
        /\ live' = [live EXCEPT ![Number(i, g)] = k]
  BY <1>2, <1>0 DEF TakeInode
<1>4. /\ desc[g].free > 0 /\ sb_free' = sb_free - 1 /\ last_bg' = g /\ search' = Idle
      /\ result' = "inode" /\ UNCHANGED <<groups, disk, crashed, swapped>>
  BY <1>2 DEF TakeInode
<1>5. i \in 0 .. IPG - 1 /\ k \in {"file", "dir"} /\ (k = "dir" <=> search.is_dir)
  BY <1>0 DEF Bit
<1>6. /\ desc \in [Group -> Fields] /\ ibitmap \in [Group -> SUBSET Bit]
      /\ desc[g] \in Fields /\ desc[g].free + desc[g].dirs <= IPG
  BY <1>2 DEF IInv, Typed, Kept
<1>7. /\ desc'[g] = [free |-> desc[g].free - 1, dirs |-> DirsAfter(desc[g].dirs, search.is_dir),
                     unused |-> UnusedAfter(desc[g].unused, i), uninit |-> FALSE]
      /\ \A h \in Group : h # g => desc'[h] = desc[h]
      /\ desc' = [h \in Group |-> desc'[h]]
  BY <1>2, <1>3, <1>6
<1>8. /\ desc'[g].free = desc[g].free - 1
      /\ desc'[g].dirs = IF k = "dir" THEN desc[g].dirs + 1 ELSE desc[g].dirs
      /\ desc'[g].unused = IF i >= IPG - desc[g].unused THEN IPG - (i + 1) ELSE desc[g].unused
      /\ ~desc'[g].uninit
  BY <1>5, <1>7 DEF DirsAfter, UnusedAfter
<1>9. desc'[g].free + desc'[g].dirs <= IPG /\ desc'[g] \in Fields
  <2>1. desc[g].free \in 0 .. IPG /\ desc[g].dirs \in 0 .. IPG /\ desc[g].unused \in 0 .. IPG
    BY <1>6 DEF Fields
  <2>2. /\ desc'[g].free \in 0 .. IPG /\ desc'[g].dirs \in 0 .. IPG
        /\ desc'[g].unused \in 0 .. IPG /\ desc'[g].free + desc'[g].dirs <= IPG
    BY <2>1, <1>1, <1>4, <1>5, <1>6, <1>8
  <2>3. DirsAfter(desc[g].dirs, search.is_dir) = desc'[g].dirs
        /\ UnusedAfter(desc[g].unused, i) = desc'[g].unused
    BY <1>7
  <2> QED
    BY <2>2, <2>3, <1>7, <1>8 DEF Fields
<1>10. \A h \in Group : ibitmap'[h] = IF h = g THEN Bits(g) \cup {i} ELSE ibitmap[h]
  BY <1>2, <1>3, <1>6 DEF Load
<1>11. Bits(g) \in SUBSET Bit /\ Bits(g)' = Bits(g) \cup {i} /\ \A h \in Group : h # g => Bits(h)' = Bits(h)
  <2>1. Bits(g) \in SUBSET Bit
    BY <1>2, BitsInBit DEF IInv
  <2>2. Bits(g)' = Bits(g) \cup {i}
    BY <1>2, <1>8, <1>10 DEF Bits
  <2>3. ASSUME NEW h \in Group, h # g
        PROVE  Bits(h)' = Bits(h)
    BY <2>3, <1>7, <1>10 DEF Bits
  <2> QED
    BY <2>1, <2>2, <2>3
<1>12. Kept(ibitmap', desc')
  <2>1. ibitmap' \in [Group -> SUBSET Bit]
    BY <1>3, <1>6, <1>11 DEF Load
  <2>2. 0 \in Group /\ Bits(0) = ibitmap[0] /\ Reserved \subseteq ibitmap[0]
    BY Largest DEF Group, IInv, Typed, Kept, Bits
  <2>3. Reserved \subseteq ibitmap'[0]
    BY <2>2, <1>10
  <2>4. desc' \in [Group -> Fields]
    BY <1>6, <1>7, <1>9
  <2>5. \A h \in Group : desc'[h].free + desc'[h].dirs <= IPG
    BY <1>6, <1>7, <1>9 DEF IInv, Typed, Kept
  <2>6. ~desc'[0].uninit
    BY <2>2, <1>7, <1>8 DEF IInv, Typed, Kept
  <2> QED
    BY <2>1, <2>3, <2>4, <2>5, <2>6 DEF Kept
<1>13. Clear' = Clear \ {<<g, i>>} /\ <<g, i>> \in Clear
  <2>1. <<g, i>> \in Clear
    BY <1>2, <1>3 DEF Clear
  <2>2. ASSUME NEW h \in 0 .. groups - 1, NEW j \in Bit
        PROVE  j \notin Bits(h)' <=> j \notin Bits(h) /\ <<h, j>> # <<g, i>>
    BY <1>1, <1>11
  <2>3. Clear' = {x \in (0 .. groups - 1) \X Bit : x[2] \notin Bits(x[1])'}
    BY <1>4 DEF Clear
  <2> QED
    BY <2>1, <2>2, <2>3 DEF Clear
<1>14. Cardinality(Clear') = Cardinality(Clear) - 1 /\ Cardinality(Clear) \in Nat
  BY <1>13, ClearUsable, FS_RemoveElement DEF IInv
<1>15. Typed'
  <2>1. search' \in [bgid : Nat, cnt : Nat, rewind : BOOLEAN, is_dir : BOOLEAN, on : BOOLEAN]
    BY <1>4 DEF Idle
  <2>2. live' \in [Inode -> {"none", "file", "dir"}]
    BY <1>3, <1>5 DEF IInv, Typed
  <2>3. sb_free' \in Int /\ Cardinality(Clear') <= sb_free'
    BY <1>4, <1>14 DEF IInv, Typed
  <2> QED
    BY <1>2, <1>4, <1>12, <2>1, <2>2, <2>3 DEF IInv, Typed
<1>16. LiveInside'
  <2>1. Number(i, g) \in Inode /\ Bgid(Number(i, g)) = g /\ g < groups
    BY <1>1, <1>2, NumberPlace
  <2> QED
    BY <2>1, <1>3, <1>4 DEF IInv, Typed, LiveInside
<1>17. SearchOrder' /\ LastInside' /\ NoSpaceMeansFull'
  BY <1>1, <1>2, <1>4 DEF SearchOrder, LastInside, NoSpaceMeansFull, Idle
<1>18. Counted'
  <2> SUFFICES ASSUME ~crashed
               PROVE  Counted'
    BY <1>4 DEF Counted
  <2> DEFINE Held(h) == IF h = 0 THEN Reserved ELSE {}
             All == {"file", "dir"}
  <2>1. \A h \in 0 .. groups - 1 :
          /\ Bits(h) = InodesOf(h, All) \cup Held(h) /\ Held(h) \cap InodesOf(h, All) = {}
          /\ desc[h].free = IPG - Cardinality(Bits(h))
          /\ \A j \in Bits(h) : j < IPG - desc[h].unused
          /\ desc[h].dirs = Cardinality(InodesOf(h, {"dir"}))
    BY DEF IInv, Counted
  <2>2. /\ \A h \in Group : h # g => /\ InodesOf(h, All)' = InodesOf(h, All)
                                     /\ InodesOf(h, {"dir"})' = InodesOf(h, {"dir"})
        /\ InodesOf(g, All)' = InodesOf(g, All) \cup {i}
        /\ InodesOf(g, {"dir"})' = IF k = "dir" THEN InodesOf(g, {"dir"}) \cup {i}
                                   ELSE InodesOf(g, {"dir"}) \ {i}
    <3>1. /\ live \in [Inode -> {"none", "file", "dir"}] /\ i \in Bit
          /\ live' = [live EXCEPT ![Number(i, g)] = k]
      BY <1>3 DEF IInv, Typed
    <3> QED
      BY <1>2, <1>5, <3>1, Relive
  <2>3. /\ Bits(g)' = InodesOf(g, All)' \cup Held(g) /\ Held(g) \cap InodesOf(g, All)' = {}
    BY <1>2, <1>3, <1>5, <1>11, <2>1, <2>2
  <2>4. desc'[g].free = IPG - Cardinality(Bits(g)')
    <3>1. Cardinality(Bits(g) \cup {i}) = Cardinality(Bits(g)) + 1
      BY <1>3, <1>11, BitSets, FS_AddElement
    <3>2. Cardinality(Bits(g)) \in 0 .. IPG
      BY <1>11, BitSets
    <3> QED
      BY <3>1, <3>2, <1>1, <1>2, <1>8, <1>11, <2>1
  <2>5. \A j \in Bits(g)' : j < IPG - desc'[g].unused
    <3>1. desc[g].unused \in 0 .. IPG /\ \A j \in Bits(g) : j < IPG - desc[g].unused /\ j \in Int
      BY <1>2, <1>6, <1>11, <2>1 DEF Fields, Bit
    <3> QED
      BY <3>1, <1>1, <1>5, <1>8, <1>11
  <2>6. desc'[g].dirs = Cardinality(InodesOf(g, {"dir"})')
    <3>1. InodesOf(g, {"dir"}) \in SUBSET Bit /\ i \notin InodesOf(g, {"dir"})
      BY <1>2, <1>3, <2>1 DEF InodesOf
    <3>2. CASE k = "dir"
      <4>1. InodesOf(g, {"dir"})' = InodesOf(g, {"dir"}) \cup {i}
        BY <3>2, <1>2, <2>2
      <4>2. Cardinality(InodesOf(g, {"dir"})') = Cardinality(InodesOf(g, {"dir"})) + 1
        BY <4>1, <3>1, BitSets, FS_AddElement
      <4> QED
        BY <4>2, <3>2, <1>2, <1>8, <2>1
    <3>3. CASE k # "dir"
      <4>1. InodesOf(g, {"dir"})' = InodesOf(g, {"dir"})
        BY <3>1, <3>3, <1>2, <2>2
      <4> QED
        BY <4>1, <3>3, <1>2, <1>8, <2>1
    <3> QED
      BY <3>2, <3>3
  <2>7. sb_free' = Cardinality(Clear')
    BY <1>4, <1>14 DEF IInv, Counted
  <2>8. \A h \in 0 .. groups - 1 : h # g =>
          /\ Bits(h)' = Bits(h) /\ desc'[h] = desc[h]
          /\ InodesOf(h, All)' = InodesOf(h, All) /\ InodesOf(h, {"dir"})' = InodesOf(h, {"dir"})
    BY <1>1, <1>7, <1>11, <2>2
  <2> QED
    BY <1>4, <2>1, <2>3, <2>4, <2>5, <2>6, <2>7, <2>8 DEF Counted
<1> QED
  BY <1>15, <1>16, <1>17, <1>18 DEF IInv

\* An inode is freed: its bit was set, and it is the only one of its number.
LEMMA FreeStep ==
  ASSUME IInv, NEW ino \in Inode, FreeInode(ino)
  PROVE  IInv'
<1>1. PICK g \in Group, i \in Bit : g = Bgid(ino) /\ i = Idx(ino) /\ Number(i, g) = ino
  BY InodePlace
<1>2. PICK k \in {"file", "dir"} : k = live[ino]
  BY DEF IInv, Typed, FreeInode
<1>3. /\ Load(g, Bits(g) \ {i})
      /\ desc' = [desc EXCEPT ![g] =
             [free   |-> @.free + 1,
              dirs   |-> IF k = "dir" THEN @.dirs - 1 ELSE @.dirs,
              unused |-> @.unused,
              uninit |-> FALSE]]
      /\ live' = [live EXCEPT ![Number(i, g)] = "none"]
  BY <1>1, <1>2 DEF FreeInode
<1>4. /\ ~search.on /\ ~crashed /\ sb_free' = sb_free + 1 /\ result' = "none"
      /\ UNCHANGED <<groups, disk, last_bg, search, crashed, swapped>>
  BY DEF FreeInode
<1>5. /\ groups \in Nat \ {0} /\ 0 .. groups - 1 \subseteq Group /\ IPG \in Nat \ {0}
      /\ i \in 0 .. IPG - 1 /\ g \in 0 .. groups - 1
  <2>1. g < groups /\ g \in Nat
    BY <1>1, <1>2, Largest DEF IInv, LiveInside, Group
  <2> QED
    BY <2>1, GroupsOf, InodeGeometry DEF IInv, Typed, Bit
<1> DEFINE All == {"file", "dir"}
           Held(h) == IF h = 0 THEN Reserved ELSE {}
<1>6. \A h \in 0 .. groups - 1 :
        /\ Bits(h) = InodesOf(h, All) \cup Held(h) /\ Held(h) \cap InodesOf(h, All) = {}
        /\ desc[h].free = IPG - Cardinality(Bits(h))
        /\ \A j \in Bits(h) : j < IPG - desc[h].unused
        /\ desc[h].dirs = Cardinality(InodesOf(h, {"dir"}))
  BY <1>4 DEF IInv, Counted
<1>7. i \in InodesOf(g, All) /\ i \in Bits(g) /\ i \notin Held(g)
  <2>1. i \in InodesOf(g, All)
    BY <1>1, <1>2 DEF InodesOf
  <2> QED
    BY <2>1, <1>5, <1>6
<1>8. /\ \A h \in Group : h # g => /\ InodesOf(h, All)' = InodesOf(h, All)
                                   /\ InodesOf(h, {"dir"})' = InodesOf(h, {"dir"})
      /\ InodesOf(g, All)' = InodesOf(g, All) \ {i}
      /\ InodesOf(g, {"dir"})' = InodesOf(g, {"dir"}) \ {i}
  <2>1. /\ live \in [Inode -> {"none", "file", "dir"}]
        /\ live' = [live EXCEPT ![Number(i, g)] = "none"]
    BY <1>3 DEF IInv, Typed
  <2>2. "none" # "dir" /\ "none" \in {"none", "file", "dir"}
    OBVIOUS
  <2> QED
    BY <1>5, <2>1, <2>2, Relive
<1>9. /\ desc \in [Group -> Fields] /\ ibitmap \in [Group -> SUBSET Bit]
      /\ desc[g] \in Fields /\ Bits(g) \in SUBSET Bit
  BY BitsInBit DEF IInv, Typed, Kept
<1>10. /\ desc'[g] = [free |-> desc[g].free + 1,
                      dirs |-> IF k = "dir" THEN desc[g].dirs - 1 ELSE desc[g].dirs,
                      unused |-> desc[g].unused, uninit |-> FALSE]
       /\ \A h \in Group : h # g => desc'[h] = desc[h]
       /\ desc' = [h \in Group |-> desc'[h]]
  BY <1>3, <1>9
<1>11. /\ desc'[g].free = desc[g].free + 1
       /\ desc'[g].dirs = IF k = "dir" THEN desc[g].dirs - 1 ELSE desc[g].dirs
       /\ desc'[g].unused = desc[g].unused
       /\ ~desc'[g].uninit
  BY <1>10
<1>12. \A h \in Group : ibitmap'[h] = IF h = g THEN Bits(g) \ {i} ELSE ibitmap[h]
  BY <1>3, <1>9 DEF Load
<1>13. Bits(g)' = Bits(g) \ {i} /\ \A h \in Group : h # g => Bits(h)' = Bits(h)
  <2>1. Bits(g)' = Bits(g) \ {i}
    BY <1>11, <1>12 DEF Bits
  <2>2. ASSUME NEW h \in Group, h # g
        PROVE  Bits(h)' = Bits(h)
    BY <2>2, <1>10, <1>12 DEF Bits
  <2> QED
    BY <2>1, <2>2
<1>14. desc'[g].free = IPG - Cardinality(Bits(g)') /\ Cardinality(Bits(g)') \in 0 .. IPG
  <2>1. Cardinality(Bits(g) \ {i}) = Cardinality(Bits(g)) - 1
    BY <1>7, <1>9, BitSets, FS_RemoveElement
  <2>2. Cardinality(Bits(g)) \in 0 .. IPG /\ Cardinality(Bits(g) \ {i}) \in 0 .. IPG
    BY <1>9, BitSets
  <2> QED
    BY <2>1, <2>2, <1>5, <1>6, <1>11, <1>13
<1>15. desc'[g].dirs = Cardinality(InodesOf(g, {"dir"})') /\ InodesOf(g, {"dir"})' \subseteq Bits(g)'
  <2>1. InodesOf(g, {"dir"}) \in SUBSET Bit /\ InodesOf(g, {"dir"}) \subseteq InodesOf(g, All)
    BY DEF InodesOf
  <2>2. InodesOf(g, {"dir"})' \subseteq Bits(g)'
    BY <2>1, <1>5, <1>6, <1>8, <1>13
  <2>3. i \in InodesOf(g, {"dir"}) <=> k = "dir"
    BY <1>1, <1>2 DEF InodesOf
  <2>4. CASE k = "dir"
    <3>1. Cardinality(InodesOf(g, {"dir"}) \ {i}) = Cardinality(InodesOf(g, {"dir"})) - 1
      BY <2>1, <2>3, <2>4, BitSets, FS_RemoveElement
    <3> QED
      BY <3>1, <2>2, <2>4, <1>5, <1>6, <1>8, <1>11
  <2>5. CASE k # "dir"
    <3>1. InodesOf(g, {"dir"})' = InodesOf(g, {"dir"})
      BY <2>3, <2>5, <1>8
    <3> QED
      BY <3>1, <2>2, <2>5, <1>5, <1>6, <1>11
  <2> QED
    BY <2>4, <2>5
<1>16. desc'[g].free + desc'[g].dirs <= IPG /\ desc'[g] \in Fields
  <2>1. Bits(g)' \in SUBSET Bit
    BY <1>9, <1>13
  <2>2. Cardinality(InodesOf(g, {"dir"})') <= Cardinality(Bits(g)')
        /\ Cardinality(InodesOf(g, {"dir"})') \in 0 .. IPG
    BY <2>1, <1>15, BitSets, FS_Subset
  <2>3. desc'[g].free \in 0 .. IPG /\ desc'[g].dirs \in 0 .. IPG /\ desc'[g].unused \in 0 .. IPG
        /\ desc'[g].free + desc'[g].dirs <= IPG
    BY <2>2, <1>5, <1>9, <1>11, <1>14, <1>15 DEF Fields
  <2> QED
    BY <2>3, <1>10, <1>11 DEF Fields
<1>17. Kept(ibitmap', desc')
  <2>1. ibitmap' \in [Group -> SUBSET Bit]
    BY <1>3, <1>9 DEF Load
  <2>2. 0 \in Group /\ Bits(0) = ibitmap[0] /\ Reserved \subseteq ibitmap[0]
    BY Largest DEF Group, IInv, Typed, Kept, Bits
  <2>3. Reserved \subseteq ibitmap'[0]
    BY <2>2, <1>7, <1>12
  <2>4. desc' \in [Group -> Fields]
    BY <1>9, <1>10, <1>16
  <2>5. \A h \in Group : desc'[h].free + desc'[h].dirs <= IPG
    BY <1>10, <1>16 DEF IInv, Typed, Kept
  <2>6. ~desc'[0].uninit
    BY <2>2, <1>10, <1>11 DEF IInv, Typed, Kept
  <2> QED
    BY <2>1, <2>3, <2>4, <2>5, <2>6 DEF Kept
<1>18. Clear' = Clear \cup {<<g, i>>} /\ <<g, i>> \notin Clear
  <2>1. <<g, i>> \notin Clear
    BY <1>7 DEF Clear
  <2>2. ASSUME NEW h \in 0 .. groups - 1, NEW j \in Bit
        PROVE  j \notin Bits(h)' <=> j \notin Bits(h) \/ <<h, j>> = <<g, i>>
    BY <1>5, <1>13
  <2>3. Clear' = {x \in (0 .. groups - 1) \X Bit : x[2] \notin Bits(x[1])'}
    BY <1>4 DEF Clear
  <2>4. <<g, i>> \in (0 .. groups - 1) \X Bit
    BY <1>5
  <2>5. \A x \in (0 .. groups - 1) \X Bit :
          x[2] \notin Bits(x[1])' <=> x[2] \notin Bits(x[1]) \/ x = <<g, i>>
    BY <2>2
  <2> QED
    BY <2>1, <2>3, <2>4, <2>5 DEF Clear
<1>19. Cardinality(Clear') = Cardinality(Clear) + 1 /\ Cardinality(Clear) \in Nat
  BY <1>18, ClearUsable, FS_AddElement DEF IInv
<1>20. Typed'
  <2>1. live' \in [Inode -> {"none", "file", "dir"}]
    BY <1>3 DEF IInv, Typed
  <2>2. sb_free' \in Int /\ Cardinality(Clear') <= sb_free'
    BY <1>4, <1>19 DEF IInv, Typed
  <2> QED
    BY <1>4, <1>17, <2>1, <2>2 DEF IInv, Typed
<1>21. LiveInside'
  BY <1>3, <1>4 DEF IInv, Typed, LiveInside
<1>22. SearchOrder' /\ LastInside' /\ NoSpaceMeansFull'
  BY <1>4 DEF IInv, SearchOrder, LastInside, NoSpaceMeansFull
<1>23. Counted'
  <2>1. Bits(g)' = InodesOf(g, All)' \cup Held(g) /\ Held(g) \cap InodesOf(g, All)' = {}
    BY <1>5, <1>6, <1>7, <1>8, <1>13
  <2>2. \A j \in Bits(g)' : j < IPG - desc'[g].unused
    BY <1>5, <1>6, <1>11, <1>13
  <2>3. sb_free' = Cardinality(Clear')
    BY <1>4, <1>19 DEF IInv, Counted
  <2>4. \A h \in 0 .. groups - 1 : h # g =>
          /\ Bits(h)' = Bits(h) /\ desc'[h] = desc[h]
          /\ InodesOf(h, All)' = InodesOf(h, All) /\ InodesOf(h, {"dir"})' = InodesOf(h, {"dir"})
    BY <1>5, <1>8, <1>10, <1>13
  <2> QED
    BY <1>4, <1>6, <1>14, <1>15, <2>1, <2>2, <2>3, <2>4 DEF Counted
<1> QED
  BY <1>20, <1>21, <1>22, <1>23 DEF IInv

\* The device: what it holds is a bitmap and descriptors that once were.
LEMMA DeviceStep ==
  ASSUME IInv, WriteBack
  PROVE  IInv'
<1>1. UNCHANGED <<volume, last_bg, search, result, live, crashed, swapped>>
  BY DEF WriteBack
<1>2. /\ disk' = [ibitmap |-> disk'.ibitmap, desc |-> disk'.desc, sb_free |-> NewFree(groups)]
      /\ Kept(disk'.ibitmap, disk'.desc)
  <2>1. 0 \in Group
    BY Largest DEF Group
  <2>2. /\ disk = [ibitmap |-> disk.ibitmap, desc |-> disk.desc, sb_free |-> NewFree(groups)]
        /\ Kept(disk.ibitmap, disk.desc) /\ Kept(ibitmap, desc)
    BY DEF IInv, Typed
  <2>3. ASSUME NEW g \in 0 .. groups - 1, disk' = [disk EXCEPT !.ibitmap[g] = ibitmap[g]]
        PROVE  /\ disk' = [ibitmap |-> disk'.ibitmap, desc |-> disk'.desc, sb_free |-> NewFree(groups)]
               /\ Kept(disk'.ibitmap, disk'.desc)
    <3>1. disk'.ibitmap = [disk.ibitmap EXCEPT ![g] = ibitmap[g]] /\ disk'.desc = disk.desc
          /\ disk' = [ibitmap |-> disk'.ibitmap, desc |-> disk'.desc, sb_free |-> NewFree(groups)]
      BY <2>2, <2>3
    <3> QED
      BY <2>1, <2>2, <3>1, GroupsOf DEF Kept
  <2>4. CASE disk' = [disk EXCEPT !.desc = desc]
    <3>1. disk'.ibitmap = disk.ibitmap /\ disk'.desc = desc
          /\ disk' = [ibitmap |-> disk'.ibitmap, desc |-> disk'.desc, sb_free |-> NewFree(groups)]
      BY <2>2, <2>4
    <3> QED
      BY <2>2, <3>1 DEF Kept
  <2> QED
    BY <2>3, <2>4 DEF WriteBack
<1>3. \A h \in Group : Bits(h)' = Bits(h) /\ desc'[h] = desc[h]
  BY <1>1 DEF volume, Bits
<1>4. LiveInside' /\ Counted' /\ Clear' = Clear /\ (Full' <=> Full)
  BY <1>1, <1>3, Unread DEF IInv, volume
<1>5. Typed'
  BY <1>1, <1>2, <1>4 DEF IInv, Typed, volume
<1>6. SearchOrder' /\ LastInside' /\ NoSpaceMeansFull'
  BY <1>1, <1>4 DEF IInv, volume, SearchOrder, LastInside, NoSpaceMeansFull, Passed, Bits
<1> QED
  BY <1>4, <1>5, <1>6 DEF IInv

\* After a loss of power nothing is known but that no more is clear than the
\* superblock counts.
LEMMA CrashStep ==
  ASSUME IInv, PowerLoss
  PROVE  IInv'
<1>1. /\ ibitmap' = disk.ibitmap /\ desc' = disk.desc /\ sb_free' = disk.sb_free
      /\ last_bg' = 0 /\ search' = Idle /\ result' = "none"
      /\ live' = [ino \in Inode |-> "none"] /\ crashed' = TRUE /\ swapped' = FALSE
      /\ UNCHANGED <<groups, disk>>
  BY DEF PowerLoss
<1>2. /\ 0 \in Group /\ groups \in Nat \ {0} /\ groups \in Sizes
      /\ Kept(disk.ibitmap, disk.desc) /\ disk.sb_free = NewFree(groups)
  BY GroupsOf DEF IInv, Typed
<1>3. Reserved \subseteq Bits(0)' /\ groups' = groups
  BY <1>1, <1>2 DEF Kept, Bits
<1>4. Clear' \in SUBSET Usable(groups)
  <2>1. Clear' = {x \in (0 .. groups - 1) \X Bit : x[2] \notin Bits(x[1])'}
    BY <1>3 DEF Clear
  <2> QED
    BY <2>1, <1>3 DEF Usable
<1>5. sb_free' \in Int /\ Cardinality(Clear') <= sb_free'
  BY <1>1, <1>2, <1>4, NewVolume
<1>6. search' \in [bgid : Nat, cnt : Nat, rewind : BOOLEAN, is_dir : BOOLEAN, on : BOOLEAN]
      /\ ~search'.on
  BY <1>1 DEF Idle
<1>7. live' \in [Inode -> {"none", "file", "dir"}] /\ \A ino \in Inode : live'[ino] = "none"
  BY <1>1
<1>8. Typed'
  BY <1>1, <1>2, <1>5, <1>6, <1>7 DEF IInv, Typed
<1> QED
  BY <1>1, <1>2, <1>6, <1>7, <1>8
  DEF IInv, LiveInside, Counted, SearchOrder, LastInside, NoSpaceMeansFull

\* Another volume; only the group the last inode came from is left.
LEMMA RemountStep ==
  ASSUME IInv, NEW s \in Sizes, Remount(s)
  PROVE  IInv'
<1>1. /\ groups' = s /\ ibitmap' = NewBitmap /\ desc' = NewDesc /\ sb_free' = NewFree(s)
      /\ disk' = [ibitmap |-> NewBitmap, desc |-> NewDesc, sb_free |-> NewFree(s)]
      /\ live' = [ino \in Inode |-> "none"] /\ result' = "none" /\ crashed' = FALSE
      /\ swapped' = (swapped \/ s < groups) /\ UNCHANGED <<last_bg, search>> /\ ~search.on
  BY DEF Remount
<1>2. Unused'
  BY <1>1 DEF Unused
<1>3. (Unused => Counted /\ Cardinality(Clear) = sb_free)'
  BY UnusedCounted, PTL
<1>4. Counted' /\ Cardinality(Clear') = sb_free'
  BY <1>2, <1>3
<1>5. Kept(NewBitmap, NewDesc) /\ NewFree(s) \in Int
  BY Fresh
<1>6. /\ disk'.ibitmap = NewBitmap /\ disk'.desc = NewDesc
      /\ disk' = [ibitmap |-> disk'.ibitmap, desc |-> disk'.desc, sb_free |-> NewFree(s)]
  BY <1>1
<1>7. sb_free' \in Int /\ Cardinality(Clear') <= sb_free'
  BY <1>1, <1>4, <1>5
<1>8. live' \in [Inode -> {"none", "file", "dir"}] /\ \A ino \in Inode : live'[ino] = "none"
  BY <1>1
<1>9. Typed'
  BY <1>1, <1>5, <1>6, <1>7, <1>8 DEF IInv, Typed
<1>10. LastInside'
  <2>1. groups \in Nat /\ s \in Nat /\ last_bg \in Nat
    BY GroupsOf, Largest DEF IInv, Typed, Group
  <2>2. ~swapped' => ~swapped /\ ~(s < groups)
    BY <1>1
  <2>3. ~swapped => last_bg < groups
    BY DEF IInv, LastInside
  <2>4. last_bg' = last_bg /\ groups' = s
    BY <1>1
  <2> QED
    BY <2>1, <2>2, <2>3, <2>4 DEF LastInside
<1> QED
  BY <1>1, <1>4, <1>8, <1>9, <1>10 DEF IInv, LiveInside, SearchOrder, NoSpaceMeansFull

LEMMA StutterStep ==
  ASSUME IInv, UNCHANGED vars
  PROVE  IInv'
BY DEF IInv, vars, volume, Typed, LiveInside, Counted, Clear, InodesOf, Bits, SearchOrder, Passed,
       LastInside, NoSpaceMeansFull, Full

LEMMA NextIInv ==
  ASSUME IInv, [Next]_vars
  PROVE  IInv'
<1>1. CASE \E d \in BOOLEAN : AllocStart(d)
  BY <1>1, SearchLocals
<1>2. CASE SearchStep
  <2>1. CASE Rewind \/ NoSpace
    BY <2>1, SearchLocals
  <2>2. CASE SkipGroup
    BY <2>2, SearchReads
  <2>3. CASE RetryGroup
    BY <2>3, StutterStep DEF RetryGroup
  <2>4. CASE TakeInode
    BY <2>4, TakeStep
  <2> QED
    BY <1>2, <2>1, <2>2, <2>3, <2>4 DEF SearchStep
<1>3. CASE ReadFails
  BY <1>3, SearchReads
<1>4. CASE \E ino \in Inode : FreeInode(ino)
  BY <1>4, FreeStep
<1>5. CASE WriteBack
  BY <1>5, DeviceStep
<1>6. CASE PowerLoss
  BY <1>6, CrashStep
<1>7. CASE \E s \in Sizes : Remount(s)
  BY <1>7, RemountStep
<1>8. CASE UNCHANGED vars
  BY <1>8, StutterStep
<1> QED
  BY <1>1, <1>2, <1>3, <1>4, <1>5, <1>6, <1>7, <1>8 DEF Next

LEMMA AlwaysIInv ==
  Spec => []IInv
<1> QED
  BY InitIInv, NextIInv, PTL DEF Spec

-----------------------------------------------------------------------------
(* What the runs check, for every instance.                                *)

\* The counters and bitmaps stay within their types and a search within the
\* descriptors of the volume, also after a loss of power and a smaller volume.
THEOREM InodeTypeCorrect ==
  Spec => []TypeOK
<1>1. ASSUME IInv
      PROVE  TypeOK
  <2>1. InLoop => search.bgid < groups
    <3>1. InLoop => search.bgid \in 0 .. groups - 1
      BY <1>1, InVolume DEF IInv
    <3>2. groups \in Nat
      BY <1>1, GroupsOf DEF IInv, Typed
    <3> QED
      BY <3>1, <3>2
  <2>2. sb_free \in Nat
    <3>1. Cardinality(Clear) \in Nat
      BY <1>1, ClearUsable DEF IInv
    <3>2. sb_free \in Int /\ Cardinality(Clear) <= sb_free
      BY <1>1 DEF IInv, Typed
    <3> QED
      BY <3>1, <3>2
  <2>3. ibitmap \in [Group -> SUBSET Bit] /\ desc \in [Group -> Fields]
    BY <1>1 DEF IInv, Typed, Kept
  <2> QED
    BY <1>1, <2>1, <2>2, <2>3 DEF IInv, Typed, Fields, TypeOK
<1> QED
  BY AlwaysIInv, <1>1, PTL

\* No inode number is handed out twice: bitmaps, descriptors and superblock
\* count what is in use for as long as power lasts.
THEOREM InodesCounted ==
  Spec => []Counted
<1>1. IInv => Counted
  BY DEF IInv
<1> QED
  BY AlwaysIInv, <1>1, PTL

\* The loop over the groups looks at all of them before it says ENOSPC, from
\* wherever the last inode came.
THEOREM NoSpaceIsFull ==
  Spec => []NoSpaceMeansFull
<1>1. IInv => NoSpaceMeansFull
  BY DEF IInv
<1> QED
  BY AlwaysIInv, <1>1, PTL
=============================================================================
