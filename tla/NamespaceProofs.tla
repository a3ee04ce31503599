-------------------------- MODULE NamespaceProofs --------------------------
(***************************************************************************)
(* Proofs about Namespace, for every set of inodes, names and paths, every *)
(* limit of the link counts and every call stopped in its middle.          *)
(***************************************************************************)
EXTENDS Namespace, FiniteSetTheorems, TLAPS

-----------------------------------------------------------------------------
(* Least elements, and what the recursion along a path returns.            *)

\* The least number of a set, the end of an induction along a path.
LEMMA Least ==
  ASSUME NEW S \in SUBSET Nat, S # {}
  PROVE  \E m \in S : \A k \in S : m <= k
<1>1. PICK m \in S : \A k \in S : <<k, m>> \notin OpToRel(<, Nat)
  BY WFMin, NatLessThanWellFounded
<1>2. \A k \in S : ~(k < m)
  BY <1>1 DEF OpToRel
<1> QED
  BY <1>2

LEMMA MinIs ==
  ASSUME NEW S \in SUBSET Nat, S # {}
  PROVE  Min(S) \in S
BY Least DEF Min

\* The inodes along a path as far as component n.
Steps(p, n, f) ==
    f = [k \in 0 .. n |-> IF k = 0 THEN Root ELSE Pass(p, k, f[k - 1])]

LEMMA StepsUnique ==
  ASSUME NEW p, NEW n \in Nat, NEW m \in 0 .. n, NEW f, NEW g, Steps(p, m, f), Steps(p, n, g)
  PROVE  f[m] = g[m]
<1> DEFINE D == {k \in 0 .. m : f[k] # g[k]}
<1>1. SUFFICES ASSUME D # {} PROVE FALSE
  OBVIOUS
<1>2. PICK k \in D : \A j \in D : k <= j
  <2>1. D \in SUBSET Nat
    OBVIOUS
  <2> QED
    BY <1>1, <2>1, Least
<1>3. k # 0
  BY <1>2 DEF Steps
<1>4. f[k - 1] = g[k - 1]
  BY <1>2, <1>3
<1>5. f[k] = Pass(p, k, f[k - 1]) /\ g[k] = Pass(p, k, g[k - 1])
  BY <1>2, <1>3 DEF Steps
<1> QED
  BY <1>2, <1>4, <1>5

LEMMA StepsExist ==
  ASSUME NEW p, NEW n \in Nat
  PROVE  \E f : Steps(p, n, f)
<1> DEFINE D == {k \in Nat : ~\E f : Steps(p, k, f)}
<1>1. SUFFICES ASSUME D # {} PROVE FALSE
  OBVIOUS
<1>2. PICK k \in D : \A j \in D : k <= j
  BY <1>1, Least
<1>3. k # 0
  <2>1. Steps(p, 0, [j \in 0 .. 0 |-> Root])
    BY DEF Steps
  <2> QED
    BY <1>2, <2>1
<1>4. PICK f : Steps(p, k - 1, f)
  BY <1>2, <1>3
<1> DEFINE g == [j \in 0 .. k |-> IF j = k THEN Pass(p, k, f[k - 1]) ELSE f[j]]
<1>5. \A j \in 0 .. k : g[j] = IF j = 0 THEN Root ELSE Pass(p, j, g[j - 1])
  BY <1>2, <1>3, <1>4 DEF Steps
<1>6. Steps(p, k, g)
  BY <1>5 DEF Steps
<1> QED
  BY <1>2, <1>6

LEMMA ReachIs ==
  ASSUME NEW p, NEW n \in Nat
  PROVE  \E f : Steps(p, n, f) /\ Reach(p, n) = f[n]
<1> DEFINE g == CHOOSE f : Steps(p, n, f)
<1>1. Steps(p, n, g)
  BY StepsExist
<1>2. Reach(p, n) = g[n]
  BY DEF Reach, Steps
<1> QED
  BY <1>1, <1>2

\* Reach is one pass after the other.
LEMMA ReachStep ==
  ASSUME NEW p, NEW n \in Nat
  PROVE  /\ Reach(p, 0) = Root
         /\ n > 0 => Reach(p, n) = Pass(p, n, Reach(p, n - 1))
<1>1. PICK f : Steps(p, n, f) /\ Reach(p, n) = f[n]
  BY ReachIs
<1>2. Reach(p, 0) = Root
  BY ReachIs DEF Steps
<1>3. ASSUME n > 0
      PROVE  Reach(p, n) = Pass(p, n, Reach(p, n - 1))
  <2>1. PICK g : Steps(p, n - 1, g) /\ Reach(p, n - 1) = g[n - 1]
    BY <1>3, ReachIs
  <2>2. g[n - 1] = f[n - 1]
    BY <1>1, <1>3, <2>1, StepsUnique
  <2>3. f[n] = Pass(p, n, f[n - 1])
    BY <1>1, <1>3 DEF Steps
  <2> QED
    BY <1>1, <2>1, <2>2, <2>3
<1> QED
  BY <1>2, <1>3

-----------------------------------------------------------------------------
(* What is inductive.                                                      *)

Dirs == {i \in Ino : IsDir(i)}

\* Entries and inodes agree.
Names ==
    /\ \A i \in Ino \ {Root} : (kind[i] = "free") <=> (Slots(i) = {})
    /\ \A i \in Ino : ~IsDir(i) => Children(i) = {} /\ up[i] = NoIno
    /\ owns \subseteq {i \in Ino : kind[i] \in {"file", "symlink"}}
    /\ indexed \subseteq Dirs

\* Each directory but the root has one entry, in the directory its ".." names.
OneEntry ==
    /\ Root \in Dirs /\ Slots(Root) = {} /\ up[Root] = Root
    /\ \A i \in Dirs \ {Root} : \E n \in Name : Slots(i) = {<<up[i], n>>}

Rooted == \A i \in Dirs : Below(i, Root)

\* What the link count of an inode may be.
CountOK(i) ==
    IF IsDir(i)
    THEN links[i] = 2 + Cardinality(SubDirs(i)) \/ (i \in indexed /\ links[i] = 1)
    ELSE links[i] = Cardinality(Slots(i))
Counts == \A i \in Ino : CountOK(i)

Sound == Names /\ OneEntry /\ Rooted /\ Counts

Request == [op : {"make"}, kind : Makes, path : Paths]
WalkIn(D) == [op : {"rm"}, top : D, at : D, depth : Nat \ {0}, name : Name \cup Dots \cup {""}]
Walk == WalkIn(Dirs)

\* The way by ".." from where a removal stands to the directory it was given:
\* it meets neither that directory nor the root before its end.
Way(f, D, u, t, a, n) ==
    /\ f \in [0 .. (n - 1) -> D]
    /\ f[0] = a /\ f[n - 1] = t
    /\ \A k \in 0 .. (n - 2) : f[k] \notin {t, Root} /\ f[k + 1] = u[f[k]]
Climbs(f) == Way(f, Dirs, up, call.top, call.at, call.depth)

\* A removal works on a directory, whose entry it will take away in the end is
\* the one with the last name of the path.
CallOK ==
    /\ call \in {Idle} \cup Request \cup Walk
    /\ call.op = "rm" =>
        /\ call.name \in Name => call.top # Root /\ ents[up[call.top]][call.name] = call.top
        /\ \E f : Climbs(f)

IInv == TypeOK /\ (Quiet => Sound /\ CallOK)

-----------------------------------------------------------------------------
(* What a sound volume says of an entry, of ".." and of a path.            *)

LEMMA Entry ==
  ASSUME TypeOK, Sound, NEW d \in Ino, NEW n \in Name, ents[d][n] \in Ino
  PROVE  /\ d \in Dirs /\ ents[d][n] # Root /\ kind[ents[d][n]] # "free"
         /\ ents[d][n] \in Dirs => up[ents[d][n]] = d /\ Slots(ents[d][n]) = {<<d, n>>}
<1> DEFINE i == ents[d][n]
<1>1. i \in Ino /\ n \in Children(d) /\ <<d, n>> \in Slots(i)
  BY NamespaceAssumption DEF Children, Slots, NoIno
<1> HIDE DEF i
<1>2. d \in Dirs
  BY <1>1 DEF Sound, Names, Dirs
<1>3. i # Root /\ kind[i] # "free"
  BY <1>1 DEF Sound, Names, OneEntry
<1>4. i \in Dirs => up[i] = d /\ Slots(i) = {<<d, n>>}
  BY <1>1, <1>3 DEF Sound, OneEntry
<1> QED
  BY <1>2, <1>3, <1>4 DEF i

LEMMA Parent ==
  ASSUME TypeOK, Sound, NEW d \in Dirs
  PROVE  /\ d \in Ino /\ d # NoIno /\ kind[d] = "dir"
         /\ up[d] \in Dirs /\ Children(d) \subseteq Name
         /\ d # Root => \E n \in Name : ents[up[d]][n] = d /\ Slots(d) = {<<up[d], n>>}
<1>1. d \in Ino /\ d # NoIno /\ kind[d] = "dir" /\ Children(d) \subseteq Name
  BY DEF Dirs, IsDir, Children
<1>2. CASE d = Root
  BY <1>1, <1>2 DEF Sound, OneEntry
<1>3. CASE d # Root
  <2>1. PICK n \in Name : Slots(d) = {<<up[d], n>>}
    BY <1>1, <1>3 DEF Sound, OneEntry
  <2>2. <<up[d], n>> \in Ino \X Name /\ ents[up[d]][n] = d
    BY <2>1 DEF Slots
  <2> QED
    BY <1>1, <2>1, <2>2, Entry
<1> QED
  BY <1>2, <1>3

\* An entry a directory does not have leaves its name free.
LEMMA FindIs ==
  ASSUME TypeOK, Sound, NEW d \in Dirs, NEW c \in Name \cup Dots
  PROVE  /\ Find(d, c) \in Ino \cup {NoIno}
         /\ c \in Name => Find(d, c) = ents[d][c]
         /\ c \in Dots /\ Find(d, c) # NoIno => Find(d, c) \in Dirs
<1>1. d \in Ino /\ up[d] \in Dirs
  BY Parent
<1>2. c \in Name => Find(d, c) = ents[d][c] /\ ents[d][c] \in Ino \cup {NoIno}
  BY <1>1 DEF Find, TypeOK
<1>3. c \in Dots => c \notin Name
  BY NamespaceAssumption
<1>4. c \in Dots => Find(d, c) \in {NoIno, d, up[d]}
  BY <1>3 DEF Find
<1> QED
  BY <1>1, <1>2, <1>3, <1>4 DEF Dirs

LEMMA SeqIs ==
  ASSUME NEW S, NEW p \in Seq(S), p # <<>>
  PROVE  Len(p) \in Nat \ {0} /\ DOMAIN p = 1 .. Len(p) /\ \A k \in 1 .. Len(p) : p[k] \in S
OBVIOUS

LEMMA PathLen ==
  ASSUME NEW p \in Paths
  PROVE  Len(p) \in Nat \ {0} /\ Len(p) \in 1 .. Len(p) /\ DOMAIN p = 1 .. Len(p)
<1>1. p \in Seq(Name \cup Dots \cup {""}) /\ p # <<>>
  BY NamespaceAssumption
<1>2. Len(p) \in Nat \ {0} /\ DOMAIN p = 1 .. Len(p)
  BY <1>1, SeqIs
<1> QED
  BY <1>2

LEMMA PathName ==
  ASSUME NEW p \in Paths, NEW k \in 1 .. Len(p)
  PROVE  p[k] \in Name \cup Dots \cup {""}
<1> DEFINE S == Name \cup Dots \cup {""}
<1>1. p \in Seq(S) /\ p # <<>>
  BY NamespaceAssumption
<1> HIDE DEF S
<1>2. p[k] \in S
  BY <1>1, SeqIs
<1> QED
  BY <1>2 DEF S

LEMMA LastIs ==
  ASSUME NEW p \in Paths
  PROVE  NameOf(p) = p[Len(p)] /\ NameOf(p) \in Name \cup Dots \cup {""}
<1>1. Len(p) \in 1 .. Len(p) /\ NameOf(p) = p[Len(p)]
  BY PathLen DEF NameOf, Last
<1> QED
  BY <1>1, PathName

LEMMA PassIs ==
  ASSUME TypeOK, Sound, NEW p \in Paths, NEW k \in 1 .. Len(p), NEW d \in Ino \cup {NoIno}
  PROVE  Pass(p, k, d) \in Ino \cup {NoIno}
<1>1. p[k] \in Name \cup Dots \cup {""}
  BY PathName
<1>2. CASE d \in Dirs
  BY <1>1, <1>2, FindIs DEF Pass
<1>3. CASE d \notin Dirs
  BY <1>3 DEF Pass, Dirs, IsDir
<1> QED
  BY <1>2, <1>3

LEMMA ReachType ==
  ASSUME TypeOK, Sound, NEW p \in Paths, NEW n \in 0 .. Len(p)
  PROVE  Reach(p, n) \in Ino \cup {NoIno}
<1> DEFINE D == {k \in 0 .. Len(p) : Reach(p, k) \notin Ino \cup {NoIno}}
<1>1. SUFFICES ASSUME D # {} PROVE FALSE
  OBVIOUS
<1>2. PICK k \in D : \A j \in D : k <= j
  <2>1. D \in SUBSET Nat
    BY PathLen
  <2> QED
    BY <1>1, <2>1, Least
<1>3. k \in Nat /\ k <= Len(p) /\ Len(p) \in Nat
  BY PathLen
<1>4. k # 0
  BY <1>3, ReachStep, NamespaceAssumption
<1>5. Reach(p, k - 1) \in Ino \cup {NoIno}
  BY <1>2, <1>3, <1>4
<1>6. Reach(p, k) = Pass(p, k, Reach(p, k - 1))
  BY <1>3, <1>4, ReachStep
<1> QED
  BY <1>2, <1>3, <1>4, <1>5, <1>6, PassIs

\* Where a path leads that can be opened, and what its last component is.
LEMMA AtIs ==
  ASSUME TypeOK, Sound, NEW p \in Paths, At(p) # NoIno
  PROVE  /\ At(p) \in Ino
         /\ NameOf(p) \in Name \cup Dots \cup {""}
         /\ NameOf(p) \in Name => /\ ParentOf(p) \in Dirs
                                  /\ ents[ParentOf(p)][NameOf(p)] = At(p)
         /\ NameOf(p) \notin Name => At(p) \in Dirs
<1> DEFINE m == Len(p)
           d == Reach(p, m - 1)
<1>1. m \in Nat \ {0} /\ p[m] \in Name \cup Dots \cup {""} /\ NameOf(p) = p[m]
  BY PathLen, LastIs
<1>2. At(p) = Pass(p, m, d) /\ d \in Ino \cup {NoIno}
  <2>1. m - 1 \in 0 .. Len(p) /\ m > 0 /\ m \in Nat
    BY PathLen
  <2> QED
    BY <2>1, ReachStep, ReachType DEF At
<1>3. d \in Dirs
  BY <1>2 DEF Pass, Dirs, IsDir
<1>4. CASE p[m] = ""
  <2>1. At(p) = d /\ p[m] \notin Name
    BY <1>2, <1>3, <1>4, NamespaceAssumption DEF Pass, Dirs
  <2> QED
    BY <1>1, <1>3, <2>1 DEF Dirs
<1>5. CASE p[m] # ""
  <2>1. At(p) = Find(d, p[m])
    BY <1>2, <1>3, <1>5 DEF Pass, Dirs
  <2>2. ParentOf(p) = d
    BY <1>1, <1>5 DEF ParentOf, NameOf
  <2> QED
    BY <1>1, <1>3, <1>5, <2>1, <2>2, FindIs
<1> QED
  BY <1>4, <1>5

LEMMA TargetIs ==
  ASSUME TypeOK, Sound, NEW q \in Paths, CanAdd(q)
  PROVE  /\ Target(q) \in Dirs /\ NameOf(q) \in Name \cup Dots
         /\ NameOf(q) \in Name => ents[Target(q)][NameOf(q)] = NoIno
<1>1. NameOf(q) \in Name \cup Dots \cup {""}
  BY LastIs
<1>2. Target(q) \in Dirs
  <2>1. Len(q) - 1 \in 0 .. Len(q)
    BY PathLen
  <2> QED
    BY <2>1, ReachType DEF Target, CanAdd, Dirs, IsDir
<1> QED
  BY <1>1, <1>2, FindIs DEF CanAdd

\* The component that is missing has a directory and no entry in it.
LEMMA MissingIs ==
  ASSUME TypeOK, Sound, NEW p \in Paths, Missing(p) # 0
  PROVE  LET n == Missing(p) IN
         /\ n \in 1 .. Len(p)
         /\ Reach(p, n - 1) \in Dirs
         /\ p[n] \in Name \cup Dots
         /\ p[n] \in Name => ents[Reach(p, n - 1)][p[n]] = NoIno
<1> DEFINE S == {n \in DOMAIN p : IsDir(Reach(p, n - 1)) /\ Reach(p, n) = NoIno /\ p[n] # ""}
           n == Missing(p)
<1>1. S \in SUBSET Nat /\ S \subseteq 1 .. Len(p) /\ Len(p) \in Nat
  <2>1. DOMAIN p = 1 .. Len(p) /\ Len(p) \in Nat
    BY PathLen
  <2>2. S \subseteq 1 .. Len(p)
    BY <2>1
  <2> HIDE DEF S
  <2> QED
    BY <2>1, <2>2
<1>2. n \in S
  <2>1. S # {} /\ n = Min(S)
    BY DEF Missing
  <2> QED
    BY <1>1, <2>1, MinIs
<1>3. n \in 1 .. Len(p) /\ n - 1 \in 0 .. Len(p) /\ n > 0 /\ n \in Nat
  <2>1. n \in 1 .. Len(p) /\ Len(p) \in Nat
    BY <1>1, <1>2
  <2> QED
    BY <2>1
<1>4. Reach(p, n - 1) \in Dirs
  BY <1>2, <1>3, ReachType DEF Dirs, IsDir
<1>5. p[n] \in Name \cup Dots
  BY <1>2, <1>3, PathName
<1>6. Find(Reach(p, n - 1), p[n]) = NoIno
  BY <1>2, <1>3, <1>4, ReachStep DEF Pass, Dirs
<1> HIDE DEF n
<1> QED
  BY <1>3, <1>4, <1>5, <1>6, FindIs DEF n

-----------------------------------------------------------------------------
(* Tables, link counts and "..", when one entry is set.                    *)

Tables == [Ino -> [Name -> Ino \cup {NoIno}]]
Kinds == [Ino -> Kind \cup {"free"}]
SlotsIn(e, i) == {s \in Ino \X Name : e[s[1]][s[2]] = i}
ChildrenIn(e, d) == {n \in Name : e[d][n] # NoIno}
SubDirsIn(e, k, d) == {n \in Name : e[d][n] # NoIno /\ k[e[d][n]] = "dir"}

LEMMA InTables ==
  ASSUME TypeOK
  PROVE  /\ ents \in Tables /\ kind \in Kinds
         /\ \A x \in Ino : Slots(x) = SlotsIn(ents, x)
         /\ \A x \in Ino : Children(x) = ChildrenIn(ents, x)
         /\ \A x \in Ino : SubDirs(x) = SubDirsIn(ents, kind, x)
BY DEF TypeOK, Tables, Kinds, Slots, SlotsIn, Children, ChildrenIn, SubDirs, SubDirsIn, IsDir

LEMMA InTables1 ==
  ASSUME TypeOK'
  PROVE  /\ ents' \in Tables /\ kind' \in Kinds
         /\ \A x \in Ino : Slots(x)' = SlotsIn(ents', x)
         /\ \A x \in Ino : Children(x)' = ChildrenIn(ents', x)
         /\ \A x \in Ino : SubDirs(x)' = SubDirsIn(ents', kind', x)
BY DEF TypeOK, Tables, Kinds, Slots, SlotsIn, Children, ChildrenIn, SubDirs, SubDirsIn, IsDir

SetIn(e, d, c, i) == [e EXCEPT ![d][c] = i]

LEMMA SetIs ==
  ASSUME NEW e \in Tables, NEW d \in Ino, NEW c \in Name, NEW i \in Ino \cup {NoIno}
  PROVE  SetIn(e, d, c, i) \in Tables /\ SetIn(e, d, c, i)[d][c] = i
BY DEF Tables, SetIn

LEMMA OtherEntries ==
  ASSUME NEW e \in Tables, NEW d \in Ino, NEW c \in Name, NEW i \in Ino \cup {NoIno},
         NEW x \in Ino, NEW n \in Name, <<x, n>> # <<d, c>>
  PROVE  SetIn(e, d, c, i)[x][n] = e[x][n]
BY DEF Tables, SetIn

\* The entries that name the inode which is set, and any other.
LEMMA MoreSlots ==
  ASSUME NEW e \in Tables, NEW d \in Ino, NEW c \in Name, NEW i \in Ino
  PROVE  SlotsIn(SetIn(e, d, c, i), i) = SlotsIn(e, i) \cup {<<d, c>>}
<1>1. \A s \in Ino \X Name : SetIn(e, d, c, i)[s[1]][s[2]] = IF s = <<d, c>> THEN i ELSE e[s[1]][s[2]]
  <2> DEFINE f == SetIn(e, d, c, i)
  <2>1. f[d][c] = i /\ \A x \in Ino : \A n \in Name : <<x, n>> # <<d, c>> => f[x][n] = e[x][n]
    BY SetIs, OtherEntries
  <2> HIDE DEF f
  <2>2. \A s \in Ino \X Name : f[s[1]][s[2]] = IF s = <<d, c>> THEN i ELSE e[s[1]][s[2]]
    BY <2>1
  <2> QED
    BY <2>2 DEF f
<1> QED
  BY <1>1 DEF SlotsIn

LEMMA FewerSlots ==
  ASSUME NEW e \in Tables, NEW d \in Ino, NEW c \in Name, NEW i \in Ino \cup {NoIno}, NEW x \in Ino \ {i}
  PROVE  SlotsIn(SetIn(e, d, c, i), x) = SlotsIn(e, x) \ {<<d, c>>}
<1>1. \A s \in Ino \X Name : SetIn(e, d, c, i)[s[1]][s[2]] = IF s = <<d, c>> THEN i ELSE e[s[1]][s[2]]
  <2> DEFINE f == SetIn(e, d, c, i)
  <2>1. f[d][c] = i /\ \A m \in Ino : \A n \in Name : <<m, n>> # <<d, c>> => f[m][n] = e[m][n]
    BY SetIs, OtherEntries
  <2> HIDE DEF f
  <2>2. \A s \in Ino \X Name : f[s[1]][s[2]] = IF s = <<d, c>> THEN i ELSE e[s[1]][s[2]]
    BY <2>1
  <2> QED
    BY <2>2 DEF f
<1> QED
  BY <1>1 DEF SlotsIn

LEMMA OtherSlots ==
  ASSUME NEW e \in Tables, NEW d \in Ino, NEW c \in Name, NEW i \in Ino \cup {NoIno},
         NEW x \in Ino \ {i}, x # e[d][c]
  PROVE  SlotsIn(SetIn(e, d, c, i), x) = SlotsIn(e, x)
<1>1. <<d, c>> \notin SlotsIn(e, x)
  BY DEF SlotsIn
<1>2. SlotsIn(SetIn(e, d, c, i), x) = SlotsIn(e, x) \ {<<d, c>>}
  BY FewerSlots
<1> QED
  BY <1>1, <1>2

LEMMA OtherChildren ==
  ASSUME NEW e \in Tables, NEW d \in Ino, NEW c \in Name, NEW i \in Ino \cup {NoIno}, NEW x \in Ino \ {d}
  PROVE  ChildrenIn(SetIn(e, d, c, i), x) = ChildrenIn(e, x)
BY OtherEntries DEF ChildrenIn

LEMMA SetEntrySubDirs ==
  ASSUME NEW e \in Tables, NEW d \in Ino, NEW c \in Name, NEW i \in Ino \cup {NoIno},
         NEW k \in Kinds
  PROVE  LET f == SetIn(e, d, c, i) IN
         /\ \A x \in Ino \ {d} : SubDirsIn(f, k, x) = SubDirsIn(e, k, x)
         /\ i # NoIno /\ k[i] = "dir" => SubDirsIn(f, k, d) = SubDirsIn(e, k, d) \cup {c}
         /\ i = NoIno \/ k[i] # "dir" => SubDirsIn(f, k, d) = SubDirsIn(e, k, d) \ {c}
<1> DEFINE f == SetIn(e, d, c, i)
<1>1. f[d][c] = i /\ \A x \in Ino : \A n \in Name : <<x, n>> # <<d, c>> => f[x][n] = e[x][n]
  BY SetIs, OtherEntries
<1> HIDE DEF f
<1>2. ASSUME NEW x \in Ino \ {d}
      PROVE  SubDirsIn(f, k, x) = SubDirsIn(e, k, x)
  BY <1>1, <1>2 DEF SubDirsIn
<1>3. ASSUME i # NoIno, k[i] = "dir"
      PROVE  SubDirsIn(f, k, d) = SubDirsIn(e, k, d) \cup {c}
  BY <1>1, <1>3 DEF SubDirsIn
<1>4. ASSUME i = NoIno \/ k[i] # "dir"
      PROVE  SubDirsIn(f, k, d) = SubDirsIn(e, k, d) \ {c}
  BY <1>1, <1>4 DEF SubDirsIn
<1> QED
  BY <1>2, <1>3, <1>4 DEF f

\* The kind of an inode without an entry is nobody's business.
LEMMA SameSubDirs ==
  ASSUME NEW e \in Tables, NEW k \in Kinds, NEW j \in Kinds, NEW i \in Ino,
         SlotsIn(e, i) = {}, \A x \in Ino \ {i} : j[x] = k[x]
  PROVE  \A x \in Ino : SubDirsIn(e, j, x) = SubDirsIn(e, k, x)
<1>1. \A x \in Ino : \A n \in Name : e[x][n] \in (Ino \ {i}) \cup {NoIno}
  <2>1. ASSUME NEW x \in Ino, NEW n \in Name, e[x][n] = i
        PROVE  <<x, n>> \in SlotsIn(e, i)
    BY <2>1 DEF SlotsIn
  <2> QED
    BY <2>1 DEF Tables
<1> QED
  BY <1>1 DEF SubDirsIn

LEMMA FiniteTables ==
  ASSUME NEW e \in Tables, NEW k, NEW x \in Ino
  PROVE  /\ IsFiniteSet(SlotsIn(e, x)) /\ Cardinality(SlotsIn(e, x)) \in Nat
         /\ IsFiniteSet(SubDirsIn(e, k, x)) /\ Cardinality(SubDirsIn(e, k, x)) \in Nat
<1>1. IsFiniteSet(Ino \X Name)
  BY NamespaceAssumption, FS_Product
<1>2. IsFiniteSet(SlotsIn(e, x))
  BY <1>1, FS_Subset DEF SlotsIn
<1>3. IsFiniteSet(SubDirsIn(e, k, x))
  BY NamespaceAssumption, FS_Subset DEF SubDirsIn
<1> QED
  BY <1>2, <1>3, FS_CardinalityType

\* A set with one element more, and with one less.
LEMMA OneMore ==
  ASSUME NEW S, NEW x, IsFiniteSet(S)
  PROVE  /\ x \notin S => Cardinality(S \cup {x}) = Cardinality(S) + 1
         /\ x \in S => Cardinality(S \ {x}) = Cardinality(S) - 1
         /\ Cardinality(S) \in Nat
BY FS_AddElement, FS_RemoveElement, FS_CardinalityType

-----------------------------------------------------------------------------
(* Link counts.                                                            *)

\* One link more, while the count does not wrap; an indexed directory may fall
\* back to 1.
LEMMA Inc ==
  ASSUME NEW i, NEW l \in 0 .. (LinkWrap - 1), (l + 1) % LinkWrap # 0
  PROVE  /\ l + 1 < LinkWrap
         /\ LinkInc(i, l) = l + 1 \/ (i \in indexed /\ LinkInc(i, l) = 1)
         /\ i \in indexed /\ l = 1 => LinkInc(i, l) = 1
         /\ l = 0 => LinkInc(i, l) = 1
<1>1. LinkMax \in Nat /\ LinkWrap \in Nat /\ 2 < LinkMax /\ LinkMax < LinkWrap
  BY NamespaceAssumption
<1>2. l + 1 < LinkWrap /\ (l + 1) % LinkWrap = l + 1
  <2>1. l + 1 # LinkWrap
    BY <1>1
  <2> QED
    BY <1>1, <2>1
<1> QED
  BY <1>1, <1>2 DEF LinkInc

LEMMA Dec ==
  ASSUME NEW i, NEW l \in Nat
  PROVE  /\ kind[i] = "dir" /\ l > 2 => LinkDec(i, l) = l - 1
         /\ kind[i] = "dir" /\ l <= 2 => LinkDec(i, l) = l
         /\ kind[i] # "dir" /\ l > 0 => LinkDec(i, l) = l - 1
BY DEF LinkDec

-----------------------------------------------------------------------------
(* The tree, when one directory is added, moved or taken away.             *)

Closed(u, S) == \A i \in S : u[i] \in S \cup {NoIno}

LEMMA BelowIs ==
  ASSUME NEW x, NEW a
  PROVE  /\ Below(x, a) <=> \A S \in SUBSET Ino : x \in S /\ Closed(up, S) => a \in S
         /\ Below(x, a)' <=> \A S \in SUBSET Ino : x \in S /\ Closed(up', S) => a \in S
BY DEF Below, Closed

\* No directory names a directory without children as its "..", but itself.
LEMMA LeafHasNoneBelow ==
  ASSUME TypeOK, Sound, NEW i \in Ino, ChildrenIn(ents, i) = {}, i # Root
  PROVE  \A x \in Ino : up[x] # i
<1>1. SUFFICES ASSUME NEW x \in Ino, up[x] = i PROVE FALSE
  OBVIOUS
<1>2. x \in Dirs
  BY <1>1, NamespaceAssumption DEF Sound, Names, Dirs, NoIno
<1>3. x # Root
  BY <1>1 DEF Sound, OneEntry
<1>4. PICK n \in Name : ents[i][n] = x
  BY <1>1, <1>2, <1>3, Parent
<1>5. x # NoIno
  BY <1>2, Parent
<1> QED
  BY <1>4, <1>5 DEF ChildrenIn

LEMMA RootedAdd ==
  ASSUME TypeOK, Sound, NEW d \in Dirs, NEW i \in Ino, kind[i] = "free",
         up' = [up EXCEPT ![i] = d], Dirs' = Dirs \cup {i}
  PROVE  Rooted'
<1>1. ASSUME NEW x \in Dirs', NEW S \in SUBSET Ino, x \in S, Closed(up', S)
      PROVE  Root \in S
  <2>1. i # Root /\ i # d /\ ChildrenIn(ents, i) = {} /\ d \in Ino /\ d # NoIno
    <3>1. i \notin Dirs
      BY DEF Dirs, IsDir
    <3>2. Children(i) = {}
      BY <3>1 DEF Sound, Names, Dirs
    <3> QED
      BY <3>1, <3>2, InTables, Parent DEF Sound, OneEntry
  <2>2. \A y \in S : y # i => up[y] \in S \cup {NoIno}
    BY <1>1, <2>1 DEF Closed, TypeOK
  <2>3. i \in S => d \in S
    BY <1>1, <2>1 DEF Closed, TypeOK
  <2>4. \A y \in Ino : up[y] # i
    BY <2>1, LeafHasNoneBelow
  <2>5. Closed(up, S \ {i})
    BY <2>2, <2>4 DEF Closed
  <2>6. \E y \in Dirs : y \in S \ {i}
    BY <1>1, <2>1, <2>3
  <2> QED
    BY <2>5, <2>6, BelowIs DEF Sound, Rooted
<1> QED
  BY <1>1, BelowIs DEF Rooted

LEMMA RootedMove ==
  ASSUME TypeOK, Sound, NEW i \in Dirs, NEW to \in Dirs, ~Below(to, i),
         up' = [up EXCEPT ![i] = to], Dirs' = Dirs
  PROVE  Rooted'
<1>1. PICK T \in SUBSET Ino : to \in T /\ Closed(up, T) /\ i \notin T
  BY BelowIs
<1>2. ASSUME NEW x \in Dirs, NEW S \in SUBSET Ino, x \in S, Closed(up', S)
      PROVE  Root \in S
  <2>1. \A y \in S : y # i => up[y] \in S \cup {NoIno}
    BY <1>2 DEF Closed, TypeOK
  <2>2. CASE i \notin S
    BY <1>2, <2>1, <2>2, BelowIs DEF Closed, Sound, Rooted
  <2>3. CASE i \in S
    <3>1. to \in S
      BY <1>2, <2>3, Parent DEF Closed, TypeOK
    <3>2. Closed(up, S \cap T)
      BY <1>1, <2>1 DEF Closed
    <3> QED
      BY <1>1, <3>1, <3>2, BelowIs DEF Sound, Rooted
  <2> QED
    BY <2>2, <2>3
<1> QED
  BY <1>2, BelowIs DEF Rooted

LEMMA RootedCut ==
  ASSUME TypeOK, Sound, NEW i \in Ino, i # Root, ChildrenIn(ents, i) = {},
         up' = [up EXCEPT ![i] = NoIno], Dirs' = Dirs \ {i}
  PROVE  Rooted'
<1>1. ASSUME NEW x \in Dirs', NEW S \in SUBSET Ino, x \in S, Closed(up', S)
      PROVE  Root \in S
  <2>1. \A y \in S : y # i => up[y] \in S \cup {NoIno}
    BY <1>1 DEF Closed, TypeOK
  <2>2. \A y \in Ino : up[y] # i
    BY LeafHasNoneBelow
  <2>3. Closed(up, S \ {i})
    BY <2>1, <2>2 DEF Closed
  <2> QED
    BY <1>1, <2>3, BelowIs DEF Sound, Rooted
<1> QED
  BY <1>1, BelowIs DEF Rooted

-----------------------------------------------------------------------------
(* A sound volume, by its tables.                                          *)

NamesIn(e, k, u, o, x, D) ==
    /\ \A i \in Ino \ {Root} : (k[i] = "free") <=> (SlotsIn(e, i) = {})
    /\ \A i \in Ino \ D : ChildrenIn(e, i) = {} /\ u[i] = NoIno
    /\ \A i \in o : k[i] \in {"file", "symlink"}
    /\ x \subseteq D

OneEntryIn(e, u, D) ==
    /\ Root \in D /\ SlotsIn(e, Root) = {} /\ u[Root] = Root
    /\ \A i \in D \ {Root} : \E n \in Name : SlotsIn(e, i) = {<<u[i], n>>}

DirCountOK(l, n, in) == l = 2 + n \/ (in /\ l = 1)
CountsIn(e, k, l, x, D) ==
    /\ \A i \in D : DirCountOK(l[i], Cardinality(SubDirsIn(e, k, i)), i \in x)
    /\ \A i \in Ino \ D : l[i] = Cardinality(SlotsIn(e, i))

LEMMA SoundIs ==
  ASSUME TypeOK
  PROVE  Sound <=> /\ NamesIn(ents, kind, up, owns, indexed, Dirs)
                   /\ OneEntryIn(ents, up, Dirs)
                   /\ Rooted
                   /\ CountsIn(ents, kind, links, indexed, Dirs)
<1>1. Names <=> NamesIn(ents, kind, up, owns, indexed, Dirs)
  BY InTables DEF Names, NamesIn, Dirs, TypeOK
<1>2. OneEntry <=> OneEntryIn(ents, up, Dirs)
  BY InTables, NamespaceAssumption DEF OneEntry, OneEntryIn, Dirs
<1>3. Counts <=> CountsIn(ents, kind, links, indexed, Dirs)
  BY InTables DEF Counts, CountOK, CountsIn, DirCountOK, Dirs
<1> QED
  BY <1>1, <1>2, <1>3 DEF Sound

LEMMA SoundIs1 ==
  ASSUME TypeOK'
  PROVE  Sound' <=> /\ NamesIn(ents', kind', up', owns', indexed', Dirs')
                    /\ OneEntryIn(ents', up', Dirs')
                    /\ Rooted'
                    /\ CountsIn(ents', kind', links', indexed', Dirs')
<1>1. Names' <=> NamesIn(ents', kind', up', owns', indexed', Dirs')
  BY InTables1 DEF Names, NamesIn, Dirs, TypeOK
<1>2. OneEntry' <=> OneEntryIn(ents', up', Dirs')
  BY InTables1, NamespaceAssumption DEF OneEntry, OneEntryIn, Dirs
<1>3. Counts' <=> CountsIn(ents', kind', links', indexed', Dirs')
  BY InTables1 DEF Counts, CountOK, CountsIn, DirCountOK, Dirs
<1> QED
  BY <1>1, <1>2, <1>3 DEF Sound

LEMMA DirsIs ==
  ASSUME TypeOK, Sound
  PROVE  /\ Root \in Dirs /\ Root \in Ino /\ Dirs \subseteq Ino
         /\ \A x \in Ino : x # NoIno /\ (x \in Dirs <=> kind[x] = "dir")
BY NamespaceAssumption DEF Sound, OneEntry, Dirs, IsDir, NoIno

LEMMA LinksNat ==
  ASSUME TypeOK
  PROVE  \A x \in Ino : links[x] \in Nat /\ links[x] \in 0 .. (LinkWrap - 1)
<1>1. LinkWrap \in Nat
  BY NamespaceAssumption
<1> QED
  BY <1>1 DEF TypeOK

-----------------------------------------------------------------------------
(* A sound volume stays sound: one lemma for each kind of change.          *)

\* A new directory i, with the name c in the directory d.
AddsDir(d, c, i) ==
    /\ kind[i] = "free" /\ ents[d][c] = NoIno /\ ~Wraps(d)
    /\ ents' = SetIn(ents, d, c, i)
    /\ kind' = [kind EXCEPT ![i] = "dir"]
    /\ links' = [links EXCEPT ![i] = 2, ![d] = LinkInc(d, @)]
    /\ up' = [up EXCEPT ![i] = d]
    /\ indexed \subseteq indexed' /\ indexed' \subseteq indexed \cup {i}
    /\ owns' = owns

LEMMA AddDir ==
  ASSUME TypeOK, Sound, TypeOK', NEW d \in Dirs, NEW c \in Name, NEW i \in Ino, AddsDir(d, c, i)
  PROVE  Sound'
<1>1. /\ NamesIn(ents, kind, up, owns, indexed, Dirs)
      /\ OneEntryIn(ents, up, Dirs)
      /\ CountsIn(ents, kind, links, indexed, Dirs)
  BY SoundIs
<1>2. /\ d \in Ino /\ d # NoIno /\ i # d /\ i # Root /\ i # NoIno /\ i \notin Dirs
      /\ Root \in Dirs /\ Dirs \subseteq Ino
      /\ kind[i] = "free" /\ ents[d][c] = NoIno
  BY DirsIs DEF AddsDir
<1>3. /\ \A x \in Ino : kind'[x] = IF x = i THEN "dir" ELSE kind[x]
      /\ \A x \in Ino : up'[x] = IF x = i THEN d ELSE up[x]
      /\ \A x \in Ino \ {i, d} : links'[x] = links[x]
      /\ links'[i] = 2 /\ links'[d] = LinkInc(d, links[d])
  BY <1>2 DEF TypeOK, AddsDir
<1>4. Dirs' = Dirs \cup {i}
  <2>1. \A x \in Ino : x \in Dirs' <=> kind'[x] = "dir"
    BY DirsIs DEF Dirs, IsDir
  <2> QED
    BY <1>2, <1>3, <2>1, DirsIs DEF Dirs
<1>5. /\ ents \in Tables /\ ents' = SetIn(ents, d, c, i) /\ kind \in Kinds /\ kind' \in Kinds
      /\ SlotsIn(ents, i) = {} /\ ChildrenIn(ents, i) = {}
  BY <1>1, <1>2, InTables, InTables1 DEF NamesIn, AddsDir
<1>6. /\ SlotsIn(ents', i) = {<<d, c>>}
      /\ \A x \in Ino \ {i} : SlotsIn(ents', x) = SlotsIn(ents, x)
      /\ \A x \in Ino \ {d} : ChildrenIn(ents', x) = ChildrenIn(ents, x)
  BY <1>2, <1>5, DirsIs, MoreSlots, OtherSlots, OtherChildren
<1>7. NamesIn(ents', kind', up', owns', indexed', Dirs')
  <2>1. ASSUME NEW x \in Ino \ {Root}
        PROVE  (kind'[x] = "free") <=> (SlotsIn(ents', x) = {})
    <3>1. CASE x = i
      BY <1>3, <1>6, <3>1
    <3>2. CASE x # i
      BY <1>1, <1>3, <1>6, <3>2 DEF NamesIn
    <3> QED
      BY <3>1, <3>2
  <2>2. ASSUME NEW x \in Ino \ Dirs'
        PROVE  ChildrenIn(ents', x) = {} /\ up'[x] = NoIno
    BY <1>1, <1>3, <1>4, <1>6, <2>2 DEF NamesIn
  <2>3. ASSUME NEW x \in owns'
        PROVE  kind'[x] \in {"file", "symlink"}
    BY <1>1, <1>3 DEF NamesIn, TypeOK, AddsDir
  <2>4. indexed' \subseteq Dirs'
    BY <1>1, <1>4 DEF NamesIn, AddsDir
  <2> QED
    BY <2>1, <2>2, <2>3, <2>4 DEF NamesIn
<1>8. OneEntryIn(ents', up', Dirs')
  <2>1. ASSUME NEW x \in Dirs' \ {Root}
        PROVE  \E n \in Name : SlotsIn(ents', x) = {<<up'[x], n>>}
    <3>1. CASE x = i
      BY <1>3, <1>6, <3>1
    <3>2. CASE x # i
      BY <1>1, <1>2, <1>3, <1>4, <1>6, <3>2 DEF OneEntryIn
    <3> QED
      BY <3>1, <3>2
  <2>2. SlotsIn(ents', Root) = {} /\ up'[Root] = Root
    BY <1>1, <1>2, <1>3, <1>6 DEF OneEntryIn
  <2> QED
    BY <1>2, <1>4, <2>1, <2>2 DEF OneEntryIn
<1>9. Rooted'
  BY <1>2, <1>4, RootedAdd DEF AddsDir
<1>10. CountsIn(ents', kind', links', indexed', Dirs')
  <2>1. /\ \A x \in Ino : x # d => SubDirsIn(ents', kind', x) = SubDirsIn(ents, kind, x)
        /\ SubDirsIn(ents', kind', d) = SubDirsIn(ents, kind, d) \cup {c}
        /\ c \notin SubDirsIn(ents, kind, d) /\ SubDirsIn(ents, kind, i) = {}
    <3>1. \A x \in Ino : SubDirsIn(ents, kind', x) = SubDirsIn(ents, kind, x)
      <4>1. \A x \in Ino \ {i} : kind'[x] = kind[x]
        BY <1>3
      <4> QED
        BY <1>5, <4>1, SameSubDirs
    <3>2. SubDirsIn(ents, kind, i) = {} /\ c \notin SubDirsIn(ents, kind, d)
      BY <1>2, <1>5 DEF SubDirsIn, ChildrenIn
    <3>3. /\ \A x \in Ino \ {d} : SubDirsIn(ents', kind', x) = SubDirsIn(ents, kind', x)
          /\ SubDirsIn(ents', kind', d) = SubDirsIn(ents, kind', d) \cup {c}
      BY <1>2, <1>3, <1>5, SetEntrySubDirs
    <3> QED
      BY <1>2, <3>1, <3>2, <3>3
  <2>2. ASSUME NEW x \in Dirs \ {d}
        PROVE  DirCountOK(links'[x], Cardinality(SubDirsIn(ents', kind', x)), x \in indexed')
    BY <1>1, <1>2, <1>3, <2>1 DEF CountsIn, DirCountOK, AddsDir
  <2>3. DirCountOK(links'[i], Cardinality(SubDirsIn(ents', kind', i)), i \in indexed')
    <3>1. SubDirsIn(ents', kind', i) = {}
      BY <1>2, <2>1
    <3>2. Cardinality({}) = 0
      BY FS_EmptySet
    <3> QED
      BY <1>3, <3>1, <3>2 DEF DirCountOK
  <2>4. DirCountOK(links'[d], Cardinality(SubDirsIn(ents', kind', d)), d \in indexed')
    <3>1. DirCountOK(links[d], Cardinality(SubDirsIn(ents, kind, d)), d \in indexed)
      BY <1>1 DEF CountsIn
    <3>2. /\ Cardinality(SubDirsIn(ents', kind', d)) = Cardinality(SubDirsIn(ents, kind, d)) + 1
          /\ Cardinality(SubDirsIn(ents, kind, d)) \in Nat
      BY <1>2, <1>5, <2>1, FiniteTables, OneMore
    <3>3. /\ \/ links'[d] = links[d] + 1
             \/ d \in indexed /\ links'[d] = 1
          /\ links[d] = 1 /\ d \in indexed => links'[d] = 1
      BY <1>2, <1>3, LinksNat, Inc DEF Wraps, AddsDir
    <3> QED
      BY <1>2, <1>3, <3>1, <3>2, <3>3, LinksNat DEF DirCountOK, AddsDir
  <2>5. \A x \in Ino \ Dirs' : links'[x] = Cardinality(SlotsIn(ents', x))
    BY <1>1, <1>2, <1>3, <1>4, <1>6 DEF CountsIn
  <2> QED
    BY <1>4, <2>2, <2>3, <2>4, <2>5 DEF CountsIn
<1> QED
  BY <1>7, <1>8, <1>9, <1>10, SoundIs1

\* A name more for the inode i, which is not a directory: its first, or a link.
AddsName(d, c, i, k) ==
    /\ kind[i] \in {k, "free"} /\ ents[d][c] = NoIno /\ ~Wraps(i)
    /\ ents' = SetIn(ents, d, c, i)
    /\ kind' = [kind EXCEPT ![i] = k]
    /\ links' = [links EXCEPT ![i] = LinkInc(i, @)]
    /\ up' = up /\ indexed' = indexed /\ owns' = owns

LEMMA AddOneName ==
  ASSUME TypeOK, Sound, TypeOK', NEW d \in Dirs, NEW c \in Name, NEW i \in Ino,
         NEW k \in Kind \ {"dir"}, AddsName(d, c, i, k)
  PROVE  Sound'
<1>1. /\ NamesIn(ents, kind, up, owns, indexed, Dirs)
      /\ OneEntryIn(ents, up, Dirs)
      /\ CountsIn(ents, kind, links, indexed, Dirs)
  BY SoundIs
<1>2. /\ d \in Ino /\ i # Root /\ i # NoIno /\ i \notin Dirs
      /\ Root \in Dirs /\ Dirs \subseteq Ino
      /\ kind[i] \in {k, "free"} /\ ents[d][c] = NoIno /\ k # "free" /\ k # "dir"
  BY DirsIs DEF AddsName, Kind
<1>3. /\ \A x \in Ino : kind'[x] = IF x = i THEN k ELSE kind[x]
      /\ \A x \in Ino \ {i} : links'[x] = links[x]
      /\ links'[i] = LinkInc(i, links[i])
      /\ up' = up /\ owns' = owns /\ indexed' = indexed
  BY <1>2 DEF TypeOK, AddsName
<1>4. Dirs' = Dirs
  <2>1. \A x \in Ino : x \in Dirs' <=> kind'[x] = "dir"
    BY DirsIs DEF Dirs, IsDir
  <2> QED
    BY <1>2, <1>3, <2>1, DirsIs DEF Dirs
<1>5. ents \in Tables /\ ents' = SetIn(ents, d, c, i) /\ kind \in Kinds /\ kind' \in Kinds
  BY InTables, InTables1 DEF AddsName
<1>6. /\ SlotsIn(ents', i) = SlotsIn(ents, i) \cup {<<d, c>>} /\ <<d, c>> \notin SlotsIn(ents, i)
      /\ \A x \in Ino \ {i} : SlotsIn(ents', x) = SlotsIn(ents, x)
      /\ \A x \in Ino \ {d} : ChildrenIn(ents', x) = ChildrenIn(ents, x)
  <2>1. <<d, c>> \notin SlotsIn(ents, i)
    BY <1>2 DEF SlotsIn
  <2>2. SlotsIn(ents', i) = SlotsIn(ents, i) \cup {<<d, c>>}
    BY <1>2, <1>5, MoreSlots
  <2>3. \A x \in Ino \ {i} : SlotsIn(ents', x) = SlotsIn(ents, x)
    BY <1>2, <1>5, DirsIs, OtherSlots
  <2>4. \A x \in Ino \ {d} : ChildrenIn(ents', x) = ChildrenIn(ents, x)
    BY <1>2, <1>5, OtherChildren
  <2> QED
    BY <2>1, <2>2, <2>3, <2>4
<1>7. NamesIn(ents', kind', up', owns', indexed', Dirs')
  <2>1. ASSUME NEW x \in Ino \ {Root}
        PROVE  (kind'[x] = "free") <=> (SlotsIn(ents', x) = {})
    <3>1. CASE x = i
      BY <1>2, <1>3, <1>6, <3>1
    <3>2. CASE x # i
      BY <1>1, <1>3, <1>6, <3>2 DEF NamesIn
    <3> QED
      BY <3>1, <3>2
  <2>2. ASSUME NEW x \in owns'
        PROVE  kind'[x] \in {"file", "symlink"}
    BY <1>1, <1>2, <1>3 DEF NamesIn, TypeOK
  <2> QED
    BY <1>1, <1>2, <1>3, <1>4, <1>6, <2>1, <2>2 DEF NamesIn
<1>8. OneEntryIn(ents', up', Dirs')
  BY <1>1, <1>2, <1>3, <1>4, <1>6 DEF OneEntryIn
<1>9. Rooted'
  BY <1>3, <1>4, BelowIs DEF Rooted, Sound
<1>10. CountsIn(ents', kind', links', indexed', Dirs')
  <2>1. \A x \in Ino : SubDirsIn(ents', kind', x) = SubDirsIn(ents, kind, x)
    <3>1. \A x \in Ino : \A n \in Name : ents[x][n] # NoIno => ents[x][n] \in Ino
      BY <1>5 DEF Tables
    <3>2. \A x \in Ino : SubDirsIn(ents, kind', x) = SubDirsIn(ents, kind, x)
      BY <1>2, <1>3, <3>1 DEF SubDirsIn
    <3>3. c \notin SubDirsIn(ents, kind', d)
      BY <1>2 DEF SubDirsIn
    <3>4. \A x \in Ino \ {d} : SubDirsIn(ents', kind', x) = SubDirsIn(ents, kind', x)
      BY <1>2, <1>5, SetEntrySubDirs
    <3>5. SubDirsIn(ents', kind', d) = SubDirsIn(ents, kind', d) \ {c}
      BY <1>2, <1>3, <1>5, SetEntrySubDirs
    <3> QED
      BY <1>2, <3>2, <3>3, <3>4, <3>5
  <2>2. links'[i] = Cardinality(SlotsIn(ents', i))
    <3>1. links'[i] = links[i] + 1
      BY <1>1, <1>2, <1>3, LinksNat, Inc DEF NamesIn, Wraps, AddsName
    <3>2. Cardinality(SlotsIn(ents', i)) = Cardinality(SlotsIn(ents, i)) + 1
      BY <1>5, <1>6, FiniteTables, OneMore
    <3> QED
      BY <1>1, <1>2, <3>1, <3>2 DEF CountsIn
  <2> QED
    BY <1>1, <1>2, <1>3, <1>4, <1>6, <2>1, <2>2 DEF CountsIn
<1> QED
  BY <1>7, <1>8, <1>9, <1>10, SoundIs1

\* A name less for the inode i, which is not a directory and keeps others.
DropsName(d, n, i) ==
    /\ kind[i] # "dir" /\ ents[d][n] = i /\ LinkDec(i, links[i]) # 0
    /\ ents' = SetIn(ents, d, n, NoIno)
    /\ links' = [links EXCEPT ![i] = LinkDec(i, links[i])]
    /\ kind' = kind /\ up' = up /\ indexed' = indexed /\ owns' = owns

LEMMA DropName ==
  ASSUME TypeOK, Sound, TypeOK', NEW d \in Dirs, NEW n \in Name, NEW i \in Ino, DropsName(d, n, i)
  PROVE  Sound'
<1>1. /\ NamesIn(ents, kind, up, owns, indexed, Dirs)
      /\ OneEntryIn(ents, up, Dirs)
      /\ CountsIn(ents, kind, links, indexed, Dirs)
  BY SoundIs
<1>2. /\ d \in Ino /\ i # Root /\ i # NoIno /\ i \notin Dirs /\ kind[i] # "dir" /\ kind[i] # "free"
      /\ Root \in Dirs /\ Dirs \subseteq Ino /\ ents[d][n] = i
  <2>1. d \in Ino /\ ents[d][n] = i
    BY DirsIs DEF DropsName
  <2>2. d \in Dirs /\ i # Root /\ kind[i] # "free"
    BY <2>1, Entry
  <2>3. kind[i] # "dir"
    BY DEF DropsName
  <2> QED
    BY <2>1, <2>2, <2>3, DirsIs
<1>3. /\ \A x \in Ino \ {i} : links'[x] = links[x]
      /\ links'[i] = LinkDec(i, links[i]) /\ links'[i] # 0
      /\ up' = up /\ owns' = owns /\ indexed' = indexed /\ kind' = kind /\ Dirs' = Dirs
  BY <1>2 DEF TypeOK, DropsName, Dirs, IsDir
<1>4. ents \in Tables /\ ents' = SetIn(ents, d, n, NoIno) /\ kind \in Kinds
  BY InTables DEF DropsName
<1>5. <<d, n>> \in SlotsIn(ents, i)
  BY <1>2 DEF SlotsIn
<1>6. /\ SlotsIn(ents', i) = SlotsIn(ents, i) \ {<<d, n>>}
      /\ \A x \in Ino \ {i} : SlotsIn(ents', x) = SlotsIn(ents, x)
      /\ \A x \in Ino \ {d} : ChildrenIn(ents', x) = ChildrenIn(ents, x)
  <2>1. SlotsIn(ents', i) = SlotsIn(ents, i) \ {<<d, n>>}
    BY <1>2, <1>4, FewerSlots
  <2>2. \A x \in Ino \ {i} : SlotsIn(ents', x) = SlotsIn(ents, x)
    BY <1>2, <1>4, DirsIs, OtherSlots
  <2>3. \A x \in Ino \ {d} : ChildrenIn(ents', x) = ChildrenIn(ents, x)
    BY <1>2, <1>4, OtherChildren
  <2> QED
    BY <2>1, <2>2, <2>3
<1>7. links'[i] = Cardinality(SlotsIn(ents', i)) /\ SlotsIn(ents', i) # {}
  <2>1. /\ Cardinality(SlotsIn(ents', i)) = Cardinality(SlotsIn(ents, i)) - 1
        /\ links[i] = Cardinality(SlotsIn(ents, i)) /\ links[i] \in Nat
    <3>1. Cardinality(SlotsIn(ents', i)) = Cardinality(SlotsIn(ents, i)) - 1
      BY <1>4, <1>5, <1>6, FiniteTables, OneMore
    <3>2. links[i] = Cardinality(SlotsIn(ents, i))
      BY <1>1, <1>2 DEF CountsIn
    <3> QED
      BY <3>1, <3>2, LinksNat
  <2>2. links[i] # 0
    BY <1>3, LinksNat DEF LinkDec
  <2>3. links'[i] = links[i] - 1
    BY <1>2, <1>3, <2>1, <2>2, Dec
  <2>4. Cardinality({}) = 0
    BY FS_EmptySet
  <2> QED
    BY <1>3, <2>1, <2>3, <2>4
<1>8. NamesIn(ents', kind', up', owns', indexed', Dirs')
  <2>1. ASSUME NEW x \in Ino \ {Root}
        PROVE  (kind'[x] = "free") <=> (SlotsIn(ents', x) = {})
    <3>1. CASE x = i
      BY <1>2, <1>3, <1>7, <3>1
    <3>2. CASE x # i
      BY <1>1, <1>3, <1>6, <3>2 DEF NamesIn
    <3> QED
      BY <3>1, <3>2
  <2> QED
    BY <1>1, <1>3, <1>6, <2>1 DEF NamesIn
<1>9. OneEntryIn(ents', up', Dirs')
  BY <1>1, <1>2, <1>3, <1>6 DEF OneEntryIn
<1>10. Rooted'
  BY <1>3, BelowIs DEF Rooted, Sound
<1>11. CountsIn(ents', kind', links', indexed', Dirs')
  <2>1. \A x \in Ino : SubDirsIn(ents', kind', x) = SubDirsIn(ents, kind, x)
    <3>1. n \notin SubDirsIn(ents, kind, d)
      BY <1>2 DEF SubDirsIn
    <3>2. \A x \in Ino \ {d} : SubDirsIn(ents', kind, x) = SubDirsIn(ents, kind, x)
      BY <1>2, <1>4, SetEntrySubDirs
    <3>3. SubDirsIn(ents', kind, d) = SubDirsIn(ents, kind, d) \ {n}
      BY <1>2, <1>4, SetEntrySubDirs
    <3> QED
      BY <1>2, <1>3, <3>1, <3>2, <3>3
  <2> QED
    BY <1>1, <1>2, <1>3, <1>6, <1>7, <2>1 DEF CountsIn
<1> QED
  BY <1>8, <1>9, <1>10, <1>11, SoundIs1

\* The inode i goes, with its one name, which is n in d.
Removes(d, n, i) ==
    /\ ents[d][n] = i /\ SlotsIn(ents, i) = {<<d, n>>} /\ ChildrenIn(ents, i) = {}
    /\ ents' = SetIn(ents, d, n, NoIno)
    /\ links' = [links EXCEPT ![i] = 0, ![d] = IF IsDir(i) THEN LinkDec(d, @) ELSE @]
    /\ kind' = [kind EXCEPT ![i] = "free"]
    /\ up' = [up EXCEPT ![i] = NoIno]
    /\ indexed' = indexed \ {i} /\ owns' = owns \ {i}

LEMMA RemoveInode ==
  ASSUME TypeOK, Sound, TypeOK', NEW d \in Dirs, NEW n \in Name, NEW i \in Ino, Removes(d, n, i)
  PROVE  Sound'
<1>1. /\ NamesIn(ents, kind, up, owns, indexed, Dirs)
      /\ OneEntryIn(ents, up, Dirs)
      /\ CountsIn(ents, kind, links, indexed, Dirs)
  BY SoundIs
<1>2. /\ d \in Ino /\ i # Root /\ i # NoIno /\ i # d
      /\ Root \in Dirs /\ Dirs \subseteq Ino /\ ents[d][n] = i
      /\ SlotsIn(ents, i) = {<<d, n>>} /\ ChildrenIn(ents, i) = {}
  <2>1. d \in Ino /\ ents[d][n] = i
    BY DirsIs DEF Removes
  <2>2. d \in Dirs /\ i # Root /\ kind[i] # "free"
    BY <2>1, Entry
  <2>3. ChildrenIn(ents, i) = {} /\ SlotsIn(ents, i) = {<<d, n>>}
    BY DEF Removes
  <2>4. i # NoIno
    BY DirsIs
  <2>5. i # d
    BY <2>1, <2>3, <2>4 DEF ChildrenIn
  <2> QED
    BY <2>1, <2>2, <2>3, <2>4, <2>5, DirsIs
<1>3. /\ \A x \in Ino : kind'[x] = IF x = i THEN "free" ELSE kind[x]
      /\ \A x \in Ino : up'[x] = IF x = i THEN NoIno ELSE up[x]
      /\ \A x \in Ino \ {i, d} : links'[x] = links[x]
      /\ links'[i] = 0 /\ links'[d] = IF i \in Dirs THEN LinkDec(d, links[d]) ELSE links[d]
      /\ indexed' = indexed \ {i} /\ owns' = owns \ {i}
  BY <1>2 DEF TypeOK, Removes, Dirs
<1>4. Dirs' = Dirs \ {i}
  <2>1. \A x \in Ino : x \in Dirs' <=> kind'[x] = "dir"
    BY DirsIs DEF Dirs, IsDir
  <2> QED
    BY <1>2, <1>3, <2>1, DirsIs DEF Dirs
<1>5. ents \in Tables /\ ents' = SetIn(ents, d, n, NoIno) /\ kind \in Kinds /\ kind' \in Kinds
  BY InTables, InTables1 DEF Removes
<1>6. /\ SlotsIn(ents', i) = {}
      /\ \A x \in Ino \ {i} : SlotsIn(ents', x) = SlotsIn(ents, x)
      /\ \A x \in Ino \ {d} : ChildrenIn(ents', x) = ChildrenIn(ents, x)
  <2>1. SlotsIn(ents', i) = SlotsIn(ents, i) \ {<<d, n>>}
    BY <1>2, <1>5, FewerSlots
  <2>2. ASSUME NEW x \in Ino \ {i}
        PROVE  SlotsIn(ents', x) = SlotsIn(ents, x)
    <3>1. d \in Ino /\ x # ents[d][n] /\ x \in Ino \ {NoIno}
      BY <1>2, DirsIs
    <3> QED
      BY <1>5, <3>1, OtherSlots
  <2>3. \A x \in Ino \ {d} : ChildrenIn(ents', x) = ChildrenIn(ents, x)
    BY <1>2, <1>5, OtherChildren
  <2> QED
    BY <1>2, <2>1, <2>2, <2>3
<1>7. NamesIn(ents', kind', up', owns', indexed', Dirs')
  <2>1. ASSUME NEW x \in Ino \ {Root}
        PROVE  (kind'[x] = "free") <=> (SlotsIn(ents', x) = {})
    <3>1. CASE x = i
      BY <1>3, <1>6, <3>1
    <3>2. CASE x # i
      BY <1>1, <1>3, <1>6, <3>2 DEF NamesIn
    <3> QED
      BY <3>1, <3>2
  <2>2. ASSUME NEW x \in Ino \ Dirs'
        PROVE  ChildrenIn(ents', x) = {} /\ up'[x] = NoIno
    <3>1. CASE x = i
      BY <1>2, <1>3, <1>6, <3>1
    <3>2. CASE x # i
      BY <1>1, <1>3, <1>4, <1>6, <2>2, <3>2 DEF NamesIn
    <3> QED
      BY <3>1, <3>2
  <2>3. ASSUME NEW x \in owns'
        PROVE  kind'[x] \in {"file", "symlink"}
    BY <1>1, <1>3 DEF NamesIn, TypeOK
  <2>4. indexed' \subseteq Dirs'
    BY <1>1, <1>3, <1>4 DEF NamesIn
  <2> QED
    BY <2>1, <2>2, <2>3, <2>4 DEF NamesIn
<1>8. OneEntryIn(ents', up', Dirs')
  BY <1>1, <1>2, <1>3, <1>4, <1>6 DEF OneEntryIn
<1>9. Rooted'
  BY <1>2, <1>4, RootedCut DEF Removes
<1>10. CountsIn(ents', kind', links', indexed', Dirs')
  <2>1. /\ \A x \in Ino \ {d} : SubDirsIn(ents', kind', x) = SubDirsIn(ents, kind, x)
        /\ SubDirsIn(ents', kind', d) = SubDirsIn(ents, kind, d) \ {n}
    <3>1. \A x \in Ino : SubDirsIn(ents', kind', x) = SubDirsIn(ents', kind, x)
      <4>1. \A x \in Ino \ {i} : kind'[x] = kind[x]
        BY <1>3
      <4>2. ents' \in Tables
        BY InTables1
      <4> QED
        BY <1>5, <1>6, <4>1, <4>2, SameSubDirs
    <3>2. \A x \in Ino \ {d} : SubDirsIn(ents', kind, x) = SubDirsIn(ents, kind, x)
      BY <1>2, <1>5, SetEntrySubDirs
    <3>3. SubDirsIn(ents', kind, d) = SubDirsIn(ents, kind, d) \ {n}
      BY <1>2, <1>5, SetEntrySubDirs
    <3> QED
      BY <1>2, <3>1, <3>2, <3>3
  <2>2. ASSUME NEW x \in Dirs \ {d, i}
        PROVE  DirCountOK(links'[x], Cardinality(SubDirsIn(ents', kind', x)), x \in indexed')
    BY <1>1, <1>2, <1>3, <2>1 DEF CountsIn, DirCountOK
  <2>3. DirCountOK(links'[d], Cardinality(SubDirsIn(ents', kind', d)), d \in indexed')
    <3>1. DirCountOK(links[d], Cardinality(SubDirsIn(ents, kind, d)), d \in indexed)
      BY <1>1 DEF CountsIn
    <3>2. CASE i \in Dirs
      <4>1. n \in SubDirsIn(ents, kind, d)
        BY <1>2, <3>2, DirsIs DEF SubDirsIn
      <4>2. /\ Cardinality(SubDirsIn(ents', kind', d)) = Cardinality(SubDirsIn(ents, kind, d)) - 1
            /\ Cardinality(SubDirsIn(ents, kind, d)) \in Nat
            /\ Cardinality(SubDirsIn(ents', kind', d)) \in Nat
        <5>1. IsFiniteSet(SubDirsIn(ents, kind, d))
          BY <1>2, <1>5, FiniteTables
        <5>2. ents' \in Tables
          BY InTables1
        <5> QED
          BY <1>2, <1>5, <2>1, <4>1, <5>1, <5>2, FiniteTables, OneMore
      <4>3. /\ links[d] > 2 => links'[d] = links[d] - 1
            /\ links[d] <= 2 => links'[d] = links[d]
        BY <1>2, <1>3, <3>2, DirsIs, LinksNat, Dec
      <4> QED
        BY <1>2, <1>3, <3>1, <4>2, <4>3, LinksNat DEF DirCountOK
    <3>3. CASE i \notin Dirs
      <4>1. n \notin SubDirsIn(ents, kind, d)
        BY <1>2, <3>3, DirsIs DEF SubDirsIn
      <4>2. SubDirsIn(ents', kind', d) = SubDirsIn(ents, kind, d)
        BY <2>1, <4>1
      <4> QED
        BY <1>2, <1>3, <3>1, <3>3, <4>2 DEF DirCountOK
    <3> QED
      BY <3>2, <3>3
  <2>4. ASSUME NEW x \in Ino \ Dirs'
        PROVE  links'[x] = Cardinality(SlotsIn(ents', x))
    <3>1. CASE x = i
      BY <1>3, <1>6, <3>1, FS_EmptySet
    <3>2. CASE x # i
      BY <1>1, <1>2, <1>3, <1>4, <1>6, <3>2 DEF CountsIn
    <3> QED
      BY <3>1, <3>2
  <2> QED
    BY <1>4, <2>2, <2>3, <2>4 DEF CountsIn
<1> QED
  BY <1>7, <1>8, <1>9, <1>10, SoundIs1

\* The inode i gets the name nq in the directory to for the name np in from.
MovesName(i, from, np, to, nq) ==
    /\ ents[from][np] = i /\ ents[to][nq] = NoIno
    /\ ents' = SetIn(SetIn(ents, to, nq, i), from, np, NoIno)
    /\ kind' = kind /\ indexed' = indexed /\ owns' = owns

LEMMA MoveSlots ==
  ASSUME TypeOK, Sound, TypeOK', NEW from \in Dirs, NEW np \in Name, NEW to \in Dirs, NEW nq \in Name,
         NEW i \in Ino, MovesName(i, from, np, to, nq)
  PROVE  /\ SlotsIn(ents', i) = (SlotsIn(ents, i) \cup {<<to, nq>>}) \ {<<from, np>>}
         /\ <<from, np>> \in SlotsIn(ents, i) /\ <<to, nq>> \notin SlotsIn(ents, i)
         /\ \A x \in Ino \ {i} : SlotsIn(ents', x) = SlotsIn(ents, x)
         /\ \A x \in Ino \ {from, to} : ChildrenIn(ents', x) = ChildrenIn(ents, x)
         /\ Cardinality(SlotsIn(ents', i)) = Cardinality(SlotsIn(ents, i))
<1> DEFINE e == SetIn(ents, to, nq, i)
<1>1. /\ from \in Ino /\ to \in Ino /\ i # NoIno /\ i \in Ino \cup {NoIno} /\ NoIno \in Ino \cup {NoIno}
      /\ ents[from][np] = i /\ ents[to][nq] = NoIno /\ ents' = SetIn(e, from, np, NoIno)
  BY DirsIs DEF MovesName
<1>2. ents \in Tables
  BY InTables
<1>3. /\ e \in Tables /\ e[from][np] = i
      /\ SlotsIn(e, i) = SlotsIn(ents, i) \cup {<<to, nq>>}
      /\ \A x \in Ino \ {i} : x # NoIno => SlotsIn(e, x) = SlotsIn(ents, x)
      /\ \A x \in Ino \ {to} : ChildrenIn(e, x) = ChildrenIn(ents, x)
  <2>0. to \in Ino /\ ents[to][nq] = NoIno
    BY <1>1
  <2>1. /\ e \in Tables
        /\ \A x \in Ino : \A n \in Name : <<x, n>> # <<to, nq>> => e[x][n] = ents[x][n]
    BY <1>2, <2>0, SetIs, OtherEntries
  <2>5. SlotsIn(e, i) = SlotsIn(ents, i) \cup {<<to, nq>>}
    BY <1>2, <2>0, MoreSlots
  <2>2. ASSUME NEW x \in Ino \ {i}, x # NoIno
        PROVE  SlotsIn(e, x) = SlotsIn(ents, x)
    BY <1>2, <2>0, <2>2, OtherSlots
  <2>3. \A x \in Ino \ {to} : ChildrenIn(e, x) = ChildrenIn(ents, x)
    BY <1>1, <1>2, OtherChildren
  <2>4. e[from][np] = i
    BY <1>1, <2>1
  <2> QED
    BY <2>1, <2>2, <2>3, <2>4, <2>5
<1> HIDE DEF e
<1>4. SlotsIn(ents', i) = SlotsIn(e, i) \ {<<from, np>>}
  <2>1. from \in Ino /\ i \in Ino \ {NoIno} /\ e \in Tables
    BY <1>1, <1>3
  <2>2. SlotsIn(SetIn(e, from, np, NoIno), i) = SlotsIn(e, i) \ {<<from, np>>}
    BY <2>1, FewerSlots
  <2> QED
    BY <1>1, <2>2
<1>5. ASSUME NEW x \in Ino \ {i}
      PROVE  SlotsIn(ents', x) = SlotsIn(ents, x)
  <2>1. x # e[from][np] /\ x \in Ino \ {NoIno} /\ from \in Ino /\ e \in Tables
    BY <1>1, <1>3, DirsIs
  <2>2. SlotsIn(SetIn(e, from, np, NoIno), x) = SlotsIn(e, x)
    BY <2>1, OtherSlots
  <2> QED
    BY <1>1, <1>3, <2>1, <2>2
<1>6. ASSUME NEW x \in Ino \ {from, to}
      PROVE  ChildrenIn(ents', x) = ChildrenIn(ents, x)
  <2>1. ChildrenIn(ents', x) = ChildrenIn(e, x)
    BY <1>1, <1>3, OtherChildren
  <2> QED
    BY <1>3, <2>1
<1>7. <<from, np>> \in SlotsIn(ents, i) /\ <<to, nq>> \notin SlotsIn(ents, i)
  BY <1>1 DEF SlotsIn
<1>8. Cardinality(SlotsIn(ents', i)) = Cardinality(SlotsIn(ents, i))
  <2>1. IsFiniteSet(SlotsIn(ents, i)) /\ IsFiniteSet(SlotsIn(e, i))
    BY <1>2, <1>3, FiniteTables
  <2>2. Cardinality(SlotsIn(e, i)) = Cardinality(SlotsIn(ents, i)) + 1
    BY <1>3, <1>7, <2>1, OneMore
  <2>3. Cardinality(SlotsIn(ents', i)) = Cardinality(SlotsIn(e, i)) - 1
    BY <1>3, <1>4, <1>7, <2>1, OneMore
  <2>4. Cardinality(SlotsIn(ents, i)) \in Nat
    BY <2>1, OneMore
  <2> QED
    BY <2>2, <2>3, <2>4
<1> QED
  BY <1>3, <1>4, <1>5, <1>6, <1>7, <1>8

\* Another name for an inode that is not a directory.
LEMMA MoveFile ==
  ASSUME TypeOK, Sound, TypeOK', NEW from \in Dirs, NEW np \in Name, NEW to \in Dirs, NEW nq \in Name,
         NEW i \in Ino \ Dirs, MovesName(i, from, np, to, nq), up' = up, links' = links
  PROVE  Sound'
<1>1. /\ NamesIn(ents, kind, up, owns, indexed, Dirs)
      /\ OneEntryIn(ents, up, Dirs)
      /\ CountsIn(ents, kind, links, indexed, Dirs)
  BY SoundIs
<1>2. /\ from \in Ino /\ to \in Ino /\ i # Root /\ i # NoIno /\ kind[i] # "dir"
      /\ Root \in Dirs /\ Dirs \subseteq Ino
      /\ ents[from][np] = i /\ ents[to][nq] = NoIno
      /\ kind' = kind /\ indexed' = indexed /\ owns' = owns /\ Dirs' = Dirs
  BY DirsIs DEF MovesName, Dirs, IsDir
<1>3. /\ SlotsIn(ents', i) = (SlotsIn(ents, i) \cup {<<to, nq>>}) \ {<<from, np>>}
      /\ <<from, np>> \in SlotsIn(ents, i) /\ <<to, nq>> \notin SlotsIn(ents, i)
      /\ \A x \in Ino \ {i} : SlotsIn(ents', x) = SlotsIn(ents, x)
      /\ \A x \in Ino \ {from, to} : ChildrenIn(ents', x) = ChildrenIn(ents, x)
      /\ Cardinality(SlotsIn(ents', i)) = Cardinality(SlotsIn(ents, i))
  BY MoveSlots
<1>4. NamesIn(ents', kind', up', owns', indexed', Dirs')
  <2>1. SlotsIn(ents, i) # {} /\ SlotsIn(ents', i) # {}
    BY <1>3
  <2>2. ASSUME NEW x \in Ino \ {Root}
        PROVE  (kind'[x] = "free") <=> (SlotsIn(ents', x) = {})
    BY <1>1, <1>2, <1>3, <2>1 DEF NamesIn
  <2> QED
    BY <1>1, <1>2, <1>3, <2>2 DEF NamesIn
<1>5. OneEntryIn(ents', up', Dirs')
  BY <1>1, <1>2, <1>3 DEF OneEntryIn
<1>6. Rooted'
  BY <1>2, BelowIs DEF Rooted, Sound
<1>7. CountsIn(ents', kind', links', indexed', Dirs')
  <2>1. \A x \in Ino : SubDirsIn(ents', kind', x) = SubDirsIn(ents, kind, x)
    <3> DEFINE e == SetIn(ents, to, nq, i)
    <3>1. e \in Tables /\ ents \in Tables /\ kind \in Kinds /\ ents' = SetIn(e, from, np, NoIno)
      <4>1. ents \in Tables /\ kind \in Kinds
        BY InTables
      <4>2. e \in Tables
        BY <1>2, <4>1, SetIs
      <4> QED
        BY <4>1, <4>2 DEF MovesName
    <3>2. /\ \A x \in Ino \ {to} : SubDirsIn(e, kind, x) = SubDirsIn(ents, kind, x)
          /\ SubDirsIn(e, kind, to) = SubDirsIn(ents, kind, to) \ {nq}
      BY <1>2, <3>1, SetEntrySubDirs
    <3> HIDE DEF e
    <3>3. /\ \A x \in Ino \ {from} : SubDirsIn(ents', kind, x) = SubDirsIn(e, kind, x)
          /\ SubDirsIn(ents', kind, from) = SubDirsIn(e, kind, from) \ {np}
      BY <1>2, <3>1, SetEntrySubDirs
    <3>4. nq \notin SubDirsIn(ents, kind, to) /\ np \notin SubDirsIn(ents, kind, from)
      BY <1>2 DEF SubDirsIn
    <3>5. \A x \in Ino : SubDirsIn(e, kind, x) = SubDirsIn(ents, kind, x)
      BY <1>2, <3>2, <3>4
    <3> QED
      BY <1>2, <3>3, <3>4, <3>5
  <2> QED
    BY <1>1, <1>2, <1>3, <2>1 DEF CountsIn
<1> QED
  BY <1>4, <1>5, <1>6, <1>7, SoundIs1

\* Another place for the directory i.
MovesDir(i, from, np, to, nq) ==
    /\ MovesName(i, from, np, to, nq)
    /\ ~Below(to, i) /\ ~Wraps(to)
    /\ up' = [up EXCEPT ![i] = to]
    /\ links' = [[links EXCEPT ![to] = LinkInc(to, @)] EXCEPT ![from] = LinkDec(from, @)]

LEMMA MoveDir ==
  ASSUME TypeOK, Sound, TypeOK', NEW from \in Dirs, NEW np \in Name, NEW to \in Dirs, NEW nq \in Name,
         NEW i \in Dirs, MovesDir(i, from, np, to, nq)
  PROVE  Sound'
<1>1. /\ NamesIn(ents, kind, up, owns, indexed, Dirs)
      /\ OneEntryIn(ents, up, Dirs)
      /\ CountsIn(ents, kind, links, indexed, Dirs)
  BY SoundIs
<1>2. /\ from \in Ino /\ to \in Ino /\ i \in Ino /\ i # NoIno /\ kind[i] = "dir"
      /\ kind[from] = "dir" /\ kind[to] = "dir"
      /\ Root \in Dirs /\ Dirs \subseteq Ino
      /\ ents[from][np] = i /\ ents[to][nq] = NoIno
      /\ kind' = kind /\ indexed' = indexed /\ owns' = owns /\ Dirs' = Dirs
  BY DirsIs DEF MovesDir, MovesName, Dirs, IsDir
<1>3. i # Root /\ SlotsIn(ents, i) = {<<from, np>>} /\ ents \in Tables /\ kind \in Kinds
  <2>1. from \in Dirs /\ i # Root /\ (i \in Dirs => up[i] = from /\ Slots(i) = {<<from, np>>})
    <3>1. from \in Ino /\ i \in Ino /\ ents[from][np] = i
      BY <1>2
    <3> QED
      BY <3>1, Entry
  <2> QED
    BY <1>2, <2>1, InTables
<1>4. /\ \A x \in Ino : up'[x] = IF x = i THEN to ELSE up[x]
      /\ \A x \in Ino \ {from, to} : links'[x] = links[x]
      /\ from # to => /\ links'[to] = LinkInc(to, links[to])
                      /\ links'[from] = LinkDec(from, links[from])
      /\ from = to => links'[to] = LinkDec(to, LinkInc(to, links[to]))
  BY <1>2 DEF TypeOK, MovesDir
<1>5. /\ SlotsIn(ents', i) = {<<to, nq>>}
      /\ \A x \in Ino \ {i} : SlotsIn(ents', x) = SlotsIn(ents, x)
      /\ \A x \in Ino \ {from, to} : ChildrenIn(ents', x) = ChildrenIn(ents, x)
  <2>1. /\ SlotsIn(ents', i) = (SlotsIn(ents, i) \cup {<<to, nq>>}) \ {<<from, np>>}
        /\ <<from, np>> \in SlotsIn(ents, i) /\ <<to, nq>> \notin SlotsIn(ents, i)
        /\ \A x \in Ino \ {i} : SlotsIn(ents', x) = SlotsIn(ents, x)
        /\ \A x \in Ino \ {from, to} : ChildrenIn(ents', x) = ChildrenIn(ents, x)
    <3>1. i \in Ino /\ MovesName(i, from, np, to, nq)
      BY <1>2 DEF MovesDir
    <3> QED
      BY <3>1, MoveSlots
  <2> QED
    BY <1>3, <2>1
<1>6. NamesIn(ents', kind', up', owns', indexed', Dirs')
  <2>1. ASSUME NEW x \in Ino \ {Root}
        PROVE  (kind'[x] = "free") <=> (SlotsIn(ents', x) = {})
    <3>1. CASE x = i
      BY <1>2, <1>5, <3>1
    <3>2. CASE x # i
      BY <1>1, <1>2, <1>5, <3>2 DEF NamesIn
    <3> QED
      BY <3>1, <3>2
  <2> QED
    BY <1>1, <1>2, <1>4, <1>5, <2>1 DEF NamesIn
<1>7. OneEntryIn(ents', up', Dirs')
  <2>1. ASSUME NEW x \in Dirs \ {Root}
        PROVE  \E n \in Name : SlotsIn(ents', x) = {<<up'[x], n>>}
    <3>1. CASE x = i
      BY <1>2, <1>4, <1>5, <3>1
    <3>2. CASE x # i
      BY <1>1, <1>2, <1>4, <1>5, <3>2 DEF OneEntryIn
    <3> QED
      BY <3>1, <3>2
  <2> QED
    BY <1>1, <1>2, <1>3, <1>4, <1>5, <2>1 DEF OneEntryIn
<1>8. Rooted'
  BY <1>2, RootedMove DEF MovesDir
<1>9. CountsIn(ents', kind', links', indexed', Dirs')
  <2> DEFINE e == SetIn(ents, to, nq, i)
             N(t, x) == Cardinality(SubDirsIn(t, kind, x))
  <2>1. e \in Tables /\ ents' \in Tables /\ ents' = SetIn(e, from, np, NoIno)
    <3>1. e \in Tables
      BY <1>2, <1>3, SetIs
    <3> QED
      BY <3>1, InTables1 DEF MovesDir, MovesName
  <2>2. /\ \A x \in Ino \ {to} : SubDirsIn(e, kind, x) = SubDirsIn(ents, kind, x)
        /\ SubDirsIn(e, kind, to) = SubDirsIn(ents, kind, to) \cup {nq}
    BY <1>2, <1>3, SetEntrySubDirs
  <2> HIDE DEF e
  <2>3. /\ \A x \in Ino \ {from} : SubDirsIn(ents', kind, x) = SubDirsIn(e, kind, x)
        /\ SubDirsIn(ents', kind, from) = SubDirsIn(e, kind, from) \ {np}
    BY <1>2, <1>3, <2>1, SetEntrySubDirs
  <2>4. nq \notin SubDirsIn(ents, kind, to) /\ np \in SubDirsIn(ents, kind, from)
    BY <1>2 DEF SubDirsIn
  <2>5. /\ IsFiniteSet(SubDirsIn(ents, kind, to)) /\ IsFiniteSet(SubDirsIn(e, kind, from))
        /\ N(ents, to) \in Nat /\ N(ents, from) \in Nat /\ N(e, from) \in Nat /\ N(ents', from) \in Nat
    BY <1>2, <1>3, <2>1, FiniteTables
  <2>6. N(e, to) = N(ents, to) + 1
    BY <2>2, <2>4, <2>5, OneMore
  <2>7. np \in SubDirsIn(e, kind, from)
    BY <1>2, <2>2, <2>4
  <2>8. N(ents', from) = N(e, from) - 1
    BY <2>3, <2>5, <2>7, OneMore
  <2>9. /\ DirCountOK(links[to], N(ents, to), to \in indexed)
        /\ DirCountOK(links[from], N(ents, from), from \in indexed)
        /\ links[to] \in Nat /\ links[from] \in Nat
    BY <1>1, <1>2, LinksNat DEF CountsIn
  <2>10. /\ LinkInc(to, links[to]) = links[to] + 1 \/ (to \in indexed /\ LinkInc(to, links[to]) = 1)
         /\ to \in indexed /\ links[to] = 1 => LinkInc(to, links[to]) = 1
    BY <1>2, LinksNat, Inc DEF Wraps, MovesDir
  <2> HIDE DEF N
  <2>11. ASSUME NEW x \in Dirs \ {from, to}
         PROVE  DirCountOK(links'[x], N(ents', x), x \in indexed')
    BY <1>1, <1>2, <1>4, <2>2, <2>3 DEF CountsIn, N
  <2>12. CASE from # to
    <3>1. N(e, from) = N(ents, from) /\ N(ents', to) = N(e, to)
      BY <1>2, <2>2, <2>3, <2>12 DEF N
    <3>2. DirCountOK(links'[to], N(ents', to), to \in indexed')
      BY <1>2, <1>4, <2>5, <2>6, <2>9, <2>10, <2>12, <3>1 DEF DirCountOK
    <3>3. DirCountOK(links'[from], N(ents', from), from \in indexed')
      <4>1. /\ links[from] > 2 => links'[from] = links[from] - 1
            /\ links[from] <= 2 => links'[from] = links[from]
        BY <1>2, <1>4, <2>9, <2>12, Dec
      <4> QED
        BY <1>2, <2>5, <2>8, <2>9, <3>1, <4>1 DEF DirCountOK
    <3> QED
      BY <1>1, <1>2, <1>4, <1>5, <2>11, <3>2, <3>3 DEF CountsIn, N
  <2>13. CASE from = to
    <3>1. N(ents', to) = N(ents, to) /\ N(ents', to) = N(e, to) - 1
      BY <2>5, <2>6, <2>8, <2>13
    <3>2. DirCountOK(links'[to], N(ents', to), to \in indexed')
      <4> DEFINE l == LinkInc(to, links[to])
      <4>1. l \in Nat
        BY <2>9, <2>10
      <4>2. /\ l > 2 => links'[to] = l - 1
            /\ l <= 2 => links'[to] = l
        BY <1>2, <1>4, <2>13, <4>1, Dec
      <4>3. N(e, to) >= 1
        BY <2>5, <2>6
      <4>4. N(ents, to) >= 1
        <5>1. Cardinality(SubDirsIn(ents, kind, to) \ {np}) = Cardinality(SubDirsIn(ents, kind, to)) - 1
          BY <2>4, <2>5, <2>13, OneMore
        <5>2. Cardinality(SubDirsIn(ents, kind, to) \ {np}) \in Nat
          BY <2>5, FS_RemoveElement, OneMore
        <5> QED
          BY <2>5, <5>1, <5>2 DEF N
      <4> QED
        BY <1>2, <2>5, <2>9, <2>10, <3>1, <4>1, <4>2, <4>3, <4>4 DEF DirCountOK
    <3> QED
      BY <1>1, <1>2, <1>4, <1>5, <2>11, <2>13, <3>2 DEF CountsIn, N
  <2> QED
    BY <2>12, <2>13
<1> QED
  BY <1>6, <1>7, <1>8, <1>9, SoundIs1

-----------------------------------------------------------------------------
(* What the functions of the model return.                                 *)

LEMMA WrapIs ==
  LinkWrap \in Nat /\ 3 < LinkWrap
<1>1. LinkMax \in Nat /\ LinkWrap \in Nat /\ 2 < LinkMax /\ LinkMax < LinkWrap
  BY NamespaceAssumption
<1> QED
  BY <1>1

LEMMA LinkTypes ==
  ASSUME NEW i, NEW l \in 0 .. (LinkWrap - 1)
  PROVE  LinkInc(i, l) \in 0 .. (LinkWrap - 1) /\ LinkDec(i, l) \in 0 .. (LinkWrap - 1)
<1>1. LinkWrap \in Nat /\ 3 < LinkWrap
  BY WrapIs
<1>2. (l + 1) % LinkWrap \in 0 .. (LinkWrap - 1)
  BY <1>1
<1>3. LinkInc(i, l) \in 0 .. (LinkWrap - 1)
  BY <1>1, <1>2 DEF LinkInc
<1>4. LinkDec(i, l) \in 0 .. (LinkWrap - 1)
  BY <1>1 DEF LinkDec
<1> QED
  BY <1>3, <1>4

LEMMA AddIs ==
  ASSUME NEW e \in Tables, NEW d \in Ino, NEW c, NEW i \in Ino \cup {NoIno}
  PROVE  /\ Add(e, d, c, i) \in Tables
         /\ c \in Name => Add(e, d, c, i) = SetIn(e, d, c, i)
BY DEF Add, SetIn, Tables

LEMMA DropIs ==
  ASSUME NEW e \in Tables, NEW d \in Ino, NEW c
  PROVE  /\ Drop(e, d, c) \in Tables
         /\ c \in Name => Drop(e, d, c) = SetIn(e, d, c, NoIno)
BY AddIs DEF Drop

LEMMA FreeInode ==
  ASSUME FreeInodes # {}
  PROVE  Min(FreeInodes) \in Ino /\ kind[Min(FreeInodes)] = "free"
<1>1. FreeInodes \in SUBSET Nat
  BY NamespaceAssumption DEF FreeInodes
<1> QED
  BY <1>1, MinIs DEF FreeInodes

LEMMA NoNameIsDot ==
  /\ Name \cap Dots = {} /\ "" \notin Name
  /\ \A p \in Paths : NameOf(p) \in Name \cup Dots \cup {""}
BY NamespaceAssumption, LastIs

\* A call that creates, or none, asks nothing of the volume.
LEMMA CallQuiet ==
  ASSUME call' \in {Idle} \cup Request
  PROVE  CallOK'
<1>1. call' \in {Idle} \cup Request => call'.op # "rm"
  BY DEF Idle, Request
<1> QED
  BY <1>1 DEF CallOK, Request

-----------------------------------------------------------------------------
(* Creation.                                                               *)

LEMMA MakeMissingStep ==
  ASSUME IInv, Quiet, NEW r \in Request, MakeMissing(r)
  PROVE  IInv'
<1> DEFINE p == r.path
           n == Missing(p)
           d == Reach(p, n - 1)
           c == p[n]
           i == Min(FreeInodes)
           k == IF n = Len(p) THEN r.kind ELSE "dir"
<1>1. TypeOK /\ Sound
  BY DEF IInv
<1>2. p \in Paths /\ k \in Kind /\ n # 0
  BY NamespaceAssumption DEF Request, MakeMissing, Kind
<1>3. /\ d \in Dirs /\ d \in Ino /\ i \in Ino /\ kind[i] = "free" /\ d # i
      /\ c \in Name \cup Dots /\ (c \in Name => ents[d][c] = NoIno)
  <2>1. d \in Dirs /\ c \in Name \cup Dots /\ (c \in Name => ents[d][c] = NoIno)
    BY <1>1, <1>2, MissingIs
  <2>2. i \in Ino /\ kind[i] = "free"
    BY FreeInode DEF MakeMissing
  <2> QED
    BY <1>1, <2>1, <2>2, DirsIs
<1>4. /\ ents' = Add(ents, d, c, i)
      /\ kind' = [kind EXCEPT ![i] = k]
      /\ k = "dir" => /\ links' = [links EXCEPT ![i] = 2, ![d] = LinkInc(d, @)]
                      /\ up' = [up EXCEPT ![i] = d]
                      /\ indexed' = IF dirIndex THEN indexed \cup {i} ELSE indexed
      /\ k # "dir" => /\ links' = [links EXCEPT ![i] = LinkInc(i, @)]
                      /\ up' = up /\ indexed' = indexed
      /\ damage' = damage \cup (If(c \in Dots, "dots") \cup If(k = "dir" /\ Wraps(d), "overflow"))
      /\ call' = r /\ owns' = owns
  BY DEF MakeMissing, Hurt
<1> HIDE DEF p, n, d, c, i, k
<1>5. TypeOK'
  <2>1. ents' \in Tables
    BY <1>1, <1>3, <1>4, InTables, AddIs
  <2>2. links' \in [Ino -> 0 .. (LinkWrap - 1)]
    <3>1. \A x \in Ino : LinkInc(x, links[x]) \in 0 .. (LinkWrap - 1)
      BY <1>1, LinkTypes DEF TypeOK
    <3>2. 2 \in 0 .. (LinkWrap - 1)
      BY WrapIs
    <3> QED
      BY <1>1, <1>3, <1>4, <3>1, <3>2 DEF TypeOK
  <2>3. damage' \subseteq Damage
    BY <1>1, <1>4 DEF TypeOK, Damage, If
  <2>4. kind' \in [Ino -> Kind \cup {"free"}]
    BY <1>1, <1>2, <1>4 DEF TypeOK
  <2>5. up' \in [Ino -> Ino \cup {NoIno}] /\ indexed' \subseteq Ino /\ owns' \subseteq Ino
    BY <1>1, <1>3, <1>4 DEF TypeOK
  <2> QED
    BY <2>1, <2>2, <2>3, <2>4, <2>5 DEF TypeOK, Tables
<1>6. ASSUME Quiet'
      PROVE  Sound'
  <2>1. c \in Name /\ ~(k = "dir" /\ Wraps(d))
    BY <1>3, <1>4, <1>6 DEF Quiet, If
  <2>2. ents' = SetIn(ents, d, c, i)
    BY <1>1, <1>3, <1>4, <2>1, InTables, AddIs
  <2>3. CASE k = "dir"
    <3>1. AddsDir(d, c, i)
      BY <1>3, <1>4, <2>1, <2>2, <2>3 DEF AddsDir
    <3> QED
      BY <1>1, <1>3, <1>5, <2>1, <3>1, AddDir
  <2>4. CASE k # "dir"
    <3>1. ~Wraps(i)
      <4>1. links[i] = 0
        <5>1. i # Root /\ i \notin Dirs
          BY <1>1, <1>3, DirsIs
        <5>2. SlotsIn(ents, i) = {} /\ links[i] = Cardinality(SlotsIn(ents, i))
          BY <1>1, <1>3, <5>1, SoundIs DEF NamesIn, CountsIn
        <5> QED
          BY <5>2, FS_EmptySet
      <4>2. 1 % LinkWrap = 1
        BY WrapIs
      <4> QED
        BY <4>1, <4>2 DEF Wraps
    <3>2. AddsName(d, c, i, k)
      BY <1>3, <1>4, <2>1, <2>2, <2>4, <3>1 DEF AddsName
    <3> QED
      BY <1>1, <1>2, <1>3, <1>5, <2>1, <2>4, <3>2, AddOneName
  <2> QED
    BY <2>3, <2>4
<1>7. CallOK'
  BY <1>4, CallQuiet
<1> QED
  BY <1>5, <1>6, <1>7 DEF IInv

\* The inodes with blocks change, and nothing else that IInv speaks of but damage.
OnlyOwns ==
    /\ UNCHANGED <<kind, links, ents, up, indexed>>
    /\ owns' \subseteq {x \in Ino : kind[x] \in {"file", "symlink"}}
    /\ damage' \subseteq Damage

LEMMA OwnsStep ==
  ASSUME TypeOK, Sound, OnlyOwns
  PROVE  TypeOK' /\ Sound'
<1>1. TypeOK'
  BY DEF TypeOK, OnlyOwns
<1>2. /\ ents' = ents /\ kind' = kind /\ links' = links /\ up' = up /\ indexed' = indexed
      /\ Dirs' = Dirs
  BY DEF OnlyOwns, Dirs, IsDir
<1>3. Rooted'
  BY <1>2, BelowIs DEF Rooted, Sound
<1>4. NamesIn(ents', kind', up', owns', indexed', Dirs')
  BY <1>2, SoundIs DEF NamesIn, OnlyOwns
<1> QED
  BY <1>1, <1>2, <1>3, <1>4, SoundIs, SoundIs1

LEMMA MakeFailsStep ==
  ASSUME IInv, Quiet, NEW r \in Request, MakeFails(r)
  PROVE  IInv'
<1>1. TypeOK /\ Sound
  BY DEF IInv
<1>2. damage' \subseteq Damage
  BY <1>1 DEF MakeFails, Hurt, Damage, TypeOK
<1>3. OnlyOwns /\ call' = Idle
  BY <1>1, <1>2 DEF OnlyOwns, MakeFails, tree, Sound, Names
<1> QED
  BY <1>1, <1>3, OwnsStep, CallQuiet DEF IInv

LEMMA MakeEndsStep ==
  ASSUME IInv, Quiet, NEW r \in Request, MakeEnds(r)
  PROVE  IInv'
<1>1. TypeOK /\ Sound
  BY DEF IInv
<1>2. r.path \in Paths /\ r.kind \in Kind
  BY NamespaceAssumption DEF Request
<1>3. owns \subseteq {x \in Ino : kind[x] \in {"file", "symlink"}}
  BY <1>1 DEF Sound, Names
<1>4. owns' \subseteq {x \in Ino : kind[x] \in {"file", "symlink"}}
  <2>1. CASE ~Opens(r.path, {r.kind})
    BY <1>3, <2>1 DEF MakeEnds
  <2>2. CASE Opens(r.path, {r.kind})
    <3>1. At(r.path) \in Ino /\ kind[At(r.path)] = r.kind
      BY <1>1, <1>2, <2>2, AtIs DEF Opens
    <3>2. CASE r.kind = "file"
      BY <1>3, <2>2, <3>2 DEF MakeEnds, FileOpened
    <3>3. CASE r.kind = "symlink"
      BY <1>3, <2>2, <3>1, <3>3 DEF MakeEnds, SymlinkSet
    <3>4. CASE r.kind \in {"node", "dir"}
      BY <1>3, <2>2, <3>4 DEF MakeEnds, MknodSet
    <3> QED
      BY <1>2, <3>2, <3>3, <3>4 DEF Kind
  <2> QED
    BY <2>1, <2>2
<1>5. OnlyOwns /\ call' = Idle
  BY <1>1, <1>4 DEF OnlyOwns, MakeEnds, TypeOK
<1> QED
  BY <1>1, <1>5, OwnsStep, CallQuiet DEF IInv

LEMMA WriteStep ==
  ASSUME IInv, Quiet, NEW p \in Paths, Write(p)
  PROVE  IInv'
<1>1. TypeOK /\ Sound
  BY DEF IInv
<1>2. At(p) \in Ino /\ kind[At(p)] = "file"
  BY <1>1, AtIs DEF Write, Opens
<1>3. owns' \subseteq {x \in Ino : kind[x] \in {"file", "symlink"}}
  BY <1>1, <1>2 DEF Write, Sound, Names
<1>4. OnlyOwns /\ call' = Idle
  BY <1>1, <1>3 DEF OnlyOwns, Write, TypeOK
<1> QED
  BY <1>1, <1>4, OwnsStep, CallQuiet DEF IInv

-----------------------------------------------------------------------------
(* ext4_flink, ext4_frename and ext4_fremove.                              *)

LEMMA FlinkStep ==
  ASSUME IInv, Quiet, NEW p \in Paths, NEW q \in Paths, Flink(p, q)
  PROVE  IInv'
<1> DEFINE i == At(p)
           d == Target(q)
           c == NameOf(q)
<1>1. TypeOK /\ Sound /\ Opens(p, Kind \ {"dir"}) /\ CanAdd(q)
  BY DEF IInv, Flink
<1>2. i \in Ino /\ kind[i] \in Kind \ {"dir"} /\ i # NoIno
  BY <1>1, AtIs DEF Opens
<1>3. d \in Dirs /\ d \in Ino /\ c \in Name \cup Dots /\ (c \in Name => ents[d][c] = NoIno)
  BY <1>1, TargetIs, DirsIs
<1>4. /\ ents' = Add(ents, d, c, i)
      /\ links' = [links EXCEPT ![i] = LinkInc(i, @)]
      /\ damage' = damage \cup (If(c \in Dots, "dots") \cup If(Wraps(i), "overflow"))
      /\ kind' = kind /\ owns' = owns /\ up' = up /\ indexed' = indexed /\ call' = Idle
  BY DEF Flink, Hurt
<1> HIDE DEF i, d, c
<1>5. TypeOK'
  <2>1. ents' \in Tables
    BY <1>1, <1>2, <1>3, <1>4, InTables, AddIs
  <2>2. links' \in [Ino -> 0 .. (LinkWrap - 1)]
    BY <1>1, <1>2, <1>4, LinkTypes DEF TypeOK
  <2>3. damage' \subseteq Damage
    BY <1>1, <1>4 DEF TypeOK, Damage, If
  <2> QED
    BY <1>1, <1>4, <2>1, <2>2, <2>3 DEF TypeOK, Tables
<1>6. ASSUME Quiet'
      PROVE  Sound'
  <2>1. c \in Name /\ ~Wraps(i)
    BY <1>3, <1>4, <1>6 DEF Quiet, If
  <2>2. ents' = SetIn(ents, d, c, i)
    BY <1>1, <1>2, <1>3, <1>4, <2>1, InTables, AddIs
  <2>3. kind' = [kind EXCEPT ![i] = kind[i]]
    BY <1>1, <1>2, <1>4 DEF TypeOK
  <2>4. AddsName(d, c, i, kind[i])
    BY <1>3, <1>4, <2>1, <2>2, <2>3 DEF AddsName
  <2> QED
    BY <1>1, <1>2, <1>3, <1>5, <2>1, <2>4, AddOneName
<1> QED
  BY <1>4, <1>5, <1>6, CallQuiet DEF IInv

LEMMA RenameStep ==
  ASSUME IInv, Quiet, NEW p \in Paths, NEW q \in Paths, Rename(p, q)
  PROVE  IInv'
<1> DEFINE i == At(p)
           from == ParentOf(p)
           to == Target(q)
           np == NameOf(p)
           nq == NameOf(q)
           added == Add(ents, to, nq, i)
           inc == [links EXCEPT ![to] = LinkInc(to, @)]
<1>1. TypeOK /\ Sound /\ At(p) # NoIno /\ CanAdd(q)
  BY DEF IInv, Rename
<1>2. /\ i \in Ino /\ i # NoIno /\ np \in Name \cup Dots \cup {""}
      /\ np \in Name => from \in Dirs /\ ents[from][np] = i
      /\ np \notin Name => i \in Dirs
  BY <1>1, AtIs
<1>3. to \in Dirs /\ to \in Ino /\ nq \in Name \cup Dots /\ (nq \in Name => ents[to][nq] = NoIno)
  BY <1>1, TargetIs, DirsIs
<1>4. /\ ents' = IF np # "" THEN Drop(added, from, np) ELSE added
      /\ i \in Dirs =>
           /\ up' = [up EXCEPT ![i] = to]
           /\ links' = IF np # "" THEN [inc EXCEPT ![from] = LinkDec(from, @)] ELSE inc
           /\ damage' = damage \cup (If(Below(to, i), "cycle") \cup If(~(np # ""), "twice")
                          \cup If({np, nq} \cap Dots # {}, "dots") \cup If(Wraps(to), "overflow"))
      /\ i \notin Dirs => /\ up' = up /\ links' = links
                          /\ damage' = damage \cup If(nq \in Dots, "dots")
      /\ kind' = kind /\ owns' = owns /\ indexed' = indexed /\ call' = Idle
  BY <1>2 DEF Rename, Moved, Hurt, Dirs
<1> HIDE DEF i, from, to, np, nq, added, inc
<1>5. added \in Tables /\ (nq \in Name => added = SetIn(ents, to, nq, i))
  BY <1>1, <1>2, <1>3, InTables, AddIs DEF added
<1>6. ents' \in Tables /\ (np \in Name => ents' = SetIn(added, from, np, NoIno))
  <2>1. CASE np \in Name
    <3>1. from \in Ino /\ np # ""
      BY <1>2, <2>1, DirsIs, <1>1, NoNameIsDot
    <3> QED
      BY <1>4, <1>5, <2>1, <3>1, DropIs
  <2>2. CASE np \notin Name
    <3>1. ents' = added
      BY <1>4, <2>2 DEF Drop, Add
    <3> QED
      BY <1>5, <2>2, <3>1
  <2> QED
    BY <2>1, <2>2
<1>7. TypeOK'
  <2>1. links' \in [Ino -> 0 .. (LinkWrap - 1)]
    <3>1. inc \in [Ino -> 0 .. (LinkWrap - 1)]
      BY <1>1, <1>3, LinkTypes DEF TypeOK, inc
    <3>2. [inc EXCEPT ![from] = LinkDec(from, @)] \in [Ino -> 0 .. (LinkWrap - 1)]
      BY <3>1, LinkTypes
    <3>3. links \in [Ino -> 0 .. (LinkWrap - 1)]
      BY <1>1 DEF TypeOK
    <3> QED
      BY <1>4, <3>1, <3>2, <3>3
  <2>2. damage' \subseteq Damage
    BY <1>1, <1>4 DEF TypeOK, Damage, If
  <2>3. up' \in [Ino -> Ino \cup {NoIno}]
    BY <1>1, <1>3, <1>4 DEF TypeOK
  <2> QED
    BY <1>1, <1>4, <1>6, <2>1, <2>2, <2>3 DEF TypeOK, Tables
<1>8. ASSUME Quiet'
      PROVE  Sound'
  <2>1. nq \in Name /\ np \in Name
    <3>1. nq \notin Dots
      BY <1>4, <1>8 DEF Quiet, If
    <3>2. i \in Dirs => np # "" /\ np \notin Dots
      BY <1>4, <1>8 DEF Quiet, If
    <3> QED
      BY <1>2, <1>3, <3>1, <3>2
  <2>2. MovesName(i, from, np, to, nq) /\ from \in Dirs /\ np # ""
    BY <1>2, <1>3, <1>4, <1>5, <1>6, <2>1, NoNameIsDot DEF MovesName
  <2>3. CASE i \in Dirs
    <3>1. ~Below(to, i) /\ ~Wraps(to)
      BY <1>4, <1>8, <2>3 DEF Quiet, If
    <3>2. MovesDir(i, from, np, to, nq)
      BY <1>4, <2>2, <2>3, <3>1 DEF MovesDir, inc
    <3> QED
      BY <1>1, <1>3, <1>7, <2>1, <2>2, <2>3, <3>2, MoveDir
  <2>4. CASE i \notin Dirs
    BY <1>1, <1>2, <1>3, <1>4, <1>7, <2>1, <2>2, <2>4, MoveFile
  <2> QED
    BY <2>3, <2>4
<1> QED
  BY <1>4, <1>7, <1>8, CallQuiet DEF IInv

LEMMA RenameFailsStep ==
  ASSUME IInv, Quiet, NEW p \in Paths, NEW q \in Paths, RenameFails(p, q)
  PROVE  IInv'
<1>1. TypeOK /\ Sound /\ At(p) # NoIno /\ CanAdd(q)
  BY DEF IInv, RenameFails
<1>2. At(p) \in Ino /\ Target(q) \in Ino
  BY <1>1, AtIs, TargetIs, DirsIs
<1>3. ents' \in Tables
  BY <1>1, <1>2, InTables, AddIs DEF RenameFails
<1>4. TypeOK'
  BY <1>1, <1>3 DEF RenameFails, TypeOK, Tables, Hurt, Damage
<1>5. ~Quiet'
  BY DEF Quiet, RenameFails, Hurt
<1> QED
  BY <1>4, <1>5 DEF IInv

LEMMA FreeIs ==
  ASSUME TypeOK, NEW i \in Ino
  PROVE  /\ Free({i}) => /\ kind' = [kind EXCEPT ![i] = "free"]
                         /\ up' = [up EXCEPT ![i] = NoIno]
                         /\ indexed' = indexed \ {i} /\ owns' = owns \ {i}
         /\ Free({}) => kind' = kind /\ up' = up /\ indexed' = indexed /\ owns' = owns
BY DEF TypeOK, Free

LEMMA FreeType ==
  ASSUME TypeOK, NEW S \in SUBSET Ino, Free(S)
  PROVE  /\ kind' \in [Ino -> Kind \cup {"free"}] /\ up' \in [Ino -> Ino \cup {NoIno}]
         /\ owns' \subseteq Ino /\ indexed' \subseteq Ino
BY DEF TypeOK, Free

\* A file whose count is at most 1 has one entry.
LEMMA LastName ==
  ASSUME TypeOK, Sound, NEW d \in Dirs, NEW n \in Name, NEW i \in Ino \ Dirs, ents[d][n] = i, links[i] <= 1
  PROVE  SlotsIn(ents, i) = {<<d, n>>} /\ ChildrenIn(ents, i) = {}
<1>1. d \in Ino /\ ents \in Tables
  BY DirsIs, InTables
<1>2. <<d, n>> \in SlotsIn(ents, i)
  BY <1>1 DEF SlotsIn
<1>3. /\ links[i] = Cardinality(SlotsIn(ents, i)) /\ links[i] \in Nat
      /\ IsFiniteSet(SlotsIn(ents, i)) /\ ChildrenIn(ents, i) = {}
  <2>1. links[i] = Cardinality(SlotsIn(ents, i)) /\ ChildrenIn(ents, i) = {}
    BY SoundIs DEF CountsIn, NamesIn
  <2> QED
    BY <1>1, <2>1, LinksNat, FiniteTables
<1>4. Cardinality(SlotsIn(ents, i)) # 0
  BY <1>2, <1>3, FS_EmptySet
<1>5. Cardinality(SlotsIn(ents, i)) = 1
  BY <1>3, <1>4
<1>6. PICK x : SlotsIn(ents, i) = {x}
  BY <1>3, <1>5, FS_Singleton
<1> QED
  BY <1>2, <1>3, <1>6

LEMMA FremoveStep ==
  ASSUME IInv, Quiet, NEW p \in Paths, Fremove(p)
  PROVE  IInv'
<1> DEFINE i == At(p)
           d == ParentOf(p)
           n == NameOf(p)
           left == LinkDec(i, links[i])
<1>1. TypeOK /\ Sound /\ Opens(p, Kind \ {"dir"})
  BY DEF IInv, Fremove
<1>2. i \in Ino /\ i \notin Dirs /\ kind[i] # "dir" /\ n \in Name /\ d \in Dirs /\ d \in Ino /\ ents[d][n] = i /\ d # i
  <2>1. i \in Ino /\ kind[i] # "dir" /\ At(p) # NoIno
    BY <1>1, AtIs DEF Opens
  <2>2. i \notin Dirs
    BY <1>1, <2>1, DirsIs
  <2> QED
    BY <1>1, <2>1, <2>2, AtIs, DirsIs
<1>3. /\ ents' = SetIn(ents, d, n, NoIno) /\ ents' \in Tables
      /\ links' = [links EXCEPT ![i] = left]
      /\ Free(If(left = 0, i)) /\ damage' = damage /\ call' = Idle
  BY <1>1, <1>2, InTables, DropIs DEF Fremove
<1> HIDE DEF i, d, n, left
<1>4. left \in 0 .. (LinkWrap - 1) /\ left \in Nat /\ links[i] \in Nat
  BY <1>1, <1>2, LinkTypes, LinksNat, WrapIs DEF left
<1>5. TypeOK'
  <2>1. links' \in [Ino -> 0 .. (LinkWrap - 1)]
    BY <1>1, <1>3, <1>4 DEF TypeOK
  <2>2. If(left = 0, i) \in SUBSET Ino
    BY <1>2 DEF If
  <2> QED
    BY <1>1, <1>3, <2>1, <2>2, FreeType DEF TypeOK, Tables
<1>6. Sound'
  <2>1. CASE left = 0
    <3>1. Free({i})
      BY <1>3, <2>1 DEF If
    <3>2. links[i] <= 1
      BY <1>2, <1>4, <2>1 DEF LinkDec, left
    <3>3. SlotsIn(ents, i) = {<<d, n>>} /\ ChildrenIn(ents, i) = {}
      BY <1>1, <1>2, <3>2, LastName
    <3>4. links' = [links EXCEPT ![i] = 0, ![d] = IF IsDir(i) THEN LinkDec(d, @) ELSE @]
      BY <1>1, <1>2, <1>3, <2>1 DEF TypeOK, IsDir
    <3>5. Removes(d, n, i)
      BY <1>1, <1>2, <1>3, <3>1, <3>3, <3>4, FreeIs DEF Removes
    <3> QED
      BY <1>1, <1>2, <1>5, <3>5, RemoveInode
  <2>2. CASE left # 0
    <3>1. kind' = kind /\ up' = up /\ indexed' = indexed /\ owns' = owns
      BY <1>1, <1>2, <1>3, <2>2, FreeIs DEF If
    <3>2. DropsName(d, n, i)
      BY <1>2, <1>3, <2>2, <3>1 DEF DropsName, left
    <3> QED
      BY <1>1, <1>2, <1>5, <3>2, DropName
  <2> QED
    BY <2>1, <2>2
<1> QED
  BY <1>3, <1>5, <1>6, CallQuiet DEF IInv

LEMMA FremoveFailsStep ==
  ASSUME IInv, Quiet, NEW p \in Paths, FremoveFails(p)
  PROVE  IInv'
<1>1. TypeOK /\ Sound /\ Opens(p, Kind \ {"dir"})
  BY DEF IInv, FremoveFails
<1>2. At(p) \in Ino /\ NameOf(p) \in Name /\ ParentOf(p) \in Ino
  <2>1. At(p) \in Ino /\ kind[At(p)] # "dir" /\ At(p) # NoIno
    BY <1>1, AtIs DEF Opens
  <2>2. At(p) \notin Dirs
    BY <1>1, <2>1, DirsIs
  <2> QED
    BY <1>1, <2>1, <2>2, AtIs, DirsIs
<1>3. /\ kind' = kind /\ up' = up /\ indexed' = indexed /\ call' = Idle
      /\ owns' = owns \ {At(p)}
  BY DEF FremoveFails
<1>4. CASE ents' = ents /\ links' = links /\ damage' = damage
  <2>1. OnlyOwns
    BY <1>1, <1>3, <1>4 DEF OnlyOwns, TypeOK, Sound, Names
  <2> QED
    BY <1>1, <1>3, <2>1, OwnsStep, CallQuiet DEF IInv
<1>5. CASE /\ ents' = Drop(ents, ParentOf(p), NameOf(p))
           /\ links' = [links EXCEPT ![At(p)] = 0]
           /\ Hurt({"leaked"})
  <2>1. ents' \in Tables
    BY <1>1, <1>2, <1>5, InTables, DropIs
  <2>2. TypeOK'
    <3>1. links' \in [Ino -> 0 .. (LinkWrap - 1)]
      <4>1. 0 \in 0 .. (LinkWrap - 1) /\ links \in [Ino -> 0 .. (LinkWrap - 1)]
        BY <1>1, WrapIs DEF TypeOK
      <4> QED
        BY <1>5, <4>1
    <3>2. damage' \subseteq Damage
      BY <1>1, <1>5 DEF TypeOK, Hurt, Damage
    <3> QED
      BY <1>1, <1>3, <2>1, <3>1, <3>2 DEF TypeOK, Tables
  <2>3. ~Quiet'
    BY <1>5 DEF Quiet, Hurt
  <2> QED
    BY <2>2, <2>3 DEF IInv
<1> QED
  BY <1>4, <1>5 DEF FremoveFails

-----------------------------------------------------------------------------
(* ext4_dir_rm.                                                            *)

\* Nothing has changed but the call.
LEMMA Unchanged ==
  ASSUME TypeOK, Sound, UNCHANGED <<tree, damage>>
  PROVE  TypeOK' /\ Sound' /\ Dirs' = Dirs
<1>1. OnlyOwns
  BY DEF OnlyOwns, tree, TypeOK, Sound, Names
<1> QED
  BY <1>1, OwnsStep DEF OnlyOwns, Dirs, IsDir

LEMMA Deeper ==
  ASSUME NEW n \in Nat \ {0}
  PROVE  n + 1 \in Nat \ {0} /\ (n > 1 => n - 1 \in Nat \ {0}) /\ 1 \in Nat \ {0}
OBVIOUS

\* What a step of a removal has to keep.
LEMMA WalkOn ==
  ASSUME NEW t \in Dirs', NEW a \in Dirs', NEW n \in Nat \ {0}, NEW c \in Name \cup Dots \cup {""},
         call' = [op |-> "rm", top |-> t, at |-> a, depth |-> n, name |-> c],
         c \in Name => t # Root /\ ents'[up'[t]][c] = t,
         \E f : Way(f, Dirs', up', t, a, n)
  PROVE  CallOK'
<1>1. call'.top = t /\ call'.at = a /\ call'.depth = n /\ call'.name = c
  OBVIOUS
<1>2. call' \in Walk'
  BY DEF Walk, WalkIn
<1>3. \E f : Climbs(f)'
  BY <1>1 DEF Climbs
<1> QED
  BY <1>1, <1>2, <1>3 DEF CallOK

LEMMA DirRmStep ==
  ASSUME IInv, Quiet, NEW p \in Paths, DirRm(p)
  PROVE  IInv'
<1> DEFINE d == At(p)
           f == [k \in 0 .. 0 |-> d]
<1>1. TypeOK /\ Sound /\ Opens(p, {"dir"})
  BY DEF IInv, DirRm
<1>2. /\ d \in Dirs /\ NameOf(p) \in Name \cup Dots \cup {""}
      /\ NameOf(p) \in Name => ParentOf(p) \in Ino /\ ents[ParentOf(p)][NameOf(p)] = d
  <2>1. d \in Ino /\ kind[d] = "dir" /\ At(p) # NoIno
    BY <1>1, AtIs DEF Opens
  <2> QED
    BY <1>1, <2>1, AtIs, DirsIs
<1>3. TypeOK' /\ Sound' /\ Dirs' = Dirs /\ ents' = ents /\ up' = up
  BY <1>1, Unchanged DEF DirRm, tree
<1>4. call' = [op |-> "rm", top |-> d, at |-> d, depth |-> 1, name |-> NameOf(p)]
  BY DEF DirRm
<1> HIDE DEF d
<1>6. NameOf(p) \in Name => d # Root /\ ents[up[d]][NameOf(p)] = d
  <2>1. ASSUME NameOf(p) \in Name
        PROVE  d # Root /\ up[d] = ParentOf(p)
    <3>1. d \in Ino /\ ParentOf(p) \in Ino /\ ents[ParentOf(p)][NameOf(p)] = d
      BY <1>1, <1>2, <2>1, DirsIs
    <3>2. ParentOf(p) \in Dirs /\ d # Root /\ (d \in Dirs => up[d] = ParentOf(p))
      BY <1>1, <2>1, <3>1, Entry
    <3> QED
      BY <1>2, <3>2
  <2> QED
    BY <1>2, <2>1
<1>7. Way(f, Dirs, up, d, d, 1)
  <2>1. f \in [0 .. (1 - 1) -> Dirs] /\ f[0] = d /\ f[1 - 1] = d
    <3>1. f \in [0 .. 0 -> Dirs]
      BY <1>2
    <3>2. 0 \in 0 .. 0
      OBVIOUS
    <3>3. f[0] = d
      BY <3>2
    <3>4. 1 - 1 = 0
      OBVIOUS
    <3> HIDE DEF f
    <3> QED
      BY <3>1, <3>3, <3>4
  <2>2. 0 .. (1 - 2) = {}
    OBVIOUS
  <2> HIDE DEF f
  <2> QED
    BY <2>1, <2>2 DEF Way
<1>8. CallOK'
  <2>1. 1 \in Nat \ {0} /\ d \in Dirs' /\ Way(f, Dirs', up', d, d, 1)
    <3>1. Way(f, Dirs', up', d, d, 1)
      <4> HIDE DEF f
      <4> QED
        BY <1>3, <1>7
    <3>2. d \in Dirs'
      BY <1>2, <1>3
    <3> QED
      BY <3>1, <3>2
  <2>2. NameOf(p) \in Name => d # Root /\ ents'[up'[d]][NameOf(p)] = d
    BY <1>3, <1>6
  <2> HIDE DEF f
  <2> QED
    BY <1>2, <1>4, <2>1, <2>2, WalkOn
<1> QED
  BY <1>3, <1>8 DEF IInv

\* A removal under way.
LEMMA WalkIs ==
  ASSUME IInv, Removing
  PROVE  /\ TypeOK /\ Sound /\ Quiet /\ call \in Walk /\ call.op = "rm"
         /\ call.at \in Dirs /\ call.at \in Ino /\ call.top \in Dirs
         /\ call.depth \in Nat \ {0} /\ call.name \in Name \cup Dots \cup {""}
         /\ call.name \in Name => call.top # Root /\ ents[up[call.top]][call.name] = call.top
         /\ \E f : Climbs(f)
<1>1. TypeOK /\ Sound /\ Quiet /\ CallOK /\ call.op = "rm"
  BY DEF IInv, Removing
<1>2. call \in Walk
  BY <1>1 DEF CallOK, Idle, Request
<1> QED
  BY <1>1, <1>2, DirsIs DEF CallOK, Walk, WalkIn

\* The directories on the way have a child.
LEMMA OnWay ==
  ASSUME IInv, Removing, NEW f, Climbs(f), NEW c \in Ino, ChildrenIn(ents, c) = {}, c # call.at
  PROVE  \A k \in 0 .. (call.depth - 1) : f[k] # c
<1>1. SUFFICES ASSUME NEW k \in 0 .. (call.depth - 1), f[k] = c PROVE FALSE
  OBVIOUS
<1>2. TypeOK /\ Sound /\ call.depth \in Nat \ {0}
  BY WalkIs
<1>3. k # 0
  BY <1>1 DEF Climbs, Way
<1>4. k - 1 \in 0 .. (call.depth - 2) /\ k - 1 \in 0 .. (call.depth - 1) /\ (k - 1) + 1 = k
  BY <1>2, <1>3
<1>5. f[k - 1] \in Dirs \ {Root} /\ c = up[f[k - 1]]
  BY <1>1, <1>4 DEF Climbs, Way
<1>6. \E n \in Name : ents[c][n] = f[k - 1]
  BY <1>2, <1>5, Parent
<1>7. f[k - 1] # NoIno
  BY <1>2, <1>5, DirsIs
<1> QED
  BY <1>6, <1>7 DEF ChildrenIn

\* The directory that is removed is not below where the removal stands.
LEMMA NoCycle ==
  ASSUME IInv, Removing, NEW f, Climbs(f), NEW n \in Name, ents[call.at][n] # NoIno
  PROVE  ents[call.at][n] # call.top
<1>1. SUFFICES ASSUME ents[call.at][n] = call.top PROVE FALSE
  OBVIOUS
<1>2. /\ TypeOK /\ Sound /\ call.at \in Ino /\ call.at \in Dirs /\ call.top \in Dirs
      /\ call.depth \in Nat \ {0}
  BY WalkIs
<1>3. call.top # Root /\ up[call.top] = call.at
  <2>1. call.at \in Ino /\ call.top \in Ino /\ ents[call.at][n] = call.top
    BY <1>1, <1>2, DirsIs
  <2>2. call.at \in Dirs /\ call.top # Root /\ (call.top \in Dirs => up[call.top] = call.at)
    BY <1>2, <2>1, Entry
  <2> QED
    BY <1>2, <2>2
<1> DEFINE S == {f[k] : k \in 0 .. (call.depth - 1)}
<1>4. S \in SUBSET Ino /\ call.at \in S
  BY <1>2, DirsIs DEF Climbs, Way
<1>5. Closed(up, S)
  <2>1. ASSUME NEW k \in 0 .. (call.depth - 1)
        PROVE  up[f[k]] \in S
    <3>1. CASE k = call.depth - 1
      BY <1>3, <1>4, <3>1 DEF Climbs, Way
    <3>2. CASE k # call.depth - 1
      <4>1. k \in 0 .. (call.depth - 2) /\ k + 1 \in 0 .. (call.depth - 1)
        BY <1>2, <3>2
      <4> QED
        BY <4>1 DEF Climbs, Way
    <3> QED
      BY <3>1, <3>2
  <2> QED
    BY <2>1 DEF Closed
<1>6. Root \in S
  BY <1>2, <1>4, <1>5, BelowIs DEF Sound, Rooted
<1>7. PICK k \in 0 .. (call.depth - 1) : f[k] = Root
  BY <1>6
<1>8. k \in 0 .. (call.depth - 2)
  <2>1. k # call.depth - 1
    BY <1>3, <1>7 DEF Climbs, Way
  <2> QED
    BY <1>2, <2>1
<1> QED
  BY <1>7, <1>8 DEF Climbs, Way

LEMMA RmDescendStep ==
  ASSUME IInv, RmDescend
  PROVE  IInv'
<1>1. Removing
  BY DEF RmDescend
<1>2. /\ TypeOK /\ Sound /\ call \in Walk /\ call.at \in Ino /\ call.depth \in Nat \ {0}
      /\ call.name \in Name => call.top # Root /\ ents[up[call.top]][call.name] = call.top
  BY <1>1, WalkIs
<1>3. PICK n \in Children(call.at) :
         /\ HasChildren(ents[call.at][n])
         /\ call' = [call EXCEPT !.at = ents[call.at][n], !.depth = @ + 1]
  BY DEF RmDescend
<1> DEFINE c == ents[call.at][n]
<1>4. n \in Name /\ c # NoIno /\ c \in Ino /\ c \in Dirs
  BY <1>2, <1>3 DEF Children, TypeOK, HasChildren, Dirs
<1>5. TypeOK' /\ Sound' /\ Dirs' = Dirs /\ ents' = ents /\ up' = up
  BY <1>2, Unchanged DEF RmDescend, tree
<1>6. PICK f : Climbs(f)
  BY <1>1, WalkIs
<1>7. c # call.top
  BY <1>1, <1>4, <1>6, NoCycle
<1>8. up[c] = call.at /\ c # Root
  <2>1. call.at \in Dirs /\ c # Root /\ (c \in Dirs => up[c] = call.at)
    <3>1. call.at \in Ino /\ n \in Name /\ c \in Ino /\ ents[call.at][n] = c
      BY <1>2, <1>4
    <3> HIDE DEF c
    <3> QED
      BY <1>2, <3>1, Entry
  <2> QED
    BY <1>4, <2>1
<1> HIDE DEF c
<1>9. call' = [op |-> "rm", top |-> call.top, at |-> c, depth |-> call.depth + 1, name |-> call.name]
  BY <1>2, <1>3 DEF Walk, WalkIn, c
<1> DEFINE g == [k \in 0 .. call.depth |-> IF k = 0 THEN c ELSE f[k - 1]]
<1>10. Way(g, Dirs, up, call.top, c, call.depth + 1)
  <2>1. \A k \in 1 .. call.depth : k - 1 \in 0 .. (call.depth - 1) /\ g[k] = f[k - 1]
    BY <1>2
  <2>2. g \in [0 .. call.depth -> Dirs]
    BY <1>2, <1>4, <1>6, <2>1 DEF Climbs, Way
  <2>3. g[0] = c /\ g[call.depth] = call.top
    BY <1>2, <1>6, <2>1 DEF Climbs, Way
  <2>4. ASSUME NEW k \in 0 .. (call.depth - 1)
        PROVE  g[k] \notin {call.top, Root} /\ g[k + 1] = up[g[k]]
    <3>1. CASE k = 0
      BY <1>2, <1>6, <1>7, <1>8, <3>1 DEF Climbs, Way
    <3>2. CASE k # 0
      <4>1. k - 1 \in 0 .. (call.depth - 2) /\ (k - 1) + 1 = k /\ k \in 1 .. call.depth /\ k + 1 \in 1 .. call.depth
        BY <1>2, <3>2
      <4>2. g[k] = f[k - 1] /\ g[k + 1] = f[k]
        BY <2>1, <4>1
      <4> QED
        BY <1>6, <4>1, <4>2 DEF Climbs, Way
    <3> QED
      BY <3>1, <3>2
  <2> HIDE DEF g
  <2>5. (call.depth + 1) - 1 = call.depth /\ (call.depth + 1) - 2 = call.depth - 1
    BY <1>2
  <2> QED
    BY <2>2, <2>3, <2>4, <2>5 DEF Way
<1> HIDE DEF g
<1>11. CallOK'
  <2>1. /\ call.top \in Dirs' /\ c \in Dirs' /\ call.depth + 1 \in Nat \ {0}
        /\ call.name \in Name \cup Dots \cup {""} /\ Way(g, Dirs', up', call.top, c, call.depth + 1)
    <3>1. Way(g, Dirs', up', call.top, c, call.depth + 1)
      BY <1>5, <1>10
    <3>2. call.top \in Dirs /\ call.depth \in Nat /\ call.name \in Name \cup Dots \cup {""}
      BY <1>1, WalkIs
    <3>3. call.depth + 1 \in Nat \ {0}
      BY <1>2, Deeper
    <3>4. c \in Dirs' /\ call.top \in Dirs'
      BY <1>4, <1>5, <3>2
    <3> QED
      BY <3>1, <3>2, <3>3, <3>4
  <2>2. call.name \in Name => call.top # Root /\ ents'[up'[call.top]][call.name] = call.top
    BY <1>2, <1>5
  <2> QED
    BY <1>9, <2>1, <2>2, WalkOn
<1> QED
  BY <1>5, <1>11 DEF IInv

LEMMA RmAscendStep ==
  ASSUME IInv, RmAscend
  PROVE  IInv'
<1>1. Removing /\ call.depth > 1 /\ call' = [call EXCEPT !.at = up[call.at], !.depth = @ - 1]
  BY DEF RmAscend
<1>2. /\ TypeOK /\ Sound /\ call \in Walk /\ call.at \in Dirs /\ call.depth \in Nat \ {0}
      /\ call.name \in Name => call.top # Root /\ ents[up[call.top]][call.name] = call.top
  BY <1>1, WalkIs
<1>3. TypeOK' /\ Sound' /\ Dirs' = Dirs /\ ents' = ents /\ up' = up
  BY <1>2, Unchanged DEF RmAscend, tree
<1>4. PICK f : Climbs(f)
  BY <1>1, WalkIs
<1>5. up[call.at] \in Dirs
  BY <1>2, Parent
<1>6. call' = [op |-> "rm", top |-> call.top, at |-> up[call.at], depth |-> call.depth - 1, name |-> call.name]
  BY <1>1, <1>2 DEF Walk, WalkIn
<1> DEFINE g == [k \in 0 .. (call.depth - 2) |-> f[k + 1]]
<1>7. Way(g, Dirs, up, call.top, up[call.at], call.depth - 1)
  <2>1. \A k \in 0 .. (call.depth - 2) : k + 1 \in 0 .. (call.depth - 1) /\ g[k] = f[k + 1]
    BY <1>2
  <2>2. g \in [0 .. (call.depth - 2) -> Dirs]
    BY <1>4, <2>1 DEF Climbs, Way
  <2>3. g[0] = up[call.at] /\ g[call.depth - 2] = call.top
    <3>1. 0 \in 0 .. (call.depth - 2) /\ call.depth - 2 \in 0 .. (call.depth - 2) /\ (call.depth - 2) + 1 = call.depth - 1
      BY <1>1, <1>2
    <3>2. g[0] = f[1] /\ g[call.depth - 2] = f[call.depth - 1]
      BY <2>1, <3>1
    <3> QED
      BY <1>4, <3>1, <3>2 DEF Climbs, Way
  <2>4. ASSUME NEW k \in 0 .. (call.depth - 3)
        PROVE  g[k] \notin {call.top, Root} /\ g[k + 1] = up[g[k]]
    <3>1. k \in 0 .. (call.depth - 2) /\ k + 1 \in 0 .. (call.depth - 2)
      BY <1>2
    <3> QED
      BY <1>4, <2>1, <3>1 DEF Climbs, Way
  <2> HIDE DEF g
  <2>5. (call.depth - 1) - 1 = call.depth - 2 /\ (call.depth - 1) - 2 = call.depth - 3
    BY <1>2
  <2> QED
    BY <2>2, <2>3, <2>4, <2>5 DEF Way
<1> HIDE DEF g
<1>8. CallOK'
  <2>1. /\ call.top \in Dirs' /\ up[call.at] \in Dirs' /\ call.depth - 1 \in Nat \ {0}
        /\ call.name \in Name \cup Dots \cup {""} /\ Way(g, Dirs', up', call.top, up[call.at], call.depth - 1)
    <3>1. Way(g, Dirs', up', call.top, up[call.at], call.depth - 1)
      BY <1>3, <1>7
    <3>2. call.top \in Dirs /\ call.depth \in Nat /\ call.name \in Name \cup Dots \cup {""}
      BY <1>1, WalkIs
    <3>3. call.depth - 1 \in Nat \ {0}
      BY <1>1, <1>2, Deeper
    <3>4. up[call.at] \in Dirs' /\ call.top \in Dirs'
      BY <1>3, <1>5, <3>2
    <3> QED
      BY <3>1, <3>2, <3>3, <3>4
  <2>2. call.name \in Name => call.top # Root /\ ents'[up'[call.top]][call.name] = call.top
    BY <1>2, <1>3
  <2> QED
    BY <1>6, <2>1, <2>2, WalkOn
<1> QED
  BY <1>3, <1>8 DEF IInv

\* A name goes: what it named is freed.
LEMMA FreedIs ==
  ASSUME TypeOK, NEW i \in Ino, Free({i})
  PROVE  /\ kind' = [kind EXCEPT ![i] = "free"] /\ up' = [up EXCEPT ![i] = NoIno]
         /\ indexed' = indexed \ {i} /\ owns' = owns \ {i}
BY DEF TypeOK, Free

\* The way is the same without a directory that is not on it.
LEMMA SameWay ==
  ASSUME IInv, Removing, NEW f, Climbs(f), NEW c \in Ino, \A k \in 0 .. (call.depth - 1) : f[k] # c,
         NEW D, D = Dirs \ {c}, NEW u, \A x \in Ino \ {c} : u[x] = up[x]
  PROVE  Way(f, D, u, call.top, call.at, call.depth)
<1>1. call.depth \in Nat \ {0} /\ Dirs \subseteq Ino
  BY WalkIs, DirsIs
<1>2. f \in [0 .. (call.depth - 1) -> Dirs]
  BY DEF Climbs, Way
<1>3. f \in [0 .. (call.depth - 1) -> D]
  BY <1>2
<1>4. ASSUME NEW k \in 0 .. (call.depth - 2)
      PROVE  f[k] \notin {call.top, Root} /\ f[k + 1] = u[f[k]]
  <2>1. k \in 0 .. (call.depth - 1)
    BY <1>1
  <2>2. f[k] \in Ino \ {c}
    BY <1>1, <1>2, <2>1
  <2> QED
    BY <2>2 DEF Climbs, Way
<1> QED
  BY <1>3, <1>4 DEF Climbs, Way

LEMMA RmChildStep ==
  ASSUME IInv, RmChild
  PROVE  IInv'
<1>1. Removing
  BY DEF RmChild
<1> DEFINE d == call.at
           t == call.top
<1>2. /\ TypeOK /\ Sound /\ call \in Walk /\ d \in Ino /\ d \in Dirs /\ t \in Dirs /\ t \in Ino
      /\ call.depth \in Nat \ {0} /\ call.name \in Name \cup Dots \cup {""}
      /\ call.name \in Name => t # Root /\ ents[up[t]][call.name] = t
  BY <1>1, WalkIs, DirsIs
<1>3. PICK n \in Children(d) :
         LET c == ents[d][n]
         IN  /\ ~HasChildren(c)
             /\ ents' = Drop(ents, d, n)
             /\ links' = [links EXCEPT ![c] = 0, ![d] = IF IsDir(c) THEN LinkDec(d, @) ELSE @]
             /\ Free({c})
             /\ Hurt(If(~IsDir(c) /\ links[c] > 1, "linked"))
  BY DEF RmChild
<1> DEFINE c == ents[d][n]
<1>4. /\ n \in Name /\ c # NoIno /\ c \in Ino
  <2>1. n \in Name /\ c # NoIno
    BY DEF Children
  <2>2. ents \in [Ino -> [Name -> Ino \cup {NoIno}]]
    BY <1>2 DEF TypeOK
  <2> QED
    BY <1>2, <2>1, <2>2
<1>5. c # Root /\ (c \in Dirs => up[c] = d)
  <2>1. c \in Ino /\ n \in Name /\ ents[d][n] = c /\ d \in Ino
    BY <1>2, <1>4
  <2> HIDE DEF c, d
  <2> QED
    BY <1>2, <2>1, Entry
<1>6. ChildrenIn(ents, c) = {}
  <2>1. CASE c \in Dirs
    BY <1>2, <1>3, <1>4, <2>1, InTables DEF HasChildren, Dirs
  <2>2. CASE c \notin Dirs
    BY <1>2, <1>4, <2>2, SoundIs DEF NamesIn
  <2> QED
    BY <2>1, <2>2
<1>7. /\ ents' = SetIn(ents, d, n, NoIno) /\ ents' \in Tables
      /\ links' = [links EXCEPT ![c] = 0, ![d] = IF IsDir(c) THEN LinkDec(d, @) ELSE @]
      /\ Free({c}) /\ call' = call
      /\ damage' = damage \cup If(~IsDir(c) /\ links[c] > 1, "linked")
  BY <1>2, <1>3, <1>4, InTables, DropIs DEF RmChild, Hurt
<1>8. ents[d][n] = c
  OBVIOUS
<1>9. c # d
  <2>1. n \in ChildrenIn(ents, d)
    BY <1>4, <1>8 DEF ChildrenIn
  <2> QED
    BY <1>6, <2>1
<1>10. PICK f : Climbs(f)
  BY <1>1, WalkIs
<1>11. c # t
  BY <1>1, <1>4, <1>10, NoCycle
<1> HIDE DEF c, d, t
<1>12. TypeOK'
  <2>1. links' \in [Ino -> 0 .. (LinkWrap - 1)]
    <3>1. 0 \in 0 .. (LinkWrap - 1) /\ links \in [Ino -> 0 .. (LinkWrap - 1)]
      <4>1. 0 \in 0 .. (LinkWrap - 1)
        BY WrapIs
      <4> QED
        BY <1>2, <4>1 DEF TypeOK
    <3>2. LinkDec(d, links[d]) \in 0 .. (LinkWrap - 1)
      BY <1>2, <3>1, LinkTypes
    <3> QED
      BY <1>2, <1>4, <1>7, <1>9, <3>1, <3>2
  <2>2. damage' \subseteq Damage
    BY <1>2, <1>7 DEF TypeOK, Damage, If
  <2> QED
    BY <1>2, <1>4, <1>7, <2>1, <2>2, FreeType DEF TypeOK, Tables
<1>13. ASSUME Quiet'
       PROVE  Sound' /\ CallOK'
  <2>1. SlotsIn(ents, c) = {<<d, n>>}
    <3>1. CASE c \in Dirs
      <4>1. c \in Dirs /\ Slots(c) = {<<d, n>>}
        BY <1>2, <1>4, <1>8, <3>1, Entry
      <4> QED
        BY <1>2, <1>4, <4>1, InTables
    <3>2. CASE c \notin Dirs
      <4>1. ~IsDir(c)
        BY <1>4, <3>2 DEF Dirs
      <4>2. ~(links[c] > 1)
        BY <1>7, <1>13, <4>1 DEF Quiet, If
      <4>3. links[c] <= 1
        <5>1. links[c] \in Nat
          BY <1>2, <1>4, LinksNat
        <5> QED
          BY <4>2, <5>1
      <4> QED
        BY <1>2, <1>4, <1>8, <3>2, <4>3, LastName
    <3> QED
      BY <3>1, <3>2
  <2>2. Removes(d, n, c)
    BY <1>2, <1>4, <1>6, <1>7, <1>8, <2>1, FreedIs DEF Removes
  <2>3. Sound'
    BY <1>2, <1>4, <1>12, <2>2, RemoveInode
  <2>4. /\ Dirs' = Dirs \ {c}
        /\ \A x \in Ino \ {c} : up'[x] = up[x]
        /\ t \in Dirs' /\ d \in Dirs'
    <3>1. kind' = [kind EXCEPT ![c] = "free"] /\ up' = [up EXCEPT ![c] = NoIno]
      BY <2>2 DEF Removes
    <3>2. \A x \in Ino : x # NoIno /\ (x \in Dirs <=> kind[x] = "dir") /\ (x \in Dirs' <=> kind'[x] = "dir")
      BY <1>2, DirsIs DEF Dirs, IsDir
    <3>3. Dirs \subseteq Ino /\ Dirs' \subseteq Ino
      BY DEF Dirs
    <3>4. \A x \in Ino : kind'[x] = IF x = c THEN "free" ELSE kind[x]
      BY <1>2, <3>1 DEF TypeOK
    <3>5. Dirs' = Dirs \ {c}
      BY <3>2, <3>3, <3>4
    <3> QED
      BY <1>2, <1>9, <1>11, <3>1, <3>5 DEF TypeOK
  <2>5. call.name \in Name => t # Root /\ ents'[up'[t]][call.name] = t
    <3>1. SUFFICES ASSUME call.name \in Name
                   PROVE  t # Root /\ ents'[up[t]][call.name] = t
      BY <1>2, <1>11, <2>4
    <3>2. up[t] \in Ino /\ ents[up[t]][call.name] = t
      BY <1>2, <3>1, Parent, DirsIs
    <3>3. <<up[t], call.name>> # <<d, n>>
      BY <1>8, <1>11, <3>2
    <3>4. ents'[up[t]][call.name] = ents[up[t]][call.name]
      <4>1. ents \in Tables /\ NoIno \in Ino \cup {NoIno}
        BY <1>2, InTables
      <4>2. SetIn(ents, d, n, NoIno)[up[t]][call.name] = ents[up[t]][call.name]
        <5>1. d \in Ino /\ n \in Name /\ up[t] \in Ino /\ call.name \in Name
          BY <1>2, <1>4, <3>1, <3>2
        <5> QED
          BY <3>3, <4>1, <5>1, OtherEntries
      <4> QED
        BY <1>7, <4>2
    <3> QED
      BY <1>2, <3>1, <3>2, <3>4
  <2>6. Way(f, Dirs', up', t, d, call.depth)
    <3>1. \A k \in 0 .. (call.depth - 1) : f[k] # c
      BY <1>1, <1>4, <1>6, <1>9, <1>10, OnWay DEF d
    <3> QED
      BY <1>1, <1>4, <1>10, <2>4, <3>1, SameWay DEF t, d
  <2>7. call' = [op |-> "rm", top |-> t, at |-> d, depth |-> call.depth, name |-> call.name]
    BY <1>2, <1>7 DEF Walk, WalkIn, t, d
  <2>8. CallOK'
    BY <1>2, <2>4, <2>5, <2>6, <2>7, WalkOn
  <2> QED
    BY <2>3, <2>8
<1> QED
  BY <1>12, <1>13 DEF IInv

LEMMA RmLastStep ==
  ASSUME IInv, RmLast
  PROVE  IInv'
<1>1. Removing
  BY DEF RmLast
<1> DEFINE d == call.at
           n == call.name
<1>2. /\ TypeOK /\ Sound /\ d \in Ino /\ d \in Dirs /\ up[d] \in Ino /\ up[d] \in Dirs
      /\ n \in Name \cup Dots \cup {""} /\ (n \in Name => d # Root /\ ents[up[d]][n] = d)
  <2>1. call.depth = 1
    BY DEF RmLast
  <2>2. PICK f : Climbs(f)
    BY <1>1, WalkIs
  <2>3. call.top = call.at
    BY <2>1, <2>2 DEF Climbs, Way
  <2> QED
    BY <1>1, <2>3, WalkIs, DirsIs, Parent
<1>3. CallOK'
  BY CallQuiet DEF RmLast
<1>4. CASE n = ""
  <2>1. UNCHANGED <<tree, damage>>
    BY <1>4 DEF RmLast
  <2> QED
    BY <1>2, <1>3, <2>1, Unchanged DEF IInv
<1>5. CASE n # ""
  <2>1. /\ ents' = Drop(ents, up[d], n)
        /\ links' = [links EXCEPT ![d] = IF links[d] = 2 THEN 0 ELSE @, ![up[d]] = LinkDec(up[d], @)]
        /\ Free(If(links[d] = 2, d))
        /\ damage' = damage \cup (If(n \in Dots, "dots") \cup If(links[d] # 2, "leaked"))
    BY <1>5 DEF RmLast, Hurt
  <2>2. ChildrenIn(ents, d) = {}
    BY <1>2, InTables DEF RmLast
  <2> HIDE DEF d, n
  <2>3. TypeOK'
    <3>1. ents' \in Tables
      BY <1>2, <2>1, InTables, DropIs
    <3>2. links' \in [Ino -> 0 .. (LinkWrap - 1)]
      <4>1. 0 \in 0 .. (LinkWrap - 1)
        BY WrapIs
      <4>2. links \in [Ino -> 0 .. (LinkWrap - 1)]
        BY <1>2 DEF TypeOK
      <4>3. \A l \in 0 .. (LinkWrap - 1) : LinkDec(up[d], l) \in 0 .. (LinkWrap - 1)
        BY LinkTypes
      <4> QED
        BY <1>2, <2>1, <4>1, <4>2, <4>3
    <3>3. If(links[d] = 2, d) \in SUBSET Ino
      BY <1>2 DEF If
    <3>4. damage' \subseteq Damage
      BY <1>2, <2>1 DEF TypeOK, Damage, If
    <3> QED
      BY <1>2, <2>1, <3>1, <3>2, <3>3, <3>4, FreeType DEF TypeOK, Tables
  <2>4. ASSUME Quiet'
        PROVE  Sound'
    <3>1. n \in Name /\ links[d] = 2
      BY <1>2, <1>5, <2>1, <2>4 DEF Quiet, If
    <3>2. /\ ents[up[d]][n] = d /\ SlotsIn(ents, d) = {<<up[d], n>>}
      <4>1. d \in Dirs /\ Slots(d) = {<<up[d], n>>}
        <5>1. up[d] \in Ino /\ n \in Name /\ ents[up[d]][n] \in Ino /\ ents[up[d]][n] = d
          BY <1>2, <3>1
        <5> QED
          BY <1>2, <5>1, Entry
      <4> QED
        BY <1>2, <3>1, <4>1, InTables
    <3>3. up[d] # d /\ IsDir(d)
      <4>1. n \in ChildrenIn(ents, up[d])
        BY <1>2, <3>1, <3>2, DirsIs DEF ChildrenIn
      <4> QED
        BY <1>2, <2>2, <4>1 DEF Dirs
    <3>4. links' = [links EXCEPT ![d] = 0, ![up[d]] = IF IsDir(d) THEN LinkDec(up[d], @) ELSE @]
      BY <1>2, <2>1, <3>1, <3>3 DEF TypeOK
    <3>5. Free({d})
      BY <2>1, <3>1 DEF If
    <3>6. ents' = SetIn(ents, up[d], n, NoIno)
      BY <1>2, <2>1, <3>1, InTables, DropIs
    <3>7. Removes(up[d], n, d)
      BY <1>2, <2>2, <3>2, <3>4, <3>5, <3>6, FreedIs DEF Removes
    <3> QED
      BY <1>2, <2>3, <3>1, <3>7, RemoveInode
  <2> QED
    BY <1>3, <2>3, <2>4 DEF IInv
<1> QED
  BY <1>4, <1>5

LEMMA RmLastFailsStep ==
  ASSUME IInv, RmLastFails
  PROVE  IInv'
<1>1. Removing
  BY DEF RmLastFails
<1>2. TypeOK /\ call.at \in Ino /\ up[call.at] \in Ino
  BY <1>1, WalkIs, DirsIs, Parent
<1>3. ents' \in Tables
  BY <1>2, InTables, DropIs DEF RmLastFails
<1>4. links' \in [Ino -> 0 .. (LinkWrap - 1)]
  <2>1. 0 \in 0 .. (LinkWrap - 1) /\ links \in [Ino -> 0 .. (LinkWrap - 1)]
    BY <1>2, WrapIs DEF TypeOK
  <2>2. \A l \in 0 .. (LinkWrap - 1) : LinkDec(up[call.at], l) \in 0 .. (LinkWrap - 1)
    BY LinkTypes
  <2> QED
    BY <1>2, <2>1, <2>2 DEF RmLastFails
<1>5. damage' \subseteq Damage /\ ~Quiet'
  BY <1>2 DEF RmLastFails, TypeOK, Hurt, If, Damage, Quiet
<1>6. TypeOK'
  BY <1>2, <1>3, <1>4, <1>5 DEF RmLastFails, TypeOK, Tables
<1> QED
  BY <1>5, <1>6 DEF IInv

LEMMA RmFailsStep ==
  ASSUME IInv, RmFails
  PROVE  IInv'
<1>1. Removing
  BY DEF RmFails
<1>2. TypeOK /\ Sound /\ call.at \in Ino
  BY <1>1, WalkIs
<1>3. CallOK'
  BY CallQuiet DEF RmFails
<1>4. CASE UNCHANGED <<tree, damage>>
  BY <1>2, <1>3, <1>4, Unchanged DEF IInv
<1>5. CASE \E n \in Children(call.at) :
             LET c == ents[call.at][n]
             IN  /\ owns' = owns \ {c}
                 /\ \/ UNCHANGED ents /\ Hurt(If(IsDir(c), "torn"))
                    \/ ents' = Drop(ents, call.at, n) /\ Hurt({"leaked"})
                 /\ UNCHANGED <<kind, links, up, indexed, dirIndex>>
  <2>1. PICK n \in Children(call.at) :
             LET c == ents[call.at][n]
             IN  /\ owns' = owns \ {c}
                 /\ \/ UNCHANGED ents /\ Hurt(If(IsDir(c), "torn"))
                    \/ ents' = Drop(ents, call.at, n) /\ Hurt({"leaked"})
                 /\ UNCHANGED <<kind, links, up, indexed, dirIndex>>
    BY <1>5
  <2> DEFINE c == ents[call.at][n]
  <2>2. owns' \subseteq owns /\ UNCHANGED <<kind, links, up, indexed>>
    BY <2>1
  <2>3. CASE UNCHANGED ents /\ Hurt(If(IsDir(c), "torn"))
    <3>1. damage' \subseteq Damage
      BY <1>2, <2>3 DEF TypeOK, Hurt, If, Damage
    <3>2. OnlyOwns
      BY <1>2, <2>2, <2>3, <3>1 DEF OnlyOwns, Sound, Names
    <3> QED
      BY <1>2, <1>3, <3>2, OwnsStep DEF IInv
  <2>4. CASE ents' = Drop(ents, call.at, n) /\ Hurt({"leaked"})
    <3>1. ents' \in Tables
      BY <1>2, <2>4, InTables, DropIs
    <3>2. damage' \subseteq Damage /\ ~Quiet'
      BY <1>2, <2>4 DEF TypeOK, Hurt, Damage, Quiet
    <3>3. TypeOK'
      BY <1>2, <2>2, <3>1, <3>2 DEF TypeOK, Tables
    <3> QED
      BY <3>2, <3>3 DEF IInv
  <2> QED
    BY <2>1, <2>3, <2>4
<1> QED
  BY <1>4, <1>5 DEF RmFails

-----------------------------------------------------------------------------
(* An index is lost.                                                       *)

LEMMA IndexLostStep ==
  ASSUME IInv, NEW d \in indexed, IndexLost(d)
  PROVE  IInv'
<1>1. /\ TypeOK /\ Sound /\ CallOK /\ indexed' = indexed \ {d}
      /\ damage' = damage \cup If(links[d] = 1, "stopped")
      /\ kind' = kind /\ links' = links /\ owns' = owns /\ ents' = ents /\ up' = up /\ call' = call
  BY DEF IInv, IndexLost, Hurt
<1>2. TypeOK'
  <2>1. damage' \subseteq Damage
    BY <1>1 DEF TypeOK, Damage, If
  <2> QED
    BY <1>1, <2>1 DEF TypeOK
<1>3. Dirs' = Dirs
  BY <1>1 DEF Dirs, IsDir
<1>4. CallOK'
  <2>1. \A f : Climbs(f)' <=> Climbs(f)
    BY <1>1, <1>3 DEF Climbs
  <2>2. Walk' = Walk
    BY <1>3 DEF Walk
  <2> QED
    BY <1>1, <2>1, <2>2 DEF CallOK
<1>5. ASSUME Quiet'
      PROVE  Sound'
  <2>1. links[d] # 1
    BY <1>1, <1>5 DEF Quiet, If
  <2>2. NamesIn(ents', kind', up', owns', indexed', Dirs')
    BY <1>1, <1>3, SoundIs DEF NamesIn
  <2>3. CountsIn(ents', kind', links', indexed', Dirs')
    <3>1. CountsIn(ents, kind, links, indexed, Dirs)
      BY <1>1, SoundIs
    <3>2. ASSUME NEW i \in Dirs
          PROVE  DirCountOK(links[i], Cardinality(SubDirsIn(ents, kind, i)), i \in indexed \ {d})
      BY <2>1, <3>1 DEF CountsIn, DirCountOK
    <3> QED
      BY <1>1, <1>3, <3>1, <3>2 DEF CountsIn
  <2>4. Rooted'
    BY <1>1, <1>3, BelowIs DEF Rooted, Sound
  <2> QED
    BY <1>1, <1>2, <1>3, <2>2, <2>3, <2>4, SoundIs, SoundIs1
<1> QED
  BY <1>2, <1>4, <1>5 DEF IInv

-----------------------------------------------------------------------------
(* The invariant.                                                          *)

\* What ext4_generic_open2 is asked for is a request, and only in a sound volume.
LEMMA AskedIs ==
  ASSUME IInv, NEW r \in Asked
  PROVE  Quiet /\ r \in Request
<1>1. Quiet
  BY DEF Asked
<1>2. CASE call = Idle
  BY <1>1, <1>2 DEF Asked, Fopen, DirMk, Fsymlink, Mknod, Ask, Request
<1>3. CASE call # Idle
  <2>1. r = call /\ r.op = "make"
    BY <1>1, <1>3 DEF Asked
  <2>2. call \in Request \cup Walk
    BY <1>1, <1>3 DEF IInv, CallOK
  <2> QED
    BY <1>1, <2>1, <2>2 DEF Walk, WalkIn
<1> QED
  BY <1>2, <1>3

LEMMA InitIInv == Init => IInv
<1> SUFFICES ASSUME Init PROVE IInv
  OBVIOUS
<1>1. Root \in Ino /\ NoIno \notin Ino
  BY NamespaceAssumption
<1>2. TypeOK
  <2>1. 0 \in 0 .. (LinkWrap - 1) /\ 2 \in 0 .. (LinkWrap - 1)
    BY WrapIs
  <2>2. links \in [Ino -> 0 .. (LinkWrap - 1)]
    BY <2>1 DEF Init
  <2> QED
    BY <1>1, <2>2 DEF Init, TypeOK, Kind, NoEntries
<1>3. Dirs = {Root}
  BY <1>1 DEF Init, Dirs, IsDir
<1>4. \A i \in Ino : SlotsIn(ents, i) = {} /\ ChildrenIn(ents, i) = {} /\ SubDirsIn(ents, kind, i) = {}
  <2>1. \A i \in Ino : \A n \in Name : ents[i][n] = NoIno
    BY DEF Init, NoEntries
  <2> QED
    BY <1>1, <2>1 DEF SlotsIn, ChildrenIn, SubDirsIn
<1>5. NamesIn(ents, kind, up, owns, indexed, Dirs)
  BY <1>1, <1>3, <1>4 DEF NamesIn, Init
<1>6. OneEntryIn(ents, up, Dirs)
  BY <1>1, <1>3, <1>4 DEF OneEntryIn, Init
<1>7. CountsIn(ents, kind, links, indexed, Dirs)
  BY <1>1, <1>3, <1>4, FS_EmptySet DEF CountsIn, DirCountOK, Init
<1>8. Rooted
  BY <1>3 DEF Rooted, Below
<1>9. Sound
  BY <1>2, <1>5, <1>6, <1>7, <1>8, SoundIs
<1>10. CallOK
  BY DEF CallOK, Init, Idle
<1> QED
  BY <1>2, <1>9, <1>10 DEF IInv

LEMMA NextIInv == IInv /\ [Next]_vars => IInv'
<1> SUFFICES ASSUME IInv, [Next]_vars PROVE IInv'
  OBVIOUS
<1>1. CASE UNCHANGED vars
  <2>1. UNCHANGED <<tree, damage>> /\ call' = call
    BY <1>1 DEF vars, tree
  <2>2. TypeOK' /\ (Quiet' <=> Quiet)
    BY <2>1 DEF tree, IInv, TypeOK, Quiet
  <2>3. ASSUME Quiet PROVE Sound' /\ CallOK'
    <3>1. Sound' /\ Dirs' = Dirs /\ ents' = ents /\ up' = up
      BY <2>1, <2>3, Unchanged DEF IInv, tree
    <3>2. Walk' = Walk
      BY <3>1 DEF Walk
    <3>3. \A f : Climbs(f)' <=> Climbs(f)
      BY <2>1, <3>1 DEF Climbs
    <3>4. CallOK
      BY <2>3 DEF IInv
    <3> QED
      BY <2>1, <3>1, <3>2, <3>3, <3>4 DEF CallOK
  <2> QED
    BY <2>2, <2>3 DEF IInv
<1>2. ASSUME NEW r \in Asked, MakeMissing(r) \/ MakeFails(r) \/ MakeEnds(r)
      PROVE  IInv'
  BY <1>2, AskedIs, MakeMissingStep, MakeFailsStep, MakeEndsStep
<1>3. CASE RmStep
  BY <1>3, RmChildStep, RmDescendStep, RmAscendStep, RmLastStep, RmLastFailsStep, RmFailsStep
     DEF RmStep
<1>4. ASSUME NEW p \in Paths, Call(p)
      PROVE  IInv'
  <2>1. Quiet
    BY <1>4 DEF Call, Write, Fremove, FremoveFails, DirRm
  <2> QED
    BY <1>4, <2>1, WriteStep, FremoveStep, FremoveFailsStep, DirRmStep DEF Call
<1>5. ASSUME NEW p \in Paths, NEW q \in Paths, Call2(p, q)
      PROVE  IInv'
  <2>1. Quiet
    BY <1>5 DEF Call2, Flink, Rename, RenameFails
  <2> QED
    BY <1>5, <2>1, FlinkStep, RenameStep, RenameFailsStep DEF Call2
<1>6. ASSUME NEW d \in indexed, IndexLost(d)
      PROVE  IInv'
  BY <1>6, IndexLostStep
<1> QED
  BY <1>1, <1>2, <1>3, <1>4, <1>5, <1>6 DEF Next, MakeStep

LEMMA AlwaysIInv == Spec => []IInv
<1> QED
  BY InitIInv, NextIInv, PTL DEF Spec

\* Every inode, link count, table and record keeps its type, whatever calls
\* run and wherever they stop; a link count never leaves its 16 bits.
THEOREM NamespaceTypeCorrect == Spec => []TypeOK
<1>1. IInv => TypeOK
  BY DEF IInv
<1> QED
  BY <1>1, AlwaysIInv, PTL

\* Between any two steps of creation, link, rename and removal (ext4.c) that
\* leave no damage, an entry names an inode in use and an inode in use has an
\* entry; a free inode has no blocks, no ".." and no index flag.
THEOREM EntriesNameInodes == Spec => []NamesAndInodesAgree
<1>1. IInv => NamesAndInodesAgree
  BY DEF IInv, Sound, Names, NamesAndInodesAgree, Dirs
<1> QED
  BY <1>1, AlwaysIInv, PTL

\* The directories are one tree that hangs from the root, and each ".." names
\* the directory with the entry: ext4_frename and ext4_dir_rm, which go by the
\* ".." records, keep what they rely on.
THEOREM TreeStaysOne == Spec => []OneTree
<1>1. ASSUME IInv, Quiet
      PROVE  /\ Slots(Root) = {} /\ up[Root] = Root
             /\ \A i \in Ino \ {Root} : IsDir(i) =>
                   /\ \E s \in Slots(i) : Slots(i) = {s} /\ up[i] = s[1]
                   /\ Below(i, Root)
  <2>1. Sound
    BY <1>1 DEF IInv
  <2>2. ASSUME NEW i \in Ino \ {Root}, IsDir(i)
        PROVE  (\E s \in Slots(i) : Slots(i) = {s} /\ up[i] = s[1]) /\ Below(i, Root)
    <3>1. i \in Dirs \ {Root}
      BY <2>2 DEF Dirs
    <3>2. PICK n \in Name : Slots(i) = {<<up[i], n>>}
      BY <2>1, <3>1 DEF Sound, OneEntry
    <3>3. <<up[i], n>> \in Slots(i) /\ <<up[i], n>>[1] = up[i]
      BY <3>2
    <3> QED
      BY <2>1, <3>1, <3>2, <3>3 DEF Sound, Rooted
  <2> QED
    BY <2>1, <2>2 DEF Sound, OneEntry
<1>2. IInv => OneTree
  BY <1>1 DEF OneTree
<1> QED
  BY <1>2, AlwaysIInv, PTL

\* The count of a file is the number of its entries, that of a directory 2 and
\* one for each directory in it, or 1 for good: what ext4_fremove and
\* ext4_dir_rm free an inode by.
THEOREM LinksAreNames == Spec => []LinksCountNames
<1>1. IInv => LinksCountNames
  BY DEF IInv, Sound, Counts, CountOK, LinksCountNames
<1> QED
  BY <1>1, AlwaysIInv, PTL

\* The walk of ext4_dir_rm keeps no path and never climbs out of the directory
\* it was given: depth - 1 records ".." lead from where it stands to there.
THEOREM RemovalStaysBelow == Spec => []StaysBelow
<1>1. ASSUME IInv, Removing
      PROVE  \E climb \in [0 .. (call.depth - 1) -> Ino] :
               /\ climb[0] = call.at /\ climb[call.depth - 1] = call.top
               /\ \A n \in 0 .. (call.depth - 2) : climb[n] # call.top /\ climb[n + 1] = up[climb[n]]
  <2>1. PICK f : Climbs(f)
    BY <1>1, WalkIs
  <2>2. f \in [0 .. (call.depth - 1) -> Ino]
    <3>1. Dirs \subseteq Ino /\ f \in [0 .. (call.depth - 1) -> Dirs]
      BY <1>1, <2>1, WalkIs, DirsIs DEF Climbs, Way
    <3> QED
      BY <3>1
  <2> QED
    BY <2>1, <2>2 DEF Climbs, Way
<1>2. IInv => StaysBelow
  BY <1>1 DEF StaysBelow
<1> QED
  BY <1>2, AlwaysIInv, PTL
=============================================================================
