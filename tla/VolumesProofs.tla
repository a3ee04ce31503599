--------------------------- MODULE VolumesProofs ---------------------------
(***************************************************************************)
(* Proofs about Volumes, for every number of partitions, whatever they     *)
(* hold, and every pattern of failing transfers.                           *)
(***************************************************************************)
EXTENDS Volumes, FiniteSetTheorems, TLAPS

-----------------------------------------------------------------------------
(* What is inductive.                                                      *)

Used == {k \in Partition : Kind[k] # "empty"}

\* The object of partition i has the number i, unless entries before it are
\* empty: then it has the number of the first of them, which it cannot mount.
IdsOK ==
    \A i \in Partition : ext_id[i] # NoId =>
        /\ Kind[i] # "empty" /\ ext_id[i] <= i
        /\ \A m \in ext_id[i] .. (i - 1) : Kind[m] = "empty"

\* A mount point is only ever used for the partition of its number, and is
\* marked mounted only while the object keeps that number.
SlotsOK ==
    \A s \in Partition :
        /\ lw.s_mp[s].name \in {s, NoId}
        /\ lw.s_mp[s].mounted => lw.s_mp[s].name = s /\ ext_id[s] = s

MountedOK ==
    \A k \in ml.mounted :
        /\ k \in ml.available /\ k \in lw.s_bdevices /\ ext_id[k] = k
        /\ \A j \in 0 .. k : Kind[j] = "ext4"
        /\ lw.s_mp[k].mounted /\ lw.s_mp[k].held

\* umountDrives goes through all partitions, so between its calls the list has
\* all or none; mountDrives stops at the first that fails, so those mounted are
\* the first ones.
ListOK ==
    /\ ml.available \subseteq Used
    /\ loop.op # "umount" => /\ ml.available \in {{}, Used}
                             /\ \A k \in ml.mounted : 0 .. k \subseteq ml.mounted
    /\ loop.op = "umount" => \A j \in 0 .. (loop.i - 1) : j \notin ml.available
    /\ loop.op = "mount" => \/ ml.available = {}
                            \/ \A j \in 0 .. (loop.i - 1) : j \in ml.mounted \/ Kind[j] = "empty"

IInv == TypeOK /\ IdsOK /\ SlotsOK /\ MountedOK /\ ListOK /\ OpenWhileMounted

\* The entries in use are the first ones, and all of them ext4.
Contiguous == \A k \in Partition : Kind[k] # "empty" => \A j \in 0 .. k : Kind[j] = "ext4"

\* As long as no transfer has failed, what is not mounted holds nothing.
Clean ==
    ~disturbed =>
        /\ \A i \in Partition : ext_id[i] # NoId => i \in ml.mounted
        /\ lw.s_bdevices \subseteq ml.mounted
        /\ lw.ph_refctr = Cardinality(ml.mounted)
        /\ loop.op = "mount" \/ msd.mounted => bd.connected
        /\ bd.connected /\ loop.op # "umount" => ml.available = Used

-----------------------------------------------------------------------------
(* Helpers.                                                                *)

LEMMA Least ==
  ASSUME NEW S \in SUBSET Nat, S # {}
  PROVE  \E m \in S : \A k \in S : m <= k
<1>1. PICK m \in S : \A k \in S : <<k, m>> \notin OpToRel(<, Nat)
  BY WFMin, NatLessThanWellFounded
<1>2. \A k \in S : ~(k < m)
  BY <1>1 DEF OpToRel
<1> QED
  BY <1>2

LEMMA MinIs ==
  ASSUME NEW S \in SUBSET Nat, NEW m \in S, \A k \in S : m <= k
  PROVE  Min(S) = m
<1>1. Min(S) \in S /\ \A k \in S : Min(S) <= k
  BY DEF Min
<1>2. Min(S) <= m /\ m <= Min(S) /\ m \in Nat /\ Min(S) \in Nat
  BY <1>1
<1> QED
  BY <1>2

LEMMA PartitionIs ==
  /\ N \in Nat \ {0} /\ Partition \subseteq Nat /\ NoId \notin Partition
  /\ \A i \in Partition : i \in Nat /\ i < N /\ 0 .. i \subseteq Partition /\ 0 .. (i - 1) \subseteq Partition
  /\ \A i \in Nat : i < N => i \in Partition
  /\ IsFiniteSet(Partition)
<1>1. N \in Nat \ {0}
  BY DriveAssumption
<1>2. IsFiniteSet(Partition)
  BY <1>1, FS_Interval DEF Partition
<1> QED
  BY <1>1, <1>2 DEF Partition, NoId

\* What TypeOK says of the records, field by field.
Typed ==
    /\ lw.s_bdevices \in SUBSET Partition /\ lw.ph_refctr \in Nat
    /\ lw.s_mp \in [Partition -> MountPoint]
    /\ ml.available \in SUBSET Partition /\ ml.mounted \in SUBSET Partition
    /\ ext_id \in [Partition -> Partition \cup {NoId}]
    /\ loop.i \in 0 .. N /\ loop.op \in {"idle", "mount", "umount"}
    /\ lw = [s_bdevices |-> lw.s_bdevices, s_mp |-> lw.s_mp, ph_refctr |-> lw.ph_refctr]
    /\ ml = [available |-> ml.available, mounted |-> ml.mounted]
    /\ loop = [op |-> loop.op, i |-> loop.i]

LEMMA TypedIs == TypeOK => Typed
BY DEF TypeOK, Typed

LEMMA HeldFinite ==
  ASSUME NEW t \in [Partition -> MountPoint]
  PROVE  LET H == {s \in Partition : t[s].mounted /\ t[s].held}
         IN  IsFiniteSet(H) /\ Cardinality(H) \in Nat
<1> DEFINE H == {s \in Partition : t[s].mounted /\ t[s].held}
<1>1. IsFiniteSet(H)
  BY PartitionIs, FS_Subset
<1> QED
  BY <1>1, FS_CardinalityType

-----------------------------------------------------------------------------
(* EXT4FileSystem::mount, in the loop of mountDrives.                      *)

\* The number an object takes: its partition's, and then all before it are
\* mounted; or that of the first empty entry.
LEMMA FirstFree ==
  ASSUME IInv, loop.op = "mount", NEW i \in Partition, i = loop.i,
         i \in ml.available, i \notin ml.mounted, ext_id[i] = NoId
  PROVE  /\ Min(FreeId) \in Partition
         /\ \/ /\ Min(FreeId) = i
               /\ \A j \in 0 .. (i - 1) : j \in ml.mounted
            \/ /\ Min(FreeId) < i /\ Kind[i] # "empty"
               /\ \A m \in Min(FreeId) .. (i - 1) : Kind[m] = "empty"
<1>1. /\ i \in Nat /\ Kind[i] # "empty" /\ FreeId \in SUBSET Nat /\ FreeId \subseteq Partition
      /\ Partition \subseteq Nat /\ NoId \notin Partition /\ 0 .. (i - 1) \subseteq Partition
  BY PartitionIs DEF FreeId, IInv, ListOK, Used
<1>2. \A j \in 0 .. (i - 1) : j \in ml.mounted \/ Kind[j] = "empty"
  BY DEF IInv, ListOK
<1>3. /\ \A j \in ml.mounted : ext_id[j] = j
      /\ \A j \in ml.mounted : \A m \in 0 .. j : Kind[m] = "ext4"
      /\ ml.mounted \subseteq Partition
  BY TypedIs DEF IInv, MountedOK, Typed
<1>4. \A j \in Partition : ext_id[j] # NoId =>
        /\ Kind[j] # "empty" /\ ext_id[j] <= j
        /\ \A m \in ext_id[j] .. (j - 1) : Kind[m] = "empty"
  BY DEF IInv, IdsOK
<1>5. CASE \A j \in 0 .. (i - 1) : Kind[j] # "empty"
  <2>1. \A j \in 0 .. (i - 1) : j \in ml.mounted
    BY <1>2, <1>5
  <2>2. i \in FreeId
    <3>1. SUFFICES ASSUME NEW j \in Partition, ext_id[j] = i PROVE FALSE
      BY DEF FreeId
    <3>2. j \in Nat /\ i <= j /\ \A m \in i .. (j - 1) : Kind[m] = "empty"
      BY <1>1, <1>4, <3>1
    <3>3. j # i
      BY <1>1, <3>1
    <3> QED
      BY <1>1, <3>2, <3>3
  <2>3. \A m \in FreeId : i <= m
    <3>1. \A j \in 0 .. (i - 1) : j \notin FreeId
      BY <1>1, <1>3, <2>1 DEF FreeId
    <3> QED
      BY <1>1, <3>1
  <2>4. Min(FreeId) = i
    BY <1>1, <2>2, <2>3, MinIs
  <2> QED
    BY <2>1, <2>4
<1>6. CASE ~\A j \in 0 .. (i - 1) : Kind[j] # "empty"
  <2> DEFINE E == {j \in 0 .. (i - 1) : Kind[j] = "empty"}
  <2>1. E \in SUBSET Nat /\ E # {}
    BY <1>1, <1>6
  <2>2. PICK p \in E : \A j \in E : p <= j
    BY <2>1, Least
  <2>3. p \in Nat /\ p < i /\ Kind[p] = "empty" /\ p \in Partition
    BY <1>1, <2>1, <2>2
  <2>4. p \in FreeId
    <3>1. SUFFICES ASSUME NEW j \in Partition, ext_id[j] = p PROVE FALSE
      BY <2>3 DEF FreeId
    <3>2. j \in Nat /\ p <= j /\ Kind[j] # "empty" /\ \A m \in p .. (j - 1) : Kind[m] = "empty"
      BY <1>1, <1>4, <2>3, <3>1
    <3>3. j # i /\ j # p
      BY <1>1, <2>3, <3>1, <3>2
    <3>4. CASE j < i
      <4>1. j \in ml.mounted
        BY <1>1, <1>2, <3>2, <3>4
      <4> QED
        BY <1>3, <3>1, <3>3, <4>1
    <3>5. CASE ~(j < i)
      <4>1. i \in p .. (j - 1)
        BY <1>1, <2>3, <3>2, <3>3, <3>5
      <4> QED
        BY <1>1, <3>2, <4>1
    <3> QED
      BY <3>4, <3>5
  <2>5. \A m \in FreeId : p <= m
    <3>1. SUFFICES ASSUME NEW m \in FreeId, m < p PROVE FALSE
      BY <1>1, <2>3
    <3>2. m \in 0 .. (i - 1) /\ m \in Nat /\ m \in Partition
      BY <1>1, <2>3, <3>1
    <3>3. Kind[m] # "empty"
      BY <2>2, <2>3, <3>1, <3>2
    <3>4. ext_id[m] = m
      BY <1>2, <1>3, <3>2, <3>3
    <3> QED
      BY <3>2, <3>4 DEF FreeId
  <2>6. Min(FreeId) = p
    BY <1>1, <2>4, <2>5, MinIs
  <2>7. \A m \in p .. (i - 1) : Kind[m] = "empty"
    <3>1. SUFFICES ASSUME NEW m \in p .. (i - 1), Kind[m] # "empty" PROVE FALSE
      OBVIOUS
    <3>2. m \in 0 .. (i - 1) /\ p \in 0 .. m
      BY <1>1, <2>3, <3>1
    <3>3. Kind[p] = "ext4"
      BY <1>2, <1>3, <3>1, <3>2
    <3> QED
      BY <2>3, <3>3
  <2> QED
    BY <1>1, <2>3, <2>6, <2>7
<1> QED
  BY <1>5, <1>6

\* The mount point i is filled, and partition i listed if all went well.
Fills(i, good, rec) ==
    /\ lw' = [s_bdevices |-> IF good THEN lw.s_bdevices \cup {i} ELSE lw.s_bdevices \ {i},
              s_mp |-> [lw.s_mp EXCEPT ![i] = [name |-> i, mounted |-> TRUE, held |-> good]],
              ph_refctr |-> IF good THEN lw.ph_refctr + 1 ELSE lw.ph_refctr]
    /\ ml' = [available |-> ml.available,
              mounted |-> IF good /\ rec THEN ml.mounted \cup {i} ELSE ml.mounted]

\* Nothing but the object's number changes.
Keeps == lw' = lw /\ ml' = ml

LEMMA MountIs ==
  ASSUME IInv, loop.op = "mount", NEW i \in Partition, i = loop.i,
         i \in ml.available, i \notin ml.mounted, ext_id[i] = NoId,
         NEW ok \in BOOLEAN, NEW rec \in BOOLEAN, ExtMount(i, ok, rec)
  PROVE  /\ ext_id' = [ext_id EXCEPT ![i] = Min(FreeId)]
         /\ i \in lw.s_bdevices \/ Min(FreeId) # i => Keeps
         /\ i \notin lw.s_bdevices /\ Min(FreeId) = i => Fills(i, ok /\ Kind[i] = "ext4", rec)
<1> DEFINE k == Min(FreeId)
           t == [lw EXCEPT !.s_bdevices = @ \cup {k}]
           m == ext4_mount(t, k, ok)
<1>1. /\ ext_id' = [ext_id EXCEPT ![i] = k]
      /\ MountFails(k) => /\ lw' = lw
                          /\ ml' = IF k \in ml.available THEN [ml EXCEPT !.mounted = @ \ {k}] ELSE ml
      /\ ~MountFails(k) => /\ lw' = IF m.eok THEN m.t ELSE [m.t EXCEPT !.s_bdevices = @ \ {k}]
                           /\ ml' = [ml EXCEPT !.mounted = IF m.eok /\ rec THEN @ \cup {k} ELSE @ \ {k}]
  BY DEF ExtMount, IdAfterMount
<1>2. Typed /\ MountedOK /\ SlotsOK /\ k \in Partition /\ NoId \notin Partition /\ i \in Nat
  BY FirstFree, TypedIs, PartitionIs DEF IInv
<1>3. CASE k # i
  <2>1. Kind[k] = "empty"
    <3>1. k < i /\ k \in Nat /\ (\A j \in k .. (i - 1) : Kind[j] = "empty")
      BY <1>2, <1>3, FirstFree, PartitionIs
    <3> QED
      BY <1>2, <3>1
  <2>2. k \notin ml.available
    BY <2>1 DEF IInv, ListOK, Used
  <2>3. Keeps
    BY <1>1, <2>2 DEF MountFails, Keeps
  <2> QED
    BY <1>1, <1>3, <2>3
<1>4. CASE k = i /\ i \in lw.s_bdevices
  <2>1. lw' = lw /\ ml' = [ml EXCEPT !.mounted = @ \ {i}]
    BY <1>1, <1>4 DEF MountFails
  <2>2. ml.mounted \ {i} = ml.mounted
    OBVIOUS
  <2>3. Keeps
    BY <1>2, <2>1, <2>2 DEF Keeps, Typed
  <2> QED
    BY <1>1, <1>4, <2>3
<1>5. CASE k = i /\ i \notin lw.s_bdevices
  <2> DEFINE good == ok /\ Kind[i] = "ext4"
  <2>1. /\ t.s_mp = lw.s_mp /\ t.ph_refctr = lw.ph_refctr /\ t.s_bdevices = lw.s_bdevices \cup {i}
        /\ t = [s_bdevices |-> lw.s_bdevices \cup {i}, s_mp |-> lw.s_mp, ph_refctr |-> lw.ph_refctr]
    BY <1>2, <1>5 DEF Typed
  <2>2. ~lw.s_mp[i].mounted
    BY <1>2 DEF SlotsOK
  <2>3. SlotFor(t, i) \in SUBSET Nat /\ i \in SlotFor(t, i)
    BY <2>1, <2>2, PartitionIs DEF SlotFor
  <2>4. \A s \in SlotFor(t, i) : i <= s
    <3>1. SUFFICES ASSUME NEW s \in SlotFor(t, i), s < i PROVE FALSE
      BY <1>2, <2>3
    <3>2. s \in 0 .. (i - 1) /\ s \in Partition
      BY <1>2, <3>1, PartitionIs DEF SlotFor
    <3>3. s \in ml.mounted
      BY <1>2, <1>5, <3>2, FirstFree
    <3>4. lw.s_mp[s].mounted /\ lw.s_mp[s].name = s
      BY <1>2, <3>2, <3>3 DEF MountedOK, SlotsOK
    <3> QED
      BY <1>2, <2>1, <3>1, <3>2, <3>4 DEF SlotFor
  <2>5. Min(SlotFor(t, i)) = i /\ SlotFor(t, i) # {}
    BY <2>3, <2>4, MinIs
  <2>6. m = [eok |-> good,
             t |-> [t EXCEPT !.s_mp[i] = [name |-> i, mounted |-> TRUE, held |-> good],
                             !.ph_refctr = IF good THEN @ + 1 ELSE @]]
    BY <1>5, <2>1, <2>2, <2>5 DEF ext4_mount
  <2>7. ~MountFails(k)
    BY <1>5 DEF MountFails
  <2> HIDE DEF m, t, good
  <2>8. /\ m.eok = good
        /\ m.t = [s_bdevices |-> lw.s_bdevices \cup {i},
                  s_mp |-> [lw.s_mp EXCEPT ![i] = [name |-> i, mounted |-> TRUE, held |-> good]],
                  ph_refctr |-> IF good THEN lw.ph_refctr + 1 ELSE lw.ph_refctr]
    BY <2>1, <2>6
  <2>9. (lw.s_bdevices \cup {i}) \ {i} = lw.s_bdevices \ {i}
    OBVIOUS
  <2>10. Fills(i, good, rec)
    <3>1. /\ lw' = IF good THEN m.t ELSE [m.t EXCEPT !.s_bdevices = @ \ {i}]
          /\ ml' = [ml EXCEPT !.mounted = IF good /\ rec THEN @ \cup {i} ELSE @ \ {i}]
      BY <1>1, <1>5, <2>7, <2>8
    <3>2. ml' = [available |-> ml.available, mounted |-> IF good /\ rec THEN ml.mounted \cup {i} ELSE ml.mounted]
      <4>1. ml.mounted \ {i} = ml.mounted
        OBVIOUS
      <4> QED
        BY <1>2, <3>1, <4>1 DEF Typed
    <3>3. CASE good
      BY <2>8, <3>1, <3>2, <3>3 DEF Fills
    <3>4. CASE ~good
      <4>1. lw' = [m.t EXCEPT !.s_bdevices = @ \ {i}]
        BY <3>1, <3>4
      <4>2. lw' = [s_bdevices |-> lw.s_bdevices \ {i}, s_mp |-> m.t.s_mp, ph_refctr |-> m.t.ph_refctr]
        BY <2>8, <2>9, <4>1
      <4> QED
        BY <2>8, <3>2, <3>4, <4>2 DEF Fills
    <3> QED
      BY <3>3, <3>4
  <2> QED
    BY <1>1, <1>5, <2>10 DEF good
<1> QED
  BY <1>3, <1>4, <1>5

-----------------------------------------------------------------------------
(* EXT4FileSystem::unmount, in the loop of umountDrives.                   *)

\* The mount point i is empty again, and partition i in no list.
Clears(i, done) ==
    \E h \in BOOLEAN, r \in Nat :
        /\ r >= lw.ph_refctr - 1 /\ (done => r = lw.ph_refctr - 1)
        /\ lw' = [s_bdevices |-> lw.s_bdevices \ {i},
                  s_mp |-> [lw.s_mp EXCEPT ![i] = [name |-> i, mounted |-> FALSE, held |-> h]],
                  ph_refctr |-> r]
        /\ ml' = [available |-> ml.available \ {i}, mounted |-> ml.mounted \ {i}]

\* What ext4_umount returns and leaves: the result ok, a mount point that keeps
\* its name and perhaps the reference, and the count q.
Umounted(D, M, i, ok, h, q) ==
    [eok |-> ok,
     t |-> [s_bdevices |-> D,
            s_mp |-> [M EXCEPT ![i] = [name |-> i, mounted |-> FALSE, held |-> h]],
            ph_refctr |-> q]]

LEMMA UmountIs ==
  ASSUME NEW D, NEW M \in [Partition -> MountPoint], NEW r \in Nat, NEW i \in Partition,
         \A s \in Partition : M[s].name = i <=> s = i, NEW ok \in BOOLEAN, ok => r > 0
  PROVE  \E h \in BOOLEAN, q \in Nat :
           /\ q >= r - 1 /\ (ok => q = r - 1) /\ (~ok => q = r)
           /\ ext4_umount([s_bdevices |-> D, s_mp |-> M, ph_refctr |-> r], i, ok)
                = Umounted(D, M, i, ok, h, q)
<1> DEFINE t == [s_bdevices |-> D, s_mp |-> M, ph_refctr |-> r]
           S == {s \in Partition : t.s_mp[s].name = i}
           h == ~ok /\ M[i].held
           q == AfterUmount(r, ok)
<1>1. /\ t = [s_bdevices |-> D, s_mp |-> M, ph_refctr |-> r]
      /\ t.s_bdevices = D /\ t.s_mp = M /\ t.ph_refctr = r /\ S = {i}
  OBVIOUS
<1>2. Min(S) = i
  BY <1>1, MinIs, PartitionIs
<1>3. h \in BOOLEAN
  BY DEF MountPoint
<1>4. q \in Nat /\ q >= r - 1 /\ (ok => q = r - 1) /\ (~ok => q = r)
  BY DEF AfterUmount
<1>5. ext4_umount(t, i, ok) =
        [eok |-> ok,
         t |-> [t EXCEPT !.s_mp[i] = [name |-> i, mounted |-> FALSE, held |-> h],
                         !.ph_refctr = AfterUmount(@, ok)]]
  BY <1>1, <1>2 DEF ext4_umount
<1> HIDE DEF h
<1> HIDE DEF t, q
<1>6. ext4_umount(t, i, ok) = Umounted(D, M, i, ok, h, q)
  <2> DEFINE w == ext4_umount(t, i, ok)
  <2>1. w = [eok |-> ok,
             t |-> [t EXCEPT !.s_mp[i] = [name |-> i, mounted |-> FALSE, held |-> h],
                             !.ph_refctr = q]]
    BY <1>1, <1>5 DEF q
  <2> HIDE DEF w
  <2>2. /\ w.eok = ok
        /\ w.t = [s_bdevices |-> D,
                  s_mp |-> [M EXCEPT ![i] = [name |-> i, mounted |-> FALSE, held |-> h]],
                  ph_refctr |-> q]
    BY <1>1, <2>1
  <2>3. w = [eok |-> w.eok, t |-> w.t]
    BY <2>1
  <2> QED
    BY <2>2, <2>3 DEF Umounted, w
<1> QED
  BY <1>3, <1>4, <1>6 DEF t

LEMMA UnmountIs ==
  ASSUME IInv, NEW i \in Partition, i \in ml.mounted,
         NEW ok \in BOOLEAN, NEW again \in BOOLEAN, ExtUnmount(i, ok, again)
  PROVE  /\ ext_id' = [ext_id EXCEPT ![i] = NoId]
         /\ Clears(i, ok) /\ (ok => bd' = bd)
<1>1. /\ Typed /\ ext_id[i] = i /\ i \in ml.available /\ i # NoId
      /\ \A s \in Partition : lw.s_mp[s].name = i <=> s = i
  BY TypedIs, PartitionIs DEF IInv, MountedOK, SlotsOK
<1>2. lw.ph_refctr > 0
  <2> DEFINE H == {s \in Partition : lw.s_mp[s].mounted /\ lw.s_mp[s].held}
  <2>1. IsFiniteSet(H) /\ Cardinality(H) \in Nat /\ i \in H
    BY <1>1, HeldFinite DEF Typed, IInv, MountedOK
  <2>2. Cardinality(H) # 0
    BY <2>1, FS_EmptySet
  <2> QED
    BY <1>1, <2>1, <2>2 DEF IInv, OpenWhileMounted, Typed
<1> DEFINE D == lw.s_bdevices
           M == lw.s_mp
           r == lw.ph_refctr
           u == ext4_umount(lw, i, ok)
           u2 == ext4_umount(u.t, i, again)
           last == IF u.eok THEN u ELSE u2
<1>3. /\ ext_id' = [ext_id EXCEPT ![i] = NoId]
      /\ lw' = [last.t EXCEPT !.s_bdevices = @ \ {i}]
      /\ ml' = clr_ML_entry(IF u.eok THEN [ml EXCEPT !.mounted = @ \ {i}] ELSE clr_ML_entry(ml, i), i)
      /\ bd' = IF u.eok THEN bd ELSE clr_BDL_entry
  BY <1>1, <1>2 DEF ExtUnmount, IdAfter
<1>4. ml' = [available |-> ml.available \ {i}, mounted |-> ml.mounted \ {i}]
  BY <1>1, <1>3 DEF clr_ML_entry, Typed
<1>5. PICK h \in BOOLEAN, q \in Nat :
        /\ q >= r - 1 /\ (ok => q = r - 1) /\ (~ok => q = r)
        /\ u = Umounted(D, M, i, ok, h, q)
  <2>1. lw = [s_bdevices |-> D, s_mp |-> M, ph_refctr |-> r] /\ M \in [Partition -> MountPoint] /\ r \in Nat
    BY <1>1 DEF Typed
  <2> QED
    BY <1>1, <1>2, <2>1, UmountIs
<1> DEFINE M1 == [M EXCEPT ![i] = [name |-> i, mounted |-> FALSE, held |-> h]]
<1>6. u.eok = ok /\ u.t = [s_bdevices |-> D, s_mp |-> M1, ph_refctr |-> q]
  BY <1>5 DEF Umounted
<1>7. CASE ok
  <2> HIDE DEF u, M1, D, r
  <2>1. lw' = [s_bdevices |-> D \ {i}, s_mp |-> M1, ph_refctr |-> q]
    <3>1. lw' = [u.t EXCEPT !.s_bdevices = @ \ {i}]
      BY <1>3, <1>6, <1>7
    <3> QED
      BY <1>6, <3>1
  <2>2. Clears(i, ok)
    BY <1>4, <1>5, <1>7, <2>1 DEF Clears, M1, D, r
  <2> QED
    BY <1>3, <1>6, <1>7, <2>2
<1>8. CASE ~ok
  <2>1. M1 \in [Partition -> MountPoint] /\ \A s \in Partition : M1[s].name = i <=> s = i
    BY <1>1 DEF Typed, MountPoint
  <2>2. u.t = [s_bdevices |-> D, s_mp |-> M1, ph_refctr |-> r] /\ ~u.eok /\ r \in Nat
    BY <1>1, <1>5, <1>6, <1>8 DEF Typed
  <2>3. PICK h2 \in BOOLEAN, q2 \in Nat :
          /\ q2 >= r - 1 /\ u2 = Umounted(D, M1, i, again, h2, q2)
    <3> HIDE DEF M1, u, D, r
    <3>1. again => r > 0
      BY <1>2 DEF r
    <3> QED
      BY <2>1, <2>2, <3>1, UmountIs
  <2> DEFINE M2 == [M EXCEPT ![i] = [name |-> i, mounted |-> FALSE, held |-> h2]]
  <2>4. [M1 EXCEPT ![i] = [name |-> i, mounted |-> FALSE, held |-> h2]] = M2
    BY <1>1 DEF Typed
  <2>5. u2.t = [s_bdevices |-> D, s_mp |-> M2, ph_refctr |-> q2]
    <3> HIDE DEF u2, D, M1, M2
    <3>1. u2.t = [s_bdevices |-> D, s_mp |-> [M1 EXCEPT ![i] = [name |-> i, mounted |-> FALSE, held |-> h2]],
                  ph_refctr |-> q2]
      BY <2>3 DEF Umounted
    <3> QED
      BY <2>4, <3>1
  <2> HIDE DEF u, u2, M2, D, r
  <2>6. lw' = [s_bdevices |-> D \ {i}, s_mp |-> M2, ph_refctr |-> q2]
    <3>1. lw' = [u2.t EXCEPT !.s_bdevices = @ \ {i}]
      BY <1>3, <2>2
    <3> QED
      BY <2>5, <3>1
  <2>7. Clears(i, ok)
    BY <1>4, <1>8, <2>3, <2>6 DEF Clears, M2, D, r
  <2> QED
    BY <1>3, <1>8, <2>7
<1> QED
  BY <1>7, <1>8

-----------------------------------------------------------------------------
(* The steps.                                                              *)

\* Calls that begin or end, and the drive that comes and goes.
Quiet ==
    \/ MountDrivesAgain \/ MountDrivesNoDrive \/ MountDrivesNoTable \/ MountDrivesEnd
    \/ UmountDrives \/ UmountDrivesEnd \/ Unplug \/ Plug \/ UNCHANGED vars

LEMMA QuietStep ==
  ASSUME IInv, Quiet
  PROVE  IInv'
<1>1. UNCHANGED <<lw, ml, ext_id>> /\ TypeOK /\ Typed /\ N \in Nat \ {0}
  BY TypedIs, DriveAssumption
     DEF Quiet, MountDrivesAgain, MountDrivesNoDrive, MountDrivesNoTable, MountDrivesEnd,
         UmountDrives, UmountDrivesEnd, Unplug, Plug, vars, IInv
<1>2. \/ loop' = loop \/ loop' = [op |-> "mount", i |-> 0] \/ loop' = [op |-> "umount", i |-> 0]
      \/ loop' = Idle
  BY DEF Quiet, MountDrivesAgain, MountDrivesNoDrive, MountDrivesNoTable, MountDrivesEnd,
         UmountDrives, UmountDrivesEnd, Unplug, Plug, vars
<1>3. TypeOK'
  <2>1. /\ bd' \in [connected : BOOLEAN, pDrive : BOOLEAN] /\ msd' \in [type : {"none", "ext4"}, mounted : BOOLEAN]
        /\ attached' \in BOOLEAN /\ disturbed' \in BOOLEAN
    <3>1. bd = [connected |-> bd.connected, pDrive |-> bd.pDrive] /\ bd.connected \in BOOLEAN /\ bd.pDrive \in BOOLEAN
      BY <1>1 DEF TypeOK
    <3>2. bd' = bd \/ bd' = [bd EXCEPT !.pDrive = TRUE] \/ bd' = [connected |-> TRUE, pDrive |-> TRUE]
          \/ bd' = clr_BDL_entry
      BY DEF Quiet, MountDrivesAgain, MountDrivesNoDrive, MountDrivesNoTable, MountDrivesEnd,
             UmountDrives, UmountDrivesEnd, Unplug, Plug, vars
    <3>3. bd' \in [connected : BOOLEAN, pDrive : BOOLEAN]
      <4>1. CASE bd' = [bd EXCEPT !.pDrive = TRUE]
        <5>1. bd' = [connected |-> bd.connected, pDrive |-> TRUE]
          BY <3>1, <4>1
        <5> QED
          BY <3>1, <5>1
      <4>2. CASE bd' = bd
        BY <1>1, <4>2 DEF TypeOK
      <4>3. CASE bd' = [connected |-> TRUE, pDrive |-> TRUE]
        BY <4>3
      <4>4. CASE bd' = clr_BDL_entry
        BY <4>4 DEF clr_BDL_entry
      <4> QED
        BY <3>2, <4>1, <4>2, <4>3, <4>4
    <3>4. msd' = msd \/ msd' = NoMsd
      BY DEF Quiet, MountDrivesAgain, MountDrivesNoDrive, MountDrivesNoTable, MountDrivesEnd,
             UmountDrives, UmountDrivesEnd, Unplug, Plug, vars
    <3>5. msd' \in [type : {"none", "ext4"}, mounted : BOOLEAN]
      <4>1. NoMsd \in [type : {"none", "ext4"}, mounted : BOOLEAN]
        BY DEF NoMsd
      <4>2. msd \in [type : {"none", "ext4"}, mounted : BOOLEAN]
        BY <1>1 DEF TypeOK
      <4> QED
        BY <3>4, <4>1, <4>2
    <3>6. (attached' = attached \/ attached' = TRUE \/ attached' = FALSE) /\ (disturbed' = disturbed \/ disturbed' = TRUE)
      BY DEF Quiet, MountDrivesAgain, MountDrivesNoDrive, MountDrivesNoTable, MountDrivesEnd,
             UmountDrives, UmountDrivesEnd, Unplug, Plug, vars
    <3>7. attached' \in BOOLEAN /\ disturbed' \in BOOLEAN
      BY <1>1, <3>6 DEF TypeOK
    <3> QED
      BY <3>3, <3>5, <3>7
  <2>2. loop' \in [op : {"idle", "mount", "umount"}, i : 0 .. N]
    BY <1>1, <1>2 DEF TypeOK, Idle
  <2> QED
    BY <1>1, <2>1, <2>2 DEF TypeOK
<1>4. ListOK'
  <2>1. CASE loop' = loop
    BY <1>1, <2>1 DEF IInv, ListOK
  <2>2. CASE loop' # loop /\ (loop = Idle \/ MountDrivesEnd)
    <3>1. loop.op # "umount" /\ loop'.op \in {"idle", "mount", "umount"} /\ (loop'.op # "idle" => loop'.i = 0)
      BY <1>2, <2>2 DEF Idle, MountDrivesEnd
    <3>2. 0 .. (0 - 1) = {}
      OBVIOUS
    <3> QED
      BY <1>1, <3>1, <3>2 DEF IInv, ListOK
  <2>3. CASE UmountDrivesEnd
    <3>1. loop' = Idle /\ loop.op = "umount" /\ loop.i = N
      BY <2>3 DEF UmountDrivesEnd
    <3>2. ml.available = {}
      BY <1>1, <3>1 DEF IInv, ListOK, Typed, Partition
    <3>3. ml.mounted = {}
      BY <3>2 DEF IInv, MountedOK
    <3> QED
      BY <1>1, <3>1, <3>2, <3>3 DEF IInv, ListOK, Idle
  <2> QED
    BY <2>1, <2>2, <2>3
       DEF Quiet, MountDrivesAgain, MountDrivesNoDrive, MountDrivesNoTable, UmountDrives, Unplug, Plug, vars
<1>5. IdsOK' /\ SlotsOK' /\ MountedOK' /\ OpenWhileMounted'
  BY <1>1 DEF IInv, IdsOK, SlotsOK, MountedOK, OpenWhileMounted
<1> QED
  BY <1>3, <1>4, <1>5 DEF IInv

LEMMA MountDrivesFirstStep ==
  ASSUME IInv, MountDrivesFirst
  PROVE  IInv'
<1>1. Typed /\ TypeOK /\ lw' = lw /\ ext_id' = ext_id /\ N \in Nat
  BY TypedIs, DriveAssumption DEF IInv, MountDrivesFirst
<1>2. /\ ml' = [available |-> ml'.available, mounted |-> ml.mounted] /\ ml'.mounted = ml.mounted
      /\ ml'.available \in {ml.available, Used} /\ loop.op = "idle"
      /\ loop'.op = "mount" /\ loop'.i = 0
  BY <1>1 DEF MountDrivesFirst, Typed, Used, Idle
<1>3. \A k \in ml.mounted : k \in Used /\ 0 .. k \subseteq ml.mounted
  BY <1>2 DEF IInv, ListOK, MountedOK
<1>4. ml.mounted \subseteq ml'.available /\ ml'.available \in {{}, Used} /\ Used \subseteq Partition
  BY <1>2, <1>3 DEF IInv, ListOK, MountedOK, Used
<1>5. TypeOK'
  <2>1. loop' = [op |-> "mount", i |-> 0] /\ 0 \in 0 .. N
    BY <1>1 DEF MountDrivesFirst
  <2>2. ml' \in [available : SUBSET Partition, mounted : SUBSET Partition]
    BY <1>1, <1>2, <1>4 DEF Typed
  <2> QED
    BY <1>1, <2>1, <2>2 DEF TypeOK, MountDrivesFirst
<1>6. ListOK'
  <2>1. 0 .. (0 - 1) = {}
    OBVIOUS
  <2> QED
    BY <1>2, <1>3, <1>4, <2>1 DEF ListOK, Used
<1>7. MountedOK'
  BY <1>1, <1>2, <1>4 DEF IInv, MountedOK
<1>8. IdsOK' /\ SlotsOK' /\ OpenWhileMounted'
  BY <1>1 DEF IInv, IdsOK, SlotsOK, OpenWhileMounted
<1> QED
  BY <1>5, <1>6, <1>7, <1>8 DEF IInv

LEMMA MountSkipsStep ==
  ASSUME IInv, MountSkips
  PROVE  IInv'
<1> DEFINE i == loop.i
<1>1. /\ Typed /\ TypeOK /\ UNCHANGED <<lw, ml, ext_id, bd, msd, attached, disturbed>> /\ N \in Nat
      /\ i \in Nat /\ i < N /\ i \in Partition /\ loop.op = "mount"
      /\ loop' = [op |-> "mount", i |-> i + 1]
  BY TypedIs, DriveAssumption, PartitionIs DEF IInv, MountSkips, Typed, Next_i
<1>2. TypeOK'
  BY <1>1 DEF TypeOK
<1>3. ml.available = {} \/ i \in ml.mounted \/ Kind[i] = "empty"
  BY <1>1 DEF MountSkips, IInv, ListOK, Used
<1>4. ListOK'
  <2>1. \A j \in 0 .. ((i + 1) - 1) : j \in 0 .. (i - 1) \/ j = i
    BY <1>1
  <2>2. loop'.op = "mount" /\ loop'.i = i + 1
    BY <1>1
  <2> QED
    BY <1>1, <1>3, <2>1, <2>2 DEF IInv, ListOK
<1>5. IdsOK' /\ SlotsOK' /\ MountedOK' /\ OpenWhileMounted'
  BY <1>1 DEF IInv, IdsOK, SlotsOK, MountedOK, OpenWhileMounted
<1> QED
  BY <1>2, <1>4, <1>5 DEF IInv

\* The mount points that hold a reference of the device.
Held(t) == {s \in Partition : t[s].mounted /\ t[s].held}

LEMMA OpenIs == OpenWhileMounted <=> Cardinality(Held(lw.s_mp)) <= lw.ph_refctr
BY DEF OpenWhileMounted, Held

LEMMA HeldCount ==
  ASSUME NEW t \in [Partition -> MountPoint]
  PROVE  IsFiniteSet(Held(t)) /\ Cardinality(Held(t)) \in Nat
BY HeldFinite DEF Held

LEMMA HeldMore ==
  ASSUME NEW t \in [Partition -> MountPoint], NEW u \in [Partition -> MountPoint], NEW i \in Partition,
         \A s \in Partition \ {i} : u[s] = t[s], ~t[i].mounted
  PROVE  /\ u[i].mounted /\ u[i].held => Cardinality(Held(u)) = Cardinality(Held(t)) + 1
         /\ ~u[i].held => Cardinality(Held(u)) = Cardinality(Held(t))
<1>1. IsFiniteSet(Held(t)) /\ i \notin Held(t)
  BY HeldCount DEF Held
<1>2. u[i].mounted /\ u[i].held => Held(u) = Held(t) \cup {i}
  BY DEF Held
<1>3. ~u[i].held => Held(u) = Held(t)
  BY DEF Held
<1>4. Cardinality(Held(t) \cup {i}) = Cardinality(Held(t)) + 1
  BY <1>1, FS_AddElement
<1> QED
  BY <1>2, <1>3, <1>4

LEMMA HeldLess ==
  ASSUME NEW t \in [Partition -> MountPoint], NEW u \in [Partition -> MountPoint], NEW i \in Partition,
         \A s \in Partition \ {i} : u[s] = t[s], ~u[i].mounted, t[i].mounted, t[i].held
  PROVE  Cardinality(Held(t)) = Cardinality(Held(u)) + 1
<1>1. IsFiniteSet(Held(u)) /\ i \notin Held(u)
  BY HeldCount DEF Held
<1>2. Held(t) = Held(u) \cup {i}
  BY DEF Held
<1>3. Cardinality(Held(u) \cup {i}) = Cardinality(Held(u)) + 1
  BY <1>1, FS_AddElement
<1> QED
  BY <1>2, <1>3

LEMMA MountOneStep ==
  ASSUME IInv, MountOne
  PROVE  IInv'
<1> DEFINE i == loop.i
<1>1. /\ Typed /\ TypeOK /\ N \in Nat /\ i \in Nat /\ i < N /\ i \in Partition /\ loop.op = "mount"
      /\ i \in ml.available /\ i \notin ml.mounted /\ bd' = bd /\ attached' = attached
      /\ NoId \notin Partition
  BY TypedIs, DriveAssumption, PartitionIs DEF IInv, MountOne, Typed
<1>2. PICK ok \in BOOLEAN, rec \in BOOLEAN :
        /\ IF CanMount(i) THEN ExtMount(i, ok, rec) ELSE UNCHANGED <<lw, ml, ext_id>>
        /\ disturbed' = (disturbed \/ ~ok \/ ~rec)
  BY DEF MountOne, Transfer
<1>3. /\ loop' \in {[op |-> "mount", i |-> i + 1], Idle}
      /\ loop'.op = "mount" => /\ loop'.i = i + 1 /\ CanMount(i) /\ Mounted(i)
  <2>1. CASE CanMount(i) /\ Mounted(i)
    BY <1>1, <2>1 DEF MountOne, Next_i, Typed
  <2>2. CASE ~(CanMount(i) /\ Mounted(i))
    BY <1>1, <2>2 DEF MountOne, Idle
  <2> QED
    BY <2>1, <2>2
<1>4. /\ loop' \in [op : {"idle", "mount", "umount"}, i : 0 .. N]
      /\ msd' \in [type : {"none", "ext4"}, mounted : BOOLEAN]
      /\ bd' \in [connected : BOOLEAN, pDrive : BOOLEAN]
      /\ attached' \in BOOLEAN /\ disturbed' \in BOOLEAN
  <2>1. loop' \in [op : {"idle", "mount", "umount"}, i : 0 .. N]
    BY <1>1, <1>3 DEF Idle
  <2>2. msd' \in [type : {"none", "ext4"}, mounted : BOOLEAN]
    BY <1>1 DEF TypeOK, MountOne
  <2> QED
    BY <1>1, <1>2, <2>1, <2>2 DEF TypeOK
<1>5. CASE CanMount(i)
  <2> DEFINE k == Min(FreeId)
             good == ok /\ Kind[i] = "ext4"
  <2>1. /\ ext_id[i] = NoId /\ ext_id' = [ext_id EXCEPT ![i] = k]
        /\ i \in lw.s_bdevices \/ k # i => Keeps
        /\ i \notin lw.s_bdevices /\ k = i => Fills(i, good, rec)
    BY <1>1, <1>2, <1>5, MountIs DEF CanMount
  <2>2. /\ k \in Partition
        /\ \/ k = i /\ \A j \in 0 .. (i - 1) : j \in ml.mounted
           \/ k < i /\ Kind[i] # "empty" /\ \A m \in k .. (i - 1) : Kind[m] = "empty"
    BY <1>1, <2>1, FirstFree
  <2> HIDE DEF k
  <2>3. Kind[i] # "empty"
    BY <1>1 DEF IInv, ListOK, Used
  <2>4. IdsOK'
    <3>1. \A j \in Partition : ext_id'[j] = IF j = i THEN k ELSE ext_id[j]
      BY <1>1, <2>1 DEF Typed
    <3>2. k \in Nat /\ k <= i /\ \A m \in k .. (i - 1) : Kind[m] = "empty"
      BY <1>1, <2>2, PartitionIs
    <3> QED
      BY <2>3, <3>1, <3>2 DEF IInv, IdsOK
  <2>5. ext_id' \in [Partition -> Partition \cup {NoId}] /\ \A j \in Partition \ {i} : ext_id'[j] = ext_id[j]
    BY <1>1, <2>1, <2>2 DEF Typed
  <2>6. \A j \in ml.mounted : j # i
    BY <1>1
  <2>7. CASE Keeps
    <3>1. lw' = lw /\ ml' = ml
      BY <2>7 DEF Keeps
    <3>2. TypeOK'
      BY <1>1, <1>4, <2>5, <3>1 DEF TypeOK
    <3>3. MountedOK' /\ SlotsOK'
      BY <1>1, <2>1, <2>5, <3>1 DEF IInv, MountedOK, SlotsOK, Typed
    <3>4. loop'.op = "idle"
      <4>1. ext_id'[i] \notin ml'.mounted
        <5>1. ext_id'[i] = k
          BY <1>1, <2>1 DEF Typed
        <5>2. k \notin ml.mounted
          <6>1. CASE k = i
            BY <1>1, <6>1
          <6>2. CASE k # i
            <7>1. k \in k .. (i - 1) /\ k \in 0 .. k
              BY <1>1, <2>2, <6>2, PartitionIs
            <7>2. Kind[k] = "empty"
              BY <2>2, <6>2, <7>1
            <7> QED
              BY <7>1, <7>2 DEF IInv, MountedOK
          <6> QED
            BY <6>1, <6>2
        <5> QED
          BY <3>1, <5>1, <5>2
      <4> QED
        BY <1>3, <4>1 DEF Mounted, Idle
    <3>5. ListOK'
      BY <1>1, <3>1, <3>4 DEF IInv, ListOK
    <3> QED
      BY <2>4, <3>1, <3>2, <3>3, <3>5 DEF IInv, OpenWhileMounted
  <2>8. CASE Fills(i, good, rec) /\ k = i
    <3>1. \A j \in 0 .. (i - 1) : j \in ml.mounted
      BY <2>2, <2>8, <1>1
    <3>2. /\ lw'.s_mp = [lw.s_mp EXCEPT ![i] = [name |-> i, mounted |-> TRUE, held |-> good]]
          /\ lw'.ph_refctr = IF good THEN lw.ph_refctr + 1 ELSE lw.ph_refctr
          /\ lw'.s_bdevices = IF good THEN lw.s_bdevices \cup {i} ELSE lw.s_bdevices \ {i}
          /\ ml'.available = ml.available
          /\ ml'.mounted = IF good /\ rec THEN ml.mounted \cup {i} ELSE ml.mounted
          /\ lw' = [s_bdevices |-> lw'.s_bdevices, s_mp |-> lw'.s_mp, ph_refctr |-> lw'.ph_refctr]
          /\ ml' = [available |-> ml'.available, mounted |-> ml'.mounted]
      BY <2>8 DEF Fills
    <3> HIDE DEF i
    <3>3. /\ lw'.s_mp \in [Partition -> MountPoint]
          /\ lw'.s_mp[i] = [name |-> i, mounted |-> TRUE, held |-> good]
          /\ \A s \in Partition \ {i} : lw'.s_mp[s] = lw.s_mp[s]
      BY <1>1, <3>2 DEF Typed, MountPoint
    <3>4. ext_id'[i] = i
      BY <1>1, <2>1, <2>8 DEF Typed
    <3>5. TypeOK'
      <4>1. lw' \in [s_bdevices : SUBSET Partition, s_mp : [Partition -> MountPoint], ph_refctr : Nat]
        <5>1. lw'.s_bdevices \in SUBSET Partition /\ lw'.ph_refctr \in Nat
          BY <1>1, <3>2 DEF Typed
        <5> QED
          BY <3>2, <3>3, <5>1
      <4>2. ml' \in [available : SUBSET Partition, mounted : SUBSET Partition]
        <5>1. ml'.available \in SUBSET Partition /\ ml'.mounted \in SUBSET Partition
          BY <1>1, <3>2 DEF Typed
        <5> QED
          BY <3>2, <5>1
      <4> QED
        BY <1>4, <2>5, <4>1, <4>2 DEF TypeOK
    <3>6. SlotsOK'
      <4>1. SlotsOK
        BY DEF IInv
      <4> QED
        BY <2>5, <3>3, <3>4, <4>1 DEF SlotsOK
    <3>7. \A j \in 0 .. i : j \in ml.mounted \/ j = i
      BY <1>1, <3>1
    <3>8. \A m \in ml.mounted : \A j \in 0 .. m : Kind[j] = "ext4"
      BY DEF IInv, MountedOK
    <3>9. good => \A j \in 0 .. i : Kind[j] = "ext4"
      <4>1. \A j \in ml.mounted : j \in 0 .. j
        BY <1>1, PartitionIs DEF Typed
      <4> QED
        BY <3>7, <3>8, <4>1
    <3>10. MountedOK'
      <4>1. ASSUME NEW m \in ml'.mounted
            PROVE  /\ m \in ml'.available /\ m \in lw'.s_bdevices /\ ext_id'[m] = m
                   /\ \A j \in 0 .. m : Kind[j] = "ext4"
                   /\ lw'.s_mp[m].mounted /\ lw'.s_mp[m].held
        <5>1. CASE m \in ml.mounted
          <6>1. m \in Partition \ {i} /\ MountedOK
            BY <1>1, <2>6, <5>1 DEF Typed, IInv
          <6> QED
            BY <2>5, <3>2, <3>3, <5>1, <6>1 DEF MountedOK
        <5>2. CASE m \notin ml.mounted
          <6>1. m = i /\ good
            BY <3>2, <4>1, <5>2
          <6> QED
            BY <1>1, <3>2, <3>3, <3>4, <3>9, <6>1
        <5> QED
          BY <5>1, <5>2
      <4> QED
        BY <4>1 DEF MountedOK
    <3>11. ListOK'
      <4>1. ListOK /\ ml.available = Used
        BY <1>1 DEF IInv, ListOK
      <4>2. loop'.op = "mount" => loop'.i = i + 1 /\ i \in ml'.mounted
        BY <1>3, <3>4 DEF Mounted, i
      <4>3. loop'.op # "umount"
        BY <1>3 DEF Idle
      <4>4. \A m \in ml'.mounted : 0 .. m \subseteq ml'.mounted
        <5>1. \A m \in ml.mounted : 0 .. m \subseteq ml.mounted
          BY <1>1, <4>1 DEF ListOK
        <5> QED
          BY <3>2, <3>7, <5>1
      <4>5. \A j \in 0 .. ((i + 1) - 1) : j \in 0 .. i
        BY <1>1
      <4> QED
        BY <3>2, <3>7, <4>1, <4>2, <4>3, <4>4, <4>5 DEF ListOK
    <3>12. OpenWhileMounted'
      <4>1. ~lw.s_mp[i].mounted
        BY <1>1, <2>1 DEF IInv, SlotsOK
      <4>2. /\ good => Cardinality(Held(lw'.s_mp)) = Cardinality(Held(lw.s_mp)) + 1
            /\ ~good => Cardinality(Held(lw'.s_mp)) = Cardinality(Held(lw.s_mp))
        <5>1. lw'.s_mp[i].mounted /\ lw'.s_mp[i].held = good
          BY <3>3
        <5> HIDE DEF good
        <5> QED
          BY <1>1, <3>3, <4>1, <5>1, HeldMore DEF Typed
      <4>3. Cardinality(Held(lw.s_mp)) \in Nat /\ lw.ph_refctr \in Nat
        BY <1>1, HeldCount DEF Typed
      <4>4. Cardinality(Held(lw.s_mp)) <= lw.ph_refctr
        BY OpenIs DEF IInv
      <4>5. Cardinality(Held(lw'.s_mp)) <= lw'.ph_refctr
        BY <3>2, <4>2, <4>3, <4>4
      <4> QED
        BY <4>5 DEF OpenWhileMounted, Held
    <3> QED
      BY <2>4, <3>5, <3>6, <3>10, <3>11, <3>12 DEF IInv
  <2> QED
    BY <2>1, <2>7, <2>8
<1>6. CASE ~CanMount(i)
  <2>1. UNCHANGED <<lw, ml, ext_id>> /\ loop'.op = "idle"
    BY <1>2, <1>3, <1>6 DEF Idle
  <2>2. TypeOK'
    BY <1>1, <1>4, <2>1 DEF TypeOK
  <2>3. ListOK'
    BY <1>1, <2>1 DEF IInv, ListOK
  <2> QED
    BY <2>1, <2>2, <2>3 DEF IInv, IdsOK, SlotsOK, MountedOK, OpenWhileMounted
<1> QED
  BY <1>5, <1>6

LEMMA UmountSkipsStep ==
  ASSUME IInv, UmountSkips
  PROVE  IInv'
<1> DEFINE i == loop.i
<1>1. /\ Typed /\ TypeOK /\ UNCHANGED <<lw, ext_id, bd, msd, attached, disturbed>> /\ N \in Nat
      /\ i \in Nat /\ i < N /\ i \in Partition /\ loop.op = "umount"
      /\ loop' = [op |-> "umount", i |-> i + 1]
      /\ ml' = [available |-> ml.available \ {i}, mounted |-> ml.mounted \ {i}]
  BY TypedIs, DriveAssumption, PartitionIs DEF IInv, UmountSkips, Typed, Next_i, clr_ML_entry
<1>2. /\ ml'.available = ml.available \ {i} /\ ml'.mounted = ml.mounted \ {i}
      /\ loop'.op = "umount" /\ loop'.i = i + 1
  BY <1>1
<1>3. TypeOK'
  BY <1>1 DEF TypeOK, Typed
<1>4. ListOK'
  <2>1. \A j \in 0 .. ((i + 1) - 1) : j \in 0 .. (i - 1) \/ j = i
    BY <1>1
  <2> QED
    BY <1>1, <1>2, <2>1 DEF IInv, ListOK
<1>5. IdsOK' /\ SlotsOK' /\ MountedOK' /\ OpenWhileMounted'
  BY <1>1, <1>2 DEF IInv, IdsOK, SlotsOK, MountedOK, OpenWhileMounted
<1> QED
  BY <1>3, <1>4, <1>5 DEF IInv

LEMMA UmountOneStep ==
  ASSUME IInv, UmountOne
  PROVE  IInv'
<1> DEFINE i == loop.i
<1>1. /\ Typed /\ TypeOK /\ N \in Nat /\ i \in Nat /\ i < N /\ i \in Partition /\ loop.op = "umount"
      /\ i \in ml.mounted /\ msd' = msd /\ attached' = attached
      /\ NoId \notin Partition /\ loop' = [op |-> "umount", i |-> i + 1]
  BY TypedIs, DriveAssumption, PartitionIs DEF IInv, UmountOne, Typed, Next_i
<1>2. PICK ok \in BOOLEAN, again \in BOOLEAN :
        ExtUnmount(i, ok, again) /\ disturbed' = (disturbed \/ ~ok)
  BY DEF UmountOne, Transfer
<1>3. ext_id' = [ext_id EXCEPT ![i] = NoId] /\ Clears(i, ok)
  BY <1>1, <1>2, UnmountIs
<1>4. PICK h \in BOOLEAN, r \in Nat :
        /\ r >= lw.ph_refctr - 1
        /\ lw' = [s_bdevices |-> lw.s_bdevices \ {i},
                  s_mp |-> [lw.s_mp EXCEPT ![i] = [name |-> i, mounted |-> FALSE, held |-> h]],
                  ph_refctr |-> r]
        /\ ml' = [available |-> ml.available \ {i}, mounted |-> ml.mounted \ {i}]
  BY <1>3 DEF Clears
<1>5. /\ ml'.available = ml.available \ {i} /\ ml'.mounted = ml.mounted \ {i}
      /\ loop'.op = "umount" /\ loop'.i = i + 1
      /\ lw'.s_bdevices = lw.s_bdevices \ {i} /\ lw'.ph_refctr = r
      /\ lw'.s_mp = [lw.s_mp EXCEPT ![i] = [name |-> i, mounted |-> FALSE, held |-> h]]
  BY <1>1, <1>4
<1> HIDE DEF i
<1>6. /\ lw'.s_mp \in [Partition -> MountPoint]
      /\ ~lw'.s_mp[i].mounted /\ lw'.s_mp[i].name = i
      /\ \A s \in Partition \ {i} : lw'.s_mp[s] = lw.s_mp[s]
      /\ ext_id' \in [Partition -> Partition \cup {NoId}]
      /\ ext_id'[i] = NoId /\ \A s \in Partition \ {i} : ext_id'[s] = ext_id[s]
  BY <1>1, <1>3, <1>5 DEF Typed, MountPoint
<1>7. TypeOK'
  <2>1. lw' \in [s_bdevices : SUBSET Partition, s_mp : [Partition -> MountPoint], ph_refctr : Nat]
    <3>1. lw' = [s_bdevices |-> lw'.s_bdevices, s_mp |-> lw'.s_mp, ph_refctr |-> lw'.ph_refctr]
      BY <1>4
    <3>2. lw'.s_bdevices \in SUBSET Partition /\ lw'.ph_refctr \in Nat
      BY <1>1, <1>5 DEF Typed
    <3> QED
      BY <1>6, <3>1, <3>2
  <2>2. ml' \in [available : SUBSET Partition, mounted : SUBSET Partition]
    BY <1>1, <1>4 DEF Typed
  <2>3. bd' \in [connected : BOOLEAN, pDrive : BOOLEAN] /\ disturbed' \in BOOLEAN
    BY <1>1, <1>2 DEF TypeOK, ExtUnmount, clr_BDL_entry
  <2>4. loop' \in [op : {"idle", "mount", "umount"}, i : 0 .. N]
    BY <1>1
  <2> QED
    BY <1>1, <1>6, <2>1, <2>2, <2>3, <2>4 DEF TypeOK
<1>8. ListOK'
  <2>1. \A j \in 0 .. ((i + 1) - 1) : j \in 0 .. (i - 1) \/ j = i
    BY <1>1
  <2>2. ml.available \subseteq Used /\ \A j \in 0 .. (i - 1) : j \notin ml.available
    BY <1>1 DEF IInv, ListOK, i
  <2> QED
    BY <1>5, <2>1, <2>2 DEF ListOK
<1>9. IdsOK' /\ SlotsOK' /\ MountedOK'
  <2>1. IdsOK'
    BY <1>1, <1>6 DEF IInv, IdsOK
  <2>2. SlotsOK'
    BY <1>6 DEF IInv, SlotsOK
  <2>3. ml.mounted \subseteq Partition /\ MountedOK
    BY <1>1 DEF Typed, IInv
  <2>4. MountedOK'
    BY <1>5, <1>6, <2>3 DEF MountedOK
  <2> QED
    BY <2>1, <2>2, <2>4
<1>10. OpenWhileMounted'
  <2>1. lw.s_mp[i].mounted /\ lw.s_mp[i].held
    BY <1>1 DEF IInv, MountedOK
  <2>2. Cardinality(Held(lw.s_mp)) = Cardinality(Held(lw'.s_mp)) + 1
    BY <1>1, <1>6, <2>1, HeldLess DEF Typed
  <2>3. Cardinality(Held(lw'.s_mp)) \in Nat /\ lw.ph_refctr \in Nat
    BY <1>1, <1>6, HeldCount DEF Typed
  <2>4. Cardinality(Held(lw.s_mp)) <= lw.ph_refctr
    BY OpenIs DEF IInv
  <2>5. Cardinality(Held(lw'.s_mp)) <= lw'.ph_refctr
    BY <1>4, <1>5, <2>2, <2>3, <2>4
  <2> QED
    BY <2>5 DEF OpenWhileMounted, Held
<1> QED
  BY <1>7, <1>8, <1>9, <1>10 DEF IInv

-----------------------------------------------------------------------------
(* The invariant.                                                          *)

LEMMA InitIInv == Init => IInv
<1> SUFFICES ASSUME Init PROVE IInv
  OBVIOUS
<1>1. N \in Nat \ {0} /\ NoId \notin Partition
  BY PartitionIs
<1>2. TypeOK
  <2>1. lw \in [s_bdevices : SUBSET Partition, s_mp : [Partition -> MountPoint], ph_refctr : Nat]
    <3>1. [i \in Partition |-> [name |-> NoId, mounted |-> FALSE, held |-> FALSE]] \in [Partition -> MountPoint]
      BY DEF MountPoint
    <3> QED
      BY <3>1 DEF Init
  <2>2. ml \in [available : SUBSET Partition, mounted : SUBSET Partition]
    BY DEF Init
  <2>3. bd \in [connected : BOOLEAN, pDrive : BOOLEAN] /\ ext_id \in [Partition -> Partition \cup {NoId}]
    BY DEF Init
  <2>4. msd \in [type : {"none", "ext4"}, mounted : BOOLEAN] /\ attached \in BOOLEAN /\ disturbed \in BOOLEAN
    BY DEF Init, NoMsd
  <2>5. loop \in [op : {"idle", "mount", "umount"}, i : 0 .. N]
    BY <1>1 DEF Init, Idle
  <2> QED
    BY <2>1, <2>2, <2>3, <2>4, <2>5 DEF TypeOK
<1>3. \A s \in Partition : lw.s_mp[s].name = NoId /\ ~lw.s_mp[s].mounted
  BY DEF Init
<1>4. IdsOK /\ SlotsOK /\ MountedOK /\ ListOK
  BY <1>3 DEF Init, IdsOK, SlotsOK, MountedOK, ListOK, Idle
<1>5. OpenWhileMounted
  <2>1. {s \in Partition : lw.s_mp[s].mounted /\ lw.s_mp[s].held} = {} /\ lw.ph_refctr = 0
    BY <1>3 DEF Init
  <2>2. Cardinality({s \in Partition : lw.s_mp[s].mounted /\ lw.s_mp[s].held}) = 0
    BY <2>1, FS_EmptySet
  <2> QED
    BY <2>1, <2>2 DEF OpenWhileMounted
<1> QED
  BY <1>2, <1>4, <1>5 DEF IInv

LEMMA NextIInv == IInv /\ [Next]_vars => IInv'
BY QuietStep, MountDrivesFirstStep, MountSkipsStep, MountOneStep, UmountSkipsStep, UmountOneStep
   DEF Next, Quiet

LEMMA AlwaysIInv == Spec => []IInv
BY InitIInv, NextIInv, PTL DEF Spec

\* The tables keep their types whatever transfers fail: the reference count
\* never goes below zero and the loops stay within the lists.
THEOREM VolumesTypeCorrect == Spec => []TypeOK
<1>1. IInv => TypeOK
  BY DEF IInv
<1> QED
  BY <1>1, AlwaysIInv, PTL

\* What ml_entry shows as mounted can be used: ext4_mount, which answers EOK for
\* a mount point already marked, never does so for one that holds no file system.
THEOREM ListedIsUsable == Spec => []MountedIsUsable
<1>1. ASSUME IInv, NEW k \in ml.mounted
      PROVE  /\ k \in lw.s_bdevices
             /\ \E s \in Partition :
                  lw.s_mp[s].mounted /\ lw.s_mp[s].name = k /\ lw.s_mp[s].held
  <2>1. k \in Partition
    BY <1>1, TypedIs DEF IInv, Typed
  <2> QED
    BY <1>1, <2>1 DEF IInv, MountedOK, SlotsOK
<1>2. IInv => MountedIsUsable
  BY <1>1 DEF MountedIsUsable
<1> QED
  BY <1>2, AlwaysIInv, PTL

\* ph_refctr is at least the number of mount points that hold the device, so
\* ext4_block_fini closes it under none of them, though unmount is tried twice.
THEOREM DeviceStaysOpen == Spec => []OpenWhileMounted
<1>1. IInv => OpenWhileMounted
  BY DEF IInv
<1> QED
  BY <1>1, AlwaysIInv, PTL

-----------------------------------------------------------------------------
(* A drive whose entries in use are the first ones, and no transfer fails. *)

LEMMA CleanQuiet ==
  ASSUME IInv, Clean, Quiet \/ MountSkips
  PROVE  Clean'
<1>1. UNCHANGED <<lw, ml, ext_id>> /\ (~disturbed' => ~disturbed)
  BY DEF Quiet, MountDrivesAgain, MountDrivesNoDrive, MountDrivesNoTable, MountDrivesEnd,
         UmountDrives, UmountDrivesEnd, Unplug, Plug, vars, MountSkips
<1>2. SUFFICES ASSUME ~disturbed'
               PROVE  /\ loop'.op = "mount" \/ msd'.mounted => bd'.connected
                      /\ bd'.connected /\ loop'.op # "umount" => ml'.available = Used
  BY <1>1 DEF Clean
<1>3. /\ loop.op = "mount" \/ msd.mounted => bd.connected
      /\ bd.connected /\ loop.op # "umount" => ml.available = Used
  BY <1>1, <1>2 DEF Clean
<1>4. CASE MountDrivesAgain \/ MountDrivesEnd
  BY <1>1, <1>3, <1>4 DEF MountDrivesAgain, MountDrivesEnd, Idle
<1>5. CASE MountDrivesNoDrive
  BY <1>1, <1>3, <1>5 DEF MountDrivesNoDrive, NoMsd
<1>6. CASE UmountDrives
  BY <1>1, <1>3, <1>6 DEF UmountDrives, NoMsd, Idle
<1>7. CASE UmountDrivesEnd
  BY <1>1, <1>3, <1>7 DEF UmountDrivesEnd, NoMsd, Idle, clr_BDL_entry
<1>8. CASE Plug \/ UNCHANGED vars
  BY <1>1, <1>3, <1>8 DEF Plug, vars
<1>9. CASE MountDrivesNoTable \/ Unplug
  BY <1>2, <1>9 DEF MountDrivesNoTable, Unplug
<1>10. CASE MountSkips
  <2>1. loop.op = "mount" /\ loop'.op = "mount" /\ bd' = bd /\ msd' = msd
    BY <1>10, TypedIs DEF MountSkips, Next_i, Typed, IInv
  <2> QED
    BY <1>1, <1>3, <2>1
<1> QED
  BY <1>4, <1>5, <1>6, <1>7, <1>8, <1>9, <1>10 DEF Quiet

LEMMA CleanFirst ==
  ASSUME IInv, Clean, MountDrivesFirst
  PROVE  Clean'
<1>1. Typed
  BY TypedIs DEF IInv
<1>2. /\ lw' = lw /\ ext_id' = ext_id /\ disturbed' = disturbed /\ bd'.connected
      /\ ml'.mounted = ml.mounted /\ loop.op = "idle"
      /\ ml'.available = IF bd.connected THEN ml.available ELSE Used
  BY <1>1 DEF MountDrivesFirst, Typed, Used, Idle
<1> QED
  BY <1>2 DEF Clean

\* With every transfer good, the partition whose turn it is gets mounted.
LEMMA GoodMount ==
  ASSUME Contiguous, IInv, Clean, MountOne, ~disturbed'
  PROVE  LET i == loop.i IN
         /\ i \in Partition /\ i \notin ml.mounted /\ Fills(i, TRUE, TRUE)
         /\ ext_id' = [ext_id EXCEPT ![i] = i] /\ loop' = [op |-> "mount", i |-> i + 1]
         /\ bd' = bd /\ ~disturbed /\ loop.op = "mount"
<1> DEFINE i == loop.i
<1>1. /\ Typed /\ i \in Nat /\ i \in Partition /\ loop.op = "mount"
      /\ i \in ml.available /\ i \notin ml.mounted /\ bd' = bd /\ NoId \notin Partition
  BY TypedIs, DriveAssumption, PartitionIs DEF IInv, MountOne, Typed
<1>2. PICK ok \in BOOLEAN, rec \in BOOLEAN :
        /\ IF CanMount(i) THEN ExtMount(i, ok, rec) ELSE UNCHANGED <<lw, ml, ext_id>>
        /\ disturbed' = (disturbed \/ ~ok \/ ~rec)
  BY DEF MountOne, Transfer
<1>3. ok = TRUE /\ rec = TRUE /\ ~disturbed
  BY <1>2
<1>4. ext_id[i] = NoId /\ i \notin lw.s_bdevices
  BY <1>1, <1>3 DEF Clean
<1>5. Kind[i] = "ext4" /\ \A j \in 0 .. i : Kind[j] = "ext4"
  <2>1. i \in 0 .. i /\ Kind[i] # "empty"
    BY <1>1 DEF IInv, ListOK, Used
  <2> QED
    BY <1>1, <2>1 DEF Contiguous
<1>6. Min(FreeId) = i
  <2>1. SUFFICES ASSUME Min(FreeId) < i, Min(FreeId) \in Partition,
                        \A m \in Min(FreeId) .. (i - 1) : Kind[m] = "empty"
                 PROVE  FALSE
    BY <1>1, <1>4, FirstFree
  <2> DEFINE k == Min(FreeId)
  <2> HIDE DEF k
  <2>2. k \in Nat /\ k < i /\ \A m \in k .. (i - 1) : Kind[m] = "empty"
    BY <2>1, PartitionIs DEF k
  <2>3. k \in k .. (i - 1) /\ k \in 0 .. i
    BY <1>1, <2>2
  <2> QED
    BY <1>5, <2>2, <2>3
<1>7. ExtMount(i, ok, rec)
  BY <1>2, <1>4 DEF CanMount
<1>8. ext_id' = [ext_id EXCEPT ![i] = i] /\ Fills(i, ok /\ Kind[i] = "ext4", rec)
  BY <1>1, <1>4, <1>6, <1>7, MountIs
<1>9. Fills(i, TRUE, TRUE)
  BY <1>3, <1>5, <1>8 DEF Fills
<1>10. Mounted(i) /\ CanMount(i)
  <2>1. ext_id'[i] = i /\ i \in ml'.mounted
    BY <1>1, <1>8, <1>9 DEF Typed, Fills
  <2> QED
    BY <1>1, <1>4, <2>1 DEF Mounted, CanMount
<1>11. loop' = [op |-> "mount", i |-> i + 1]
  BY <1>1, <1>10 DEF MountOne, Next_i, Typed
<1> QED
  BY <1>1, <1>3, <1>8, <1>9, <1>11

LEMMA CleanMountOne ==
  ASSUME Contiguous, IInv, Clean, MountOne
  PROVE  Clean'
<1> SUFFICES ASSUME ~disturbed' PROVE Clean'
  BY DEF Clean
<1> DEFINE i == loop.i
<1>1. /\ Typed /\ i \in Partition /\ i \notin ml.mounted /\ ~disturbed
      /\ ext_id' = [ext_id EXCEPT ![i] = i] /\ loop'.op = "mount" /\ loop.op = "mount" /\ bd' = bd
      /\ lw'.s_bdevices = lw.s_bdevices \cup {i} /\ lw'.ph_refctr = lw.ph_refctr + 1
      /\ ml'.available = ml.available /\ ml'.mounted = ml.mounted \cup {i}
  BY GoodMount, TypedIs DEF Fills, IInv
<1>2. /\ \A j \in Partition : ext_id[j] # NoId => j \in ml.mounted
      /\ lw.s_bdevices \subseteq ml.mounted /\ lw.ph_refctr = Cardinality(ml.mounted)
      /\ bd.connected /\ ml.available = Used
  BY <1>1 DEF Clean
<1>3. Cardinality(ml'.mounted) = Cardinality(ml.mounted) + 1
  BY <1>1, PartitionIs, FS_Subset, FS_AddElement DEF Typed
<1>4. \A j \in Partition : ext_id'[j] # NoId => j \in ml'.mounted
  BY <1>1, <1>2 DEF Typed
<1> QED
  BY <1>1, <1>2, <1>3, <1>4 DEF Clean

LEMMA CleanUmountSkips ==
  ASSUME IInv, Clean, UmountSkips
  PROVE  Clean'
<1> SUFFICES ASSUME ~disturbed' PROVE Clean'
  BY DEF Clean
<1> DEFINE i == loop.i
<1>1. /\ Typed /\ UNCHANGED <<lw, ext_id, bd, msd, disturbed>> /\ loop.op = "umount"
      /\ loop'.op = "umount" /\ i \in Partition /\ NoId \notin Partition
      /\ ml' = [available |-> ml.available \ {i}, mounted |-> ml.mounted \ {i}]
  BY TypedIs, PartitionIs DEF IInv, UmountSkips, Typed, Next_i, clr_ML_entry
<1>2. i \notin ml.mounted
  BY <1>1 DEF UmountSkips, IInv, MountedOK
<1>3. ml'.mounted = ml.mounted
  BY <1>1, <1>2
<1> QED
  BY <1>1, <1>3 DEF Clean

LEMMA CleanUmountOne ==
  ASSUME IInv, Clean, UmountOne
  PROVE  Clean'
<1> SUFFICES ASSUME ~disturbed' PROVE Clean'
  BY DEF Clean
<1> DEFINE i == loop.i
<1>1. /\ Typed /\ i \in Partition /\ loop.op = "umount" /\ loop'.op = "umount"
      /\ i \in ml.mounted /\ msd' = msd
  BY TypedIs, PartitionIs DEF IInv, UmountOne, Typed, Next_i
<1>2. PICK ok \in BOOLEAN, again \in BOOLEAN :
        ExtUnmount(i, ok, again) /\ disturbed' = (disturbed \/ ~ok)
  BY DEF UmountOne, Transfer
<1>3. ok = TRUE /\ ~disturbed
  BY <1>2
<1>4. ext_id' = [ext_id EXCEPT ![i] = NoId] /\ Clears(i, ok) /\ bd' = bd
  BY <1>1, <1>2, <1>3, UnmountIs
<1>5. /\ lw'.s_bdevices = lw.s_bdevices \ {i} /\ lw'.ph_refctr = lw.ph_refctr - 1
      /\ ml'.mounted = ml.mounted \ {i}
  BY <1>3, <1>4 DEF Clears
<1>6. /\ \A j \in Partition : ext_id[j] # NoId => j \in ml.mounted
      /\ lw.s_bdevices \subseteq ml.mounted /\ lw.ph_refctr = Cardinality(ml.mounted)
      /\ msd.mounted => bd.connected
  BY <1>3 DEF Clean
<1>7. Cardinality(ml'.mounted) = Cardinality(ml.mounted) - 1
  BY <1>1, <1>5, PartitionIs, FS_Subset, FS_RemoveElement DEF Typed
<1>8. \A j \in Partition : ext_id'[j] # NoId => j \in ml'.mounted
  BY <1>1, <1>4, <1>5, <1>6 DEF Typed
<1> QED
  BY <1>1, <1>4, <1>5, <1>6, <1>7, <1>8 DEF Clean

LEMMA CleanInit == Init => Clean
<1> SUFFICES ASSUME Init PROVE Clean
  OBVIOUS
<1>1. /\ lw.s_bdevices = {} /\ lw.ph_refctr = 0 /\ ml.mounted = {} /\ ~bd.connected
      /\ \A i \in Partition : ext_id[i] = NoId
      /\ loop.op = "idle" /\ ~msd.mounted
  BY DEF Init, Idle, NoMsd
<1>2. Cardinality({}) = 0
  BY FS_EmptySet
<1> QED
  BY <1>1, <1>2 DEF Clean

LEMMA CleanNext == Contiguous /\ IInv /\ Clean /\ [Next]_vars => Clean'
BY CleanQuiet, CleanFirst, CleanMountOne, CleanUmountSkips, CleanUmountOne DEF Next, Quiet

LEMMA AlwaysClean == ASSUME Contiguous PROVE Spec => [](IInv /\ Clean)
<1>1. Init => IInv /\ Clean
  BY InitIInv, CleanInit
<1>2. IInv /\ Clean /\ [Next]_vars => (IInv /\ Clean)'
  BY NextIInv, CleanNext
<1> QED
  BY <1>1, <1>2, PTL DEF Spec

\* umountDrives, when no transfer has failed and the drive stayed where it was,
\* leaves no mount point, no device name, no object in use and the device closed,
\* on every drive whose entries in use come first and are all ext4.
THEOREM UnmountReleases == ASSUME Contiguous PROVE Spec => UmountReleases
<1>1. ASSUME IInv, Clean, UmountDrivesEnd, ~disturbed
      PROVE  /\ lw.s_bdevices = {} /\ lw.ph_refctr = 0
             /\ \A i \in Partition : ~lw.s_mp[i].mounted /\ ext_id[i] = NoId
  <2>1. ml.available = {}
    <3>1. loop.op = "umount" /\ loop.i = N
      BY <1>1 DEF UmountDrivesEnd
    <3> QED
      BY <1>1, <3>1, TypedIs DEF IInv, ListOK, Typed, Partition
  <2>2. ml.mounted = {}
    BY <1>1, <2>1 DEF IInv, MountedOK
  <2>3. Cardinality(ml.mounted) = 0
    BY <2>2, FS_EmptySet
  <2>4. lw.s_bdevices = {} /\ lw.ph_refctr = 0 /\ \A i \in Partition : ext_id[i] = NoId
    BY <1>1, <2>2, <2>3 DEF Clean
  <2> QED
    BY <1>1, <2>4, PartitionIs DEF IInv, SlotsOK
<1>2. IInv /\ Clean => [UmountDrivesEnd /\ ~disturbed
         => /\ lw.s_bdevices = {} /\ lw.ph_refctr = 0
            /\ \A i \in Partition : ~lw.s_mp[i].mounted /\ ext_id[i] = NoId]_vars
  BY <1>1
<1> QED
  BY <1>2, AlwaysClean, PTL DEF UmountReleases

\* mountDrives, when no transfer has failed, mounts every ext4 partition of such
\* a drive, also when it found some of them mounted already.
THEOREM MountsAll == ASSUME Contiguous PROVE Spec => MountsAllAvailable
<1>1. ASSUME IInv, Clean, [Next]_vars, loop.op = "mount", loop'.op = "idle", ~disturbed'
      PROVE  {k \in Partition : Kind[k] = "ext4"} \subseteq ml'.mounted
  <2>1. Typed
    BY <1>1, TypedIs DEF IInv
  <2>2. MountDrivesEnd
    <3>1. ~MountOne
      <4> SUFFICES ASSUME MountOne PROVE FALSE
        OBVIOUS
      <4>1. loop' = [op |-> "mount", i |-> loop.i + 1]
        BY <1>1, GoodMount
      <4> QED
        BY <1>1, <4>1
    <3>2. ~MountSkips
      BY <1>1, <2>1 DEF MountSkips, Next_i, Typed
    <3> QED
      BY <1>1, <3>1, <3>2
         DEF Next, vars, Idle, MountDrivesAgain, MountDrivesNoDrive, MountDrivesFirst, MountDrivesNoTable,
             UmountDrives, UmountSkips, UmountOne, UmountDrivesEnd, Unplug, Plug
  <2>3. loop.i = N /\ ml' = ml /\ ~disturbed
    BY <1>1, <2>2 DEF MountDrivesEnd
  <2>4. ml.available = Used
    BY <1>1, <2>3 DEF Clean
  <2>5. 0 \in Used
    BY DriveAssumption, PartitionIs DEF Used
  <2>6. \A j \in 0 .. (N - 1) : j \in ml.mounted \/ Kind[j] = "empty"
    BY <1>1, <2>3, <2>4, <2>5 DEF IInv, ListOK
  <2> QED
    BY <2>3, <2>6 DEF Partition
<1>2. IInv /\ Clean /\ [Next]_vars => [loop.op = "mount" /\ loop'.op = "idle" /\ ~disturbed'
         => {k \in Partition : Kind[k] = "ext4"} \subseteq ml'.mounted]_vars
  BY <1>1
<1> QED
  BY <1>2, AlwaysClean, PTL DEF MountsAllAvailable, Spec
=============================================================================
