------------------------------ MODULE Volumes ------------------------------
(***************************************************************************)
(* Mounting and unmounting the partitions of one USB drive: the tables of  *)
(* ext4.c and the device's reference count, the mount list of              *)
(* GIGAext4FS.cpp, the objects of EXT4FileSystem.cpp and the two calls a   *)
(* sketch makes, mountDrives and umountDrives of ext4IOUtility.cpp.        *)
(*                                                                         *)
(* The sketch is one thread, so the calls do not overlap; the drive may be *)
(* pulled out or put back between two partitions.  The device name and the *)
(* mount point of a partition are one string, so a partition's number      *)
(* stands for both.  What a step reads or writes on the drive may fail.    *)
(***************************************************************************)
EXTENDS Integers, FiniteSets, FiniteSetsExt

CONSTANTS
    N,      \* entries of the partition table, of the mount list and of s_mp
    Kind,   \* of each entry: "ext4", "other" or "empty"
    MaxRef  \* bound: ph_refctr, which grows with every unmount that fails

Partition == 0 .. (N - 1)
NoId == -1

\* get_fs_type reads the type of the first entry, and takes the drive for a FAT
\* drive or none at all when that one is not ext4.
ASSUME DriveAssumption ==
    /\ N \in Nat \ {0} /\ MaxRef \in Nat
    /\ Kind \in [Partition -> {"ext4", "other", "empty"}]
    /\ Kind[0] = "ext4"

VARIABLES
    lw,        \* ext4.c: the device names, the mount points, and ph_refctr
    ml,        \* mount_list: the partitions available, and those mounted
    bd,        \* bd_list[0]: connected, and whether pDrive is set
    ext_id,    \* _id of each EXT4FileSystem; _extfs has just these entries
    msd,       \* msd[index]: type and mounted
    attached,  \* the drive is plugged in
    loop,      \* where mountDrives or umountDrives is
    disturbed  \* history: a transfer failed, or the drive was pulled out

vars == <<lw, ml, bd, ext_id, msd, attached, loop, disturbed>>

\* s_mp[i].held: the mount took a reference of the device and gave none back.
MountPoint == [name : Partition \cup {NoId}, mounted : BOOLEAN, held : BOOLEAN]
NoMsd == [type |-> "none", mounted |-> FALSE]
Idle == [op |-> "idle", i |-> 0]

TypeOK ==
    /\ lw \in [s_bdevices : SUBSET Partition, s_mp : [Partition -> MountPoint],
               ph_refctr : Nat]
    /\ ml \in [available : SUBSET Partition, mounted : SUBSET Partition]
    /\ bd \in [connected : BOOLEAN, pDrive : BOOLEAN]
    /\ ext_id \in [Partition -> Partition \cup {NoId}]
    /\ msd \in [type : {"none", "ext4"}, mounted : BOOLEAN]
    /\ attached \in BOOLEAN /\ disturbed \in BOOLEAN
    /\ loop \in [op : {"idle", "mount", "umount"}, i : 0 .. N]

Init ==
    /\ lw = [s_bdevices |-> {}, ph_refctr |-> 0,
             s_mp |-> [i \in Partition |-> [name |-> NoId, mounted |-> FALSE, held |-> FALSE]]]
    /\ ml = [available |-> {}, mounted |-> {}]
    /\ bd = [connected |-> FALSE, pDrive |-> FALSE]
    /\ ext_id = [i \in Partition |-> NoId]
    /\ msd = NoMsd
    /\ attached \in BOOLEAN
    /\ loop = Idle
    /\ disturbed = FALSE

\* The outcomes of a transfer: ext4_bd_bread and ext4_bd_bwrite go through
\* pDrive, which clr_BDL_entry clears for every partition.
Transfer(b) == IF attached /\ b.pDrive THEN BOOLEAN ELSE {FALSE}

clr_ML_entry(m, k) == [available |-> m.available \ {k}, mounted |-> m.mounted \ {k}]
clr_BDL_entry == [connected |-> FALSE, pDrive |-> FALSE]

-----------------------------------------------------------------------------
(* ext4_mount and ext4_umount, on the tables t.                            *)

\* The first slot that is not mounted, or that is mounted with this name.
SlotFor(t, k) ==
    {s \in Partition : ~t.s_mp[s].mounted \/ t.s_mp[s].name = k}

\* ext4_mount: the result, and the tables it leaves.  The slot is marked mounted
\* before anything can fail, and stays so when something does.
ext4_mount(t, k, ok) ==
    IF SlotFor(t, k) = {} THEN [eok |-> FALSE, t |-> t]
    ELSE LET s == Min(SlotFor(t, k))
             good == ok /\ Kind[k] = "ext4"
         IN  IF t.s_mp[s].mounted THEN [eok |-> TRUE, t |-> t]
             ELSE [eok |-> good,
                   t |-> [t EXCEPT
                     !.s_mp[s] = [name |-> k, mounted |-> TRUE, held |-> good],
                     !.ph_refctr = IF good THEN @ + 1 ELSE @]]

\* Mutation: the reference is given back without a look at the outcome.
AfterUmount_ignores_error(ref, ok) == IF ref > 0 THEN ref - 1 ELSE ref
\* Mutation: the reference is kept.
AfterUmount_keeps(ref, ok) == ref
\* ph_refctr after an unmount: ext4_block_fini is not reached after an error.
AfterUmount(ref, ok) == IF ok /\ ref > 0 THEN ref - 1 ELSE ref

\* ext4_umount: the slot is found by name, mounted or not.  ok is the outcome of
\* writing the superblock; on failure only the flag is cleared.
ext4_umount(t, k, ok) ==
    LET S == {s \in Partition : t.s_mp[s].name = k}
        s == Min(S)
    IN  IF S = {} THEN [eok |-> FALSE, t |-> t]
        ELSE [eok |-> ok,
              t |-> [t EXCEPT
                !.s_mp[s] = [name |-> k, mounted |-> FALSE, held |-> ~ok /\ t.s_mp[s].held],
                !.ph_refctr = AfterUmount(@, ok)]]

-----------------------------------------------------------------------------
(* EXT4FileSystem: mount and unmount of object i.                          *)

CanMount(i) == ext_id[i] = NoId

\* EXT4FileSystem::mount takes the first free entry k of _extfs for its _id, and
\* with it partition k, then GIGAext4::mount and lwext_mount.  ok and rec are the
\* outcomes of the superblock's transfers and of the journal's recovery.
FreeId == Partition \ {ext_id[j] : j \in Partition}

MountFails(k) == k \notin ml.available \/ k \in lw.s_bdevices

\* Mutation: an object that could not mount is free again.
IdAfterMount_released(k, good) == IF good THEN k ELSE NoId
\* The object keeps its number, mounted or not.
IdAfterMount(k, good) == k

ExtMount(i, ok, rec) ==
    LET k == Min(FreeId)
        m == ext4_mount([lw EXCEPT !.s_bdevices = @ \cup {k}], k, ok)
    IN  /\ ext_id' = [ext_id EXCEPT ![i] = IdAfterMount(k, ~MountFails(k) /\ m.eok /\ rec)]
        /\ IF MountFails(k)
           THEN /\ lw' = lw
                /\ ml' = IF k \in ml.available THEN [ml EXCEPT !.mounted = @ \ {k}] ELSE ml
           ELSE /\ lw' = IF m.eok THEN m.t ELSE [m.t EXCEPT !.s_bdevices = @ \ {k}]
                /\ ml' = [ml EXCEPT !.mounted = IF m.eok /\ rec THEN @ \cup {k} ELSE @ \ {k}]

\* The partition object i has just mounted, if it has.
Mounted(i) == ext_id'[i] # NoId /\ ext_id'[i] \in ml'.mounted

\* Mutation: the object keeps its number.
IdAfter_kept(i) == ext_id[i]
IdAfter(i) == NoId

\* EXT4FileSystem::unmount: lwext_umount, and if that fails ext4_umount again,
\* then the partition and the whole drive leave the lists.
ExtUnmount(i, ok, again) ==
    LET k == ext_id[i]
        u == IF k \in ml.available THEN ext4_umount(lw, k, ok /\ lw.ph_refctr > 0) ELSE [eok |-> FALSE, t |-> lw]
        u2 == IF k \in ml.available THEN ext4_umount(u.t, k, again /\ lw.ph_refctr > 0) ELSE u
        last == IF u.eok THEN u ELSE u2
    IN  /\ ext_id' = [ext_id EXCEPT ![i] = IdAfter(i)]
        /\ lw' = [last.t EXCEPT !.s_bdevices = IF k \in ml.available THEN @ \ {k} ELSE @]
        /\ ml' = clr_ML_entry(IF u.eok THEN [ml EXCEPT !.mounted = @ \ {k}]
                              ELSE clr_ML_entry(ml, k), i)
        /\ bd' = IF u.eok THEN bd ELSE clr_BDL_entry

-----------------------------------------------------------------------------
(* mountDrives.                                                            *)

\* connectInitialized finds the drive known and mounted.
MountDrivesAgain ==
    /\ loop = Idle /\ attached /\ msd.mounted
    /\ loop' = [op |-> "mount", i |-> 0]
    /\ UNCHANGED <<lw, ml, bd, ext_id, msd, attached, disturbed>>

\* No drive within CONNECT_TIMEOUT: the lists of the partitions stay.
MountDrivesNoDrive ==
    /\ loop = Idle /\ ~attached
    /\ msd' = NoMsd
    /\ UNCHANGED <<lw, ml, bd, ext_id, attached, loop, disturbed>>

\* get_fs_type sets pDrive and reads the table; init_block_device does nothing
\* for a connected drive, else reads it again and fills the mount list.
MountDrivesFirst ==
    /\ loop = Idle /\ attached /\ ~msd.mounted
    /\ bd' = [connected |-> TRUE, pDrive |-> TRUE]
    /\ ml' = IF bd.connected THEN ml
             ELSE [ml EXCEPT !.available = {k \in Partition : Kind[k] # "empty"}]
    /\ msd' = [type |-> "ext4", mounted |-> FALSE]
    /\ loop' = [op |-> "mount", i |-> 0]
    /\ UNCHANGED <<lw, ext_id, attached, disturbed>>

\* The drive does not start, or one of the two reads fails.  After the second
\* the drive is connected all the same, and its partitions are not looked for
\* again.
MountDrivesNoTable ==
    /\ loop = Idle /\ attached /\ ~msd.mounted
    /\ \/ bd' = bd
       \/ bd' = [bd EXCEPT !.pDrive = TRUE]
       \/ ~bd.connected /\ bd' = [connected |-> TRUE, pDrive |-> TRUE]
    /\ msd' = NoMsd
    /\ disturbed' = TRUE
    /\ UNCHANGED <<lw, ml, ext_id, attached, loop>>

Next_i == [loop EXCEPT !.i = @ + 1]

\* A partition that is not there, or is mounted already.
MountSkips ==
    /\ loop.op = "mount" /\ loop.i < N
    /\ loop.i \notin ml.available \/ loop.i \in ml.mounted
    /\ loop' = Next_i
    /\ UNCHANGED <<lw, ml, bd, ext_id, msd, attached, disturbed>>

\* The first partition that fails ends the call.
MountOne ==
    /\ loop.op = "mount" /\ loop.i < N
    /\ loop.i \in ml.available \ ml.mounted /\ lw.ph_refctr < MaxRef
    /\ \E ok, rec \in Transfer(bd) :
         /\ IF CanMount(loop.i) THEN ExtMount(loop.i, ok, rec) ELSE UNCHANGED <<lw, ml, ext_id>>
         /\ disturbed' = (disturbed \/ ~ok \/ ~rec)
    /\ IF CanMount(loop.i) /\ Mounted(loop.i)
       THEN msd' = [msd EXCEPT !.mounted = TRUE] /\ loop' = Next_i
       ELSE msd' = [msd EXCEPT !.mounted = FALSE] /\ loop' = Idle
    /\ UNCHANGED <<bd, attached>>

MountDrivesEnd ==
    /\ loop.op = "mount" /\ loop.i = N
    /\ loop' = Idle
    /\ UNCHANGED <<lw, ml, bd, ext_id, msd, attached, disturbed>>

-----------------------------------------------------------------------------
(* umountDrives.                                                           *)

UmountDrives ==
    /\ loop = Idle
    /\ IF msd.type = "ext4" THEN loop' = [op |-> "umount", i |-> 0] /\ msd' = msd
       ELSE loop' = loop /\ msd' = NoMsd
    /\ UNCHANGED <<lw, ml, bd, ext_id, attached, disturbed>>

UmountSkips ==
    /\ loop.op = "umount" /\ loop.i < N
    /\ loop.i \notin ml.mounted \/ ext_id[loop.i] = NoId
    /\ ml' = clr_ML_entry(ml, loop.i)
    /\ loop' = Next_i
    /\ UNCHANGED <<lw, bd, ext_id, msd, attached, disturbed>>

UmountOne ==
    /\ loop.op = "umount" /\ loop.i < N
    /\ loop.i \in ml.mounted /\ ext_id[loop.i] # NoId
    /\ \E ok, again \in Transfer(bd) :
         /\ ExtUnmount(loop.i, ok, again)
         /\ disturbed' = (disturbed \/ ~ok)
    /\ loop' = Next_i
    /\ UNCHANGED <<msd, attached>>

UmountDrivesEnd ==
    /\ loop.op = "umount" /\ loop.i = N
    /\ bd' = clr_BDL_entry
    /\ msd' = NoMsd
    /\ loop' = Idle
    /\ UNCHANGED <<lw, ml, ext_id, attached, disturbed>>

Unplug ==
    /\ attached
    /\ attached' = FALSE /\ disturbed' = TRUE
    /\ UNCHANGED <<lw, ml, bd, ext_id, msd, loop>>

Plug ==
    /\ ~attached
    /\ attached' = TRUE
    /\ UNCHANGED <<lw, ml, bd, ext_id, msd, loop, disturbed>>

Next ==
    \/ MountDrivesAgain \/ MountDrivesNoDrive \/ MountDrivesFirst \/ MountDrivesNoTable
    \/ MountSkips \/ MountOne \/ MountDrivesEnd
    \/ UmountDrives \/ UmountSkips \/ UmountOne \/ UmountDrivesEnd
    \/ Unplug \/ Plug

Spec == Init /\ [][Next]_vars

-----------------------------------------------------------------------------
(* Properties.                                                             *)

\* A partition that the mount list shows as mounted is one: its device is
\* registered, and its mount point holds a file system that was read.  ext4_mount
\* also returns EOK for a mount point whose first mount failed; the number the
\* object keeps then is all that stands in the way.
MountedIsUsable ==
    \A k \in ml.mounted :
        /\ k \in lw.s_bdevices
        /\ \E s \in Partition :
             lw.s_mp[s].mounted /\ lw.s_mp[s].name = k /\ lw.s_mp[s].held

\* The device is open as long as a partition of it is mounted: the failure of
\* one unmount, which is tried twice, does not close it under the others.
OpenWhileMounted ==
    Cardinality({s \in Partition : lw.s_mp[s].mounted /\ lw.s_mp[s].held}) <= lw.ph_refctr

\* umountDrives, undisturbed, leaves nothing behind: no mount point, no
\* registered device, no object in use, and the device closed.
UmountReleases ==
    [][UmountDrivesEnd /\ ~disturbed
         => /\ lw.s_bdevices = {} /\ lw.ph_refctr = 0
            /\ \A i \in Partition : ~lw.s_mp[i].mounted /\ ext_id[i] = NoId]_vars

\* mountDrives "tries to mount all available partitions" (README.md): after a
\* call with no failed transfer every ext4 partition of the drive is mounted.
MountsAllAvailable ==
    [][loop.op = "mount" /\ loop'.op = "idle" /\ ~disturbed'
         => {k \in Partition : Kind[k] = "ext4"} \subseteq ml'.mounted]_vars
=============================================================================
