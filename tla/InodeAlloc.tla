----------------------------- MODULE InodeAlloc -----------------------------
(***************************************************************************)
(* The inode allocator, ext4_ialloc.c, over the inode bitmaps and the      *)
(* group descriptors, which the cache writes to the device at any time and *)
(* the superblock, which is written when a volume is unmounted.            *)
(*                                                                         *)
(* ext4_ialloc_alloc_inode is a loop over the groups; each turn of it is a *)
(* step here, so that its end is something to be shown.  The mount point's *)
(* lock keeps every other call out meanwhile; the cache's writes and the   *)
(* loss of power go on.  The group the last inode came from is kept in the *)
(* mount point (fs->last_inode_bg_id), which no mount clears.              *)
(***************************************************************************)
EXTENDS Integers, FiniteSets, FiniteSetsExt

CONSTANTS
    Sizes,        \* numbers of groups of the volumes that are mounted in turn
    IPG,          \* inodes_per_group
    Reserved,     \* the first indices of group 0, which are never free
    CrashGroups   \* bound: power is lost with volumes up to this size only

ASSUME InodeGeometry ==
    /\ Sizes \subseteq Nat \ {0} /\ \E m \in Sizes : \A s \in Sizes : s <= m
    /\ IPG \in Nat \ {0}
    /\ \E r \in 0 .. IPG : Reserved = 0 .. r - 1
    /\ CrashGroups \in Nat

Group == 0 .. Max(Sizes) - 1
Bit == 0 .. IPG - 1
Inode == 1 .. Max(Sizes) * IPG

Bgid(ino) == (ino - 1) \div IPG       \* ext4_ialloc_get_bgid_of_inode
Idx_off_by_one(ino) == ino % IPG
Idx(ino) == (ino - 1) % IPG           \* ext4_ialloc_inode_to_bgidx
Number(i, g) == g * IPG + (i + 1)     \* ext4_ialloc_bgidx_to_inode

VARIABLES
    groups,   \* ext4_block_group_cnt of the mounted volume
    ibitmap,  \* inode bitmap of each group
    desc,     \* group descriptors: free inodes, directories, unused tail, INODE_UNINIT
    sb_free,  \* free_inodes_count of the superblock
    disk,     \* what the device holds of the three
    last_bg,  \* fs->last_inode_bg_id
    search,   \* locals of ext4_ialloc_alloc_inode, or Idle
    result,   \* how the last allocation ended
    live,     \* what each inode number was handed out as
    crashed,  \* the volume was mounted after a loss of power
    swapped   \* a smaller volume has replaced a larger one at the mount point

vars == <<groups, ibitmap, desc, sb_free, disk, last_bg, search, result,
          live, crashed, swapped>>
volume == <<groups, ibitmap, desc, sb_free>>

Idle == [bgid |-> 0, cnt |-> 0, rewind |-> FALSE, is_dir |-> FALSE, on |-> FALSE]

\* A new volume: the group of the root directory is in use, the bitmaps of the
\* others were never written.
NewBitmap == [g \in Group |-> IF g = 0 THEN Reserved ELSE Bit]
NewDesc == [g \in Group |->
    [free   |-> IF g = 0 THEN IPG - Cardinality(Reserved) ELSE IPG,
     dirs   |-> 0,
     unused |-> IF g = 0 THEN IPG - Cardinality(Reserved) ELSE IPG,
     uninit |-> g # 0]]
NewFree(s) == s * IPG - Cardinality(Reserved)

\* The bitmap ext4_fs_get_block_group_ref leaves for its caller to read.
Bits(g) == IF desc[g].uninit THEN {} ELSE ibitmap[g]

Init ==
    /\ groups \in Sizes
    /\ ibitmap = NewBitmap /\ desc = NewDesc /\ sb_free = NewFree(groups)
    /\ disk = [ibitmap |-> ibitmap, desc |-> desc, sb_free |-> sb_free]
    /\ last_bg = 0
    /\ search = Idle
    /\ result = "none"
    /\ live = [ino \in Inode |-> "none"]
    /\ crashed = FALSE /\ swapped = FALSE
-----------------------------------------------------------------------------
(* ext4_ialloc_alloc_inode *)

AllocStart(d) ==
    /\ ~search.on
    /\ search' = [bgid |-> last_bg, cnt |-> groups, rewind |-> FALSE,
                  is_dir |-> d, on |-> TRUE]
    /\ result' = "none"
    /\ UNCHANGED <<volume, disk, last_bg, live, crashed, swapped>>

\* After the last group the search goes on from the first, up to where it began.
Rewound_never == FALSE
Rewound == TRUE

Rewind ==
    /\ search.on /\ search.bgid = search.cnt /\ ~search.rewind
    /\ search' = [search EXCEPT !.bgid = 0, !.cnt = last_bg, !.rewind = Rewound]
    /\ UNCHANGED <<volume, disk, last_bg, result, live, crashed, swapped>>

NoSpace ==
    /\ search.on
    /\ \/ search.bgid > search.cnt
       \/ search.bgid = search.cnt /\ search.rewind
    /\ search' = Idle
    /\ result' = "ENOSPC"
    /\ UNCHANGED <<volume, disk, last_bg, live, crashed, swapped>>

InLoop == search.on /\ search.bgid < search.cnt

\* The current group's bitmap, written if it never was, becomes b.
Load(g, b) == ibitmap' = [ibitmap EXCEPT ![g] = b]
Ready(d) == [d EXCEPT !.uninit = FALSE]

NextGroup_skips(g) == g + 2
NextGroup(g) == g + 1

SkipGroup ==
    LET g == search.bgid
    IN  /\ InLoop
        /\ desc[g].free = 0
        /\ Load(g, Bits(g))
        /\ desc' = [desc EXCEPT ![g] = Ready(@)]
        /\ search' = [search EXCEPT !.bgid = NextGroup(@)]
        /\ UNCHANGED <<groups, sb_free, disk, last_bg, result, live, crashed, swapped>>

\* The descriptor counts a free inode the bitmap does not have: the loop
\* continues with the same group.
RetryGroup ==
    LET g == search.bgid
    IN  /\ InLoop
        /\ desc[g].free > 0 /\ Bits(g) = Bit
        /\ UNCHANGED vars

\* The inodes of a group that were never used end with its last used one.
UnusedAfter(unused, i) == IF i >= IPG - unused THEN IPG - (i + 1) ELSE unused

DirsAfter(dirs, is_dir) == IF is_dir THEN dirs + 1 ELSE dirs

TakeInode ==
    LET g == search.bgid
    IN  /\ InLoop
        /\ desc[g].free > 0
        /\ \E i \in Bit \ Bits(g) :
            /\ 0 .. i - 1 \subseteq Bits(g)
            /\ Load(g, Bits(g) \cup {i})
            /\ desc' = [desc EXCEPT ![g] =
                 [free   |-> @.free - 1,
                  dirs   |-> DirsAfter(@.dirs, search.is_dir),
                  unused |-> UnusedAfter(@.unused, i),
                  uninit |-> FALSE]]
            /\ live' = [live EXCEPT ![Number(i, g)] =
                            IF search.is_dir THEN "dir" ELSE "file"]
        /\ sb_free' = sb_free - 1
        /\ last_bg' = g
        /\ search' = Idle
        /\ result' = "inode"
        /\ UNCHANGED <<groups, disk, crashed, swapped>>

\* The descriptor or the bitmap of the current group cannot be read.
ReadFails ==
    LET g == search.bgid
    IN  /\ InLoop
        /\ \/ UNCHANGED <<ibitmap, desc>>
           \/ /\ desc[g].free > 0
              /\ Load(g, Bits(g))
              /\ desc' = [desc EXCEPT ![g] = Ready(@)]
        /\ search' = Idle
        /\ result' = "EIO"
        /\ UNCHANGED <<groups, sb_free, disk, last_bg, live, crashed, swapped>>

SearchStep == Rewind \/ NoSpace \/ SkipGroup \/ RetryGroup \/ TakeInode
-----------------------------------------------------------------------------
(* ext4_ialloc_free_inode; when it cannot read, it changes nothing.  What was
   in use before a loss of power is for a check of the volume to find out. *)

FreeInode(ino) ==
    LET g == Bgid(ino)
    IN  /\ ~search.on /\ ~crashed
        /\ live[ino] # "none"
        /\ Load(g, Bits(g) \ {Idx(ino)})
        /\ desc' = [desc EXCEPT ![g] =
             [free   |-> @.free + 1,
              dirs   |-> IF live[ino] = "dir" THEN @.dirs - 1 ELSE @.dirs,
              unused |-> @.unused,
              uninit |-> FALSE]]
        /\ sb_free' = sb_free + 1
        /\ live' = [live EXCEPT ![ino] = "none"]
        /\ result' = "none"
        /\ UNCHANGED <<groups, disk, last_bg, search, crashed, swapped>>
-----------------------------------------------------------------------------
(* The device *)

\* The cache writes the bitmap of a group, or the block of descriptors.
WriteBack ==
    /\ groups <= CrashGroups /\ ~crashed
    /\ \/ \E g \in 0 .. groups - 1 :
              /\ disk.ibitmap[g] # ibitmap[g]
              /\ disk' = [disk EXCEPT !.ibitmap[g] = ibitmap[g]]
       \/ disk.desc # desc /\ disk' = [disk EXCEPT !.desc = desc]
    /\ UNCHANGED <<volume, last_bg, search, result, live, crashed, swapped>>

\* Power is lost and the volume is mounted again; no journal is replayed.
PowerLoss ==
    /\ groups <= CrashGroups /\ ~crashed
    /\ ibitmap' = disk.ibitmap /\ desc' = disk.desc /\ sb_free' = disk.sb_free
    /\ last_bg' = 0 /\ search' = Idle /\ result' = "none"
    /\ live' = [ino \in Inode |-> "none"]
    /\ crashed' = TRUE /\ swapped' = FALSE
    /\ UNCHANGED <<groups, disk>>

\* The volume is unmounted and another one mounted at the same mount point.
Remount(s) ==
    /\ ~search.on
    /\ groups' = s
    /\ ibitmap' = NewBitmap /\ desc' = NewDesc /\ sb_free' = NewFree(s)
    /\ disk' = [ibitmap |-> NewBitmap, desc |-> NewDesc, sb_free |-> NewFree(s)]
    /\ live' = [ino \in Inode |-> "none"]
    /\ result' = "none"
    /\ crashed' = FALSE
    /\ swapped' = (swapped \/ s < groups)
    /\ UNCHANGED <<last_bg, search>>

Next ==
    \/ \E d \in BOOLEAN : AllocStart(d)
    \/ SearchStep
    \/ ReadFails
    \/ \E ino \in Inode : FreeInode(ino)
    \/ WriteBack
    \/ PowerLoss
    \/ \E s \in Sizes : Remount(s)

\* A call that has been made runs on.
Spec == Init /\ [][Next]_vars /\ WF_vars(SearchStep)
-----------------------------------------------------------------------------
(* Properties *)

\* Types; the search never leaves the descriptors of the volume.
TypeOK ==
    /\ groups \in Sizes
    /\ ibitmap \in [Group -> SUBSET Bit]
    /\ desc \in [Group -> [free : 0 .. IPG, dirs : 0 .. IPG, unused : 0 .. IPG,
                           uninit : BOOLEAN]]
    /\ sb_free \in Nat
    /\ last_bg \in Group
    /\ InLoop => search.bgid < groups
    /\ result \in {"none", "inode", "ENOSPC", "EIO"}
    /\ live \in [Inode -> {"none", "file", "dir"}]

\* As long as power lasts, a bit is set exactly for the inodes handed out and
\* the counters of the descriptors and the superblock count the clear ones: no
\* inode number is handed out twice.
Clear == {x \in (0 .. groups - 1) \X Bit : x[2] \notin Bits(x[1])}
InodesOf(g, kinds) == {i \in Bit : live[Number(i, g)] \in kinds}
Counted ==
    ~crashed =>
        /\ \A g \in 0 .. groups - 1 :
            LET held == IF g = 0 THEN Reserved ELSE {}
            IN  /\ Bits(g) = InodesOf(g, {"file", "dir"}) \cup held
                /\ held \cap InodesOf(g, {"file", "dir"}) = {}
                /\ desc[g].free = IPG - Cardinality(Bits(g))
                /\ \A i \in Bits(g) : i < IPG - desc[g].unused
                /\ desc[g].dirs = Cardinality(InodesOf(g, {"dir"}))
        /\ sb_free = Cardinality(Clear)

\* ENOSPC is returned only when every inode of the volume is in use, unless the
\* mount point held a larger volume before: last_inode_bg_id is left from it.
Full == \A g \in 0 .. groups - 1 : Bits(g) = Bit
NoSpaceMeansFull ==
    result = "ENOSPC" /\ ~crashed /\ ~swapped => Full

\* A search comes to an end, on a volume that was unmounted in order.
SearchEnds == search.on ~> (~search.on \/ crashed)
=============================================================================
