----------------------------- MODULE BlockAlloc -----------------------------
(***************************************************************************)
(* The block allocator: ext4_balloc.c over the bitmap search of            *)
(* ext4_bitmap.c, the group descriptors of ext4_fs.c and the group         *)
(* geometry of ext4_super.c.                                               *)
(*                                                                         *)
(* A bitmap is the set of the bits that are set in it.  The allocator runs *)
(* under the mount point's lock, so a call is one step.  Every disk access *)
(* goes through the cache and may fail on a read: a failing call is an     *)
(* action of its own, with what it has changed before it stopped.  The     *)
(* owner of a block, the inode whose block map refers to it, is kept by    *)
(* the callers; a caller forgets a block it releases whatever the          *)
(* allocator returns (ext4_ext_free_blocks, ext4_fs_release_inode_block).  *)
(***************************************************************************)
EXTENDS Integers, FiniteSets, FiniteSetsExt

CONSTANTS
    Total,      \* ext4_sb_get_blocks_cnt
    BPG,        \* blocks_per_group, the bits of one bitmap block
    Fdb,        \* first_data_block: 1 with blocks of 1024 bytes, else 0
    W,          \* bits the bitmap search compares at once: 8
    K,          \* words in the neighbourhood of a goal: 8, for 64 bits
    Meta,       \* blocks the file system keeps for itself
    Unwritten,  \* groups mounted with EXT4_BLOCK_GROUP_BLOCK_UNINIT
    Ino         \* inodes that allocate

ASSUME GeometryAssumption ==
    /\ BPG \in Nat \ {0} /\ W \in Nat \ {0} /\ K \in Nat \ {0}
    /\ Fdb \in {0, 1}
    /\ Total \in Nat /\ Total > Fdb

\* ext4_block_group_cnt: the block count over the group size, rounded up.
GroupCnt == (Total + BPG - 1) \div BPG
Group == 0 .. GroupCnt - 1
Bit == 0 .. BPG - 1
Block == Fdb .. Total - 1

ASSUME MetaAssumption ==
    Meta \subseteq Block /\ Unwritten \subseteq Group /\ IsFiniteSet(Ino)

-----------------------------------------------------------------------------
(* Geometry *)

\* A block address counted from the first data block; block 0 stays 0.
Rel(b) == IF b > 0 THEN b - Fdb ELSE b

Bgid(b) == Rel(b) \div BPG            \* ext4_balloc_get_bgid_of_block
Idx(b) == Rel(b) % BPG                \* ext4_fs_addr_to_idx_bg
Addr(i, g) == BPG * g + i + Fdb       \* ext4_fs_bg_idx_to_addr

\* ext4_blocks_in_group_cnt.  It leaves first_data_block out of the account:
\* with Fdb = 1 the last group is given one bit more than it has blocks.
BlocksIn(g) == IF g < GroupCnt - 1 THEN BPG ELSE Total - (GroupCnt - 1) * BPG

\* The least multiple of w that is not below s.
RoundUp(s, w) == ((s + w - 1) \div w) * w
Least(a, b) == IF a < b THEN a ELSE b

VARIABLES
    bitmap,     \* the bitmap block of each group
    uninit,     \* groups whose bitmap block was never written
    bg_free,    \* free_blocks_count of each group descriptor
    sb_free,    \* free_blocks_count of the superblock
    ino_blocks, \* blocks each inode is charged with (i_blocks)
    owner       \* blocks each inode's block map refers to

vars == <<bitmap, uninit, bg_free, sb_free, ino_blocks, owner>>

\* ext4_fs_init_block_bitmap: metadata of the group, and the bits past the end.
FirstBitmap_unpadded(g) == {i \in Bit : Addr(i, g) \in Meta}
FirstBitmap(g) == {i \in Bit : Addr(i, g) \in Meta \/ Addr(i, g) >= Total}

\* The bitmap ext4_fs_get_block_group_ref leaves for its caller to read.
Bits_unwritten(g) == bitmap[g]
Bits(g) == IF g \in uninit THEN FirstBitmap(g) ELSE bitmap[g]

\* The groups in gs get their bitmap written; it is then given by `bits'.
Written(gs, bits) == [g \in Group |-> IF g \in gs THEN bits[g] ELSE bitmap[g]]

Current == [g \in Group |-> Bits(g)]
-----------------------------------------------------------------------------
(* Search *)

\* ext4_bmap_bit_find_clr(bmap, s, e, &i) returns EOK.  A clear bit met before
\* the first word boundary is reported as s itself, whichever bit it was.
FindClr(bits, s, e, i) ==
    LET head == s .. Least(RoundUp(s, W), e) - 1
        tail == RoundUp(s, W) .. e - 1
    IN  \/ i = s /\ ~(head \subseteq bits)
        \/ /\ head \subseteq bits
           /\ i \in tail \ bits
           /\ RoundUp(s, W) .. i - 1 \subseteq bits

\* The bits tried one by one after a goal that is taken.
Near_skipped(s, e) == {}
Near(s, e) == s + 1 .. Least(RoundUp(s, K * W), e) - 1

\* The bit found in the goal's own group.
InGoalGroup(g, s, i) ==
    /\ bg_free[g] # 0
    /\ \/ i = s /\ s \notin Bits(g)
       \/ /\ s \in Bits(g)
          /\ i \in Near(s, BlocksIn(g)) \ Bits(g)
          /\ s + 1 .. i - 1 \subseteq Bits(g)
       \/ /\ s \in Bits(g)
          /\ Near(s, BlocksIn(g)) \subseteq Bits(g)
          /\ FindClr(Bits(g), s, BlocksIn(g), i)

\* The bit found in another group, searched from its start.
InOtherGroup(g, i) == bg_free[g] # 0 /\ FindClr(Bits(g), 0, BlocksIn(g), i)

\* The groups tried after the goal's, in turn; the last is the goal's again,
\* whose bits below the goal have not been looked at.
Turns_short == 1 .. GroupCnt - 1
Turns == 1 .. GroupCnt
Turn(g0, k) == (g0 + k) % GroupCnt

\* ext4_balloc_alloc_block settles on bit i of group g at turn k (0: the goal's
\* group).  A goal is the block after the last one of a file, so it may lie one
\* past the end, in a group that does not exist: the descriptor there is zero.
Found(goal, k, g, i) ==
    LET g0 == Bgid(goal)
        InGoal(j) == g0 \in Group /\ InGoalGroup(g0, Idx(goal), j)
    IN  \/ k = 0 /\ g = g0 /\ InGoal(i)
        \/ /\ k \in Turns
           /\ g = Turn(g0, k)
           /\ InOtherGroup(g, i)
           /\ \A j \in Bit : ~InGoal(j)
           /\ \A m \in 1 .. k - 1 : \A j \in Bit : ~InOtherGroup(Turn(g0, m), j)

\* The groups whose descriptor has been loaded at the end of turn k.
Visited(goal, k) ==
    ({Bgid(goal)} \cup {Turn(Bgid(goal), m) : m \in 1 .. k}) \cap Group

NoSpace(goal) == \A k \in 0 .. GroupCnt : \A g \in Group, i \in Bit :
                    ~Found(goal, k, g, i)
-----------------------------------------------------------------------------
(* Operations *)

Init ==
    /\ uninit = Unwritten
    /\ bitmap = [g \in Group |-> IF g \in Unwritten THEN {} ELSE FirstBitmap(g)]
    /\ bg_free = [g \in Group |-> Cardinality(Bit \ FirstBitmap(g))]
    /\ sb_free = Cardinality(Block \ Meta)
    /\ ino_blocks = [n \in Ino |-> 0]
    /\ owner = [n \in Ino |-> {}]

\* Bit i of group g is set for inode n, and the three counters follow.
Charge(n, g, i, gs) ==
    /\ bitmap' = Written(gs, [Current EXCEPT ![g] = @ \cup {i}])
    /\ uninit' = uninit \ gs
    /\ bg_free' = [bg_free EXCEPT ![g] = @ - 1]
    /\ sb_free' = sb_free - 1
    /\ ino_blocks' = [ino_blocks EXCEPT ![n] = @ + 1]
    /\ owner' = [owner EXCEPT ![n] = @ \cup {Addr(i, g)}]

\* Only the bitmaps of the groups in gs are written.
Prepare(gs) ==
    /\ bitmap' = Written(gs, Current)
    /\ uninit' = uninit \ gs
    /\ UNCHANGED <<bg_free, sb_free, ino_blocks, owner>>

AllocBlock(n, goal) ==                       \* ext4_balloc_alloc_block, EOK
    \E k \in 0 .. GroupCnt, g \in Group, i \in Bit :
        /\ Found(goal, k, g, i)
        /\ Charge(n, g, i, Visited(goal, k))

AllocNoSpace(goal) ==                        \* ..., ENOSPC
    /\ NoSpace(goal)
    /\ Prepare(Visited(goal, GroupCnt))

\* ..., a read error at turn k, before anything was found
AllocFails(goal) ==
    \E k \in 0 .. GroupCnt :
        /\ \A m \in 0 .. k - 1 : \A g \in Group, i \in Bit : ~Found(goal, m, g, i)
        /\ Prepare(Visited(goal, k))

TryAllocBlock(n, b) ==                       \* ext4_balloc_try_alloc_block
    IF Idx(b) \notin Bits(Bgid(b)) THEN Charge(n, Bgid(b), Idx(b), {Bgid(b)})
                                   ELSE Prepare({Bgid(b)})

\* The indices in group g of the blocks of S.
IdxIn(S, g) == {Idx(b) : b \in {c \in S : Bgid(c) = g}}

\* The blocks of S that are freed when the groups gs are reached.
Freed_all(S, gs) == S
Freed(S, gs) == {b \in S : Bgid(b) \in gs}

\* What the free count of group g gains.
GroupGain_whole(R, g) == IF IdxIn(R, g) = {} THEN 0 ELSE Cardinality(R)
GroupGain(R, g) == Cardinality(IdxIn(R, g))

\* Inode n gives up the blocks S; those of the groups gs are freed, and the
\* groups in seen had their descriptor loaded.
GiveUp(n, S, gs, seen) ==
    LET R == Freed(S, gs)
    IN  /\ bitmap' = Written(seen, [g \in Group |-> Bits(g) \ IdxIn(R, g)])
        /\ uninit' = uninit \ seen
        /\ bg_free' = [g \in Group |-> bg_free[g] + GroupGain(R, g)]
        /\ sb_free' = sb_free + Cardinality(R)
        /\ ino_blocks' = [ino_blocks EXCEPT ![n] = @ - Cardinality(R)]
        /\ owner' = [owner EXCEPT ![n] = @ \ S]

FreeBlock(n, b) ==                           \* ext4_balloc_free_block, EOK
    /\ b \in owner[n]
    /\ GiveUp(n, {b}, {Bgid(b)}, {Bgid(b)})

FreeBlockFails(n, b) ==                      \* ..., the descriptor or the bitmap unread
    /\ b \in owner[n]
    /\ \E seen \in {{}, {Bgid(b)}} : GiveUp(n, {b}, {}, seen)

\* ext4_balloc_free_blocks works group by group and returns at the first error;
\* stop is the group it failed on, or the one after the last.
FreeBlocks(n, first, last) ==
    LET g1 == Bgid(first)
        g2 == Bgid(last)
    IN  /\ first .. last \subseteq owner[n]
        /\ \E stop \in g1 .. g2 + 1 : \E seen \in {g1 .. stop - 1, g1 .. Least(stop, g2)} :
               GiveUp(n, first .. last, g1 .. stop - 1, seen)

Next ==
    \/ \E n \in Ino, goal \in 0 .. Total : AllocBlock(n, goal)
    \/ \E goal \in 0 .. Total : AllocNoSpace(goal)
    \/ \E goal \in 0 .. Total : AllocFails(goal)
    \/ \E n \in Ino, b \in Block : TryAllocBlock(n, b)
    \/ \E n \in Ino, b \in Block : FreeBlock(n, b)
    \/ \E n \in Ino, b \in Block : FreeBlockFails(n, b)
    \/ \E n \in Ino, first \in Block, last \in Block :
           first < last /\ FreeBlocks(n, first, last)

Spec == Init /\ [][Next]_vars
-----------------------------------------------------------------------------
(* Properties *)

\* Every component has its type; the counters never wrap below zero.
TypeOK ==
    /\ bitmap \in [Group -> SUBSET Bit]
    /\ uninit \subseteq Group
    /\ bg_free \in [Group -> Nat]
    /\ sb_free \in Nat
    /\ ino_blocks \in [Ino -> Nat]
    /\ owner \in [Ino -> SUBSET Block]

\* A block some inode refers to is marked in its group's bitmap, is not the
\* file system's own, and belongs to no second inode: the next allocation
\* cannot hand it out again.
Marked == \A n \in Ino : \A b \in owner[n] :
              Bgid(b) \in Group \ uninit /\ Idx(b) \in bitmap[Bgid(b)]
Apart == \A n, m \in Ino : n # m => owner[n] \cap owner[m] = {}
MetaMarked == \A g \in Group : FirstBitmap(g) \subseteq Bits(g)
NotShared == Marked /\ Apart /\ \A n \in Ino : owner[n] \cap Meta = {}

\* The free count of every descriptor is the number of clear bits of its
\* bitmap, written or not: the search trusts it to skip a group.
GroupsCounted == \A g \in Group : bg_free[g] = Cardinality(Bit \ Bits(g))

\* The superblock's free count, and the blocks inodes are charged with, add up
\* to the bitmaps, also after a release that failed half way.
TotalsAgree ==
    /\ sb_free = MapThenSumSet(LAMBDA g : bg_free[g], Group)
    /\ MapThenSumSet(LAMBDA n : ino_blocks[n], Ino) + sb_free
           = Cardinality(Block \ Meta)

\* ENOSPC is returned only when no block is free, whatever the goal was.
FullWhenNoSpace ==
    \A goal \in 0 .. Total : NoSpace(goal) => \A g \in Group : Bits(g) = Bit

\* The blocks the bitmaps show as free.
free == {b \in Block : Idx(b) \notin Bits(Bgid(b))}
Pool == INSTANCE BlockPool WITH held <- owner

\* The search of goal, neighbourhood, rest of the group and other groups only
\* ever takes a block that was free, and a release only returns the inode's own.
ImplementsPool == Pool!Spec
=============================================================================
