------------------------------ MODULE Extents ------------------------------
(***************************************************************************)
(* The extent tree of one inode: ext4_extent.c below                       *)
(* ext4_extent_get_blocks and ext4_extent_remove_space.                    *)
(*                                                                         *)
(* A node is the root in the inode or a block of the volume.  The mount    *)
(* point's lock keeps calls apart; within a call each allocation, each     *)
(* block read and each change of a node on the way is a step, so that a    *)
(* call can fail after every one of them.  A path is the sequence of nodes *)
(* from the root to a leaf with a position in each, 0 for a null pointer.  *)
(*                                                                         *)
(* get_blocks is called for one block at a time, and remove_space for all  *)
(* blocks from one on, so the branches that end inside the range of one    *)
(* extent are never taken.                                                 *)
(***************************************************************************)
EXTENDS Integers, Sequences, SequencesExt, FiniteSets

CONSTANTS
    FileBlocks,       \* bound: blocks a file may have
    MaxCuts,          \* bound: truncations of the file
    Blocks,           \* blocks of the volume
    RootMax, NodeMax, \* entries that fit in the inode, and in a block
    InitMaxLen,       \* EXT_INIT_MAX_LEN
    UnwrittenMaxLen,  \* EXT_UNWRITTEN_MAX_LEN
    MadeElsewhere,    \* extents an inode may have when the volume is mounted
    ForeignSets       \* the sets of blocks that belong to other files

FileBlock == 0 .. (FileBlocks - 1)
Block == 1 .. Blocks
Root == 0
Node == {Root} \cup Block

ASSUME TreeAssumption ==
    /\ FileBlocks \in Nat \ {0} /\ Blocks \in Nat
    /\ RootMax \in Nat \ {0} /\ NodeMax \in Nat /\ RootMax < NodeMax
    /\ ForeignSets \subseteq SUBSET Block
    /\ \A e \in MadeElsewhere :
          /\ e \in [lblk : FileBlock, len : Nat \ {0}, pblk : Block, unwritten : BOOLEAN]
          /\ e.lblk + e.len <= FileBlocks

VARIABLES
    tree,     \* the nodes: depth over the leaves, and entries
    free,     \* blocks the allocator may give
    foreign,  \* blocks of other files
    size,     \* the file's size in blocks
    cuts,     \* truncations so far; only the bound looks at it
    call,     \* locals of the call under way
    damage,   \* history: the tree no longer says what the calls meant
    seen      \* history: what a search found when the last call began

vars == <<tree, free, foreign, size, cuts, call, damage, seen>>

(* A tree that a call has damaged is followed no further:                  *)
(*   shifted   an extent grew at its beginning and its blocks are found one   *)
(*             place off                                                   *)
(*   absorbed  a written block joined an unwritten extent                  *)
(*   wrapped   the second split of an extent has cut it at a wrong place   *)
(*   lost      a failed insertion gave back nodes with extents in them     *)
(*   exposed   a failed split has left unwritten blocks as written ones    *)
Damage == {"shifted", "absorbed", "wrapped", "lost", "exposed"}

\* struct ext4_extent.  An index is an entry of length 0.
Extent(l, n, p, u) == [lblk |-> l, len |-> n, pblk |-> p, unwritten |-> u]
Index(l, p) == Extent(l, 0, p, FALSE)
NoNode == [depth |-> 0, entries |-> <<>>]

Space(n) == IF n = Root THEN RootMax ELSE NodeMax
Depth == tree[Root].depth
Covers(e, l) == l \in e.lblk .. (e.lblk + e.len - 1)
Holds(e, b) == IF e.len = 0 THEN b = e.pblk ELSE b \in e.pblk .. (e.pblk + e.len - 1)

-----------------------------------------------------------------------------
(* Search.                                                                 *)

\* The binary searches: the last entry that does not begin after l, or the first.
Closest(E, l) ==
    IF E = <<>> THEN 0 ELSE Max({1} \cup {k \in DOMAIN E : E[k].lblk <= l})

\* ext4_find_extent, in a tree t.
FindIn(t, l) ==
    LET top  == t[Root].depth + 1
        at(n) == [n |-> n, i |-> Closest(t[n].entries, l)]
        hop[k \in 1 .. top] ==
            IF k = 1 THEN at(Root)
            ELSE LET up == hop[k - 1] IN at(t[up.n].entries[up.i].pblk)
    IN  hop
FindExtent(l) == FindIn(tree, l)
Entry(h) == tree[h.n].entries[h.i]

Found(path, l) == Last(path).i > 0 /\ Covers(Entry(Last(path)), l)

\* What the tree says of a block of the file: where it is, and is it written.
Mapping(l) ==
    LET path == FindExtent(l)
        h    == Last(path)
    IN  IF Found(path, l)
        THEN [block |-> Entry(h).pblk + (l - Entry(h).lblk), written |-> ~Entry(h).unwritten]
        ELSE [block |-> 0, written |-> FALSE]
MapNow == [l \in FileBlock |-> Mapping(l)]

\* ext4_ext_find_goal, and what ext4_balloc_alloc_block makes of it: the goal
\* itself, or the next free block above it, or the first of the volume.
Goal(path, l) ==
    LET h == Last(path) IN
    IF h.i > 0 THEN Entry(h).pblk + (l - Entry(h).lblk) ELSE h.n
Allocated(goal) ==
    LET above == {b \in free : b >= goal} IN
    IF free = {} THEN {} ELSE {Min(IF above = {} THEN free ELSE above)}

-----------------------------------------------------------------------------
(* Changes of nodes.  t is a tree, path one of its paths.                  *)

\* Mutation: only the index right above the leaf is corrected.
SetFirst_one_level(t, path, k, border) ==
    IF k = 1 \/ path[k].i # 1 THEN t
    ELSE [t EXCEPT ![path[k - 1].n].entries[path[k - 1].i].lblk = border]
\* ext4_ext_correct_indexes: the entry at level k is the first of its node, so
\* the indexes above follow it, up to the first that is not first itself.
SetFirst(t, path, k, border) ==
    LET Above == {j \in 1 .. (k - 1) : \A m \in (j + 1) .. k : path[m].i = 1} IN
    [n \in Node |->
        IF \E j \in Above : path[j].n = n
        THEN LET j == CHOOSE j \in Above : path[j].n = n IN
             [t[n] EXCEPT !.entries[path[j].i].lblk = border]
        ELSE t[n]]

\* Where a new entry goes: before or after the current one.
Place(E, i, e) ==
    InsertAt(E, IF i = 0 THEN 1 ELSE IF e.lblk > E[i].lblk THEN i + 1 ELSE i, e)

\* ext4_ext_remove_idx at level k.  An emptied node keeps the key of the entry
\* it has lost.
RemoveIdx(t, path, k) ==
    LET h    == path[k]
        gone == t[h.n].entries[h.i]
        E    == RemoveAt(t[h.n].entries, h.i)
        cut  == [t EXCEPT ![h.n].entries = E, ![gone.pblk] = NoNode]
    IN  IF h.i # 1 THEN cut
        ELSE SetFirst(cut, path, k, IF E = <<>> THEN gone.lblk ELSE E[1].lblk)

CanMerge(e, l, r) ==
    /\ l.pblk + l.len = r.pblk /\ l.lblk + l.len = r.lblk
    /\ l.len + r.len <= IF e.unwritten THEN UnwrittenMaxLen ELSE InitMaxLen

-----------------------------------------------------------------------------
(* Calls.                                                                  *)

Idle == [at |-> "idle"]

\* What a call leaves when it returns.
Return == call' = Idle

\* Init: an inode whose extents, if any, another system has made.
Init ==
    /\ \E n \in 0 .. RootMax : \E E \in [1 .. n -> MadeElsewhere], F \in ForeignSets :
         LET used == {b \in Block : \E k \in 1 .. n : Holds(E[k], b)} IN
         /\ \A j, k \in 1 .. n : j < k =>
               /\ E[j].lblk + E[j].len <= E[k].lblk
               /\ \A b \in Block : ~(Holds(E[j], b) /\ Holds(E[k], b))
         /\ tree = [m \in Node |-> IF m = Root THEN [depth |-> 0, entries |-> E] ELSE NoNode]
         /\ foreign = F \ used
         /\ free = Block \ (F \cup used)
         /\ size = IF n = 0 THEN 0 ELSE E[n].lblk + E[n].len
    /\ call = Idle
    /\ cuts = 0
    /\ damage = {}
    /\ seen = MapNow

\* ext4_ext_insert_extent begins.
Insert(path, new, combine, then, l) ==
    [at |-> "insert", path |-> path, new |-> new, combine |-> combine, then |-> then,
     for |-> l, top |-> 0, fresh |-> <<>>, key |-> 0]

\* ext4_extent_get_blocks on a hole, from ext4_fs_init_inode_dblk_idx or, at
\* the end of the file, ext4_fs_append_inode_dblk.
FillHole(l) ==
    /\ call = Idle /\ damage = {} /\ l <= size
    /\ \E path \in {FindExtent(l)} :
         /\ ~Found(path, l)
         /\ \E b \in Allocated(Goal(path, l)) :
              /\ free' = free \ {b}
              /\ call' = Insert(path, Extent(l, 1, b, FALSE), TRUE, {}, l)
    /\ UNCHANGED <<tree, foreign, size, damage>>

\* A block of the file is there already at its end: an earlier truncation left it.
AppendMapped ==
    /\ call = Idle /\ damage = {} /\ size < FileBlocks
    /\ Mapping(size).written
    /\ size' = size + 1
    /\ UNCHANGED <<tree, free, foreign, call, damage>>

\* ext4_ext_split_extent_at on the current extent of the path, right at split:
\* u1 and u2 say which halves stay unwritten.
SplitTree(path, split, u1) ==
    LET h == Last(path)
        e == Entry(h)
    IN  [tree EXCEPT ![h.n].entries[h.i] =
            IF split > e.lblk THEN Extent(e.lblk, split - e.lblk, e.pblk, u1)
            ELSE Extent(e.lblk, UnwrittenMaxLen, e.pblk, TRUE)]
SplitCall(path, split, u2, then, l) ==
    LET e == Entry(Last(path)) IN
    Insert(path, Extent(split, e.len - (split - e.lblk), e.pblk + (split - e.lblk), u2),
           FALSE, then, l)

\* The whole extent is the one block: it only changes its state.
InitializeWhole(l) ==
    LET path == FindExtent(l)
        h    == Last(path)
    IN
    /\ call = Idle /\ damage = {} /\ l <= size
    /\ Found(path, l) /\ Entry(h).unwritten /\ Entry(h).len = 1
    /\ tree' = [tree EXCEPT ![h.n].entries[h.i].unwritten = FALSE]
    /\ size' = IF l = size THEN l + 1 ELSE size
    /\ UNCHANGED <<free, foreign, call, damage>>

\* Mutation: the first half of the extent is taken for written.
InitializePart_left(l) ==
    LET path == FindExtent(l)
        e    == Entry(Last(path))
        split == IF l + 1 = e.lblk + e.len THEN l ELSE l + 1
    IN
    /\ call = Idle /\ damage = {} /\ l <= size
    /\ Found(path, l) /\ e.unwritten /\ e.len > 1
    /\ tree' = SplitTree(path, split, FALSE)
    /\ call' = SplitCall(path, split, split # l,
                         IF l \in {split, e.lblk} THEN {} ELSE {l}, l)
    /\ UNCHANGED <<free, foreign, size, damage>>
\* ext4_ext_convert_to_initialized: the block is zeroed, then the extent is split
\* before it or behind it, or behind it first and before it in a second split.
InitializePart(l) ==
    LET path == FindExtent(l)
        e    == Entry(Last(path))
        split == IF l + 1 = e.lblk + e.len THEN l ELSE l + 1
    IN
    /\ call = Idle /\ damage = {} /\ l <= size
    /\ Found(path, l) /\ e.unwritten /\ e.len > 1
    /\ tree' = SplitTree(path, split, split = l \/ l # e.lblk)
    /\ call' = SplitCall(path, split, split # l,
                         IF l \in {split, e.lblk} THEN {} ELSE {l}, l)
    /\ UNCHANGED <<free, foreign, size, damage>>

-----------------------------------------------------------------------------
(* ext4_ext_insert_extent.                                                 *)

CurHop == Last(call.path)
HasCur == CurHop.i > 0
CurEntry == Entry(CurHop)
Full(h) == Len(tree[h.n].entries) = Space(h.n)

\* The insertion has succeeded: the second split of three parts is still to do,
\* with the path at the part that was inserted last.
Inserted(pos) ==
    IF call.then = {}
    THEN /\ Return
         /\ size' = IF call.for = size THEN size + 1 ELSE size
    ELSE /\ call' = [call EXCEPT !.at = "again", !.path[Len(call.path)].i = pos]
         /\ UNCHANGED size

\* The current extent grows at its end, and stays as written as it was.
AppendToCur ==
    LET h == CurHop IN
    /\ call.at = "insert" /\ call.combine
    /\ HasCur /\ CanMerge(CurEntry, CurEntry, call.new)
    /\ tree' = [tree EXCEPT ![h.n].entries[h.i].len = @ + call.new.len]
    /\ damage' = damage \cup (IF CurEntry.unwritten THEN {"absorbed"} ELSE {})
    /\ Inserted(h.i)
    /\ UNCHANGED <<free, foreign>>

\* The current extent grows at its beginning, where its first block on the volume
\* stays: every block of it is now found one place off.
PrependToCur ==
    LET h == CurHop IN
    /\ call.at = "insert" /\ call.combine
    /\ HasCur /\ CanMerge(CurEntry, call.new, CurEntry)
    /\ tree' = [tree EXCEPT ![h.n].entries[h.i].len = @ + call.new.len,
                            ![h.n].entries[h.i].lblk = call.new.lblk]
    /\ damage' = damage \cup {"shifted"}
    /\ Inserted(h.i)
    /\ UNCHANGED <<free, foreign>>

Merges ==
    /\ call.combine /\ HasCur
    /\ \/ CanMerge(CurEntry, CurEntry, call.new)
       \/ CanMerge(CurEntry, call.new, CurEntry)

\* ext4_ext_insert_leaf into a leaf with room.
InsertInLeaf ==
    LET h   == CurHop
        pos == IF ~HasCur THEN 1
               ELSE IF call.new.lblk > CurEntry.lblk THEN h.i + 1 ELSE h.i
        put == [tree EXCEPT ![h.n].entries = Place(@, h.i, call.new)]
    IN
    /\ call.at = "insert" /\ ~Merges /\ ~Full(h)
    /\ tree' = IF h.i <= 1 THEN SetFirst(put, [call.path EXCEPT ![Len(call.path)].i = 1],
                                         Len(call.path), put[h.n].entries[1].lblk)
               ELSE put
    /\ Inserted(pos)
    /\ UNCHANGED <<free, foreign, damage>>

\* The second split: the path's extent begins behind the block it is to split at,
\* and the length of its first part wraps.
SplitAgain ==
    /\ call.at = "again"
    /\ \E l \in call.then :
         /\ tree' = SplitTree(call.path, l, TRUE)
         /\ call' = SplitCall(call.path, l, FALSE, {}, l)
    /\ damage' = damage \cup {"wrapped"}
    /\ UNCHANGED <<free, foreign, size>>

\* The leaf is full, and a node above it is not: the nodes between are split.
NeedSplit ==
    /\ call.at = "insert" /\ ~Merges /\ Full(CurHop)
    /\ \E k \in DOMAIN call.path : ~Full(call.path[k])
    /\ LET room == Max({k \in DOMAIN call.path : ~Full(call.path[k])})
           E    == tree[CurHop.n].entries
       IN  call' = [call EXCEPT !.at = "split", !.top = room + 1,
                      !.key = IF CurHop.i # Len(E) THEN E[CurHop.i + 1].lblk
                              ELSE call.new.lblk]
    /\ UNCHANGED <<tree, free, foreign, size, damage>>

Grown(b) ==
    [tree EXCEPT ![b] = tree[Root],
        ![Root] = [depth |-> Depth + 1,
                   entries |-> <<Index(tree[Root].entries[1].lblk, b)>>]]
\* ext4_ext_grow_indepth: the root moves to a block of its own, and the path is
\* looked up again.  There is room below the root then.
Grow(b) ==
    /\ call.at = "insert" /\ ~Merges
    /\ \A k \in DOMAIN call.path : Full(call.path[k])
    /\ b \in Allocated(IF Depth = 0 THEN Root ELSE tree[Root].entries[1].pblk)
    /\ free' = free \ {b}
    /\ tree' = Grown(b)
    /\ call' = [call EXCEPT !.path = FindIn(Grown(b), call.new.lblk)]
    /\ UNCHANGED <<foreign, size, damage>>

\* ext4_ext_split_node, from the leaf up: what follows the current entry moves to
\* a new node, which in an index node begins with the node made just before.
SplitNode(b) ==
    LET k == Len(call.path) - Len(call.fresh)
        h == call.path[k]
        E == tree[h.n].entries
    IN
    /\ call.at = "split" /\ k >= call.top
    /\ b \in Allocated(Goal(call.path, call.new.lblk))
    /\ free' = free \ {b}
    /\ tree' = [tree EXCEPT
                  ![h.n].entries = SubSeq(E, 1, h.i),
                  ![b] = [depth |-> tree[h.n].depth,
                          entries |-> (IF call.fresh = <<>> THEN <<>>
                                       ELSE <<Index(call.key, Last(call.fresh))>>)
                                      \o SubSeq(E, h.i + 1, Len(E))]]
    /\ call' = [call EXCEPT !.fresh = Append(@, b)]
    /\ UNCHANGED <<foreign, size, damage>>

\* ext4_ext_insert_index, which ends a split: an index of the top of the new nodes.
InsertIndex(h) ==
    [tree EXCEPT ![h.n].entries = Place(@, h.i, Index(call.key, Last(call.fresh)))]

\* The top of the new nodes is entered above; where the new extent belongs to the
\* right half, the path moves there.  The insertion is then tried again.
LinkSplit ==
    LET k    == call.top - 1
        h    == call.path[k]
        last == Len(call.path)
        right == [j \in 1 .. last |->
                    IF j < k THEN call.path[j]
                    ELSE IF j = k THEN [h EXCEPT !.i = @ + 1]
                    ELSE LET n == call.fresh[last - j + 1] IN
                         [n |-> n, i |-> IF tree[n].entries = <<>> THEN 0 ELSE 1]]
    IN
    /\ call.at = "split" /\ Len(call.path) - Len(call.fresh) = k
    /\ tree' = InsertIndex(h)
    /\ call' = Insert(IF call.new.lblk >= call.key THEN right ELSE call.path,
                      call.new, call.combine, call.then, call.for)
    /\ UNCHANGED <<free, foreign, size, damage>>

\* A failed insertion gives the new block back; a failed split gives the extent
\* its length back, as a written one.
Undone(t) ==
    IF call.combine THEN t
    ELSE [t EXCEPT ![CurHop.n].entries[CurHop.i] =
             [@ EXCEPT !.len = @ + call.new.len, !.unwritten = FALSE]]
NewBlocks == {b \in Block : call.combine /\ Holds(call.new, b)}
Harm(lost) == (IF lost THEN {"lost"} ELSE {}) \cup (IF call.combine THEN {} ELSE {"exposed"})

\* How many of a new node's entries are new: an index node begins with one.
Made(b) == IF tree[b].depth = 0 THEN 0 ELSE 1

\* No block can be had for the new root.
GrowFails ==
    /\ call.at = "insert" /\ ~Merges
    /\ \A k \in DOMAIN call.path : Full(call.path[k])
    /\ tree' = Undone(tree)
    /\ free' = free \cup NewBlocks
    /\ damage' = damage \cup Harm(FALSE)
    /\ Return
    /\ UNCHANGED <<foreign, size>>

\* Mutation: the nodes made so far are not given back.
SplitFails_leaks ==
    /\ call.at = "split" /\ Len(call.path) - Len(call.fresh) >= call.top
    /\ tree' = Undone(tree)
    /\ free' = free \cup NewBlocks
    /\ damage' = damage \cup Harm(\E b \in ToSet(call.fresh) : Len(tree[b].entries) > Made(b))
    /\ Return
    /\ UNCHANGED <<foreign, size>>
\* Mutation: the insertion starts over.
SplitFails_again ==
    LET Fresh == ToSet(call.fresh) IN
    /\ call.at = "split" /\ Len(call.path) - Len(call.fresh) >= call.top
    /\ free' = free \cup Fresh
    /\ call' = Insert(call.path, call.new, call.combine, call.then, call.for)
    /\ UNCHANGED <<tree, foreign, size, damage>>
\* No block can be had for a new node.  Those made so far are given back with all
\* that was moved into them.
SplitFails ==
    LET Fresh == ToSet(call.fresh) IN
    /\ call.at = "split" /\ Len(call.path) - Len(call.fresh) >= call.top
    /\ tree' = Undone([n \in Node |-> IF n \in Fresh THEN NoNode ELSE tree[n]])
    /\ free' = free \cup NewBlocks \cup Fresh
    /\ damage' = damage \cup Harm(\E b \in Fresh : Len(tree[b].entries) > Made(b))
    /\ Return
    /\ UNCHANGED <<foreign, size>>

-----------------------------------------------------------------------------
(* ext4_extent_remove_space(from, EXT_MAX_BLOCKS), from                    *)
(* ext4_fs_truncate_inode.                                                 *)

\* Nothing is removed when from lies in a hole, whatever comes after it.
TruncateAtHole(from) ==
    /\ call = Idle /\ damage = {} /\ from < size /\ cuts < MaxCuts
    /\ ~Found(FindExtent(from), from)
    /\ size' = from
    /\ UNCHANGED <<tree, free, foreign, call, damage>>

Truncate(from) ==
    /\ call = Idle /\ damage = {} /\ from < size /\ cuts < MaxCuts
    /\ Found(FindExtent(from), from)
    /\ call' = [at |-> "remove", path |-> FindExtent(from), level |-> Depth + 1,
                from |-> from]
    /\ UNCHANGED <<tree, free, foreign, size, damage>>

StepUp(path, k) ==
    [call EXCEPT !.level = k - 1,
                 !.path = IF k = 1 THEN path ELSE [path EXCEPT ![k - 1].i = @ + 1]]

\* ext4_ext_remove_leaf: the leaf loses everything from the current extent on, the
\* part of that one before from excepted.
RemoveLeaf ==
    LET k    == Len(call.path)
        h    == call.path[k]
        E    == tree[h.n].entries
        keep == IF E[h.i].lblk < call.from
                THEN <<[E[h.i] EXCEPT !.len = call.from - E[h.i].lblk]>> ELSE <<>>
        left == SubSeq(E, 1, h.i - 1) \o keep
        cut  == [tree EXCEPT ![h.n].entries = left]
        gone == {b \in Block : \E j \in h.i .. Len(E) : Holds(E[j], b)
                    /\ ~\E e \in ToSet(keep) : Holds(e, b)}
    IN
    /\ call.at = "remove" /\ call.level = k
    /\ IF left = <<>> /\ k > 1
       THEN /\ tree' = RemoveIdx(cut, call.path, k - 1)
            /\ free' = free \cup gone \cup {h.n}
            /\ call' = [call EXCEPT !.level = k - 1]
       ELSE /\ tree' = IF h.i = 1 /\ left # <<>>
                       THEN SetFirst(cut, call.path, k, left[1].lblk) ELSE cut
            /\ free' = free \cup gone
            /\ call' = StepUp(call.path, k)
    /\ UNCHANGED <<foreign, size, damage>>

MoreToRm(h) == h.i <= Len(tree[h.n].entries)

\* The next child is read and its removal starts at its first entry.
RemoveDown ==
    LET k == call.level IN
    /\ call.at = "remove" /\ k \in 1 .. (Len(call.path) - 1)
    /\ MoreToRm(call.path[k])
    /\ call' = [call EXCEPT !.level = k + 1,
                   !.path[k + 1] = [n |-> Entry(call.path[k]).pblk, i |-> 1]]
    /\ UNCHANGED <<tree, free, foreign, size, damage>>

\* The child cannot be read: the size stays, what is gone stays gone.
RemoveFails ==
    LET k == call.level IN
    /\ call.at = "remove" /\ k \in 1 .. (Len(call.path) - 1)
    /\ MoreToRm(call.path[k])
    /\ Return
    /\ UNCHANGED <<tree, free, foreign, size, damage>>

RemoveUp ==
    LET k == call.level
        h == call.path[k]
    IN
    /\ call.at = "remove" /\ k \in 1 .. (Len(call.path) - 1)
    /\ ~MoreToRm(h)
    /\ IF k > 1 /\ tree[h.n].entries = <<>>
       THEN /\ tree' = RemoveIdx(tree, call.path, k - 1)
            /\ free' = free \cup {h.n}
            /\ call' = [call EXCEPT !.level = k - 1]
       ELSE /\ call' = StepUp(call.path, k)
            /\ UNCHANGED <<tree, free>>
    /\ UNCHANGED <<foreign, size, damage>>

\* Back above the root; an empty tree is a leaf again.
RemoveDone ==
    /\ call.at = "remove" /\ call.level = 0
    /\ tree' = IF tree[Root].entries = <<>> THEN [tree EXCEPT ![Root].depth = 0] ELSE tree
    /\ size' = call.from
    /\ Return
    /\ UNCHANGED <<free, foreign, damage>>

-----------------------------------------------------------------------------
Step ==
    /\ \/ AppendToCur \/ PrependToCur \/ InsertInLeaf \/ SplitAgain \/ NeedSplit
       \/ \E b \in free : Grow(b) \/ SplitNode(b)
       \/ LinkSplit \/ GrowFails \/ SplitFails
       \/ RemoveLeaf \/ RemoveDown \/ RemoveFails \/ RemoveUp \/ RemoveDone
    /\ UNCHANGED <<seen, cuts>>

\* ext4_extent_get_blocks with nothing to create, for any block.
LookUp == call = Idle /\ damage = {} /\ UNCHANGED <<tree, free, foreign, size, call, damage>>

Call ==
    /\ \/ /\ \/ \E l \in FileBlock :
                   FillHole(l) \/ InitializeWhole(l) \/ InitializePart(l)
             \/ AppendMapped \/ LookUp
          /\ UNCHANGED cuts
       \/ /\ \E l \in FileBlock : TruncateAtHole(l) \/ Truncate(l)
          /\ cuts' = cuts + 1
    /\ seen' = MapNow

Next == Step \/ Call

Spec == Init /\ [][Next]_vars /\ WF_vars(Step)

-----------------------------------------------------------------------------
(* Properties.                                                             *)

TypeOK ==
    /\ \A n \in Node : tree[n].depth \in Nat /\ Len(tree[n].entries) <= Space(n)
    /\ free \subseteq Block /\ foreign \subseteq Block
    /\ size \in 0 .. FileBlocks
    /\ call.at \in {"idle", "insert", "again", "split", "remove"}
    /\ damage \subseteq Damage

InUse == {n \in Block : tree[n] # NoNode}
\* The places that name block b: entries of the nodes in use.
Owners(b) ==
    UNION {{<<n, k>> : k \in {k \in DOMAIN tree[n].entries : Holds(tree[n].entries[k], b)}}
             : n \in {Root} \cup InUse}
\* The call under way has it: a new extent not yet entered, a new node not yet
\* linked, or a node emptied and about to be let go.
HeldByCall(b) ==
    \/ call.at \in {"insert", "split"} /\ Holds(call.new, b)
    \/ call.at = "split" /\ call.fresh # <<>> /\ b = Last(call.fresh)

\* After every step of a call, one that fails included, each block is in exactly
\* one place: free, another file's, under one entry of the tree, or held by the
\* call.  A split, a growth or a removal that forgets one leaks it; one that
\* keeps two lets the next allocation write over the file or its tree.
EveryBlockInOnePlace ==
    damage = {} =>
        \A b \in Block :
            Cardinality(Owners(b)) + (IF HeldByCall(b) THEN 1 ELSE 0)
              + (IF b \in free THEN 1 ELSE 0) + (IF b \in foreign THEN 1 ELSE 0) = 1

\* Between calls the nodes form a search tree: every leaf at the same depth, no
\* empty node but the root, keys in order, extents apart, and each child within
\* the range that its index and the next one give it.
TreeShape ==
    damage = {} /\ call = Idle =>
        \A n \in {Root} \cup InUse :
            LET E == tree[n].entries
                end(e) == IF tree[n].depth = 0 THEN e.lblk + e.len ELSE e.lblk + 1
            IN
            /\ E = <<>> => n = Root /\ Depth = 0
            /\ \A k \in 1 .. (Len(E) - 1) : end(E[k]) <= E[k + 1].lblk
            /\ tree[n].depth > 0 =>
                \A k \in DOMAIN E :
                    LET C == tree[E[k].pblk] IN
                    /\ C.depth = tree[n].depth - 1 /\ C.entries # <<>>
                    /\ E[k].lblk <= C.entries[1].lblk
                    /\ k < Len(E) => Last(C.entries).lblk < E[k + 1].lblk

\* The calls implement the map: what a search finds for a block of the file
\* changes from one call to the next only as the call between says, whatever was
\* split, grown, merged or removed for it.  Excepted are the cases named in Damage.
Map == INSTANCE BlockMap WITH NoBlock <- 0,
           block <- [l \in FileBlock |-> seen[l].block],
           written <- {l \in FileBlock : seen[l].written}
ImplementsMap == Map!Spec

\* Every call returns: the loop of the insertion and the climb of the removal end.
CallsReturn == call # Idle ~> call = Idle
=============================================================================
