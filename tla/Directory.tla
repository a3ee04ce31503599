----------------------------- MODULE Directory -----------------------------
(***************************************************************************)
(* The inside of one directory: ext4_dir.c and ext4_dir_idx.c.             *)
(*                                                                         *)
(* A block is an array of BlockSize units, and a cell of it the record     *)
(* whose header lies there, or Body.  The records of a block are those met *)
(* by going from the first cell on by their lengths; a header that is no   *)
(* longer met stays where it is until another record is written over it,   *)
(* for a listing that was left there reads it.                             *)
(*                                                                         *)
(* The index is the sequence of its lowest nodes, in the order of the      *)
(* root; without levels the root is the only one.  The mount point's lock  *)
(* makes a call one step; a call that fails after a change is another.     *)
(* ext4_block_set returns no error of the device (BlockCache), so reads,   *)
(* allocations and memory are what may fail.  Checksums are left out.      *)
(***************************************************************************)
EXTENDS Integers, Sequences, SequencesExt, FiniteSets, FiniteSetsExt

CONSTANTS
    Name,        \* names of entries
    Child,       \* inodes they may name
    Need,        \* units a record with the name takes
    Hash,        \* its hash: even, the lowest bit marks a continued leaf
    BlockSize,   \* units of a block
    RootLimit,   \* entries in the root of the index
    NodeLimit,   \* and in a node
    Starts,      \* directories as they may be when the volume is mounted
    MaxChanges   \* bound: entries added and removed

None == 0
Dot == {".", ".."}

ASSUME DirectoryAssumption ==
    /\ Name \cap Dot = {} /\ None \notin Child
    /\ \A n \in Name \cup Dot : Need[n] \in Nat \ {0} /\ 2 * Need[n] <= BlockSize
    /\ \A n \in Name : Hash[n] \in Nat /\ Hash[n] % 2 = 0
    /\ RootLimit \in Nat /\ NodeLimit \in Nat /\ 1 < RootLimit /\ RootLimit <= NodeLimit
    /\ MaxChanges \in Nat

VARIABLES
    blocks,   \* the directory's blocks, the first is number 0
    indexed,  \* EXT4_INODE_FLAG_INDEX
    levels,   \* of nodes below the root
    nodes,    \* the lowest nodes of the index
    list,     \* ext4_dir: a listing under way
    changes,  \* so far; only the bound looks at it
    damage,   \* history: what calls have left behind
    seen      \* history: what a search found when the last call began

vars == <<blocks, indexed, levels, nodes, list, changes, damage, seen>>
content == <<blocks, indexed, levels, nodes>>

(* A call that leaves damage ends the behaviour:                           *)
(*   lost      a leaf was split and had no room even then, which the result   *)
(*             of releasing a block overwrites: EOK without an entry         *)
(*   halved    ext4_dir_dx_split_data copied every entry and removed none  *)
(*   twice     a name that was there was taken for missing and added again *)
(*   torn      a block that was never written counts as part of the        *)
(*             directory                                                   *)
(*   released  a block reference that was never set has been released      *)
(*   garbage   a listing read a header where there is none                 *)
Damage == {"lost", "halved", "twice", "torn", "released", "garbage"}
Quiet == damage = {}

-----------------------------------------------------------------------------
(* Blocks and records.                                                     *)

Unit == 0 .. (BlockSize - 1)
Record(n, i, l) == [name |-> n, ino |-> i, len |-> l]
Body == Record("", None, 0)
EmptyBlock == [u \in Unit |-> IF u = 0 THEN Record("", None, BlockSize) ELSE Body]

\* ext4_dir_write_entry: the header and the name are written.
WriteEntry(b, u, r) ==
    [v \in Unit |-> IF v = u THEN r
                    ELSE IF v \in u .. (u + Need[r.name] - 1) THEN Body ELSE b[v]]

\* Where the records of a block begin.
Offsets(b) ==
    LET from[u \in 0 .. BlockSize] ==
            IF u >= BlockSize THEN {}
            ELSE {u} \cup IF b[u].len = 0 THEN {} ELSE from[u + b[u].len]
    IN  from[0]
Live(b) == {u \in Offsets(b) : b[u].ino # None}

\* ext4_dir_find_in_block
FindInBlock(b, n) == {u \in Live(b) : b[u].name = n}

\* ext4_dir_try_insert_entry
Spare(r) == IF r.ino = None THEN r.len ELSE r.len - Need[r.name]
Room(b, n) == {u \in Offsets(b) : Spare(b[u]) >= Need[n]}
TryInsert(b, n, c) ==
    LET u == Min(Room(b, n))
        r == b[u]
    IN  IF r.ino = None THEN WriteEntry(b, u, Record(n, c, r.len))
        ELSE WriteEntry([b EXCEPT ![u].len = Need[r.name]],
                        u + Need[r.name], Record(n, c, Spare(r)))

\* Mutant: the predecessor gets what the name needed, not the whole record.
RemoveRecord_need(b, u) ==
    LET freed == [b EXCEPT ![u].ino = None]
        before == {v \in Offsets(b) : v < u}
    IN  IF u = 0 THEN freed ELSE [freed EXCEPT ![Max(before)].len = @ + Need[b[u].name]]

\* ext4_dir_remove_entry, in the block that has it.
RemoveRecord(b, u) ==
    LET freed == [b EXCEPT ![u].ino = None]
        before == {v \in Offsets(b) : v < u}
    IN  IF u = 0 THEN freed ELSE [freed EXCEPT ![Max(before)].len = @ + b[u].len]

\* Records laid one after another; the last takes the rest of the block.
Laid(b, recs) ==
    LET off[k \in 1 .. Len(recs) + 1] ==
            IF k = 1 THEN 0 ELSE off[k - 1] + Need[recs[k - 1].name]
        put[k \in 0 .. Len(recs)] ==
            IF k = 0 THEN b
            ELSE WriteEntry(put[k - 1], off[k],
                     [recs[k] EXCEPT !.len = IF k < Len(recs) THEN Need[recs[k].name] ELSE BlockSize - off[k]])
    IN  put[Len(recs)]

-----------------------------------------------------------------------------
(* The index.                                                              *)

Entry(h, b) == [hash |-> h, block |-> b]
IndexNode(h, b, e) == [hash |-> h, block |-> b, entries |-> e]

\* A node's first entry has no hash of its own: the one in the root counts.
HashAt(p) == IF p[2] = 1 THEN nodes[p[1]].hash ELSE nodes[p[1]].entries[p[2]].hash
LeafOf(p) == nodes[p[1]].entries[p[2]].block

\* ext4_dir_dx_get_leaf: the last entry up to h, in the root and in the node.
GetLeaf(h) ==
    LET i == Max({1} \cup {j \in DOMAIN nodes : nodes[j].hash <= h})
        E == nodes[i].entries
    IN  <<i, Max({1} \cup {k \in 2 .. Len(E) : E[k].hash <= h})>>

\* ext4_dir_dx_next_block: where the search for h goes on to.  The read of the
\* next node may fail, which ends it as if there were none.
Places ==
    FlattenSeq([i \in DOMAIN nodes |-> [k \in DOMAIN nodes[i].entries |-> <<i, k>>]])
Continues(p, h, fails) ==
    /\ HashAt(p) - (HashAt(p) % 2) = h
    /\ ~(fails /\ p[2] = 1)

\* The leaves ext4_dir_dx_find_entry looks at.
Probed(h, fails) ==
    LET P == Places
        leaf == GetLeaf(h)
        first == CHOOSE k \in DOMAIN P : P[k] = leaf
        last == Max({k \in first .. Len(P) : \A j \in first + 1 .. k : Continues(P[j], h, fails)})
    IN  [k \in 1 .. last - first + 1 |-> LeafOf(P[first + k - 1])]

\* ext4_dir_find_entry: the number of the block and the offset, or nothing.
Searched(n, ix, fails) ==
    IF ix THEN Probed(Hash[n], fails) ELSE [k \in DOMAIN blocks |-> k - 1]
Found(n, ix, fails) ==
    LET S == Searched(n, ix, fails)
        hits == {k \in DOMAIN S : FindInBlock(blocks[S[k] + 1], n) # {}}
    IN  IF hits = {} THEN <<>>
        ELSE LET b == S[Min(hits)] IN <<b, Min(FindInBlock(blocks[b + 1], n))>>
Find(n) == Found(n, indexed, FALSE)
MapNow ==
    [n \in Name |-> LET at == Find(n) IN IF at = <<>> THEN None ELSE blocks[at[1] + 1][at[2]].ino]

\* A node of the index cannot be read: EXT4_ERR_BAD_DX_DIR, after which the
\* directory is a linear one for good.
Readings == {indexed, indexed /\ levels = 0}

-----------------------------------------------------------------------------
(* Listings.                                                               *)

\* ext4_dir.next_off with what has been returned, what has been returned twice,
\* the names that were there all the time, and whether a split or an error of
\* the device came between.
NoListing == [off |-> -1, seen |-> {}, again |-> {}, held |-> {}, disturbed |-> FALSE]
Term == -2   \* EXT4_DIR_ENTRY_OFFSET_TERM
Listing == list.off # -1

\* What a change of the entry n means to the listing under way.
Touched(n) == IF Listing THEN [list EXCEPT !.held = @ \ {n}] ELSE list

\* A new directory: ext4_link, and ext4_dir_dx_init.
Block0 == Laid([u \in Unit |-> Body], <<Record(".", 1, 0), Record("..", 1, 0)>>)
NewLinear == [blocks |-> <<Block0>>, indexed |-> FALSE, levels |-> 0, nodes |-> <<>>]
NewIndexed ==
    [blocks |-> <<Block0, EmptyBlock>>, indexed |-> TRUE, levels |-> 0,
     nodes |-> <<IndexNode(0, 0, <<Entry(0, 1)>>)>>]

Init ==
    /\ \E s \in Starts \cup {NewLinear, NewIndexed} :
         /\ blocks = s.blocks /\ indexed = s.indexed
         /\ levels = s.levels /\ nodes = s.nodes
    /\ list = NoListing
    /\ changes = 0
    /\ damage = {}
    /\ seen = MapNow

-----------------------------------------------------------------------------
(* Adding to a leaf.  A layout is a directory with the place of the leaf.  *)

Layout(bl, lv, nd, p) == [blocks |-> bl, levels |-> lv, nodes |-> nd, at |-> p]
Current(n) == Layout(blocks, levels, nodes, GetLeaf(Hash[n]))

\* Mutant: the new entry goes before the old one.
InsertEntry_before(nd, p, e) ==
    [nd EXCEPT ![p[1]].entries = InsertAt(@, p[2], e)]

\* ext4_dir_dx_insert_entry
InsertEntry(nd, p, e) ==
    [nd EXCEPT ![p[1]].entries = InsertAt(@, p[2] + 1, e)]

\* ext4_dir_dx_split_index: the root becomes a node below a root of one entry,
\* or the upper half of a node goes to a new one.
Full(y) == Len(y.nodes[y.at[1]].entries) = IF y.levels = 0 THEN RootLimit ELSE NodeLimit
Stuck(y) == Full(y) /\ y.levels = 1 /\ Len(y.nodes) = RootLimit
Leaf(y) == y.nodes[y.at[1]].entries[y.at[2]].block
SplitIndex(y) ==
    LET new == Len(y.blocks)
        added == Append(y.blocks, EmptyBlock)
        i == y.at[1]
        E == y.nodes[i].entries
        left == Len(E) \div 2
        right == IndexNode(E[left + 1].hash, new, SubSeq(E, left + 1, Len(E)))
    IN  IF ~Full(y) THEN y
        ELSE IF y.levels = 0 THEN Layout(added, 1, <<IndexNode(0, new, E)>>, y.at)
        ELSE Layout(added, 1,
                    InsertAt([y.nodes EXCEPT ![i].entries = SubSeq(E, 1, left)], i + 1, right),
                    IF y.at[2] <= left THEN y.at ELSE <<i + 1, y.at[2] - left>>)

\* ext4_dir_dx_split_data: the entries in the order of their hashes, and the
\* first that reaches beyond the half.  There is none if they all fit in half a
\* block: the hash of the entry before the first is read, the old block is left
\* as it is and the new one gets all of them.
Sorted(b) ==
    LET before(u, v) == \/ Hash[b[u].name] < Hash[b[v].name]
                        \/ Hash[b[u].name] = Hash[b[v].name] /\ u < v
        S == SetToSortSeq(Live(b), before)
    IN  [k \in DOMAIN S |-> b[S[k]]]
UsedBy(recs, k) == FoldSet(LAMBDA j, sum : sum + Need[recs[j].name], 0, 1 .. k)
Mid(recs) ==
    LET S == {k \in DOMAIN recs : UsedBy(recs, k) > BlockSize \div 2}
    IN  IF S = {} THEN 0 ELSE Min(S)
\* Mutant: a hash that goes on in the new block is not marked.
Continued_never(recs, m) == FALSE

Continued(recs, m) == Hash[recs[m].name] = Hash[recs[m - 1].name]

\* Mutant: the first part is not written back to the old block.
SplitData_keep(y, recs, m, hash) ==
    LET new == Laid([u \in Unit |-> Body], SubSeq(recs, IF m = 0 THEN 1 ELSE m, Len(recs)))
    IN  Layout(Append(y.blocks, new), y.levels,
               InsertEntry(y.nodes, y.at, Entry(hash, Len(y.blocks))), y.at)

SplitData(y, recs, m, hash) ==
    LET leaf == Leaf(y)
        old == IF m = 0 THEN y.blocks[leaf + 1]
               ELSE Laid(y.blocks[leaf + 1], SubSeq(recs, 1, m - 1))
        new == Laid([u \in Unit |-> Body], SubSeq(recs, IF m = 0 THEN 1 ELSE m, Len(recs)))
    IN  Layout(Append([y.blocks EXCEPT ![leaf + 1] = old], new), y.levels,
               InsertEntry(y.nodes, y.at, Entry(hash, Len(y.blocks))), y.at)

SetTo(y) == blocks' = y.blocks /\ levels' = y.levels /\ nodes' = y.nodes
Into(bl, b, n, c) == [bl EXCEPT ![b + 1] = TryInsert(@, n, c)]
Hurt(D) == damage' = damage \cup D

-----------------------------------------------------------------------------
(* Calls.  A caller adds a name only after a search has not found it.      *)

\* What a search finds now, before the call changes it.
Recall == seen' = MapNow

Change(n) ==
    /\ Quiet /\ changes < MaxChanges
    /\ changes' = changes + 1

\* ext4_dir_find_entry alone: it changes nothing but the flag.
Lookup ==
    /\ Quiet
    /\ indexed' \in Readings \ {indexed}
    /\ UNCHANGED <<blocks, levels, nodes, list, changes, damage>>
    /\ Recall

NotFound(n, ix) == \E fails \in BOOLEAN : Found(n, ix, fails) = <<>>
Again(n) == IF Find(n) # <<>> THEN {"twice"} ELSE {}

\* The linear part of ext4_dir_add_entry.
AddLinear(n, c) ==
    /\ Change(n)
    /\ FALSE \in Readings /\ NotFound(n, FALSE)
    /\ LET S == {b \in DOMAIN blocks : Room(blocks[b], n) # {}}
       IN  blocks' = IF S # {} THEN Into(blocks, Min(S) - 1, n, c)
                     ELSE Append(blocks, Laid([u \in Unit |-> Body], <<Record(n, c, 0)>>))
    /\ indexed' = FALSE
    /\ list' = Touched(n)
    /\ Hurt(Again(n))
    /\ UNCHANGED <<levels, nodes>>
    /\ Recall

\* ext4_dir_dx_add_entry: a full node is split first, then the leaf is tried.
AddToLeaf(n, c) ==
    /\ Change(n)
    /\ indexed /\ NotFound(n, TRUE) /\ ~Stuck(Current(n))
    /\ \E y \in {SplitIndex(Current(n))} :
         /\ Room(y.blocks[Leaf(y) + 1], n) # {}
         /\ SetTo([y EXCEPT !.blocks = Into(@, Leaf(y), n, c)])
    /\ list' = Touched(n)
    /\ Hurt(Again(n))
    /\ UNCHANGED indexed
    /\ Recall

\* There is no room: the leaf is split too.  Its hash without a half is read
\* from before the array.
AddSplits(n, c) ==
    /\ Change(n)
    /\ indexed /\ NotFound(n, TRUE) /\ ~Stuck(Current(n))
    /\ \E y \in {SplitIndex(Current(n))} : \E recs \in {Sorted(y.blocks[Leaf(y) + 1])} :
       \E m \in {Mid(recs)} :
         /\ Room(y.blocks[Leaf(y) + 1], n) = {}
         /\ \E hash \in IF m = 0 THEN {0, 1}
                         ELSE {Hash[recs[m].name] + IF Continued(recs, m) THEN 1 ELSE 0} :
            \E z \in {SplitData(y, recs, m, hash)} :
              LET b == IF Hash[n] >= hash THEN Len(y.blocks) ELSE Leaf(y)
                  fits == Room(z.blocks[b + 1], n) # {}
              IN  /\ SetTo(IF fits THEN [z EXCEPT !.blocks = Into(@, b, n, c)] ELSE z)
                  /\ Hurt(Again(n) \cup (IF m = 0 THEN {"halved"} ELSE {})
                                   \cup (IF fits THEN {} ELSE {"lost"}))
    /\ list' = IF Listing THEN [Touched(n) EXCEPT !.disturbed = TRUE] ELSE list
    /\ UNCHANGED indexed
    /\ Recall

\* The node is split, but the leaf cannot be read, or split.
AddFails(n) ==
    /\ Change(n)
    /\ indexed /\ NotFound(n, TRUE) /\ Full(Current(n)) /\ ~Stuck(Current(n))
    /\ \E y \in {SplitIndex(Current(n))} : SetTo(y)
    /\ UNCHANGED <<indexed, list, damage>>
    /\ Recall

\* A node that cannot be split, for the root is full or there is no block, and
\* one that cannot be read: the cleanup releases what was never set.
AddReleases(n) ==
    /\ Change(n)
    /\ indexed /\ Full(Current(n))
    /\ Hurt({"released"})
    /\ UNCHANGED <<content, list>>
    /\ Recall
FindReleases ==
    /\ Quiet
    /\ indexed /\ levels = 1
    /\ Hurt({"released"})
    /\ UNCHANGED <<content, list, changes>>
    /\ Recall

\* A block was appended, and there is no buffer for it.
AddTears(n) ==
    /\ Change(n)
    /\ \/ /\ indexed /\ NotFound(n, TRUE) /\ ~Stuck(Current(n))
          /\ Full(Current(n)) \/ Room(blocks[Leaf(Current(n)) + 1], n) = {}
       \/ /\ FALSE \in Readings /\ NotFound(n, FALSE)
          /\ \A b \in DOMAIN blocks : Room(blocks[b], n) = {}
    /\ blocks' = Append(blocks, [u \in Unit |-> Body])
    /\ Hurt({"torn"})
    /\ UNCHANGED <<indexed, levels, nodes, list>>
    /\ Recall

\* ext4_dir_remove_entry
RemoveEntry(n) ==
    /\ Change(n)
    /\ \E ix \in Readings, fails \in BOOLEAN : \E at \in {Found(n, ix, fails)} :
         /\ at # <<>>
         /\ blocks' = [blocks EXCEPT ![at[1] + 1] = RemoveRecord(@, at[2])]
         /\ indexed' = ix
    /\ list' = Touched(n)
    /\ UNCHANGED <<levels, nodes, damage>>
    /\ Recall

-----------------------------------------------------------------------------
(* Listing.  Another caller may change the directory between two entries.  *)

Size == Len(blocks) * BlockSize
Cell(o) == blocks[o \div BlockSize + 1][o % BlockSize]

\* ext4_dir_open, ext4_dir_entry_rewind
ListOpen ==
    /\ Quiet
    /\ list' = [NoListing EXCEPT !.off = 0, !.held = {n \in Name : Find(n) # <<>>}]
    /\ UNCHANGED <<content, changes, damage>>
    /\ Recall

\* Mutant: the end of a block is the end of the directory.
After_block(o) ==
    LET next[p \in 0 .. Size] ==
            IF p % BlockSize = 0 THEN Term
            ELSE IF Cell(p) = Body \/ Cell(p).ino # None THEN p
            ELSE next[p + Cell(p).len]
    IN  next[o + Cell(o).len]

\* ext4_dir_iterator_next: removed entries are skipped, but for the one the
\* listing was left at.
After(o) ==
    LET next[p \in 0 .. Size] ==
            IF p >= Size THEN Term
            ELSE IF Cell(p) = Body \/ Cell(p).ino # None THEN p
            ELSE next[p + Cell(p).len]
    IN  next[o + Cell(o).len]

\* ext4_dir_entry_next.  A block that cannot be read ends the listing.
ListNext ==
    /\ Quiet /\ list.off >= 0
    /\ IF Cell(list.off) = Body
       THEN Hurt({"garbage"}) /\ UNCHANGED list
       ELSE LET r == Cell(list.off)
                S == {n \in Name : n = r.name /\ r.ino # None}
            IN  \E o \in {After(list.off)} :
                  /\ \E end \in {o} \cup IF o \div BlockSize = list.off \div BlockSize THEN {} ELSE {Term} :
                       list' = [list EXCEPT !.off = end,
                                            !.seen = @ \cup S, !.again = @ \cup (list.seen \cap S),
                                            !.disturbed = @ \/ end # o]
                  /\ UNCHANGED damage
    /\ UNCHANGED <<content, changes>>
    /\ Recall

\* ext4_dir_close
ListClose ==
    /\ Quiet /\ Listing
    /\ list' = NoListing
    /\ UNCHANGED <<content, changes, damage>>
    /\ Recall

Next ==
    \/ Lookup \/ FindReleases
    \/ \E n \in Name :
         \/ \E c \in Child : AddLinear(n, c) \/ AddToLeaf(n, c) \/ AddSplits(n, c)
         \/ AddFails(n) \/ AddReleases(n) \/ AddTears(n) \/ RemoveEntry(n)
    \/ ListOpen \/ ListNext \/ ListClose

Spec == Init /\ [][Next]_vars

-----------------------------------------------------------------------------
(* Properties.                                                             *)

TypeOK ==
    /\ \A b \in DOMAIN blocks : DOMAIN blocks[b] = Unit
    /\ indexed \in BOOLEAN /\ levels \in {0, 1}
    /\ list.off \in -2 .. Size
    /\ changes \in 0 .. MaxChanges
    /\ damage \subseteq Damage

\* The records of a block follow one another up to its end and each has room
\* for its name, however often entries were cut off, merged and laid out anew:
\* every walk of ext4_dir.c through a block ends because of it.
RecordsFillBlocks ==
    Quiet =>
        \A k \in DOMAIN blocks : LET O == Offsets(blocks[k]) IN
            \A u \in O : LET r == blocks[k][u] IN
                /\ r.len > 0 /\ u + r.len \in O \cup {BlockSize}
                /\ r.ino # None => r.len >= Need[r.name]

\* A name has one record in the directory, where ext4_dir_dx_split_data copies
\* records and a directory changes from indexed to linear.
Records == UNION {{<<k, u>> : u \in Live(blocks[k])} : k \in DOMAIN blocks}
Distinct == \A x, y \in Records : blocks[x[1]][x[2]].name = blocks[y[1]][y[2]].name => x = y
OneRecordPerName == Quiet => Distinct

\* The index: its nodes within their limits, its hashes in order, no leaf twice,
\* and the entries of a leaf between its hash and the next one.
IndexOrdered ==
    Quiet /\ indexed =>
        LET P == Places IN
        /\ Len(nodes) <= (IF levels = 0 THEN 1 ELSE RootLimit)
        /\ \A i \in DOMAIN nodes :
             Len(nodes[i].entries) \in 1 .. IF levels = 0 THEN RootLimit ELSE NodeLimit
        /\ \A j, k \in DOMAIN P : j # k => LeafOf(P[j]) # LeafOf(P[k])
        /\ \A k \in DOMAIN P :
             /\ k < Len(P) => HashAt(P[k]) <= HashAt(P[k + 1])
             /\ \A u \in Live(blocks[LeafOf(P[k]) + 1]) :
                  LET h == Hash[blocks[LeafOf(P[k]) + 1][u].name] IN
                  /\ HashAt(P[k]) <= h + 1
                  /\ k < Len(P) => h < HashAt(P[k + 1])

\* The calls implement a map from names to inodes: what a search finds for any
\* name changes as the call says, whatever was split for it, and also when an
\* index that cannot be read turns the directory into a linear one.
Names == INSTANCE NameMap WITH map <- seen
ImplementsNameMap == Names!Spec

\* A listing returns every name that was there from its beginning to its end
\* once, whatever was added and removed between two of its calls; unless a leaf
\* was split meanwhile or a block could not be read.
ListingComplete ==
    Quiet /\ list.off = Term /\ ~list.disturbed =>
        list.held \subseteq list.seen /\ list.again \cap list.held = {}

\* ext4_dir_dx_split_data "Distribute entries to two blocks": an entry goes to
\* one of them.
SplitDistributes ==
    damage \subseteq {"halved"} => Distinct
=============================================================================
