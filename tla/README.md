# Verification of GIGAEXT4

TLA+ modules, TLC configurations and TLAPS proofs for the ext4 driver in this repository: a
port of lwext4 (`src/ext4/`) with an Mbed file system wrapper and USB drive handling for the
Arduino GIGA R1. Paths below are relative to the repository.

Everything is modelled from the code as it is configured here (`src/ext4/ext4_config.h`):
16 cache buffers, four block devices, four mount points, assertions compiled out. The one exception
is `Journal`: `CONFIG_JOURNALING_ENABLE` is 0 here, and that module is about a build that sets it.

## 1. The system

| Part | State | Operations | Interacts with |
|---|---|---|---|
| Block cache (`ext4_bcache.c`) | buffers by block number, an LRU order, a dirty list, reference counts and flags | find, alloc, free, drop, invalidate, cleanup | calls back the block device to flush |
| Block I/O (`ext4_blockdev.c`, `ext4_trans.c`) | reference count of the device, depth of write-back mode, bound cache | get, put, flush, shake, write-back on/off, direct and byte transfers | cache, driver callbacks |
| Block allocator (`ext4_balloc.c`, `ext4_bitmap.c`) | block bitmaps, free counts of groups and superblock, an inode's block count | allocate near a goal, try one block, free one block or a range | cache (bitmaps, descriptors; invalidates what is freed) |
| Group descriptors (`ext4_fs.c`, `ext4_super.c`) | flags "bitmap never written", counters, geometry | get (initialises lazily), put | both allocators |
| Inode allocator (`ext4_ialloc.c`) | inode bitmaps, counters, the group of the last success | allocate, free | cache, group descriptors |
| File handles (`ext4.c`) | position, size, inode, flags of each open file | open, read, write, truncate, seek, close | block map, direct I/O, write-back mode |
| Block map (`ext4_extent.c`, `ext4_fs.c`) | extent tree or indirect blocks | look up, fill, append, initialise, remove a range | block allocator, cache |
| Namespace (`ext4.c`, parts of `ext4_fs.c`) | names, "..", types and link counts of the inodes | create with the missing directories of the path, link, symbolic link, rename, unlink, recursive removal | directories, inode allocator, block map |
| Directory (`ext4_dir.c`, `ext4_dir_idx.c`) | records in blocks; a tree of hashes over them | find, add, remove, split, list | block map, cache; its index may be dropped for good |
| Journal (`ext4_journal.c`, `ext4_trans.c`) | the log, a transaction, a queue of those not yet home | start, stop, commit, checkpoint, revoke, abort, recover | the cache's end-of-write callbacks; switched off |
| Extended attributes, formatter | in-inode and shared attribute blocks; a fresh layout | | not used by the Arduino layer |
| Mounting (`ext4.c`) | `s_bdevices`, `s_mp` | register, unregister, mount, umount | device reference count |
| Drive layer (`GIGAext4FS.cpp`, `EXT4FileSystem.cpp`, `ext4IOUtility.cpp`) | mount list, device list, `_extfs` and `_id`, `msd[]` | mountDrives, umountDrives, hot plug | all of mounting; USB driver |

What is hard in it is not parallelism: lwext4's calls are serialised by the mount point's lock,
and the sketch is one thread. It is

- one state kept in two places: a block in the cache and on the device, a bitmap and its three
  counters, a partition in four tables of three files;
- failure in the middle of a call: every transfer may fail when the drive is pulled out, and
  the code leaves the steps already done as they are;
- long sequences of legal calls: eviction order, references held across calls, write-back
  nesting, groups that fill and are searched in turn, mounting after a failed unmount;
- loss of power between two writes of the cache, with no journal to repair it.

What makes each part correct:

- cache: a buffer that may be dropped holds what the device holds; what is dirty is either held
  or will be found by a flush; nothing dirty outlives the use of its block;
- block allocator: no block is handed out twice, the counters equal the bitmaps, "no space" is
  true when it is said;
- inode allocator: the same, and the search ends;
- mounting: what is listed as mounted is usable, the device stays open while a partition needs
  it, an unmount leaves nothing behind, all partitions are mounted;
- file handles and block map: the calls of all handles are reads, writes and truncations of one
  sequence of bytes; a file has exactly the blocks its size needs, none of them twice and none
  of them free; file contents never go over the superblock; between calls the cache writes
  through; every loop of a call ends;
- extent tree: it implements a map from file blocks to volume blocks, and every block is free, in
  one place of one tree, or held by the call under way, also when a call fails in the middle;
- namespace: names, inodes, ".." records and link counts agree, the directories are one tree, a
  recursive removal stays below its directory, and every call ends;
- directory: its blocks and its index implement a map from names to inodes; a listing returns
  every name that stays;
- journal: a call survives a loss of power whole or not at all.

## 2. The modules

| Module | Kind | What it models |
|---|---|---|
| `BlockCache` | component | the cache of one volume and the part of `ext4_blockdev.c` above it |
| `BlockStore` | abstract | what the file system expects of its blocks |
| `VolumeBlocks` | composition | `BlockCache` with the allocation of blocks and direct data transfers; implements `BlockStore` |
| `VolumeBlocksProofs` | proofs | the safety invariants of `BlockCache`, that the two never disagree, and the refinement |
| `BlockPool` | abstract | what the block allocator promises: a pool of free blocks |
| `BlockAlloc` | component | `ext4_balloc.c` over bitmap search and lazy group initialisation; implements `BlockPool` |
| `BlockAllocProofs` | proofs | its safety invariants and the refinement |
| `InodeAlloc` | component | `ext4_ialloc.c`, its loop step by step, with write-back, power loss and remount |
| `InodeAllocProofs` | proofs | its safety invariants |
| `OpenFile` | abstract | what a program expects of one file opened through several handles |
| `FileHandle` | component | open, read, write, truncate, seek and close of `ext4.c` over the block map of one inode; implements `OpenFile` |
| `FileHandleProofs` | proofs | its safety invariants, that every loop ends, and the refinement |
| `BlockMap` | abstract | what a file expects of the structure that finds its blocks |
| `Extents` | component | the extent tree of one inode, allocation by allocation; implements `BlockMap` |
| `TreeInvariant` | proofs | the inductive invariant of `Extents`, and the operators its proofs are written with |
| `ExtentsProofs` | proofs | its safety invariants |
| `NameMap` | abstract | a partial function from names to inodes |
| `Directory` | component | the blocks and the hash index of one directory, and a listing; implements `NameMap` |
| `Namespace` | component | the calls of `ext4.c` on names, over name tables |
| `NamespaceProofs` | proofs | its safety invariants |
| `AtomicStore` | abstract | what a journal promises |
| `Journal` | component | `ext4_journal.c`, block write by block write, with recovery; implements `AtomicStore` |
| `JournalProofs` | proofs | that what is dirty is queued |
| `Volumes` | composition | the mount tables of `ext4.c`, the drive lists, the wrapper's objects, `mountDrives` and `umountDrives` |
| `VolumesProofs` | proofs | its invariants and action properties |
| `MC*` | instances | one per checked module: model values, views and symmetry |

Each definition has the name of the function it stands for where TLA+ allows it, and a comment
where the name differs. Operators named `X_something` directly before `X` are plausible bugs of
`X`; no specification uses them. They exist to show that the properties notice.

### BlockCache

`bc` is `struct ext4_bcache` with its buffers, `disk` the device. The two red-black trees are
the set `lba_root` and the order of `lru_id`; the LRU tree is the unreferenced part of
`lba_root`, because the code inserts and removes at exactly the change of the count to or from
zero. A call of the cache is one action, named after the function, with the outcome of each
transfer (`ok`, or the set `S` of buffers the device took before it failed). Eviction
(`Shaken`) is part of the action that needs room. `JbdSetFlags` sets the two flags the journal
code would, so that its buffers are covered although it is off. `PowerLoss` forgets the cache.

`VolumeBlocks` adds who owns a block. Allocating does not look at the cache, freeing
invalidates, file data bypasses the cache: the invariant between the two (`NoStaleDirtyOverData`)
belongs to none of the three source files alone.

### BlockAlloc

A bitmap is a set of bits. `Found(goal, k, g, i)` says what the four stages of
`ext4_balloc_alloc_block` settle on: the goal itself, the bits up to the next 64-bit boundary,
the rest of the group, then the groups in turn and the goal's group again. `Visited` are the
descriptors it loads on the way, which initialises them. `FindClr` keeps the code's own
result for the unaligned head of a range, where `ext4_bmap_bit_find_clr` reports the first bit
of the range and not the one it found; that this never hands out a used block, because of the
alignment its callers establish, is part of what the proof shows. The group geometry is the
code's, which leaves `first_data_block` out; the padding of the last bitmap makes up for it.

### InodeAlloc

Each turn of the loop is a step: `Rewind`, `SkipGroup`, `RetryGroup` (the `continue` that does
not advance), `TakeInode`, `NoSpace`, `ReadFails`. The cache writes bitmaps and descriptors to
`disk` in any order (`WriteBack`), `PowerLoss` mounts what is on the disk, `Remount` puts
another fresh volume at the same mount point while `fs->last_inode_bg_id` stays.

### FileHandle

One inode, its handles, and the blocks of a small volume whose block 0 holds the superblock.
`inode.map` is the function that `ext4_fs_get_inode_dblk_idx` computes, with 0 for "no block"
as in the code; `inode.extents` tells the two kinds of inode apart where the code does (only one
with extents gets a block it lacks, and truncation releases blocks in pieces that can fail half
way). `call` holds the locals of the call under way and `at`, the place it has reached: `head`,
`map`, `xfer` and `tail` are the parts of `ext4_fread` and `ext4_fwrite`, `size` is the label
`out_fsize`, `cut` a turn of the truncation. `wb` is the depth of write-back mode and follows the
lines that call `ext4_block_cache_write_back`. `fpos` of a handle stays where it is when another
handle shortens the file; `size - fpos` then wraps, as `FreadStart` says.

Three history variables remember what a property has to except: `io_error` (a call that changes
the file has failed), `nospace` (a write has found the volume full), `beyond` (a write has begun
past the end). The refinement to `OpenFile` maps `content` to the bytes under the size, or under
the position a write has reached, and `sound` to "no failed change and no write past the end":
a reader of another handle sees exactly what was written, the bytes of a freed block never show.
A write that would read past the end of its buffer goes no further in the model (`Fits`).

### Extents

`tree` maps the root in the inode (0) and the blocks of the volume to nodes, a depth and a sequence
of entries; `call` holds the path of the call under way, and each allocation, each node changed and
each block read on the way is a step, so that a call may fail after every one of them. The
actions follow `ext4_ext_insert_extent`: `AppendToCur`, `PrependToCur`, `InsertInLeaf`, `Grow`,
`NeedSplit`, `SplitNode` from the leaf up, `LinkSplit`; and `ext4_ext_remove_space`: `RemoveLeaf`,
`RemoveDown`, `RemoveUp`. `FillHole`, `InitializeWhole` and `InitializePart` are the three ways into
`ext4_extent_get_blocks`. Block and extent lengths are small; the two maximal lengths stay different.

`BlockMap` is about `seen`, what a search found for every block when the last call began: a step
inside a call is a stutter, and the next call must find what the last one promised.

### Namespace

An inode is its type, its link count, whether it owns blocks, its name table, its ".." record and its
index flag. A creation goes along its path a component at a time (`MakeMissing`), as
`ext4_generic_open2` does; the recursive removal goes down and up the tree an entry at a time; the
other calls are one action with an outcome for each point at which they fail. `IndexLost` is a lookup that cannot
read the index and leaves the directory a linear one; it may come before any call or step. `Find` is why an
indexed directory has no "." and "..": `ext4_dir_find_entry` asks the index, and they lie in its
root. `MakeFails` has what `ext4_link` and its callers undo, which depends on `strlen` of the rest of the path.

### Directory

A block is an array of units with a header or `Body` in each, so that a header that no walk meets any
more still lies there for a listing that stopped at it. The index is the sequence of its lowest
nodes. The mount point's lock makes a call one step; listing calls come between. `Probed` is the
sequence of leaves that `ext4_dir_dx_find_entry` goes through, with the bit that says "the same hash
goes on in the next leaf". `AddSplits` has the split of a leaf (`Sorted`, `Mid`, `Continued`,
`SplitData`) after that of its node (`SplitIndex`), `AddFails`, `AddTears` and `AddReleases` the ways
out of the middle. `Readings` is the switch from indexed to linear that any unreadable index node causes.

### Journal

`disk`, `log` and `jsb` are on the device, the rest is memory. A block's content is named by the
transaction that wrote it, so that "which version does a recovery find" is a comparison.
`Recovered` computes what the three passes of `jbd_recover` would do now; the refinement maps
`durable` to it at every state, a recovery under way included, in which a second loss of power may
fall. `EndWrite` is the callback `jbd_trans_end_write` with the chain of transactions that had the
same block. The record of a block lists its transactions as the set of their numbers: each is appended to
`dirty_buf_queue` when it is the youngest and once, so the order of the list is that of the numbers.
`AllocSlot` and `MustFlush` take the blocks of the log and flush the oldest transactions
when it is full; superblock writes that follow one another without any other write are one (`due`).

### Damage

The last four modules name in `damage` the things the code does to its own structures in cases
it does not handle, and follow the behaviour no further. Each is found in the code at the lines
`PROJECT.json` maps its action to, the modules list them, and section 4 explains them. The
properties are about everything else: each says `damage = {}` (`Quiet`) or an equivalent, so it
holds until the first of the named cases, with all the failures that are not named.

### Volumes

One record per table: `lw` for `ext4.c`, `ml` and `bd` for `GIGAext4FS.cpp`, `ext_id` for the
objects' `_id`, `msd` for the utility layer. `mountDrives` and `umountDrives` run partition by
partition (`loop`), so that the drive can be pulled out between two. `held` marks a mount point
whose mount really took a reference of the device, as opposed to one only marked `mounted`.

## 3. The runs

| Run | Shows | Bounds |
|---|---|---|
| `block_cache` | `DirtyListReady`, `CleanMatchesDisk`, `DirtyTracked` | three blocks, cache of two, two contents, three references, nesting two, ranges of two; one block flagged by the journal |
| `volume_blocks` | `NoStaleDirtyOverData`, `ImplementsStore`, blocks freed one at a time | three blocks, cache of one |
| `block_alloc` | `TypeOK`, `NotShared`, `GroupsCounted`, `TotalsAgree`, `FullWhenNoSpace`, `ImplementsPool` | ten blocks in two groups of six, words of three bits, two inodes, every goal up to one past the end |
| `inode_alloc` | `Counted`, `NoSpaceMeansFull`, `SearchEnds` | volumes of one to three groups of two inodes; power loss with up to two groups |
| `file_handle` | `NoBlockShared`, `MapMatchesSize`, `SuperblockIntact`, `WriteThroughBetweenCalls`, `EveryStepAdvances`, `ImplementsOpenFile` | two handles, blocks of two bytes, three blocks to give, files of 0, 3 or 6 bytes at first, transfers of 1 and 5 bytes, three calls, one failed transfer |
| `file_overrun` | a counterexample: a write gathers more blocks than its buffer has bytes for | as above, two calls |
| `extents` | `EveryBlockInOnePlace`, `TreeShape`, `ImplementsMap`, `CallsReturn` | root of one entry, nodes of two, files of five blocks, 18 blocks to give, of which every second may be taken; extents of up to four blocks, unwritten ones up to three; one truncation |
| `namespace` | `NamesAndInodesAgree`, `OneTree`, `LinksCountNames`, `StaysBelow`, `CallsReturn` | the root and three more inodes, three names, paths of up to three components, of which some end in a slash or a dot; a limit of four links, 16 bits as five values |
| `directory` | `RecordsFillBlocks`, `OneRecordPerName`, `IndexOrdered`, `ImplementsNameMap`, `ListingComplete` | blocks of eight units, seven names of one to three units, three of them with one hash; two entries in the root, three in a node; two new directories and five with a history; three changes |
| `directory_split` | a counterexample: a split that copies every entry and removes none | as above |
| `journal` | `DirtyIsQueued`, `ImplementsPromise` | a bitmap and one block, a log of twelve blocks, four transactions, one loss of power |
| `volumes` | `MountedIsUsable`, `OpenWhileMounted`, `UmountReleases`, `MountsAllAvailable` | four table entries, the first three ext4; the reference count up to five |

Why the bounds are enough. The cache needs more blocks than buffers, so that eviction chooses,
and one more for a range with an uncached head; its states are compared by the rank of `lru_id`,
so no bound on the number of calls is needed. The allocator needs two groups, a last group that
is short, a bit range that is not aligned, metadata inside both and one group never written.
The inode search needs three groups for a skipped group between the first and the last. The
partitions need one entry more than are in use, and a reference count beyond the number of
partitions. For a file, five bytes from an odd position are a head, whole blocks and, from an
even one, a tail; three blocks make maps that are contiguous and maps that are not, and a volume
that fills up in the middle of a write; `MaxTrunc` of one block makes a truncation take several
turns; three calls are a change through one handle, one through the other, and a look at the
result. `FB` bounds positions and is beyond what the volume can hold.

Five extents in nodes of two under a root of one make a tree of depth three, in which a split
reaches one, two or all of its levels, and taken blocks in between keep the extents from merging. Three
inodes besides the root allow a directory in a directory in a directory, two names of one file,
and enough directories in the root to reach the limit of links or to wrap. A directory's history
is in its initial states, each of them what a longer sequence of additions and removals leaves: room in
pieces, a full leaf, a full node, a full root; three changes (two sets of names alike, by symmetry) then reach every split and what a search
does after it. A transaction takes three to five of the log's twelve blocks, so the fourth wraps
around and finds the log full; with one block besides the bitmap a transaction can hold the
block, free it, take it again for data or metadata and revoke it; more than one loss of power at
rest adds nothing, and one can fall into a session, a commit, a checkpoint or a recovery.

Deadlock is checked in every passing run but `file_handle`, `extents`, `directory` and `journal`, where
a bound on the calls ends every behaviour, and in these and `namespace` damage ends one. In `file_handle`, that no call is stuck or turns for ever is said by a variant instead
of fairness: `EveryStepAdvances` gives each state of a call a natural number (`Work`) that every
step makes smaller, and says that a transfer that is due has something to move.

**Fairness.** The only fairness assumed is that a call that has been made runs on; the mount point's
lock keeps the others out and nothing preempts it for ever. It is weak fairness of `SearchStep`, the
body of the loop in `ext4_ialloc_alloc_inode`; of `Step` in `Extents`, the next step of an insertion or a
removal; and of `MakeStep` and `RmStep` in `Namespace`, the next component of a path and the next
entry of a recursive removal. `CallsReturn` says that these end: an insertion splits only as often as
there are levels, a removal descends only into what it then takes away.
Nobody has to call again, to write back or to plug a drive. `SearchEnds` says the loop ends on a
volume that was unmounted in order. After a loss of power it need not: if the bitmap reached
the device and the descriptor did not, `continue` (`ext4_ialloc.c:300`) tries the same group for
ever. The property excludes that case by name (`crashed`), the model contains it.

## 4. What the counterexamples mean, and what the properties except

Two runs keep a counterexample:

- `file_overrun`: `ext4_fwrite` mixes an index computed from the handle's position with one computed
  from the end of the file as it is now (`ext4.c:1918`). They differ only when another handle has made
  the file shorter; the loop then gathers more blocks than the buffer holds. The properties of
  `file_handle` except a write that has begun past the end (`beyond`).
- `directory_split`: `ext4_dir_dx_split_data` is called when no gap is long enough. If the
  entries together fit in half a block there is none to split at; the new block gets all of them, the
  old one keeps them, and the hash is read from before the array (`ext4_dir_idx.c:1005`).

Other cases in which the code departs from what its properties say are exceptions with a name,
which a property mentions; taking the name out of the property gives the counterexample.

| Where | Exception | What happens |
|---|---|---|
| `BlockCache` | `io_error` | `ext4_bcache_free` ignores a failed write; that buffer is on no list, and `ext4_block_cache_flush` reports success |
| `VolumeBlocks` | `MaxRange = 1` | `ext4_bcache_invalidate_lba` walks from the buffer of the first block and gives up if that one is not cached; the others stay dirty and are written over whatever the blocks are used for next |
| `InodeAlloc` | `swapped` | `last_inode_bg_id` outlives the volume: a smaller one at the same mount point is full from the start |
| `InodeAlloc` | `crashed` | the bitmap reached the device and the descriptor did not: `continue` (`ext4_ialloc.c:300`) tries the same group for ever |
| `FileHandle` | `nospace`, `io_error` | `ext4_fwrite` jumps over the line that leaves write-back mode when the volume fills (`ext4.c:1960`) or a transfer fails; from then on changed metadata waits in the cache for an eviction, a flush or the unmount |
| `Volumes` | no empty entry before a used one | `EXT4FileSystem::mount` numbers objects by the first free place, `mountDrives` by partition |
| `Extents` | `shifted` | an extent that grows at its beginning keeps its first block on the volume (`ext4_extent.c:1280`) |
| `Extents` | `absorbed` | a written block joins an unwritten extent and reads as zeroes |
| `Extents` | `wrapped` | when the middle of an unwritten extent is written, the second of the two splits is tried at a place before its extent |
| `Extents` | `lost`, `exposed` | a failed split frees new nodes with the entries that were moved into them; a failed conversion makes the unwritten part a written one |
| `Extents` | `TruncateAtHole` | a truncation that begins in a hole removes nothing and shortens the file all the same; the blocks stay in the tree |
| `Namespace` | `dangling`, `leaked` | a creation that fails removes neither the entry of an indexed directory nor one that is not the last of the path, and never the first block of a directory |
| `Namespace` | `twice`, `cycle` | a rename that fails half way, or with a slash at the end, leaves both names; a directory can be moved below itself, no line asks |
| `Namespace` | `dots` | a path that ends in a dot name adds or removes such a record |
| `Namespace` | `overflow` | link counts of linear directories and files have no limit but 16 bits |
| `Namespace` | `linked`, `torn` | the recursive removal frees a file that has other names; it stops after a directory's blocks are gone |
| `Namespace` | `stopped` | the link count of a directory stops at 1 while it is indexed, and an index that cannot be read makes it a linear one (`ext4_dir.c:470`), which counts on from there |
| `Directory` | `lost` | a name still has no room after a split, and the result is overwritten by that of releasing a block: EOK without an entry |
| `Directory` | `halved` | `directory_split` |
| `Directory` | `twice` | a search that could not read the next node says ENOENT and the name is added again |
| `Directory` | `torn`, `released` | a block appended and not written; a cleanup that releases block references never taken |
| `Directory` | `garbage` | a listing goes on at a place where another record now covers the header |
| `Journal` | `behind` | flushing for room takes the head off the queue without moving the log's start on the device, and the next block written is the one it names (`ext4_journal.c:2110`, a head already complete) |
| `Journal` | `unrevoked` | a block that this transaction has and a committed one had is not revoked when it is freed (`ext4_journal.c:1696`) |
| `Journal` | `stale` | stopping resets the sequence number to 0; a later session's recovery can take old records for its own |
| `Journal` | `kept`, `forgotten` | an aborted transaction's changes stay in the cache; a buffer it invalidated held a committed change |

## 5. What is proved

All proofs hold for every value of the constants that satisfies the named assumptions
(`CacheAssumption`; `GeometryAssumption` and `MetaAssumption`; `InodeGeometry`; `SizesAssumption`;
`TreeAssumption`; `NamespaceAssumption`; `DriveAssumption`; `JournalAssumption`). They ask for finite sets of names
and inodes where something is counted, for positive sizes, for a root that takes fewer entries than a node and
initial extents within the file, and that partition 0 holds ext4; the
two theorems with a further condition say so below.

**VolumeBlocksProofs**, the cache. `Invariance` proves `IInv`, from which `TypeCorrect`, `DirtyListIsReady`,
`CleanIsOnDisk`, `DirtyIsTracked` and `WriteThrough` (in write-through mode no released change waits) follow. None of the properties is inductive
alone. A clean buffer equals its block only if no buffer is both dirty-listed and held, and no
buffer with uninitialised bytes is flagged up to date while dirty; so `IInv` adds the shape of
every buffer (what its flags say of its data) and that everything outside `lba_root` is a new
buffer. The work is done on cache values: one lemma per cache function (`DropConsistent`,
`FlushConsistent`, `AllocConsistent`, `FreeConsistent`, `InvalidateConsistent`, ...) says that
it keeps a cache consistent, and the actions combine them.

**VolumeBlocksProofs**, the volume. Its invariant is `IInv` of the cache, that no transfer of the composition leaves a buffer
that only the journal would make, and that a buffer with valid bytes belongs to metadata. That
last one is what `ext4_bcache_invalidate_lba` may break: `WalkReaches` says that its walk over a freed range
starts at a cached buffer or that none of the range is cached. Under it `DataIsNotOverwritten` and
the refinement `VolumeIsStore` hold; `FreedSingly` shows that it always holds when blocks are freed one
at a time (`MaxRange = 1`, the run's bound and the exception of section 4). Each function of the cache is
again one lemma: what it keeps of the bytes a reader sees and which blocks it may write.

**BlockAllocProofs.** `AllocInvariance` proves an `IInv` that joins the types, `MetaMarked` (the
file system's own blocks and the padding are always marked), `NotShared`, `GroupsCounted`, the
superblock's count as the cardinality of the free blocks, and that an inode is charged at least
for what it owns, which keeps its counter from wrapping. `AllocTypeCorrect`, `BlocksNotShared`,
`GroupCountsRight` and the refinement `AllocatorIsPool` follow. The core is arithmetic: a block
and its place (group, bit) determine each other (`BlockPlace`, `PlaceBlock`), nested alignment
(`RoundUpNested`: a boundary of K words is one of a word), and with them `FoundClear`: whatever
stage the search ends in, the bit is clear and lies in the volume. `CountsAddUp` carries the sums over groups
and inodes: when one term of a sum changes by a number, so does the sum (`SumChange`), and each action is one
such change per table or two that cancel. `NoSpaceMeansFull` shows that a refused search has
looked at every bit: the turns from the goal's group on come to every group (`TurnReaches`), and within
one the aligned words and the two ends cover it (`ClearIsFound`).

**InodeAllocProofs.** `InodesCounted` and `NoSpaceIsFull` follow from an `IInv` that says where a
search is: before it turned around it has passed the groups from `last_bg` on, afterwards also those
from 0 on, and all it passed had no clear bit (`Passed`, `SearchOrder`). That needs `last_bg` to be a
group of the volume (`LastInside`, which an exchange for a smaller volume breaks), and that a
descriptor with no free inode has a full bitmap, which is `Counted`. A loss of power may leave any
older bitmap next to any older descriptor; what survives is that the free and directory counts of a
descriptor fit in a group together and that the superblock counts at least what is clear (`Kept`,
`NewVolume`), and with them `InodeTypeCorrect`. The proof asks that the reserved inodes are the
first of group 0, or the count of never-used inodes would be wrong from the start.

**FileHandleProofs.** `BlocksInOnePlace` proves `NoBlockShared` from `MapInv`: the map and the
free blocks with their types, and every mapped block neither free nor mapped twice
(`Places`). One lemma covers all that a request for a block can return, a block found, a new
one, none, or a failure that loses one (`RequestKeepsPlaces`), another the release of any set
of file blocks of which some are lost (`ReleaseKeepsPlaces`). `WriteThrough` proves
`WriteThroughBetweenCalls` from `DepthInv`: while nothing was disturbed, the depth is 1 exactly
when the call is between the entering and the leaving line, and the locals have the fields that
place needs. The steps of the loops only move `at` (`GatherShape`, `TransferredShape`, ...).

`MapFitsSize`, `SuperblockKept` and `StepsAdvance` follow from `SizesInv`, which says, until a write begins past the end: every
position and size lies in the bounded range; a transfer stands where its gathered blocks end
(`PlaceOK`: positions are multiples of the block size, `At`, plus what is gathered); a write knows
how many blocks the file has, the larger of those it had and those the write has come past
(`WriteOK`); a truncation goes down from the size as it is (`CutOK`). While no change has failed the
map is exactly what the size needs, in the middle of calls too (`Exact`), and then, or with extents,
whatever a write has gathered is not block 0 (`Sheltered`, `Gathered`). None of these is inductive
alone: that a request is for a block the file has, or the next one, needs the place, that the
place is right needs the sizes. `Served` is what a request returns, `ReleaseIsFull` what a
truncation leaves, and each action is one lemma on top of them. `MapFitsSize` and `SuperblockKept` are
read off; `StepsAdvance` compares bytes left, then blocks before the next transfer
(`LessWork`). Products are linear only after `AtMono`, which is why a block's position is a name.

`ImplementsFile` is the refinement to `OpenFile`. It needs one more invariant, `BytesInv`, for as long as
the promises hold: the blocks gathered follow each other in the volume from the position of the handle
on, and the odd one is the next (`Lined`); a read lies in the file or began past its end, and a write
knows the size until it appends (`SeesOK`); a truncation leaves its handle where it was or at the new
end. `Content`, `Placed` and `Given` are the values of `OpenFile`'s variables, `OpenFileStep` its step. The
bytes of a part are then bytes of one run of blocks (`RunBytes`, `OverlayBytes`), so that a part read is
a part of the content (`PartRead`), and a part written overwrites the content at the position or extends
it (`PartWritten`): no two blocks of the file are the same, so no other byte changes. A piece cut off leaves the
bytes below the new end (`CutByte`). What a step appends, or moves no byte, is a stutter
(`ContentKept`): what is visible of a write under way is counted by the position, not by the size. Failed
steps that change the file end the promises, and so the obligation.

**ExtentsProofs.** `BlocksInOnePlace` and `TreeIsSearchTree` prove `EveryBlockInOnePlace` and `TreeShape` for any
size of the file, the volume and the nodes and any depth of the tree, from one invariant, `TreeInv`: until the first
named damage there is a bound `hi` on what each node may hold (`Order`: its entries are in order and end before it,
and the key of the next index above is not below it) such that the rest of `Whole` holds. `Low` is the other
side, that nothing below an index begins before its key; `Apart`, that no two entries have a block in common;
`Parted`, that the tree, the free blocks, the other files, the blocks of the new extent and the last new node share the
volume. Neither property is inductive alone. `TreeShape` is about an idle call, and inside one its parts fail by name: the
new nodes of a split hang in a chain (`RightOK`) that no index names until `LinkSplit`, the levels already split end at
the key that will separate the halves (`LeftOK`), the new extent belongs to the half it is then put into (`SideOK`); a removal
has emptied the node it stands on (`BareOf`) and has everything from its first block on behind it (`RemoveOK`). What keeps the two
halves of a node inside the bounds above is not in the tree at all, hence `hi`.

Each action has one lemma (`AppendKeeps`, `InLeafKeeps`, `SplitNodeKeeps`, `LinkSplitKeeps`, `GrowKeeps`,
`RemoveLeafKeeps`, `RemoveUpKeeps`, ...), and below them is what the operators do: a search ends on a path on which the block has its place
(`FindPath`), a node replaced by one with entries in the same bounds leaves a tree (`Replaced`), and
`SetFirst`, which carries a new first block up to the keys above as far as they are keys of the first entry, restores `Low` (`KeyedKeeps`). That is where the mutant of
the run breaks `TreeShape`: with one level of keys corrected, the level above it violates `Low`. A split that fails needs
most: its new nodes are freed while the entries moved into them are gone, and either they held none, the chain included, or the model
names the damage (`lost`). `PrependToCur` and `SplitAgain` leave only damaged trees (`shifted`, `wrapped`), and so need nothing.

**NamespaceProofs.** `IInv` has the types and, until the first damage, `Sound` and `CallOK`. `Sound` is
`NamesAndInodesAgree`; one entry for each directory, in the directory its `..` names; every directory
below the root; and the link counts. `Below` is stated by sets closed under `..`, so that a
move or a new directory is shown to keep it by giving the set. `CallOK` says of a recursive removal under way that
`..` leads from where it stands to its top in `depth - 1` records, none of them at the root, and that the name it was
called with is the top's. What a creation makes on its way is found along the path pass by pass (`ReachStep`). `EntriesNameInodes`, `TreeStaysOne`, `LinksAreNames` and `RemovalStaysBelow` follow.
Counting is by one lemma: a set with one element more or less has the next cardinality. Each call is
split by where it stops.

**JournalProofs.** `BuffersWaitedFor` proves `DirtyIsQueued` from `JournalInv`, which joins four tables that the code
keeps by hand: the record of a block lists exactly the transactions of the queue that still answer for
it and the open one if it has it, none younger than its owner (`RecOK`); a transaction of the queue
counts what it has written and what it still answers for (`IsTrans`), and the queue is in the order of
the numbers (`QueueOK`); a buffer is dirty for the open transaction if that has the block, and
otherwise for the owner, and the record still lists the owner (`BufOK`); the open transaction has each
block once, and as many of them in the log as its commit has come past (`CurrOK`). The property alone is not
inductive: that the transaction in a buffer's `end_write_arg` is still queued needs that nobody else's
end of write takes it out. `EndWriteEnds` says what `jbd_trans_end_write` does with its chain: it ends
transaction n for the block and, only if n owns it, all before n, and leaves what every other block waits
for alone, also when complete heads leave the queue on the way (`Popped`, `ShiftEnds`). A proof
that leaves out the test of the owner fails there, which is where the mutant of the run breaks the property. The
rest is one lemma for each action; `CommitBeginKeeps` is the one that drops blocks freed before the
commit (`FilterIs`).

**VolumesProofs.** No table is right alone: an object's number is the partition's unless the entries
before it are empty (`IdsOK`), a mount point is used for the partition of its number only (`SlotsOK`), and a
partition on the list has all four (`MountedOK`), which `ListOK` keeps along the loops of
`mountDrives` and `umountDrives`. `ListedIsUsable` and `DeviceStaysOpen` follow for every drive. The two action
properties need `Clean`, what holds while no transfer has failed: what is not mounted holds no object,
no registration and no reference. It holds on drives whose used entries are the first ones and all ext4
(`Contiguous`); on others the numbers differ and a mount is refused, the exception of section 4. So `UnmountReleases` and `MountsAll`
assume it.

Some of this is induction over data: that a sum exists and changes with its terms, that a path is reached
step by step, that a search comes to all groups. `tlapm` cannot instantiate the library's induction theorems,
which take an operator, so these proofs take a least counterexample out of a set of numbers (`Least`, from
`WFMin`) or have the predicate as a set of sets (`SubsetInduction`).

**Only model-checked:** the refinements `ImplementsMap`,
`ImplementsNameMap` and `ImplementsPromise`, and the invariants of `Directory`. The last are about sorted sequences of
sets and sums over record lists, the refinements about what a search in a whole tree or a recovery from a log of any length finds: within reach in
principle, by least counterexamples as above, but each is a development of its own. `SearchEnds` and the two `CallsReturn` are
liveness and out of the prover's reach.

## 6. Assumptions and what is left out

- A transfer that fails changes nothing on the device; one call's transfers fail independently.
- A block is one sector: the ratio of logical to physical blocks, and the byte-granular
  transfers of `ext4_block_readbytes`/`writebytes`, are not modelled.
- `blocks_per_group` is the number of bits of a bitmap block, as every formatter makes it;
  `ext4_balloc_free_blocks` uses the latter for the former.
- A goal one past the end of the volume may name a group that does not exist: its descriptor is
  read as zero.
- Inodes in use before a loss of power are not freed afterwards (that volume wants a check), and
  power is lost once per mount.
- `FileHandle`: files are whole at first (files with holes come from other systems only); path
  lookup, creation and the refusals of a read-only mount are left out, and so are calls that
  fail before they change anything, result codes, the levels of indirect blocks, the shape of
  the extent tree and its unwritten extents. Data read or written is a few values, and a freed
  block holds a value no file ever wrote.
- `lru_ctr` does not wrap (2^32 calls).
- `Extents`: `get_blocks` is asked for one block at a time and `remove_space` for everything from one
  block on, as their only callers do; the branches for other ranges are never taken. Which free block the
  allocator returns for a goal is the next one above it, or the first.
- `Namespace`: the lowest free inode is allocated. Attribute setters, readlink, the refusals of a
  read-only mount and handles of removed files are left out; so is write-back nesting, which `FileHandle`
  and `BlockCache` have.
- `Directory`: a hash is any even number given to a name, and a record's size any number of units.
  `ext4_dir_dx_split_index` takes the number of entries of a node without the tail that
  checksums need (`ext4_dir_idx.c:1087`), which only matters with them.
- `Journal`: transfers fail only where a commit takes a block of the log; a block is not used for
  data by the transaction that freed it; a transaction fits in the log (an assertion, compiled
  out). `jbd_trans_end_write` may write the journal's superblock several times in one chain; they are one.
- Checksums, and everything about the layout of structures on disk.
- `GIGAext4FS.cpp`'s `umountFS` and `register_all` have no caller.

**Not modelled.** Extended attributes (`ext4_xattr.c`), which nothing in the Arduino layer calls and
which are mostly layout; the formatter (`ext4_mkfs.c`), which computes a layout once on an unmounted
device; field accessors (`ext4_inode.c`, `ext4_super.c`, `ext4_types.h`), checksums and hash functions,
which are data without control of their own; the levels of indirect blocks, which only volumes
formatted as ext2 or ext3 have; the FAT side of `ext4IOUtility.cpp`; debug output and the example.

## 7. Plan

Done: all modules above. What would add most next, in this order:

1. The refinement of `BlockMap` by `Extents`, on top of `TreeInv`, and the proofs of `Directory` (the records fill
   their blocks).
2. `Directory` below `Namespace`: a refinement from directories of blocks to name tables, with the
   failures of one as those of the other.
3. `FileHandle` over `Extents`, for files with holes; the levels of indirect blocks as another
   implementation of `BlockMap`.
4. `ext4_xattr.c`'s shared blocks with their reference count; `ext4_mkfs.c`'s layout against the geometry
   `BlockAlloc` assumes.
