----------------------------- MODULE BlockCache -----------------------------
(***************************************************************************)
(* The buffer cache of one mounted volume: ext4_bcache.c and the part of   *)
(* ext4_blockdev.c that goes through it.                                   *)
(*                                                                         *)
(* Every entry point of the file system holds the mount point's lock while *)
(* it calls the cache, so one call is one action.  The device may fail any *)
(* transfer: each action says which of its transfers failed, and what the  *)
(* code leaves behind then.  A call that fails without touching the cache  *)
(* (EIO on a closed device, ENXIO past the last block) is no step.         *)
(*                                                                         *)
(* A buffer's place in lru_root is its reference count being zero, as the  *)
(* code inserts and removes it exactly there.  The dirty list is a set:    *)
(* the order in which it is walked is left open.                           *)
(***************************************************************************)
EXTENDS Integers, FiniteSets, FiniteSetsExt

CONSTANTS
    lg_bcnt,       \* logical blocks of the partition; block 0 is never cached
    Value,         \* contents of a block
    Garbage,       \* what ext4_malloc leaves in a new buffer
    cnt,           \* CONFIG_BLOCK_DEV_CACHE_SIZE, the buffers the cache aims at
    JournalBlock,  \* the blocks whose buffers ext4_journal.c flags
    MaxRefs,       \* bound: references held at once
    MaxWriteBack,  \* bound: nesting of write back mode
    MaxRange       \* bound: blocks invalidated at once

Block == 1 .. (lg_bcnt - 1)

ASSUME CacheAssumption ==
    /\ lg_bcnt \in Nat /\ cnt \in Nat \ {0}
    /\ JournalBlock \subseteq Block
    /\ Garbage \notin Value
    /\ {MaxRefs, MaxWriteBack, MaxRange} \subseteq Nat

VARIABLES
    bc,                \* struct ext4_bcache with its buffers
    disk,              \* the logical blocks on the device
    cache_write_back,  \* ext4_blockdev: depth of write back mode
    mounted,           \* a cache is bound to the open device
    io_error           \* history: a transfer has failed since the mount

vars == <<bc, disk, cache_write_back, mounted, io_error>>

Flag == {"UPTODATE", "DIRTY", "FLUSH", "TMP"}
Buffer == [refctr : Nat, lru_id : Nat, flags : SUBSET Flag,
           data : Value \cup {Garbage}]
NewBuf == [refctr |-> 0, lru_id |-> 0, flags |-> {}, data |-> Garbage]

Cache == [lba_root : SUBSET Block, buf : [Block -> Buffer],
          dirty_list : SUBSET Block, lru_ctr : Nat]
EmptyCache == [lba_root |-> {}, buf |-> [b \in Block |-> NewBuf],
               dirty_list |-> {}, lru_ctr |-> 0]

TypeOK ==
    /\ bc \in Cache
    /\ disk \in [Block -> Value]
    /\ cache_write_back \in Nat
    /\ mounted \in BOOLEAN
    /\ io_error \in BOOLEAN

-----------------------------------------------------------------------------
(* The cache's own functions, on a cache c.                                *)

lru_root(c) == {b \in c.lba_root : c.buf[b].refctr = 0}
Uptodate(c, b) == "UPTODATE" \in c.buf[b].flags
\* The references the callers hold; only the bound MaxRefs looks at it.
Held == MapThenSumSet(LAMBDA b : bc.buf[b].refctr, Block)
\* What ext4_block_flush_buf writes out.
Flushable(c, b) == {"UPTODATE", "DIRTY"} \subseteq c.buf[b].flags

is_full(c) == cnt <= Cardinality(c.lba_root)

\* Mutation: a buffer in use stays on the dirty list.
find_get_keeps_listed(c, b) ==
    IF c.buf[b].refctr = 0
    THEN [c EXCEPT !.buf[b] = [@ EXCEPT !.refctr = 1, !.lru_id = c.lru_ctr + 1],
                   !.lru_ctr = @ + 1]
    ELSE [c EXCEPT !.buf[b].refctr = @ + 1]
\* ext4_bcache_find_get on a cached block.
find_get(c, b) ==
    IF c.buf[b].refctr = 0
    THEN [c EXCEPT !.buf[b] = [@ EXCEPT !.refctr = 1, !.lru_id = c.lru_ctr + 1],
                   !.lru_ctr = @ + 1,
                   !.dirty_list = IF "DIRTY" \in c.buf[b].flags
                                  THEN @ \ {b} ELSE @]
    ELSE [c EXCEPT !.buf[b].refctr = @ + 1]

alloc(c, b) ==
    IF b \in c.lba_root
    THEN find_get(c, b)
    ELSE [c EXCEPT !.lba_root = @ \cup {b},
                   !.buf[b] = [NewBuf EXCEPT !.refctr = 1, !.lru_id = c.lru_ctr + 1],
                   !.lru_ctr = @ + 1]

\* ext4_bcache_drop_buf on each buffer of S.
drop_bufs(c, S) ==
    [c EXCEPT !.lba_root = @ \ S, !.dirty_list = @ \ S,
              !.buf = [b \in Block |-> IF b \in S THEN NewBuf ELSE c.buf[b]]]

\* Mutation: the buffers leave the dirty list and stay dirty.
invalidate_keeps_flags(c, S) == [c EXCEPT !.dirty_list = @ \ S]
\* ext4_bcache_invalidate_buf on each buffer of S.
invalidate_bufs(c, S) ==
    [c EXCEPT !.dirty_list = @ \ S,
              !.buf = [b \in Block |->
                         IF b \in S
                         THEN [c.buf[b] EXCEPT !.flags = @ \ {"UPTODATE", "DIRTY"}]
                         ELSE c.buf[b]]]

\* ext4_block_flush_buf on each buffer of S, all of them flushable, when the
\* device accepts the writes; the device then holds Written(c, S).
flush_bufs(c, S) ==
    [c EXCEPT !.dirty_list = @ \ S,
              !.buf = [b \in Block |->
                         IF b \in S THEN [c.buf[b] EXCEPT !.flags = @ \ {"DIRTY"}]
                         ELSE c.buf[b]]]
\* Mutation: the buffers are marked clean and nothing is written.
Written_nothing(c, S) == disk
Written(c, S) == [b \in Block |-> IF b \in S THEN c.buf[b].data ELSE disk[b]]

\* The last reference goes and the buffer is written at once: write through
\* mode, or a buffer flagged by the journal.
WritesOnFree(c, b) ==
    /\ c.buf[b].refctr = 1 /\ Flushable(c, b)
    /\ cache_write_back = 0 \/ c.buf[b].flags \cap {"FLUSH", "TMP"} # {}

\* Mutation: a dirty buffer is released and nobody is told to write it.
free_forgets_dirty(c, b, ok) ==
    LET rel == [c EXCEPT !.buf[b].refctr = @ - 1] IN
    IF c.buf[b].refctr = 1 /\ (~Uptodate(c, b) \/ "TMP" \in c.buf[b].flags)
    THEN drop_bufs(rel, {b}) ELSE rel
\* ext4_bcache_free.  ok is the outcome of the write, where there is one: it is
\* not reported to the caller, and a failed one leaves the buffer dirty, off
\* the dirty list.
free(c, b, ok) ==
    LET rel  == [c EXCEPT !.buf[b].refctr = @ - 1]
        last == c.buf[b].refctr = 1
        done == IF ~last \/ ~Flushable(c, b) THEN rel
                ELSE IF ~WritesOnFree(c, b)
                THEN [rel EXCEPT !.dirty_list = @ \cup {b}]
                ELSE [(IF ok THEN flush_bufs(rel, {b}) ELSE rel)
                        EXCEPT !.buf[b].flags = @ \ {"FLUSH"}]
    IN  IF last /\ (~Uptodate(c, b) \/ "TMP" \in c.buf[b].flags)
        THEN drop_bufs(done, {b}) ELSE done

FreeWritten(c, b, ok) ==
    Written(c, IF ok /\ WritesOnFree(c, b) THEN {b} ELSE {})

-----------------------------------------------------------------------------
(* ext4_block_cache_shake: while the cache is full, the unreferenced       *)
(* buffer with the lowest lru_id is flushed if dirty, then dropped.        *)

Oldest(n) ==
    {b \in lru_root(bc) :
        Cardinality({o \in lru_root(bc) : bc.buf[o].lru_id < bc.buf[b].lru_id}) < n}

\* The buffers a complete shake drops.
ShakeCount ==
    LET over == Cardinality(bc.lba_root) + 1 - cnt
        lru  == Cardinality(lru_root(bc))
    IN  IF ~is_full(bc) THEN 0 ELSE IF over < lru THEN over ELSE lru

Shaken(n) == drop_bufs(bc, Oldest(n))
\* Mutation: dirty buffers are evicted without being written.
ShakenDisk_drops(n) == disk
ShakenDisk(n) == Written(bc, {b \in Oldest(n) : Flushable(bc, b)})

Init ==
    /\ bc = EmptyCache
    /\ disk \in [Block -> Value]
    /\ cache_write_back = 0
    /\ mounted = FALSE
    /\ io_error = FALSE

\* ext4_mount binds an empty cache.  The depth of write back mode is the block
\* device's and outlives the mount.
Mount ==
    /\ ~mounted
    /\ mounted' = TRUE
    /\ bc' = EmptyCache
    /\ io_error' = FALSE
    /\ UNCHANGED <<disk, cache_write_back>>

\* A write fails in the middle of the shake: block_get fails with it, whatever
\* the block asked for.
GetShakeFails ==
    /\ mounted
    /\ \E n \in 0 .. (ShakeCount - 1) :
         /\ \E b \in Oldest(n + 1) \ Oldest(n) : Flushable(bc, b)
         /\ bc' = Shaken(n)
         /\ disk' = ShakenDisk(n)
    /\ io_error' = TRUE
    /\ UNCHANGED <<cache_write_back, mounted>>

\* ENOMEM: the shake is done, no buffer is added.
GetNoMemory(b) ==
    /\ mounted
    /\ b \notin Shaken(ShakeCount).lba_root
    /\ bc' = Shaken(ShakeCount)
    /\ disk' = ShakenDisk(ShakeCount)
    /\ UNCHANGED <<cache_write_back, mounted, io_error>>

\* ext4_block_get_noread.
GetNoread(b) ==
    /\ mounted /\ Held < MaxRefs
    /\ bc' = alloc(Shaken(ShakeCount), b)
    /\ disk' = ShakenDisk(ShakeCount)
    /\ UNCHANGED <<cache_write_back, mounted, io_error>>

\* The read into a buffer that is not up to date, from the device as the shake
\* leaves it.
Loaded(c, b) ==
    IF Uptodate(c, b) THEN c
    ELSE [c EXCEPT !.buf[b].data = ShakenDisk(ShakeCount)[b],
                   !.buf[b].flags = @ \cup {"UPTODATE"}]

\* ext4_block_get.
Get(b) ==
    /\ mounted /\ Held < MaxRefs
    /\ bc' = Loaded(alloc(Shaken(ShakeCount), b), b)
    /\ disk' = ShakenDisk(ShakeCount)
    /\ UNCHANGED <<cache_write_back, mounted, io_error>>

\* The read of ext4_block_get fails and the reference is given back.
GetReadFails(b) ==
    /\ mounted /\ Held < MaxRefs
    /\ LET c == alloc(Shaken(ShakeCount), b) IN
         /\ ~Uptodate(c, b)
         /\ bc' = free(c, b, TRUE)
    /\ disk' = ShakenDisk(ShakeCount)
    /\ io_error' = TRUE
    /\ UNCHANGED <<cache_write_back, mounted>>

\* The holder fills the block and calls ext4_trans_set_block_dirty.
SetBlockDirty(b, v) ==
    /\ mounted /\ bc.buf[b].refctr > 0
    /\ bc' = [bc EXCEPT !.buf[b].data = v,
                        !.buf[b].flags = @ \cup {"UPTODATE", "DIRTY"}]
    /\ UNCHANGED <<disk, cache_write_back, mounted, io_error>>

\* The journal asks for its buffer to be written on release, and for most to be
\* dropped then.
JbdSetFlags(b, F) ==
    /\ mounted /\ b \in JournalBlock /\ bc.buf[b].refctr > 0
    /\ bc' = [bc EXCEPT !.buf[b].flags = @ \cup F]
    /\ UNCHANGED <<disk, cache_write_back, mounted, io_error>>

\* ext4_block_set: the holder's reference is released.
Put(b, ok) ==
    /\ mounted /\ bc.buf[b].refctr > 0
    /\ ok \/ WritesOnFree(bc, b)
    /\ bc' = free(bc, b, ok)
    /\ disk' = FreeWritten(bc, b, ok)
    /\ io_error' = (io_error \/ ~ok)
    /\ UNCHANGED <<cache_write_back, mounted>>

\* The buffers ext4_bcache_invalidate_lba reaches: it walks lba_root from the
\* buffer of the first block, and there is no walk when that one is not cached.
InvalidRange(from, n) ==
    IF from \in bc.lba_root THEN bc.lba_root \cap (from .. (from + n - 1)) ELSE {}

Invalidate(from, n) ==
    /\ mounted
    /\ bc' = invalidate_bufs(bc, InvalidRange(from, n))
    /\ UNCHANGED <<disk, cache_write_back, mounted, io_error>>

\* ext4_block_flush_lba: the buffer is flushed under a reference of its own;
\* write through mode tries a failed write again when that is released.
FlushLba(b, ok, again) ==
    /\ mounted /\ b \in bc.lba_root /\ Held < MaxRefs
    /\ LET c == find_get(bc, b)
           S == IF ok /\ Flushable(c, b) THEN {b} ELSE {}
           f == flush_bufs(c, S)
       IN  /\ ok \/ Flushable(c, b)
           /\ again \/ WritesOnFree(f, b)
           /\ bc' = free(f, b, again)
           /\ disk' = Written(c, IF again /\ WritesOnFree(f, b) THEN {b} ELSE S)
    /\ io_error' = (io_error \/ ~ok \/ ~again)
    /\ UNCHANGED <<cache_write_back, mounted>>

\* ext4_block_cache_flush writes the buffers of the dirty list until it is
\* empty or a write fails.  S is what it wrote; EOK means all of the list.
CacheFlush(S) ==
    /\ mounted /\ S \subseteq bc.dirty_list
    /\ bc' = flush_bufs(bc, S)
    /\ disk' = Written(bc, S)
    /\ io_error' = (io_error \/ S # bc.dirty_list)
    /\ UNCHANGED <<cache_write_back, mounted>>

\* ext4_block_cache_write_back(bdev, 1).
WriteBackOn ==
    /\ mounted /\ cache_write_back < MaxWriteBack
    /\ cache_write_back' = cache_write_back + 1
    /\ UNCHANGED <<bc, disk, mounted, io_error>>

\* ext4_block_cache_write_back(bdev, 0): the last one to leave flushes, and so
\* does a call made in write through mode.
WriteBackOff(S) ==
    IF cache_write_back > 1
    THEN /\ mounted /\ S = {}
         /\ cache_write_back' = cache_write_back - 1
         /\ UNCHANGED <<bc, disk, mounted, io_error>>
    ELSE /\ mounted /\ S \subseteq bc.dirty_list
         /\ cache_write_back' = 0
         /\ bc' = flush_bufs(bc, S)
         /\ disk' = Written(bc, S)
         /\ io_error' = (io_error \/ S # bc.dirty_list)
         /\ UNCHANGED mounted

\* ext4_umount: ext4_bcache_cleanup tries to write every dirty buffer, drops
\* them all whatever the device says, then the cache is wiped.
Umount(S) ==
    /\ mounted /\ S \subseteq {b \in bc.lba_root : Flushable(bc, b)}
    /\ disk' = Written(bc, S)
    /\ bc' = EmptyCache
    /\ mounted' = FALSE
    /\ UNCHANGED <<cache_write_back, io_error>>

\* The board loses power: what was not written is gone.
PowerLoss ==
    /\ bc' = EmptyCache
    /\ mounted' = FALSE
    /\ cache_write_back' = 0
    /\ UNCHANGED <<disk, io_error>>

BlockOp(b) ==
    \/ GetNoMemory(b) \/ GetNoread(b) \/ Get(b) \/ GetReadFails(b)
    \/ \E v \in Value : SetBlockDirty(b, v)
    \/ \E F \in {{"FLUSH"}, {"FLUSH", "TMP"}} : JbdSetFlags(b, F)
    \/ \E ok \in BOOLEAN : Put(b, ok)
    \/ \E ok, again \in BOOLEAN : FlushLba(b, ok, again)
    \/ \E n \in 1 .. MaxRange : Invalidate(b, n)

CacheOp ==
    \/ GetShakeFails
    \/ \E S \in SUBSET Block : CacheFlush(S) \/ WriteBackOff(S) \/ Umount(S)
    \/ WriteBackOn

Next == Mount \/ PowerLoss \/ CacheOp \/ \E b \in Block : BlockOp(b)

Spec == Init /\ [][Next]_vars

-----------------------------------------------------------------------------
(* Properties.                                                             *)

\* The dirty list holds only unreferenced buffers that ext4_block_flush_buf
\* will write: if it held another, ext4_block_cache_flush would loop on it
\* forever, or write a block a holder is still changing.
DirtyListReady ==
    \A b \in bc.dirty_list : b \in lru_root(bc) /\ Flushable(bc, b)

\* A buffer that is up to date and not dirty holds what the device holds, so
\* dropping it (ext4_block_cache_shake, ext4_bcache_free) loses nothing.
CleanMatchesDisk ==
    \A b \in bc.lba_root :
        Uptodate(bc, b) /\ ~Flushable(bc, b) => bc.buf[b].data = disk[b]

\* While no transfer has failed, every unreferenced dirty buffer is on the
\* dirty list: ext4_block_cache_flush, which walks only that list, misses none.
DirtyTracked ==
    ~io_error => \A b \in lru_root(bc) : Flushable(bc, b) => b \in bc.dirty_list

\* While no transfer has failed, no change waits in the cache in write through
\* mode once its holder has released it: each is written when released, and
\* leaving write back mode writes those that were delayed.
WriteThroughWaitsForNothing ==
    ~io_error /\ cache_write_back = 0 =>
        \A b \in lru_root(bc) : ~Flushable(bc, b)

=============================================================================
