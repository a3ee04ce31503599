------------------------------ MODULE Journal ------------------------------
(***************************************************************************)
(* The journal: ext4_journal.c, with the transactions that ext4.c opens    *)
(* and closes around each call.                                            *)
(*                                                                         *)
(* The volume has one block that says which of the others are in use, the  *)
(* bitmap, and those others, the pool.  A call that changes metadata goes  *)
(* through the cache and the journal; the contents of a file are written   *)
(* straight to their block.  What is on the device changes one block at a  *)
(* time, and the power may go between any two writes.                      *)
(*                                                                         *)
(* A block's content is named by the transaction that wrote it.  The cache *)
(* holds the blocks that are dirty; a clean one is the same as none.       *)
(***************************************************************************)
EXTENDS Integers, Sequences, SequencesExt, FiniteSets

CONSTANTS
    Bitmap,     \* the block that says what the others are used for
    Pool,       \* those others
    LogSize,    \* blocks of the log: maxlen - first
    FirstUses,  \* what a block of the pool may be used for at first
    MaxTrans,   \* bound: transactions begun
    MaxCrashes  \* bound: losses of power

Block == {Bitmap} \cup Pool
LogBlock == 1 .. LogSize

\* A transaction with every block, its descriptor, its revoke block and its commit
\* block leave one block of the log free: ext4_assert in jbd_journal_alloc_block.
ASSUME JournalAssumption ==
    /\ Bitmap \notin Pool /\ IsFiniteSet(Pool)
    /\ FirstUses \subseteq {"meta", "data", "free"}
    /\ LogSize \in Nat /\ MaxTrans \in Nat /\ MaxCrashes \in Nat
    /\ LogSize > Cardinality(Block) + 3

VARIABLES
    disk,       \* the blocks at home, on the device
    log,        \* the blocks of the log, on the device
    jsb,        \* the journal's superblock on the device: start and sequence
    status,     \* what the journal is doing
    jr,         \* struct jbd_journal: start, last, trans_id, alloc_trans_id
    cache,      \* the dirty buffers: contents and end_write_arg's transaction
    recs,       \* struct jbd_block_rec of each block: its owner, and the transactions
                \* of its dirty_buf_queue, whose order is that of their numbers
    queue,      \* cp_queue: committed transactions not yet home
    curr,       \* the open transaction, and where its commit is
    due,        \* the journal's superblock is about to be written
    undone,     \* writes that a recovery has still to do
    begun,      \* transactions begun so far
    crashes,    \* losses of power so far; only the bound looks at it
    damage      \* history: what the code has done to the promise

memory == <<jr, cache, recs, queue, curr, due>>
vars == <<disk, log, jsb, status, memory, undone, begun, crashes, damage>>

(* A volume whose journal has broken the promise is followed no further:   *)
(*   kept       an aborted change stays in the cache                       *)
(*   forgotten  an aborted call had freed a block, and the committed change *)
(*              that waited in its buffer is no longer seen                *)
(*   unrevoked  a block that is still in the log was freed and not revoked *)
(*   behind     the log was flushed for room and the superblock names a    *)
(*              start that is then written over                            *)
(*   stale      the numbers begin anew over a log with old records         *)
Damage == {"kept", "forgotten", "unrevoked", "behind", "stale"}

Use == {"meta", "data", "free"}
Clean == [arg |-> 0]
NoRec == [owner |-> 0, in |-> {}]
NoTrans == [pc |-> "none"]

After(t) == ((t.start - 1 + t.alloc) % LogSize) + 1
NextSlot(p) == (p % LogSize) + 1
Complete(t) == t.written = t.cnt

View == [x \in Block |-> IF cache[x] # Clean THEN cache[x].data ELSE disk[x]]

-----------------------------------------------------------------------------
(* Recovery.                                                               *)

\* jbd_iterate_log: the records from block p0 on, up to the first that is none or
\* has a number that is not expected, or all around.
Records(p0, id0) ==
    LET next(p) == IF log[p].kind = "desc"
                   THEN ((p + Len(log[p].tags)) % LogSize) + 1 ELSE NextSlot(p)
        walk[n \in 0 .. LogSize, p \in LogBlock, id \in Nat] ==
            IF n = 0 \/ log[p].kind \notin {"desc", "revoke", "commit"} \/ log[p].id # id
            THEN <<>>
            ELSE <<log[p] @@ [at |-> p]>> \o
                 IF next(p) = p0 THEN <<>>
                 ELSE walk[n - 1, next(p), IF log[p].kind = "commit" THEN id + 1 ELSE id]
    IN  walk[LogSize, p0, id0]

Committed(R) == Cardinality({i \in DOMAIN R : R[i].kind = "commit"})

\* Mutation: a revoked block is replayed from older transactions too.
Revoked_never(R, x, id, last) == FALSE
\* jbd_revoke_entry_lookup: a block revoked by this transaction or a later one, of
\* those that are committed.
Revoked(R, x, id, last) ==
    \E i \in DOMAIN R : R[i].kind = "revoke" /\ x \in R[i].blocks /\ R[i].id \in id .. last

\* The writes of ACTION_RECOVER, in their order, from the records R.
ReplaysOf(R) ==
    LET last == jsb.seq + Committed(R) - 1
        of(r) == IF r.kind # "desc" \/ r.id > last THEN <<>>
                 ELSE [k \in DOMAIN r.tags |->
                         [block |-> r.tags[k],
                          data  |-> log[((r.at - 1 + k) % LogSize) + 1].data,
                          skip  |-> Revoked(R, r.tags[k], r.id, last)]]
    IN  SelectSeq(FlattenSeq([i \in DOMAIN R |-> of(R[i])]), LAMBDA w : ~w.skip)
Replays ==
    IF jsb.start = 0 THEN <<>>
    ELSE CHOOSE W \in {ReplaysOf(R) : R \in {Records(jsb.start, jsb.seq)}} : TRUE

\* What a recovery from what is on the device now makes of the blocks.
Recovered ==
    FoldLeft(LAMBDA d, w : [d EXCEPT ![w.block] = w.data], disk, Replays)

LastId ==
    LET done == Committed(Records(jsb.start, jsb.seq)) IN
    IF done = 0 THEN jsb.seq ELSE jsb.seq + done - 1

\* ext4_recover, after a mount.
Recover ==
    /\ status = "down"
    /\ status' = IF jsb.start = 0 THEN "up" ELSE "replay"
    /\ undone' = Replays
    /\ UNCHANGED <<disk, log, jsb, memory, begun, damage>>

\* jbd_replay_block_tags, for one tag.
ReplayBlock ==
    /\ status = "replay" /\ undone # <<>>
    /\ disk' = [disk EXCEPT ![Head(undone).block] = Head(undone).data]
    /\ undone' = Tail(undone)
    /\ UNCHANGED <<log, jsb, status, memory, begun, damage>>

\* The replay has succeeded.
ReplayDone ==
    /\ status = "replay" /\ undone = <<>>
    /\ jsb' = [start |-> 0, seq |-> LastId]
    /\ status' = "up"
    /\ UNCHANGED <<disk, log, memory, undone, begun, damage>>

-----------------------------------------------------------------------------
(* Sessions.                                                               *)

Init ==
    /\ \E u \in [Pool -> FirstUses] :
         disk = [x \in Block |-> IF x = Bitmap THEN [by |-> 0, use |-> u] ELSE [by |-> 0]]
    /\ log = [p \in LogBlock |-> [kind |-> "none"]]
    /\ jsb = [start |-> 0, seq |-> 1]
    /\ status = "up"
    /\ jr = [start |-> 0, last |-> 0, id |-> 0, next |-> 0]
    /\ cache = [x \in Block |-> Clean]
    /\ recs = [x \in Block |-> NoRec]
    /\ queue = <<>> /\ curr = NoTrans /\ due = FALSE /\ undone = <<>>
    /\ begun = 0 /\ crashes = 0 /\ damage = {}

\* jbd_journal_start.  After jbd_journal_stop the numbers begin at 1 again, and the
\* records of the sessions before are still in the log.
JournalStart ==
    /\ status = "up"
    /\ jr' = [start |-> 1, last |-> 1, id |-> jsb.seq + 1, next |-> jsb.seq + 1]
    /\ jsb' = [start |-> 1, seq |-> jsb.seq + 1]
    /\ status' = "run"
    /\ damage' = IF jsb.seq = 0 /\ \E p \in LogBlock : log[p].kind # "none"
                 THEN {"stale"} ELSE {}
    /\ UNCHANGED <<disk, log, cache, recs, queue, curr, due, undone, begun>>

\* jbd_journal_stop, between calls: the checkpoint queue is flushed ...
JournalStop ==
    /\ status = "run" /\ curr = NoTrans /\ ~due
    /\ status' = "stopping"
    /\ UNCHANGED <<disk, log, jsb, memory, undone, begun, damage>>

\* ... and the journal is marked empty.
StopDone ==
    /\ status = "stopping" /\ queue = <<>> /\ ~due
    /\ jsb' = [start |-> 0, seq |-> 0]
    /\ status' = "up"
    /\ UNCHANGED <<disk, log, memory, undone, begun, damage>>

\* jbd_write_sb
WriteSb ==
    /\ due
    /\ jsb' = [start |-> jr.start, seq |-> jr.id]
    /\ due' = FALSE
    /\ UNCHANGED <<disk, log, status, jr, cache, recs, queue, curr, undone, begun, damage>>

\* The board loses its power.
PowerLoss ==
    /\ status # "down" /\ crashes < MaxCrashes
    /\ status' = "down"
    /\ cache' = [x \in Block |-> Clean]
    /\ recs' = [x \in Block |-> NoRec]
    /\ queue' = <<>> /\ curr' = NoTrans /\ due' = FALSE /\ undone' = <<>>
    /\ UNCHANGED <<disk, log, jsb, jr, begun, damage>>

-----------------------------------------------------------------------------
(* Calls: what the file system does between ext4_trans_start and           *)
(* ext4_trans_stop.                                                        *)

Running == status = "run" /\ ~due
Open == Running /\ curr.pc = "open"

\* __ext4_trans_start, jbd_journal_new_trans
Begin ==
    /\ Running /\ curr = NoTrans /\ begun < MaxTrans
    /\ begun' = begun + 1
    /\ curr' = [pc |-> "open", n |-> begun + 1, bufs |-> <<>>, revoked |-> {}, freed |-> {},
                id |-> 0, start |-> 0, alloc |-> 0, slot |-> 0, desc |-> 0, at |-> <<>>,
                last |-> 0, left |-> {}]
    /\ UNCHANGED <<disk, log, jsb, status, jr, cache, recs, queue, due, undone, damage>>

\* jbd_trans_set_block_dirty
InTrans(x) == cache[x].arg = curr.n
Joined(x) ==
    IF InTrans(x) THEN curr
    ELSE [curr EXCEPT !.bufs = <<x>> \o @, !.revoked = @ \ {x}]
Owned(x) ==
    IF InTrans(x) THEN recs
    ELSE [recs EXCEPT ![x] = [owner |-> curr.n, in |-> @.in \cup {curr.n}]]
NewBitmap(x, u) == [data |-> [by |-> curr.n, use |-> [View[Bitmap].use EXCEPT ![x] = u]],
                    arg  |-> curr.n]
NewBlock == [data |-> [by |-> curr.n], arg |-> curr.n]

\* A block of metadata changes.
Update(x) ==
    /\ Open /\ View[Bitmap].use[x] = "meta"
    /\ x \notin ToSet(curr.bufs)
    /\ cache' = [cache EXCEPT ![x] = NewBlock]
    /\ recs' = Owned(x)
    /\ curr' = Joined(x)
    /\ UNCHANGED <<disk, log, jsb, status, jr, queue, due, undone, begun, damage>>

\* A free block is taken for metadata.
AllocMeta(x) ==
    /\ Open /\ View[Bitmap].use[x] = "free" /\ x \notin ToSet(curr.bufs)
    /\ cache' = [cache EXCEPT ![Bitmap] = NewBitmap(x, "meta"), ![x] = NewBlock]
    /\ recs' = [Owned(Bitmap) EXCEPT ![x] = Owned(x)[x]]
    /\ curr' = [Joined(Bitmap) EXCEPT !.bufs = <<x>> \o @, !.revoked = @ \ {x}]
    /\ UNCHANGED <<disk, log, jsb, status, jr, queue, due, undone, begun, damage>>

\* A free block is taken for a file's contents, which are written at once.
AllocData(x) ==
    /\ Open /\ View[Bitmap].use[x] = "free" /\ x \notin curr.freed
    /\ cache' = [cache EXCEPT ![Bitmap] = NewBitmap(x, "data")]
    /\ recs' = Owned(Bitmap)
    /\ curr' = Joined(Bitmap)
    /\ disk' = [disk EXCEPT ![x] = [by |-> curr.n]]
    /\ UNCHANGED <<log, jsb, status, jr, queue, due, undone, begun, damage>>

\* jbd_trans_try_revoke_block: another transaction has the block last, or this one
\* has it and another has not yet written it home.
NeedsRevoke(x) ==
    recs[x].owner # 0 /\ (recs[x].owner = curr.n => recs[x].in \ {curr.n} # {})

\* A transaction on the checkpoint queue has the block in the log.
InLog(x) == \E i \in DOMAIN queue : queue[i].cnt > 0 /\ x \in ToSet(log[queue[i].start].tags)

\* ext4_balloc_free_blocks: the block is revoked and its buffer invalidated.  A
\* block that was home already when this transaction changed it is not revoked,
\* though it is still in the log.
FreeBlock(x) ==
    /\ Open /\ View[Bitmap].use[x] # "free"
    /\ cache' = [cache EXCEPT ![Bitmap] = NewBitmap(x, "free"), ![x] = Clean]
    /\ recs' = Owned(Bitmap)
    /\ curr' = [Joined(Bitmap) EXCEPT !.freed = @ \cup {x},
                   !.revoked = IF NeedsRevoke(x) THEN @ \cup {x} ELSE @]
    /\ damage' = IF recs[x].owner = curr.n /\ ~NeedsRevoke(x) /\ InLog(x)
                 THEN {"unrevoked"} ELSE {}
    /\ UNCHANGED <<disk, log, jsb, status, jr, queue, due, undone, begun>>

\* The last of a block's dirty_buf_queue.
LastOf(in) == CHOOSE k \in in : \A j \in in : j <= k
LogCopy(x, n) ==
    LET t == CHOOSE t \in ToSet(queue) : t.n = n IN log[t.at[x]].data

\* jbd_journal_free_trans(abort): the blocks go back to what the last committed
\* transaction has in the log.  One that no such transaction has keeps its new
\* contents in the cache; one that was only freed is read from home, where a
\* committed change may not have come yet.
GiveUp ==
    LET Bufs == ToSet(curr.bufs)
        older(x) == recs[x].in \ {curr.n}
    IN
    /\ cache' = [x \in Block |->
                   IF x \notin Bufs THEN cache[x]
                   ELSE IF older(x) = {} THEN Clean
                   ELSE [data |-> LogCopy(x, LastOf(older(x))), arg |-> LastOf(older(x))]]
    /\ recs' = [x \in Block |->
                  IF x \notin Bufs THEN recs[x]
                  ELSE IF older(x) = {} THEN NoRec
                  ELSE [owner |-> LastOf(older(x)), in |-> older(x)]]
    /\ curr' = NoTrans
    /\ damage' = (IF \E x \in Bufs : cache[x] # Clean /\ older(x) = {}
                  THEN {"kept"} ELSE {})
                 \cup (IF \E x \in curr.freed \ Bufs : cache[x] = Clean /\ recs[x].in # {}
                       THEN {"forgotten"} ELSE {})

\* __ext4_trans_abort
Abort ==
    /\ Open
    /\ GiveUp
    /\ UNCHANGED <<disk, log, jsb, status, jr, queue, due, undone, begun>>

-----------------------------------------------------------------------------
(* Checkpoint.  A buffer of a committed transaction reaches its home.      *)

mem == [queue |-> queue, recs |-> recs, jr |-> jr, due |-> due]
IsFirst(m, n) == m.queue # <<>> /\ Head(m.queue).n = n

\* The head of the queue is popped, and what is written behind it.
Shift(m) ==
    LET k    == Cardinality({i \in DOMAIN m.queue : \A j \in 1 .. i : Complete(m.queue[j])})
        gone == {m.queue[i].n : i \in 1 .. k}
        rest == SubSeq(m.queue, k + 1, Len(m.queue))
    IN  [queue |-> rest,
         recs  |-> [x \in Block |-> IF m.recs[x].owner \in gone THEN NoRec ELSE m.recs[x]],
         jr    |-> [m.jr EXCEPT
                      !.start = IF rest = <<>> THEN After(m.queue[k]) ELSE rest[1].start,
                      !.id    = IF rest = <<>> THEN m.queue[k].id + 1 ELSE rest[1].id],
         due   |-> TRUE]

\* Transaction n is done with block x.
EndOne(m, x, n, first) ==
    LET i == CHOOSE i \in DOMAIN m.queue : m.queue[i].n = n
        t == m.queue[i]
        u == [t EXCEPT !.written = @ + 1,
                       !.at = [y \in DOMAIN t.at \ {x} |-> t.at[y]]]
        w == [m EXCEPT !.queue[i] = u, !.recs[x].in = @ \ {n}]
    IN  IF first /\ Complete(u) THEN Shift(w) ELSE w

\* Mutation: whose the block is now is not asked.
EndWrite_anyone(m, x, n) ==
    LET others == {k \in m.recs[x].in \ {n} : \E i \in DOMAIN m.queue : m.queue[i].n = k}
        end[k \in 0 .. MaxTrans] ==
            IF k = 0 THEN m
            ELSE IF k \in others THEN EndOne(end[k - 1], x, k, IsFirst(end[k - 1], k))
            ELSE end[k - 1]
    IN  EndOne(end[MaxTrans], x, n, IsFirst(m, n))
\* jbd_trans_end_write: with it end the transactions before it that the block's
\* record still has, if the block is its own, the oldest first.  Whether n is first
\* was asked before they were popped.
EndWrite(m, x, n) ==
    LET older == IF m.recs[x].owner = n THEN m.recs[x].in \ {n} ELSE {}
        end[k \in 0 .. n] ==
            IF k = 0 THEN m
            ELSE IF k \in older THEN EndOne(end[k - 1], x, k, IsFirst(end[k - 1], k))
            ELSE end[k - 1]
    IN  EndOne(end[n], x, n, IsFirst(m, n))

Becomes(m) == queue' = m.queue /\ recs' = m.recs /\ jr' = m.jr /\ due' = m.due

Held(x) == curr # NoTrans /\ x \in ToSet(curr.bufs)

\* The cache writes a buffer that no call holds: ext4_block_flush_buf.
WriteHome(x) ==
    /\ status \in {"run", "stopping"} /\ ~due
    /\ cache[x] # Clean /\ ~Held(x)
    /\ disk' = [disk EXCEPT ![x] = cache[x].data]
    /\ cache' = [cache EXCEPT ![x] = Clean]
    /\ Becomes(EndWrite(mem, x, cache[x].arg))
    /\ UNCHANGED <<log, jsb, status, curr, undone, begun, damage>>

\* jbd_journal_alloc_block has taken the last block of the log.
MustFlush == curr # NoTrans /\ curr.pc # "open" /\ curr.alloc > 0 /\ jr.last = jr.start

\* jbd_journal_flush_trans, for one block of the first transaction: from the log,
\* unless its buffer is the transaction's own.
FlushHead(x) ==
    /\ MustFlush \/ status = "stopping"
    /\ ~due /\ queue # <<>> /\ ~Complete(Head(queue))
    /\ x \in DOMAIN Head(queue).at
    /\ cache[x] = Clean \/ recs[x].owner # Head(queue).n
    /\ disk' = [disk EXCEPT ![x] = log[Head(queue).at[x]].data]
    /\ Becomes(EndWrite(mem, x, Head(queue).n))
    /\ UNCHANGED <<log, jsb, status, cache, curr, undone, begun, damage>>

\* jbd_journal_purge_cp_trans finds the first transaction written already and pops
\* it.  The superblock on the device is not told; when the log is full the block
\* where it says that the log starts is the next one taken.
PopHead ==
    /\ MustFlush \/ status = "stopping"
    /\ ~due /\ queue # <<>> /\ Complete(Head(queue))
    /\ LET t == Head(queue) IN
         /\ queue' = Tail(queue)
         /\ recs' = [x \in Block |-> IF recs[x].owner = t.n THEN NoRec ELSE recs[x]]
         /\ jr' = [jr EXCEPT !.start = After(t), !.id = t.id + 1]
    /\ damage' = IF MustFlush THEN {"behind"} ELSE {}
    /\ UNCHANGED <<disk, log, jsb, status, cache, curr, due, undone, begun>>

-----------------------------------------------------------------------------
(* Commit: __jbd_journal_commit_trans.                                     *)

\* The buffers that are no longer dirty, because their blocks were freed, leave.
CommitBegin ==
    LET kept[k \in 0 .. Len(curr.bufs)] ==
            IF k = 0 THEN <<>>
            ELSE IF InTrans(curr.bufs[k]) THEN Append(kept[k - 1], curr.bufs[k])
            ELSE kept[k - 1]
        bufs == kept[Len(curr.bufs)]
        Gone == ToSet(curr.bufs) \ ToSet(bufs)
        older(x) == recs[x].in \ {curr.n}
    IN
    /\ Open
    /\ recs' = [x \in Block |->
                  IF x \notin Gone THEN recs[x]
                  ELSE IF older(x) = {} THEN NoRec
                  ELSE [owner |-> LastOf(older(x)), in |-> older(x)]]
    /\ curr' = IF bufs = <<>> /\ curr.revoked = {} THEN NoTrans
               ELSE [curr EXCEPT !.pc = IF bufs = <<>> THEN "revoke" ELSE "desc",
                                 !.bufs = bufs, !.id = jr.next, !.last = jr.last,
                                 !.left = curr.revoked]
    /\ UNCHANGED <<disk, log, jsb, status, jr, cache, queue, due, undone, begun, damage>>

At(pc) == Running /\ curr.pc = pc
\* The next block of the log is taken, and the flush for it done.
HasSlot(pc) == At(pc) /\ curr.slot # 0 /\ ~MustFlush

\* jbd_journal_alloc_block.  The first block is the descriptor's, which is filled in
\* memory ...
AllocSlot ==
    /\ Running /\ curr.pc \in {"desc", "data", "revoke", "commit"} /\ curr.slot = 0
    /\ ~MustFlush
    /\ curr' = IF curr.pc = "desc"
               THEN [curr EXCEPT !.pc = "data", !.desc = jr.last, !.start = jr.last,
                                 !.alloc = @ + 1]
               ELSE [curr EXCEPT !.slot = jr.last, !.alloc = @ + 1]
    /\ jr' = [jr EXCEPT !.last = NextSlot(@)]
    /\ UNCHANGED <<disk, log, jsb, status, cache, recs, queue, due, undone, begun, damage>>

\* ... while jbd_journal_prepare copies each buffer to the log ...
LogData ==
    /\ HasSlot("data")
    /\ LET k == Cardinality(DOMAIN curr.at) + 1
           x == curr.bufs[k]
       IN  /\ log' = [log EXCEPT ![curr.slot] = [kind |-> "data", data |-> cache[x].data]]
           /\ curr' = [curr EXCEPT !.at = [y \in DOMAIN @ \cup {x} |-> IF y = x THEN curr.slot ELSE @[y]],
                                   !.slot = 0,
                                   !.pc = IF k = Len(curr.bufs) THEN "tags" ELSE @]
    /\ UNCHANGED <<disk, jsb, status, jr, cache, recs, queue, due, undone, begun, damage>>

\* ... and written last.
LogDesc ==
    /\ At("tags")
    /\ log' = [log EXCEPT ![curr.desc] = [kind |-> "desc", id |-> curr.id, tags |-> curr.bufs]]
    /\ curr' = [curr EXCEPT !.pc = IF curr.revoked = {} THEN "commit" ELSE "revoke"]
    /\ UNCHANGED <<disk, jsb, status, jr, cache, recs, queue, due, undone, begun, damage>>

\* jbd_journal_prepare_revoke
LogRevoke ==
    /\ HasSlot("revoke")
    /\ log' = [log EXCEPT ![curr.slot] =
                  [kind |-> "revoke", id |-> curr.id, blocks |-> curr.revoked]]
    /\ curr' = [curr EXCEPT !.pc = "commit", !.slot = 0,
                            !.start = IF @ = 0 THEN curr.slot ELSE @]
    /\ UNCHANGED <<disk, jsb, status, jr, cache, recs, queue, due, undone, begun, damage>>

\* jbd_trans_write_commit_block
LogCommit ==
    /\ HasSlot("commit")
    /\ log' = [log EXCEPT ![curr.slot] = [kind |-> "commit", id |-> curr.id]]
    /\ jr' = [jr EXCEPT !.next = @ + 1]
    /\ curr' = [curr EXCEPT !.pc = "complete", !.slot = 0]
    /\ UNCHANGED <<disk, jsb, status, cache, recs, queue, due, undone, begun, damage>>

\* A block of the log cannot be had: the log's end goes back.
CommitFails ==
    /\ Running /\ curr.pc \in {"data", "revoke", "commit"}
    /\ curr.slot # 0 /\ ~MustFlush
    /\ GiveUp
    /\ jr' = [jr EXCEPT !.last = curr.last]
    /\ UNCHANGED <<disk, log, jsb, status, queue, due, undone, begun>>

\* What older transactions have of a revoked block need not come home.
FinishRevoked(x) ==
    /\ At("complete") /\ x \in curr.left
    /\ curr' = [curr EXCEPT !.left = @ \ {x}]
    /\ IF recs[x].in = {} THEN UNCHANGED <<queue, recs, jr, due>>
       ELSE Becomes(EndWrite(mem, x, LastOf(recs[x].in)))
    /\ UNCHANGED <<disk, log, jsb, status, cache, undone, begun, damage>>

\* The transaction joins the checkpoint queue; when it is the first, and has data,
\* the log on the device starts with it.
Enqueue ==
    LET t == [n |-> curr.n, id |-> curr.id, start |-> curr.start, alloc |-> curr.alloc,
              cnt |-> Len(curr.bufs), written |-> 0, at |-> curr.at]
    IN
    /\ At("complete") /\ curr.left = {}
    /\ curr' = NoTrans
    /\ IF queue # <<>> THEN queue' = Append(queue, t) /\ UNCHANGED <<jr, due>>
       ELSE IF t.cnt > 0
       THEN /\ queue' = <<t>> /\ due' = TRUE
            /\ jr' = [jr EXCEPT !.start = t.start, !.id = t.id]
       ELSE /\ jr' = [jr EXCEPT !.start = After(t), !.id = t.id + 1]
            /\ UNCHANGED <<queue, due>>
    /\ UNCHANGED <<disk, log, jsb, status, cache, recs, undone, begun, damage>>

-----------------------------------------------------------------------------
Call ==
    \/ Begin \/ Abort \/ CommitBegin
    \/ \E x \in Pool : Update(x) \/ AllocMeta(x) \/ AllocData(x) \/ FreeBlock(x)
    \/ JournalStart \/ JournalStop

\* What goes on by itself once a call has begun.
Step ==
    \/ Recover \/ ReplayBlock \/ ReplayDone
    \/ WriteSb \/ StopDone \/ PopHead
    \/ AllocSlot \/ LogData \/ LogDesc \/ LogRevoke \/ LogCommit
    \/ \E x \in Block : FinishRevoked(x) \/ FlushHead(x)
    \/ Enqueue

Next ==
    /\ damage = {}
    /\ \/ (Call \/ Step \/ CommitFails \/ \E x \in Block : WriteHome(x)) /\ UNCHANGED crashes
       \/ PowerLoss /\ crashes' = crashes + 1

Spec == Init /\ [][Next]_vars

-----------------------------------------------------------------------------
(* Properties.                                                             *)

TypeOK ==
    /\ status \in {"down", "replay", "up", "run", "stopping"}
    /\ jsb.start \in 0 .. LogSize /\ jsb.seq \in Nat
    /\ DOMAIN disk = Block /\ DOMAIN cache = Block /\ DOMAIN recs = Block
    /\ begun \in 0 .. MaxTrans /\ damage \subseteq Damage

\* A free block holds nothing that matters.
Nothing == [use |-> "free"]
InUse(f) ==
    LET masked(g) == [x \in Block |-> IF x \in Pool /\ g[Bitmap].use[x] = "free"
                                      THEN Nothing ELSE g[x]]
    IN  CHOOSE h \in {masked(g) : g \in {f}} : TRUE
Promise == INSTANCE AtomicStore WITH
    Content <- {Nothing} \cup [by : 0 .. MaxTrans] \cup [by : 0 .. MaxTrans, use : [Pool -> Use]],
    durable <- InUse(Recovered),
    view    <- IF status \in {"run", "stopping"} THEN InUse(View) ELSE InUse(Recovered),
    open    <- curr.pc \notin {"none", "complete"}

\* Whenever the power goes, a recovery brings back exactly the calls whose commit
\* block was written, each of them whole: no write to the log, to a block at home
\* or to the superblock, no checkpoint, no replay and no second loss of power
\* during one changes what a recovery would find.  Excepted are the steps that
\* Damage names.
ImplementsPromise ==
    Promise!Init /\ [][damage' # {} \/ Promise!Next]_<<Promise!vars>>

\* A buffer that is dirty and not the open transaction's is waited for by the
\* transaction it came with: its copy in the log is not overwritten before the
\* buffer is home.
DirtyIsQueued ==
    damage = {} =>
        \A x \in Block :
            cache[x] # Clean /\ ~Held(x) =>
                \E i \in DOMAIN queue :
                    queue[i].n = cache[x].arg /\ x \in DOMAIN queue[i].at

=============================================================================
