------------------------- MODULE VolumeBlocksProofs -------------------------
(***************************************************************************)
(* Proofs about BlockCache and VolumeBlocks, for every number of blocks,   *)
(* size of the cache and set of contents: first the cache by itself, then  *)
(* the cache of metadata and the direct transfers of file contents that    *)
(* share one device, under the condition that the code needs of the ranges *)
(* it frees and does not see to itself.                                    *)
(***************************************************************************)
EXTENDS VolumeBlocks, TLAPS

-----------------------------------------------------------------------------
(* The cache by itself: every call of BlockCache.                          *)

\* What holds of one block between any two calls: x is its buffer, in and
\* listed its membership of lba_root and of the dirty list, v what the device
\* holds.  It adds to the properties of BlockCache what makes them inductive: a
\* block that is not cached has no buffer, a dirty buffer is up to date, and
\* what is up to date is a real content.
BufOK(x, in, listed, v) ==
    /\ ~in => x = NewBuf
    /\ "DIRTY" \in x.flags => "UPTODATE" \in x.flags
    /\ "UPTODATE" \in x.flags => x.data \in Value
    /\ listed => in /\ x.refctr = 0 /\ "DIRTY" \in x.flags
    /\ "UPTODATE" \in x.flags /\ "DIRTY" \notin x.flags => x.data = v

Consistent(c, d) ==
    /\ c \in Cache /\ d \in [Block -> Value]
    /\ \A b \in Block : BufOK(c.buf[b], b \in c.lba_root, b \in c.dirty_list, d[b])

\* Every unreferenced dirty buffer is on the dirty list.
Tracked(c) ==
    \A b \in Block : /\ c.buf[b].refctr = 0 /\ "DIRTY" \in c.buf[b].flags
                     => b \in c.dirty_list

IInv ==
    /\ Consistent(bc, disk)
    /\ cache_write_back \in Nat /\ mounted \in BOOLEAN /\ io_error \in BOOLEAN
    /\ ~io_error => Tracked(bc)
    /\ ~io_error /\ cache_write_back = 0 => bc.dirty_list = {}

-----------------------------------------------------------------------------
(* The cache's functions preserve consistency.                             *)

\* What a new buffer holds.
LEMMA NewBufFields ==
  NewBuf.refctr = 0 /\ NewBuf.flags = {} /\ NewBuf \in Buffer
BY DEF NewBuf, Buffer

\* An empty cache is consistent with any device.
LEMMA EmptyConsistent ==
  ASSUME NEW d \in [Block -> Value]
  PROVE  Consistent(EmptyCache, d) /\ Tracked(EmptyCache) /\ EmptyCache.dirty_list = {}
BY DEF Consistent, BufOK, Tracked, EmptyCache, Cache, Buffer, NewBuf

\* Dropping buffers keeps a cache consistent, whatever became of their blocks.
LEMMA DropConsistent ==
  ASSUME NEW c, NEW d, NEW e \in [Block -> Value], NEW S \in SUBSET Block,
         Consistent(c, d), \A b \in Block \ S : e[b] = d[b]
  PROVE  /\ Consistent(drop_bufs(c, S), e)
         /\ Tracked(c) => Tracked(drop_bufs(c, S))
         /\ drop_bufs(c, S).dirty_list \subseteq c.dirty_list
<1> DEFINE r == drop_bufs(c, S)
<1>1. r \in Cache
  BY NewBufFields DEF Consistent, drop_bufs, Cache
<1>2. /\ r.lba_root = c.lba_root \ S
      /\ r.dirty_list = c.dirty_list \ S
      /\ \A b \in Block : r.buf[b] = IF b \in S THEN NewBuf ELSE c.buf[b]
  BY DEF Consistent, drop_bufs, Cache
<1> HIDE DEF r
<1>3. ASSUME NEW b \in Block
      PROVE  BufOK(r.buf[b], b \in r.lba_root, b \in r.dirty_list, e[b])
  <2>1. CASE b \in S
    BY <1>2, <2>1, NewBufFields DEF BufOK
  <2>2. CASE b \notin S
    BY <1>2, <2>2 DEF Consistent
  <2> QED BY <2>1, <2>2
<1>4. Tracked(c) => Tracked(r)
  BY <1>2, NewBufFields DEF Tracked
<1> QED BY <1>1, <1>2, <1>3, <1>4 DEF r, Consistent

\* Writing flushable buffers out keeps a cache consistent with the device.
LEMMA FlushConsistent ==
  ASSUME NEW c, NEW d, NEW S \in SUBSET Block, Consistent(c, d),
         \A b \in S : Flushable(c, b)
  PROVE  /\ Consistent(flush_bufs(c, S),
                       [b \in Block |-> IF b \in S THEN c.buf[b].data ELSE d[b]])
         /\ Tracked(c) => Tracked(flush_bufs(c, S))
         /\ flush_bufs(c, S).dirty_list = c.dirty_list \ S
<1> DEFINE r == flush_bufs(c, S)
           e == [b \in Block |-> IF b \in S THEN c.buf[b].data ELSE d[b]]
<1>1. r \in Cache
  BY DEF Consistent, flush_bufs, Cache, Buffer
<1>2. /\ r.lba_root = c.lba_root
      /\ r.dirty_list = c.dirty_list \ S
      /\ \A b \in Block : /\ r.buf[b].refctr = c.buf[b].refctr
                          /\ r.buf[b].data = c.buf[b].data
                          /\ b \notin S => r.buf[b] = c.buf[b]
                          /\ b \in S => r.buf[b].flags = c.buf[b].flags \ {"DIRTY"}
  BY DEF Consistent, flush_bufs, Cache, Buffer
<1>3. ASSUME NEW b \in S
      PROVE  b \in Block /\ b \in c.lba_root /\ "UPTODATE" \in c.buf[b].flags
             /\ c.buf[b].data \in Value
  BY <1>3, NewBufFields DEF Consistent, BufOK, Flushable
<1>4. /\ e \in [Block -> Value]
      /\ \A b \in Block : e[b] = IF b \in S THEN c.buf[b].data ELSE d[b]
  BY <1>3 DEF Consistent
<1> HIDE DEF r, e
<1>5. ASSUME NEW b \in Block
      PROVE  BufOK(r.buf[b], b \in r.lba_root, b \in r.dirty_list, e[b])
  <2>1. CASE b \in S
    BY <1>2, <1>3, <1>4, <2>1 DEF BufOK
  <2>2. CASE b \notin S
    BY <1>2, <1>4, <2>2 DEF Consistent
  <2> QED BY <2>1, <2>2
<1>6. Tracked(c) => Tracked(r)
  BY <1>2 DEF Tracked
<1> QED BY <1>1, <1>2, <1>4, <1>5, <1>6 DEF r, e, Consistent

\* A change to one buffer, its listing and its block keeps the rest consistent.
LEMMA OneBuffer ==
  ASSUME NEW c, NEW d, NEW r \in Cache, NEW e \in [Block -> Value],
         NEW b \in Block, Consistent(c, d),
         \A o \in Block \ {b} : /\ r.buf[o] = c.buf[o]
                                /\ o \in r.lba_root <=> o \in c.lba_root
                                /\ o \in r.dirty_list <=> o \in c.dirty_list
                                /\ e[o] = d[o],
         BufOK(r.buf[b], b \in r.lba_root, b \in r.dirty_list, e[b])
  PROVE  /\ Consistent(r, e)
         /\ /\ \A o \in Block \ {b} : /\ c.buf[o].refctr = 0
                                       /\ "DIRTY" \in c.buf[o].flags
                                       => o \in c.dirty_list
            /\ r.buf[b].refctr = 0 /\ "DIRTY" \in r.buf[b].flags => b \in r.dirty_list
            => Tracked(r)
<1>1. ASSUME NEW o \in Block
      PROVE  BufOK(r.buf[o], o \in r.lba_root, o \in r.dirty_list, e[o])
  <2>1. CASE o = b
    BY <2>1
  <2>2. CASE o # b
    <3>1. BufOK(c.buf[o], o \in c.lba_root, o \in c.dirty_list, d[o])
      BY DEF Consistent
    <3> QED BY <2>2, <3>1 DEF BufOK
  <2> QED BY <2>1, <2>2
<1> QED BY <1>1 DEF Consistent, Tracked

\* A buffer in use is cached and off the dirty list.
LEMMA InUse ==
  ASSUME NEW c, NEW d, NEW b \in Block, Consistent(c, d), c.buf[b].refctr > 0
  PROVE  b \in c.lba_root /\ b \notin c.dirty_list
<1>1. BufOK(c.buf[b], b \in c.lba_root, b \in c.dirty_list, d[b]) /\ c.buf[b] \in Buffer
  BY DEF Consistent, Cache
<1> QED BY <1>1, NewBufFields DEF BufOK

\* Taking a reference, on a cached block or a new buffer, keeps consistency.
LEMMA AllocConsistent ==
  ASSUME NEW c, NEW d, NEW b \in Block, Consistent(c, d)
  PROVE  /\ Consistent(alloc(c, b), d)
         /\ Tracked(c) => Tracked(alloc(c, b))
         /\ alloc(c, b).dirty_list \subseteq c.dirty_list
         /\ alloc(c, b).buf[b].refctr > 0
<1> DEFINE r == alloc(c, b)
<1>1. /\ c \in Cache /\ c.buf[b] \in Buffer /\ d \in [Block -> Value]
      /\ BufOK(c.buf[b], b \in c.lba_root, b \in c.dirty_list, d[b])
  BY DEF Consistent, Cache
<1>2. /\ r \in Cache
      /\ r.lba_root = c.lba_root \cup {b}
      /\ r.dirty_list \in SUBSET c.dirty_list
      /\ \A o \in Block \ {b} : r.buf[o] = c.buf[o]
                               /\ (o \in r.dirty_list <=> o \in c.dirty_list)
      /\ r.buf[b].refctr > 0
  <2>1. CASE b \notin c.lba_root
    <3> DEFINE x == [NewBuf EXCEPT !.refctr = 1, !.lru_id = c.lru_ctr + 1]
               f == [c.buf EXCEPT ![b] = x]
               L == c.lba_root \cup {b}
    <3>1. c.lru_ctr + 1 \in Nat /\ L \in SUBSET Block
      BY <1>1 DEF Cache
    <3>2. x \in Buffer /\ x.refctr = 1
      BY <3>1 DEF Buffer, NewBuf
    <3>3. f \in [Block -> Buffer] /\ f[b].refctr > 0
          /\ \A o \in Block \ {b} : f[o] = c.buf[o]
      BY <1>1, <3>2 DEF Cache
    <3>4. r = [c EXCEPT !.lba_root = L, !.buf = f, !.lru_ctr = c.lru_ctr + 1]
      BY <2>1 DEF alloc
    <3>5. /\ r.lba_root = L /\ r.buf = f /\ r.dirty_list = c.dirty_list
      BY <1>1, <3>4 DEF Cache
    <3>6. r \in Cache
      <4> HIDE DEF f, L
      <4> QED BY <1>1, <3>1, <3>3, <3>4 DEF Cache
    <3> QED BY <3>3, <3>5, <3>6
  <2>2. CASE b \in c.lba_root /\ c.buf[b].refctr = 0
    <3> DEFINE x == [c.buf[b] EXCEPT !.refctr = 1, !.lru_id = c.lru_ctr + 1]
               f == [c.buf EXCEPT ![b] = x]
               D == IF "DIRTY" \in c.buf[b].flags THEN c.dirty_list \ {b}
                    ELSE c.dirty_list
    <3>1. /\ c.lru_ctr + 1 \in Nat /\ D \in SUBSET Block
          /\ c.buf \in [Block -> Buffer] /\ x.refctr = 1
      BY <1>1 DEF Cache, Buffer
    <3>2. x \in Buffer
      BY <1>1, <3>1 DEF Buffer
    <3>3. f \in [Block -> Buffer] /\ f[b].refctr > 0
          /\ \A o \in Block \ {b} : f[o] = c.buf[o]
      BY <3>1, <3>2
    <3>4. r = [c EXCEPT !.buf = f, !.lru_ctr = c.lru_ctr + 1, !.dirty_list = D]
      BY <2>2 DEF alloc, find_get
    <3>5. /\ r.lba_root = c.lba_root \cup {b} /\ r.buf = f /\ r.dirty_list = D
      BY <1>1, <2>2, <3>4 DEF Cache
    <3>6. r \in Cache
      <4> HIDE DEF f, D
      <4> QED BY <1>1, <3>1, <3>3, <3>4 DEF Cache
    <3> QED BY <3>3, <3>5, <3>6
  <2>3. CASE b \in c.lba_root /\ c.buf[b].refctr # 0
    <3> DEFINE x == [c.buf[b] EXCEPT !.refctr = @ + 1]
               f == [c.buf EXCEPT ![b] = x]
    <3>1. c.buf \in [Block -> Buffer] /\ x \in Buffer /\ x.refctr > 0
      BY <1>1, <2>3 DEF Cache, Buffer
    <3>2. f \in [Block -> Buffer] /\ f[b].refctr > 0
          /\ \A o \in Block \ {b} : f[o] = c.buf[o]
      BY <3>1
    <3>3. r = [c EXCEPT !.buf = f]
      BY <2>3 DEF alloc, find_get
    <3>4. r \in Cache /\ r.lba_root = c.lba_root \cup {b} /\ r.buf = f
          /\ r.dirty_list = c.dirty_list
      BY <1>1, <2>3, <3>2, <3>3 DEF Cache
    <3> QED BY <3>2, <3>4
  <2> QED BY <2>1, <2>2, <2>3
<1>3. BufOK(r.buf[b], b \in r.lba_root, b \in r.dirty_list, d[b])
  <2>1. CASE b \notin c.lba_root
    <3>1. r.buf[b].flags = {} /\ b \notin r.dirty_list
      BY <1>1, <2>1 DEF alloc, Cache, NewBuf, BufOK
    <3> QED BY <1>2, <3>1 DEF BufOK
  <2>2. CASE b \in c.lba_root
    <3>1. /\ r.buf[b].flags = c.buf[b].flags /\ r.buf[b].data = c.buf[b].data
          /\ r.dirty_list = IF c.buf[b].refctr = 0 /\ "DIRTY" \in c.buf[b].flags
                            THEN c.dirty_list \ {b} ELSE c.dirty_list
      BY <1>1, <2>2 DEF alloc, find_get, Cache, Buffer
    <3> QED BY <1>1, <1>2, <2>2, <3>1 DEF BufOK
  <2> QED BY <2>1, <2>2
<1> HIDE DEF r
<1>4. Consistent(r, d) /\ (Tracked(c) => Tracked(r))
  <2>1. \A o \in Block \ {b} : o \in r.lba_root <=> o \in c.lba_root
    BY <1>2
  <2>2. ~(r.buf[b].refctr = 0)
    BY <1>2
  <2> QED BY <1>1, <1>2, <1>3, <2>1, <2>2, OneBuffer DEF Tracked
<1> QED BY <1>2, <1>4 DEF r

\* Releasing a reference keeps consistency, whatever becomes of the write, and
\* keeps the dirty buffers tracked unless the write fails.
LEMMA FreeConsistent ==
  ASSUME NEW c, NEW d, NEW b \in Block, NEW ok \in BOOLEAN,
         Consistent(c, d), c.buf[b].refctr > 0, cache_write_back \in Nat
  PROVE  /\ Consistent(free(c, b, ok),
                       IF ok /\ WritesOnFree(c, b)
                       THEN [o \in Block |-> IF o \in {b} THEN c.buf[o].data ELSE d[o]]
                       ELSE d)
         /\ Tracked(c) /\ (ok \/ ~WritesOnFree(c, b)) => Tracked(free(c, b, ok))
         /\ cache_write_back = 0 => free(c, b, ok).dirty_list \subseteq c.dirty_list
<1> DEFINE last == c.buf[b].refctr = 1
           rel  == [c EXCEPT !.buf[b].refctr = @ - 1]
           put  == IF ok THEN flush_bufs(rel, {b}) ELSE rel
           done == IF ~last \/ ~Flushable(c, b) THEN rel
                   ELSE IF ~WritesOnFree(c, b)
                   THEN [rel EXCEPT !.dirty_list = @ \cup {b}]
                   ELSE [put EXCEPT !.buf[b].flags = @ \ {"FLUSH"}]
           e    == IF ok /\ WritesOnFree(c, b)
                   THEN [o \in Block |-> IF o \in {b} THEN c.buf[o].data ELSE d[o]]
                   ELSE d
           Others(r) == \A o \in Block \ {b} :
                          /\ r.buf[o] = c.buf[o]
                          /\ o \in r.lba_root <=> o \in c.lba_root
                          /\ o \in r.dirty_list <=> o \in c.dirty_list
<1>1. /\ c \in Cache /\ c.buf[b] \in Buffer /\ d \in [Block -> Value]
      /\ BufOK(c.buf[b], b \in c.lba_root, b \in c.dirty_list, d[b])
      /\ b \in c.lba_root /\ b \notin c.dirty_list
  BY InUse DEF Consistent, Cache
<1>2. /\ rel \in Cache /\ Others(rel)
      /\ rel.lba_root = c.lba_root /\ rel.dirty_list = c.dirty_list
      /\ rel.buf[b].flags = c.buf[b].flags /\ rel.buf[b].data = c.buf[b].data
      /\ rel.buf[b].refctr = c.buf[b].refctr - 1
  <2> DEFINE x == [c.buf[b] EXCEPT !.refctr = @ - 1]
             f == [c.buf EXCEPT ![b] = x]
  <2>1. /\ c.buf \in [Block -> Buffer] /\ x \in Buffer
        /\ x.flags = c.buf[b].flags /\ x.data = c.buf[b].data
        /\ x.refctr = c.buf[b].refctr - 1
    BY <1>1 DEF Cache, Buffer
  <2>2. f \in [Block -> Buffer] /\ f[b] = x /\ \A o \in Block \ {b} : f[o] = c.buf[o]
    BY <2>1
  <2>3. rel = [c EXCEPT !.buf = f]
    OBVIOUS
  <2> QED BY <1>1, <2>1, <2>2, <2>3 DEF Cache
<1> HIDE DEF rel
<1>3. Consistent(rel, d)
  <2>1. BufOK(rel.buf[b], b \in rel.lba_root, b \in rel.dirty_list, d[b])
    BY <1>1, <1>2 DEF BufOK
  <2> QED BY <1>1, <1>2, <2>1, OneBuffer
<1>4. /\ e \in [Block -> Value] /\ \A o \in Block \ {b} : e[o] = d[o]
      /\ e[b] = IF ok /\ WritesOnFree(c, b) THEN c.buf[b].data ELSE d[b]
  <2>1. WritesOnFree(c, b) => c.buf[b].data \in Value
    BY <1>1 DEF WritesOnFree, Flushable, BufOK
  <2>2. CASE ok /\ WritesOnFree(c, b)
    <3>1. e = [o \in Block |-> IF o = b THEN c.buf[b].data ELSE d[o]]
      BY <2>2
    <3> QED BY <1>1, <2>1, <2>2, <3>1
  <2>3. CASE ~(ok /\ WritesOnFree(c, b))
    BY <1>1, <2>3
  <2> QED BY <2>2, <2>3
<1> HIDE DEF e
<1>5. /\ done \in Cache /\ Others(done)
      /\ BufOK(done.buf[b], b \in done.lba_root, b \in done.dirty_list, e[b])
      /\ ok \/ ~WritesOnFree(c, b) =>
           (done.buf[b].refctr = 0 /\ "DIRTY" \in done.buf[b].flags => b \in done.dirty_list)
      /\ cache_write_back = 0 => done.dirty_list \subseteq c.dirty_list
  <2>1. CASE ~last \/ ~Flushable(c, b)
    <3>1. done = rel /\ e[b] = d[b]
      BY <2>1, <1>4 DEF WritesOnFree
    <3>2. BufOK(rel.buf[b], b \in rel.lba_root, b \in rel.dirty_list, d[b])
      BY <1>1, <1>2 DEF BufOK
    <3>3. rel.buf[b].refctr = 0 => "DIRTY" \notin rel.buf[b].flags
      BY <1>1, <1>2, <2>1 DEF BufOK, Flushable, Buffer
    <3> QED BY <1>2, <3>1, <3>2, <3>3
  <2>2. CASE last /\ Flushable(c, b) /\ ~WritesOnFree(c, b)
    <3>1. done = [rel EXCEPT !.dirty_list = @ \cup {b}] /\ e[b] = d[b]
      BY <2>2, <1>4
    <3> HIDE DEF done
    <3>2. /\ done \in Cache /\ done.buf = rel.buf /\ done.lba_root = rel.lba_root
          /\ done.dirty_list = rel.dirty_list \cup {b}
      BY <1>2, <3>1 DEF Cache
    <3>3. BufOK(done.buf[b], b \in done.lba_root, b \in done.dirty_list, e[b])
      BY <1>1, <1>2, <2>2, <3>1, <3>2 DEF BufOK, Flushable
    <3>4. cache_write_back # 0
      BY <2>2 DEF WritesOnFree
    <3> QED BY <1>2, <3>2, <3>3, <3>4
  <2>3. CASE WritesOnFree(c, b)
    <3>1. last /\ Flushable(c, b) /\ Flushable(rel, b) /\ rel.buf[b].refctr = 0
      BY <1>2, <2>3 DEF WritesOnFree, Flushable
    <3>2. done = [put EXCEPT !.buf[b].flags = @ \ {"FLUSH"}]
      BY <2>3, <3>1
    <3>3. /\ put \in Cache /\ put.lba_root = rel.lba_root
          /\ put.dirty_list = rel.dirty_list \ {b}
          /\ \A o \in Block \ {b} : put.buf[o] = rel.buf[o]
          /\ put.buf[b].refctr = 0 /\ put.buf[b].data = rel.buf[b].data
          /\ put.buf[b].flags = rel.buf[b].flags \ (IF ok THEN {"DIRTY"} ELSE {})
      <4>1. CASE ok
        <5>1. flush_bufs(rel, {b}) \in Cache
          BY <1>3, <3>1, FlushConsistent DEF Consistent
        <5> QED BY <1>2, <3>1, <4>1, <5>1 DEF flush_bufs, Cache, Buffer
      <4>2. CASE ~ok
        BY <1>1, <1>2, <3>1, <4>2
      <4> QED BY <4>1, <4>2
    <3> HIDE DEF put
    <3>4. /\ done \in Cache /\ done.lba_root = put.lba_root
          /\ done.dirty_list = put.dirty_list
          /\ \A o \in Block \ {b} : done.buf[o] = put.buf[o]
          /\ done.buf[b].refctr = 0 /\ done.buf[b].data = put.buf[b].data
          /\ done.buf[b].flags = put.buf[b].flags \ {"FLUSH"}
      <4> DEFINE x == [put.buf[b] EXCEPT !.flags = @ \ {"FLUSH"}]
                 f == [put.buf EXCEPT ![b] = x]
      <4>1. /\ put.buf \in [Block -> Buffer] /\ x \in Buffer
            /\ x.flags = put.buf[b].flags \ {"FLUSH"} /\ x.data = put.buf[b].data
            /\ x.refctr = put.buf[b].refctr
        BY <3>3 DEF Cache, Buffer
      <4>2. f \in [Block -> Buffer] /\ f[b] = x
            /\ \A o \in Block \ {b} : f[o] = put.buf[o]
        BY <4>1
      <4>3. done = [put EXCEPT !.buf = f]
        BY <3>2
      <4> HIDE DEF done
      <4> QED BY <3>3, <4>1, <4>2, <4>3 DEF Cache
    <3> HIDE DEF done
    <3>5. BufOK(done.buf[b], b \in done.lba_root, b \in done.dirty_list, e[b])
      BY <1>1, <1>2, <1>4, <2>3, <3>1, <3>3, <3>4 DEF BufOK, Flushable
    <3>6. ok => "DIRTY" \notin done.buf[b].flags
      BY <3>3, <3>4
    <3> QED BY <1>2, <2>3, <3>3, <3>4, <3>5, <3>6
  <2> QED BY <2>1, <2>2, <2>3 DEF WritesOnFree
<1> DEFINE gone == last /\ (~Uptodate(c, b) \/ "TMP" \in c.buf[b].flags)
<1>6. free(c, b, ok) = IF gone THEN drop_bufs(done, {b}) ELSE done
  BY DEF free, rel
<1> HIDE DEF done
<1>7. /\ Consistent(done, e)
      /\ Tracked(c) /\ (ok \/ ~WritesOnFree(c, b)) => Tracked(done)
  BY <1>1, <1>4, <1>5, OneBuffer DEF Tracked
<1>8. /\ Consistent(drop_bufs(done, {b}), e)
      /\ Tracked(done) => Tracked(drop_bufs(done, {b}))
      /\ drop_bufs(done, {b}).dirty_list \subseteq done.dirty_list
  BY <1>4, <1>7, DropConsistent
<1> QED BY <1>5, <1>6, <1>7, <1>8 DEF e

\* A read into a buffer that is not up to date keeps consistency.
LEMMA LoadConsistent ==
  ASSUME NEW c, NEW d, NEW b \in Block, Consistent(c, d), b \in c.lba_root,
         c.buf[b].refctr > 0, d = ShakenDisk(ShakeCount)
  PROVE  /\ Consistent(Loaded(c, b), d)
         /\ Tracked(c) => Tracked(Loaded(c, b))
         /\ Loaded(c, b).dirty_list = c.dirty_list
<1>1. /\ c \in Cache /\ c.buf[b] \in Buffer /\ d \in [Block -> Value]
      /\ BufOK(c.buf[b], b \in c.lba_root, b \in c.dirty_list, d[b])
  BY DEF Consistent, Cache
<1>2. CASE Uptodate(c, b)
  BY <1>2 DEF Loaded
<1>3. CASE ~Uptodate(c, b)
  <2> DEFINE r == Loaded(c, b)
             x == [c.buf[b] EXCEPT !.data = d[b], !.flags = @ \cup {"UPTODATE"}]
             f == [c.buf EXCEPT ![b] = x]
  <2>1. /\ c.buf \in [Block -> Buffer] /\ x \in Buffer
        /\ x.flags = c.buf[b].flags \cup {"UPTODATE"} /\ x.data = d[b]
        /\ x.refctr = c.buf[b].refctr
    BY <1>1 DEF Cache, Buffer, Flag
  <2>2. f \in [Block -> Buffer] /\ f[b] = x /\ \A o \in Block \ {b} : f[o] = c.buf[o]
    BY <2>1
  <2>3. r = [c EXCEPT !.buf = f]
    BY <1>1, <1>3 DEF Loaded, Cache, Buffer
  <2> HIDE DEF r
  <2>4. /\ r \in Cache /\ r.lba_root = c.lba_root /\ r.dirty_list = c.dirty_list
        /\ r.buf = f
    BY <1>1, <2>2, <2>3 DEF Cache
  <2>5. BufOK(r.buf[b], b \in r.lba_root, b \in r.dirty_list, d[b])
    BY <1>1, <1>3, <2>1, <2>2, <2>4 DEF BufOK, Uptodate
  <2>6. r.buf[b].refctr > 0 /\ \A o \in Block \ {b} : r.buf[o] = c.buf[o]
    BY <2>1, <2>2, <2>4
  <2> HIDE DEF f, x
  <2>7. Consistent(r, d) /\ (Tracked(c) => Tracked(r))
    <3>1. ~(r.buf[b].refctr = 0)
      BY <2>6
    <3> QED BY <1>1, <2>4, <2>5, <2>6, <3>1, OneBuffer DEF Tracked
  <2> QED BY <2>4, <2>7 DEF r
<1> QED BY <1>2, <1>3

\* Invalidating buffers keeps consistency.
LEMMA InvalidateConsistent ==
  ASSUME NEW c, NEW d, NEW S \in SUBSET c.lba_root, Consistent(c, d)
  PROVE  /\ Consistent(invalidate_bufs(c, S), d)
         /\ Tracked(c) => Tracked(invalidate_bufs(c, S))
         /\ invalidate_bufs(c, S).dirty_list \subseteq c.dirty_list
<1> DEFINE r == invalidate_bufs(c, S)
<1>1. r \in Cache
  BY DEF Consistent, invalidate_bufs, Cache, Buffer
<1>2. /\ r.lba_root = c.lba_root
      /\ r.dirty_list = c.dirty_list \ S
      /\ \A b \in Block \ S : r.buf[b] = c.buf[b]
      /\ \A b \in S : r.buf[b].flags = c.buf[b].flags \ {"UPTODATE", "DIRTY"}
  BY DEF Consistent, invalidate_bufs, Cache, Buffer
<1> HIDE DEF r
<1>3. ASSUME NEW b \in Block
      PROVE  BufOK(r.buf[b], b \in r.lba_root, b \in r.dirty_list, d[b])
  <2>0. BufOK(c.buf[b], b \in c.lba_root, b \in c.dirty_list, d[b])
    BY DEF Consistent
  <2>1. CASE b \in S
    BY <1>2, <2>0, <2>1 DEF BufOK
  <2>2. CASE b \notin S
    BY <1>2, <2>0, <2>2 DEF BufOK
  <2> QED BY <2>1, <2>2
<1>4. Tracked(c) => Tracked(r)
  BY <1>2 DEF Tracked
<1> QED BY <1>1, <1>2, <1>3, <1>4 DEF r, Consistent

\* However far the shake gets, what it leaves is consistent.
LEMMA ShakeConsistent ==
  ASSUME NEW n, Consistent(bc, disk)
  PROVE  /\ Consistent(Shaken(n), ShakenDisk(n))
         /\ Tracked(bc) => Tracked(Shaken(n))
         /\ Shaken(n).dirty_list \subseteq bc.dirty_list
<1>1. Oldest(n) \in SUBSET Block
  BY DEF Oldest, lru_root, Consistent, Cache
<1>2. \A b \in Block : Flushable(bc, b) => bc.buf[b].data \in Value
  BY DEF Flushable, Consistent, BufOK
<1>3. /\ ShakenDisk(n) \in [Block -> Value]
      /\ \A b \in Block \ Oldest(n) : ShakenDisk(n)[b] = disk[b]
  BY <1>2 DEF ShakenDisk, Written, Consistent
<1> QED BY <1>1, <1>3, DropConsistent DEF Shaken

-----------------------------------------------------------------------------
(* Every action preserves IInv.                                            *)

\* The file system starts with an empty cache.
LEMMA InitIInv == Init => IInv
<1> SUFFICES ASSUME Init PROVE IInv
  OBVIOUS
<1>1. Consistent(bc, disk) /\ bc.dirty_list = {} /\ Tracked(bc)
  BY EmptyConsistent DEF Init
<1> QED BY <1>1 DEF Init, IInv

\* A shake stopped by a write error.
LEMMA ShakeFailsIInv == ASSUME IInv, GetShakeFails PROVE IInv'
<1>1. PICK n \in 0 .. (ShakeCount - 1) : bc' = Shaken(n) /\ disk' = ShakenDisk(n)
  BY DEF GetShakeFails
<1>2. Consistent(bc', disk')
  BY <1>1, ShakeConsistent DEF IInv
<1> QED BY <1>2 DEF GetShakeFails, IInv, Consistent

\* The actions that look a block up, after the shake.
LEMMA GetIInv ==
  ASSUME IInv, NEW b \in Block
  PROVE  GetNoMemory(b) \/ GetNoread(b) \/ Get(b) \/ GetReadFails(b)
           => IInv'
<1> DEFINE s == Shaken(ShakeCount)
           d == ShakenDisk(ShakeCount)
<1>1. /\ Consistent(s, d) /\ (Tracked(bc) => Tracked(s))
      /\ s.dirty_list \subseteq bc.dirty_list
  BY ShakeConsistent DEF IInv
<1> DEFINE a == alloc(s, b)
<1> HIDE DEF s, d
<1>2. /\ Consistent(a, d) /\ (Tracked(bc) => Tracked(a))
      /\ a.dirty_list \subseteq bc.dirty_list /\ a.buf[b].refctr > 0
  BY <1>1, AllocConsistent
<1> HIDE DEF a
<1>4. ASSUME GetNoMemory(b) PROVE IInv'
  BY <1>1, <1>4 DEF GetNoMemory, IInv, s, d, Consistent, Tracked
<1>5. ASSUME GetNoread(b) PROVE IInv'
  BY <1>2, <1>5 DEF GetNoread, IInv, s, d, a, Consistent, Tracked
<1>6. ASSUME Get(b) PROVE IInv'
  <2>1. b \in a.lba_root
    BY <1>2, InUse
  <2>2. /\ Consistent(Loaded(a, b), d) /\ (Tracked(a) => Tracked(Loaded(a, b)))
        /\ Loaded(a, b).dirty_list = a.dirty_list
    BY <1>2, <2>1, LoadConsistent DEF d
  <2> QED BY <1>2, <1>6, <2>2 DEF Get, IInv, s, d, a, Consistent, Tracked
<1>7. ASSUME GetReadFails(b) PROVE IInv'
  <2>1. ~WritesOnFree(a, b) /\ bc' = free(a, b, TRUE) /\ disk' = d /\ io_error' = TRUE
    BY <1>7 DEF GetReadFails, WritesOnFree, Flushable, Uptodate, s, d, a
  <2>2. Consistent(free(a, b, TRUE), d)
    BY <1>2, <2>1, FreeConsistent DEF IInv
  <2> QED BY <1>7, <2>1, <2>2 DEF GetReadFails, IInv, Consistent
<1> QED BY <1>4, <1>5, <1>6, <1>7

\* What a holder does with its block.
LEMMA HolderIInv ==
  ASSUME IInv, NEW b \in Block
  PROVE  \/ \E v \in Value : SetBlockDirty(b, v)
         \/ \E F \in {{"FLUSH"}, {"FLUSH", "TMP"}} : JbdSetFlags(b, F)
         \/ \E ok \in BOOLEAN : Put(b, ok)
         => IInv'
<1>1. /\ bc \in Cache /\ bc.buf[b] \in Buffer /\ disk \in [Block -> Value]
      /\ BufOK(bc.buf[b], b \in bc.lba_root, b \in bc.dirty_list, disk[b])
  BY DEF IInv, Consistent, Cache
<1>2. ASSUME NEW v \in Value, SetBlockDirty(b, v) PROVE IInv'
  <2> DEFINE x == [bc.buf[b] EXCEPT !.data = v, !.flags = @ \cup {"UPTODATE", "DIRTY"}]
             f == [bc.buf EXCEPT ![b] = x]
  <2>1. /\ bc.buf \in [Block -> Buffer] /\ x \in Buffer
        /\ x.flags = bc.buf[b].flags \cup {"UPTODATE", "DIRTY"} /\ x.data = v
        /\ x.refctr = bc.buf[b].refctr /\ x.refctr > 0
    BY <1>1, <1>2 DEF SetBlockDirty, Cache, Buffer, Flag
  <2>2. f \in [Block -> Buffer] /\ f[b] = x /\ \A o \in Block \ {b} : f[o] = bc.buf[o]
    BY <2>1
  <2>3. bc' = [bc EXCEPT !.buf = f]
    BY <1>1, <1>2 DEF SetBlockDirty, Cache, Buffer
  <2> HIDE DEF f, x
  <2>4. /\ bc' \in Cache /\ bc'.lba_root = bc.lba_root /\ bc'.dirty_list = bc.dirty_list
        /\ bc'.buf = f
    BY <1>1, <2>2, <2>3 DEF Cache
  <2>5. b \in bc.lba_root /\ b \notin bc.dirty_list
    BY <1>2, InUse DEF SetBlockDirty, IInv
  <2>6. BufOK(bc'.buf[b], b \in bc'.lba_root, b \in bc'.dirty_list, disk[b])
    BY <2>1, <2>2, <2>4, <2>5 DEF BufOK
  <2>7. ~(bc'.buf[b].refctr = 0) /\ \A o \in Block \ {b} : bc'.buf[o] = bc.buf[o]
    BY <2>1, <2>2, <2>4
  <2>8. Consistent(bc', disk) /\ (Tracked(bc) => Tracked(bc'))
    BY <1>1, <2>4, <2>6, <2>7, OneBuffer DEF Tracked, IInv
  <2> QED BY <1>2, <2>4, <2>8 DEF SetBlockDirty, IInv, Consistent, Tracked
<1>3. ASSUME NEW F \in {{"FLUSH"}, {"FLUSH", "TMP"}}, JbdSetFlags(b, F) PROVE IInv'
  <2> DEFINE x == [bc.buf[b] EXCEPT !.flags = @ \cup F]
             f == [bc.buf EXCEPT ![b] = x]
  <2>1. /\ bc.buf \in [Block -> Buffer] /\ x \in Buffer
        /\ x.flags = bc.buf[b].flags \cup F /\ x.data = bc.buf[b].data
        /\ x.refctr = bc.buf[b].refctr /\ x.refctr > 0
    BY <1>1, <1>3 DEF JbdSetFlags, Cache, Buffer, Flag
  <2>2. f \in [Block -> Buffer] /\ f[b] = x /\ \A o \in Block \ {b} : f[o] = bc.buf[o]
    BY <2>1
  <2>3. bc' = [bc EXCEPT !.buf = f]
    BY <1>3 DEF JbdSetFlags
  <2> HIDE DEF f, x
  <2>4. /\ bc' \in Cache /\ bc'.lba_root = bc.lba_root /\ bc'.dirty_list = bc.dirty_list
        /\ bc'.buf = f
    BY <1>1, <2>2, <2>3 DEF Cache
  <2>5. b \in bc.lba_root /\ b \notin bc.dirty_list
    BY <1>3, InUse DEF JbdSetFlags, IInv
  <2>6. BufOK(bc'.buf[b], b \in bc'.lba_root, b \in bc'.dirty_list, disk[b])
    BY <1>1, <2>1, <2>2, <2>4, <2>5 DEF BufOK
  <2>7. ~(bc'.buf[b].refctr = 0) /\ \A o \in Block \ {b} : bc'.buf[o] = bc.buf[o]
    BY <2>1, <2>2, <2>4
  <2>8. Consistent(bc', disk) /\ (Tracked(bc) => Tracked(bc'))
    BY <1>1, <2>4, <2>6, <2>7, OneBuffer DEF Tracked, IInv
  <2> QED BY <1>3, <2>4, <2>8 DEF JbdSetFlags, IInv, Consistent, Tracked
<1>4. ASSUME NEW ok \in BOOLEAN, Put(b, ok) PROVE IInv'
  <2>1. disk' = IF ok /\ WritesOnFree(bc, b)
                THEN [o \in Block |-> IF o \in {b} THEN bc.buf[o].data ELSE disk[o]]
                ELSE disk
    <3>1. disk = [o \in Block |-> disk[o]]
      BY <1>1
    <3> QED BY <1>4, <3>1 DEF Put, FreeWritten, Written
  <2>2. /\ Consistent(bc', disk')
        /\ Tracked(bc) /\ (ok \/ ~WritesOnFree(bc, b)) => Tracked(bc')
        /\ cache_write_back = 0 => bc'.dirty_list \subseteq bc.dirty_list
    BY <1>4, <2>1, FreeConsistent DEF Put, IInv
  <2> QED BY <1>4, <2>2 DEF Put, IInv, Consistent, Tracked
<1> QED BY <1>2, <1>3, <1>4

\* ext4_block_flush_lba.
LEMMA FlushLbaIInv ==
  ASSUME IInv, NEW b \in Block, NEW ok \in BOOLEAN, NEW again \in BOOLEAN,
         FlushLba(b, ok, again)
  PROVE  IInv'
<1> DEFINE c == find_get(bc, b)
           S == IF ok /\ Flushable(c, b) THEN {b} ELSE {}
           f == flush_bufs(c, S)
           e == [o \in Block |-> IF o \in S THEN c.buf[o].data ELSE disk[o]]
<1>1. /\ Consistent(c, disk) /\ (Tracked(bc) => Tracked(c))
      /\ c.dirty_list \subseteq bc.dirty_list /\ c.buf[b].refctr > 0
  <2>1. c = alloc(bc, b)
    BY DEF FlushLba, alloc
  <2> HIDE DEF c
  <2> QED BY <2>1, AllocConsistent DEF IInv
<1>2. /\ ok \/ Flushable(c, b)
      /\ again \/ WritesOnFree(f, b)
      /\ bc' = free(f, b, again)
      /\ disk' = Written(c, IF again /\ WritesOnFree(f, b) THEN {b} ELSE S)
      /\ io_error' = (io_error \/ ~ok \/ ~again)
      /\ UNCHANGED <<cache_write_back, mounted>>
  BY DEF FlushLba
<1> HIDE DEF c
<1>3. S \in SUBSET Block /\ \A o \in S : Flushable(c, o)
  OBVIOUS
<1>4. /\ Consistent(f, e) /\ (Tracked(c) => Tracked(f))
      /\ f.dirty_list = c.dirty_list \ S
  <2> HIDE DEF S
  <2> QED BY <1>1, <1>3, FlushConsistent
<1>5. /\ f.buf[b].refctr = c.buf[b].refctr /\ f.buf[b].data = c.buf[b].data
      /\ b \in S => "DIRTY" \notin f.buf[b].flags
  BY <1>1 DEF Consistent, Cache, Buffer, flush_bufs
<1>6. disk' = IF again /\ WritesOnFree(f, b)
              THEN [o \in Block |-> IF o \in {b} THEN f.buf[o].data ELSE e[o]]
              ELSE e
  <2>1. CASE again /\ WritesOnFree(f, b)
    <3>1. S = {}
      BY <1>5, <2>1 DEF WritesOnFree, Flushable
    <3>2. e = disk
      BY <1>1, <3>1 DEF Consistent
    <3> QED BY <1>2, <1>5, <2>1, <3>2 DEF Written
  <2>2. CASE ~(again /\ WritesOnFree(f, b))
    BY <1>2, <2>2 DEF Written
  <2> QED BY <2>1, <2>2
<1> HIDE DEF f, e, S
<1>7. /\ Consistent(bc', disk')
      /\ Tracked(f) /\ (again \/ ~WritesOnFree(f, b)) => Tracked(bc')
      /\ cache_write_back = 0 => bc'.dirty_list \subseteq f.dirty_list
  <2>1. f.buf[b].refctr > 0 /\ cache_write_back \in Nat
    BY <1>1, <1>5 DEF IInv
  <2> DEFINE g == IF again /\ WritesOnFree(f, b)
                  THEN [o \in Block |-> IF o \in {b} THEN f.buf[o].data ELSE e[o]]
                  ELSE e
  <2>2. /\ Consistent(free(f, b, again), g)
        /\ Tracked(f) /\ (again \/ ~WritesOnFree(f, b)) => Tracked(free(f, b, again))
        /\ cache_write_back = 0 => free(f, b, again).dirty_list \subseteq f.dirty_list
    BY <1>4, <2>1, FreeConsistent
  <2>3. disk' = g
    BY <1>6
  <2> HIDE DEF g
  <2> QED BY <1>2, <2>2, <2>3
<1> QED BY <1>1, <1>2, <1>4, <1>7 DEF IInv, Consistent, Tracked

\* The calls that write, forget or drop many buffers.
LEMMA CacheOpIInv ==
  ASSUME IInv
  PROVE  \/ \E S \in SUBSET Block : CacheFlush(S) \/ WriteBackOff(S) \/ Umount(S)
         \/ \E b \in Block : \E n \in 1 .. MaxRange : Invalidate(b, n)
         \/ WriteBackOn \/ Mount \/ PowerLoss
         => IInv'
<1>1. ASSUME NEW S \in SUBSET bc.dirty_list
      PROVE  /\ Consistent(flush_bufs(bc, S), Written(bc, S))
             /\ Tracked(bc) => Tracked(flush_bufs(bc, S))
             /\ flush_bufs(bc, S).dirty_list = bc.dirty_list \ S
  <2>1. /\ S \in SUBSET Block /\ Consistent(bc, disk)
        /\ \A b \in S : Flushable(bc, b)
    BY DEF IInv, Consistent, Cache, BufOK, Flushable
  <2> QED BY <2>1, FlushConsistent DEF Written
<1>2. ASSUME NEW S \in SUBSET Block, CacheFlush(S) PROVE IInv'
  BY <1>1, <1>2 DEF CacheFlush, IInv, Consistent, Tracked
<1>3. ASSUME NEW S \in SUBSET Block, WriteBackOff(S) PROVE IInv'
  <2>1. CASE cache_write_back > 1
    BY <1>3, <2>1 DEF WriteBackOff, IInv, Consistent, Tracked
  <2>2. CASE ~(cache_write_back > 1)
    <3>1. /\ S \subseteq bc.dirty_list /\ bc' = flush_bufs(bc, S)
          /\ disk' = Written(bc, S) /\ cache_write_back' = 0
          /\ io_error' = (io_error \/ S # bc.dirty_list) /\ mounted' = mounted
      BY <1>3, <2>2 DEF WriteBackOff
    <3>2. /\ Consistent(bc', disk') /\ (Tracked(bc) => Tracked(bc'))
          /\ bc'.dirty_list = bc.dirty_list \ S
      BY <1>1, <3>1
    <3> QED BY <3>1, <3>2 DEF IInv, Consistent, Tracked
  <2> QED BY <2>1, <2>2
<1>4. ASSUME NEW S \in SUBSET Block, Umount(S) PROVE IInv'
  <2>1. \A b \in S : bc.buf[b].data \in Value
    BY <1>4 DEF Umount, Flushable, IInv, Consistent, BufOK
  <2>2. disk' \in [Block -> Value] /\ bc' = EmptyCache
    BY <1>4, <2>1 DEF Umount, Written, IInv, Consistent
  <2>3. Consistent(bc', disk') /\ Tracked(bc') /\ bc'.dirty_list = {}
    BY <2>2, EmptyConsistent
  <2> QED BY <1>4, <2>3 DEF Umount, IInv, Consistent, Tracked
<1>5. ASSUME NEW b \in Block, NEW n \in 1 .. MaxRange, Invalidate(b, n) PROVE IInv'
  <2>1. InvalidRange(b, n) \in SUBSET bc.lba_root
    BY DEF InvalidRange
  <2>2. /\ Consistent(bc', disk) /\ (Tracked(bc) => Tracked(bc'))
        /\ bc'.dirty_list \subseteq bc.dirty_list
    BY <1>5, <2>1, InvalidateConsistent DEF Invalidate, IInv
  <2> QED BY <1>5, <2>2 DEF Invalidate, IInv, Consistent, Tracked
<1>6. ASSUME WriteBackOn PROVE IInv'
  BY <1>6 DEF WriteBackOn, IInv, Consistent, Tracked
<1>7. ASSUME Mount \/ PowerLoss PROVE IInv'
  <2>1. /\ bc' = EmptyCache /\ disk' = disk /\ cache_write_back' \in Nat
        /\ mounted' \in BOOLEAN /\ io_error' \in BOOLEAN
    <3>1. CASE Mount
      BY <3>1 DEF Mount, IInv
    <3>2. CASE PowerLoss
      BY <3>2 DEF PowerLoss, IInv
    <3> QED BY <1>7, <3>1, <3>2
  <2>2. Consistent(bc', disk') /\ Tracked(bc') /\ bc'.dirty_list = {}
    BY <2>1, EmptyConsistent DEF IInv, Consistent
  <2> QED BY <2>1, <2>2 DEF IInv, Consistent, Tracked
<1> QED BY <1>2, <1>3, <1>4, <1>5, <1>6, <1>7

\* Every call, every power loss and every stutter.
LEMMA StepIInv == IInv /\ [Next]_vars => IInv'
<1> SUFFICES ASSUME IInv, [Next]_vars PROVE IInv'
  OBVIOUS
<1>1. ASSUME NEW b \in Block, BlockOp(b) PROVE IInv'
  BY <1>1, GetIInv, HolderIInv, FlushLbaIInv, CacheOpIInv DEF BlockOp
<1>2. CASE UNCHANGED vars
  BY <1>2 DEF vars, IInv, Consistent, Tracked
<1> QED BY <1>1, <1>2, ShakeFailsIInv, CacheOpIInv DEF Next, CacheOp
-----------------------------------------------------------------------------
(* The theorems.                                                           *)

\* Between any two calls each buffer, its place on the dirty list and its block
\* on the device agree, whatever transfers have failed.
THEOREM Invariance == Spec => []IInv
BY InitIInv, StepIInv, PTL DEF Spec

\* The cache's fields keep their types; in particular the device never receives
\* the uninitialised bytes of a buffer taken with ext4_block_get_noread.
THEOREM TypeCorrect == Spec => []TypeOK
<1>1. IInv => TypeOK
  BY DEF IInv, Consistent, TypeOK
<1> QED BY <1>1, Invariance, PTL

\* ext4_block_cache_flush finds on the dirty list only released buffers that it
\* will write: it ends, and never writes a block that is being changed.
THEOREM DirtyListIsReady == Spec => []DirtyListReady
<1>1. IInv => DirtyListReady
  BY DEF IInv, Consistent, Cache, BufOK, DirtyListReady, lru_root, Flushable
<1> QED BY <1>1, Invariance, PTL

\* A buffer may be dropped without a write whenever it is not dirty.
THEOREM CleanIsOnDisk == Spec => []CleanMatchesDisk
<1>1. IInv => CleanMatchesDisk
  BY DEF IInv, Consistent, Cache, BufOK, CleanMatchesDisk, Uptodate, Flushable
<1> QED BY <1>1, Invariance, PTL

\* Until a transfer fails, ext4_block_cache_flush misses no released change.
THEOREM DirtyIsTracked == Spec => []DirtyTracked
<1>1. IInv => DirtyTracked
  BY DEF IInv, Consistent, Cache, Tracked, DirtyTracked, lru_root, Flushable
<1> QED BY <1>1, Invariance, PTL

\* Until a transfer fails, write through mode delays no write past the release
\* of its block.
THEOREM WriteThrough == Spec => []WriteThroughWaitsForNothing
<1>1. IInv => WriteThroughWaitsForNothing
  <2>1. IInv => DirtyTracked
    BY DEF IInv, Consistent, Cache, Tracked, DirtyTracked, lru_root, Flushable
  <2> QED BY <2>1 DEF IInv, DirtyTracked, WriteThroughWaitsForNothing
<1> QED BY <1>1, Invariance, PTL

-----------------------------------------------------------------------------
(* The cache and the direct transfers of one volume.                       *)

\* No buffer carries a flag of the journal.
Plain(c) == \A b \in Block : c.buf[b].flags \subseteq {"UPTODATE", "DIRTY"}

\* What is inductive: the cache is consistent with the device; only a block of
\* metadata has a buffer that is up to date, so no other is flushed or read from
\* the cache; and no block is taken before the volume is mounted.
VolumeInv ==
    /\ IInv
    /\ Plain(bc)
    /\ owner \in [Block -> {"free", "meta", "data"}]
    /\ \A b \in Block : Uptodate(bc, b) => owner[b] = "meta"
    /\ ~mounted => \A b \in Block : owner[b] = "free"

\* The walk of ext4_bcache_invalidate_lba reaches every buffer of the blocks that
\* are freed: it starts at the buffer of the first, or there is none at all.
WalkReaches ==
    \A b \in Block : \A n \in 1 .. MaxRange :
        FreeBlocks(b, n) => \/ n = 1 \/ b \in bc.lba_root
                            \/ bc.lba_root \cap (b .. (b + n - 1)) = {}

-----------------------------------------------------------------------------
(* What the cache's functions keep.                                        *)

\* What the cache c and the device d say of a block together.
Content(c, d, b) == IF Uptodate(c, b) THEN c.buf[b].data ELSE d[b]

\* From the cache c and the device d to r and e no block changes its content; a
\* block changes on the device only to what its buffer held; and only the
\* buffers of the blocks in G become up to date.
Keeps(c, d, r, e, G) ==
    \A b \in Block :
        /\ Content(r, e, b) = Content(c, d, b)
        /\ e[b] # d[b] => Uptodate(c, b) /\ e[b] = c.buf[b].data
        /\ Uptodate(r, b) => Uptodate(c, b) \/ b \in G

\* Evicting buffers, the dirty ones among them written first.
LEMMA DropKeeps ==
  ASSUME NEW c, NEW d, NEW S \in SUBSET Block, Consistent(c, d), Plain(c)
  PROVE  LET e == [b \in Block |-> IF b \in {o \in S : Flushable(c, o)}
                                   THEN c.buf[b].data ELSE d[b]]
         IN  Keeps(c, d, drop_bufs(c, S), e, {}) /\ Plain(drop_bufs(c, S))
<1> DEFINE e == [b \in Block |-> IF b \in {o \in S : Flushable(c, o)}
                                 THEN c.buf[b].data ELSE d[b]]
           r == drop_bufs(c, S)
<1> SUFFICES ASSUME NEW b \in Block
             PROVE  /\ Content(r, e, b) = Content(c, d, b)
                    /\ e[b] # d[b] => Uptodate(c, b) /\ e[b] = c.buf[b].data
                    /\ Uptodate(r, b) => Uptodate(c, b)
                    /\ r.buf[b].flags \subseteq {"UPTODATE", "DIRTY"}
  BY DEF Keeps, Plain
<1>1. c \in Cache /\ BufOK(c.buf[b], b \in c.lba_root, b \in c.dirty_list, d[b])
  BY DEF Consistent
<1>2. r.buf[b] = IF b \in S THEN NewBuf ELSE c.buf[b]
  BY <1>1 DEF drop_bufs, Cache
<1>3. e[b] = IF b \in S /\ Flushable(c, b) THEN c.buf[b].data ELSE d[b]
  OBVIOUS
<1> HIDE DEF r, e
<1> QED
  BY <1>1, <1>2, <1>3, NewBufFields DEF Content, Uptodate, Flushable, BufOK, Plain

\* Writing buffers that are dirty.
LEMMA FlushKeeps ==
  ASSUME NEW c, NEW d, NEW S \in SUBSET Block, Consistent(c, d), Plain(c),
         \A b \in S : Flushable(c, b)
  PROVE  LET e == [b \in Block |-> IF b \in S THEN c.buf[b].data ELSE d[b]]
         IN  Keeps(c, d, flush_bufs(c, S), e, {}) /\ Plain(flush_bufs(c, S))
<1> DEFINE e == [b \in Block |-> IF b \in S THEN c.buf[b].data ELSE d[b]]
           r == flush_bufs(c, S)
<1> SUFFICES ASSUME NEW b \in Block
             PROVE  /\ Content(r, e, b) = Content(c, d, b)
                    /\ e[b] # d[b] => Uptodate(c, b) /\ e[b] = c.buf[b].data
                    /\ Uptodate(r, b) => Uptodate(c, b)
                    /\ r.buf[b].flags \subseteq {"UPTODATE", "DIRTY"}
  BY DEF Keeps, Plain
<1>1. c \in Cache /\ c.buf[b] \in Buffer
  BY DEF Consistent, Cache
<1>2. r.buf[b] = IF b \in S THEN [c.buf[b] EXCEPT !.flags = @ \ {"DIRTY"}] ELSE c.buf[b]
  BY <1>1 DEF flush_bufs, Cache
<1>3. r.buf[b].data = c.buf[b].data
      /\ r.buf[b].flags = IF b \in S THEN c.buf[b].flags \ {"DIRTY"} ELSE c.buf[b].flags
  BY <1>1, <1>2 DEF Buffer
<1>4. e[b] = IF b \in S THEN c.buf[b].data ELSE d[b]
  OBVIOUS
<1> HIDE DEF r, e
<1> QED
  BY <1>1, <1>3, <1>4 DEF Content, Uptodate, Flushable, Plain

\* Taking a reference, with a new buffer if there was none.
LEMMA AllocKeeps ==
  ASSUME NEW c, NEW d, NEW b \in Block, Consistent(c, d), Plain(c)
  PROVE  Keeps(c, d, alloc(c, b), d, {}) /\ Plain(alloc(c, b))
<1> DEFINE r == alloc(c, b)
<1>1. c \in Cache /\ c.buf[b] \in Buffer
  BY DEF Consistent, Cache
<1>2. \A o \in Block \ {b} : r.buf[o] = c.buf[o]
  BY <1>1 DEF alloc, find_get, Cache
<1>3. b \in c.lba_root => r.buf[b].flags = c.buf[b].flags /\ r.buf[b].data = c.buf[b].data
  BY <1>1 DEF alloc, find_get, Cache, Buffer
<1>4. b \notin c.lba_root => r.buf[b].flags = {} /\ c.buf[b].flags = {}
  BY <1>1, NewBufFields DEF alloc, Cache, Buffer, NewBuf, Consistent, BufOK
<1> HIDE DEF r
<1> QED
  BY <1>2, <1>3, <1>4 DEF Keeps, Content, Uptodate, Plain, r

\* Giving a reference back; the last one may write the buffer, and drops it when
\* it holds nothing.
LEMMA FreeKeeps ==
  ASSUME NEW c, NEW d, NEW b \in Block, NEW ok \in BOOLEAN, Consistent(c, d), Plain(c)
  PROVE  LET e == IF ok /\ WritesOnFree(c, b)
                  THEN [o \in Block |-> IF o \in {b} THEN c.buf[o].data ELSE d[o]]
                  ELSE d
         IN  Keeps(c, d, free(c, b, ok), e, {}) /\ Plain(free(c, b, ok))
<1> DEFINE r == free(c, b, ok)
           e == IF ok /\ WritesOnFree(c, b)
                THEN [o \in Block |-> IF o \in {b} THEN c.buf[o].data ELSE d[o]]
                ELSE d
           F == c.buf[b].flags
           drops == c.buf[b].refctr = 1 /\ ~Uptodate(c, b)
           writes == ok /\ WritesOnFree(c, b)
<1>1. /\ c \in Cache /\ c.buf[b] \in Buffer /\ F \subseteq {"UPTODATE", "DIRTY"}
      /\ d \in [Block -> Value]
  BY DEF Consistent, Cache, Plain
<1>2. \A o \in Block \ {b} : r.buf[o] = c.buf[o]
  BY <1>1 DEF free, flush_bufs, drop_bufs, Cache
<1>3. CASE drops
  <2>1. r.buf[b] = NewBuf /\ ~writes
    BY <1>1, <1>3 DEF free, flush_bufs, drop_bufs, Cache, Buffer, WritesOnFree, Flushable, Uptodate
  <2> QED
    BY <1>1, <1>2, <1>3, <2>1, NewBufFields DEF Keeps, Content, Uptodate, Plain
<1>4. CASE ~drops
  <2>1. /\ r.buf[b].data = c.buf[b].data
        /\ r.buf[b].flags = IF writes THEN F \ {"DIRTY"} ELSE F
    <3> DEFINE x   == [c.buf[b] EXCEPT !.refctr = @ - 1]
               rel == [c EXCEPT !.buf[b].refctr = @ - 1]
               put == IF ok THEN flush_bufs(rel, {b}) ELSE rel
               y   == IF ok THEN [x EXCEPT !.flags = @ \ {"DIRTY"}] ELSE x
    <3>1. /\ rel.buf[b] = x /\ x.data = c.buf[b].data /\ x.flags = F
          /\ y.data = x.data /\ y.flags = IF ok THEN F \ {"DIRTY"} ELSE F
          /\ [y EXCEPT !.flags = @ \ {"FLUSH"}].data = y.data
          /\ [y EXCEPT !.flags = @ \ {"FLUSH"}].flags = y.flags \ {"FLUSH"}
      BY <1>1 DEF Cache, Buffer
    <3>2. put.buf[b] = y /\ [put EXCEPT !.buf[b].flags = @ \ {"FLUSH"}].buf[b]
                             = [y EXCEPT !.flags = @ \ {"FLUSH"}]
      BY <1>1, <3>1 DEF flush_bufs, Cache
    <3>3. r = IF ~(c.buf[b].refctr = 1) \/ ~Flushable(c, b) THEN rel
              ELSE IF ~WritesOnFree(c, b) THEN [rel EXCEPT !.dirty_list = @ \cup {b}]
              ELSE [put EXCEPT !.buf[b].flags = @ \ {"FLUSH"}]
      BY <1>1, <1>4 DEF free, Uptodate
    <3>4. [rel EXCEPT !.dirty_list = @ \cup {b}].buf = rel.buf
      OBVIOUS
    <3> HIDE DEF x, y, rel, put, r
    <3> QED
      BY <1>1, <3>1, <3>2, <3>3, <3>4 DEF WritesOnFree
  <2> QED
    BY <1>1, <1>2, <2>1 DEF Keeps, Content, Uptodate, Plain, WritesOnFree, Flushable
<1> QED
  BY <1>3, <1>4

\* Reading a block into its buffer.
LEMMA LoadKeeps ==
  ASSUME NEW c, NEW b \in Block, Consistent(c, ShakenDisk(ShakeCount)), Plain(c)
  PROVE  /\ Keeps(c, ShakenDisk(ShakeCount), Loaded(c, b), ShakenDisk(ShakeCount), {b})
         /\ Plain(Loaded(c, b))
<1> DEFINE d == ShakenDisk(ShakeCount)
           r == Loaded(c, b)
<1>1. c \in Cache /\ c.buf[b] \in Buffer
  BY DEF Consistent, Cache
<1>2. \A o \in Block \ {b} : r.buf[o] = c.buf[o]
  BY <1>1 DEF Loaded, Cache
<1>3. CASE Uptodate(c, b)
  BY <1>3 DEF Loaded, Keeps, Plain
<1>4. CASE ~Uptodate(c, b)
  <2>1. r.buf[b].data = d[b] /\ r.buf[b].flags = c.buf[b].flags \cup {"UPTODATE"}
    BY <1>1, <1>4 DEF Loaded, Cache, Buffer
  <2> HIDE DEF r, d
  <2> QED
    BY <1>2, <1>4, <2>1 DEF Keeps, Content, Uptodate, Plain, r, d
<1> QED
  BY <1>3, <1>4

\* Two steps of the cache after one another, the second without a write.
LEMMA KeepsThen ==
  ASSUME NEW c, NEW d, NEW s, NEW e, NEW r, NEW G,
         Keeps(c, d, s, e, {}), Keeps(s, e, r, e, G)
  PROVE  Keeps(c, d, r, e, G)
BY DEF Keeps

\* However far the shake gets.
LEMMA ShakeKeeps ==
  ASSUME NEW n, Consistent(bc, disk), Plain(bc)
  PROVE  Keeps(bc, disk, Shaken(n), ShakenDisk(n), {}) /\ Plain(Shaken(n))
<1>1. Oldest(n) \in SUBSET Block
  BY DEF Oldest, lru_root, Consistent, Cache
<1> QED
  BY <1>1, DropKeeps DEF Shaken, ShakenDisk, Written

-----------------------------------------------------------------------------
(* The steps.                                                              *)

\* What a reader finds in a block is its content, while it has an owner.
LEMMA ReadIsContent ==
  ASSUME VolumeInv, NEW b \in Block
  PROVE  Read(b) = IF owner[b] = "free" THEN Garbage ELSE Content(bc, disk, b)
BY DEF VolumeInv, Read, Content

\* A step of the cache that keeps every content is, below, the writing of blocks
\* of metadata.
LEMMA CacheStep ==
  ASSUME VolumeInv, IInv', Plain(bc'), owner' = owner, mounted' = mounted,
         NEW G \in SUBSET Block, \A b \in G : owner[b] = "meta",
         Keeps(bc, disk, bc', disk', G)
  PROVE  VolumeInv' /\ Store!Next
<1> DEFINE S == {b \in Block : disk'[b] # disk[b]}
<1>1. VolumeInv'
  BY DEF VolumeInv, Keeps
<1>2. \A b \in Block : Read(b)' = Read(b)
  BY <1>1, ReadIsContent DEF Keeps, VolumeInv, Read, Content
<1>3. [b \in Block |-> Read(b)]' = [b \in Block |-> Read(b)]
  BY <1>2
<1>4. \A b \in S : owner[b] = "meta" /\ disk'[b] = Read(b)
  BY DEF Keeps, VolumeInv, Read
<1>5. disk' = [b \in Block |-> IF b \in S THEN [o \in Block |-> Read(o)][b] ELSE disk[b]]
  <2>1. disk' = [b \in Block |-> disk'[b]]
    BY <1>1 DEF VolumeInv, IInv, Consistent
  <2>2. \A b \in Block : disk'[b] = IF b \in S THEN [o \in Block |-> Read(o)][b] ELSE disk[b]
    BY <1>4
  <2> QED
    BY <2>1, <2>2
<1>6. Store!Persist(S)
  <2> HIDE DEF S
  <2> QED
    BY <1>3, <1>4, <1>5 DEF Store!Persist
<1>7. S \in SUBSET Block
  OBVIOUS
<1> QED
  BY <1>1, <1>6, <1>7 DEF Store!Next

\* A call that looks a block of metadata up.
LEMMA GetStep ==
  ASSUME VolumeInv, NEW b \in Block, owner[b] = "meta", owner' = owner,
         GetNoMemory(b) \/ GetNoread(b) \/ Get(b) \/ GetReadFails(b)
  PROVE  VolumeInv' /\ Store!Next
<1> DEFINE s == Shaken(ShakeCount)
           d == ShakenDisk(ShakeCount)
           a == alloc(s, b)
<1>1. IInv /\ IInv' /\ Consistent(bc, disk) /\ Plain(bc)
  BY GetIInv DEF VolumeInv, IInv
<1>2. Consistent(s, d) /\ Keeps(bc, disk, s, d, {}) /\ Plain(s)
  BY <1>1, ShakeConsistent, ShakeKeeps
<1> HIDE DEF s, d
<1>3. Consistent(a, d) /\ Keeps(s, d, a, d, {}) /\ Plain(a) /\ a.buf[b].refctr > 0
  BY <1>2, AllocConsistent, AllocKeeps
<1>4. Keeps(bc, disk, a, d, {})
  BY <1>2, <1>3, KeepsThen
<1> HIDE DEF a
<1>5. CASE GetNoMemory(b)
  <2>1. bc' = s /\ disk' = d /\ mounted' = mounted
    BY <1>5 DEF GetNoMemory, s, d
  <2> QED
    BY <1>1, <1>2, <2>1, CacheStep
<1>6. CASE GetNoread(b)
  <2>1. bc' = a /\ disk' = d /\ mounted' = mounted
    BY <1>6 DEF GetNoread, s, d, a
  <2> QED
    BY <1>1, <1>3, <1>4, <2>1, CacheStep
<1>7. CASE Get(b)
  <2>1. bc' = Loaded(a, b) /\ disk' = d /\ mounted' = mounted
    BY <1>7 DEF Get, s, d, a
  <2>2. Keeps(a, d, Loaded(a, b), d, {b}) /\ Plain(Loaded(a, b))
    BY <1>3, LoadKeeps DEF d
  <2>3. Keeps(bc, disk, Loaded(a, b), d, {b})
    BY <1>4, <2>2, KeepsThen
  <2> QED
    BY <1>1, <2>1, <2>2, <2>3, CacheStep
<1>8. CASE GetReadFails(b)
  <2>1. ~Uptodate(a, b) /\ bc' = free(a, b, TRUE) /\ disk' = d /\ mounted' = mounted
    BY <1>8 DEF GetReadFails, s, d, a
  <2>2. ~WritesOnFree(a, b)
    BY <2>1 DEF WritesOnFree, Flushable, Uptodate
  <2>3. Keeps(a, d, free(a, b, TRUE), d, {}) /\ Plain(free(a, b, TRUE))
    BY <1>3, <2>2, FreeKeeps
  <2>4. Keeps(bc, disk, free(a, b, TRUE), d, {})
    BY <1>4, <2>3, KeepsThen
  <2>5. Keeps(bc, disk, bc', disk', {}) /\ Plain(bc') /\ mounted' = mounted
    BY <2>1, <2>3, <2>4
  <2> QED
    BY <1>1, <2>5, CacheStep
<1> QED
  BY <1>5, <1>6, <1>7, <1>8

\* A shake stopped by a write error.
LEMMA ShakeFailsStep ==
  ASSUME VolumeInv, owner' = owner, GetShakeFails
  PROVE  VolumeInv' /\ Store!Next
<1>1. IInv' /\ Consistent(bc, disk) /\ Plain(bc)
  BY ShakeFailsIInv DEF VolumeInv, IInv
<1>2. PICK n \in 0 .. (ShakeCount - 1) : bc' = Shaken(n) /\ disk' = ShakenDisk(n)
  BY DEF GetShakeFails
<1>3. Keeps(bc, disk, bc', disk', {}) /\ Plain(bc') /\ mounted' = mounted
  BY <1>1, <1>2, ShakeKeeps DEF GetShakeFails
<1> QED
  BY <1>1, <1>3, CacheStep

\* A reference is given back.
LEMMA ReleaseStep ==
  ASSUME VolumeInv, NEW b \in Block, owner' = owner, Release(b)
  PROVE  VolumeInv' /\ Store!Next
<1>1. PICK ok \in BOOLEAN : Put(b, ok)
  BY DEF Release
<1>2. IInv' /\ Consistent(bc, disk) /\ Plain(bc) /\ disk \in [Block -> Value]
  BY <1>1, HolderIInv DEF VolumeInv, IInv, Consistent
<1>3. disk' = IF ok /\ WritesOnFree(bc, b)
              THEN [o \in Block |-> IF o \in {b} THEN bc.buf[o].data ELSE disk[o]]
              ELSE disk
  <2>1. disk = [o \in Block |-> disk[o]]
    BY <1>2
  <2> QED
    BY <1>1, <2>1 DEF Put, FreeWritten, Written
<1>4. bc' = free(bc, b, ok) /\ mounted' = mounted
  BY <1>1 DEF Put
<1>5. Keeps(bc, disk, bc', disk', {}) /\ Plain(bc')
  BY <1>2, <1>3, <1>4, FreeKeeps
<1> QED
  BY <1>2, <1>4, <1>5, CacheStep

\* Buffers of the dirty list are written.
LEMMA FlushStep ==
  ASSUME VolumeInv, NEW S \in SUBSET bc.dirty_list, IInv', owner' = owner,
         mounted' = mounted, bc' = flush_bufs(bc, S), disk' = Written(bc, S)
  PROVE  VolumeInv' /\ Store!Next
<1>1. Consistent(bc, disk) /\ Plain(bc)
  BY DEF VolumeInv, IInv
<1>2. S \in SUBSET Block /\ \A o \in S : Flushable(bc, o)
  BY <1>1 DEF Consistent, Cache, BufOK, Flushable
<1>3. Keeps(bc, disk, bc', disk', {}) /\ Plain(bc')
  BY <1>1, <1>2, FlushKeeps DEF Written
<1> QED
  BY <1>3, CacheStep

\* The calls on the whole cache.
LEMMA CacheFlushStep ==
  ASSUME VolumeInv, owner' = owner, NEW S \in SUBSET Block, CacheFlush(S) \/ WriteBackOff(S)
  PROVE  VolumeInv' /\ [Store!Next]_(Store!vars)
<1>1. IInv'
  BY CacheOpIInv DEF VolumeInv
<1>2. CASE CacheFlush(S)
  BY <1>1, <1>2, FlushStep DEF CacheFlush
<1>3. CASE WriteBackOff(S) /\ ~(cache_write_back > 1)
  BY <1>1, <1>3, FlushStep DEF WriteBackOff
<1>4. CASE WriteBackOff(S) /\ cache_write_back > 1
  <2>1. UNCHANGED <<bc, disk, mounted, owner>>
    BY <1>4 DEF WriteBackOff
  <2> QED
    BY <1>1, <2>1 DEF VolumeInv, Plain, Uptodate, Store!vars, Read
<1> QED
  BY <1>2, <1>3, <1>4

LEMMA WriteBackOnStep ==
  ASSUME VolumeInv, owner' = owner, WriteBackOn
  PROVE  VolumeInv' /\ [Store!Next]_(Store!vars)
<1>1. IInv' /\ UNCHANGED <<bc, disk, mounted, owner>>
  BY CacheOpIInv DEF VolumeInv, WriteBackOn
<1> QED
  BY <1>1 DEF VolumeInv, Plain, Uptodate, Store!vars, Read

\* The volume is mounted once, before any block is taken.
LEMMA MountStep ==
  ASSUME VolumeInv, owner' = owner, Mount
  PROVE  VolumeInv' /\ UNCHANGED Store!vars
<1>1. IInv' /\ bc' = EmptyCache /\ disk' = disk /\ mounted'
  BY CacheOpIInv DEF VolumeInv, Mount
<1>2. \A b \in Block : owner[b] = "free"
  BY DEF VolumeInv, Mount
<1>3. \A b \in Block : EmptyCache.buf[b].flags = {}
  BY NewBufFields DEF EmptyCache
<1>4. VolumeInv'
  BY <1>1, <1>2, <1>3 DEF VolumeInv, Plain, Uptodate
<1>5. [b \in Block |-> Read(b)]' = [b \in Block |-> Read(b)]
  BY <1>2 DEF Read
<1> QED
  BY <1>1, <1>4, <1>5 DEF Store!vars

\* A holder changes its block of metadata.
LEMMA DirtyStep ==
  ASSUME VolumeInv, NEW b \in Block, NEW v \in Value, owner[b] = "meta",
         owner' = owner, SetBlockDirty(b, v)
  PROVE  VolumeInv' /\ Store!Next
<1>1. IInv' /\ bc \in Cache /\ bc.buf[b] \in Buffer /\ disk' = disk /\ mounted' = mounted
  BY HolderIInv DEF VolumeInv, IInv, Consistent, SetBlockDirty, Cache
<1>2. /\ bc'.buf[b].data = v
      /\ bc'.buf[b].flags = bc.buf[b].flags \cup {"UPTODATE", "DIRTY"}
      /\ \A o \in Block \ {b} : bc'.buf[o] = bc.buf[o]
  BY <1>1 DEF SetBlockDirty, Cache, Buffer
<1>3. VolumeInv'
  BY <1>1, <1>2 DEF VolumeInv, Plain, Uptodate
<1>4. \A o \in Block : Read(o)' = IF o = b THEN v ELSE Read(o)
  BY <1>1, <1>2 DEF Read, Uptodate, VolumeInv
<1>5. [o \in Block |-> Read(o)]' = [[o \in Block |-> Read(o)] EXCEPT ![b] = v]
  BY <1>4
<1>6. Store!WriteMeta(b, v)
  BY <1>1, <1>5 DEF Store!WriteMeta
<1> QED
  BY <1>3, <1>6 DEF Store!Next

-----------------------------------------------------------------------------
(* The steps that go past the cache.                                       *)

\* A block is taken: it has no buffer that is up to date, so its new owner reads
\* what the device holds.
LEMMA AllocBlockStep ==
  ASSUME VolumeInv, NEW b \in Block, NEW k \in {"meta", "data"}, AllocBlock(b, k)
  PROVE  VolumeInv' /\ Store!Next
<1>1. /\ UNCHANGED <<bc, disk, cache_write_back, mounted, io_error>> /\ mounted
      /\ owner[b] = "free" /\ owner' = [owner EXCEPT ![b] = k]
  BY DEF AllocBlock, vars
<1>2. IInv' /\ disk[b] \in Value /\ ~Uptodate(bc, b)
  BY <1>1 DEF VolumeInv, IInv, Consistent, Tracked
<1>3. VolumeInv'
  BY <1>1, <1>2 DEF VolumeInv, Plain, Uptodate
<1>4. \A o \in Block : Read(o)' = IF o = b THEN disk[b] ELSE Read(o)
  BY <1>1, <1>2 DEF Read, Uptodate, VolumeInv
<1>5. [o \in Block |-> Read(o)]' = [[o \in Block |-> Read(o)] EXCEPT ![b] = disk[b]]
  BY <1>4
<1>6. Store!Take(b, k)
  BY <1>1, <1>2, <1>5 DEF Store!Take
<1>7. k \in Store!Owner
  BY DEF Store!Owner
<1> QED
  BY <1>3, <1>6, <1>7 DEF Store!Next

\* The contents of a file are written straight to their block.
LEMMA WriteDataStep ==
  ASSUME VolumeInv, NEW b \in Block, NEW v \in Value, WriteData(b, v)
  PROVE  VolumeInv' /\ Store!Next
<1>1. /\ UNCHANGED <<bc, cache_write_back, mounted, io_error, owner>>
      /\ owner[b] = "data" /\ disk' = [disk EXCEPT ![b] = v]
      /\ disk \in [Block -> Value] /\ ~Uptodate(bc, b)
  BY DEF WriteData, VolumeInv, IInv, Consistent
<1>2. Consistent(bc', disk')
  <2>1. disk' \in [Block -> Value] /\ \A o \in Block : disk'[o] = IF o = b THEN v ELSE disk[o]
    BY <1>1
  <2>2. \A o \in Block : BufOK(bc.buf[o], o \in bc.lba_root, o \in bc.dirty_list, disk'[o])
    BY <1>1, <2>1 DEF VolumeInv, IInv, Consistent, BufOK, Uptodate
  <2> QED
    BY <1>1, <2>1, <2>2 DEF VolumeInv, IInv, Consistent
<1>3. VolumeInv'
  BY <1>1, <1>2 DEF VolumeInv, IInv, Tracked, Plain, Uptodate
<1>4. \A o \in Block : Read(o)' = IF o = b THEN v ELSE Read(o)
  BY <1>1 DEF Read, Uptodate, VolumeInv
<1>5. [o \in Block |-> Read(o)]' = [[o \in Block |-> Read(o)] EXCEPT ![b] = v]
  BY <1>4
<1>6. Store!WriteData(b, v)
  BY <1>1, <1>5 DEF Store!WriteData
<1> QED
  BY <1>3, <1>6 DEF Store!Next

\* Blocks are freed and the walk reaches their buffers.
LEMMA FreeBlocksStep ==
  ASSUME VolumeInv, NEW b \in Block, NEW n \in 1 .. MaxRange, FreeBlocks(b, n), WalkReaches
  PROVE  VolumeInv' /\ Store!Next
<1> DEFINE S == b .. (b + n - 1)
<1>1. /\ Invalidate(b, n) /\ S \in SUBSET Block
      /\ owner' = [o \in Block |-> IF o \in S THEN "free" ELSE owner[o]]
  BY DEF FreeBlocks
<1>2. /\ IInv' /\ bc \in Cache /\ UNCHANGED <<disk, mounted>> /\ mounted
      /\ bc' = invalidate_bufs(bc, InvalidRange(b, n))
      /\ \A o \in Block : BufOK(bc.buf[o], o \in bc.lba_root, o \in bc.dirty_list, disk[o])
  BY <1>1, CacheOpIInv DEF VolumeInv, IInv, Consistent, Invalidate
<1>3. InvalidRange(b, n) = bc.lba_root \cap S
  <2>1. CASE n = 1
    <3>1. S = {b}
      BY <2>1, CacheAssumption DEF Block
    <3> HIDE DEF S
    <3> QED
      BY <3>1 DEF InvalidRange, S
  <2>2. CASE n # 1
    BY <2>2 DEF WalkReaches, InvalidRange
  <2> QED
    BY <2>1, <2>2
<1> HIDE DEF S
<1>4. \A o \in Block \ S : bc'.buf[o] = bc.buf[o]
  BY <1>2, <1>3 DEF invalidate_bufs, Cache
<1>5. ASSUME NEW o \in S
      PROVE  bc'.buf[o].flags \subseteq {"UPTODATE", "DIRTY"} /\ ~Uptodate(bc, o)'
  <2>1. o \in Block /\ bc.buf[o] \in Buffer
    BY <1>1, <1>2 DEF Cache
  <2>2. CASE o \in bc.lba_root
    <3>1. bc'.buf[o].flags = bc.buf[o].flags \ {"UPTODATE", "DIRTY"}
      BY <1>2, <1>3, <2>1, <2>2 DEF invalidate_bufs, Cache, Buffer
    <3> QED
      BY <2>1, <3>1 DEF VolumeInv, Plain, Uptodate
  <2>3. CASE o \notin bc.lba_root
    <3>1. bc'.buf[o] = bc.buf[o] /\ bc.buf[o] = NewBuf
      BY <1>2, <1>3, <2>1, <2>3 DEF invalidate_bufs, Cache, BufOK
    <3> QED
      BY <3>1, NewBufFields DEF Uptodate
  <2> QED
    BY <2>2, <2>3
<1>6. VolumeInv'
  BY <1>1, <1>2, <1>4, <1>5 DEF VolumeInv, Plain, Uptodate
<1>7. \A o \in Block : Read(o)' = IF o \in S THEN Garbage ELSE Read(o)
  BY <1>1, <1>2, <1>4 DEF Read, Uptodate, VolumeInv
<1>8. [o \in Block |-> Read(o)]'
        = [o \in Block |-> IF o \in S THEN Garbage ELSE [p \in Block |-> Read(p)][o]]
  BY <1>7
<1>9. Store!Release(S)
  BY <1>1, <1>2, <1>8 DEF Store!Release
<1> QED
  BY <1>1, <1>6, <1>9 DEF Store!Next

-----------------------------------------------------------------------------
(* The theorems.                                                           *)

LEMMA VolumeInitInv == VolumeInit => VolumeInv /\ Store!Init
<1> SUFFICES ASSUME VolumeInit PROVE VolumeInv /\ Store!Init
  OBVIOUS
<1>1. IInv /\ bc = EmptyCache /\ disk \in [Block -> Value] /\ ~mounted
      /\ owner = [b \in Block |-> "free"]
  BY InitIInv DEF VolumeInit, Init
<1>2. \A b \in Block : EmptyCache.buf[b].flags = {}
  BY NewBufFields DEF EmptyCache
<1>3. VolumeInv
  BY <1>1, <1>2 DEF VolumeInv, Plain, Uptodate
<1>4. [b \in Block |-> Read(b)] = [b \in Block |-> Garbage]
  BY <1>1 DEF Read
<1> QED
  BY <1>1, <1>3, <1>4 DEF Store!Init

LEMMA VolumeStep ==
  ASSUME VolumeInv, [VolumeNext]_volumeVars, [WalkReaches]_volumeVars
  PROVE  VolumeInv' /\ [Store!Next]_(Store!vars)
<1>1. CASE UNCHANGED volumeVars
  <2>1. UNCHANGED <<bc, disk, cache_write_back, mounted, io_error, owner>>
    BY <1>1 DEF volumeVars
  <2> QED
    BY <2>1 DEF VolumeInv, IInv, Consistent, Tracked, Plain, Uptodate, Store!vars, Read
<1>2. ASSUME owner' = owner, NEW b \in Block, MetaOp(b) \/ Release(b)
      PROVE  VolumeInv' /\ Store!Next
  BY <1>2, GetStep, DirtyStep, ReleaseStep DEF MetaOp
<1>3. ASSUME owner' = owner,
             Mount \/ GetShakeFails \/ WriteBackOn
               \/ \E S \in SUBSET Block : CacheFlush(S) \/ WriteBackOff(S)
      PROVE  VolumeInv' /\ [Store!Next]_(Store!vars)
  BY <1>3, MountStep, ShakeFailsStep, WriteBackOnStep, CacheFlushStep
<1>4. ASSUME WalkReaches, NEW b \in Block, NEW n \in 1 .. MaxRange, FreeBlocks(b, n)
      PROVE  VolumeInv' /\ Store!Next
  BY <1>4, FreeBlocksStep
<1> QED
  BY <1>1, <1>2, <1>3, <1>4, AllocBlockStep, WriteDataStep DEF VolumeNext

\* As long as the walk reaches what is freed, only a block of metadata has
\* content in the cache.
LEMMA VolumeInvariance ==
  VolumeSpec /\ [][WalkReaches]_volumeVars => []VolumeInv
<1>1. VolumeInv /\ [VolumeNext]_volumeVars /\ [WalkReaches]_volumeVars => VolumeInv'
  BY VolumeStep
<1> QED
  BY <1>1, VolumeInitInv, PTL DEF VolumeSpec

\* No dirty buffer left from a block's former use is written over the contents
\* of a file, unless a range is freed whose first block alone is not cached.
THEOREM DataIsNotOverwritten ==
  VolumeSpec /\ [][WalkReaches]_volumeVars => []NoStaleDirtyOverData
<1>1. VolumeInv => NoStaleDirtyOverData
  BY DEF VolumeInv, NoStaleDirtyOverData, Flushable, Uptodate
<1> QED
  BY <1>1, VolumeInvariance, PTL

\* Under the same condition the cache and the direct transfers together are a
\* store of blocks: eviction, failed writes, releases in any order and the reuse
\* of blocks change no content.
THEOREM VolumeIsStore ==
  VolumeSpec /\ [][WalkReaches]_volumeVars => ImplementsStore
<1>1. VolumeInv /\ [VolumeNext]_volumeVars /\ [WalkReaches]_volumeVars
        => [Store!Next]_(Store!vars)
  BY VolumeStep
<1> QED
  BY <1>1, VolumeInitInv, VolumeInvariance, PTL
     DEF VolumeSpec, ImplementsStore, Store!Spec

\* Blocks that are freed one at a time meet the condition.
LEMMA OneAtATime == MaxRange = 1 => WalkReaches
BY DEF WalkReaches

\* Nothing more is asked when the blocks of a file are freed one at a time.
THEOREM FreedSingly ==
  ASSUME MaxRange = 1
  PROVE  VolumeSpec => []NoStaleDirtyOverData /\ ImplementsStore
<1>1. WalkReaches
  BY OneAtATime
<1>2. VolumeSpec => [][WalkReaches]_volumeVars
  BY <1>1, PTL
<1> QED
  BY <1>2, DataIsNotOverwritten, VolumeIsStore
=============================================================================
