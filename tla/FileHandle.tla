----------------------------- MODULE FileHandle -----------------------------
(***************************************************************************)
(* One regular file opened through several handles: ext4_fopen2, ext4_fread,*)
(* ext4_fwrite, ext4_ftruncate, ext4_fseek and ext4_fclose (ext4.c), over   *)
(* the block mapping of ext4_fs.c and ext4_extent.c.  One call runs at a    *)
(* time (a sketch is one thread, and the mount's lock, where one is         *)
(* installed, does the same); inside a call the loops go step by step.      *)
(*                                                                         *)
(* The volume is block 0, which holds the superblock, and the blocks 1..NP. *)
(* The map of the inode is kept as the function it computes (direct         *)
(* references, or extents in the inode itself).  A transfer changes the     *)
(* bytes of the volume at once; the cache is VolumeBlocks' business.  A     *)
(* call that fails before it did anything is left out.                      *)
(***************************************************************************)
EXTENDS Integers, Sequences, FiniteSets

CONSTANTS
    Handle,     \* the open files of the program
    Mode,       \* how a file is opened: [wronly, trunc, append : BOOLEAN]
    BS,         \* bytes of a block
    NP,         \* blocks the volume can give to files
    FB,         \* bound: blocks of the longest file
    MaxTrunc,   \* CONFIG_MAX_TRUNCATE_SIZE
    Amount,     \* the sizes given to ext4_fread and ext4_fwrite
    Length,     \* the sizes given to ext4_ftruncate
    Offset,     \* the offsets given to ext4_fseek
    InitSize,   \* the sizes of the file at first
    MaxCalls,   \* bound: calls in a behaviour
    MaxErrors   \* bound: failed transfers in a behaviour

ASSUME SizesAssumption ==
    /\ BS \in Nat \ {0} /\ NP \in Nat /\ FB \in Nat /\ MaxTrunc \in Nat \ {0}
    /\ Amount \subseteq Nat \ {0} /\ Length \subseteq Nat /\ Offset \subseteq Int
    /\ InitSize \subseteq 0 .. (BS * NP) /\ NP <= FB

VARIABLES
    data,       \* the bytes of the volume
    free,       \* the blocks the allocator has
    inode,      \* [map, size, extents]
    file,       \* the ext4_file of each handle
    wb,         \* bdev->cache_write_back
    call,       \* the locals of the call under way
    taken,      \* the bytes the last ext4_fread has delivered
    calls, errors,  \* how many so far
    io_error,   \* a call that changes the file has failed
    nospace,    \* an ext4_fwrite has found the volume full
    beyond      \* an ext4_fwrite has begun past the end of the file

vars == <<data, free, inode, file, wb, call, taken, calls, errors,
          io_error, nospace, beyond>>

Phys == 1 .. NP
FileBlock == 0 .. (FB - 1)
MaxPos == FB * BS

\* Bytes: those of the first block, those left in a block that was freed, those
\* of the file at first, those of a buffer given to ext4_fwrite.
Super == 200
Stale == 100
Old(p) == 10 + p
Buf(j) == (calls + j) % 3

Least(m, n) == IF m <= n THEN m ELSE n
Blocks(n) == (n + BS - 1) \div BS

\* n bytes from byte off of block b on.
Bytes(b, off, n) ==
    [j \in 1 .. n |-> data[b + (off + j - 1) \div BS][(off + j - 1) % BS]]

\* The volume when n bytes of the buffer, from its byte k on, went there.
Overlay(b, off, n, k) ==
    [p \in 0 .. NP |-> [c \in 0 .. (BS - 1) |->
        LET j == (p - b) * BS + c - off
        IN  IF j \in 0 .. (n - 1) THEN Buf(k + j) ELSE data[p][c]]]

\* What is left in freed blocks is of no interest.
Wiped(S) == [p \in 0 .. NP |-> IF p \in S THEN [c \in 0 .. (BS - 1) |-> Stale]
                                          ELSE data[p]]

ClosedFile == [open |-> FALSE, wronly |-> FALSE, fpos |-> 0, fsize |-> 0]

OpenedFile(mode, size) ==
    [open |-> TRUE, wronly |-> mode.wronly,
     fpos |-> IF mode.append THEN size ELSE 0, fsize |-> size]

NoCall == [at |-> "idle"]

\* A whole file of some size, and handles just opened.
Init ==
    /\ \E size \in InitSize, extents \in BOOLEAN :
         \E map \in [FileBlock -> 0 .. NP] :
           /\ \A i \in FileBlock : map[i] # 0 <=> i < Blocks(size)
           /\ \A i, j \in FileBlock : map[i] = map[j] /\ map[i] # 0 => i = j
           /\ inode = [map |-> map, size |-> size, extents |-> extents]
    /\ free = Phys \ {inode.map[i] : i \in FileBlock}
    /\ data = [p \in 0 .. NP |-> [c \in 0 .. (BS - 1) |->
                 IF p = 0 THEN Super
                 ELSE IF p \in free THEN Stale
                 ELSE Old((CHOOSE i \in FileBlock : inode.map[i] = p) * BS + c)]]
    /\ file \in [Handle -> {ClosedFile} \cup {OpenedFile(m, inode.size) : m \in Mode}]
    /\ wb = 0 /\ call = NoCall /\ taken = <<>> /\ calls = 0 /\ errors = 0
    /\ io_error = FALSE /\ nospace = FALSE /\ beyond = FALSE

-----------------------------------------------------------------------------
(* The blocks of the inode.                                                *)

\* ext4_fs_get_inode_dblk_idx: an empty file maps every block to 0, which is
\* also what stands for a block that is not there.
Lookup(i) == IF inode.size = 0 THEN 0 ELSE inode.map[i]

EOK(b, i, map, fr, size) ==
    [r |-> "EOK", blk |-> b, idx |-> i, map |-> map, free |-> fr, size |-> size]

ENOSPC == [r |-> "ENOSPC", blk |-> 0, idx |-> 0, map |-> inode.map, free |-> free,
           size |-> inode.size]

\* A failed transfer; the block just allocated may be lost with it.
EIO == {[ENOSPC EXCEPT !.r = "EIO", !.free = fr] :
           fr \in {f \in {free} \cup {free \ {b} : b \in free} : errors < MaxErrors}}

\* Block i of the file gets a block of the volume.
Allocated(i, size) ==
    IF free = {} THEN {ENOSPC}
    ELSE {EOK(b, i, [inode.map EXCEPT ![i] = b], free \ {b}, size) : b \in free}

\* ext4_fs_init_inode_dblk_idx: only an inode with extents gets a block it lacks.
InitBlock(i) ==
    EIO \cup (IF inode.size > 0 /\ inode.extents /\ inode.map[i] = 0
              THEN Allocated(i, inode.size)
              ELSE {EOK(Lookup(i), i, inode.map, free, inode.size)})

\* ext4_fs_append_inode_dblk: the block after the last one the size counts.
AppendBlock ==
    LET i == Blocks(inode.size)
    IN  EIO \cup (IF inode.extents
                  THEN IF inode.map[i] # 0
                       THEN {EOK(inode.map[i], i, inode.map, free, inode.size + BS)}
                       ELSE Allocated(i, inode.size + BS)
                  ELSE Allocated(i, i * BS + BS))

\* Mutant: the block at the end of the file is taken for one it has.
BlockFor_one_more(c) == IF c.idx <= c.blocks THEN InitBlock(c.idx) ELSE AppendBlock

\* The block ext4_fwrite asks for: one the file has, or a new one.
BlockFor(c) == IF c.idx < c.blocks THEN InitBlock(c.idx) ELSE AppendBlock

\* What a block request leaves behind.
Requested(res) ==
    /\ free' = res.free
    /\ inode' = [inode EXCEPT !.map = res.map, !.size = res.size]
    /\ errors' = IF res.r = "EIO" THEN errors + 1 ELSE errors
    /\ io_error' = (io_error \/ res.r = "EIO")
    /\ nospace' = (nospace \/ res.r = "ENOSPC")

\* Mutant: blocks are gathered whether or not they follow each other.
Gather_any(c, b, i) ==
    [c EXCEPT !.start = IF @ = 0 THEN b ELSE @, !.fblk = b, !.idx = i + 1, !.count = @ + 1]

\* The inner loop of ext4_fread and ext4_fwrite: a block that follows those
\* gathered so far joins them, another one ends the transfer.
Gather(c, b, i) ==
    LET start == IF c.start = 0 THEN b ELSE c.start
        joins == start + c.count = b
    IN  [c EXCEPT !.start = start, !.fblk = b, !.idx = i + 1,
                  !.count = IF joins THEN @ + 1 ELSE @,
                  !.at = IF joins THEN "map" ELSE "xfer"]

\* The transfer is due: the gathered blocks end, or the whole blocks do.
Due(c) == c.at = "xfer" \/ (c.at = "map" /\ c.idx >= c.last)

\* Where a call with n bytes left goes on.
NextPart(n, end) == IF n >= BS THEN "map" ELSE IF n > 0 THEN "tail" ELSE end

\* k bytes were transferred.
Moved(c, k) == [c EXCEPT !.left = @ - k, !.got = @ + k]

\* Mutant: the odd block does not count for the next transfer.
Transferred_none(c, end) ==
    LET d == Moved(c, BS * c.count)
    IN  [d EXCEPT !.start = c.fblk, !.count = 0, !.at = NextPart(d.left, end)]

\* The gathered blocks were transferred; the odd one starts the next transfer.
Transferred(c, end) ==
    LET d == Moved(c, BS * c.count)
    IN  [d EXCEPT !.start = c.fblk, !.count = 1, !.at = NextPart(d.left, end)]

\* The part before the first block boundary was transferred.
HeadMoved(c, k, end) ==
    LET d == Moved(c, k)
    IN  [d EXCEPT !.idx = @ + 1, !.at = NextPart(d.left, end)]

-----------------------------------------------------------------------------
(* Calls.                                                                  *)

Begin(h) ==
    /\ call.at = "idle" /\ calls < MaxCalls
    /\ calls' = calls + 1

In(op, at) == call.at = at /\ call.op = op

\* Locals of ext4_fread and ext4_fwrite at their start.
Locals(op, h, n, blocks, end) ==
    LET p == file[h].fpos
    IN  [op |-> op, h |-> h, left |-> n, got |-> 0, idx |-> p \div BS,
         last |-> (p + n) \div BS, start |-> 0, count |-> 0, fblk |-> 0,
         full |-> FALSE, blocks |-> blocks,
         at |-> IF p % BS # 0 THEN "head" ELSE NextPart(n, end)]

Unaligned == file[call.h].fpos % BS

HeadLength == Least(call.left, BS - Unaligned)

\* "done" is the return of ext4_fread.
Continue(c) == call' = IF c.at = "done" THEN NoCall ELSE c

Advance(k) == file' = [file EXCEPT ![call.h].fpos = @ + k]

\* The size is read again; size - fpos wraps when the handle is past the end,
\* and then nothing is cut off.
FreadStart(h, n) ==
    /\ Begin(h) /\ file[h].open /\ ~file[h].wronly
    /\ file[h].fpos + n <= MaxPos
    /\ LET rest == inode.size - file[h].fpos
       IN  Continue(Locals("fread", h, IF rest < 0 THEN n ELSE Least(n, rest), 0, "done"))
    /\ file' = [file EXCEPT ![h].fsize = inode.size]
    /\ taken' = <<>>
    /\ UNCHANGED <<data, free, inode, wb, errors, io_error, nospace, beyond>>

\* A part before the first block boundary reads as zeros where the file has no
\* block.
FreadHead ==
    /\ In("fread", "head")
    /\ LET n == HeadLength
           b == Lookup(call.idx)
       IN  /\ taken' = taken \o (IF b # 0 THEN Bytes(b, Unaligned, n)
                                          ELSE [j \in 1 .. n |-> 0])
           /\ Advance(n)
           /\ Continue(HeadMoved(call, n, "done"))
    /\ UNCHANGED <<data, free, inode, wb, calls, errors, io_error, nospace, beyond>>

FreadMap ==
    /\ In("fread", "map") /\ call.idx < call.last
    /\ call' = Gather(call, Lookup(call.idx), call.idx)
    /\ UNCHANGED <<data, free, inode, file, wb, taken, calls, errors,
                   io_error, nospace, beyond>>

FreadBlocks ==
    /\ call.at # "idle" /\ call.op = "fread" /\ Due(call)
    /\ taken' = taken \o Bytes(call.start, 0, BS * call.count)
    /\ Advance(BS * call.count)
    /\ Continue(Transferred(call, "done"))
    /\ UNCHANGED <<data, free, inode, wb, calls, errors, io_error, nospace, beyond>>

FreadTail ==
    /\ In("fread", "tail")
    /\ taken' = taken \o Bytes(Lookup(call.idx), 0, call.left)
    /\ Advance(call.left)
    /\ call' = NoCall
    /\ UNCHANGED <<data, free, inode, wb, calls, errors, io_error, nospace, beyond>>

\* Any of its transfers fails: the call ends with what it has delivered.
FreadFails ==
    /\ call.at # "idle" /\ call.op = "fread" /\ errors < MaxErrors
    /\ errors' = errors + 1
    /\ call' = NoCall
    /\ UNCHANGED <<data, free, inode, file, wb, taken, calls, io_error, nospace, beyond>>

-----------------------------------------------------------------------------

\* Write-back mode is on while whole blocks are written.
WriteBack(from, to) ==
    wb' = CASE from # "map" /\ to = "map" -> wb + 1
            [] from = "map" /\ to # "map" -> wb - 1
            [] OTHER -> wb

\* flags & O_RDONLY is 0 for every handle: no handle is refused.
FwriteStart(h, n) ==
    /\ Begin(h) /\ file[h].open
    /\ file[h].fpos + n <= MaxPos
    /\ call' = Locals("fwrite", h, n, Blocks(inode.size), "size")
    /\ WriteBack("", call'.at)
    /\ file' = [file EXCEPT ![h].fsize = inode.size]
    /\ beyond' = (beyond \/ file[h].fpos > inode.size)
    /\ taken' = <<>>
    /\ UNCHANGED <<data, free, inode, errors, io_error, nospace>>

\* A part before the first block boundary, in a block the file should have.
FwriteHead ==
    /\ In("fwrite", "head")
    /\ \E res \in InitBlock(call.idx) :
         /\ Requested(res)
         /\ IF res.r = "EOK"
              THEN LET n == HeadLength
                   IN  /\ data' = Overlay(res.blk, Unaligned, n, call.got)
                       /\ Advance(n)
                       /\ call' = HeadMoved(call, n, "size")
                       /\ WriteBack("", call'.at)
              ELSE /\ call' = NoCall
                   /\ UNCHANGED <<data, file, wb>>
    /\ UNCHANGED <<taken, calls, beyond>>

\* A block of the inner loop.  When a new one cannot be had, what was gathered
\* is still written; when the map of an old one cannot be read, the call ends
\* and leaves write-back mode on.
FwriteMap ==
    /\ In("fwrite", "map") /\ call.idx < call.last
    /\ \E res \in BlockFor(call) :
         /\ Requested(res)
         /\ call' = CASE res.r = "EOK" -> Gather(call, res.blk, res.idx)
                      [] res.r # "EOK" /\ call.idx < call.blocks -> NoCall
                      [] OTHER -> [call EXCEPT !.full = TRUE, !.at = "xfer"]
    /\ UNCHANGED <<data, file, wb, taken, calls, beyond>>

\* The gathered blocks never outgrow the buffer, or the call reads past it and
\* nothing can be said of what follows.
Fits == BS * call.count <= call.left

\* After the last block that could be had the call goes to out_fsize, past the
\* line that leaves write-back mode.
FwriteBlocks ==
    /\ call.at # "idle" /\ call.op = "fwrite" /\ Due(call) /\ Fits
    /\ LET n == BS * call.count
           c == Transferred(call, "size")
       IN  /\ data' = Overlay(call.start, 0, n, call.got)
           /\ Advance(n)
           /\ IF call.full THEN /\ call' = [c EXCEPT !.at = "size"]
                                /\ UNCHANGED wb
                           ELSE /\ call' = c
                                /\ WriteBack("map", c.at)
    /\ UNCHANGED <<free, inode, taken, calls, errors, io_error, nospace, beyond>>

\* Some of the blocks may have been written.
FwriteBlocksFail ==
    /\ call.at # "idle" /\ call.op = "fwrite" /\ Due(call) /\ Fits /\ errors < MaxErrors
    /\ \E k \in 0 .. call.count : data' = Overlay(call.start, 0, BS * k, call.got)
    /\ call' = NoCall
    /\ wb' = wb - 1 /\ errors' = errors + 1 /\ io_error' = TRUE
    /\ UNCHANGED <<free, inode, file, taken, calls, nospace, beyond>>

\* The part after the last block boundary.
FwriteTail ==
    /\ In("fwrite", "tail")
    /\ \E res \in BlockFor(call) :
         /\ Requested(res)
         /\ IF res.r = "EOK"
              THEN /\ data' = Overlay(res.blk, 0, call.left, call.got)
                   /\ Advance(call.left)
                   /\ call' = [Moved(call, call.left) EXCEPT !.at = "size"]
              ELSE /\ call' = IF call.idx < call.blocks THEN NoCall
                              ELSE [call EXCEPT !.at = "size"]
                   /\ UNCHANGED <<data, file>>
    /\ UNCHANGED <<wb, taken, calls, beyond>>

\* ext4_block_writebytes fails for the part before or after the whole blocks:
\* the block has been asked for, the size is not written.
FwriteBytesFail ==
    /\ In("fwrite", "head") \/ In("fwrite", "tail")
    /\ \E res \in IF call.at = "head" THEN InitBlock(call.idx) ELSE BlockFor(call) :
         /\ res.r = "EOK" /\ errors < MaxErrors
         /\ free' = res.free
         /\ inode' = [inode EXCEPT !.map = res.map, !.size = res.size]
         /\ data' \in {data, IF call.at = "head"
                             THEN Overlay(res.blk, Unaligned, HeadLength, call.got)
                             ELSE Overlay(res.blk, 0, call.left, call.got)}
    /\ call' = NoCall
    /\ errors' = errors + 1 /\ io_error' = TRUE
    /\ UNCHANGED <<file, wb, taken, calls, nospace, beyond>>

\* out_fsize: a longer file gets its size.
SizeAfter(p, fsize) == IF p > fsize THEN p ELSE inode.size

FwriteSize ==
    /\ In("fwrite", "size")
    /\ LET f == file[call.h]
       IN  /\ inode' = [inode EXCEPT !.size = SizeAfter(f.fpos, f.fsize)]
           /\ file' = [file EXCEPT ![call.h].fsize = IF f.fpos > @ THEN f.fpos ELSE @]
    /\ call' = NoCall
    /\ UNCHANGED <<data, free, wb, taken, calls, errors, io_error, nospace, beyond>>

-----------------------------------------------------------------------------

\* ext4_trunc_inode works on one piece of the file at a time,
\* and leaves the handle as "then" says.
Cut(op, h, size, then) ==
    [op |-> op, h |-> h, at |-> "cut", size |-> size, left |-> inode.size, then |-> then]

FtruncateStart(h, size) ==
    /\ Begin(h) /\ file[h].open
    /\ file' = [file EXCEPT ![h].fsize = inode.size]
    /\ IF inode.size <= size
         THEN UNCHANGED <<call, wb>>
         ELSE /\ call' = Cut("ftruncate", h, size,
                             [file[h] EXCEPT !.fsize = size, !.fpos = Least(@, size)])
              /\ wb' = wb + 1
    /\ UNCHANGED <<data, free, inode, taken, errors, io_error, nospace, beyond>>

\* ext4_fopen2 of the file as it is, or with O_TRUNC.
FopenStart(h, mode) ==
    /\ Begin(h) /\ ~file[h].open
    /\ IF mode.trunc /\ inode.size > 0
         THEN /\ call' = Cut("fopen", h, 0, OpenedFile(mode, 0))
              /\ wb' = wb + 1
              /\ UNCHANGED file
         ELSE /\ file' = [file EXCEPT ![h] = OpenedFile(mode, inode.size)]
              /\ UNCHANGED <<call, wb>>
    /\ UNCHANGED <<data, free, inode, taken, errors, io_error, nospace, beyond>>

\* The size after the next piece is cut off.
NextSize(c) == IF c.left > c.size + MaxTrunc THEN c.left - MaxTrunc ELSE c.size

\* Mutant: the first block after the new end is kept.
CutBlocks_but_first(size) ==
    {i \in FileBlock : i > Blocks(size) /\ i < Blocks(inode.size)}

\* The blocks ext4_fs_truncate_inode gives up for a new size; the extent tree
\* gives up nothing when the first of them is not mapped.
CutBlocks(size) ==
    IF Blocks(size) = Blocks(inode.size) \/ (inode.extents /\ inode.map[Blocks(size)] = 0)
    THEN {}
    ELSE {i \in FileBlock : i >= Blocks(size)
                            /\ (inode.extents \/ i < Blocks(inode.size))}

Mapped(I) == {inode.map[i] : i \in I} \ {0}

\* Mutant: the references to the blocks stay in the inode.
Released_still_mapped(I, lost, size) ==
    /\ inode' = [inode EXCEPT !.size = size]
    /\ free' = free \cup (Mapped(I) \ lost)
    /\ data' = Wiped(Mapped(I))

\* The inode without the file blocks I; what of them is lost does not reach the
\* allocator.
Released(I, lost, size) ==
    /\ inode' = [inode EXCEPT !.size = size,
                    !.map = [i \in FileBlock |-> IF i \in I THEN 0 ELSE @[i]]]
    /\ free' = free \cup (Mapped(I) \ lost)
    /\ data' = Wiped(Mapped(I))

\* Mutant: write-back mode stays on.
CutEnds_write_back(c) ==
    /\ call' = NoCall
    /\ file' = [file EXCEPT ![c.h] = c.then]
    /\ UNCHANGED wb

\* The last piece is cut off: the handle follows.
CutEnds(c) ==
    /\ call' = NoCall
    /\ wb' = wb - 1
    /\ file' = [file EXCEPT ![c.h] = c.then]

CutPiece ==
    /\ call.at = "cut"
    /\ LET size == NextSize(call)
       IN  /\ Released(CutBlocks(size), {}, size)
           /\ IF size = call.size
                THEN CutEnds(call)
                ELSE /\ call' = [call EXCEPT !.left = size]
                     /\ UNCHANGED <<wb, file>>
    /\ UNCHANGED <<taken, calls, errors, io_error, nospace, beyond>>

\* A failed read of the inode before a piece ends the pieces: what remains is
\* cut off at once.
CutAtOnce ==
    /\ call.at = "cut" /\ errors < MaxErrors /\ NextSize(call) # call.size
    /\ Released(CutBlocks(call.size), {}, call.size)
    /\ CutEnds(call)
    /\ errors' = errors + 1
    /\ UNCHANGED <<taken, calls, io_error, nospace, beyond>>

\* The extent tree takes no notice of a bitmap it could not write: the blocks
\* are lost and the call goes on.
CutPieceLoses ==
    /\ call.at = "cut" /\ inode.extents /\ errors < MaxErrors
    /\ LET size == NextSize(call)
       IN  /\ \E lost \in SUBSET Mapped(CutBlocks(size)) \ {{}} :
                Released(CutBlocks(size), lost, size)
           /\ IF size = call.size
                THEN CutEnds(call)
                ELSE /\ call' = [call EXCEPT !.left = size]
                     /\ UNCHANGED <<wb, file>>
    /\ errors' = errors + 1 /\ io_error' = TRUE
    /\ UNCHANGED <<taken, calls, nospace, beyond>>

\* A piece fails after some of its blocks, in the order of the file, or after
\* all of it (the inode cannot be written): the call ends.  ext4_ftruncate
\* leaves write-back mode on, ext4_fopen2 does not open the file.
CutPieceFails ==
    /\ call.at = "cut" /\ errors < MaxErrors
    /\ LET size == NextSize(call)
       IN  \/ \E k \in FileBlock :
                LET I == {i \in CutBlocks(size) : i < k}
                IN  \E lost \in SUBSET Mapped(IF inode.extents THEN I
                                               ELSE I \cap {k - 1}) :
                        Released(I, lost, inode.size)
           \/ Released(CutBlocks(size), {}, size)
    /\ call' = NoCall
    /\ wb' = IF call.op = "fopen" THEN wb - 1 ELSE wb
    /\ errors' = errors + 1 /\ io_error' = TRUE
    /\ UNCHANGED <<file, taken, calls, nospace, beyond>>

-----------------------------------------------------------------------------

\* The tests use the size the handle saw last; fsize - fpos wraps when the
\* handle is past it.
SeekSet(f, o) == IF o \in 0 .. f.fsize THEN {o} ELSE {}
SeekCur(f, o) ==
    IF \/ o < 0 /\ -o > f.fpos
       \/ o > 0 /\ f.fpos <= f.fsize /\ o > f.fsize - f.fpos
    THEN {} ELSE {f.fpos + o}
SeekEnd(f, o) == IF o \in 0 .. f.fsize THEN {f.fsize - o} ELSE {}

Fseek(h, o) ==
    /\ Begin(h) /\ file[h].open
    /\ \E p \in SeekSet(file[h], o) \cup SeekCur(file[h], o) \cup SeekEnd(file[h], o) :
         /\ p <= MaxPos
         /\ file' = [file EXCEPT ![h].fpos = p]
    /\ UNCHANGED <<data, free, inode, wb, call, taken, errors, io_error, nospace, beyond>>

Fclose(h) ==
    /\ Begin(h) /\ file[h].open
    /\ file' = [file EXCEPT ![h] = ClosedFile]
    /\ UNCHANGED <<data, free, inode, wb, call, taken, errors, io_error, nospace, beyond>>

Step ==
    \/ FreadHead \/ FreadMap \/ FreadBlocks \/ FreadTail \/ FreadFails
    \/ FwriteHead \/ FwriteMap \/ FwriteBlocks \/ FwriteBlocksFail \/ FwriteTail
    \/ FwriteBytesFail \/ FwriteSize
    \/ CutPiece \/ CutAtOnce \/ CutPieceLoses \/ CutPieceFails

Next ==
    \/ Step
    \/ \E h \in Handle :
          \/ \E n \in Amount : FreadStart(h, n) \/ FwriteStart(h, n)
          \/ \E n \in Length : FtruncateStart(h, n)
          \/ \E m \in Mode : FopenStart(h, m)
          \/ \E o \in Offset : Fseek(h, o)
          \/ Fclose(h)

Spec == Init /\ [][Next]_vars

-----------------------------------------------------------------------------
(* Properties.                                                             *)

\* Types, and the ranges the arithmetic of the calls stays in: no position, size
\* or write-back depth goes below zero or past the bounds.
TypeOK ==
    /\ data \in [0 .. NP -> [0 .. (BS - 1) -> Nat]]
    /\ free \subseteq Phys
    /\ inode.map \in [FileBlock -> 0 .. NP] /\ inode.size \in 0 .. (MaxPos + BS)
    /\ file \in [Handle -> [open : BOOLEAN, wronly : BOOLEAN,
                            fpos : 0 .. MaxPos, fsize : 0 .. MaxPos + BS]]
    /\ wb \in 0 .. (MaxCalls + 1)

\* Every block belongs to one place: the allocator or one block of the file,
\* whatever failed before.
NoBlockShared ==
    \A i, j \in FileBlock :
        inode.map[i] # 0 => /\ inode.map[i] \notin free
                            /\ inode.map[i] = inode.map[j] => i = j

\* Between calls a file has exactly the blocks its size needs, and every other
\* block of the volume is free, unless a change of the file has failed or a
\* write has begun past the end.
MapMatchesSize ==
    call.at = "idle" /\ ~io_error /\ ~beyond =>
        /\ \A i \in FileBlock : inode.map[i] # 0 <=> i < Blocks(inode.size)
        /\ free = Phys \ {inode.map[i] : i \in FileBlock}

\* The superblock is never written over with file contents, except by a write
\* that begins past the end of the file and, in a file without extents, after a
\* failed truncation.
SuperblockIntact ==
    (\E c \in 0 .. (BS - 1) : data[0][c] # Super)
        => beyond \/ (io_error /\ ~inode.extents)

\* Between calls the cache is in write-through mode (ext4.h:226-230), as long
\* as nothing failed and no write has found the volume full.
WriteThroughBetweenCalls ==
    call.at = "idle" /\ ~io_error /\ ~nospace => wb = 0

\* ext4_fwrite transfers no more than it was given (ext4.h:354), whatever
\* another handle did to the file before.
AlwaysWithinBuffer == In("fwrite", "map") \/ In("fwrite", "xfer") => Fits

\* What is left of a call: the bytes, then the blocks before the next transfer.
Work(c) ==
    (2 * FB + 6) * c.left +
        CASE c.at = "head" -> 2 * FB + 5
          [] c.at = "map"  -> 2 * (c.last - c.idx) + 4
          [] c.at = "xfer" -> 2 * (c.last - c.idx) + 3
          [] OTHER         -> IF c.at = "size" THEN 0 ELSE 1

\* Every step of a call brings its end nearer: a transfer has a block to move,
\* or is the last one, and moves no more than is left, and no step leaves as
\* much to do as before.  So no loop runs forever, unless a write has begun past
\* the end of the file.
EveryStepAdvances ==
    /\ [](Due(call) => beyond \/ (Fits /\ (call.count > 0 \/ call.full)))
    /\ [][call.at # "idle" /\ call'.at # "idle"
            => beyond \/ Work(call') < Work(call)]_vars

\* The bytes of the file: those up to its size, and while a write is under way
\* up to the old size or to where it has come.
Visible ==
    IF call.at # "idle" /\ call.op = "fwrite"
    THEN LET f == file[call.h] IN IF f.fpos > f.fsize THEN f.fpos ELSE f.fsize
    ELSE inode.size

ByteAt(p) == data[inode.map[p \div BS]][p % BS]

Abstract == INSTANCE OpenFile WITH
    content <- [p \in 1 .. Visible |-> ByteAt(p - 1)],
    fpos <- [h \in Handle |-> file[h].fpos],
    given <- IF call.at # "idle" /\ call.op = "fwrite"
             THEN [j \in 1 .. call.left |-> Buf(call.got + j - 1)] ELSE <<>>,
    sound <- ~io_error /\ ~beyond

\* The calls, with their blocks, gathered transfers and partial parts, are reads,
\* writes and truncations of a sequence of bytes: a read delivers what was
\* written, a write changes the bytes at its position and no other, and nothing
\* of a freed block is ever seen.
ImplementsOpenFile == Abstract!Spec
=============================================================================
