-------------------------- MODULE FileHandleProofs --------------------------
(***************************************************************************)
(* Proofs about FileHandle, for any number of handles and blocks, any file  *)
(* and any number of calls and failures: no block is in two places, the     *)
(* cache is back in write-through mode between calls, a file has the blocks *)
(* its size needs, the superblock is not written over, no loop runs for     *)
(* ever, and the calls together are those of a sequence of bytes.           *)
(*                                                                         *)
(* Three inductive invariants carry this: MapInv (one place per block),     *)
(* DepthInv (write-back mode and the shape of a call's locals) and, on top  *)
(* of both, SizesInv (positions, sizes and the map).  The refinement adds   *)
(* BytesInv: what a transfer under way has gathered are blocks of the file  *)
(* that follow each other.                                                 *)
(***************************************************************************)
EXTENDS FileHandle, SequenceTheorems, TLAPS

-----------------------------------------------------------------------------
(* Division with remainder by a constant: the provers' arithmetic is linear. *)

\* Division with remainder.
LEMMA DivMod ==
  ASSUME NEW a \in Nat, NEW w \in Nat \ {0}
  PROVE  /\ a \div w \in Nat /\ a % w \in 0 .. w - 1
         /\ a = w * (a \div w) + (a % w)
  OBVIOUS

\* A product grows with its second factor.
LEMMA MulMono ==
  ASSUME NEW w \in Nat \ {0}, NEW p \in Int, NEW q \in Int, p + 1 <= q
  PROVE  w * p + w <= w * q /\ w * p \in Int /\ w * q \in Int
<1>1. PICK d \in Nat : q = p + 1 + d
  <2>1. q - p - 1 \in Nat
    OBVIOUS
  <2> QED
    BY <2>1
<1>2. w * q = w * p + w + w * d
  BY <1>1
<1>3. w * d >= 0
  OBVIOUS
<1> QED
  BY <1>2, <1>3

\* Quotient and remainder are the only ones.
LEMMA DivUnique ==
  ASSUME NEW w \in Nat \ {0}, NEW q \in Nat, NEW r \in 0 .. w - 1
  PROVE  w * q + r \in Nat /\ (w * q + r) \div w = q /\ (w * q + r) % w = r
<1> DEFINE a == w * q + r
           p == a \div w
           t == a % w
<1>1. a \in Nat
  OBVIOUS
<1> HIDE DEF a
<1>2. p \in Nat /\ t \in 0 .. w - 1 /\ a = w * p + t
  BY <1>1, DivMod
<1> HIDE DEF p, t
<1>3. a = w * q + r /\ w * p \in Int /\ w * q \in Int
  BY <1>2 DEF a
<1>4. ~(p + 1 <= q)
  <2> SUFFICES ASSUME p + 1 <= q PROVE FALSE
    OBVIOUS
  <2>1. w * p + w <= w * q
    BY <1>2, MulMono
  <2> QED
    BY <2>1, <1>2, <1>3
<1>5. ~(q + 1 <= p)
  <2> SUFFICES ASSUME q + 1 <= p PROVE FALSE
    OBVIOUS
  <2>1. w * q + w <= w * p
    BY <1>2, MulMono
  <2> QED
    BY <2>1, <1>2, <1>3
<1>6. p = q
  BY <1>2, <1>4, <1>5
<1>7. t = r
  BY <1>2, <1>3, <1>6
<1> QED
  BY <1>1, <1>6, <1>7 DEF a, p, t

\* The inode and the free blocks, with what a block request or a release needs.
Places(map, fr) ==
    /\ map \in [FileBlock -> 0 .. NP]
    /\ fr \subseteq Phys
    /\ \A i, j \in FileBlock :
          map[i] # 0 => /\ map[i] \notin fr
                        /\ map[i] = map[j] => i = j

MapInv ==
    /\ inode = [map |-> inode.map, size |-> inode.size, extents |-> inode.extents]
    /\ Places(inode.map, free)

\* A request for a block leaves every block in one place, whether it finds one,
\* finds none, or fails and loses one.
LEMMA RequestKeepsPlaces ==
    ASSUME MapInv, NEW i, NEW size, NEW res,
           \/ res \in EIO
           \/ res \in Allocated(i, size)
           \/ \E b, k, n : res = EOK(b, k, inode.map, free, n)
    PROVE  Places(res.map, res.free)
<1>1. CASE res \in EIO
  <2>1. PICK fr \in {free} \cup {free \ {b} : b \in free} :
          res = [ENOSPC EXCEPT !.r = "EIO", !.free = fr]
    BY <1>1 DEF EIO
  <2>2. res.map = inode.map /\ res.free = fr
    BY <2>1 DEF ENOSPC
  <2>3. fr \subseteq free
    OBVIOUS
  <2> QED  BY <2>2, <2>3 DEF MapInv, Places
<1>2. CASE res \in Allocated(i, size)
  <2>1. CASE free = {}
    BY <1>2, <2>1 DEF Allocated, ENOSPC, MapInv, Places
  <2>2. CASE free # {}
    <3>1. PICK b \in free : res = EOK(b, i, [inode.map EXCEPT ![i] = b], free \ {b}, size)
      BY <1>2, <2>2 DEF Allocated
    <3>2. b \in 1 .. NP
      BY DEF MapInv, Places, Phys
    <3>3. res.map = [inode.map EXCEPT ![i] = b] /\ res.free = free \ {b}
      BY <3>1 DEF EOK
    <3>4. res.map \in [FileBlock -> 0 .. NP] /\ res.free \subseteq Phys
      <4>1. inode.map \in [FileBlock -> 0 .. NP] /\ b \in 0 .. NP
        BY <3>2, SizesAssumption DEF MapInv, Places
      <4>2. res.map \in [FileBlock -> 0 .. NP]
        BY <3>3, <4>1
      <4> QED  BY <3>3, <4>2 DEF MapInv, Places
    <3>5. ASSUME NEW k \in FileBlock, NEW n \in FileBlock, res.map[k] # 0
          PROVE  res.map[k] \notin res.free /\ (res.map[k] = res.map[n] => k = n)
      <4>1. \A m \in FileBlock : res.map[m] = IF m = i THEN b ELSE inode.map[m]
        BY <3>3 DEF MapInv, Places
      <4>2. \A m \in FileBlock : inode.map[m] # b
        BY <3>2 DEF MapInv, Places
      <4> QED  BY <3>3, <3>5, <4>1, <4>2 DEF MapInv, Places
    <3> QED  BY <3>4, <3>5 DEF Places
  <2> QED  BY <2>1, <2>2
<1>3. CASE \E b, k, n : res = EOK(b, k, inode.map, free, n)
  BY <1>3 DEF EOK, MapInv
<1> QED  BY <1>1, <1>2, <1>3

LEMMA BlockForKeepsPlaces ==
    ASSUME MapInv, NEW c, NEW res \in BlockFor(c)
    PROVE  Places(res.map, res.free)
BY RequestKeepsPlaces DEF BlockFor, InitBlock, AppendBlock

LEMMA InitBlockKeepsPlaces ==
    ASSUME MapInv, NEW i, NEW res \in InitBlock(i)
    PROVE  Places(res.map, res.free)
BY RequestKeepsPlaces DEF InitBlock

\* A release takes blocks out of the map before the allocator has them.
LEMMA ReleaseKeepsPlaces ==
    ASSUME MapInv, NEW I, NEW lost, NEW size, Released(I, lost, size), I \subseteq FileBlock
    PROVE  MapInv'
<1> DEFINE map == [i \in FileBlock |-> IF i \in I THEN 0 ELSE inode.map[i]]
           fr == free \cup (Mapped(I) \ lost)
<1>1. /\ inode' = [map |-> map, size |-> size, extents |-> inode.extents]
      /\ free' = fr
  <2>1. inode' = [inode EXCEPT !.size = size,
                     !.map = [i \in FileBlock |-> IF i \in I THEN 0 ELSE inode.map[i]]]
    BY DEF Released
  <2>2. inode' = [map |-> map, size |-> size, extents |-> inode.extents]
    BY <2>1 DEF MapInv
  <2> QED  BY <2>2 DEF Released
<1>2. map \in [FileBlock -> 0 .. NP]
  <2>1. inode.map \in [FileBlock -> 0 .. NP] /\ 0 \in 0 .. NP
    BY SizesAssumption DEF MapInv, Places
  <2> QED  BY <2>1
<1>3. fr \subseteq Phys
  BY DEF MapInv, Places, Mapped, Phys
<1>4. ASSUME NEW i \in FileBlock, NEW j \in FileBlock, map[i] # 0
      PROVE  map[i] \notin fr /\ (map[i] = map[j] => i = j)
  <2>1. i \notin I /\ map[i] = inode.map[i]
    BY <1>4
  <2>2. inode.map[i] \notin Mapped(I)
    BY <1>4, <2>1 DEF Mapped, MapInv, Places
  <2> QED  BY <1>4, <2>1, <2>2 DEF MapInv, Places
<1>5. Places(map, fr)
  BY <1>2, <1>3, <1>4 DEF Places
<1> HIDE DEF map, fr
<1> QED  BY <1>1, <1>5 DEF MapInv

LEMMA CutBlocksOfFile == ASSUME NEW size PROVE CutBlocks(size) \subseteq FileBlock
BY DEF CutBlocks

LEMMA InitMap == Init => MapInv
<1> SUFFICES ASSUME Init PROVE MapInv
  OBVIOUS
<1>1. PICK size \in InitSize, extents \in BOOLEAN, map \in [FileBlock -> 0 .. NP] :
        /\ \A i, j \in FileBlock : map[i] = map[j] /\ map[i] # 0 => i = j
        /\ inode = [map |-> map, size |-> size, extents |-> extents]
  BY DEF Init
<1>2. free = Phys \ {inode.map[i] : i \in FileBlock}
  BY DEF Init
<1> QED  BY <1>1, <1>2 DEF MapInv, Places

\* The steps that touch neither the map nor the free blocks.
LEMMA MapUntouched ==
    ASSUME MapInv, free' = free,
           inode' = inode \/ \E size : inode' = [inode EXCEPT !.size = size]
    PROVE  MapInv'
BY DEF MapInv, Places

LEMMA NextMap == ASSUME MapInv, [Next]_vars PROVE MapInv'
<1>1. ASSUME NEW res, Places(res.map, res.free), free' = res.free,
             inode' = [inode EXCEPT !.map = res.map, !.size = res.size]
      PROVE  MapInv'
  BY <1>1 DEF MapInv
<1>2. CASE FwriteHead
  BY <1>2, <1>1, InitBlockKeepsPlaces DEF FwriteHead, Requested
<1>3. CASE FwriteMap
  BY <1>3, <1>1, BlockForKeepsPlaces DEF FwriteMap, Requested
<1>4. CASE FwriteTail
  BY <1>4, <1>1, BlockForKeepsPlaces DEF FwriteTail, Requested
<1>5. CASE FwriteBytesFail
  <2>1. PICK res \in IF call.at = "head" THEN InitBlock(call.idx) ELSE BlockFor(call) :
          /\ free' = res.free
          /\ inode' = [inode EXCEPT !.map = res.map, !.size = res.size]
    BY <1>5 DEF FwriteBytesFail
  <2> QED  BY <2>1, <1>1, InitBlockKeepsPlaces, BlockForKeepsPlaces
<1>6. CASE FwriteSize
  BY <1>6, MapUntouched DEF FwriteSize
<1>7. CASE CutPiece
  BY <1>7, ReleaseKeepsPlaces, CutBlocksOfFile DEF CutPiece
<1>8. CASE CutAtOnce
  BY <1>8, ReleaseKeepsPlaces, CutBlocksOfFile DEF CutAtOnce
<1>9. CASE CutPieceLoses
  BY <1>9, ReleaseKeepsPlaces, CutBlocksOfFile DEF CutPieceLoses
<1>10. CASE CutPieceFails
  <2>1. PICK I, lost, size : Released(I, lost, size) /\ I \subseteq FileBlock
    BY <1>10, CutBlocksOfFile DEF CutPieceFails
  <2> QED  BY <2>1, ReleaseKeepsPlaces
<1>11. CASE \/ FreadHead \/ FreadMap \/ FreadBlocks \/ FreadTail \/ FreadFails
            \/ FwriteBlocks \/ FwriteBlocksFail
  BY <1>11, MapUntouched DEF FreadHead, FreadMap, FreadBlocks, FreadTail, FreadFails,
     FwriteBlocks, FwriteBlocksFail
<1>12. ASSUME NEW h \in Handle,
              \/ \E n \in Amount : FreadStart(h, n) \/ FwriteStart(h, n)
              \/ \E n \in Length : FtruncateStart(h, n)
              \/ \E m \in Mode : FopenStart(h, m)
              \/ \E o \in Offset : Fseek(h, o)
              \/ Fclose(h)
       PROVE  MapInv'
  BY <1>12, MapUntouched DEF FreadStart, FwriteStart, FtruncateStart, FopenStart, Fseek, Fclose
<1>13. CASE UNCHANGED vars
  BY <1>13, MapUntouched DEF vars
<1> QED
  BY <1>2, <1>3, <1>4, <1>5, <1>6, <1>7, <1>8, <1>9, <1>10, <1>11, <1>12, <1>13 DEF Next, Step

\* Every block is in one place, whatever calls are made and whatever fails: the
\* map of the inode has it once, or the allocator has it, or it is lost.
THEOREM BlocksInOnePlace == Spec => []NoBlockShared
<1>1. MapInv => NoBlockShared
  BY DEF MapInv, Places, NoBlockShared
<1> QED  BY InitMap, NextMap, <1>1, PTL DEF Spec

-----------------------------------------------------------------------------

Fields == {"op", "h", "left", "got", "idx", "last", "start", "count", "fblk",
           "full", "blocks", "at"}

\* The locals of ext4_fread or ext4_fwrite.
Transfer(c) ==
    /\ c = [x \in Fields |-> c[x]]
    /\ c.op \in {"fread", "fwrite"}
    /\ c.at \in {"head", "map", "xfer", "tail", "size"}

InWriteBack(c) ==
    c.at = "cut" \/ (c.at \in {"map", "xfer"} /\ c.op = "fwrite")

Undisturbed == ~io_error /\ ~nospace

\* What the depth is worth at every point of a call: one between the line that
\* enters write-back mode and the one that leaves it, as long as no write has
\* left the loop early.
DepthInv ==
    /\ io_error \in BOOLEAN /\ nospace \in BOOLEAN
    /\ \/ call.at = "idle"
       \/ /\ call.at = "cut" /\ call.op \in {"fopen", "ftruncate"}
          /\ call = [x \in DOMAIN call |-> call[x]] /\ {"at", "op"} \subseteq DOMAIN call
       \/ Transfer(call)
    /\ Undisturbed => /\ wb = IF InWriteBack(call) THEN 1 ELSE 0
                      /\ Transfer(call) => call.full = FALSE

\* The same transfer, further on.
SameTransfer(c, d) == Transfer(d) /\ d.op = c.op /\ d.full = c.full

LEMMA NoCallIdle ==
    NoCall.at = "idle" /\ ~Transfer(NoCall) /\ ~InWriteBack(NoCall)
BY DEF NoCall, Transfer, InWriteBack

\* What the steps of the loops make of the locals.
LEMMA HeadMovedShape ==
    ASSUME NEW c, Transfer(c), NEW k, NEW end \in {"size", "done"}
    PROVE  \/ HeadMoved(c, k, end).at = "done" /\ end = "done"
           \/ /\ SameTransfer(c, HeadMoved(c, k, end))
              /\ HeadMoved(c, k, end).at \in {"map", "tail", "size"}
BY DEF HeadMoved, Moved, NextPart, SameTransfer, Transfer, Fields

LEMMA TransferredShape ==
    ASSUME NEW c, Transfer(c), NEW end \in {"size", "done"}
    PROVE  \/ Transferred(c, end).at = "done" /\ end = "done"
           \/ /\ SameTransfer(c, Transferred(c, end))
              /\ Transferred(c, end).at \in {"map", "tail", "size"}
BY DEF Transferred, Moved, NextPart, SameTransfer, Transfer, Fields

LEMMA GatherShape ==
    ASSUME NEW c, Transfer(c), NEW b, NEW i
    PROVE  SameTransfer(c, Gather(c, b, i)) /\ Gather(c, b, i).at \in {"map", "xfer"}
BY DEF Gather, SameTransfer, Transfer, Fields

LEMMA SizeShape ==
    ASSUME NEW c, Transfer(c), NEW k
    PROVE  /\ SameTransfer(c, [Moved(c, k) EXCEPT !.at = "size"])
           /\ [Moved(c, k) EXCEPT !.at = "size"].at = "size"
           /\ SameTransfer(c, [c EXCEPT !.at = "size"])
           /\ [c EXCEPT !.at = "size"].at = "size"
BY DEF Moved, SameTransfer, Transfer, Fields

\* A request succeeds, or what was disturbed is noted.
LEMMA RequestOutcome ==
    ASSUME NEW c, NEW res, res \in BlockFor(c) \/ res \in InitBlock(c.idx),
           DepthInv, Requested(res)
    PROVE  /\ io_error' \in BOOLEAN /\ nospace' \in BOOLEAN
           /\ res.r # "EOK" => ~Undisturbed'
           /\ Undisturbed' => Undisturbed
<1>1. res.r \in {"EOK", "ENOSPC", "EIO"}
  <2>1. ASSUME NEW i, NEW size, res \in EIO \/ res \in Allocated(i, size)
                                \/ \E b, k, n : res = EOK(b, k, inode.map, free, n)
        PROVE  res.r \in {"EOK", "ENOSPC", "EIO"}
    <3>1. CASE res \in EIO
      <4>1. PICK fr : res = [ENOSPC EXCEPT !.r = "EIO", !.free = fr]
        BY <3>1 DEF EIO
      <4> QED  BY <4>1 DEF ENOSPC
    <3>2. CASE res \in Allocated(i, size)
      BY <3>2 DEF Allocated, ENOSPC, EOK
    <3>3. CASE \E b, k, n : res = EOK(b, k, inode.map, free, n)
      BY <3>3 DEF EOK
    <3> QED  BY <2>1, <3>1, <3>2, <3>3
  <2> QED  BY <2>1 DEF BlockFor, InitBlock, AppendBlock
<1> QED  BY <1>1 DEF Requested, DepthInv, Undisturbed

\* Calls that begin, and steps that change no depth.
LEMMA BeginDepth ==
    ASSUME DepthInv, NEW h \in Handle,
           \/ \E n \in Amount : FreadStart(h, n) \/ FwriteStart(h, n)
           \/ \E n \in Length : FtruncateStart(h, n)
           \/ \E m \in Mode : FopenStart(h, m)
           \/ \E o \in Offset : Fseek(h, o)
           \/ Fclose(h)
    PROVE  DepthInv'
<1>1. ASSUME NEW op \in {"fread", "fwrite"}, NEW n, NEW b, NEW end \in {"done", "size"}
      PROVE  LET c == Locals(op, h, n, b, end)
             IN  /\ c.at = "done" \/ Transfer(c)
                 /\ c.op = op /\ c.full = FALSE
                 /\ c.at \in {"head", "map", "tail", end}
  BY DEF Locals, NextPart, Transfer, Fields
<1>2. ~InWriteBack(NoCall) /\ NoCall.at = "idle" /\ ~Transfer(NoCall)
  BY NoCallIdle
<1>3. call.at = "idle" /\ ~Transfer(call) /\ ~InWriteBack(call)
  BY DEF FreadStart, FwriteStart, FtruncateStart, FopenStart, Fseek, Fclose, Begin,
         Transfer, InWriteBack
<1>4. ASSUME NEW n \in Amount, FreadStart(h, n) PROVE DepthInv'
  <2>1. PICK k, b : Continue(Locals("fread", h, k, b, "done"))
    BY <1>4 DEF FreadStart
  <2>2. UNCHANGED <<wb, io_error, nospace>>
    BY <1>4 DEF FreadStart
  <2>3. call' = NoCall \/ (Transfer(call') /\ call'.op = "fread" /\ call'.full = FALSE
                           /\ call'.at # "cut")
    <3> DEFINE c == Locals("fread", h, k, b, "done")
    <3>1. /\ c.at = "done" \/ Transfer(c)
          /\ c.op = "fread" /\ c.full = FALSE
      BY <1>1
    <3>2. call' = NoCall \/ (call' = c /\ c.at # "done")
      BY <2>1 DEF Continue
    <3> HIDE DEF c
    <3>3. Transfer(c) => c.at # "cut"
      BY DEF Transfer
    <3> QED  BY <3>1, <3>2, <3>3
  <2> QED  BY <1>2, <1>3, <2>2, <2>3 DEF DepthInv, InWriteBack, Undisturbed
<1>5. ASSUME NEW n \in Amount, FwriteStart(h, n) PROVE DepthInv'
  <2>1. /\ call' = Locals("fwrite", h, n, Blocks(inode.size), "size")
        /\ WriteBack("", call'.at) /\ UNCHANGED <<io_error, nospace>>
    BY <1>5 DEF FwriteStart
  <2>2. /\ Transfer(call') /\ call'.op = "fwrite" /\ call'.full = FALSE
        /\ call'.at \in {"head", "map", "tail", "size"}
    BY <2>1, <1>1
  <2>3. wb' = IF call'.at = "map" THEN wb + 1 ELSE wb
    BY <2>1, <2>2 DEF WriteBack
  <2>4. Undisturbed' <=> Undisturbed
    BY <2>1 DEF Undisturbed
  <2>5. InWriteBack(call') <=> call'.at = "map"
    BY <2>2 DEF InWriteBack
  <2>6. Undisturbed => wb = 0
    BY <1>3 DEF DepthInv
  <2>7. Undisturbed' => wb' = IF InWriteBack(call') THEN 1 ELSE 0
    BY <2>3, <2>4, <2>5, <2>6
  <2> QED  BY <2>1, <2>2, <2>7 DEF DepthInv
<1>6. ASSUME NEW n \in Length, FtruncateStart(h, n) PROVE DepthInv'
  <2>1. CASE UNCHANGED <<call, wb, io_error, nospace>>
    BY <2>1 DEF DepthInv, Undisturbed
  <2>2. CASE /\ \E f : call' = Cut("ftruncate", h, n, f)
             /\ wb' = wb + 1 /\ UNCHANGED <<io_error, nospace>>
    BY <2>2, <1>3 DEF DepthInv, Undisturbed, InWriteBack, Cut, Transfer
  <2> QED  BY <1>6, <2>1, <2>2 DEF FtruncateStart
<1>7. ASSUME NEW m \in Mode, FopenStart(h, m) PROVE DepthInv'
  <2>1. CASE UNCHANGED <<call, wb, io_error, nospace>>
    BY <2>1 DEF DepthInv, Undisturbed
  <2>2. CASE /\ \E f : call' = Cut("fopen", h, 0, f)
             /\ wb' = wb + 1 /\ UNCHANGED <<io_error, nospace>>
    BY <2>2, <1>3 DEF DepthInv, Undisturbed, InWriteBack, Cut, Transfer
  <2> QED  BY <1>7, <2>1, <2>2 DEF FopenStart
<1>8. CASE (\E o \in Offset : Fseek(h, o)) \/ Fclose(h)
  BY <1>8 DEF Fseek, Fclose, DepthInv, Undisturbed
<1> QED  BY <1>4, <1>5, <1>6, <1>7, <1>8

LEMMA StepDepth == ASSUME DepthInv, Step PROVE DepthInv'
<1>1. NoCall.at = "idle" /\ ~Transfer(NoCall) /\ ~InWriteBack(NoCall)
  BY NoCallIdle
<1>2. ASSUME call' = NoCall, io_error' = TRUE, nospace' = nospace PROVE DepthInv'
  BY <1>1, <1>2 DEF DepthInv, Undisturbed
<1>3. CASE FreadHead \/ FreadMap \/ FreadBlocks \/ FreadTail \/ FreadFails
  <2>1. Transfer(call) /\ call.op = "fread"
    <3>1. \/ call.op = "fread" /\ call.at \in {"head", "map", "xfer", "tail"}
          \/ FreadFails
      BY <1>3 DEF FreadHead, FreadMap, FreadBlocks, FreadTail, In, Due
    <3>2. CASE FreadFails
      BY <3>2 DEF FreadFails, DepthInv
    <3> QED  BY <3>1, <3>2 DEF DepthInv
  <2>2. UNCHANGED <<wb, io_error, nospace>>
    BY <1>3 DEF FreadHead, FreadMap, FreadBlocks, FreadTail, FreadFails
  <2>3. call' = NoCall \/ SameTransfer(call, call')
    <3>1. CASE FreadHead
      BY <2>1, <3>1, HeadMovedShape DEF FreadHead, Continue
    <3>2. CASE FreadMap
      BY <2>1, <3>2, GatherShape DEF FreadMap
    <3>3. CASE FreadBlocks
      BY <2>1, <3>3, TransferredShape DEF FreadBlocks, Continue
    <3>4. CASE FreadTail \/ FreadFails
      BY <3>4 DEF FreadTail, FreadFails
    <3> QED  BY <1>3, <3>1, <3>2, <3>3, <3>4
  <2>4. ~InWriteBack(call) /\ ~InWriteBack(call')
    BY <1>1, <2>1, <2>3 DEF InWriteBack, Transfer, SameTransfer
  <2> QED  BY <1>1, <2>1, <2>2, <2>3, <2>4 DEF DepthInv, Undisturbed, SameTransfer
<1>4. CASE FwriteHead
  <2>1. Transfer(call) /\ call.op = "fwrite" /\ call.at = "head"
    BY <1>4 DEF FwriteHead, In, DepthInv, Transfer
  <2>2. PICK res \in InitBlock(call.idx) :
          /\ Requested(res)
          /\ \/ /\ res.r = "EOK"
                /\ call' = HeadMoved(call, HeadLength, "size")
                /\ WriteBack("", call'.at)
             \/ res.r # "EOK" /\ call' = NoCall
    BY <1>4 DEF FwriteHead
  <2>3. /\ io_error' \in BOOLEAN /\ nospace' \in BOOLEAN
        /\ res.r # "EOK" => ~Undisturbed'
        /\ Undisturbed' => Undisturbed
    BY <2>2, RequestOutcome
  <2>4. CASE res.r # "EOK"
    BY <1>1, <2>2, <2>3, <2>4 DEF DepthInv
  <2>5. CASE res.r = "EOK"
    <3>1. /\ Transfer(call') /\ call'.op = "fwrite" /\ call'.full = call.full
          /\ call'.at \in {"map", "tail", "size"}
      <4>1. call' = HeadMoved(call, HeadLength, "size")
        BY <2>2, <2>5
      <4> QED  BY <2>1, <4>1, HeadMovedShape DEF SameTransfer
    <3>2. wb' = IF call'.at = "map" THEN wb + 1 ELSE wb
      BY <2>2, <2>5, <3>1 DEF WriteBack
    <3> QED  BY <2>1, <2>3, <3>1, <3>2 DEF DepthInv, InWriteBack
  <2> QED  BY <2>4, <2>5
<1>5. CASE FwriteMap
  <2>1. Transfer(call) /\ call.op = "fwrite" /\ call.at = "map" /\ wb' = wb
    BY <1>5 DEF FwriteMap, In, DepthInv, Transfer
  <2>2. PICK res \in BlockFor(call) :
          /\ Requested(res)
          /\ \/ res.r = "EOK" /\ call' = Gather(call, res.blk, res.idx)
             \/ res.r # "EOK" /\ call' = NoCall
             \/ res.r # "EOK" /\ call' = [call EXCEPT !.full = TRUE, !.at = "xfer"]
    BY <1>5 DEF FwriteMap
  <2>3. /\ io_error' \in BOOLEAN /\ nospace' \in BOOLEAN
        /\ res.r # "EOK" => ~Undisturbed'
        /\ Undisturbed' => Undisturbed
    BY <2>2, RequestOutcome
  <2>4. CASE res.r # "EOK" /\ call' = NoCall
    BY <1>1, <2>3, <2>4 DEF DepthInv
  <2>5. CASE res.r # "EOK" /\ call' = [call EXCEPT !.full = TRUE, !.at = "xfer"]
    <3>1. Transfer(call')
      BY <2>1, <2>5 DEF Transfer, Fields
    <3> QED  BY <3>1, <2>3, <2>5 DEF DepthInv
  <2>6. CASE res.r = "EOK"
    <3>1. /\ Transfer(call') /\ call'.op = "fwrite" /\ call'.full = call.full
          /\ call'.at \in {"map", "xfer"}
      BY <2>1, <2>2, <2>6, GatherShape DEF SameTransfer
    <3> QED  BY <2>1, <2>3, <3>1 DEF DepthInv, InWriteBack
  <2> QED  BY <2>2, <2>4, <2>5, <2>6
<1>6. CASE FwriteBlocks
  <2>1. /\ Transfer(call) /\ call.op = "fwrite" /\ call.at \in {"map", "xfer"}
        /\ UNCHANGED <<io_error, nospace>>
    BY <1>6 DEF FwriteBlocks, Due, DepthInv, Transfer
  <2> DEFINE c == Transferred(call, "size")
  <2>2. Transfer(c) /\ c.op = "fwrite" /\ c.full = call.full /\ c.at \in {"map", "tail", "size"}
    BY <2>1, TransferredShape DEF SameTransfer
  <2>3. IF call.full THEN call' = [c EXCEPT !.at = "size"] /\ UNCHANGED wb
                     ELSE call' = c /\ WriteBack("map", c.at)
    BY <1>6 DEF FwriteBlocks
  <2> HIDE DEF c
  <2>4. CASE call.full = FALSE
    <3>1. call' = c /\ wb' = IF c.at = "map" THEN wb ELSE wb - 1
      BY <2>2, <2>3, <2>4 DEF WriteBack
    <3> QED  BY <2>1, <2>2, <2>4, <3>1 DEF DepthInv, InWriteBack, Undisturbed
  <2>5. CASE call.full # FALSE
    <3>1. ~Undisturbed /\ ~Undisturbed'
      BY <2>1, <2>5 DEF DepthInv, Undisturbed
    <3>2. Transfer(call')
      BY <2>2, <2>3 DEF Transfer, Fields
    <3> QED  BY <2>1, <3>1, <3>2 DEF DepthInv
  <2> QED  BY <2>4, <2>5
<1>7. CASE FwriteTail
  <2>1. Transfer(call) /\ call.op = "fwrite" /\ call.at = "tail" /\ wb' = wb
    BY <1>7 DEF FwriteTail, In, DepthInv, Transfer
  <2>2. PICK res \in BlockFor(call) :
          /\ Requested(res)
          /\ \/ res.r = "EOK" /\ call' = [Moved(call, call.left) EXCEPT !.at = "size"]
             \/ call' = NoCall
             \/ call' = [call EXCEPT !.at = "size"]
    BY <1>7 DEF FwriteTail
  <2>3. /\ io_error' \in BOOLEAN /\ nospace' \in BOOLEAN /\ (Undisturbed' => Undisturbed)
    BY <2>2, RequestOutcome
  <2>4. call' = NoCall \/ (Transfer(call') /\ call'.full = call.full /\ call'.at = "size")
    <3>1. CASE call' = [Moved(call, call.left) EXCEPT !.at = "size"]
      BY <2>1, <3>1, SizeShape DEF SameTransfer
    <3>2. CASE call' = [call EXCEPT !.at = "size"]
      BY <2>1, <3>2, SizeShape DEF SameTransfer
    <3> QED  BY <2>2, <3>1, <3>2
  <2>5. ~InWriteBack(call) /\ ~InWriteBack(call')
    BY <1>1, <2>1, <2>4 DEF InWriteBack
  <2> QED  BY <1>1, <2>1, <2>3, <2>4, <2>5 DEF DepthInv
<1>8. CASE FwriteSize
  <2>1. /\ call.at = "size" /\ call' = NoCall /\ UNCHANGED <<wb, io_error, nospace>>
    BY <1>8 DEF FwriteSize, In
  <2> QED  BY <1>1, <2>1 DEF DepthInv, InWriteBack, Undisturbed
<1>9. CASE FwriteBlocksFail \/ FwriteBytesFail \/ CutPieceFails
  BY <1>2, <1>9 DEF FwriteBlocksFail, FwriteBytesFail, CutPieceFails
<1>10. CASE CutPiece \/ CutAtOnce \/ CutPieceLoses
  <2>1. /\ call.at = "cut" /\ io_error' \in BOOLEAN /\ nospace' = nospace
        /\ Undisturbed' => Undisturbed
    BY <1>10 DEF CutPiece, CutAtOnce, CutPieceLoses, DepthInv, Undisturbed
  <2>2. \/ call' = NoCall /\ wb' = wb - 1
        \/ UNCHANGED wb /\ \E n : call' = [call EXCEPT !.left = n]
    BY <1>10 DEF CutPiece, CutAtOnce, CutPieceLoses, CutEnds
  <2>3. InWriteBack(call) /\ ~Transfer(call)
    BY <2>1 DEF InWriteBack, Transfer
  <2>4. CASE call' = NoCall /\ wb' = wb - 1
    BY <1>1, <2>1, <2>3, <2>4 DEF DepthInv
  <2>5. CASE UNCHANGED wb /\ \E n : call' = [call EXCEPT !.left = n]
    <3>1. /\ call'.at = "cut" /\ call' = [x \in DOMAIN call' |-> call'[x]]
          /\ call'.op \in {"fopen", "ftruncate"} /\ {"at", "op"} \subseteq DOMAIN call'
      BY <2>1, <2>5 DEF DepthInv, Transfer
    <3> QED  BY <2>1, <2>3, <2>5, <3>1 DEF DepthInv, InWriteBack, Transfer
  <2> QED  BY <2>2, <2>4, <2>5
<1> QED
  BY <1>3, <1>4, <1>5, <1>6, <1>7, <1>8, <1>9, <1>10 DEF Step

\* Between calls the cache is in write-through mode, as long as no call that
\* changes the file has failed and no write has found the volume full.
THEOREM WriteThrough == Spec => []WriteThroughBetweenCalls
<1>1. Init => DepthInv
  BY NoCallIdle DEF Init, DepthInv
<1>2. ASSUME DepthInv, [Next]_vars PROVE DepthInv'
  <2>1. CASE UNCHANGED vars
    <3>1. UNCHANGED <<call, wb, io_error, nospace>>
      BY <2>1 DEF vars
    <3> QED  BY <1>2, <3>1 DEF DepthInv, Undisturbed
  <2>2. CASE Step
    BY <1>2, <2>2, StepDepth
  <2>3. ASSUME NEW h \in Handle,
               \/ \E n \in Amount : FreadStart(h, n) \/ FwriteStart(h, n)
               \/ \E n \in Length : FtruncateStart(h, n)
               \/ \E m \in Mode : FopenStart(h, m)
               \/ \E o \in Offset : Fseek(h, o)
               \/ Fclose(h)
        PROVE  DepthInv'
    BY <1>2, <2>3, BeginDepth
  <2> QED  BY <1>2, <2>1, <2>2, <2>3 DEF Next
<1>3. DepthInv => WriteThroughBetweenCalls
  BY DEF DepthInv, Undisturbed, InWriteBack, WriteThroughBetweenCalls
<1> QED  BY <1>1, <1>2, <1>3, PTL DEF Spec

-----------------------------------------------------------------------------
(* Positions, sizes and the map.                                           *)

\* The first byte of block i of the file.
At(i) == BS * i

Larger(m, n) == IF m < n THEN n ELSE m

\* A handle whose position and size lie in the file's range.
FileOK(f) ==
    /\ f = [open |-> f.open, wronly |-> f.wronly, fpos |-> f.fpos, fsize |-> f.fsize]
    /\ f.fpos \in 0 .. MaxPos /\ f.fsize \in 0 .. MaxPos

FilesOK ==
    /\ file = [h \in Handle |-> file[h]]
    /\ \A h \in Handle : FileOK(file[h])

\* A transfer c of a handle at position p: the bytes left end in block last.
Spans(c, p) ==
    /\ {c.left, c.idx, c.last, c.start, c.count, c.fblk, c.blocks} \subseteq Nat
    /\ c.full \in BOOLEAN
    /\ p + c.left <= MaxPos
    /\ At(c.last) <= p + c.left /\ p + c.left < At(c.last) + BS
    /\ c.start # 0 => c.count > 0

\* Where it stands: the blocks gathered lie between p and block idx, the odd
\* one apart.
Stands(c, p) ==
    /\ c.at = "head" =>
        /\ c.start = 0 /\ c.count = 0 /\ ~c.full
        /\ At(c.idx) < p /\ p < At(c.idx) + BS
    /\ c.at = "map" =>
        /\ ~c.full /\ c.idx <= c.last /\ BS <= c.left
        /\ At(c.idx) = p + At(c.count)
    /\ c.at = "xfer" /\ c.full => c.idx < c.last /\ At(c.idx) = p + At(c.count)
    /\ c.at = "xfer" /\ ~c.full =>
        c.count > 0 /\ c.idx <= c.last /\ At(c.idx) = p + At(c.count) + BS
    /\ c.at = "tail" => 0 < c.left /\ c.left < BS /\ At(c.idx) = p

PlaceOK(c, p) == Spans(c, p) /\ Stands(c, p)

\* What a write knows of the size s of the file, that of its handle being f: it
\* has the blocks the file had and those the write has appended.
WriteOK(c, p, f, s) ==
    /\ c.full => c.blocks <= c.idx
    /\ c.at # "size" => c.blocks = Blocks(f) /\ Blocks(s) = Larger(c.blocks, c.idx)
    /\ c.at = "head" => c.idx < c.blocks
    /\ c.at = "size" => (f < p => Blocks(p) = Blocks(s))

\* A truncation works on the size as it is, and goes down to the one it wants.
CutOK(c, s) ==
    /\ c = [op |-> c.op, h |-> c.h, at |-> c.at, size |-> c.size, left |-> c.left,
            then |-> c.then]
    /\ c.h \in Handle /\ FileOK(c.then)
    /\ c.size \in Nat /\ c.left = s /\ c.size < s

Positions ==
    /\ inode.size \in 0 .. MaxPos /\ FilesOK
    /\ call.at = "cut" => CutOK(call, inode.size)
    /\ Transfer(call) =>
        /\ call.h \in Handle
        /\ PlaceOK(call, file[call.h].fpos)
        /\ call.op = "fread" => call.full = FALSE
        /\ call.op = "fwrite" =>
             WriteOK(call, file[call.h].fpos, file[call.h].fsize, inode.size)

\* A file with the blocks its size needs, and no other block taken.
FullMap(map, size, fr) ==
    /\ \A i \in FileBlock : map[i] # 0 <=> i < Blocks(size)
    /\ fr = Phys \ {map[i] : i \in FileBlock}

Exact == FullMap(inode.map, inode.size, free)

\* The blocks a write has gathered are not the first of the volume.
Gathered ==
    call.at \in {"map", "xfer", "tail"} /\ call.op = "fwrite" /\ call.count > 0
        => call.start >= 1 /\ call.fblk >= 1

Intact == (\A c \in 0 .. (BS - 1) : data[0][c] = Super) /\ Gathered

Sheltered == ~io_error \/ inode.extents

SizesInv ==
    /\ MapInv /\ DepthInv /\ beyond \in BOOLEAN
    /\ ~beyond => /\ Positions
                  /\ ~io_error => Exact
                  /\ Sheltered => Intact

-----------------------------------------------------------------------------
(* The arithmetic of blocks and positions.                                 *)

LEMMA AtIs ==
    ASSUME NEW i \in Nat
    PROVE  /\ At(i) \in Nat /\ At(i + 1) = At(i) + BS /\ At(0) = 0
           /\ i > 0 => BS <= At(i)
<1>1. BS \in Nat \ {0}
  BY SizesAssumption
<1>2. At(i) \in Nat /\ At(0) = 0
  BY <1>1 DEF At
<1>3. BS * (i + 1) = BS * i + BS
  BY <1>1
<1>4. ASSUME i > 0 PROVE BS <= BS * i
  <2>1. BS * 0 + BS <= BS * i
    BY <1>1, <1>4, MulMono
  <2> QED  BY <1>1, <2>1
<1> QED  BY <1>2, <1>3, <1>4 DEF At

LEMMA AtMono ==
    ASSUME NEW i \in Nat, NEW j \in Nat
    PROVE  /\ (i < j) <=> (At(i) + BS <= At(j))
           /\ (i < j) <=> (At(i) < At(j))
<1>1. BS \in Nat \ {0}
  BY SizesAssumption
<1>2. ASSUME i < j PROVE At(i) + BS <= At(j)
  BY <1>1, <1>2, MulMono DEF At
<1>3. ASSUME j <= i PROVE At(j) <= At(i)
  <2>1. CASE j < i
    BY <1>1, <2>1, MulMono DEF At
  <2> QED  BY <1>3, <2>1, AtIs
<1> QED  BY <1>1, <1>2, <1>3, AtIs

LEMMA PosRange ==
    /\ MaxPos = At(FB) /\ MaxPos \in Nat /\ FB \in Nat /\ BS \in Nat /\ BS > 0
<1>1. FB \in Nat /\ BS \in Nat \ {0}
  BY SizesAssumption
<1>2. FB * BS = BS * FB
  BY <1>1
<1> QED  BY <1>1, <1>2, AtIs DEF At, MaxPos

\* A file of n bytes has b blocks if its end lies in the last of them.
LEMMA BlocksAre ==
    ASSUME NEW n \in Nat, NEW b \in Nat, n <= At(b), At(b) < n + BS
    PROVE  Blocks(n) = b
<1>1. BS \in Nat \ {0}
  BY SizesAssumption
<1> DEFINE r == n + BS - 1 - At(b)
<1>2. At(b) \in Nat
  BY AtIs
<1>3. r \in 0 .. BS - 1
  BY <1>1, <1>2
<1>4. n + BS - 1 = At(b) + r
  BY <1>1, <1>2
<1> HIDE DEF r
<1>5. (BS * b + r) \div BS = b
  BY <1>1, <1>3, DivUnique
<1> QED  BY <1>4, <1>5 DEF Blocks, At

LEMMA BlocksIs ==
    ASSUME NEW n \in Nat
    PROVE  Blocks(n) \in Nat /\ n <= At(Blocks(n)) /\ At(Blocks(n)) < n + BS
<1>1. BS \in Nat \ {0}
  BY SizesAssumption
<1> DEFINE a == n + BS - 1
           q == a \div BS
<1>2. a \in Nat
  BY <1>1
<1>3. q \in Nat /\ a % BS \in 0 .. BS - 1 /\ a = BS * q + (a % BS)
  BY <1>1, <1>2, DivMod
<1>4. a = n + BS - 1 /\ Blocks(n) = q
  BY DEF Blocks
<1> HIDE DEF a, q
<1>5. BS * q \in Nat
  BY <1>1, <1>3
<1> QED  BY <1>1, <1>3, <1>4, <1>5 DEF At

\* More bytes need no fewer blocks; the range of positions needs FB.
LEMMA BlocksMono ==
    ASSUME NEW m \in Nat, NEW n \in Nat, m <= n
    PROVE  Blocks(m) <= Blocks(n)
<1>1. /\ Blocks(m) \in Nat /\ At(Blocks(m)) < m + BS
      /\ Blocks(n) \in Nat /\ n <= At(Blocks(n))
  BY BlocksIs
<1>2. ASSUME Blocks(n) < Blocks(m) PROVE FALSE
  <2>1. At(Blocks(n)) + BS <= At(Blocks(m)) /\ At(Blocks(n)) \in Nat /\ At(Blocks(m)) \in Nat
    BY <1>1, <1>2, AtMono, AtIs
  <2> QED  BY <1>1, <2>1, PosRange
<1> QED  BY <1>1, <1>2

LEMMA BlocksBound ==
    ASSUME NEW n \in 0 .. MaxPos
    PROVE  Blocks(n) \in 0 .. FB
<1>1. Blocks(MaxPos) = FB
  BY BlocksAre, PosRange
<1>2. n \in Nat /\ n <= MaxPos /\ MaxPos \in Nat
  BY PosRange
<1>3. Blocks(n) <= Blocks(MaxPos) /\ Blocks(n) \in Nat
  BY <1>2, BlocksMono, BlocksIs
<1> QED  BY <1>1, <1>3, PosRange

\* A position off the block boundaries.
LEMMA Inside ==
    ASSUME NEW p \in Nat, NEW i \in Nat, At(i) <= p, p < At(i) + BS
    PROVE  p \div BS = i /\ p % BS = p - At(i)
<1>1. BS \in Nat \ {0}
  BY SizesAssumption
<1> DEFINE r == p - At(i)
<1>2. r \in 0 .. BS - 1 /\ p = At(i) + r
  BY <1>1, AtIs
<1> HIDE DEF r
<1>3. (BS * i + r) \div BS = i /\ (BS * i + r) % BS = r
  BY <1>1, <1>2, DivUnique
<1> QED  BY <1>2, <1>3, AtIs DEF At

-----------------------------------------------------------------------------
(* A transfer from step to step.                                           *)

\* The products that a transfer's arithmetic is about.
LEMMA SpanProducts ==
    ASSUME NEW c, NEW p \in Nat, Spans(c, p)
    PROVE  /\ {c.left, c.idx, c.last, c.start, c.count, c.fblk, c.blocks} \subseteq Nat
           /\ {At(c.idx), At(c.last), At(c.count), At(c.idx + 1), At(c.count + 1)} \subseteq Nat
           /\ At(c.idx + 1) = At(c.idx) + BS /\ At(c.count + 1) = At(c.count) + BS
           /\ (c.idx < c.last) <=> (At(c.idx) + BS <= At(c.last))
           /\ (c.idx < c.last) <=> (At(c.idx) < At(c.last))
           /\ (c.last < c.idx) <=> (At(c.last) + BS <= At(c.idx))
           /\ (c.last < c.idx) <=> (At(c.last) < At(c.idx))
           /\ (c.count > 0) <=> (BS <= At(c.count))
           /\ (c.count > 0) <=> (At(c.count) > 0)
<1>1. {c.left, c.idx, c.last, c.start, c.count, c.fblk, c.blocks} \subseteq Nat
  BY DEF Spans
<1>2. c.idx \in Nat /\ c.last \in Nat /\ c.count \in Nat
  BY <1>1
<1>3. At(0) = 0 /\ (0 < c.count <=> At(0) + BS <= At(c.count)) /\ (0 < c.count <=> At(0) < At(c.count))
  BY <1>2, AtIs, AtMono
<1>4. /\ At(c.idx) \in Nat /\ At(c.last) \in Nat /\ At(c.count) \in Nat
      /\ At(c.idx + 1) = At(c.idx) + BS /\ At(c.count + 1) = At(c.count) + BS
  BY <1>2, AtIs
<1>5. /\ (c.idx < c.last) <=> (At(c.idx) + BS <= At(c.last))
      /\ (c.idx < c.last) <=> (At(c.idx) < At(c.last))
      /\ (c.last < c.idx) <=> (At(c.last) + BS <= At(c.idx))
      /\ (c.last < c.idx) <=> (At(c.last) < At(c.idx))
  BY <1>2, AtMono
<1> QED  BY <1>1, <1>3, <1>4, <1>5, PosRange

LEMMA DivAt ==
    ASSUME NEW p \in Nat
    PROVE  \E q, r \in Nat : /\ p \div BS = q /\ p % BS = r
                            /\ p = At(q) + r /\ r < BS /\ At(q) \in Nat
<1>1. BS \in Nat \ {0}
  BY SizesAssumption
<1> DEFINE q == p \div BS
           r == p % BS
<1>2. q \in Nat /\ r \in 0 .. BS - 1 /\ p = BS * q + r
  BY <1>1, DivMod
<1>3. p \div BS = q /\ p % BS = r
  OBVIOUS
<1> HIDE DEF q, r
<1>4. At(q) \in Nat
  BY <1>2, AtIs
<1>5. r \in Nat /\ r < BS
  BY <1>1, <1>2
<1> QED  BY <1>2, <1>3, <1>4, <1>5 DEF At

LEMMA LocalsPlace ==
    ASSUME FilesOK, NEW h \in Handle, NEW op \in {"fread", "fwrite"}, NEW n \in Nat,
           file[h].fpos + n <= MaxPos, NEW b \in Nat, NEW end \in {"size", "done"}
    PROVE  PlaceOK(Locals(op, h, n, b, end), file[h].fpos)
<1> DEFINE p == file[h].fpos
           c == Locals(op, h, n, b, end)
<1>1. p \in Nat /\ p + n \in Nat /\ p + n <= MaxPos
  BY PosRange DEF FilesOK, FileOK
<1>2. PICK q \in Nat, r \in Nat : /\ p \div BS = q /\ p % BS = r
                                   /\ p = At(q) + r /\ r < BS /\ At(q) \in Nat
  BY <1>1, DivAt
<1>3. PICK t \in Nat, u \in Nat : /\ (p + n) \div BS = t /\ p + n = At(t) + u
                                   /\ u < BS /\ At(t) \in Nat
  BY <1>1, DivAt
<1>4. /\ c.left = n /\ c.idx = q /\ c.last = t /\ c.start = 0
      /\ c.count = 0 /\ c.fblk = 0 /\ c.full = FALSE /\ c.blocks = b
      /\ c.at = IF r # 0 THEN "head" ELSE NextPart(n, end)
  BY <1>2, <1>3 DEF Locals
<1> SUFFICES PlaceOK(c, p)
  OBVIOUS
<1> HIDE DEF p, c
<1>5. At(0) = 0
  BY AtIs
<1>6. Spans(c, p)
  <2>1. {c.left, c.idx, c.last, c.start, c.count, c.fblk, c.blocks} \subseteq Nat
    BY <1>2, <1>3, <1>4
  <2>2. c.start = 0 /\ c.full \in BOOLEAN
    BY <1>4
  <2>3. p + c.left <= MaxPos /\ At(c.last) <= p + c.left /\ p + c.left < At(c.last) + BS
    BY <1>1, <1>3, <1>4, PosRange
  <2> QED  BY <2>1, <2>2, <2>3 DEF Spans
<1>7. CASE r # 0
  <2>1. c.at = "head"
    BY <1>4, <1>7
  <2>2. At(c.idx) < p /\ p < At(c.idx) + BS
    BY <1>1, <1>2, <1>4, <1>7, PosRange
  <2> QED  BY <1>4, <1>6, <2>1, <2>2 DEF PlaceOK, Stands
<1>8. CASE r = 0
  <2>1. CASE n >= BS
    <3>1. c.at = "map"
      BY <1>4, <1>8, <2>1 DEF NextPart
    <3>2. At(q) + BS <= At(t) + u
      BY <1>1, <1>2, <1>3, <1>8, <2>1, PosRange
    <3>3. At(q) < At(t)
      BY <1>2, <1>3, <3>2, PosRange
    <3>4. q <= t
      BY <3>3, AtMono
    <3>5. At(c.idx) = p + At(c.count)
      BY <1>1, <1>2, <1>4, <1>5, <1>8
    <3> QED  BY <1>4, <1>6, <2>1, <3>1, <3>4, <3>5, PosRange DEF PlaceOK, Stands
  <2>2. CASE n < BS /\ n > 0
    <3>1. c.at = "tail"
      BY <1>4, <1>8, <2>2, PosRange DEF NextPart
    <3>2. At(c.idx) = p
      BY <1>1, <1>2, <1>4, <1>8
    <3> QED  BY <1>4, <1>6, <2>2, <3>1, <3>2 DEF PlaceOK, Stands
  <2>3. CASE n = 0
    <3>1. c.at = end
      BY <1>4, <1>8, <2>3, PosRange DEF NextPart
    <3> QED  BY <1>6, <3>1 DEF PlaceOK, Stands
  <2> QED  BY <2>1, <2>2, <2>3, PosRange
<1> QED  BY <1>7, <1>8

LEMMA HeadPlace ==
    ASSUME NEW c, Transfer(c), NEW p \in Nat, PlaceOK(c, p), c.at = "head",
           NEW end \in {"size", "done"}, NEW k, k = Least(c.left, BS - (p % BS))
    PROVE  LET d == HeadMoved(c, k, end)
           IN  /\ PlaceOK(d, p + k) /\ k \in Nat /\ (c.left > 0 => k > 0)
               /\ d.left = c.left - k /\ d.idx = c.idx + 1 /\ d.last = c.last
               /\ d.full = c.full /\ d.count = 0 /\ d.blocks = c.blocks
               /\ d.at \in {"map", "tail", end}
               /\ At(c.idx) < p + k /\ p + k <= At(c.idx + 1)
<1> DEFINE d == HeadMoved(c, k, end)
<1>1. Spans(c, p)
  BY DEF PlaceOK
<1>2. /\ c.start = 0 /\ c.count = 0 /\ c.full = FALSE
      /\ At(c.idx) < p /\ p < At(c.idx) + BS
  BY DEF PlaceOK, Stands
<1>3. k = Least(c.left, BS - (p - At(c.idx)))
  <2>1. c.idx \in Nat /\ At(c.idx) <= p /\ At(c.idx) \in Nat
    BY <1>1, <1>2, SpanProducts
  <2>2. p % BS = p - At(c.idx)
    BY <1>2, <2>1, Inside
  <2>3. Least(c.left, BS - (p % BS)) = Least(c.left, BS - (p - At(c.idx)))
    BY <2>2
  <2> QED  BY <2>3
<1>4. /\ d.left = c.left - k /\ d.idx = c.idx + 1 /\ d.last = c.last /\ d.start = c.start
      /\ d.count = c.count /\ d.fblk = c.fblk /\ d.full = c.full /\ d.blocks = c.blocks
      /\ d.at = NextPart(c.left - k, end)
  BY DEF HeadMoved, Moved, Transfer, Fields
<1> HIDE DEF d
<1>5. /\ {c.left, c.idx, c.last, c.start, c.count, c.fblk, c.blocks} \subseteq Nat
      /\ {At(c.idx), At(c.last), At(c.count), At(c.idx + 1)} \subseteq Nat
      /\ At(c.idx + 1) = At(c.idx) + BS
  BY <1>1, SpanProducts
<1>6. /\ p + c.left <= MaxPos /\ At(c.last) <= p + c.left /\ p + c.left < At(c.last) + BS
  BY <1>1 DEF Spans
<1>7. k \in Nat /\ k <= c.left /\ p + k <= At(c.idx + 1) /\ (c.left > 0 => k > 0)
      /\ (k < c.left => p + k = At(c.idx + 1))
  BY <1>2, <1>3, <1>5, PosRange DEF Least
<1>8. Spans(d, p + k)
  <2>1. d.left \in Nat /\ d.idx \in Nat
    BY <1>4, <1>5, <1>7
  <2>2. {d.left, d.idx, d.last, d.start, d.count, d.fblk, d.blocks} \subseteq Nat
    BY <1>4, <1>5, <2>1
  <2>3. (p + k) + d.left = p + c.left
    BY <1>4, <1>5, <1>7
  <2> QED  BY <1>2, <1>4, <1>6, <2>2, <2>3 DEF Spans
<1>9. At(0) = 0 /\ d.count = 0 /\ d.full = FALSE
  BY <1>2, <1>4, AtIs
<1>10. CASE d.left >= BS
  <2>1. d.at = "map" /\ p + k = At(d.idx)
    BY <1>4, <1>5, <1>7, <1>10, PosRange DEF NextPart
  <2>2. d.idx <= d.last
    <3>1. At(c.idx + 1) + BS <= p + c.left
      BY <1>4, <1>5, <1>7, <1>10, <2>1, PosRange
    <3>2. At(c.idx + 1) < At(c.last) + BS
      BY <1>5, <1>6, <3>1, PosRange
    <3>3. c.idx + 1 \in Nat /\ c.last \in Nat
      BY <1>5
    <3>4. ~(c.last < c.idx + 1)
      BY <1>5, <3>1, <3>2, <3>3, <1>6, AtMono, PosRange
    <3> QED  BY <1>4, <1>5, <3>4
  <2>3. PlaceOK(d, p + k)
    BY <1>4, <1>5, <1>7, <1>8, <1>9, <1>10, <2>1, <2>2 DEF PlaceOK, Stands
  <2> QED  BY <1>2, <1>4, <1>5, <1>7, <1>9, <2>1, <2>3 DEF d
<1>11. CASE d.left < BS /\ d.left > 0
  <2>1. d.at = "tail" /\ p + k = At(d.idx)
    BY <1>4, <1>5, <1>7, <1>11, PosRange DEF NextPart
  <2>2. PlaceOK(d, p + k)
    BY <1>8, <1>11, <2>1 DEF PlaceOK, Stands
  <2> QED  BY <1>2, <1>4, <1>5, <1>7, <1>9, <2>1, <2>2 DEF d
<1>12. CASE d.left = 0
  <2>1. d.at = end
    BY <1>4, <1>12, PosRange DEF NextPart
  <2>2. PlaceOK(d, p + k)
    BY <1>8, <2>1 DEF PlaceOK, Stands
  <2> QED  BY <1>2, <1>4, <1>5, <1>7, <1>9, <2>1, <2>2 DEF d
<1> QED  BY <1>4, <1>5, <1>7, <1>10, <1>11, <1>12, PosRange

LEMMA GatherIs ==
    ASSUME NEW c, Transfer(c), NEW b, NEW i
    PROVE  LET d == Gather(c, b, i)
               start == IF c.start = 0 THEN b ELSE c.start
               joins == start + c.count = b
           IN  /\ d.start = start /\ d.fblk = b /\ d.idx = i + 1
               /\ d.count = IF joins THEN c.count + 1 ELSE c.count
               /\ d.at = IF joins THEN "map" ELSE "xfer"
               /\ d.left = c.left /\ d.last = c.last /\ d.full = c.full /\ d.blocks = c.blocks
               /\ d.h = c.h /\ d.op = c.op
BY DEF Gather, Transfer, Fields

LEMMA GatherPlace ==
    ASSUME NEW c, Transfer(c), NEW p \in Nat, PlaceOK(c, p), c.at = "map", c.idx < c.last,
           NEW b \in Nat
    PROVE  PlaceOK(Gather(c, b, c.idx), p)
<1> DEFINE d == Gather(c, b, c.idx)
           start == IF c.start = 0 THEN b ELSE c.start
<1>1. /\ Spans(c, p) /\ ~c.full /\ BS <= c.left /\ At(c.idx) = p + At(c.count)
  BY DEF PlaceOK, Stands
<1>2. /\ {c.left, c.idx, c.last, c.start, c.count, c.fblk, c.blocks} \subseteq Nat
      /\ {At(c.idx), At(c.last), At(c.count), At(c.idx + 1), At(c.count + 1)} \subseteq Nat
      /\ At(c.idx + 1) = At(c.idx) + BS /\ At(c.count + 1) = At(c.count) + BS
  BY <1>1, SpanProducts
<1>3. /\ d.start = start /\ d.fblk = b /\ d.idx = c.idx + 1
      /\ d.left = c.left /\ d.last = c.last /\ d.full = c.full /\ d.blocks = c.blocks
      /\ start + c.count = b => d.count = c.count + 1 /\ d.at = "map"
      /\ start + c.count # b => d.count = c.count /\ d.at = "xfer"
  BY GatherIs
<1>4. start \in Nat /\ (c.start = 0 => start = b) /\ (c.start # 0 => c.count > 0)
  BY <1>1, <1>2 DEF Spans
<1> SUFFICES PlaceOK(d, p)
  OBVIOUS
<1> HIDE DEF d, start
<1>5. c.idx + 1 <= c.last
  BY <1>2
<1>6. d.count \in Nat /\ d.count > 0
  <2>1. CASE start + c.count = b
    BY <1>2, <1>3, <2>1
  <2>2. CASE start + c.count # b
    <3>1. d.count = c.count
      BY <1>3, <2>2
    <3>2. c.count # 0
      BY <1>2, <1>4, <2>2
    <3> QED  BY <1>2, <3>1, <3>2
  <2> QED  BY <2>1, <2>2
<1>7. Spans(d, p)
  <2>1. {d.left, d.idx, d.last, d.start, d.count, d.fblk, d.blocks} \subseteq Nat
    BY <1>2, <1>3, <1>4, <1>6
  <2> QED  BY <1>1, <1>3, <1>6, <2>1 DEF Spans
<1>8. CASE start + c.count = b
  <2>1. d.at = "map" /\ d.count = c.count + 1
    BY <1>3, <1>8
  <2>2. At(d.idx) = p + At(d.count)
    <3>1. At(c.idx + 1) = p + At(c.count + 1)
      BY <1>1, <1>2, PosRange
    <3>2. At(d.idx) = At(c.idx + 1) /\ At(d.count) = At(c.count + 1)
      BY <1>3, <2>1
    <3> QED  BY <3>1, <3>2
  <2> QED  BY <1>1, <1>3, <1>5, <1>7, <2>1, <2>2 DEF PlaceOK, Stands
<1>9. CASE start + c.count # b
  <2>1. d.at = "xfer" /\ d.count = c.count
    BY <1>3, <1>9
  <2>2. At(d.idx) = p + At(d.count) + BS
    BY <1>1, <1>2, <1>3, <2>1, PosRange
  <2> QED  BY <1>1, <1>3, <1>5, <1>6, <1>7, <2>1, <2>2 DEF PlaceOK, Stands
<1> QED  BY <1>8, <1>9

\* No block could be had: what was gathered is due.
Filled(c) == [c EXCEPT !.full = TRUE, !.at = "xfer"]

LEMMA FilledIs ==
    ASSUME NEW c, Transfer(c)
    PROVE  LET d == Filled(c)
           IN  /\ d.start = c.start /\ d.fblk = c.fblk /\ d.idx = c.idx /\ d.count = c.count
               /\ d.at = "xfer" /\ d.left = c.left /\ d.last = c.last /\ d.full = TRUE
               /\ d.blocks = c.blocks /\ d.h = c.h /\ d.op = c.op
BY DEF Filled, Transfer, Fields

LEMMA FilledPlace ==
    ASSUME NEW c, Transfer(c), NEW p \in Nat, PlaceOK(c, p), c.at = "map", c.idx < c.last
    PROVE  PlaceOK(Filled(c), p)
<1> DEFINE d == Filled(c)
<1>1. Spans(c, p) /\ At(c.idx) = p + At(c.count)
  BY DEF PlaceOK, Stands
<1>2. /\ d.start = c.start /\ d.fblk = c.fblk /\ d.idx = c.idx /\ d.count = c.count
      /\ d.at = "xfer" /\ d.left = c.left /\ d.last = c.last /\ d.full = TRUE
      /\ d.blocks = c.blocks
  BY FilledIs
<1> SUFFICES PlaceOK(d, p)
  OBVIOUS
<1> HIDE DEF d
<1>3. Spans(d, p)
  BY <1>1, <1>2 DEF Spans
<1> QED  BY <1>1, <1>2, <1>3 DEF PlaceOK, Stands

\* A transfer that is due has a block to move, or is the last, and moves no
\* more than is left.
LEMMA DueIs ==
    ASSUME NEW c, NEW p \in Nat, PlaceOK(c, p), Due(c)
    PROVE  /\ At(c.count) \in Nat /\ At(c.count) <= c.left /\ (c.count > 0 \/ c.full)
           /\ c.at = "xfer" \/ (c.at = "map" /\ c.idx = c.last)
           /\ c.at = "xfer" /\ ~c.full => At(c.count) + BS <= c.left
           /\ c.at = "map" => ~c.full
<1>1. Spans(c, p)
  BY DEF PlaceOK
<1>2. /\ {c.left, c.idx, c.last, c.start, c.count, c.fblk, c.blocks} \subseteq Nat
      /\ {At(c.idx), At(c.last), At(c.count)} \subseteq Nat
      /\ (c.idx < c.last) <=> (At(c.idx) < At(c.last))
      /\ (c.count > 0) <=> (At(c.count) > 0)
  BY <1>1, SpanProducts
<1>3. At(c.last) <= p + c.left /\ p + c.left < At(c.last) + BS /\ c.full \in BOOLEAN
  BY <1>1 DEF Spans
<1>4. CASE c.at = "xfer" /\ c.full
  BY <1>2, <1>3, <1>4, PosRange DEF PlaceOK, Stands
<1>5. CASE c.at = "xfer" /\ ~c.full
  <2>1. At(c.idx) = p + At(c.count) + BS /\ c.idx <= c.last /\ c.count > 0
    BY <1>5 DEF PlaceOK, Stands
  <2>2. At(c.idx) <= At(c.last)
    BY <1>2, <2>1
  <2> QED  BY <1>2, <1>3, <1>5, <2>1, <2>2, PosRange
<1>6. CASE c.at = "map" /\ c.idx >= c.last
  <2>1. At(c.idx) = p + At(c.count) /\ c.idx <= c.last /\ BS <= c.left /\ ~c.full
    BY <1>6 DEF PlaceOK, Stands
  <2>2. c.idx = c.last
    BY <1>2, <1>6, <2>1
  <2>3. p < At(c.last)
    BY <1>2, <1>3, <2>1, PosRange
  <2> QED  BY <1>2, <1>3, <1>6, <2>1, <2>2, <2>3, PosRange
<1> QED  BY <1>3, <1>4, <1>5, <1>6 DEF Due

LEMMA TransferredIs ==
    ASSUME NEW c, Transfer(c), NEW end
    PROVE  LET d == Transferred(c, end)
           IN  /\ d.start = c.fblk /\ d.fblk = c.fblk /\ d.idx = c.idx /\ d.count = 1
               /\ d.at = NextPart(c.left - At(c.count), end)
               /\ d.left = c.left - At(c.count) /\ d.last = c.last /\ d.full = c.full
               /\ d.blocks = c.blocks /\ d.h = c.h /\ d.op = c.op
BY DEF Transferred, Moved, Transfer, Fields, At

LEMMA TransferredPlace ==
    ASSUME NEW c, Transfer(c), NEW p \in Nat, PlaceOK(c, p), Due(c), ~c.full,
           NEW end \in {"size", "done"}
    PROVE  LET d == Transferred(c, end)
           IN  /\ PlaceOK(d, p + At(c.count)) /\ d.at \in {"map", "tail", end}
               /\ d.at # "map" => p + At(c.count) = At(c.idx)
<1> DEFINE d == Transferred(c, end)
           k == At(c.count)
<1>1. Spans(c, p)
  BY DEF PlaceOK
<1>2. /\ {c.left, c.idx, c.last, c.start, c.count, c.fblk, c.blocks} \subseteq Nat
      /\ {At(c.idx), At(c.last)} \subseteq Nat
      /\ (c.idx < c.last) <=> (At(c.idx) < At(c.last))
  BY <1>1, SpanProducts
<1>3. /\ p + c.left <= MaxPos
      /\ At(c.last) <= p + c.left /\ p + c.left < At(c.last) + BS /\ c.full = FALSE
  BY <1>1 DEF Spans
<1>4. /\ k \in Nat /\ k <= c.left
      /\ c.at = "xfer" \/ (c.at = "map" /\ c.idx = c.last)
      /\ c.at = "xfer" => k + BS <= c.left
  BY DueIs
<1>5. /\ d.start = c.fblk /\ d.fblk = c.fblk /\ d.idx = c.idx /\ d.count = 1
      /\ d.at = NextPart(c.left - k, end)
      /\ d.left = c.left - k /\ d.last = c.last /\ d.full = c.full
      /\ d.blocks = c.blocks
  BY TransferredIs
<1>6. c.at = "xfer" => At(c.idx) = p + k + BS /\ c.idx <= c.last
  BY DEF PlaceOK, Stands
<1>7. c.at = "map" => At(c.idx) = p + k
  BY DEF PlaceOK, Stands
<1>8. At(1) = BS
  BY AtIs, PosRange DEF At
<1> SUFFICES /\ PlaceOK(d, p + k) /\ d.at \in {"map", "tail", end}
             /\ d.at # "map" => p + k = At(c.idx)
  OBVIOUS
<1> HIDE DEF d, k
<1>9. Spans(d, p + k)
  <2>1. d.left \in Nat /\ (p + k) + d.left = p + c.left
    BY <1>2, <1>4, <1>5
  <2>2. {d.left, d.idx, d.last, d.start, d.count, d.fblk, d.blocks} \subseteq Nat
    BY <1>2, <1>5, <2>1
  <2>3. /\ (p + k) + d.left <= MaxPos /\ At(d.last) <= (p + k) + d.left
        /\ (p + k) + d.left < At(d.last) + BS
    BY <1>3, <1>5, <2>1
  <2>4. d.full = FALSE
    BY <1>3, <1>5, Zenon
  <2>5. d.full \in BOOLEAN
    BY <2>4
  <2>6. d.count = 1
    BY <1>5
  <2> QED  BY <2>2, <2>3, <2>5, <2>6 DEF Spans
<1>10. CASE c.at = "xfer"
  <2>1. d.at = "map" /\ BS <= d.left
    BY <1>2, <1>4, <1>5, <1>10, PosRange DEF NextPart
  <2>2. At(d.idx) = (p + k) + At(d.count) /\ d.idx <= d.last
    BY <1>2, <1>4, <1>5, <1>6, <1>8, <1>10, PosRange
  <2> QED  BY <1>3, <1>5, <1>9, <2>1, <2>2 DEF PlaceOK, Stands
<1>11. CASE c.at = "map" /\ c.idx = c.last
  <2>1. p + k = At(d.idx) /\ d.left < BS /\ d.left \in Nat
    BY <1>2, <1>3, <1>4, <1>5, <1>7, <1>11, PosRange
  <2>2. CASE d.left > 0
    <3>1. d.at = "tail"
      BY <1>5, <2>1, <2>2, PosRange DEF NextPart
    <3> QED  BY <1>5, <1>9, <2>1, <2>2, <3>1 DEF PlaceOK, Stands
  <2>3. CASE d.left = 0
    <3>1. d.at = end
      BY <1>5, <2>1, <2>3, PosRange DEF NextPart
    <3> QED  BY <1>5, <1>9, <2>1, <3>1 DEF PlaceOK, Stands
  <2> QED  BY <2>1, <2>2, <2>3
<1> QED  BY <1>4, <1>10, <1>11

\* The same for what ends a write: no bytes that the place depends on are left.
Ended(c) == [c EXCEPT !.at = "size"]

LEMMA EndedIs ==
    ASSUME NEW c, Transfer(c)
    PROVE  LET d == Ended(c)
           IN  /\ d.start = c.start /\ d.fblk = c.fblk /\ d.idx = c.idx /\ d.count = c.count
               /\ d.at = "size" /\ d.left = c.left /\ d.last = c.last /\ d.full = c.full
               /\ d.blocks = c.blocks /\ d.h = c.h /\ d.op = c.op
BY DEF Ended, Transfer, Fields

LEMMA EndedPlace ==
    ASSUME NEW c, Transfer(c), NEW p \in Nat, Spans(c, p)
    PROVE  PlaceOK(Ended(c), p)
<1> DEFINE d == Ended(c)
<1>1. /\ d.start = c.start /\ d.fblk = c.fblk /\ d.idx = c.idx /\ d.count = c.count
      /\ d.at = "size" /\ d.left = c.left /\ d.last = c.last /\ d.full = c.full
      /\ d.blocks = c.blocks
  BY EndedIs
<1> SUFFICES PlaceOK(d, p)
  OBVIOUS
<1> HIDE DEF d
<1>2. Spans(d, p)
  BY <1>1 DEF Spans
<1> QED  BY <1>1, <1>2 DEF PlaceOK, Stands

-----------------------------------------------------------------------------
(* What a write knows of the size.                                         *)

\* A position beyond the old end lies in the last block, which is the one
\* before block i.
LEMMA EndBlocks ==
    ASSUME NEW f \in Nat, NEW p \in Nat, NEW i \in Nat, NEW s,
           Blocks(s) = Larger(Blocks(f), i), p <= At(i), At(i) < p + BS, f < p
    PROVE  Blocks(p) = Blocks(s)
<1>1. Blocks(p) = i
  BY BlocksAre
<1>2. Blocks(f) <= Blocks(p) /\ Blocks(f) \in Nat
  BY BlocksMono, BlocksIs
<1> QED  BY <1>1, <1>2 DEF Larger

LEMMA StartWrites ==
    ASSUME FilesOK, NEW h \in Handle, NEW n \in Nat, n > 0, file[h].fpos + n <= MaxPos,
           NEW s \in 0 .. MaxPos, file[h].fpos <= s
    PROVE  WriteOK(Locals("fwrite", h, n, Blocks(s), "size"), file[h].fpos, s, s)
<1> DEFINE p == file[h].fpos
           c == Locals("fwrite", h, n, Blocks(s), "size")
           b == Blocks(s)
<1>1. p \in Nat /\ s \in Nat /\ p <= s
  BY PosRange DEF FilesOK, FileOK
<1>2. PICK q \in Nat, r \in Nat : /\ p \div BS = q /\ p % BS = r
                                   /\ p = At(q) + r /\ r < BS /\ At(q) \in Nat
  BY <1>1, DivAt
<1>3. /\ c.idx = q /\ c.full = FALSE /\ c.blocks = b
      /\ c.at = IF r # 0 THEN "head" ELSE NextPart(n, "size")
  BY <1>2 DEF Locals
<1>4. b \in Nat /\ s <= At(b) /\ At(b) \in Nat
  BY <1>1, BlocksIs, AtIs
<1>5. b = Blocks(s)
  OBVIOUS
<1> SUFFICES WriteOK(c, p, s, s)
  OBVIOUS
<1> HIDE DEF p, c, b
<1>6. q <= b
  <2>1. ASSUME b < q PROVE FALSE
    <3>1. At(b) + BS <= At(q)
      BY <1>2, <1>4, <2>1, AtMono
    <3> QED  BY <1>1, <1>2, <1>4, <3>1, PosRange
  <2> QED  BY <1>2, <1>4, <2>1
<1>7. r # 0 => q < b
  <2>1. ASSUME r # 0, q = b PROVE FALSE
    BY <1>1, <1>2, <1>4, <2>1
  <2> QED  BY <1>2, <1>4, <1>6, <2>1
<1>8. c.at = "head" => q < b
  BY <1>3, <1>7 DEF NextPart
<1>9. Blocks(s) = Larger(c.blocks, c.idx)
  BY <1>2, <1>3, <1>4, <1>5, <1>6 DEF Larger
<1>10. c.at = "size" => (s < p => Blocks(p) = Blocks(s))
  BY <1>1
<1> QED  BY <1>1, <1>3, <1>5, <1>8, <1>9, <1>10 DEF WriteOK

\* A write with c's locals at position p, the handle's size f, the file's s.
WritePlace(c, p, f, s) ==
    /\ Transfer(c) /\ p \in Nat /\ f \in Nat
    /\ PlaceOK(c, p) /\ WriteOK(c, p, f, s)

LEMMA HeadWrites ==
    ASSUME NEW c, NEW p, NEW f, NEW s, WritePlace(c, p, f, s), c.at = "head",
           NEW k, k = Least(c.left, BS - (p % BS))
    PROVE  WriteOK(HeadMoved(c, k, "size"), p + k, f, s)
<1> DEFINE d == HeadMoved(c, k, "size")
<1>1. /\ p \in Nat /\ f \in Nat /\ PlaceOK(c, p) /\ Transfer(c)
      /\ c.blocks = Blocks(f) /\ Blocks(s) = Larger(c.blocks, c.idx) /\ c.idx < c.blocks
  BY DEF WritePlace, WriteOK
<1>2. /\ k \in Nat /\ d.idx = c.idx + 1 /\ d.full = c.full /\ d.blocks = c.blocks
      /\ d.at \in {"map", "tail", "size"}
      /\ At(c.idx) < p + k /\ p + k <= At(c.idx + 1)
  BY <1>1, HeadPlace
<1>3. /\ c.idx \in Nat /\ c.blocks \in Nat /\ At(c.idx) \in Nat
      /\ At(c.idx + 1) = At(c.idx) + BS /\ c.full = FALSE
  <2>1. Spans(c, p) /\ c.full = FALSE
    BY <1>1 DEF PlaceOK, Stands, Spans
  <2> QED  BY <1>1, <2>1, SpanProducts
<1> SUFFICES WriteOK(d, p + k, f, s)
  OBVIOUS
<1> HIDE DEF d
<1>4. Blocks(s) = c.blocks /\ Larger(c.blocks, c.idx + 1) = c.blocks
  BY <1>1, <1>3 DEF Larger
<1>5. ASSUME f < p + k PROVE Blocks(p + k) = Blocks(s)
  <2>1. Blocks(s) = Larger(Blocks(f), c.idx + 1)
    BY <1>1, <1>4
  <2>2. p + k \in Nat /\ c.idx + 1 \in Nat /\ At(c.idx + 1) < (p + k) + BS
    BY <1>1, <1>2, <1>3, PosRange
  <2> QED  BY <1>1, <1>2, <1>5, <2>1, <2>2, EndBlocks
<1>6. d.full = FALSE
  BY <1>2, <1>3, Zenon
<1>7. d.blocks = Blocks(f) /\ Blocks(s) = Larger(d.blocks, d.idx)
  BY <1>1, <1>2, <1>4
<1> QED  BY <1>2, <1>5, <1>6, <1>7 DEF WriteOK

LEMMA GatherWrites ==
    ASSUME NEW c, NEW p, NEW f, NEW s, WritePlace(c, p, f, s), c.at = "map", NEW b,
           NEW t, Blocks(t) = Larger(c.blocks, c.idx + 1)
    PROVE  WriteOK(Gather(c, b, c.idx), p, f, t)
<1> DEFINE d == Gather(c, b, c.idx)
<1>1. c.blocks = Blocks(f) /\ ~c.full /\ Transfer(c)
  BY DEF WritePlace, WriteOK, PlaceOK, Stands
<1>2. /\ d.idx = c.idx + 1 /\ d.full = c.full /\ d.blocks = c.blocks
      /\ d.at = "map" \/ d.at = "xfer"
  BY <1>1, GatherIs
<1> QED  BY <1>1, <1>2 DEF WriteOK

LEMMA FilledWrites ==
    ASSUME NEW c, NEW p, NEW f, NEW s, WritePlace(c, p, f, s), c.at = "map",
           c.blocks <= c.idx
    PROVE  WriteOK(Filled(c), p, f, s)
<1> DEFINE d == Filled(c)
<1>1. c.blocks = Blocks(f) /\ Blocks(s) = Larger(c.blocks, c.idx) /\ Transfer(c)
  BY DEF WritePlace, WriteOK
<1>2. d.idx = c.idx /\ d.blocks = c.blocks /\ d.at = "xfer"
  BY <1>1, FilledIs
<1> QED  BY <1>1, <1>2 DEF WriteOK

LEMMA MovedWrites ==
    ASSUME NEW c, NEW p, NEW f, NEW s, WritePlace(c, p, f, s), Due(c), ~c.full
    PROVE  WriteOK(Transferred(c, "size"), p + At(c.count), f, s)
<1> DEFINE d == Transferred(c, "size")
           k == At(c.count)
<1>1. /\ p \in Nat /\ f \in Nat /\ PlaceOK(c, p) /\ Transfer(c) /\ c.at # "size"
  BY DEF WritePlace, Due
<1>2. c.blocks = Blocks(f) /\ Blocks(s) = Larger(c.blocks, c.idx)
  BY <1>1 DEF WritePlace, WriteOK
<1>3. d.at \in {"map", "tail", "size"} /\ (d.at # "map" => p + k = At(c.idx))
  BY <1>1, TransferredPlace
<1>4. d.idx = c.idx /\ d.full = c.full /\ d.blocks = c.blocks
  BY <1>1, TransferredIs
<1>5. c.idx \in Nat /\ k \in Nat
  BY <1>1, SpanProducts DEF PlaceOK
<1> SUFFICES WriteOK(d, p + k, f, s)
  OBVIOUS
<1> HIDE DEF d, k
<1>6. ASSUME d.at = "size", f < p + k PROVE Blocks(p + k) = Blocks(s)
  <2>1. p + k = At(c.idx) /\ p + k \in Nat
    BY <1>1, <1>3, <1>5, <1>6
  <2>2. p + k <= At(c.idx) /\ At(c.idx) < (p + k) + BS
    BY <2>1, PosRange
  <2>3. Blocks(s) = Larger(Blocks(f), c.idx)
    BY <1>2
  <2> QED  BY <1>1, <1>5, <1>6, <2>1, <2>2, <2>3, EndBlocks
<1>7. ~d.full
  BY <1>4
<1> QED  BY <1>2, <1>3, <1>4, <1>6, <1>7 DEF WriteOK

LEMMA FullWrites ==
    ASSUME NEW c, NEW p, NEW f, NEW s, WritePlace(c, p, f, s), Due(c), c.full
    PROVE  /\ WriteOK(Ended(Transferred(c, "size")), p + At(c.count), f, s)
           /\ PlaceOK(Ended(Transferred(c, "size")), p + At(c.count))
<1> DEFINE e == Transferred(c, "size")
           d == Ended(e)
           k == At(c.count)
<1>1. /\ p \in Nat /\ f \in Nat /\ PlaceOK(c, p) /\ Transfer(c) /\ c.at = "xfer"
      /\ Spans(c, p)
  <2>1. p \in Nat /\ f \in Nat /\ PlaceOK(c, p) /\ Transfer(c)
    BY DEF WritePlace
  <2>2. c.at = "xfer"
    BY <2>1, DueIs
  <2> QED  BY <2>1, <2>2 DEF PlaceOK
<1>2. /\ c.blocks = Blocks(f) /\ Blocks(s) = Larger(c.blocks, c.idx) /\ c.blocks <= c.idx
  BY <1>1 DEF WritePlace, WriteOK
<1>3. At(c.idx) = p + k /\ c.idx < c.last
  BY <1>1 DEF PlaceOK, Stands
<1>4. /\ {c.left, c.idx, c.last, c.start, c.count, c.fblk, c.blocks} \subseteq Nat
      /\ At(c.idx) \in Nat /\ k \in Nat /\ k <= c.left
  BY <1>1, SpanProducts, DueIs
<1>5. Transfer(e)
  <2>1. NextPart(c.left - k, "size") \in {"map", "tail", "size"}
    BY DEF NextPart
  <2> QED  BY <1>1, <2>1 DEF Transferred, Moved, Transfer, Fields, At
<1>6. /\ e.start = c.fblk /\ e.fblk = c.fblk /\ e.idx = c.idx /\ e.count = 1
      /\ e.left = c.left - k /\ e.last = c.last /\ e.full = c.full
      /\ e.blocks = c.blocks
  <2>1. Transfer(c)
    BY <1>1
  <2> QED  BY <2>1 DEF Transferred, Moved, Transfer, Fields, At
<1>7. d.idx = e.idx /\ d.at = "size" /\ d.full = e.full /\ d.blocks = e.blocks
  BY <1>5, EndedIs
<1> SUFFICES WriteOK(d, p + k, f, s) /\ PlaceOK(d, p + k)
  OBVIOUS
<1> HIDE DEF k
<1>8. Spans(e, p + k)
  <2>1. e.left \in Nat /\ (p + k) + e.left = p + c.left
    BY <1>1, <1>4, <1>6
  <2>2. {e.left, e.idx, e.last, e.start, e.count, e.fblk, e.blocks} \subseteq Nat
    BY <1>4, <1>6, <2>1
  <2>3. p + c.left <= MaxPos /\ At(c.last) <= p + c.left /\ p + c.left < At(c.last) + BS
    BY <1>1 DEF Spans
  <2>4. /\ (p + k) + e.left <= MaxPos /\ At(e.last) <= (p + k) + e.left
        /\ (p + k) + e.left < At(e.last) + BS
    BY <1>6, <2>1, <2>3
  <2>5. e.full \in BOOLEAN
    BY <1>1, <1>6, Zenon DEF Spans
  <2>6. e.count = 1
    BY <1>6
  <2> QED  BY <2>2, <2>4, <2>5, <2>6 DEF Spans
<1>9. p + k \in Nat
  BY <1>1, <1>4
<1>10. PlaceOK(d, p + k)
  BY <1>5, <1>8, <1>9, EndedPlace
<1> HIDE DEF d, e
<1>11. Blocks(p + k) = c.idx
  BY <1>3, <1>4, <1>9, BlocksAre, PosRange
<1>12. Blocks(s) = c.idx
  <2>1. c.idx \in Nat /\ c.blocks \in Nat
    BY <1>4
  <2> QED  BY <1>2, <2>1 DEF Larger
<1>13. d.blocks <= d.idx
  BY <1>2, <1>6, <1>7
<1>14. WriteOK(d, p + k, f, s)
  BY <1>7, <1>11, <1>12, <1>13 DEF WriteOK
<1> QED  BY <1>10, <1>14

LEMMA TailWrites ==
    ASSUME NEW c, NEW p, NEW f, NEW s, WritePlace(c, p, f, s), c.at = "tail",
           NEW t, Blocks(t) = Larger(c.blocks, c.idx + 1)
    PROVE  /\ WriteOK(Ended(Moved(c, c.left)), p + c.left, f, t)
           /\ PlaceOK(Ended(Moved(c, c.left)), p + c.left)
<1> DEFINE e == Moved(c, c.left)
           d == Ended(e)
           k == c.left
<1>1. /\ p \in Nat /\ f \in Nat /\ PlaceOK(c, p) /\ Transfer(c) /\ Spans(c, p)
  BY DEF WritePlace, PlaceOK
<1>2. /\ c.blocks = Blocks(f) /\ (c.full => c.blocks <= c.idx)
  BY <1>1 DEF WritePlace, WriteOK
<1>3. At(c.idx) = p /\ 0 < k /\ k < BS
  BY <1>1 DEF PlaceOK, Stands
<1>4. /\ {c.left, c.idx, c.last, c.start, c.count, c.fblk, c.blocks} \subseteq Nat
      /\ At(c.idx) \in Nat /\ At(c.idx + 1) = At(c.idx) + BS
  BY <1>1, SpanProducts
<1>5. Transfer(e)
  BY <1>1 DEF Moved, Transfer, Fields
<1>6. /\ e.start = c.start /\ e.fblk = c.fblk /\ e.idx = c.idx /\ e.count = c.count
      /\ e.left = c.left - k /\ e.last = c.last /\ e.full = c.full
      /\ e.blocks = c.blocks
  BY <1>1 DEF Moved, Transfer, Fields
<1>7. d.idx = e.idx /\ d.at = "size" /\ d.full = e.full /\ d.blocks = e.blocks
  BY <1>5, EndedIs
<1>8. k \in Nat /\ k = c.left
  BY <1>4
<1> SUFFICES WriteOK(d, p + k, f, t) /\ PlaceOK(d, p + k)
  OBVIOUS
<1> HIDE DEF k
<1>9. Spans(e, p + k)
  <2>1. e.left = 0 /\ (p + k) + e.left = p + c.left
    BY <1>1, <1>6, <1>8
  <2>2. {e.left, e.idx, e.last, e.start, e.count, e.fblk, e.blocks} \subseteq Nat
    BY <1>4, <1>6, <2>1
  <2>3. p + c.left <= MaxPos /\ At(c.last) <= p + c.left /\ p + c.left < At(c.last) + BS
    BY <1>1 DEF Spans
  <2>4. /\ (p + k) + e.left <= MaxPos /\ At(e.last) <= (p + k) + e.left
        /\ (p + k) + e.left < At(e.last) + BS
    BY <1>6, <2>1, <2>3
  <2>5. e.full \in BOOLEAN
    BY <1>1, <1>6, Zenon DEF Spans
  <2>6. e.start # 0 => e.count > 0
    BY <1>1, <1>6 DEF Spans
  <2> QED  BY <2>2, <2>4, <2>5, <2>6 DEF Spans
<1>10. p + k \in Nat
  BY <1>1, <1>8
<1>11. PlaceOK(d, p + k)
  BY <1>5, <1>9, <1>10, EndedPlace
<1> HIDE DEF d, e
<1>12. ASSUME f < p + k PROVE Blocks(p + k) = Blocks(t)
  <2>1. Blocks(t) = Larger(Blocks(f), c.idx + 1)
    BY <1>2
  <2>2. p + k <= At(c.idx + 1) /\ At(c.idx + 1) < (p + k) + BS /\ c.idx + 1 \in Nat
    BY <1>1, <1>3, <1>4, <1>8, PosRange
  <2> QED  BY <1>1, <1>10, <1>12, <2>1, <2>2, EndBlocks
<1>13. d.full => d.blocks <= d.idx
  BY <1>2, <1>6, <1>7
<1>14. WriteOK(d, p + k, f, t)
  BY <1>7, <1>12, <1>13 DEF WriteOK
<1> QED  BY <1>11, <1>14

\* No block for the last part: the call ends where the whole blocks do.
LEMMA NoTailWrites ==
    ASSUME NEW c, NEW p, NEW f, NEW s, WritePlace(c, p, f, s), c.at = "tail",
           c.blocks <= c.idx
    PROVE  WriteOK(Ended(c), p, f, s) /\ PlaceOK(Ended(c), p)
<1> DEFINE d == Ended(c)
<1>1. /\ p \in Nat /\ f \in Nat /\ PlaceOK(c, p) /\ Transfer(c) /\ Spans(c, p)
  BY DEF WritePlace, PlaceOK
<1>2. /\ c.blocks = Blocks(f) /\ Blocks(s) = Larger(c.blocks, c.idx)
  BY <1>1 DEF WritePlace, WriteOK
<1>3. At(c.idx) = p
  BY <1>1 DEF PlaceOK, Stands
<1>4. c.idx \in Nat
  BY <1>1 DEF Spans
<1>5. d.idx = c.idx /\ d.at = "size" /\ d.blocks = c.blocks
  BY <1>1, EndedIs
<1>6. PlaceOK(d, p)
  BY <1>1, EndedPlace
<1>7. ASSUME f < p PROVE Blocks(p) = Blocks(s)
  <2>1. Blocks(s) = Larger(Blocks(f), c.idx)
    BY <1>2
  <2> QED  BY <1>1, <1>3, <1>4, <1>7, <2>1, EndBlocks, PosRange
<1> QED  BY <1>5, <1>6, <1>7 DEF WriteOK

-----------------------------------------------------------------------------
(* What a request for a block returns, and what a release leaves.          *)

\* What a caller relies on when it asked for block i of a file of size s.
Served(res, i, s) ==
    /\ res.r \in {"EOK", "ENOSPC", "EIO"}
    /\ res.size \in 0 .. MaxPos /\ Blocks(res.size) = s
    /\ res.r = "EOK" => res.idx = i /\ res.blk \in Nat
    /\ res.r = "EOK" /\ (Exact \/ inode.extents) => res.blk >= 1
    /\ Exact /\ res.r # "EIO" => FullMap(res.map, res.size, res.free)

LEMMA RefusedIs ==
    ASSUME NEW res, \/ res \in EIO
                    \/ res = ENOSPC
    PROVE  /\ res.size = inode.size /\ res.r \in {"ENOSPC", "EIO"}
           /\ res.r = "ENOSPC" => res.map = inode.map /\ res.free = free
<1>1. CASE res \in EIO
  <2>1. PICK fr : res = [ENOSPC EXCEPT !.r = "EIO", !.free = fr]
    BY <1>1 DEF EIO
  <2> QED  BY <2>1 DEF ENOSPC
<1>2. CASE res = ENOSPC
  BY <1>2 DEF ENOSPC
<1> QED  BY <1>1, <1>2

LEMMA RefusedServes ==
    ASSUME NEW res, res \in EIO \/ res = ENOSPC, NEW i, inode.size \in 0 .. MaxPos
    PROVE  Served(res, i, Blocks(inode.size)) /\ res.r # "EOK" /\ res.size = inode.size
<1>1. /\ res.size = inode.size /\ res.r \in {"ENOSPC", "EIO"}
      /\ res.r = "ENOSPC" => res.map = inode.map /\ res.free = free
  BY RefusedIs
<1> QED  BY <1>1 DEF Served, Exact

\* A block the file should have: it has it, or one with extents gets it.
LEMMA InitServes ==
    ASSUME MapInv, inode.size \in 0 .. MaxPos, NEW i \in FileBlock, i < Blocks(inode.size),
           NEW res \in InitBlock(i)
    PROVE  Served(res, i, Blocks(inode.size)) /\ res.size = inode.size
<1>1. inode.size > 0
  <2>1. ASSUME inode.size = 0 PROVE FALSE
    <3>1. Blocks(0) = 0
      BY BlocksAre, AtIs, PosRange
    <3> QED  BY <2>1, <3>1 DEF FileBlock
  <2> QED  BY <2>1, PosRange
<1>2. inode.map[i] \in Nat
  BY SizesAssumption DEF MapInv, Places
<1>3. Exact => inode.map[i] # 0
  BY DEF Exact, FullMap
<1>4. CASE res \in EIO
  BY <1>4, RefusedServes
<1>5. CASE inode.extents /\ inode.map[i] = 0 /\ res \in Allocated(i, inode.size)
  <2>1. CASE free = {}
    BY <1>5, <2>1, RefusedServes DEF Allocated
  <2>2. CASE free # {}
    <3>1. PICK b \in free : res = EOK(b, i, [inode.map EXCEPT ![i] = b], free \ {b}, inode.size)
      BY <1>5, <2>2 DEF Allocated
    <3>2. res.r = "EOK" /\ res.blk = b /\ res.idx = i /\ res.size = inode.size
      BY <3>1 DEF EOK
    <3>3. b \in Nat /\ b >= 1
      BY SizesAssumption DEF MapInv, Places, Phys
    <3>4. ~Exact
      BY <1>3, <1>5
    <3> QED  BY <3>2, <3>3, <3>4 DEF Served
  <2> QED  BY <2>1, <2>2
<1>6. CASE /\ ~(inode.extents /\ inode.map[i] = 0)
           /\ res = EOK(inode.map[i], i, inode.map, free, inode.size)
  <2>1. /\ res.r = "EOK" /\ res.blk = inode.map[i] /\ res.idx = i /\ res.size = inode.size
        /\ res.map = inode.map /\ res.free = free
    BY <1>6 DEF EOK
  <2>2. Exact \/ inode.extents => inode.map[i] >= 1
    BY <1>2, <1>3, <1>6
  <2> QED  BY <1>2, <2>1, <2>2 DEF Served, Exact
<1>7. Lookup(i) = inode.map[i]
  BY <1>1 DEF Lookup
<1> QED  BY <1>1, <1>4, <1>5, <1>6, <1>7 DEF InitBlock

\* A file that has just the blocks it needs, with one more at its end.
LEMMA GrownIsFull ==
    ASSUME MapInv, Exact, inode.size \in 0 .. MaxPos, Blocks(inode.size) < FB,
           NEW b \in free, NEW s, Blocks(s) = Blocks(inode.size) + 1
    PROVE  FullMap([inode.map EXCEPT ![Blocks(inode.size)] = b], s, free \ {b})
<1> DEFINE n == Blocks(inode.size)
           map == [inode.map EXCEPT ![n] = b]
<1>1. n \in FileBlock /\ n \in Nat
  BY BlocksBound, PosRange DEF FileBlock
<1>2. b \in Phys /\ b # 0
  BY DEF MapInv, Places, Phys
<1>3. \A i \in FileBlock : map[i] = IF i = n THEN b ELSE inode.map[i]
  BY <1>1 DEF MapInv, Places
<1>4. /\ \A i \in FileBlock : inode.map[i] # 0 <=> i < n
      /\ free = Phys \ {inode.map[i] : i \in FileBlock}
  BY DEF Exact, FullMap
<1>5. Blocks(s) = n + 1
  OBVIOUS
<1> HIDE DEF n, map
<1>6. inode.map[n] = 0
  BY <1>1, <1>4
<1>7. \A i \in FileBlock : map[i] # 0 <=> i < n + 1
  BY <1>1, <1>2, <1>3, <1>4 DEF FileBlock
<1>8. free \ {b} = Phys \ {map[i] : i \in FileBlock}
  <2>1. ASSUME NEW x \in free, x # b, NEW i \in FileBlock PROVE x # map[i]
    BY <1>3, <1>4, <2>1
  <2>2. ASSUME NEW x \in Phys, \A i \in FileBlock : x # map[i] PROVE x \in free /\ x # b
    <3>1. x # b
      BY <1>1, <1>3, <2>2
    <3>2. x # 0
      BY DEF Phys
    <3>3. \A i \in FileBlock : x # inode.map[i]
      BY <1>3, <1>6, <2>2, <3>2
    <3> QED  BY <1>4, <3>1, <3>3
  <2>3. free \subseteq Phys
    BY <1>4
  <2> QED  BY <2>1, <2>2, <2>3
<1> QED  BY <1>5, <1>7, <1>8 DEF FullMap, n, map

\* The block after the last: the size counts it.
LEMMA AppendServes ==
    ASSUME MapInv, inode.size \in 0 .. MaxPos, Blocks(inode.size) < FB, NEW res \in AppendBlock
    PROVE  \/ res.r = "EOK" /\ Served(res, Blocks(inode.size), Blocks(inode.size) + 1)
           \/ /\ res.r # "EOK" /\ res.size = inode.size
              /\ Served(res, Blocks(inode.size), Blocks(inode.size))
<1> DEFINE n == Blocks(inode.size)
           s == IF inode.extents THEN inode.size + BS ELSE n * BS + BS
<1>1. /\ n \in 0 .. FB /\ n < FB /\ n \in FileBlock /\ n \in Nat /\ inode.size \in Nat
      /\ inode.size <= At(n) /\ At(n) < inode.size + BS /\ At(n) \in Nat
  <2>1. n \in 0 .. FB
    BY BlocksBound
  <2>2. n \in Nat /\ n < FB /\ n \in FileBlock /\ inode.size \in Nat
    BY <2>1, PosRange DEF FileBlock
  <2> QED  BY <2>1, <2>2, BlocksIs, AtIs
<1>2. s \in 0 .. MaxPos /\ Blocks(s) = n + 1
  <2>1. n * BS + BS = At(n) + BS
    BY <1>1, PosRange DEF At
  <2>2. At(n + 1) = At(n) + BS /\ n + 1 \in Nat
    BY <1>1, AtIs
  <2>3. s \in Nat /\ s <= At(n + 1) /\ At(n + 1) < s + BS
    BY <1>1, <2>1, <2>2, PosRange
  <2>4. At(n) + BS <= At(FB)
    BY <1>1, AtMono, PosRange
  <2>5. s <= MaxPos /\ MaxPos \in Nat
    BY <1>1, <2>2, <2>3, <2>4, PosRange
  <2>6. Blocks(s) = n + 1
    BY <2>2, <2>3, BlocksAre
  <2> HIDE DEF s
  <2> QED  BY <2>3, <2>5, <2>6
<1>3. /\ Blocks(inode.size) = n
      /\ inode.extents => s = inode.size + BS
      /\ ~inode.extents => s = n * BS + BS
  OBVIOUS
<1>4. \/ res \in EIO
      \/ /\ inode.extents /\ inode.map[n] # 0
         /\ res = EOK(inode.map[n], n, inode.map, free, s)
      \/ res \in Allocated(n, s)
  BY DEF AppendBlock
<1>5. Exact => inode.map[n] = 0
  BY <1>1 DEF Exact, FullMap
<1> HIDE DEF s
<1>6. CASE res \in EIO \/ res = ENOSPC
  BY <1>6, RefusedServes
<1>7. CASE /\ inode.extents /\ inode.map[n] # 0
           /\ res = EOK(inode.map[n], n, inode.map, free, s)
  <2>1. res.r = "EOK" /\ res.blk = inode.map[n] /\ res.idx = n /\ res.size = s
    BY <1>7 DEF EOK
  <2>2. inode.map[n] \in Nat
    BY <1>1, SizesAssumption DEF MapInv, Places
  <2>3. ~Exact
    BY <1>5, <1>7
  <2> QED  BY <1>2, <1>7, <2>1, <2>2, <2>3 DEF Served
<1>8. CASE \E b \in free : res = EOK(b, n, [inode.map EXCEPT ![n] = b], free \ {b}, s)
  <2>1. PICK b \in free : res = EOK(b, n, [inode.map EXCEPT ![n] = b], free \ {b}, s)
    BY <1>8
  <2>2. /\ res.r = "EOK" /\ res.blk = b /\ res.idx = n /\ res.size = s
        /\ res.map = [inode.map EXCEPT ![n] = b] /\ res.free = free \ {b}
    BY <2>1 DEF EOK
  <2>3. b \in Nat /\ b >= 1
    BY SizesAssumption DEF MapInv, Places, Phys
  <2>4. Exact => FullMap(res.map, res.size, res.free)
    BY <1>1, <1>2, <2>2, GrownIsFull
  <2> QED  BY <1>2, <2>2, <2>3, <2>4 DEF Served
<1> QED  BY <1>4, <1>6, <1>7, <1>8 DEF Allocated

\* The block a write asks for, and the size that goes with it.
LEMMA WriteServes ==
    ASSUME MapInv, inode.size \in 0 .. MaxPos, NEW c, c.idx \in Nat, c.blocks \in Nat,
           c.idx < FB, Blocks(inode.size) = Larger(c.blocks, c.idx), NEW res \in BlockFor(c)
    PROVE  \/ res.r = "EOK" /\ Served(res, c.idx, Larger(c.blocks, c.idx + 1))
           \/ /\ res.r # "EOK" /\ res.size = inode.size
              /\ Served(res, c.idx, Blocks(inode.size))
<1>1. CASE c.idx < c.blocks
  <2>1. Blocks(inode.size) = c.blocks /\ Larger(c.blocks, c.idx + 1) = c.blocks
    BY <1>1 DEF Larger
  <2>2. c.idx \in FileBlock /\ res \in InitBlock(c.idx)
    BY <1>1, PosRange DEF BlockFor, FileBlock
  <2> QED  BY <1>1, <2>1, <2>2, InitServes
<1>2. CASE ~(c.idx < c.blocks)
  <2>1. Blocks(inode.size) = c.idx /\ Larger(c.blocks, c.idx + 1) = c.idx + 1
    BY <1>2 DEF Larger
  <2>2. res \in AppendBlock
    BY <1>2 DEF BlockFor
  <2> QED  BY <2>1, <2>2, AppendServes
<1> QED  BY <1>1, <1>2

\* What a truncation gives up of a file that has just the blocks it needs.
LEMMA ReleaseIsFull ==
    ASSUME MapInv, Exact, inode.size \in 0 .. MaxPos, NEW size \in Nat, size <= inode.size,
           Released(CutBlocks(size), {}, size)
    PROVE  Exact'
<1> DEFINE I == CutBlocks(size)
           n == Blocks(size)
           m == Blocks(inode.size)
<1>1. n \in Nat /\ m \in Nat /\ n <= m /\ m <= FB
  BY BlocksMono, BlocksIs, BlocksBound, PosRange
<1>2. /\ \A i \in FileBlock : inode.map[i] # 0 <=> i < m
      /\ free = Phys \ {inode.map[i] : i \in FileBlock}
      /\ \A i \in FileBlock : inode.map[i] \in 0 .. NP
      /\ \A i, j \in FileBlock : inode.map[i] # 0 /\ inode.map[i] = inode.map[j] => i = j
  BY DEF Exact, FullMap, MapInv, Places
<1>3. inode' = [inode EXCEPT !.size = size,
                   !.map = [i \in FileBlock |-> IF i \in I THEN 0 ELSE inode.map[i]]]
  BY DEF Released
<1>4. /\ inode'.map = [i \in FileBlock |-> IF i \in I THEN 0 ELSE inode.map[i]]
      /\ inode'.size = size
  BY <1>3 DEF MapInv
<1>5. free' = free \cup Mapped(I)
  BY DEF Released
<1>6. \A i \in FileBlock : i < m => (i \in I <=> n <= i)
  <2>1. CASE n = m
    BY <1>1, <2>1 DEF CutBlocks, FileBlock
  <2>2. CASE n < m
    <3>1. n \in FileBlock
      BY <1>1, <2>2, PosRange DEF FileBlock
    <3>2. inode.map[n] # 0
      BY <1>2, <2>2, <3>1
    <3>3. I = {i \in FileBlock : i >= n /\ (inode.extents \/ i < m)}
      BY <1>1, <2>2, <3>2 DEF CutBlocks
    <3> QED  BY <1>1, <3>3 DEF FileBlock
  <2> QED  BY <1>1, <2>1, <2>2
<1>7. Mapped(I) = {inode.map[i] : i \in {j \in FileBlock : n <= j /\ j < m}}
  <2>1. I \subseteq FileBlock
    BY CutBlocksOfFile
  <2>2. ASSUME NEW x \in Mapped(I)
        PROVE  x \in {inode.map[i] : i \in {j \in FileBlock : n <= j /\ j < m}}
    <3>1. PICK i \in I : x = inode.map[i] /\ x # 0
      BY DEF Mapped
    <3> QED  BY <1>2, <1>6, <2>1, <3>1
  <2>3. ASSUME NEW i \in FileBlock, n <= i, i < m PROVE inode.map[i] \in Mapped(I)
    BY <1>2, <1>6, <2>3 DEF Mapped
  <2> QED  BY <2>2, <2>3
<1> HIDE DEF I, n, m
<1>8. ASSUME NEW i \in FileBlock
      PROVE  /\ i < n => inode'.map[i] = inode.map[i] /\ inode'.map[i] # 0
             /\ n <= i => inode'.map[i] = 0
  <2>1. CASE i < n
    <3>1. i < m /\ i \notin I
      BY <1>1, <1>6, <2>1 DEF FileBlock
    <3> QED  BY <1>1, <1>2, <1>4, <2>1, <3>1 DEF FileBlock
  <2>2. CASE n <= i
    <3>1. i < m => i \in I
      BY <1>6, <2>2
    <3>2. ~(i < m) => inode.map[i] = 0
      BY <1>2
    <3> QED  BY <1>1, <1>4, <2>2, <3>1, <3>2 DEF FileBlock
  <2> QED  BY <1>1, <2>1, <2>2 DEF FileBlock
<1>9. free' = Phys \ {inode'.map[i] : i \in FileBlock}
  <2>1. ASSUME NEW x \in free' PROVE x \in Phys /\ x \notin {inode'.map[i] : i \in FileBlock}
    <3>1. CASE x \in free
      <4>1. x \in Phys /\ x # 0 /\ \A i \in FileBlock : x # inode.map[i]
        BY <1>2, <3>1 DEF Phys
      <4> QED  BY <1>1, <1>8, <4>1 DEF FileBlock
    <3>2. CASE x \in Mapped(I)
      <4>1. PICK i \in FileBlock : n <= i /\ i < m /\ x = inode.map[i]
        BY <1>7, <3>2
      <4>2. x # 0 /\ x \in Phys
        BY <1>2, <4>1 DEF Phys
      <4>3. ASSUME NEW j \in FileBlock, x = inode'.map[j] PROVE FALSE
        <5>1. j < n /\ inode'.map[j] = inode.map[j]
          BY <1>1, <1>8, <4>2, <4>3 DEF FileBlock
        <5>2. j = i
          BY <1>2, <4>1, <4>2, <4>3, <5>1
        <5> QED  BY <1>1, <4>1, <5>1, <5>2 DEF FileBlock
      <4> QED  BY <4>2, <4>3
    <3> QED  BY <1>5, <3>1, <3>2
  <2>2. ASSUME NEW x \in Phys, x \notin {inode'.map[i] : i \in FileBlock} PROVE x \in free'
    <3>1. CASE \E i \in FileBlock : x = inode.map[i]
      <4>1. PICK i \in FileBlock : x = inode.map[i]
        BY <3>1
      <4>2. x # 0
        BY DEF Phys
      <4>3. i < m /\ ~(i < n)
        BY <1>2, <1>8, <2>2, <4>1, <4>2
      <4>4. n <= i
        BY <1>1, <4>3 DEF FileBlock
      <4> QED  BY <1>5, <1>7, <4>1, <4>3, <4>4
    <3>2. CASE ~\E i \in FileBlock : x = inode.map[i]
      BY <1>2, <1>5, <3>2
    <3> QED  BY <3>1, <3>2
  <2> QED  BY <2>1, <2>2
<1>10. \A i \in FileBlock : inode'.map[i] # 0 <=> i < n
  BY <1>1, <1>8 DEF FileBlock
<1>11. Blocks(size) = n
  BY DEF n
<1> QED  BY <1>4, <1>9, <1>10, <1>11 DEF Exact, FullMap, Blocks, FileBlock, Phys

-----------------------------------------------------------------------------
(* The invariant.                                                          *)

Sizes ==
    /\ Positions
    /\ ~io_error => Exact
    /\ Sheltered => Intact

Clear(d) == \A c \in 0 .. (BS - 1) : d[0][c] = Super

LEMMA IntactIs == Intact <=> Clear(data) /\ Gathered
BY DEF Intact, Clear

\* What is written to other blocks leaves the first one alone.
LEMMA OverlayClear ==
    ASSUME Clear(data), NEW b, NEW off \in Nat, NEW n \in Nat, NEW k,
           n = 0 \/ (b \in Nat /\ b >= 1)
    PROVE  Clear(Overlay(b, off, n, k))
<1> SUFFICES ASSUME NEW c \in 0 .. (BS - 1)
             PROVE  Overlay(b, off, n, k)[0][c] = Super
  BY DEF Clear
<1>1. 0 \in 0 .. NP /\ BS \in Nat \ {0}
  BY SizesAssumption
<1> DEFINE j == (0 - b) * BS + c - off
<1>2. Overlay(b, off, n, k)[0][c] = IF j \in 0 .. (n - 1) THEN Buf(k + j) ELSE data[0][c]
  BY <1>1 DEF Overlay
<1>3. j \notin 0 .. (n - 1)
  <2>1. CASE n = 0
    BY <2>1
  <2>2. CASE b \in Nat /\ b >= 1
    <3>1. At(b) \in Nat /\ BS <= At(b)
      BY <2>2, AtIs
    <3>2. (0 - b) * BS = 0 - At(b)
      BY <1>1, <2>2 DEF At
    <3>3. j < 0
      BY <1>1, <3>1, <3>2
    <3> HIDE DEF j
    <3> QED  BY <3>3
  <2> QED  BY <2>1, <2>2
<1>4. data[0][c] = Super
  BY DEF Clear
<1> QED  BY <1>2, <1>3, <1>4

LEMMA WipedClear ==
    ASSUME Clear(data), NEW S, 0 \notin S
    PROVE  Clear(Wiped(S))
<1>1. 0 \in 0 .. NP
  BY SizesAssumption
<1> QED  BY <1>1 DEF Wiped, Clear

LEMMA FileSet ==
    ASSUME FilesOK, NEW h \in Handle, NEW r, FileOK(r), file' = [file EXCEPT ![h] = r]
    PROVE  FilesOK' /\ file'[h] = r
<1>1. \A x \in Handle : file'[x] = IF x = h THEN r ELSE file[x]
  BY DEF FilesOK
<1>2. file' = [x \in Handle |-> file'[x]]
  BY DEF FilesOK
<1>3. \A x \in Handle : FileOK(file'[x])
  BY <1>1 DEF FilesOK
<1> QED  BY <1>1, <1>2, <1>3 DEF FilesOK

\* The size is read again.
LEMMA SizeRead ==
    ASSUME FilesOK, NEW h \in Handle, NEW s \in 0 .. MaxPos,
           file' = [file EXCEPT ![h].fsize = s]
    PROVE  FilesOK' /\ file'[h].fsize = s /\ file'[h].fpos = file[h].fpos
<1> DEFINE r == [file[h] EXCEPT !.fsize = s]
<1>1. FileOK(file[h])
  BY DEF FilesOK
<1>2. r.fsize = s /\ r.fpos = file[h].fpos /\ r.open = file[h].open /\ r.wronly = file[h].wronly
      /\ r = [open |-> r.open, wronly |-> r.wronly, fpos |-> r.fpos, fsize |-> r.fsize]
  BY <1>1 DEF FileOK
<1>3. FileOK(r)
  BY <1>1, <1>2 DEF FileOK
<1>4. file' = [file EXCEPT ![h] = r]
  OBVIOUS
<1> HIDE DEF r
<1> QED  BY <1>2, <1>3, <1>4, FileSet

LEMMA Moves ==
    ASSUME FilesOK, NEW h \in Handle, NEW q \in 0 .. MaxPos,
           file' = [file EXCEPT ![h].fpos = q]
    PROVE  FilesOK' /\ file'[h].fpos = q /\ file'[h].fsize = file[h].fsize
<1> DEFINE r == [file[h] EXCEPT !.fpos = q]
<1>1. FileOK(file[h])
  BY DEF FilesOK
<1>2. r.fsize = file[h].fsize /\ r.fpos = q /\ r.open = file[h].open /\ r.wronly = file[h].wronly
      /\ r = [open |-> r.open, wronly |-> r.wronly, fpos |-> r.fpos, fsize |-> r.fsize]
  BY <1>1 DEF FileOK
<1>3. FileOK(r)
  BY <1>1, <1>2 DEF FileOK
<1>4. file' = [file EXCEPT ![h] = r]
  OBVIOUS
<1> HIDE DEF r
<1> QED  BY <1>2, <1>3, <1>4, FileSet

LEMMA Advances ==
    ASSUME FilesOK, call.h \in Handle, NEW k \in Nat, file[call.h].fpos + k <= MaxPos, Advance(k)
    PROVE  /\ FilesOK' /\ file'[call.h].fpos = file[call.h].fpos + k
           /\ file'[call.h].fsize = file[call.h].fsize
<1>1. file[call.h].fpos + k \in 0 .. MaxPos
  BY PosRange DEF FilesOK, FileOK
<1>2. file' = [file EXCEPT ![call.h].fpos = file[call.h].fpos + k]
  BY DEF Advance
<1> QED  BY <1>1, <1>2, Moves

\* The states a step may reach: no call, or a transfer in its place.
LEMMA IdleSizes ==
    ASSUME call'.at = "idle", inode'.size \in 0 .. MaxPos, FilesOK',
           ~io_error' => Exact', Sheltered' => Clear(data')
    PROVE  Sizes'
<1>1. ~Transfer(call')
  BY DEF Transfer
<1>2. Positions'
  BY <1>1 DEF Positions
<1>3. Gathered'
  BY DEF Gathered
<1>4. Sheltered' => Intact'
  BY <1>3 DEF Intact, Clear
<1> QED  BY <1>2, <1>4 DEF Sizes

LEMMA EndsSizes ==
    ASSUME call' = NoCall, inode'.size \in 0 .. MaxPos, FilesOK',
           ~io_error' => Exact', Sheltered' => Clear(data')
    PROVE  Sizes'
BY NoCallIdle, IdleSizes

LEMMA CutSizes ==
    ASSUME call'.at = "cut", CutOK(call', inode'.size), inode'.size \in 0 .. MaxPos, FilesOK',
           ~io_error' => Exact', Sheltered' => Clear(data')
    PROVE  Sizes'
<1>1. ~Transfer(call')
  BY DEF Transfer
<1>2. Positions'
  BY <1>1 DEF Positions
<1>3. Gathered'
  BY DEF Gathered
<1>4. Sheltered' => Intact'
  BY <1>3 DEF Intact, Clear
<1> QED  BY <1>2, <1>4 DEF Sizes

LEMMA GoesOnSizes ==
    ASSUME Transfer(call'), call'.h \in Handle, inode'.size \in 0 .. MaxPos, FilesOK',
           PlaceOK(call', file'[call'.h].fpos),
           call'.op = "fread" => call'.full = FALSE,
           call'.op = "fwrite" =>
             WriteOK(call', file'[call'.h].fpos, file'[call'.h].fsize, inode'.size),
           ~io_error' => Exact', Sheltered' => Clear(data') /\ Gathered'
    PROVE  Sizes'
<1>1. call'.at # "cut"
  BY DEF Transfer
<1>2. Positions'
  BY <1>1 DEF Positions
<1>3. Sheltered' => Intact'
  BY DEF Intact, Clear
<1> QED  BY <1>2, <1>3 DEF Sizes

LEMMA ExactKept ==
    ASSUME Exact, UNCHANGED <<inode, free>>
    PROVE  Exact'
BY DEF Exact, FullMap, Blocks, FileBlock, Phys

\* What the invariant says of the transfer under way.
LEMMA UnderWay ==
    ASSUME Sizes, Transfer(call)
    PROVE  /\ FilesOK /\ call.h \in Handle /\ inode.size \in 0 .. MaxPos
           /\ file[call.h].fpos \in Nat /\ file[call.h].fsize \in Nat
           /\ PlaceOK(call, file[call.h].fpos) /\ Spans(call, file[call.h].fpos)
           /\ file[call.h].fpos + call.left <= MaxPos
           /\ call.op = "fread" => call.full = FALSE
           /\ call.op = "fwrite" =>
                WritePlace(call, file[call.h].fpos, file[call.h].fsize, inode.size)
<1>1. /\ FilesOK /\ call.h \in Handle /\ inode.size \in 0 .. MaxPos
      /\ PlaceOK(call, file[call.h].fpos)
      /\ call.op = "fread" => call.full = FALSE
      /\ call.op = "fwrite" =>
           WriteOK(call, file[call.h].fpos, file[call.h].fsize, inode.size)
  BY DEF Sizes, Positions
<1>2. file[call.h].fpos \in Nat /\ file[call.h].fsize \in Nat
  BY <1>1, PosRange DEF FilesOK, FileOK
<1>3. Spans(call, file[call.h].fpos) /\ file[call.h].fpos + call.left <= MaxPos
  BY <1>1 DEF PlaceOK, Spans
<1> QED  BY <1>1, <1>2, <1>3 DEF WritePlace

\* A transfer stays in the range of positions.
LEMMA LastBlock ==
    ASSUME NEW c, NEW p \in Nat, Spans(c, p)
    PROVE  c.last \in Nat /\ c.last <= FB
<1>1. c.last \in Nat /\ c.left \in Nat /\ p + c.left <= MaxPos /\ At(c.last) <= p + c.left
  BY DEF Spans
<1>2. ASSUME FB < c.last PROVE FALSE
  <2>1. At(FB) + BS <= At(c.last) /\ At(c.last) \in Nat
    BY <1>1, <1>2, AtMono, AtIs, PosRange
  <2> QED  BY <1>1, <2>1, PosRange
<1> QED  BY <1>1, <1>2, PosRange

LEMMA HeadLengthIs ==
    ASSUME NEW h, call.h = h
    PROVE  HeadLength = Least(call.left, BS - (file[h].fpos % BS))
BY DEF HeadLength, Unaligned

LEMMA ReadSizes ==
    ASSUME MapInv, DepthInv, Sizes,
           FreadHead \/ FreadMap \/ FreadBlocks \/ FreadTail \/ FreadFails
    PROVE  Sizes'
<1> DEFINE p == file[call.h].fpos
<1>1. Transfer(call) /\ call.op = "fread"
  <2>1. \/ call.op = "fread" /\ call.at \in {"head", "map", "xfer", "tail"}
        \/ FreadFails
    BY DEF FreadHead, FreadMap, FreadBlocks, FreadTail, In, Due
  <2>2. CASE FreadFails
    BY <2>2 DEF FreadFails, DepthInv
  <2> QED  BY <2>1, <2>2 DEF DepthInv
<1>2. /\ FilesOK /\ call.h \in Handle /\ inode.size \in 0 .. MaxPos
      /\ p \in Nat /\ PlaceOK(call, p) /\ Spans(call, p) /\ p + call.left <= MaxPos
      /\ call.full = FALSE
  BY <1>1, UnderWay
<1>3. UNCHANGED <<data, free, inode, io_error>>
  BY DEF FreadHead, FreadMap, FreadBlocks, FreadTail, FreadFails
<1>4. (~io_error' => Exact') /\ (Sheltered' => Clear(data'))
  <2>1. Sheltered' => Sheltered
    BY <1>3 DEF Sheltered
  <2> QED  BY <1>3, <2>1, ExactKept, IntactIs DEF Sizes
<1>5. ASSUME FilesOK',
             \/ call' = NoCall
             \/ /\ Transfer(call') /\ call'.h = call.h /\ call'.op = "fread"
                /\ call'.full = FALSE /\ PlaceOK(call', file'[call.h].fpos)
      PROVE  Sizes'
  <2>1. inode'.size \in 0 .. MaxPos
    BY <1>2, <1>3
  <2>2. CASE call' = NoCall
    BY <1>4, <1>5, <2>1, <2>2, EndsSizes
  <2>3. CASE call' # NoCall
    <3>1. Gathered'
      BY <1>5, <2>3 DEF Gathered
    <3>2. call'.op # "fwrite"
      BY <1>5, <2>3
    <3> QED  BY <1>2, <1>4, <1>5, <2>1, <2>3, <3>1, <3>2, GoesOnSizes
  <2> QED  BY <2>2, <2>3
<1>6. CASE FreadHead
  <2> DEFINE k == HeadLength
             d == HeadMoved(call, k, "done")
  <2>1. call.at = "head" /\ Advance(k) /\ Continue(d)
    BY <1>6 DEF FreadHead, In
  <2>2. k = Least(call.left, BS - (p % BS))
    BY HeadLengthIs
  <2>3. PlaceOK(d, p + k) /\ k \in Nat /\ d.left = call.left - k /\ d.left \in Nat
    <3>1. PlaceOK(d, p + k) /\ k \in Nat /\ d.left = call.left - k
      BY <1>1, <1>2, <2>1, <2>2, HeadPlace
    <3> QED  BY <3>1 DEF PlaceOK, Spans
  <2>4. p + k <= MaxPos
    BY <1>2, <2>3, PosRange DEF Spans
  <2>5. FilesOK' /\ file'[call.h].fpos = p + k
    BY <1>2, <2>1, <2>3, <2>4, Advances
  <2>6. d.h = call.h
    BY <1>1 DEF HeadMoved, Moved, Transfer, Fields
  <2>7. d.at = "done" \/ (Transfer(d) /\ d.op = "fread" /\ d.full = FALSE)
    BY <1>1, <1>2, HeadMovedShape DEF SameTransfer
  <2>8. call' = NoCall \/ (call' = d /\ d.at # "done")
    BY <2>1 DEF Continue
  <2> HIDE DEF d, k
  <2> QED  BY <1>5, <2>3, <2>5, <2>6, <2>7, <2>8
<1>7. CASE FreadMap
  <2> DEFINE b == Lookup(call.idx)
             d == Gather(call, b, call.idx)
  <2>1. call.at = "map" /\ call.idx < call.last /\ call' = d /\ file' = file
    BY <1>7 DEF FreadMap, In
  <2>2. b \in Nat
    <3>1. call.idx \in Nat /\ call.last \in Nat
      BY <1>2 DEF Spans
    <3>2. call.last <= FB
      BY <1>2, LastBlock
    <3>3. call.idx \in FileBlock
      BY <2>1, <3>1, <3>2, PosRange DEF FileBlock
    <3>4. inode.map[call.idx] \in 0 .. NP
      BY <3>3 DEF MapInv, Places
    <3> QED  BY <3>4, SizesAssumption DEF Lookup
  <2>3. PlaceOK(d, p)
    BY <1>1, <1>2, <2>1, <2>2, GatherPlace
  <2>4. Transfer(d) /\ d.op = "fread" /\ d.full = FALSE
    BY <1>1, <1>2, GatherShape DEF SameTransfer
  <2>5. d.h = call.h
    BY <1>1, GatherIs
  <2>6. FilesOK'
    BY <1>2, <2>1 DEF FilesOK, FileOK, MaxPos
  <2> HIDE DEF d
  <2> QED  BY <1>5, <2>1, <2>3, <2>4, <2>5, <2>6
<1>8. CASE FreadBlocks
  <2> DEFINE k == BS * call.count
             d == Transferred(call, "done")
  <2>1. Due(call) /\ Advance(k) /\ Continue(d)
    BY <1>8 DEF FreadBlocks
  <2>2. k = At(call.count)
    BY DEF At
  <2>3. k \in Nat /\ k <= call.left /\ p + k <= MaxPos
    BY <1>2, <2>1, <2>2, DueIs, PosRange DEF Spans
  <2>4. PlaceOK(d, p + k)
    BY <1>1, <1>2, <2>1, <2>2, TransferredPlace
  <2>5. FilesOK' /\ file'[call.h].fpos = p + k
    BY <1>2, <2>1, <2>3, Advances
  <2>6. d.h = call.h
    BY <1>1, TransferredIs
  <2>7. d.at = "done" \/ (Transfer(d) /\ d.op = "fread" /\ d.full = FALSE)
    BY <1>1, <1>2, TransferredShape DEF SameTransfer
  <2>8. call' = NoCall \/ (call' = d /\ d.at # "done")
    BY <2>1 DEF Continue
  <2> HIDE DEF d, k
  <2> QED  BY <1>5, <2>4, <2>5, <2>6, <2>7, <2>8
<1>9. CASE FreadTail
  <2>1. Advance(call.left) /\ call' = NoCall
    BY <1>9 DEF FreadTail
  <2>2. call.left \in Nat
    BY <1>2 DEF Spans
  <2>3. FilesOK'
    BY <1>2, <2>1, <2>2, Advances
  <2> QED  BY <1>5, <2>1, <2>3
<1>10. CASE FreadFails
  <2>1. call' = NoCall /\ FilesOK'
    BY <1>2, <1>10 DEF FreadFails, FilesOK, FileOK, MaxPos
  <2> QED  BY <1>5, <2>1
<1> QED  BY <1>6, <1>7, <1>8, <1>9, <1>10

LEMMA BeginSizes ==
    ASSUME MapInv, DepthInv, Sizes, ~beyond', NEW h \in Handle,
           \/ \E n \in Amount : FreadStart(h, n) \/ FwriteStart(h, n)
           \/ \E n \in Length : FtruncateStart(h, n)
           \/ \E m \in Mode : FopenStart(h, m)
           \/ \E o \in Offset : Fseek(h, o)
           \/ Fclose(h)
    PROVE  Sizes'
<1> DEFINE s == inode.size
           p == file[h].fpos
<1>1. call.at = "idle" /\ UNCHANGED <<data, free, inode, io_error>>
  BY DEF FreadStart, FwriteStart, FtruncateStart, FopenStart, Fseek, Fclose, Begin
<1>2. FilesOK /\ s \in 0 .. MaxPos /\ s \in Nat /\ s <= MaxPos
  BY PosRange DEF Sizes, Positions
<1>3. (~io_error' => Exact') /\ (Sheltered' => Clear(data'))
  <2>1. Sheltered' => Sheltered
    BY <1>1 DEF Sheltered
  <2> QED  BY <1>1, <2>1, ExactKept, IntactIs DEF Sizes
<1>4. inode' = inode /\ inode'.size \in 0 .. MaxPos
  BY <1>1, <1>2
<1>5. p \in Nat /\ file[h].fsize \in Nat /\ p <= MaxPos /\ file[h].fsize <= MaxPos /\ FileOK(file[h])
  BY <1>2, PosRange DEF FilesOK, FileOK
<1>6. ASSUME NEW n \in Amount, FreadStart(h, n) PROVE Sizes'
  <2> DEFINE m == IF s - p < 0 THEN n ELSE Least(n, s - p)
             c == Locals("fread", h, m, 0, "done")
  <2>1. p + n <= MaxPos /\ n \in Nat /\ n > 0 /\ Continue(c)
        /\ file' = [file EXCEPT ![h].fsize = s]
    BY <1>6, SizesAssumption DEF FreadStart
  <2>2. m \in Nat /\ m <= n
    BY <1>2, <1>5, <2>1 DEF Least
  <2>3. p + m <= MaxPos
    BY <1>5, <2>1, <2>2, PosRange
  <2>4. /\ c.h = h /\ c.op = "fread" /\ c.full = FALSE
        /\ c.at = "done" \/ Transfer(c)
    BY DEF Locals, NextPart, Transfer, Fields
  <2> HIDE DEF m
  <2>5. PlaceOK(c, p)
    BY <1>2, <2>2, <2>3, LocalsPlace
  <2>6. FilesOK' /\ file'[h].fpos = p
    BY <1>2, <2>1, SizeRead
  <2> HIDE DEF c
  <2>7. CASE c.at = "done"
    BY <1>3, <1>4, <2>1, <2>6, <2>7, EndsSizes DEF Continue
  <2>8. CASE c.at # "done"
    <3>1. call' = c
      BY <2>1, <2>8 DEF Continue
    <3>2. Gathered'
      BY <2>4, <3>1 DEF Gathered
    <3>3. call'.op # "fwrite"
      BY <2>4, <3>1
    <3> QED  BY <1>3, <1>4, <2>4, <2>5, <2>6, <2>8, <3>1, <3>2, <3>3, GoesOnSizes
  <2> QED  BY <2>7, <2>8
<1>7. ASSUME NEW n \in Amount, FwriteStart(h, n) PROVE Sizes'
  <2> DEFINE c == Locals("fwrite", h, n, Blocks(s), "size")
  <2>1. /\ p + n <= MaxPos /\ n \in Nat /\ n > 0 /\ call' = c
        /\ file' = [file EXCEPT ![h].fsize = s] /\ p <= s
    <3>1. beyond' = (beyond \/ p > s)
      BY <1>7 DEF FwriteStart
    <3>2. ~(p > s)
      BY <3>1, Zenon
    <3>3. p + n <= MaxPos /\ call' = c /\ file' = [file EXCEPT ![h].fsize = s]
      BY <1>7 DEF FwriteStart
    <3>4. n \in Nat /\ n > 0
      BY SizesAssumption
    <3>5. p <= s
      BY <1>2, <1>5, <3>2
    <3> QED  BY <3>3, <3>4, <3>5
  <2>2. c.h = h /\ c.op = "fwrite" /\ c.full = FALSE /\ c.count = 0 /\ Transfer(c)
    BY DEF Locals, NextPart, Transfer, Fields
  <2>3. PlaceOK(c, p)
    BY <1>2, <2>1, BlocksIs, LocalsPlace
  <2>4. WriteOK(c, p, s, s)
    BY <1>2, <2>1, StartWrites
  <2>5. FilesOK' /\ file'[h].fpos = p /\ file'[h].fsize = s
    BY <1>2, <2>1, SizeRead
  <2> HIDE DEF c
  <2>6. Gathered'
    BY <2>1, <2>2 DEF Gathered
  <2>7. WriteOK(call', file'[call'.h].fpos, file'[call'.h].fsize, inode'.size)
    BY <1>4, <2>1, <2>2, <2>4, <2>5
  <2> QED  BY <1>3, <1>4, <2>1, <2>2, <2>3, <2>5, <2>6, <2>7, GoesOnSizes
<1>8. ASSUME NEW n \in Length, FtruncateStart(h, n) PROVE Sizes'
  <2>1. n \in Nat /\ file' = [file EXCEPT ![h].fsize = s]
    BY <1>8, SizesAssumption DEF FtruncateStart
  <2>2. FilesOK'
    BY <1>2, <2>1, SizeRead
  <2>3. CASE s <= n
    <3>1. call' = call
      BY <1>8, <2>3 DEF FtruncateStart
    <3> QED  BY <1>1, <1>3, <1>4, <2>2, <3>1, IdleSizes
  <2>4. CASE ~(s <= n)
    <3> DEFINE r == [file[h] EXCEPT !.fsize = n, !.fpos = Least(@, n)]
               c == Cut("ftruncate", h, n, r)
    <3>1. call' = c
      BY <1>8, <2>4 DEF FtruncateStart
    <3>2. n < s /\ n <= MaxPos
      BY <1>2, <2>1, <2>4, PosRange
    <3>3. r.fsize = n /\ r.fpos = Least(p, n) /\ r.open = file[h].open /\ r.wronly = file[h].wronly
          /\ r = [open |-> r.open, wronly |-> r.wronly, fpos |-> r.fpos, fsize |-> r.fsize]
      <4> DEFINE q == Least(p, n)
                 f == file[h]
      <4>1. f = [open |-> f.open, wronly |-> f.wronly, fpos |-> f.fpos, fsize |-> f.fsize]
        BY <1>5 DEF FileOK
      <4>2. r = [[f EXCEPT !.fsize = n] EXCEPT !.fpos = q]
        BY <4>1
      <4> HIDE DEF q, f
      <4>3. r = [open |-> f.open, wronly |-> f.wronly, fpos |-> q, fsize |-> n]
        <5>1. [f EXCEPT !.fsize = n]
                = [open |-> f.open, wronly |-> f.wronly, fpos |-> f.fpos, fsize |-> n]
          BY <4>1
        <5>2. [[open |-> f.open, wronly |-> f.wronly, fpos |-> f.fpos, fsize |-> n]
                 EXCEPT !.fpos = q]
                = [open |-> f.open, wronly |-> f.wronly, fpos |-> q, fsize |-> n]
          OBVIOUS
        <5> QED  BY <4>2, <5>1, <5>2, Zenon
      <4> QED  BY <4>3 DEF q, f
    <3>4. Least(p, n) \in 0 .. MaxPos /\ n \in 0 .. MaxPos
      BY <1>5, <2>1, <3>2, PosRange DEF Least
    <3>5. FileOK(r)
      BY <3>3, <3>4 DEF FileOK
    <3> HIDE DEF r
    <3>6. c.at = "cut" /\ c.h = h /\ c.then = r /\ c.size = n /\ c.left = s
          /\ c = [op |-> c.op, h |-> c.h, at |-> c.at, size |-> c.size, left |-> c.left,
                  then |-> c.then]
      BY DEF Cut
    <3> HIDE DEF c
    <3>7. CutOK(call', inode'.size)
      BY <1>4, <2>1, <3>1, <3>2, <3>5, <3>6 DEF CutOK
    <3> QED  BY <1>3, <1>4, <2>2, <3>1, <3>6, <3>7, CutSizes
  <2> QED  BY <2>3, <2>4
<1>9. ASSUME NEW m \in Mode, FopenStart(h, m) PROVE Sizes'
  <2>1. ASSUME NEW t \in 0 .. MaxPos PROVE FileOK(OpenedFile(m, t))
    <3>1. 0 \in 0 .. MaxPos
      BY PosRange
    <3> QED  BY <3>1 DEF OpenedFile, FileOK
  <2>2. CASE m.trunc /\ s > 0
    <3> DEFINE r == OpenedFile(m, 0)
               c == Cut("fopen", h, 0, r)
    <3>1. call' = c /\ file' = file
      BY <1>9, <2>2 DEF FopenStart
    <3>2. FileOK(r)
      BY <2>1, PosRange
    <3> HIDE DEF r
    <3>3. c.at = "cut" /\ c.h = h /\ c.then = r /\ c.size = 0 /\ c.left = s
          /\ c = [op |-> c.op, h |-> c.h, at |-> c.at, size |-> c.size, left |-> c.left,
                  then |-> c.then]
      BY DEF Cut
    <3> HIDE DEF c
    <3>4. CutOK(call', inode'.size)
      BY <1>4, <2>2, <3>1, <3>2, <3>3 DEF CutOK
    <3>5. FilesOK'
      BY <1>2, <3>1 DEF FilesOK, FileOK, MaxPos
    <3> QED  BY <1>3, <1>4, <3>1, <3>3, <3>4, <3>5, CutSizes
  <2>3. CASE ~(m.trunc /\ s > 0)
    <3>1. call' = call /\ file' = [file EXCEPT ![h] = OpenedFile(m, s)]
      BY <1>9, <2>3 DEF FopenStart
    <3>2. FilesOK'
      BY <1>2, <2>1, <3>1, FileSet
    <3> QED  BY <1>1, <1>3, <1>4, <3>1, <3>2, IdleSizes
  <2> QED  BY <2>2, <2>3
<1>10. ASSUME NEW o \in Offset, Fseek(h, o) PROVE Sizes'
  <2>1. PICK q \in SeekSet(file[h], o) \cup SeekCur(file[h], o) \cup SeekEnd(file[h], o) :
          q <= MaxPos /\ file' = [file EXCEPT ![h].fpos = q]
    BY <1>10 DEF Fseek
  <2>2. o \in Int
    BY SizesAssumption
  <2>3. q \in Nat
    <3>1. CASE q \in SeekSet(file[h], o)
      BY <1>5, <3>1 DEF SeekSet
    <3>2. CASE q \in SeekCur(file[h], o)
      BY <1>5, <2>2, <3>2 DEF SeekCur
    <3>3. CASE q \in SeekEnd(file[h], o)
      BY <1>5, <3>3 DEF SeekEnd
    <3> QED  BY <2>1, <3>1, <3>2, <3>3
  <2>4. q \in 0 .. MaxPos
    BY <2>1, <2>3, PosRange
  <2>5. FilesOK'
    BY <1>2, <2>1, <2>4, Moves
  <2>6. call' = call
    BY <1>10 DEF Fseek
  <2> QED  BY <1>1, <1>3, <1>4, <2>5, <2>6, IdleSizes
<1>11. CASE Fclose(h)
  <2>1. call' = call /\ file' = [file EXCEPT ![h] = ClosedFile]
    BY <1>11 DEF Fclose
  <2>2. FileOK(ClosedFile)
    BY PosRange DEF ClosedFile, FileOK
  <2>3. FilesOK'
    BY <1>2, <2>1, <2>2, FileSet
  <2> QED  BY <1>1, <1>3, <1>4, <2>1, <2>3, IdleSizes
<1> QED  BY <1>6, <1>7, <1>8, <1>9, <1>10, <1>11

-----------------------------------------------------------------------------
(* The steps of a write.                                                   *)

\* A block was asked for, and the answer noted.
LEMMA AskedSizes ==
    ASSUME MapInv, DepthInv, ~io_error => Exact, NEW res, NEW i, NEW n, Served(res, i, n),
           free' = res.free, inode' = [inode EXCEPT !.map = res.map, !.size = res.size],
           io_error => io_error', res.r = "EIO" => io_error'
    PROVE  /\ inode'.size = res.size /\ inode'.size \in 0 .. MaxPos
           /\ Blocks(inode'.size) = n
           /\ ~io_error' => Exact'
           /\ Sheltered' => Sheltered
           /\ Sheltered' /\ res.r = "EOK" => res.blk \in Nat /\ res.blk >= 1
<1>1. /\ inode'.size = res.size /\ inode'.map = res.map /\ inode'.extents = inode.extents
  BY DEF MapInv
<1>2. Sheltered' => Sheltered
  BY <1>1 DEF Sheltered
<1>3. Sheltered => Exact \/ inode.extents
  BY DEF Sheltered
<1>4. ASSUME ~io_error' PROVE Exact'
  <2>1. Exact /\ res.r # "EIO"
    BY <1>4
  <2>2. FullMap(res.map, res.size, res.free)
    BY <2>1 DEF Served
  <2> QED  BY <1>1, <2>2 DEF Exact, FullMap, Blocks, FileBlock, Phys
<1> QED  BY <1>1, <1>2, <1>3, <1>4 DEF Served

\* The state of a write under way.
LEMMA Writing ==
    ASSUME Sizes, Transfer(call), call.op = "fwrite"
    PROVE  /\ FilesOK /\ call.h \in Handle /\ inode.size \in 0 .. MaxPos
           /\ file[call.h].fpos \in Nat /\ file[call.h].fsize \in Nat
           /\ PlaceOK(call, file[call.h].fpos) /\ Spans(call, file[call.h].fpos)
           /\ file[call.h].fpos + call.left <= MaxPos
           /\ WritePlace(call, file[call.h].fpos, file[call.h].fsize, inode.size)
           /\ ~io_error => Exact
           /\ Sheltered => Clear(data) /\ Gathered
BY UnderWay, IntactIs DEF Sizes

LEMMA FilesKept ==
    ASSUME FilesOK, file' = file
    PROVE  FilesOK'
BY DEF FilesOK, FileOK, MaxPos

LEMMA HeadSizes ==
    ASSUME MapInv, DepthInv, Sizes, FwriteHead
    PROVE  Sizes'
<1> DEFINE p == file[call.h].fpos
           f == file[call.h].fsize
           s == inode.size
           k == HeadLength
           d == HeadMoved(call, k, "size")
<1>1. Transfer(call) /\ call.op = "fwrite" /\ call.at = "head"
  BY DEF FwriteHead, In, DepthInv, Transfer
<1>2. PICK res \in InitBlock(call.idx) :
        /\ Requested(res)
        /\ IF res.r = "EOK"
             THEN /\ data' = Overlay(res.blk, Unaligned, k, call.got)
                  /\ Advance(k) /\ call' = d
             ELSE call' = NoCall /\ UNCHANGED <<data, file>>
  BY DEF FwriteHead
<1>3. /\ FilesOK /\ call.h \in Handle /\ s \in 0 .. MaxPos /\ p \in Nat /\ f \in Nat
      /\ PlaceOK(call, p) /\ Spans(call, p) /\ p + call.left <= MaxPos
      /\ WritePlace(call, p, f, s)
      /\ ~io_error => Exact
      /\ Sheltered => Clear(data)
  BY <1>1, Writing
<1>4. call.idx \in FileBlock /\ call.idx < Blocks(s)
  <2>1. call.idx < call.blocks /\ Blocks(s) = Larger(call.blocks, call.idx)
    BY <1>1, <1>3 DEF WritePlace, WriteOK
  <2>2. call.idx \in Nat /\ call.blocks \in Nat
    BY <1>3 DEF Spans
  <2>3. Blocks(s) \in 0 .. FB
    BY <1>3, BlocksBound
  <2>4. Blocks(s) = call.blocks
    BY <2>1, <2>2 DEF Larger
  <2> QED  BY <2>1, <2>2, <2>3, <2>4, PosRange DEF FileBlock
<1>5. Served(res, call.idx, Blocks(s)) /\ res.size = s
  BY <1>3, <1>4, InitServes
<1>6. /\ free' = res.free /\ inode' = [inode EXCEPT !.map = res.map, !.size = res.size]
      /\ (io_error => io_error') /\ (res.r = "EIO" => io_error')
  BY <1>2 DEF Requested
<1>7. /\ inode'.size = s /\ inode'.size \in 0 .. MaxPos
      /\ ~io_error' => Exact'
      /\ Sheltered' => Sheltered
      /\ Sheltered' /\ res.r = "EOK" => res.blk \in Nat /\ res.blk >= 1
  <2>1. Served(res, call.idx, Blocks(s)) /\ res.size = s /\ (~io_error => Exact)
    BY <1>3, <1>5
  <2>2. /\ inode'.size = res.size /\ inode'.size \in 0 .. MaxPos
        /\ ~io_error' => Exact'
        /\ Sheltered' => Sheltered
        /\ Sheltered' /\ res.r = "EOK" => res.blk \in Nat /\ res.blk >= 1
    BY <2>1, <1>6, AskedSizes
  <2> QED  BY <2>1, <2>2
<1>8. CASE res.r # "EOK"
  <2>1. FilesOK' /\ call' = NoCall /\ data' = data
    BY <1>2, <1>3, <1>8, FilesKept
  <2>2. Sheltered' => Clear(data')
    BY <1>3, <1>7, <2>1
  <2> QED  BY <1>7, <2>1, <2>2, EndsSizes
<1>9. CASE res.r = "EOK"
  <2>1. data' = Overlay(res.blk, Unaligned, k, call.got) /\ Advance(k) /\ call' = d
    BY <1>2, <1>9
  <2>2. k = Least(call.left, BS - (p % BS)) /\ Unaligned = p % BS
    BY HeadLengthIs DEF Unaligned
  <2>3. /\ PlaceOK(d, p + k) /\ k \in Nat /\ d.left = call.left - k /\ d.count = 0
        /\ d.at \in {"map", "tail", "size"}
    BY <1>1, <1>3, <2>2, HeadPlace
  <2>4. p + k <= MaxPos
    <3>1. d.left \in Nat /\ call.left \in Nat
      BY <1>3, <2>3 DEF PlaceOK, Spans
    <3> QED  BY <1>3, <2>3, <3>1, PosRange
  <2>5. FilesOK' /\ file'[call.h].fpos = p + k /\ file'[call.h].fsize = f
    BY <1>3, <2>1, <2>3, <2>4, Advances
  <2>6. WriteOK(d, p + k, f, s)
    BY <1>1, <1>3, <2>2, HeadWrites
  <2>7. Transfer(d) /\ d.op = "fwrite" /\ d.h = call.h
    <3>1. Transfer(d) /\ d.op = "fwrite"
      BY <1>1, HeadMovedShape DEF SameTransfer
    <3>2. d.h = call.h
      BY <1>1 DEF HeadMoved, Moved, Transfer, Fields
    <3> QED  BY <3>1, <3>2
  <2>8. Sheltered' => Clear(data')
    <3>1. Unaligned \in Nat
      <4>1. BS \in Nat \ {0}
        BY SizesAssumption
      <4>2. p % BS \in 0 .. BS - 1
        BY <1>3, <4>1, DivMod
      <4> QED  BY <2>2, <4>1, <4>2
    <3> QED  BY <1>3, <1>7, <1>9, <2>1, <2>3, <3>1, OverlayClear
  <2> HIDE DEF d, k
  <2>9. Gathered'
    BY <2>1, <2>3 DEF Gathered
  <2>10. PlaceOK(call', file'[call'.h].fpos) /\ call'.h \in Handle /\ call'.op # "fread"
    BY <1>3, <2>1, <2>3, <2>5, <2>7
  <2>11. WriteOK(call', file'[call'.h].fpos, file'[call'.h].fsize, inode'.size)
    BY <1>7, <2>1, <2>5, <2>6, <2>7
  <2> QED  BY <1>7, <2>1, <2>5, <2>7, <2>8, <2>9, <2>10, <2>11, GoesOnSizes
<1> QED  BY <1>8, <1>9

LEMMA MapSizes ==
    ASSUME MapInv, DepthInv, Sizes, FwriteMap
    PROVE  Sizes'
<1> DEFINE p == file[call.h].fpos
           f == file[call.h].fsize
           s == inode.size
<1>1. /\ Transfer(call) /\ call.op = "fwrite" /\ call.at = "map" /\ call.idx < call.last
      /\ data' = data /\ file' = file
  BY DEF FwriteMap, In, DepthInv, Transfer
<1>2. PICK res \in BlockFor(call) :
        /\ Requested(res)
        /\ \/ res.r = "EOK" /\ call' = Gather(call, res.blk, res.idx)
           \/ res.r # "EOK" /\ call.idx < call.blocks /\ call' = NoCall
           \/ res.r # "EOK" /\ ~(call.idx < call.blocks) /\ call' = Filled(call)
  BY DEF FwriteMap, Filled
<1>3. /\ FilesOK /\ call.h \in Handle /\ s \in 0 .. MaxPos /\ p \in Nat /\ f \in Nat
      /\ PlaceOK(call, p) /\ Spans(call, p)
      /\ WritePlace(call, p, f, s)
      /\ ~io_error => Exact
      /\ Sheltered => Clear(data) /\ Gathered
  BY <1>1, Writing
<1>4. call.idx \in Nat /\ call.blocks \in Nat /\ call.idx < FB /\ call.start \in Nat
  <2>1. {call.idx, call.blocks, call.last, call.start} \subseteq Nat
    BY <1>3 DEF Spans
  <2>2. call.last <= FB
    BY <1>3, LastBlock
  <2> QED  BY <1>1, <2>1, <2>2, PosRange
<1>5. Blocks(s) = Larger(call.blocks, call.idx)
  BY <1>1, <1>3 DEF WritePlace, WriteOK
<1>6. \/ res.r = "EOK" /\ Served(res, call.idx, Larger(call.blocks, call.idx + 1))
      \/ res.r # "EOK" /\ res.size = s /\ Served(res, call.idx, Blocks(s))
  BY <1>3, <1>4, <1>5, WriteServes
<1>7. /\ free' = res.free /\ inode' = [inode EXCEPT !.map = res.map, !.size = res.size]
      /\ (io_error => io_error') /\ (res.r = "EIO" => io_error')
  BY <1>2 DEF Requested
<1>8. /\ inode'.size = res.size /\ inode'.size \in 0 .. MaxPos
      /\ ~io_error' => Exact'
      /\ Sheltered' => Sheltered
      /\ Sheltered' /\ res.r = "EOK" => res.blk \in Nat /\ res.blk >= 1
      /\ res.r = "EOK" => Blocks(inode'.size) = Larger(call.blocks, call.idx + 1)
  BY <1>3, <1>6, <1>7, AskedSizes
<1>9. FilesOK' /\ file'[call.h].fpos = p /\ file'[call.h].fsize = f
  BY <1>1, <1>3, FilesKept
<1>10. Sheltered' => Clear(data')
  BY <1>1, <1>3, <1>8
<1>11. ASSUME NEW d, call' = d, Transfer(d), d.op = "fwrite", d.h = call.h, PlaceOK(d, p),
              WriteOK(d, p, f, inode'.size), Sheltered' => Gathered'
       PROVE  Sizes'
  <2>1. PlaceOK(call', file'[call'.h].fpos) /\ call'.h \in Handle /\ call'.op # "fread"
    BY <1>3, <1>9, <1>11
  <2>2. WriteOK(call', file'[call'.h].fpos, file'[call'.h].fsize, inode'.size)
    BY <1>9, <1>11
  <2> QED  BY <1>8, <1>9, <1>10, <1>11, <2>1, <2>2, GoesOnSizes
<1>12. CASE call' = NoCall
  BY <1>8, <1>9, <1>10, <1>12, EndsSizes
<1>13. CASE res.r = "EOK" /\ call' = Gather(call, res.blk, res.idx)
  <2> DEFINE d == Gather(call, res.blk, call.idx)
  <2>1. call' = d /\ res.blk \in Nat
    BY <1>6, <1>13 DEF Served
  <2>2. PlaceOK(d, p)
    BY <1>1, <1>3, <2>1, GatherPlace
  <2>3. WriteOK(d, p, f, inode'.size)
    BY <1>1, <1>3, <1>8, <1>13, GatherWrites
  <2>4. Transfer(d)
    BY <1>1, GatherShape DEF SameTransfer
  <2>5. /\ d.start = (IF call.start = 0 THEN res.blk ELSE call.start) /\ d.fblk = res.blk
        /\ d.h = call.h /\ d.op = "fwrite"
    BY <1>1, GatherIs
  <2> HIDE DEF d
  <2>6. Sheltered' => Gathered'
    BY <1>4, <1>8, <1>13, <2>1, <2>5 DEF Gathered
  <2> QED  BY <1>11, <2>1, <2>2, <2>3, <2>4, <2>5, <2>6
<1>14. CASE res.r # "EOK" /\ ~(call.idx < call.blocks) /\ call' = Filled(call)
  <2> DEFINE d == Filled(call)
  <2>1. call' = d /\ call.blocks <= call.idx
    BY <1>4, <1>14
  <2>2. PlaceOK(d, p)
    BY <1>1, <1>3, FilledPlace
  <2>3. WriteOK(d, p, f, inode'.size)
    <3>1. WriteOK(d, p, f, s)
      BY <1>1, <1>3, <2>1, FilledWrites
    <3>2. inode'.size = s
      BY <1>6, <1>8, <1>14
    <3> QED  BY <3>1, <3>2
  <2>4. /\ d.start = call.start /\ d.fblk = call.fblk /\ d.count = call.count
        /\ d.h = call.h /\ d.op = "fwrite"
    BY <1>1, FilledIs
  <2>5. Transfer(d)
    BY <1>1 DEF Filled, Transfer, Fields
  <2> HIDE DEF d
  <2>6. Sheltered' => Gathered'
    BY <1>1, <1>3, <1>8, <2>1, <2>4 DEF Gathered
  <2> QED  BY <1>11, <2>1, <2>2, <2>3, <2>4, <2>5, <2>6
<1> QED  BY <1>2, <1>12, <1>13, <1>14

LEMMA BlocksSizes ==
    ASSUME MapInv, DepthInv, Sizes, FwriteBlocks \/ FwriteBlocksFail
    PROVE  Sizes'
<1> DEFINE p == file[call.h].fpos
           f == file[call.h].fsize
           s == inode.size
           k == At(call.count)
           c == Transferred(call, "size")
<1>1. /\ Transfer(call) /\ call.op = "fwrite" /\ Due(call) /\ call.at \in {"map", "xfer"}
      /\ inode' = inode /\ free' = free
  BY DEF FwriteBlocks, FwriteBlocksFail, Due, DepthInv, Transfer
<1>2. /\ FilesOK /\ call.h \in Handle /\ s \in 0 .. MaxPos /\ p \in Nat /\ f \in Nat
      /\ PlaceOK(call, p) /\ Spans(call, p) /\ p + call.left <= MaxPos
      /\ WritePlace(call, p, f, s)
      /\ ~io_error => Exact
      /\ Sheltered => Clear(data) /\ Gathered
  BY <1>1, Writing
<1>3. /\ k \in Nat /\ k <= call.left /\ (call.count > 0 \/ call.full)
      /\ call.left \in Nat /\ call.count \in Nat /\ call.start \in Nat
  BY <1>2, <1>1, DueIs DEF Spans
<1>4. Sheltered /\ call.count > 0 => call.start >= 1 /\ call.fblk >= 1
  BY <1>1, <1>2 DEF Gathered
<1>5. ASSUME NEW m \in Nat, m = 0 \/ call.count > 0, Sheltered
      PROVE  Clear(Overlay(call.start, 0, m, call.got))
  BY <1>2, <1>3, <1>4, <1>5, OverlayClear
<1>6. CASE FwriteBlocks
  <2>1. /\ data' = Overlay(call.start, 0, BS * call.count, call.got) /\ Advance(BS * call.count)
        /\ IF call.full THEN call' = Ended(c) ELSE call' = c
        /\ io_error' = io_error
    BY <1>6 DEF FwriteBlocks, Ended
  <2>2. BS * call.count = k
    BY DEF At
  <2>3. (Sheltered' => Sheltered) /\ (~io_error' => Exact')
    BY <1>1, <1>2, <2>1, ExactKept DEF Sheltered
  <2>4. Sheltered' => Clear(data')
    <3>1. k = 0 \/ call.count > 0
      <4>1. At(0) = 0
        BY AtIs
      <4> QED  BY <1>3, <4>1
    <3> QED  BY <1>3, <1>5, <2>1, <2>2, <2>3, <3>1
  <2>5. p + k <= MaxPos
    BY <1>2, <1>3, PosRange
  <2>6. FilesOK' /\ file'[call.h].fpos = p + k /\ file'[call.h].fsize = f
    BY <1>2, <1>3, <2>1, <2>2, <2>5, Advances
  <2>7. inode'.size = s
    BY <1>1
  <2>8. ASSUME NEW d, call' = d, Transfer(d), d.op = "fwrite", d.h = call.h,
               PlaceOK(d, p + k), WriteOK(d, p + k, f, s), Sheltered' => Gathered'
        PROVE  Sizes'
    <3>1. PlaceOK(call', file'[call'.h].fpos) /\ call'.h \in Handle /\ call'.op # "fread"
      BY <1>2, <2>6, <2>8
    <3>2. WriteOK(call', file'[call'.h].fpos, file'[call'.h].fsize, inode'.size)
      BY <2>6, <2>7, <2>8
    <3> QED  BY <1>2, <2>3, <2>4, <2>6, <2>7, <2>8, <3>1, <3>2, GoesOnSizes
  <2>9. /\ Transfer(c) /\ c.op = "fwrite"
        /\ c.h = call.h /\ c.start = call.fblk /\ c.fblk = call.fblk
    BY <1>1, TransferredShape, TransferredIs DEF SameTransfer
  <2>10. CASE call.full
    <3> DEFINE d == Ended(c)
    <3>1. PlaceOK(d, p + k) /\ WriteOK(d, p + k, f, s)
      BY <1>1, <1>2, <2>10, FullWrites
    <3>2. Transfer(d) /\ d.at = "size" /\ d.op = "fwrite" /\ d.h = call.h
      BY <2>9, EndedIs, SizeShape DEF Ended, SameTransfer
    <3>3. call' = d
      BY <2>1, <2>10
    <3> HIDE DEF d
    <3>4. Gathered'
      BY <3>2, <3>3 DEF Gathered
    <3> QED  BY <2>8, <3>1, <3>2, <3>3, <3>4
  <2>11. CASE ~call.full
    <3>1. PlaceOK(c, p + k)
      BY <1>1, <1>2, <2>11, TransferredPlace
    <3>2. WriteOK(c, p + k, f, s)
      BY <1>1, <1>2, <2>11, MovedWrites
    <3>3. call' = c
      BY <2>1, <2>11
    <3> HIDE DEF c
    <3>4. Sheltered' => Gathered'
      BY <1>3, <1>4, <2>3, <2>9, <2>11, <3>3 DEF Gathered
    <3> QED  BY <2>8, <2>9, <3>1, <3>2, <3>3, <3>4
  <2> QED  BY <2>10, <2>11
<1>7. CASE FwriteBlocksFail
  <2>1. PICK j \in 0 .. call.count : data' = Overlay(call.start, 0, BS * j, call.got)
    BY <1>7 DEF FwriteBlocksFail
  <2>2. call' = NoCall /\ io_error' = TRUE /\ file' = file
    BY <1>7 DEF FwriteBlocksFail
  <2>3. Sheltered' => Sheltered
    BY <1>1, <2>2 DEF Sheltered
  <2>4. j \in Nat /\ (j = 0 \/ call.count > 0)
    BY <1>3, <2>1
  <2>5. BS * j \in Nat /\ (j = 0 => BS * j = 0)
    BY <2>4, AtIs DEF At
  <2>6. Sheltered' => Clear(data')
    BY <1>5, <2>1, <2>3, <2>4, <2>5
  <2>7. FilesOK' /\ inode'.size \in 0 .. MaxPos
    BY <1>1, <1>2, <2>2, FilesKept
  <2> QED  BY <2>2, <2>6, <2>7, EndsSizes
<1> QED  BY <1>6, <1>7

\* The part after the last block boundary needs a block within the bound.
LEMMA TailBlock ==
    ASSUME NEW c, NEW p \in Nat, PlaceOK(c, p), c.at = "tail"
    PROVE  c.idx \in Nat /\ c.blocks \in Nat /\ c.left \in Nat /\ c.idx < FB
<1>1. Spans(c, p) /\ 0 < c.left /\ At(c.idx) = p
  BY DEF PlaceOK, Stands
<1>2. c.idx \in Nat /\ c.blocks \in Nat /\ c.left \in Nat /\ p + c.left <= MaxPos
  BY <1>1 DEF Spans
<1>3. At(c.idx) < At(FB) /\ At(c.idx) \in Nat
  BY <1>1, <1>2, PosRange
<1> QED  BY <1>2, <1>3, AtMono, PosRange

LEMMA TailSizes ==
    ASSUME MapInv, DepthInv, Sizes, FwriteTail
    PROVE  Sizes'
<1> DEFINE p == file[call.h].fpos
           f == file[call.h].fsize
           s == inode.size
           k == call.left
<1>1. Transfer(call) /\ call.op = "fwrite" /\ call.at = "tail"
  BY DEF FwriteTail, In, DepthInv, Transfer
<1>2. PICK res \in BlockFor(call) :
        /\ Requested(res)
        /\ IF res.r = "EOK"
             THEN /\ data' = Overlay(res.blk, 0, k, call.got) /\ Advance(k)
                  /\ call' = Ended(Moved(call, k))
             ELSE /\ call' = IF call.idx < call.blocks THEN NoCall ELSE Ended(call)
                  /\ UNCHANGED <<data, file>>
  BY DEF FwriteTail, Ended
<1>3. /\ FilesOK /\ call.h \in Handle /\ s \in 0 .. MaxPos /\ p \in Nat /\ f \in Nat
      /\ PlaceOK(call, p) /\ p + k <= MaxPos
      /\ WritePlace(call, p, f, s)
      /\ ~io_error => Exact
      /\ Sheltered => Clear(data)
  BY <1>1, Writing
<1>4. call.idx \in Nat /\ call.blocks \in Nat /\ k \in Nat /\ call.idx < FB
  BY <1>1, <1>3, TailBlock
<1>5. Blocks(s) = Larger(call.blocks, call.idx)
  BY <1>1, <1>3 DEF WritePlace, WriteOK
<1>6. \/ res.r = "EOK" /\ Served(res, call.idx, Larger(call.blocks, call.idx + 1))
      \/ res.r # "EOK" /\ res.size = s /\ Served(res, call.idx, Blocks(s))
  BY <1>3, <1>4, <1>5, WriteServes
<1>7. /\ free' = res.free /\ inode' = [inode EXCEPT !.map = res.map, !.size = res.size]
      /\ (io_error => io_error') /\ (res.r = "EIO" => io_error')
  BY <1>2 DEF Requested
<1>8. /\ inode'.size = res.size /\ inode'.size \in 0 .. MaxPos
      /\ ~io_error' => Exact'
      /\ Sheltered' => Sheltered
      /\ Sheltered' /\ res.r = "EOK" => res.blk \in Nat /\ res.blk >= 1
      /\ res.r = "EOK" => Blocks(inode'.size) = Larger(call.blocks, call.idx + 1)
  BY <1>3, <1>6, <1>7, AskedSizes
<1>9. ASSUME NEW d, NEW q, call' = d, Transfer(d), d.op = "fwrite", d.h = call.h, d.at = "size",
             FilesOK', file'[call.h].fpos = q, file'[call.h].fsize = f,
             PlaceOK(d, q), WriteOK(d, q, f, inode'.size), Sheltered' => Clear(data')
      PROVE  Sizes'
  <2>1. PlaceOK(call', file'[call'.h].fpos) /\ call'.h \in Handle /\ call'.op # "fread"
    BY <1>3, <1>9
  <2>2. WriteOK(call', file'[call'.h].fpos, file'[call'.h].fsize, inode'.size)
    BY <1>9
  <2>3. Gathered'
    BY <1>9 DEF Gathered
  <2> QED  BY <1>8, <1>9, <2>1, <2>2, <2>3, GoesOnSizes
<1>10. CASE res.r = "EOK"
  <2> DEFINE d == Ended(Moved(call, k))
  <2>1. call' = d /\ data' = Overlay(res.blk, 0, k, call.got) /\ Advance(k)
    BY <1>2, <1>10
  <2>2. FilesOK' /\ file'[call.h].fpos = p + k /\ file'[call.h].fsize = f
    BY <1>3, <1>4, <2>1, Advances
  <2>3. PlaceOK(d, p + k) /\ WriteOK(d, p + k, f, inode'.size)
    BY <1>1, <1>3, <1>8, <1>10, TailWrites
  <2>4. Transfer(d) /\ d.op = "fwrite" /\ d.at = "size"
    BY <1>1, SizeShape DEF SameTransfer, Ended
  <2>5. d.h = call.h
    BY <1>1 DEF Ended, Moved, Transfer, Fields
  <2>6. Sheltered' => Clear(data')
    BY <1>3, <1>4, <1>8, <1>10, <2>1, OverlayClear
  <2> HIDE DEF d
  <2> QED  BY <1>9, <2>1, <2>2, <2>3, <2>4, <2>5, <2>6
<1>11. CASE res.r # "EOK"
  <2>1. /\ call' = IF call.idx < call.blocks THEN NoCall ELSE Ended(call)
        /\ data' = data /\ file' = file
    BY <1>2, <1>11
  <2>2. FilesOK' /\ (Sheltered' => Clear(data'))
    BY <1>3, <1>8, <2>1, FilesKept
  <2>3. CASE call.idx < call.blocks
    BY <1>8, <2>1, <2>2, <2>3, EndsSizes
  <2>4. CASE ~(call.idx < call.blocks)
    <3> DEFINE d == Ended(call)
    <3>1. call' = d /\ call.blocks <= call.idx /\ inode'.size = s
      BY <1>4, <1>6, <1>8, <1>11, <2>1, <2>4
    <3>2. WriteOK(d, p, f, inode'.size) /\ PlaceOK(d, p)
      BY <1>1, <1>3, <3>1, NoTailWrites
    <3>3. Transfer(d) /\ d.op = "fwrite" /\ d.at = "size" /\ d.h = call.h
      BY <1>1, SizeShape, EndedIs DEF SameTransfer, Ended
    <3> HIDE DEF d
    <3>4. file'[call.h].fpos = p /\ file'[call.h].fsize = f
      BY <2>1
    <3> QED  BY <1>9, <2>2, <3>1, <3>2, <3>3, <3>4
  <2> QED  BY <2>3, <2>4
<1> QED  BY <1>10, <1>11

LEMMA BytesFailSizes ==
    ASSUME MapInv, DepthInv, Sizes, FwriteBytesFail
    PROVE  Sizes'
<1> DEFINE p == file[call.h].fpos
           f == file[call.h].fsize
           s == inode.size
<1>1. /\ Transfer(call) /\ call.op = "fwrite" /\ call.at \in {"head", "tail"}
      /\ call' = NoCall /\ io_error' = TRUE /\ file' = file
  BY DEF FwriteBytesFail, In, DepthInv, Transfer
<1>2. PICK res \in IF call.at = "head" THEN InitBlock(call.idx) ELSE BlockFor(call) :
        /\ res.r = "EOK" /\ free' = res.free
        /\ inode' = [inode EXCEPT !.map = res.map, !.size = res.size]
        /\ data' \in {data, IF call.at = "head"
                            THEN Overlay(res.blk, Unaligned, HeadLength, call.got)
                            ELSE Overlay(res.blk, 0, call.left, call.got)}
  BY DEF FwriteBytesFail
<1>3. /\ FilesOK /\ call.h \in Handle /\ s \in 0 .. MaxPos /\ p \in Nat /\ f \in Nat
      /\ PlaceOK(call, p) /\ Spans(call, p)
      /\ WritePlace(call, p, f, s)
      /\ ~io_error => Exact
      /\ Sheltered => Clear(data)
  BY <1>1, Writing
<1>4. FilesOK' /\ call.left \in Nat
  BY <1>1, <1>3, FilesKept DEF Spans
<1>5. ASSUME NEW n, Served(res, call.idx, n)
      PROVE  /\ inode'.size \in 0 .. MaxPos /\ (~io_error' => Exact')
             /\ Sheltered' => Sheltered /\ res.blk \in Nat /\ res.blk >= 1
  BY <1>1, <1>2, <1>3, <1>5, AskedSizes
<1>6. ASSUME NEW n, Served(res, call.idx, n), NEW off \in Nat, NEW k \in Nat,
             data' = data \/ data' = Overlay(res.blk, off, k, call.got)
      PROVE  Sizes'
  <2>1. Sheltered' => Clear(data')
    BY <1>3, <1>5, <1>6, OverlayClear
  <2> QED  BY <1>1, <1>4, <1>5, <1>6, <2>1, EndsSizes
<1>7. CASE call.at = "head"
  <2>1. call.idx \in FileBlock /\ call.idx < Blocks(s)
    <3>1. call.idx < call.blocks /\ Blocks(s) = Larger(call.blocks, call.idx)
      BY <1>7, <1>3 DEF WritePlace, WriteOK
    <3>2. call.idx \in Nat /\ call.blocks \in Nat
      BY <1>3 DEF Spans
    <3>3. Blocks(s) \in 0 .. FB
      BY <1>3, BlocksBound
    <3>4. Blocks(s) = call.blocks
      BY <3>1, <3>2 DEF Larger
    <3> QED  BY <3>1, <3>2, <3>3, <3>4, PosRange DEF FileBlock
  <2>2. Served(res, call.idx, Blocks(s))
    BY <1>2, <1>3, <1>7, <2>1, InitServes
  <2>3. Unaligned = p % BS /\ HeadLength = Least(call.left, BS - (p % BS))
    BY HeadLengthIs DEF Unaligned
  <2>4. Unaligned \in Nat
    <3>1. BS \in Nat \ {0}
      BY SizesAssumption
    <3>2. p % BS \in 0 .. BS - 1
      BY <1>3, <3>1, DivMod
    <3> QED  BY <2>3, <3>1, <3>2
  <2>5. HeadLength \in Nat
    BY <1>1, <1>3, <1>7, <2>3, HeadPlace
  <2> QED  BY <1>2, <1>6, <1>7, <2>2, <2>4, <2>5
<1>8. CASE call.at = "tail"
  <2>1. call.idx \in Nat /\ call.blocks \in Nat /\ call.idx < FB
    BY <1>3, <1>8, TailBlock
  <2>2. Blocks(s) = Larger(call.blocks, call.idx)
    BY <1>8, <1>3 DEF WritePlace, WriteOK
  <2>3. res \in BlockFor(call)
    BY <1>2, <1>8
  <2>4. Served(res, call.idx, Larger(call.blocks, call.idx + 1))
    BY <1>2, <1>3, <2>1, <2>2, <2>3, WriteServes
  <2> QED  BY <1>2, <1>4, <1>6, <1>8, <2>4
<1> QED  BY <1>1, <1>7, <1>8

LEMMA LastSizes ==
    ASSUME MapInv, DepthInv, Sizes, FwriteSize
    PROVE  Sizes'
<1> DEFINE p == file[call.h].fpos
           f == file[call.h].fsize
           s == inode.size
           n == SizeAfter(p, f)
           m == IF p > f THEN p ELSE f
<1>1. Transfer(call) /\ call.op = "fwrite" /\ call.at = "size"
  BY DEF FwriteSize, In, DepthInv, Transfer
<1>2. /\ inode' = [inode EXCEPT !.size = n] /\ file' = [file EXCEPT ![call.h].fsize = m]
      /\ call' = NoCall /\ UNCHANGED <<data, free, io_error>>
  BY DEF FwriteSize
<1>3. /\ FilesOK /\ call.h \in Handle /\ s \in 0 .. MaxPos /\ p \in Nat /\ f \in Nat
      /\ Spans(call, p) /\ p + call.left <= MaxPos
      /\ WritePlace(call, p, f, s)
      /\ ~io_error => Exact
      /\ Sheltered => Clear(data)
  BY <1>1, Writing
<1>4. p <= MaxPos /\ f <= MaxPos
  <2>1. call.left \in Nat
    BY <1>3 DEF Spans
  <2>2. FileOK(file[call.h])
    BY <1>3 DEF FilesOK
  <2> QED  BY <1>3, <2>1, <2>2, PosRange DEF FileOK
<1>5. n \in 0 .. MaxPos /\ m \in 0 .. MaxPos
  BY <1>3, <1>4, PosRange DEF SizeAfter
<1>6. Blocks(n) = Blocks(s)
  <2>1. f < p => Blocks(p) = Blocks(s)
    BY <1>1, <1>3 DEF WritePlace, WriteOK
  <2> QED  BY <1>3, <2>1 DEF SizeAfter
<1>7. inode'.size = n /\ inode'.map = inode.map /\ inode'.extents = inode.extents
  BY <1>2 DEF MapInv
<1> HIDE DEF n, m
<1>8. ~io_error' => Exact'
  BY <1>2, <1>3, <1>6, <1>7 DEF Exact, FullMap, Blocks, FileBlock, Phys
<1>9. FilesOK'
  BY <1>2, <1>3, <1>5, SizeRead
<1>10. Sheltered' => Clear(data')
  BY <1>2, <1>3, <1>7 DEF Sheltered
<1> QED  BY <1>2, <1>5, <1>7, <1>8, <1>9, <1>10, EndsSizes

-----------------------------------------------------------------------------
(* The pieces of a truncation.                                             *)

\* Block 0 is never a block of the file, so no release touches it.
LEMMA ReleasedClear ==
    ASSUME MapInv, NEW I, NEW lost, NEW size, Released(I, lost, size)
    PROVE  /\ Clear(data) => Clear(data')
           /\ inode'.size = size /\ inode'.extents = inode.extents
<1>1. data' = Wiped(Mapped(I))
  BY DEF Released
<1>2. 0 \notin Mapped(I)
  BY DEF Mapped
<1>3. Clear(data) => Clear(data')
  BY <1>1, <1>2, WipedClear
<1>4. \E map : inode' = [inode EXCEPT !.size = size, !.map = map]
  BY DEF Released
<1>5. inode'.size = size /\ inode'.extents = inode.extents
  BY <1>4 DEF MapInv
<1> QED  BY <1>3, <1>5

\* The size after a piece lies between the one wanted and the one before.
LEMMA NextSizeIs ==
    ASSUME NEW c, c.size \in Nat, c.left \in Nat, c.size < c.left
    PROVE  NextSize(c) \in Nat /\ c.size <= NextSize(c) /\ NextSize(c) < c.left
BY SizesAssumption DEF NextSize

LEMMA CutEndsSizes ==
    ASSUME MapInv, FilesOK, call.h \in Handle, FileOK(call.then),
           inode'.size \in 0 .. MaxPos, CutEnds(call),
           ~io_error' => Exact', Sheltered' => Clear(data')
    PROVE  Sizes'
<1>1. call' = NoCall /\ file' = [file EXCEPT ![call.h] = call.then]
  BY DEF CutEnds
<1>2. FilesOK'
  BY <1>1, FileSet
<1> QED  BY <1>1, <1>2, EndsSizes

\* A piece is cut off, and the truncation ends or goes on.
LEMMA PieceSizes ==
    ASSUME MapInv, FilesOK, call.at = "cut", CutOK(call, inode.size),
           NEW size \in Nat, call.size <= size, size < inode.size,
           inode.size \in 0 .. MaxPos, inode'.size = size,
           IF size = call.size
             THEN CutEnds(call)
             ELSE call' = [call EXCEPT !.left = size] /\ UNCHANGED file,
           ~io_error' => Exact', Sheltered' => Clear(data')
    PROVE  Sizes'
<1>1. size \in 0 .. MaxPos /\ call.size \in Nat
  BY PosRange DEF CutOK
<1>2. CASE size = call.size
  BY <1>1, <1>2, CutEndsSizes DEF CutOK
<1>3. CASE size # call.size
  <2>1. call' = [call EXCEPT !.left = size] /\ file' = file
    BY <1>3
  <2>2. /\ call'.at = "cut" /\ call'.h = call.h /\ call'.then = call.then
        /\ call'.size = call.size /\ call'.left = size
        /\ call' = [op |-> call'.op, h |-> call'.h, at |-> call'.at, size |-> call'.size,
                    left |-> call'.left, then |-> call'.then]
    <3>1. call = [op |-> call.op, h |-> call.h, at |-> call.at, size |-> call.size,
                  left |-> call.left, then |-> call.then]
      BY DEF CutOK
    <3>2. call' = [op |-> call.op, h |-> call.h, at |-> call.at, size |-> call.size,
                   left |-> size, then |-> call.then]
      BY <2>1, <3>1
    <3> QED  BY <3>2
  <2>3. CutOK(call', inode'.size)
    BY <1>1, <1>3, <2>2 DEF CutOK
  <2>4. FilesOK'
    BY <2>1, FilesKept
  <2> QED  BY <1>1, <2>2, <2>3, <2>4, CutSizes
<1> QED  BY <1>2, <1>3

LEMMA CutStepSizes ==
    ASSUME MapInv, DepthInv, Sizes, CutPiece \/ CutAtOnce \/ CutPieceLoses \/ CutPieceFails
    PROVE  Sizes'
<1> DEFINE n == NextSize(call)
<1>1. call.at = "cut"
  BY DEF CutPiece, CutAtOnce, CutPieceLoses, CutPieceFails
<1>2. /\ FilesOK /\ inode.size \in 0 .. MaxPos /\ inode.size \in Nat
      /\ CutOK(call, inode.size) /\ call.size \in Nat /\ call.left = inode.size
      /\ call.size < inode.size
      /\ ~io_error => Exact
      /\ Sheltered => Clear(data)
  BY <1>1, IntactIs, PosRange DEF Sizes, Positions, CutOK
<1>3. n \in Nat /\ call.size <= n /\ n < inode.size
  BY <1>2, NextSizeIs
<1>4. n = NextSize(call)
  OBVIOUS
<1> HIDE DEF n
<1>5. CASE CutPiece
  <2>1. /\ Released(CutBlocks(n), {}, n) /\ io_error' = io_error
        /\ IF n = call.size THEN CutEnds(call)
           ELSE call' = [call EXCEPT !.left = n] /\ UNCHANGED file
    BY <1>4, <1>5 DEF CutPiece
  <2>2. /\ Clear(data) => Clear(data')
        /\ inode'.size = n /\ inode'.extents = inode.extents
    BY <2>1, ReleasedClear
  <2>3. ~io_error' => Exact'
    BY <1>2, <1>3, <2>1, ReleaseIsFull
  <2>4. Sheltered' => Clear(data')
    BY <1>2, <2>1, <2>2 DEF Sheltered
  <2> QED  BY <1>1, <1>2, <1>3, <2>1, <2>2, <2>3, <2>4, PieceSizes
<1>6. CASE CutAtOnce
  <2>1. Released(CutBlocks(call.size), {}, call.size) /\ io_error' = io_error /\ CutEnds(call)
    BY <1>6 DEF CutAtOnce
  <2>2. /\ Clear(data) => Clear(data')
        /\ inode'.size = call.size /\ inode'.extents = inode.extents
    BY <2>1, ReleasedClear
  <2>3. ~io_error' => Exact'
    BY <1>2, <2>1, ReleaseIsFull
  <2>4. Sheltered' => Clear(data')
    BY <1>2, <2>1, <2>2 DEF Sheltered
  <2>5. inode'.size \in 0 .. MaxPos
    BY <1>2, <2>2, PosRange
  <2> QED  BY <1>2, <2>1, <2>3, <2>4, <2>5, CutEndsSizes DEF CutOK
<1>7. CASE CutPieceLoses
  <2>1. PICK lost : Released(CutBlocks(n), lost, n)
    BY <1>4, <1>7 DEF CutPieceLoses
  <2>2. /\ io_error' = TRUE /\ inode.extents
        /\ IF n = call.size THEN CutEnds(call)
           ELSE call' = [call EXCEPT !.left = n] /\ UNCHANGED file
    BY <1>4, <1>7 DEF CutPieceLoses
  <2>3. /\ Clear(data) => Clear(data')
        /\ inode'.size = n /\ inode'.extents = inode.extents
    BY <2>1, ReleasedClear
  <2>4. Sheltered' => Clear(data')
    BY <1>2, <2>2, <2>3 DEF Sheltered
  <2>5. ~io_error' => Exact'
    BY <2>2
  <2> QED  BY <1>1, <1>2, <1>3, <2>2, <2>3, <2>4, <2>5, PieceSizes
<1>8. CASE CutPieceFails
  <2>1. PICK I, lost, size : Released(I, lost, size) /\ size \in {inode.size, n}
    BY <1>4, <1>8 DEF CutPieceFails
  <2>2. io_error' = TRUE /\ call' = NoCall /\ file' = file
    BY <1>8 DEF CutPieceFails
  <2>3. /\ Clear(data) => Clear(data')
        /\ inode'.size = size /\ inode'.extents = inode.extents
    BY <2>1, ReleasedClear
  <2>4. Sheltered' => Clear(data')
    BY <1>2, <2>2, <2>3 DEF Sheltered
  <2>5. inode'.size \in 0 .. MaxPos /\ FilesOK'
    BY <1>2, <1>3, <2>1, <2>2, <2>3, FilesKept, PosRange
  <2> QED  BY <2>2, <2>4, <2>5, EndsSizes
<1> QED  BY <1>5, <1>6, <1>7, <1>8

-----------------------------------------------------------------------------
(* The invariant is inductive.                                             *)

LEMMA InitSizes == Init => SizesInv
<1> SUFFICES ASSUME Init PROVE SizesInv
  OBVIOUS
<1>1. PICK size \in InitSize, extents \in BOOLEAN, map \in [FileBlock -> 0 .. NP] :
        /\ \A i \in FileBlock : map[i] # 0 <=> i < Blocks(size)
        /\ inode = [map |-> map, size |-> size, extents |-> extents]
  BY DEF Init
<1>2. /\ free = Phys \ {inode.map[i] : i \in FileBlock}
      /\ file \in [Handle -> {ClosedFile} \cup {OpenedFile(m, inode.size) : m \in Mode}]
      /\ call = NoCall /\ beyond = FALSE
  BY DEF Init
<1>3. inode.size = size /\ inode.map = map
  BY <1>1
<1>4. size \in 0 .. MaxPos
  <2>1. size \in 0 .. (BS * NP) /\ NP \in Nat /\ NP <= FB
    BY SizesAssumption
  <2>2. At(NP) <= At(FB) /\ At(NP) \in Nat
    <3>1. CASE NP < FB
      <4>1. FB \in Nat /\ At(NP) \in Nat /\ At(FB) \in Nat
        BY <2>1, AtIs, PosRange
      <4>2. At(NP) < At(FB)
        BY <2>1, <3>1, <4>1, AtMono
      <4> QED  BY <4>1, <4>2
    <3>2. CASE NP = FB
      BY <3>2, <2>1, AtIs, PosRange
    <3> QED  BY <2>1, <3>1, <3>2, PosRange
  <2> QED  BY <2>1, <2>2, PosRange DEF At
<1>5. FilesOK
  <2>1. FileOK(ClosedFile)
    BY PosRange DEF ClosedFile, FileOK
  <2>2. \A m \in Mode : FileOK(OpenedFile(m, inode.size))
    <3>1. 0 \in 0 .. MaxPos
      BY PosRange
    <3> QED  BY <1>3, <1>4, <3>1 DEF OpenedFile, FileOK
  <2> QED  BY <1>2, <2>1, <2>2 DEF FilesOK
<1>6. Exact
  BY <1>1, <1>2, <1>3 DEF Exact, FullMap
<1>7. Clear(data)
  <2>1. 0 \in 0 .. NP
    BY SizesAssumption
  <2> QED  BY <2>1 DEF Init, Clear
<1>8. Positions /\ Gathered
  BY <1>2, <1>3, <1>4, <1>5, NoCallIdle DEF Positions, Gathered, Transfer
<1>9. DepthInv
  BY NoCallIdle DEF Init, DepthInv
<1> QED  BY <1>2, <1>6, <1>7, <1>8, <1>9, InitMap, IntactIs DEF SizesInv

LEMMA StepSizes == ASSUME MapInv, DepthInv, Sizes, Step PROVE Sizes'
BY ReadSizes, HeadSizes, MapSizes, BlocksSizes, TailSizes, BytesFailSizes, LastSizes,
   CutStepSizes DEF Step

LEMMA BeyondKept ==
    ASSUME Next
    PROVE  /\ Step => beyond' = beyond
           /\ call.at # "idle" => Step
           /\ beyond \in BOOLEAN => beyond' \in BOOLEAN
           /\ beyond = TRUE => beyond' = TRUE
<1>1. CASE Step
  <2>1. beyond' = beyond
    BY <1>1 DEF Step, FreadHead, FreadMap, FreadBlocks, FreadTail, FreadFails, FwriteHead,
       FwriteMap, FwriteBlocks, FwriteBlocksFail, FwriteTail, FwriteBytesFail, FwriteSize,
       CutPiece, CutAtOnce, CutPieceLoses, CutPieceFails
  <2> QED  BY <1>1, <2>1
<1>2. ASSUME NEW h \in Handle,
             \/ \E n \in Amount : FreadStart(h, n) \/ FwriteStart(h, n)
             \/ \E n \in Length : FtruncateStart(h, n)
             \/ \E m \in Mode : FopenStart(h, m)
             \/ \E o \in Offset : Fseek(h, o)
             \/ Fclose(h)
      PROVE  /\ call.at = "idle"
             /\ beyond' = beyond \/ beyond' = (beyond \/ file[h].fpos > inode.size)
  BY <1>2 DEF FreadStart, FwriteStart, FtruncateStart, FopenStart, Fseek, Fclose, Begin
<1>3. CASE ~Step
  <2>1. PICK h \in Handle :
             \/ \E n \in Amount : FreadStart(h, n) \/ FwriteStart(h, n)
             \/ \E n \in Length : FtruncateStart(h, n)
             \/ \E m \in Mode : FopenStart(h, m)
             \/ \E o \in Offset : Fseek(h, o)
             \/ Fclose(h)
    BY <1>3 DEF Next
  <2>2. call.at = "idle" /\ (beyond' = beyond \/ \E b \in BOOLEAN : beyond' = (beyond \/ b))
    <3>1. (file[h].fpos > inode.size) \in BOOLEAN
      OBVIOUS
    <3> QED  BY <1>2, <2>1, <3>1
  <2> QED  BY <1>3, <2>2, Zenon
<1> QED  BY <1>1, <1>3

LEMMA NextSizes == ASSUME SizesInv, [Next]_vars PROVE SizesInv'
<1>1. MapInv /\ DepthInv /\ beyond \in BOOLEAN /\ (~beyond => Sizes)
  BY DEF SizesInv, Sizes
<1>2. MapInv'
  BY <1>1, NextMap
<1>3. CASE UNCHANGED vars
  <2>1. UNCHANGED <<data, free, inode, file, call, wb, io_error, nospace, beyond>>
    BY <1>3 DEF vars
  <2>2. DepthInv'
    BY <1>1, <2>1 DEF DepthInv, Undisturbed
  <2>3. Sizes => Sizes'
    <3>1. Positions => Positions'
      BY <2>1 DEF Positions, FilesOK, FileOK, MaxPos, PlaceOK, Spans, Stands, At, WriteOK,
         Blocks, Larger, CutOK, Transfer
    <3>2. Exact => Exact'
      BY <2>1, ExactKept
    <3>3. (Intact => Intact') /\ (Sheltered' => Sheltered)
      BY <2>1 DEF Intact, Gathered, Sheltered
    <3> QED  BY <2>1, <3>1, <3>2, <3>3 DEF Sizes
  <2> QED  BY <1>1, <1>2, <2>1, <2>2, <2>3 DEF SizesInv, Sizes
<1>4. CASE Next
  <2>1. /\ Step => beyond' = beyond
        /\ beyond' \in BOOLEAN /\ (beyond = TRUE => beyond' = TRUE)
    BY <1>1, <1>4, BeyondKept
  <2>2. CASE Step
    BY <1>1, <1>2, <2>1, <2>2, StepDepth, StepSizes DEF SizesInv, Sizes
  <2>3. ASSUME NEW h \in Handle,
               \/ \E n \in Amount : FreadStart(h, n) \/ FwriteStart(h, n)
               \/ \E n \in Length : FtruncateStart(h, n)
               \/ \E m \in Mode : FopenStart(h, m)
               \/ \E o \in Offset : Fseek(h, o)
               \/ Fclose(h)
        PROVE  SizesInv'
    <3>1. DepthInv'
      BY <1>1, <2>3, BeginDepth
    <3>2. ASSUME ~beyond' PROVE Sizes'
      <4>1. Sizes
        BY <1>1, <2>1, <3>2
      <4> QED  BY <1>1, <2>3, <3>2, <4>1, BeginSizes
    <3> QED  BY <1>2, <2>1, <3>1, <3>2 DEF SizesInv, Sizes
  <2> QED  BY <1>4, <2>2, <2>3 DEF Next
<1> QED  BY <1>3, <1>4

\* Between calls a file has exactly the blocks its size needs and the allocator
\* has all others, for as long as no change of the file has failed and no write
\* has begun past the end: ext4_fwrite writes the size of what it has appended,
\* and ext4_ftruncate gives up what it cuts off.
THEOREM MapFitsSize == Spec => []MapMatchesSize
<1>1. SizesInv => MapMatchesSize
  BY DEF SizesInv, Exact, FullMap, MapMatchesSize
<1> QED  BY InitSizes, NextSizes, <1>1, PTL DEF Spec

\* File contents never reach block 0, which holds the superblock, through a
\* block that ext4_fwrite took for one of the file's, except by a write begun
\* past the end and, in a file without extents, after a failed truncation.
THEOREM SuperblockKept == Spec => []SuperblockIntact
<1>1. SizesInv => SuperblockIntact
  <2> SUFFICES ASSUME SizesInv, NEW c \in 0 .. (BS - 1), data[0][c] # Super, ~beyond
               PROVE  io_error /\ ~inode.extents
    BY DEF SuperblockIntact
  <2>1. ~Sheltered
    BY DEF SizesInv, Intact
  <2> QED  BY <2>1 DEF Sheltered
<1> QED  BY InitSizes, NextSizes, <1>1, PTL DEF Spec

-----------------------------------------------------------------------------
(* Every step of a call brings its end nearer.                             *)

Weight == 2 * FB + 6

\* What is left besides the bytes.
Rest(c) ==
    CASE c.at = "head" -> 2 * FB + 5
      [] c.at = "map"  -> 2 * (c.last - c.idx) + 4
      [] c.at = "xfer" -> 2 * (c.last - c.idx) + 3
      [] OTHER         -> IF c.at = "size" THEN 0 ELSE 1

LEMMA LessWork ==
    ASSUME NEW c, NEW d, c.left \in Nat, d.left \in Nat, Rest(c) \in Nat,
           Rest(d) \in Nat, Rest(d) < Weight,
           d.left < c.left \/ (d.left = c.left /\ Rest(d) < Rest(c))
    PROVE  Work(d) < Work(c)
<1> DEFINE w == Weight
           a == d.left
           b == c.left
           r == Rest(d)
           t == Rest(c)
<1>1. Work(d) = w * a + r /\ Work(c) = w * b + t
  BY DEF Work, Rest, Weight
<1>2. w \in Nat \ {0}
  BY PosRange DEF Weight
<1>3. a \in Nat /\ b \in Nat /\ r \in Nat /\ t \in Nat /\ r < w
      /\ (a < b \/ (a = b /\ r < t))
  OBVIOUS
<1> HIDE DEF w, a, b, r, t
<1>4. w * a \in Nat /\ w * b \in Nat
  BY <1>2, <1>3
<1>5. CASE a < b
  <2>1. w * a + w <= w * b
    BY <1>2, <1>3, <1>5, MulMono
  <2> QED  BY <1>1, <1>2, <1>3, <1>4, <2>1
<1>6. CASE a = b /\ r < t
  BY <1>1, <1>3, <1>4, <1>6
<1> QED  BY <1>3, <1>5, <1>6

LEMMA RestIs ==
    ASSUME NEW c, Transfer(c), NEW p \in Nat, PlaceOK(c, p)
    PROVE  /\ c.left \in Nat /\ c.idx \in Nat /\ c.last \in Nat
           /\ Rest(c) \in Nat /\ Rest(c) < Weight
           /\ c.at \in {"map", "xfer"} => c.idx <= c.last
<1>1. Spans(c, p)
  BY DEF PlaceOK
<1>2. c.left \in Nat /\ c.idx \in Nat /\ c.last \in Nat /\ c.last <= FB /\ FB \in Nat
  BY <1>1, LastBlock, PosRange DEF Spans
<1>3. c.at \in {"map", "xfer"} => c.idx <= c.last
  BY <1>2 DEF PlaceOK, Stands
<1>4. CASE c.at = "head"
  BY <1>2, <1>3, <1>4 DEF Rest, Weight
<1>5. CASE c.at = "map"
  BY <1>2, <1>3, <1>5 DEF Rest, Weight
<1>6. CASE c.at = "xfer"
  BY <1>2, <1>3, <1>6 DEF Rest, Weight
<1>7. CASE c.at = "tail" \/ c.at = "size"
  BY <1>2, <1>3, <1>7 DEF Rest, Weight
<1> QED  BY <1>2, <1>3, <1>4, <1>5, <1>6, <1>7 DEF Transfer

\* Each step of the loops: fewer bytes, or as many with less in between.
LEMMA HeadLess ==
    ASSUME NEW c, Transfer(c), NEW p \in Nat, PlaceOK(c, p), c.at = "head",
           NEW end \in {"size", "done"}, NEW k, k = Least(c.left, BS - (p % BS)),
           NEW d, d = HeadMoved(c, k, end), d.at # "done"
    PROVE  d.left < c.left \/ (d.left = c.left /\ Rest(d) < Rest(c))
<1>1. /\ k \in Nat /\ (c.left > 0 => k > 0) /\ d.left = c.left - k
  BY HeadPlace
<1>2. c.left \in Nat /\ FB \in Nat /\ BS \in Nat /\ BS > 0
  BY RestIs, PosRange
<1>3. CASE c.left > 0
  BY <1>1, <1>2, <1>3
<1>4. CASE c.left = 0
  <2>1. k = 0
    <3>1. PlaceOK(d, p + k)
      BY HeadPlace
    <3>2. d.left \in Nat
      BY <3>1 DEF PlaceOK, Spans
    <3> QED  BY <1>1, <1>4, <3>2
  <2>2. d.at = NextPart(c.left - k, end)
    BY DEF HeadMoved, Moved, Transfer, Fields
  <2>3. d.at = "size"
    BY <1>2, <1>4, <2>1, <2>2 DEF NextPart
  <2>4. Rest(d) = 0 /\ Rest(c) = 2 * FB + 5
    BY <2>3 DEF Rest
  <2> QED  BY <1>1, <1>2, <1>4, <2>1, <2>4
<1> QED  BY <1>2, <1>3, <1>4

LEMMA GatherLess ==
    ASSUME NEW c, Transfer(c), NEW p \in Nat, PlaceOK(c, p), c.at = "map", c.idx < c.last,
           NEW b, NEW d, d = Gather(c, b, c.idx) \/ d = Filled(c)
    PROVE  d.left = c.left /\ Rest(d) < Rest(c)
<1>1. c.left \in Nat /\ c.idx \in Nat /\ c.last \in Nat
  BY RestIs
<1>2. Rest(c) = 2 * (c.last - c.idx) + 4
  BY DEF Rest
<1>3. CASE d = Gather(c, b, c.idx)
  <2>1. /\ d.left = c.left /\ d.idx = c.idx + 1 /\ d.last = c.last
        /\ d.at = "map" \/ d.at = "xfer"
    BY <1>3, GatherIs
  <2>2. Rest(d) <= 2 * (c.last - (c.idx + 1)) + 4
    BY <1>1, <2>1 DEF Rest
  <2>3. Rest(d) \in Int
    BY <1>1, <2>1 DEF Rest
  <2> QED  BY <1>1, <1>2, <2>1, <2>2, <2>3
<1>4. CASE d = Filled(c)
  <2>1. d.left = c.left /\ d.idx = c.idx /\ d.last = c.last /\ d.at = "xfer"
    BY <1>4, FilledIs
  <2>2. Rest(d) = 2 * (c.last - c.idx) + 3
    BY <2>1 DEF Rest
  <2> QED  BY <1>1, <1>2, <2>1, <2>2
<1> QED  BY <1>3, <1>4

LEMMA TransferredLess ==
    ASSUME NEW c, Transfer(c), NEW p \in Nat, PlaceOK(c, p), Due(c), NEW end,
           NEW d, \/ d = Transferred(c, end) /\ ~c.full
                  \/ d = Ended(Transferred(c, "size"))
    PROVE  d.left < c.left \/ (d.left = c.left /\ Rest(d) < Rest(c))
<1>1. /\ At(c.count) \in Nat /\ At(c.count) <= c.left /\ (c.count > 0 \/ c.full)
      /\ c.at \in {"map", "xfer"}
  BY DueIs
<1>2. c.left \in Nat /\ c.idx \in Nat /\ c.last \in Nat /\ c.idx <= c.last
  BY <1>1, RestIs
<1>3. c.count > 0 => At(c.count) > 0
  <2>1. Spans(c, p)
    BY DEF PlaceOK
  <2> QED  BY <2>1, SpanProducts
<1>4. CASE d = Transferred(c, end) /\ ~c.full
  <2>1. d.left = c.left - At(c.count)
    BY <1>4, TransferredIs
  <2> QED  BY <1>1, <1>2, <1>3, <1>4, <2>1
<1>5. CASE d = Ended(Transferred(c, "size"))
  <2>1. d.left = c.left - At(c.count) /\ d.at = "size"
    BY <1>5 DEF Ended, Transferred, Moved, Transfer, Fields, At
  <2>2. Rest(d) = 0
    BY <2>1 DEF Rest
  <2>3. Rest(c) > 0
    BY <1>1, <1>2 DEF Rest
  <2> QED  BY <1>1, <1>2, <2>1, <2>2, <2>3
<1> QED  BY <1>4, <1>5

LEMMA StepLess ==
    ASSUME SizesInv, SizesInv', Step, ~beyond, ~beyond', call'.at # "idle"
    PROVE  Work(call') < Work(call)
<1> DEFINE p == file[call.h].fpos
<1>1. MapInv /\ DepthInv /\ Sizes /\ DepthInv' /\ Sizes'
  BY DEF SizesInv, Sizes
<1>2. call' # NoCall
  BY NoCallIdle
<1>3. ASSUME Transfer(call),
             \/ ~Transfer(call')
             \/ call'.left < call.left
             \/ call'.left = call.left /\ Rest(call') < Rest(call),
             call'.at # "cut"
      PROVE  Work(call') < Work(call)
  <2>1. p \in Nat /\ PlaceOK(call, p)
    BY <1>1, <1>3, UnderWay
  <2>2. Transfer(call')
    BY <1>1, <1>3 DEF DepthInv
  <2>3. call.left \in Nat /\ Rest(call) \in Nat
    BY <1>3, <2>1, RestIs
  <2>4. \E q \in Nat : PlaceOK(call', q)
    <3>1. FilesOK' /\ call'.h \in Handle /\ PlaceOK(call', file'[call'.h].fpos)
      BY <1>1, <2>2 DEF Sizes, Positions
    <3>2. file'[call'.h].fpos \in Nat
      BY <3>1, PosRange DEF FilesOK, FileOK, MaxPos
    <3> QED  BY <3>1, <3>2
  <2>5. call'.left \in Nat /\ Rest(call') \in Nat /\ Rest(call') < Weight
    BY <2>2, <2>4, RestIs
  <2> QED  BY <1>3, <2>2, <2>3, <2>5, LessWork
<1>4. Transfer(call) => p \in Nat /\ PlaceOK(call, p)
  BY <1>1, UnderWay
<1>5. CASE FreadHead \/ FwriteHead
  <2>1. Transfer(call) /\ call.at = "head"
    BY <1>1, <1>5 DEF FreadHead, FwriteHead, In, DepthInv, Transfer
  <2>2. PICK end \in {"size", "done"} :
          call' = HeadMoved(call, HeadLength, end) /\ call'.at # "done"
    <3>1. CASE FreadHead
      BY <1>2, <3>1 DEF FreadHead, Continue
    <3>2. CASE FwriteHead
      <4>1. call' = HeadMoved(call, HeadLength, "size")
        BY <1>2, <3>2 DEF FwriteHead
      <4>2. HeadMoved(call, HeadLength, "size").at # "done"
        BY <2>1, HeadMovedShape DEF SameTransfer, Transfer
      <4> QED  BY <4>1, <4>2
    <3> QED  BY <1>5, <3>1, <3>2
  <2>3. HeadLength = Least(call.left, BS - (p % BS))
    BY HeadLengthIs
  <2>4. call'.left < call.left \/ (call'.left = call.left /\ Rest(call') < Rest(call))
    BY <1>4, <2>1, <2>2, <2>3, HeadLess
  <2>5. call'.at # "cut"
    BY <2>1, <2>2, HeadMovedShape DEF SameTransfer, Transfer
  <2> QED  BY <1>3, <2>1, <2>4, <2>5
<1>6. CASE FreadMap \/ FwriteMap
  <2>1. Transfer(call) /\ call.at = "map" /\ call.idx < call.last
    BY <1>1, <1>6 DEF FreadMap, FwriteMap, In, DepthInv, Transfer
  <2>2. PICK b : call' = Gather(call, b, call.idx) \/ call' = Filled(call)
    <3>1. CASE FreadMap
      BY <3>1 DEF FreadMap
    <3>2. CASE FwriteMap
      <4>1. PICK res \in BlockFor(call) :
              \/ res.r = "EOK" /\ call' = Gather(call, res.blk, res.idx)
              \/ call' = Filled(call)
        BY <1>2, <3>2 DEF FwriteMap, Filled
      <4>2. res.r = "EOK" => res.idx = call.idx
        <5>1. call.op = "fwrite"
          BY <3>2 DEF FwriteMap, In
        <5>2. /\ Spans(call, p) /\ inode.size \in 0 .. MaxPos /\ p \in Nat
              /\ Blocks(inode.size) = Larger(call.blocks, call.idx)
          BY <1>1, <2>1, <5>1, Writing DEF WritePlace, WriteOK
        <5>3. call.idx \in Nat /\ call.blocks \in Nat /\ call.idx < FB
          <6>1. {call.idx, call.blocks, call.last} \subseteq Nat
            BY <5>2 DEF Spans
          <6>2. call.last <= FB
            BY <5>2, LastBlock
          <6> QED  BY <2>1, <6>1, <6>2, PosRange
        <5> QED  BY <1>1, <5>2, <5>3, WriteServes DEF Served
      <4> QED  BY <4>1, <4>2
    <3> QED  BY <1>6, <3>1, <3>2
  <2>3. call'.left = call.left /\ Rest(call') < Rest(call)
    BY <1>4, <2>1, <2>2, GatherLess
  <2>4. call'.at # "cut"
    <3>1. CASE call' = Gather(call, b, call.idx)
      <4>1. Gather(call, b, call.idx).at \in {"map", "xfer"}
        BY <2>1, GatherShape
      <4> QED  BY <3>1, <4>1
    <3>2. CASE call' = Filled(call)
      BY <2>1, <3>2, FilledIs
    <3> QED  BY <2>2, <3>1, <3>2
  <2> QED  BY <1>3, <2>1, <2>3, <2>4
<1>7. CASE FreadBlocks \/ FwriteBlocks
  <2>1. Transfer(call) /\ Due(call)
    BY <1>1, <1>7 DEF FreadBlocks, FwriteBlocks, Due, DepthInv, Transfer
  <2>2. PICK end \in {"size", "done"} :
          \/ call' = Transferred(call, end) /\ ~call.full
          \/ call' = Ended(Transferred(call, "size"))
    <3>1. CASE FreadBlocks
      <4>1. call.full = FALSE
        BY <1>1, <2>1, <3>1, UnderWay DEF FreadBlocks
      <4> QED  BY <1>2, <3>1, <4>1 DEF FreadBlocks, Continue
    <3>2. CASE FwriteBlocks
      BY <3>2 DEF FwriteBlocks, Ended
    <3> QED  BY <1>7, <3>1, <3>2
  <2>3. call'.left < call.left \/ (call'.left = call.left /\ Rest(call') < Rest(call))
    BY <1>4, <2>1, <2>2, TransferredLess
  <2>4. call'.at # "cut"
    <3>1. CASE call' = Transferred(call, end) /\ ~call.full
      BY <2>1, <3>1, TransferredShape DEF SameTransfer, Transfer
    <3>2. CASE call' = Ended(Transferred(call, "size"))
      BY <2>1, <3>2, TransferredShape, EndedIs DEF SameTransfer
    <3> QED  BY <2>2, <3>1, <3>2
  <2> QED  BY <1>3, <2>1, <2>3, <2>4
<1>8. CASE FwriteTail
  <2>1. Transfer(call) /\ call.at = "tail"
    BY <1>1, <1>8 DEF FwriteTail, In, DepthInv, Transfer
  <2>2. call' = Ended(Moved(call, call.left)) \/ call' = Ended(call)
    BY <1>2, <1>8 DEF FwriteTail, Ended
  <2>3. call.left \in Nat /\ call.left > 0
    BY <1>4, <2>1, RestIs DEF PlaceOK, Stands
  <2>4. Rest(call) = 1
    BY <2>1 DEF Rest
  <2>5. call'.at = "size" /\ (call'.left = call.left \/ call'.left = call.left - call.left)
    <3>1. CASE call' = Ended(Moved(call, call.left))
      BY <2>1, <3>1 DEF Ended, Moved, Transfer, Fields
    <3>2. CASE call' = Ended(call)
      BY <2>1, <3>2, EndedIs
    <3> QED  BY <2>2, <3>1, <3>2
  <2>6. Rest(call') = 0
    BY <2>5 DEF Rest
  <2> QED  BY <1>3, <2>1, <2>3, <2>4, <2>5, <2>6
<1>9. CASE CutPiece \/ CutPieceLoses
  <2> DEFINE n == NextSize(call)
  <2>1. call.at = "cut" /\ call' = [call EXCEPT !.left = n]
    BY <1>2, <1>9 DEF CutPiece, CutPieceLoses, CutEnds
  <2>2. CutOK(call, inode.size) /\ inode.size \in Nat
    BY <1>1, <2>1, PosRange DEF Sizes, Positions
  <2>3. call.size \in Nat /\ call.left \in Nat /\ call.size < call.left
    BY <2>2 DEF CutOK
  <2>4. n \in Nat /\ n < call.left
    BY <2>3, NextSizeIs
  <2> HIDE DEF n
  <2>5. call'.at = "cut" /\ call'.left = n
    <3>1. call = [op |-> call.op, h |-> call.h, at |-> call.at, size |-> call.size,
                  left |-> call.left, then |-> call.then]
      BY <2>2 DEF CutOK
    <3>2. call' = [op |-> call.op, h |-> call.h, at |-> call.at, size |-> call.size,
                   left |-> n, then |-> call.then]
      BY <2>1, <3>1
    <3> QED  BY <2>1, <3>2
  <2>6. Rest(call) = 1 /\ Rest(call') = 1
    BY <2>1, <2>5 DEF Rest
  <2>7. 1 < Weight
    BY PosRange DEF Weight
  <2> QED  BY <2>3, <2>4, <2>5, <2>6, <2>7, LessWork
<1>10. CASE \/ FreadTail \/ FreadFails \/ FwriteBlocksFail \/ FwriteBytesFail \/ FwriteSize
            \/ CutAtOnce \/ CutPieceFails
  BY <1>2, <1>10 DEF FreadTail, FreadFails, FwriteBlocksFail, FwriteBytesFail, FwriteSize,
     CutAtOnce, CutPieceFails, CutEnds
<1> QED  BY <1>5, <1>6, <1>7, <1>8, <1>9, <1>10 DEF Step

\* No loop of ext4_fread, ext4_fwrite or ext4_ftruncate runs forever: a transfer
\* has a block to move, or is the last one, and never more than is left, and
\* every step leaves less to do, unless a write has begun past the end.
THEOREM StepsAdvance == Spec => EveryStepAdvances
<1>1. SizesInv => (Due(call) => beyond \/ (Fits /\ (call.count > 0 \/ call.full)))
  <2> SUFFICES ASSUME SizesInv, Due(call), ~beyond
               PROVE  Fits /\ (call.count > 0 \/ call.full)
    OBVIOUS
  <2>1. Sizes /\ Transfer(call)
    BY DEF SizesInv, Sizes, DepthInv, Due
  <2>2. file[call.h].fpos \in Nat /\ PlaceOK(call, file[call.h].fpos)
    BY <2>1, UnderWay
  <2>3. At(call.count) <= call.left /\ (call.count > 0 \/ call.full)
    BY <2>2, DueIs
  <2> QED  BY <2>3 DEF Fits, At
<1>2. ASSUME SizesInv, [Next]_vars
      PROVE  [call.at # "idle" /\ call'.at # "idle" => beyond \/ Work(call') < Work(call)]_vars
  <2> SUFFICES ASSUME Next, call.at # "idle", call'.at # "idle", ~beyond
               PROVE  Work(call') < Work(call)
    BY <1>2
  <2>1. Step /\ beyond' = beyond
    BY BeyondKept
  <2>2. SizesInv'
    BY <1>2, NextSizes
  <2> QED  BY <1>2, <2>1, <2>2, StepLess
<1> QED  BY InitSizes, NextSizes, <1>1, <1>2, PTL DEF Spec, EveryStepAdvances

-----------------------------------------------------------------------------
(* What the calls show of the file: the refinement of OpenFile.            *)

IsSeq(s) == Len(s) \in Nat /\ s = [j \in 1 .. Len(s) |-> s[j]]

Sound == ~io_error /\ ~beyond

\* From block i of the file on, up to position e, the blocks are those of the
\* volume from b on.
Run(m, b, i, e) == \A j \in FileBlock : i <= j /\ At(j) < e => m[j] = b + (j - i)

\* The blocks gathered follow each other, and the odd one comes after them.
Lined(c, p, m) ==
    /\ c.count > 0 <=> c.start # 0
    /\ \A i \in FileBlock : At(i) = p => Run(m, c.start, i, p + At(c.count))
    /\ c.at = "xfer" /\ ~c.full =>
         /\ c.fblk # 0
         /\ \A i \in FileBlock : At(i) = p + At(c.count) => m[i] = c.fblk

\* A read lies in the file or begins past its end, a write knows the size of the
\* file until it appends to it.
SeesOK(c, p, f, s, m) ==
    /\ c.got \in Nat
    /\ c.op = "fread" => p + c.left <= s \/ s < p
    /\ c.op = "fwrite" =>
         /\ c.at = "head" => c.left > 0
         /\ c.at = "size" => (p <= f => s = f)
         /\ c.at # "size" => (c.idx <= c.blocks => s = f)
    /\ c.at \in {"map", "xfer"} /\ (c.op = "fread" => p + c.left <= s) => Lined(c, p, m)

Sees ==
    /\ calls \in Nat
    /\ IsSeq(taken)
    /\ call.at = "cut" => call.then.fpos \in {call.size, file[call.h].fpos}
    /\ Transfer(call) =>
         /\ call.op = "fwrite" => taken = <<>>
         /\ SeesOK(call, file[call.h].fpos, file[call.h].fsize, inode.size, inode.map)

BytesInv == Sound => Sees

\* The two ways to a file block further on.
LEMMA AtSum ==
    ASSUME NEW i \in Nat, NEW j \in Nat
    PROVE  At(i + j) = At(i) + At(j)
<1>1. BS \in Nat
  BY SizesAssumption
<1> QED  BY <1>1 DEF At

\* What a sequence written as a function is.
LEMMA SeqIs ==
    ASSUME NEW n \in Nat, NEW s, s = [j \in 1 .. n |-> s[j]]
    PROVE  s \in Seq({s[j] : j \in 1 .. n}) /\ Len(s) = n /\ DOMAIN s = 1 .. n
OBVIOUS

LEMMA InSeq == ASSUME NEW S, NEW s \in Seq(S) PROVE IsSeq(s)
BY DEF IsSeq

LEMMA ConcatIs ==
    ASSUME NEW s, IsSeq(s), NEW t, IsSeq(t)
    PROVE  /\ IsSeq(s \o t) /\ Len(s \o t) = Len(s) + Len(t)
           /\ \A j \in 1 .. Len(s) : (s \o t)[j] = s[j]
           /\ \A j \in 1 .. Len(t) : (s \o t)[Len(s) + j] = t[j]
<1> DEFINE S == {s[j] : j \in 1 .. Len(s)}
           T == {t[j] : j \in 1 .. Len(t)}
<1>1. s \in Seq(S) /\ t \in Seq(T)
  BY SeqIs DEF IsSeq
<1>2. s \in Seq(S \cup T) /\ t \in Seq(S \cup T)
  BY <1>1, SeqMonotonic
<1> HIDE DEF S, T
<1>3. /\ Len(s) \in Nat /\ Len(t) \in Nat
      /\ Len(s \o t) = Len(s) + Len(t)
      /\ \A i \in 1 .. Len(s) + Len(t) : (s \o t)[i] = IF i <= Len(s) THEN s[i] ELSE t[i - Len(s)]
  BY <1>2, ConcatProperties DEF IsSeq
<1>4. s \o t \in Seq(S \cup T)
  BY <1>2, ConcatProperties
<1>5. IsSeq(s \o t)
  BY <1>4, InSeq
<1>6. \A j \in 1 .. Len(s) : (s \o t)[j] = s[j]
  BY <1>3
<1>7. \A j \in 1 .. Len(t) : (s \o t)[Len(s) + j] = t[j]
  BY <1>3
<1> QED  BY <1>3, <1>5, <1>6, <1>7

LEMMA SubSeqIs ==
    ASSUME NEW s, IsSeq(s), NEW m \in Nat, m > 0, NEW n \in Nat, n <= Len(s)
    PROVE  /\ IsSeq(SubSeq(s, m, n))
           /\ Len(SubSeq(s, m, n)) = IF m <= n THEN n - m + 1 ELSE 0
           /\ \A j \in Nat : j >= 1 /\ j + m - 1 <= n => SubSeq(s, m, n)[j] = s[j + m - 1]
<1> DEFINE S == {s[j] : j \in 1 .. Len(s)}
<1>1. s \in Seq(S) /\ Len(s) \in Nat
  BY SeqIs DEF IsSeq
<1> HIDE DEF S
<1>2. /\ SubSeq(s, m, n) \in Seq(S)
      /\ Len(SubSeq(s, m, n)) = IF m <= n THEN n - m + 1 ELSE 0
      /\ \A j \in 1 .. (IF m <= n THEN n - m + 1 ELSE 0) : SubSeq(s, m, n)[j] = s[m + j - 1]
  BY <1>1
<1>3. IsSeq(SubSeq(s, m, n))
  BY <1>2, InSeq
<1>4. \A j \in Nat : j >= 1 /\ j + m - 1 <= n => SubSeq(s, m, n)[j] = s[j + m - 1]
  BY <1>2
<1> QED  BY <1>2, <1>3, <1>4

LEMMA PartIs ==
    ASSUME NEW s, IsSeq(s), NEW p \in Nat, NEW n \in Nat, n > 0, NEW e \in Nat, e = p + n, e <= Len(s),
           NEW m \in Nat, m = p + 1
    PROVE  /\ IsSeq(SubSeq(s, m, e)) /\ Len(SubSeq(s, m, e)) = n
           /\ \A j \in 1 .. n : SubSeq(s, m, e)[j] = s[p + j]
<1> DEFINE u == SubSeq(s, m, e)
<1>1. m > 0 /\ m <= e /\ e - m + 1 = n
  OBVIOUS
<1> SUFFICES IsSeq(u) /\ Len(u) = n /\ \A j \in 1 .. n : u[j] = s[p + j]
  OBVIOUS
<1>2. /\ IsSeq(u) /\ Len(u) = IF m <= e THEN e - m + 1 ELSE 0
      /\ \A j \in Nat : j >= 1 /\ j + m - 1 <= e => u[j] = s[j + m - 1]
  BY <1>1, SubSeqIs
<1> HIDE DEF u
<1>3. ASSUME NEW j \in 1 .. n PROVE u[j] = s[p + j]
  <2>1. j \in Nat /\ j >= 1 /\ j + m - 1 <= e /\ j + m - 1 = p + j
    OBVIOUS
  <2>2. u[j] = s[j + m - 1]
    BY <1>2, <2>1
  <2> QED  BY <2>1, <2>2
<1> QED  BY <1>1, <1>2, <1>3

LEMMA SeqEq ==
    ASSUME NEW s, IsSeq(s), NEW t, IsSeq(t), Len(s) = Len(t),
           \A j \in 1 .. Len(s) : s[j] = t[j]
    PROVE  s = t
BY DEF IsSeq

\* A sequence of bytes with some of them written over, or added at its end.
LEMMA OverwriteIs ==
    ASSUME NEW c, IsSeq(c), NEW b, IsSeq(b), NEW p \in Nat, p <= Len(c)
    PROVE  LET w == Abstract!Overwrite(c, p, b)
           IN  /\ IsSeq(w)
               /\ Len(w) = IF Len(c) <= p + Len(b) THEN p + Len(b) ELSE Len(c)
               /\ \A j \in 1 .. Len(w) :
                    w[j] = IF p < j /\ j <= p + Len(b) THEN b[j - p] ELSE c[j]
<1> DEFINE h == SubSeq(c, 1, p)
           n == p + Len(b)
           t == SubSeq(c, n + 1, Len(c))
           v == h \o b
           w == v \o t
<1>1. Len(c) \in Nat /\ Len(b) \in Nat /\ n \in Nat /\ n + 1 > 0 /\ n + 1 \in Nat
  BY DEF IsSeq
<1>2. /\ IsSeq(h) /\ Len(h) = p
      /\ \A j \in Nat : j >= 1 /\ j <= p => h[j] = c[j]
  <2>1. /\ IsSeq(h) /\ Len(h) = IF 1 <= p THEN p - 1 + 1 ELSE 0
        /\ \A j \in Nat : j >= 1 /\ j + 1 - 1 <= p => h[j] = c[j + 1 - 1]
    BY <1>1, SubSeqIs
  <2> HIDE DEF h
  <2> QED  BY <2>1
<1>3. /\ IsSeq(t) /\ Len(t) = IF n < Len(c) THEN Len(c) - n ELSE 0
      /\ \A j \in Nat : j >= 1 /\ j + n <= Len(c) => t[j] = c[j + n]
  <2>1. /\ IsSeq(t) /\ Len(t) = IF n + 1 <= Len(c) THEN Len(c) - (n + 1) + 1 ELSE 0
        /\ \A j \in Nat : j >= 1 /\ j + (n + 1) - 1 <= Len(c) => t[j] = c[j + (n + 1) - 1]
    BY <1>1, SubSeqIs
  <2> HIDE DEF t, n
  <2>2. \A j \in Nat : j + (n + 1) - 1 = j + n
    BY <1>1
  <2> QED  BY <1>1, <2>1, <2>2
<1>4. n = p + Len(b)
  OBVIOUS
<1> HIDE DEF h, t, n
<1>5. /\ IsSeq(v) /\ Len(v) = n
      /\ \A j \in 1 .. p : v[j] = h[j]
      /\ \A j \in 1 .. Len(b) : v[p + j] = b[j]
  BY <1>2, <1>4, ConcatIs
<1> HIDE DEF v
<1>6. /\ IsSeq(w) /\ Len(w) = n + Len(t)
      /\ \A j \in 1 .. n : w[j] = v[j]
      /\ \A j \in 1 .. Len(t) : w[n + j] = t[j]
  <2>1. /\ IsSeq(v \o t) /\ Len(v \o t) = Len(v) + Len(t)
        /\ \A j \in 1 .. Len(v) : (v \o t)[j] = v[j]
        /\ \A j \in 1 .. Len(t) : (v \o t)[Len(v) + j] = t[j]
    <3>1. IsSeq(v) /\ IsSeq(t)
      BY <1>3, <1>5
    <3> QED  BY <3>1, ConcatIs
  <2>2. Len(v) = n
    BY <1>5
  <2>3. w = v \o t
    OBVIOUS
  <2> HIDE DEF w
  <2> QED  BY <2>1, <2>2, <2>3
<1>7. Abstract!Overwrite(c, p, b) = w
  BY DEF Abstract!Overwrite, w, v, h, t, n
<1> HIDE DEF w
<1>8. ASSUME NEW j \in 1 .. Len(w)
      PROVE  w[j] = IF p < j /\ j <= n THEN b[j - p] ELSE c[j]
  <2>0. j \in Nat /\ j >= 1
    BY <1>1, <1>3, <1>6
  <2>1. CASE j <= p
    <3>1. w[j] = v[j] /\ v[j] = h[j] /\ h[j] = c[j]
      BY <1>1, <1>2, <1>4, <1>5, <1>6, <2>0, <2>1
    <3> QED  BY <2>0, <2>1, <3>1
  <2>2. CASE p < j /\ j <= n
    <3>1. j - p \in 1 .. Len(b) /\ p + (j - p) = j
      BY <1>1, <1>4, <2>0, <2>2
    <3>2. w[j] = v[j] /\ v[p + (j - p)] = b[j - p]
      BY <1>1, <1>5, <1>6, <2>0, <2>2, <3>1
    <3> QED  BY <2>2, <3>1, <3>2
  <2>3. CASE n < j
    <3>1. j - n \in 1 .. Len(t) /\ n + (j - n) = j /\ j - n \in Nat /\ (j - n) + n <= Len(c)
          /\ (j - n) + n = j
      BY <1>1, <1>3, <1>6, <2>0, <2>3
    <3>2. w[n + (j - n)] = t[j - n]
      BY <1>6, <3>1
    <3>3. t[j - n] = c[(j - n) + n]
      <4>1. j - n >= 1
        BY <1>1, <2>0, <2>3
      <4> QED  BY <1>3, <3>1, <4>1
    <3> QED  BY <1>1, <1>4, <2>0, <2>3, <3>1, <3>2, <3>3
  <2> QED  BY <1>1, <2>0, <2>1, <2>2, <2>3
<1>9. Len(w) = IF Len(c) <= n THEN n ELSE Len(c)
  BY <1>1, <1>3, <1>6
<1> QED  BY <1>4, <1>6, <1>7, <1>8, <1>9

\* Bytes that follow each other, x bytes after the beginning of block i.
LEMMA Beyond ==
    ASSUME NEW i \in Nat, NEW x \in Nat
    PROVE  \E a \in Nat : \E r \in Nat :
             /\ x \div BS = a /\ x % BS = r /\ r < BS
             /\ x = At(a) + r /\ At(a) \in Nat
             /\ At(i) + x = At(i + a) + r /\ At(i + a) \in Nat
             /\ (At(i) + x) \div BS = i + a /\ (At(i) + x) % BS = r
<1>1. PICK a \in Nat, r \in Nat : /\ x \div BS = a /\ x % BS = r
                                   /\ x = At(a) + r /\ r < BS /\ At(a) \in Nat
  BY DivAt
<1>2. At(i + a) = At(i) + At(a) /\ At(i) \in Nat /\ i + a \in Nat /\ At(i + a) \in Nat
  BY AtSum, AtIs
<1>3. At(i) + x = At(i + a) + r /\ At(i) + x \in Nat
  BY <1>1, <1>2
<1>4. (At(i) + x) \div BS = i + a /\ (At(i) + x) % BS = (At(i) + x) - At(i + a)
  <2>1. At(i + a) <= At(i) + x /\ At(i) + x < At(i + a) + BS
    BY <1>1, <1>2, <1>3, PosRange
  <2> QED  BY <1>2, <1>3, <2>1, Inside
<1>5. (At(i) + x) % BS = r
  BY <1>1, <1>2, <1>3, <1>4
<1> QED  BY <1>1, <1>2, <1>3, <1>4, <1>5

LEMMA InFile ==
    ASSUME NEW i \in Nat, At(i) < MaxPos
    PROVE  i \in FileBlock
BY AtMono, PosRange DEF FileBlock

\* What a transfer from the blocks of a run reads.
LEMMA RunBytes ==
    ASSUME NEW i \in Nat, NEW off \in Nat, NEW n \in Nat, NEW b, NEW p,
           p = At(i) + off, p + n <= MaxPos, Run(inode.map, b, i, p + n)
    PROVE  /\ IsSeq(Bytes(b, off, n)) /\ Len(Bytes(b, off, n)) = n
           /\ \A j \in 1 .. n : Bytes(b, off, n)[j] = ByteAt(p + j - 1)
<1> DEFINE s == Bytes(b, off, n)
<1>1. /\ IsSeq(s) /\ Len(s) = n
      /\ \A j \in 1 .. n : s[j] = data[b + (off + j - 1) \div BS][(off + j - 1) % BS]
  BY DEF Bytes, IsSeq
<1>2. p \in Nat /\ At(i) \in Nat
  BY AtIs
<1>3. ASSUME NEW j \in 1 .. n PROVE s[j] = ByteAt(p + j - 1)
  <2>0. PICK x \in Nat : x = off + j - 1
    OBVIOUS
  <2>1. p + j - 1 = At(i) + x
    BY <1>2, <2>0
  <2>2. s[j] = data[b + x \div BS][x % BS]
    BY <1>1, <2>0
  <2>3. PICK a \in Nat : \E r \in Nat :
          /\ x \div BS = a /\ x % BS = r /\ r < BS
          /\ x = At(a) + r /\ At(a) \in Nat
          /\ At(i) + x = At(i + a) + r /\ At(i + a) \in Nat
          /\ (At(i) + x) \div BS = i + a /\ (At(i) + x) % BS = r
    BY Beyond, Zenon
  <2>33. PICK r \in Nat :
          /\ x \div BS = a /\ x % BS = r /\ r < BS
          /\ x = At(a) + r /\ At(a) \in Nat
          /\ At(i) + x = At(i + a) + r /\ At(i + a) \in Nat
          /\ (At(i) + x) \div BS = i + a /\ (At(i) + x) % BS = r
    BY <2>3, Zenon
  <2>4. At(i + a) < p + n
    BY <1>2, <2>0, <2>1, <2>33
  <2>5. i + a \in FileBlock
    BY <1>2, <2>33, <2>4, InFile, PosRange
  <2>6. inode.map[i + a] = b + ((i + a) - i)
    BY <2>33, <2>4, <2>5 DEF Run
  <2>7. inode.map[i + a] = b + a
    BY <2>33, <2>6
  <2>8. ByteAt(p + j - 1) = data[inode.map[i + a]][r]
    BY <2>1, <2>33 DEF ByteAt
  <2> QED  BY <2>2, <2>33, <2>7, <2>8
<1> QED  BY <1>1, <1>3

\* What a transfer to the blocks of a run changes: the bytes it was given to
\* and no other byte of the file.
LEMMA OverlayBytes ==
    ASSUME NEW m, NEW fr, Places(m, fr), NEW i \in Nat, NEW off \in Nat, NEW n \in Nat,
           NEW b \in Nat, NEW p, p = At(i) + off, p + n <= MaxPos, Run(m, b, i, p + n),
           NEW k, NEW q \in Nat, q < MaxPos, m[q \div BS] # 0
    PROVE  Overlay(b, off, n, k)[m[q \div BS]][q % BS] =
             IF p <= q /\ q < p + n THEN Buf(k + (q - p)) ELSE data[m[q \div BS]][q % BS]
<1>1. PICK u \in Nat, c \in Nat : /\ q \div BS = u /\ q % BS = c
                                   /\ q = At(u) + c /\ c < BS /\ At(u) \in Nat
  BY DivAt
<1>2. u \in FileBlock
  BY <1>1, InFile, PosRange
<1>3. m[u] \in 0 .. NP /\ m[u] \in Nat /\ m[u] # 0
  BY <1>1, <1>2, SizesAssumption DEF Places
<1> DEFINE P == m[u]
           j == (P - b) * BS + c - off
<1>4. Overlay(b, off, n, k)[P][c] = IF j \in 0 .. (n - 1) THEN Buf(k + j) ELSE data[P][c]
  <2>1. c \in 0 .. (BS - 1)
    BY <1>1, PosRange
  <2> QED  BY <1>3, <2>1 DEF Overlay
<1>5. p \in Nat /\ At(i) \in Nat
  BY AtIs
<1>6. j = (P - b) * BS + c - off /\ P = m[u]
  OBVIOUS
<1> HIDE DEF j, P
<1>7. CASE p <= q /\ q < p + n
  <2>1. i <= u
    <3>1. ~(u < i)
      <4>1. ASSUME u < i PROVE At(u) + BS <= At(i)
        BY <4>1, AtMono
      <4> QED  BY <1>1, <1>5, <1>7, <4>1, PosRange
    <3> QED  BY <1>1, <3>1
  <2>2. At(u) < p + n
    BY <1>1, <1>5, <1>7
  <2>3. P = b + (u - i)
    BY <1>2, <1>6, <2>1, <2>2 DEF Run
  <2>4. (P - b) * BS = At(u) - At(i)
    <3>1. PICK v \in Nat : u = i + v
      <4>1. u - i \in Nat /\ u = i + (u - i)
        BY <1>1, <2>1
      <4> QED  BY <4>1
    <3>2. P - b = v
      BY <1>1, <2>3, <3>1
    <3>3. At(u) = At(i) + At(v) /\ At(v) \in Nat
      BY <3>1, AtSum, AtIs
    <3>4. v * BS = At(v)
      BY PosRange DEF At
    <3> QED  BY <1>1, <1>5, <3>2, <3>3, <3>4
  <2>5. j = q - p
    BY <1>1, <1>5, <1>6, <2>4
  <2>6. j \in 0 .. (n - 1)
    BY <1>5, <1>7, <2>5
  <2> QED  BY <1>1, <1>4, <1>6, <1>7, <2>5, <2>6
<1>8. CASE ~(p <= q /\ q < p + n)
  <2>1. ASSUME j \in 0 .. (n - 1) PROVE FALSE
    <3> DEFINE v == P - b
    <3>1. v \in Int
      BY <1>3, <1>6
    <3>2. j = v * BS + c - off /\ v * BS \in Int
      BY <1>6, <3>1, PosRange
    <3>3. P = b + v
      BY <1>3, <1>6
    <3> HIDE DEF v
    <3>4. v \in Nat
      <4>1. ASSUME v < 0 PROVE FALSE
        <5>1. BS * v + BS <= BS * 0 /\ BS * 0 = 0 /\ BS * v = v * BS
          BY <3>1, <4>1, MulMono, PosRange
        <5> QED  BY <1>1, <2>1, <3>2, <5>1, PosRange
      <4> QED  BY <3>1, <4>1
    <3>5. At(v) = v * BS /\ At(v) \in Nat /\ At(i + v) = At(i) + At(v) /\ At(i + v) \in Nat
          /\ i + v \in Nat
      <4>1. At(v) = v * BS
        BY <3>4, PosRange DEF At
      <4> QED  BY <3>4, <4>1, AtSum, AtIs
    <3>6. At(i + v) + c = p + j
      BY <1>1, <1>5, <2>1, <3>2, <3>5
    <3>7. At(i + v) < p + n
      BY <1>1, <1>5, <2>1, <3>5, <3>6
    <3>8. i + v \in FileBlock
      BY <1>5, <3>5, <3>7, InFile, PosRange
    <3>9. m[i + v] = b + v
      <4>1. m[i + v] = b + ((i + v) - i)
        BY <3>4, <3>7, <3>8 DEF Run
      <4> QED  BY <3>4, <4>1
    <3>10. i + v = u
      BY <1>2, <1>3, <1>6, <3>3, <3>8, <3>9 DEF Places
    <3>11. q = p + j
      BY <1>1, <3>6, <3>10
    <3> QED  BY <1>5, <1>8, <2>1, <3>11
  <2> QED  BY <1>1, <1>4, <1>6, <1>8, <2>1
<1> QED  BY <1>7, <1>8

\* The variables of OpenFile.
Content == [p \in 1 .. Visible |-> ByteAt(p - 1)]
Placed == [h \in Handle |-> file[h].fpos]
Given == IF call.at # "idle" /\ call.op = "fwrite"
         THEN [j \in 1 .. call.left |-> Buf(call.got + j - 1)] ELSE <<>>

OpenFileStep == [Sound => Abstract!Next]_(Abstract!vars)

LEMMA ContentIs ==
    ASSUME Visible \in Nat
    PROVE  /\ IsSeq(Content) /\ Len(Content) = Visible
           /\ \A j \in 1 .. Visible : Content[j] = ByteAt(j - 1)
BY DEF Content, IsSeq

LEMMA GivenIs ==
    ASSUME call.at # "idle", call.op = "fwrite", call.left \in Nat
    PROVE  /\ IsSeq(Given) /\ Len(Given) = call.left
           /\ \A j \in 1 .. call.left : Given[j] = Buf(call.got + j - 1)
<1>1. Given = [j \in 1 .. call.left |-> Buf(call.got + j - 1)]
  BY DEF Given
<1> QED  BY <1>1 DEF IsSeq

\* The steps of OpenFile.
LEMMA NoStep ==
    ASSUME Content' = Content, Given' = Given, Placed' = Placed, taken' = taken, Sound' = Sound
    PROVE  OpenFileStep
BY DEF OpenFileStep, Abstract!vars, Content, Given, Placed, Sound

LEMMA UnsoundStep == ASSUME ~Sound \/ ~Sound' PROVE OpenFileStep
BY DEF OpenFileStep, Abstract!Next, Sound

LEMMA CallStep ==
    ASSUME Content' = Content, IsSeq(Given'), \A j \in 1 .. Len(Given') : Given'[j] \in Nat,
           Placed' = Placed, taken' = <<>>, Sound' = Sound
    PROVE  OpenFileStep
<1>1. Given' \in Seq(Nat)
  BY DEF IsSeq
<1>2. Abstract!Call
  BY <1>1 DEF Abstract!Call, Content, Given, Placed, Sound
<1> QED  BY <1>2 DEF OpenFileStep, Abstract!Next

LEMMA PlaceStep ==
    ASSUME Content' = Content, Given' = Given, taken' = taken, Sound' = Sound,
           NEW h \in Handle, NEW p \in Nat, Placed' = [Placed EXCEPT ![h] = p]
    PROVE  OpenFileStep
<1>1. Placed'[h] = p
  BY DEF Placed
<1>2. Abstract!Place(h)
  BY <1>1 DEF Abstract!Place, Content, Given, Placed, Sound
<1> QED  BY <1>2 DEF OpenFileStep, Abstract!Next

LEMMA ReadStep ==
    ASSUME Content' = Content, Given' = Given, Sound' = Sound,
           NEW h \in Handle, NEW n \in Nat, n > 0, Placed' = [Placed EXCEPT ![h] = @ + n],
           NEW p, p = Placed[h], n <= Len(taken'),
           IF p > Len(Content) THEN Len(taken') = Len(taken) + n
           ELSE /\ p + n <= Len(Content)
                /\ taken' = taken \o SubSeq(Content, p + 1, p + n)
    PROVE  OpenFileStep
<1>1. Abstract!Read(h, n)
  BY DEF Abstract!Read, Content, Given, Placed, Sound
<1>2. n \in 1 .. Len(taken')
  OBVIOUS
<1> QED  BY <1>1, <1>2 DEF OpenFileStep, Abstract!Next

LEMMA WriteStep ==
    ASSUME taken' = taken, Sound' = Sound,
           NEW h \in Handle, NEW n \in Nat, n > 0, Placed' = [Placed EXCEPT ![h] = @ + n],
           n <= Len(Given), NEW p, p = Placed[h], p <= Len(Content),
           Content' = Abstract!Overwrite(Content, p, SubSeq(Given, 1, n)),
           Given' = SubSeq(Given, n + 1, Len(Given))
    PROVE  OpenFileStep
<1>1. Abstract!Write(h, n)
  BY DEF Abstract!Write, Content, Given, Placed, Sound
<1>2. n \in 1 .. Len(Given)
  OBVIOUS
<1>3. \E k \in 1 .. Len(Given) : Abstract!Write(h, k)
  BY <1>1, <1>2
<1> QED  BY <1>3 DEF OpenFileStep, Abstract!Next, Given

LEMMA TruncateStep ==
    ASSUME Given' = Given, taken' = taken, Sound' = Sound,
           NEW h \in Handle, NEW n \in Nat, n <= Len(Content),
           Content' = SubSeq(Content, 1, n),
           Placed' = Placed \/ Placed' = [Placed EXCEPT ![h] = n]
    PROVE  OpenFileStep
<1>1. Abstract!Truncate(h, n)
  BY DEF Abstract!Truncate, Content, Given, Placed, Sound
<1>2. \E k \in 0 .. Len(Content) : Abstract!Truncate(h, k)
  BY <1>1
<1> QED  BY <1>2 DEF OpenFileStep, Abstract!Next, Content

\* Blocks up to a size.
LEMMA UpTo ==
    ASSUME NEW i \in Nat, NEW n \in Nat
    PROVE  /\ At(i) <= n => i <= Blocks(n)
           /\ At(i) < n => i < Blocks(n)
           /\ i < Blocks(n) => At(i) < n
<1>1. /\ Blocks(n) \in Nat /\ n <= At(Blocks(n)) /\ At(Blocks(n)) < n + BS
      /\ At(Blocks(n)) \in Nat /\ At(i) \in Nat
  BY BlocksIs, AtIs
<1>2. ASSUME Blocks(n) < i PROVE At(Blocks(n)) + BS <= At(i)
  BY <1>1, <1>2, AtMono
<1>3. ASSUME i < Blocks(n) PROVE At(i) + BS <= At(Blocks(n))
  BY <1>1, <1>3, AtMono
<1> QED  BY <1>1, <1>2, <1>3, PosRange

\* Nothing gathered is in line.
LEMMA NoneLined ==
    ASSUME NEW c, NEW p \in Nat, NEW m, c.start = 0, c.count = 0, c.at = "map"
    PROVE  Lined(c, p, m)
<1>1. ASSUME NEW i \in FileBlock, At(i) = p, NEW j \in FileBlock, i <= j, At(j) < p + At(c.count)
      PROVE  FALSE
  <2>1. At(c.count) = 0 /\ i \in Nat /\ j \in Nat /\ At(i) \in Nat /\ At(j) \in Nat
    BY AtIs DEF FileBlock
  <2>2. At(j) < At(i)
    BY <1>1, <2>1
  <2> QED  BY <1>1, <2>1, <2>2, AtMono
<1>2. \A i \in FileBlock : At(i) = p => Run(m, c.start, i, p + At(c.count))
  BY <1>1 DEF Run
<1> QED  BY <1>2 DEF Lined

LEMMA StartSees ==
    ASSUME NEW op \in {"fread", "fwrite"}, NEW h \in Handle, NEW n \in Nat, NEW b,
           NEW end \in {"size", "done"}, NEW s \in Nat, NEW m, file[h].fpos \in Nat,
           op = "fread" => file[h].fpos + n <= s \/ s < file[h].fpos,
           op = "fwrite" => n > 0
    PROVE  SeesOK(Locals(op, h, n, b, end), file[h].fpos, s, s, m)
<1> DEFINE c == Locals(op, h, n, b, end)
           p == file[h].fpos
<1>1. /\ c.got = 0 /\ c.op = op /\ c.left = n /\ c.start = 0 /\ c.count = 0
      /\ c.at \in {"head", "map", "tail", end}
  BY DEF Locals, NextPart
<1> SUFFICES SeesOK(c, p, s, s, m)
  OBVIOUS
<1> HIDE DEF c
<1>2. c.at \in {"map", "xfer"} => Lined(c, p, m)
  BY <1>1, NoneLined
<1> QED  BY <1>1, <1>2 DEF SeesOK

LEMMA HeadSees ==
    ASSUME NEW c, Transfer(c), NEW p \in Nat, PlaceOK(c, p), c.at = "head", NEW f, NEW s \in Nat, NEW m,
           SeesOK(c, p, f, s, m), c.op = "fwrite" => WriteOK(c, p, f, s),
           NEW end \in {"size", "done"}, NEW k, k = Least(c.left, BS - (p % BS))
    PROVE  SeesOK(HeadMoved(c, k, end), p + k, f, s, m)
<1> DEFINE d == HeadMoved(c, k, end)
<1>1. /\ k \in Nat /\ d.left = c.left - k /\ d.idx = c.idx + 1 /\ d.count = 0
      /\ d.blocks = c.blocks /\ d.at \in {"map", "tail", end}
  BY HeadPlace
<1>2. d.got = c.got + k /\ d.op = c.op /\ d.start = c.start
  BY DEF HeadMoved, Moved, Transfer, Fields
<1>3. /\ c.got \in Nat /\ c.left \in Nat /\ c.start = 0 /\ c.idx \in Nat /\ c.blocks \in Nat
      /\ c.op = "fread" => p + c.left <= s \/ s < p
  BY DEF SeesOK, PlaceOK, Spans, Stands
<1>4. c.op = "fwrite" => s = f
  BY <1>3 DEF SeesOK, WriteOK
<1> SUFFICES SeesOK(d, p + k, f, s, m)
  OBVIOUS
<1> HIDE DEF d
<1>5. d.op = "fread" => (p + k) + d.left <= s \/ s < p + k
  <2>1. (p + k) + d.left = p + c.left
    BY <1>1, <1>3
  <2>2. CASE p + c.left <= s
    BY <2>1, <2>2
  <2>3. CASE s < p
    BY <1>1, <2>3
  <2> QED  BY <1>2, <1>3, <2>2, <2>3
<1>6. d.at = "map" => Lined(d, p + k, m)
  BY <1>1, <1>2, <1>3, NoneLined
<1>7. d.got \in Nat /\ d.at \notin {"head", "xfer"}
  BY <1>1, <1>2, <1>3
<1> QED  BY <1>2, <1>4, <1>5, <1>6, <1>7 DEF SeesOK

\* A block gathered is in line with those before, or is the odd one.
LEMMA GatherLined ==
    ASSUME NEW c, Transfer(c), NEW p \in Nat, PlaceOK(c, p), c.at = "map", c.idx < c.last,
           NEW m, Lined(c, p, m), NEW b \in Nat, b # 0, NEW n, n[c.idx] = b,
           \A j \in FileBlock : m[j] # 0 => n[j] = m[j]
    PROVE  Lined(Gather(c, b, c.idx), p, n)
<1> DEFINE d == Gather(c, b, c.idx)
           start == IF c.start = 0 THEN b ELSE c.start
<1>1. /\ Spans(c, p) /\ ~c.full /\ At(c.idx) = p + At(c.count)
  BY DEF PlaceOK, Stands
<1>2. /\ {c.left, c.idx, c.last, c.start, c.count, c.fblk, c.blocks} \subseteq Nat
      /\ {At(c.idx), At(c.last), At(c.count), At(c.idx + 1), At(c.count + 1)} \subseteq Nat
      /\ At(c.idx + 1) = At(c.idx) + BS /\ At(c.count + 1) = At(c.count) + BS
  BY <1>1, SpanProducts
<1>3. /\ d.start = start /\ d.fblk = b
      /\ start + c.count = b => d.count = c.count + 1 /\ d.at = "map"
      /\ start + c.count # b => d.count = c.count /\ d.at = "xfer"
  BY GatherIs
<1>4. /\ start \in Nat /\ start # 0 /\ (c.start # 0 => start = c.start)
      /\ (c.count > 0 <=> c.start # 0) /\ (c.start = 0 => start = b)
  BY <1>2 DEF Lined
<1> SUFFICES Lined(d, p, n)
  OBVIOUS
<1> HIDE DEF d, start
<1>5. ASSUME NEW i \in FileBlock, At(i) = p, NEW j \in FileBlock, i <= j, j < c.idx
      PROVE  n[j] = start + (j - i)
  <2>1. i \in Nat /\ j \in Nat /\ i < c.idx
    BY <1>2, <1>5 DEF FileBlock
  <2>2. At(j) < At(c.idx) /\ At(i) < At(c.idx)
    BY <1>2, <1>5, <2>1, AtMono
  <2>3. c.count > 0
    <3>1. ASSUME c.count = 0 PROVE FALSE
      <4>1. At(c.count) = 0
        BY <3>1, AtIs
      <4> QED  BY <1>1, <1>2, <1>5, <2>2, <4>1
    <3> QED  BY <1>2, <3>1
  <2>4. start = c.start
    BY <1>4, <2>3
  <2>5. m[j] = c.start + (j - i)
    BY <1>1, <1>5, <2>2 DEF Lined, Run
  <2>6. m[j] # 0
    BY <1>4, <1>5, <2>1, <2>4, <2>5
  <2> QED  BY <2>4, <2>5, <2>6
<1>6. ASSUME NEW i \in FileBlock, At(i) = p PROVE c.idx = i + c.count
  <2>1. i \in Nat /\ i + c.count \in Nat /\ c.idx \in Nat /\ At(i + c.count) = At(i) + At(c.count)
    <3>1. i \in Nat /\ c.count \in Nat /\ c.idx \in Nat
      BY <1>2 DEF FileBlock
    <3>2. At(i + c.count) = At(i) + At(c.count)
      BY <3>1, AtSum, Zenon
    <3> QED  BY <3>1, <3>2
  <2>2. At(i + c.count) = At(c.idx)
    BY <1>1, <1>6, <2>1
  <2>3. ~(i + c.count < c.idx) /\ ~(c.idx < i + c.count)
    BY <1>2, <2>1, <2>2, AtMono
  <2> QED  BY <2>1, <2>3
<1>7. ASSUME NEW j \in FileBlock, At(j) < At(c.idx) PROVE j < c.idx
  <2>1. j \in Nat
    BY DEF FileBlock
  <2> QED  BY <1>2, <1>7, <2>1, AtMono
<1>8. CASE start + c.count = b
  <2>1. d.count = c.count + 1 /\ d.at = "map"
    BY <1>3, <1>8
  <2>2. p + At(d.count) = At(c.idx + 1)
    <3>1. At(d.count) = At(c.count + 1)
      BY <2>1
    <3> QED  BY <1>1, <1>2, <3>1, PosRange
  <2>3. ASSUME NEW i \in FileBlock, At(i) = p PROVE Run(n, start, i, p + At(d.count))
    <3>1. ASSUME NEW j \in FileBlock, i <= j, At(j) < p + At(d.count)
          PROVE  n[j] = start + (j - i)
      <4>1. j \in Nat /\ At(j) < At(c.idx + 1) /\ c.idx + 1 \in Nat
        BY <1>2, <2>2, <3>1 DEF FileBlock
      <4>2. j < c.idx + 1
        BY <4>1, AtMono
      <4>3. CASE j < c.idx
        BY <1>5, <2>3, <3>1, <4>3
      <4>4. CASE j = c.idx
        <5>1. j - i = c.count
          BY <1>2, <1>6, <2>3, <4>4 DEF FileBlock
        <5> QED  BY <1>8, <4>4, <5>1
      <4> QED  BY <1>2, <4>1, <4>2, <4>3, <4>4
    <3> QED  BY <3>1 DEF Run
  <2>4. d.count > 0 <=> d.start # 0
    BY <1>2, <1>3, <1>4, <2>1
  <2> QED  BY <1>3, <2>1, <2>3, <2>4 DEF Lined
<1>9. CASE start + c.count # b
  <2>1. d.count = c.count /\ d.at = "xfer"
    BY <1>3, <1>9
  <2>2. p + At(d.count) = At(c.idx)
    BY <1>1, <2>1
  <2>3. ASSUME NEW i \in FileBlock, At(i) = p PROVE Run(n, start, i, p + At(d.count))
    <3>1. ASSUME NEW j \in FileBlock, i <= j, At(j) < p + At(d.count)
          PROVE  n[j] = start + (j - i)
      BY <1>5, <1>7, <2>2, <2>3, <3>1
    <3> QED  BY <3>1 DEF Run
  <2>4. d.count > 0 <=> d.start # 0
    <3>1. c.start # 0
      BY <1>2, <1>4, <1>9
    <3> QED  BY <1>3, <1>4, <2>1, <3>1
  <2>5. ASSUME NEW i \in FileBlock, At(i) = p + At(d.count) PROVE n[i] = b
    <3>1. At(i) = At(c.idx) /\ i \in Nat
      BY <2>2, <2>5 DEF FileBlock
    <3>2. ~(i < c.idx) /\ ~(c.idx < i)
      BY <1>2, <3>1, AtMono
    <3> QED  BY <1>2, <3>1, <3>2
  <2> QED  BY <1>3, <2>1, <2>3, <2>4, <2>5 DEF Lined
<1> QED  BY <1>8, <1>9

LEMMA GatherSees ==
    ASSUME NEW c, Transfer(c), NEW p \in Nat, PlaceOK(c, p), c.at = "map", c.idx < c.last,
           NEW f, NEW s, NEW m, SeesOK(c, p, f, s, m), NEW b \in Nat, NEW t, NEW n,
           c.op = "fread" => t = s, c.op = "fwrite" => (c.idx < c.blocks => t = s),
           (c.op = "fread" => p + c.left <= s) =>
             /\ b # 0 /\ n[c.idx] = b
             /\ \A j \in FileBlock : m[j] # 0 => n[j] = m[j]
    PROVE  SeesOK(Gather(c, b, c.idx), p, f, t, n)
<1> DEFINE d == Gather(c, b, c.idx)
<1>1. /\ d.left = c.left /\ d.idx = c.idx + 1 /\ d.blocks = c.blocks
      /\ d.at \in {"map", "xfer"} /\ d.op = c.op
  BY GatherIs
<1>2. d.got = c.got
  BY DEF Gather, Transfer, Fields
<1>3. c.got \in Nat /\ c.idx \in Nat /\ c.blocks \in Nat
  BY DEF SeesOK, PlaceOK, Spans
<1>4. (c.op = "fread" => p + c.left <= s) => Lined(d, p, n)
  BY GatherLined DEF SeesOK
<1> SUFFICES SeesOK(d, p, f, t, n)
  OBVIOUS
<1> HIDE DEF d
<1>5. d.op = "fread" => p + d.left <= t \/ t < p
  BY <1>1 DEF SeesOK
<1>6. d.op = "fwrite" => (d.idx <= d.blocks => t = f)
  BY <1>1, <1>3 DEF SeesOK
<1>7. (d.op = "fread" => p + d.left <= t) => Lined(d, p, n)
  BY <1>1, <1>4
<1>8. d.at # "head" /\ d.at # "size"
  BY <1>1
<1> QED  BY <1>2, <1>3, <1>5, <1>6, <1>7, <1>8 DEF SeesOK

LEMMA FilledSees ==
    ASSUME NEW c, Transfer(c), c.op = "fwrite", c.at = "map", NEW p, NEW f, NEW s, NEW m,
           SeesOK(c, p, f, s, m)
    PROVE  SeesOK(Filled(c), p, f, s, m)
<1> DEFINE d == Filled(c)
<1>1. /\ d.start = c.start /\ d.idx = c.idx /\ d.count = c.count
      /\ d.at = "xfer" /\ d.full = TRUE /\ d.blocks = c.blocks /\ d.op = "fwrite"
  BY FilledIs
<1>2. d.got = c.got
  BY DEF Filled, Transfer, Fields
<1>3. Lined(c, p, m)
  BY DEF SeesOK
<1> SUFFICES SeesOK(d, p, f, s, m)
  OBVIOUS
<1> HIDE DEF d
<1>4. Lined(d, p, m)
  BY <1>1, <1>3 DEF Lined
<1> QED  BY <1>1, <1>2, <1>4 DEF SeesOK

\* What was gathered was transferred: the odd block is in line with itself.
LEMMA TransferredSees ==
    ASSUME NEW c, Transfer(c), NEW p \in Nat, PlaceOK(c, p), Due(c), ~c.full,
           NEW f \in Nat, NEW s \in Nat, NEW m, SeesOK(c, p, f, s, m),
           c.op = "fwrite" => WriteOK(c, p, f, s), NEW end \in {"size", "done"}
    PROVE  SeesOK(Transferred(c, end), p + At(c.count), f, s, m)
<1> DEFINE d == Transferred(c, end)
           k == At(c.count)
<1>1. /\ PlaceOK(d, p + k) /\ d.at \in {"map", "tail", end}
      /\ d.at # "map" => p + k = At(c.idx)
  BY TransferredPlace
<1>2. /\ d.start = c.fblk /\ d.idx = c.idx /\ d.count = 1
      /\ d.left = c.left - k /\ d.blocks = c.blocks /\ d.op = c.op
  BY TransferredIs
<1>3. d.got = c.got + k
  BY DEF Transferred, Moved, Transfer, Fields, At
<1>4. /\ {c.left, c.idx, c.count, c.blocks} \subseteq Nat /\ k \in Nat /\ c.got \in Nat
      /\ At(c.idx) \in Nat
  <2>1. Spans(c, p)
    BY DEF PlaceOK
  <2> QED  BY <2>1, SpanProducts DEF SeesOK
<1>5. k = At(c.count)
  OBVIOUS
<1> SUFFICES SeesOK(d, p + k, f, s, m)
  OBVIOUS
<1> HIDE DEF d, k
<1>6. d.op = "fread" => (p + k) + d.left <= s \/ s < p + k
  <2>1. (p + k) + d.left = p + c.left
    BY <1>2, <1>4
  <2>2. c.op = "fread" => p + c.left <= s \/ s < p
    BY DEF SeesOK
  <2> QED  BY <1>2, <1>4, <2>1, <2>2
<1>7. c.op = "fwrite" => c.blocks = Blocks(f) /\ (c.idx <= c.blocks => s = f)
  BY DEF SeesOK, WriteOK, Due
<1>8. ASSUME d.op = "fwrite", d.at = "size", p + k <= f PROVE s = f
  <2>1. At(c.idx) <= f
    BY <1>1, <1>8
  <2>2. c.idx <= c.blocks
    BY <1>2, <1>4, <1>7, <1>8, <2>1, UpTo
  <2> QED  BY <1>2, <1>7, <1>8, <2>2
<1>9. d.op = "fwrite" => (d.idx <= d.blocks => s = f)
  BY <1>2, <1>7
<1>10. ASSUME d.at = "map", d.op = "fread" => (p + k) + d.left <= s PROVE Lined(d, p + k, m)
  <2>1. At(1) = BS
    BY AtIs, PosRange DEF At
  <2>2. At(d.idx) = (p + k) + At(d.count)
    BY <1>1, <1>10 DEF PlaceOK, Stands
  <2>3. c.at = "xfer"
    <3>1. c.at = "map" => At(c.idx) = p + k
      BY <1>5 DEF PlaceOK, Stands
    <3> QED  BY <1>2, <1>4, <2>1, <2>2, <3>1, PosRange DEF Due
  <2>4. Lined(c, p, m)
    <3>1. c.op = "fread" => p + c.left <= s
      BY <1>2, <1>4, <1>10
    <3> QED  BY <2>3, <3>1 DEF SeesOK
  <2>5. /\ c.fblk # 0
        /\ \A i \in FileBlock : At(i) = p + k => m[i] = c.fblk
    BY <1>5, <2>3, <2>4 DEF Lined
  <2>6. ASSUME NEW i \in FileBlock, At(i) = p + k, NEW j \in FileBlock, i <= j,
               At(j) < (p + k) + At(d.count)
        PROVE  m[j] = d.start + (j - i)
    <3>1. i \in Nat /\ j \in Nat /\ i + 1 \in Nat /\ At(i + 1) = At(i) + BS
      BY AtIs DEF FileBlock
    <3>2. At(j) < At(i + 1)
      BY <1>2, <2>1, <2>6, <3>1
    <3>3. j < i + 1
      BY <3>1, <3>2, AtMono
    <3>4. j = i
      BY <2>6, <3>1, <3>3
    <3>5. m[i] \in Int
      BY <1>1, <1>2, <2>5, <2>6 DEF PlaceOK, Spans
    <3> QED  BY <1>2, <2>5, <2>6, <3>1, <3>4, <3>5
  <2>7. \A i \in FileBlock : At(i) = p + k => Run(m, d.start, i, (p + k) + At(d.count))
    BY <2>6 DEF Run
  <2> QED  BY <1>2, <1>10, <2>5, <2>7 DEF Lined
<1>11. d.got \in Nat /\ d.at # "head" /\ d.at # "xfer"
  BY <1>1, <1>3, <1>4
<1> QED  BY <1>6, <1>8, <1>9, <1>10, <1>11 DEF SeesOK

\* The ends of a write: a write that stays in the file has not changed its size.
LEMMA EndedSees ==
    ASSUME NEW c, Transfer(c), c.op = "fwrite", NEW q, NEW f, NEW s, NEW m,
           c.got \in Nat, q <= f => s = f
    PROVE  SeesOK(Ended(c), q, f, s, m)
<1> DEFINE d == Ended(c)
<1>1. d.at = "size" /\ d.op = "fwrite"
  BY EndedIs
<1>2. d.got = c.got
  BY DEF Ended, Transfer, Fields
<1> HIDE DEF d
<1> QED  BY <1>1, <1>2 DEF SeesOK, d

LEMMA FullSees ==
    ASSUME NEW c, NEW p, NEW f, NEW s \in Nat, NEW m, WritePlace(c, p, f, s), c.op = "fwrite",
           Due(c), c.full, SeesOK(c, p, f, s, m)
    PROVE  SeesOK(Ended(Transferred(c, "size")), p + At(c.count), f, s, m)
<1> DEFINE e == Transferred(c, "size")
<1>1. /\ Transfer(c) /\ p \in Nat /\ f \in Nat /\ PlaceOK(c, p)
      /\ c.at = "xfer" /\ c.blocks = Blocks(f)
      /\ c.idx <= c.blocks => s = f
  <2>1. Transfer(c) /\ p \in Nat /\ f \in Nat /\ PlaceOK(c, p) /\ WriteOK(c, p, f, s)
    BY DEF WritePlace
  <2>2. c.at = "xfer"
    BY <2>1, DueIs
  <2> QED  BY <2>1, <2>2 DEF WriteOK, SeesOK
<1>2. At(c.idx) = p + At(c.count) /\ c.idx \in Nat /\ c.blocks \in Nat
      /\ c.count \in Nat /\ c.got \in Nat
  BY <1>1 DEF PlaceOK, Stands, Spans, SeesOK
<1>3. Transfer(e) /\ e.op = "fwrite"
  BY <1>1, TransferredShape DEF SameTransfer
<1>4. e.got = c.got + At(c.count) /\ At(c.count) \in Nat
  BY <1>1, <1>2, AtIs DEF Transferred, Moved, Transfer, Fields, At
<1> HIDE DEF e
<1>5. p + At(c.count) <= f => s = f
  BY <1>1, <1>2, UpTo
<1>6. e.got \in Nat
  BY <1>2, <1>4
<1> QED  BY <1>3, <1>5, <1>6, EndedSees DEF e

LEMMA TailSees ==
    ASSUME NEW c, NEW p, NEW f, NEW s, NEW m, WritePlace(c, p, f, s), c.op = "fwrite",
           c.at = "tail", SeesOK(c, p, f, s, m), NEW t, c.idx < c.blocks => t = s, NEW n
    PROVE  /\ SeesOK(Ended(Moved(c, c.left)), p + c.left, f, t, n)
           /\ SeesOK(Ended(c), p, f, s, m)
<1> DEFINE e == Moved(c, c.left)
<1>1. /\ Transfer(c) /\ p \in Nat /\ f \in Nat /\ PlaceOK(c, p)
      /\ c.blocks = Blocks(f)
      /\ c.idx <= c.blocks => s = f
  BY DEF WritePlace, WriteOK, SeesOK
<1>2. /\ At(c.idx) = p /\ 0 < c.left /\ c.idx \in Nat /\ c.blocks \in Nat
      /\ c.left \in Nat /\ c.got \in Nat
  BY <1>1 DEF PlaceOK, Stands, Spans, SeesOK
<1>3. Transfer(e) /\ e.op = "fwrite" /\ e.got = c.got + c.left
  BY <1>1 DEF Moved, Transfer, Fields
<1> HIDE DEF e
<1>4. p <= f => s = f
  BY <1>1, <1>2, UpTo
<1>5. p + c.left <= f => t = f
  <2>1. p + c.left <= f => p < f
    BY <1>1, <1>2
  <2>2. p < f => c.idx < c.blocks
    BY <1>1, <1>2, UpTo
  <2> QED  BY <1>1, <1>2, <2>1, <2>2
<1>6. e.got \in Nat
  BY <1>2, <1>3
<1>7. SeesOK(Ended(e), p + c.left, f, t, n)
  BY <1>3, <1>5, <1>6, EndedSees
<1>8. SeesOK(Ended(c), p, f, s, m)
  BY <1>1, <1>2, <1>4, EndedSees
<1> QED  BY <1>7, <1>8 DEF e

-----------------------------------------------------------------------------
(* The bytes of the file, before and after a step.                         *)

\* A state in which the promises hold.
Firm == Sound /\ MapInv /\ DepthInv /\ Sizes /\ Sees

LEMMA FirmIs ==
    ASSUME Firm
    PROVE  /\ Exact /\ Positions /\ FilesOK /\ inode.size \in Nat /\ inode.size <= MaxPos
           /\ Places(inode.map, free) /\ io_error = FALSE
           /\ \A h \in Handle : file[h].fpos \in Nat /\ file[h].fpos <= MaxPos
           /\ \A h \in Handle : file[h].fsize \in Nat /\ file[h].fsize <= MaxPos
<1>1. Exact /\ Positions /\ FilesOK /\ inode.size \in 0 .. MaxPos
  BY DEF Firm, Sound, Sizes, Positions
<1>2. Places(inode.map, free) /\ io_error = FALSE
  BY DEF Firm, Sound, MapInv, DepthInv
<1> QED  BY <1>1, <1>2, PosRange DEF FilesOK, FileOK

\* What is visible of the file.
LEMMA VisibleIs ==
    /\ call.at = "idle" \/ call.op # "fwrite" => Visible = inode.size /\ Given = <<>>
    /\ call.at # "idle" /\ call.op = "fwrite" =>
         Visible = IF file[call.h].fpos > file[call.h].fsize THEN file[call.h].fpos
                                                             ELSE file[call.h].fsize
BY DEF Visible, Given

\* The state of a write: what of the file is visible lies in the blocks it has.
LEMMA WriteVisible ==
    ASSUME Firm, Transfer(call), call.op = "fwrite", NEW p, p = file[call.h].fpos,
           NEW f, f = file[call.h].fsize, NEW s, s = inode.size
    PROVE  p <= At(Blocks(s)) /\ f <= At(Blocks(s))
<1>1. /\ PlaceOK(call, p) /\ WriteOK(call, p, f, s) /\ p \in Nat /\ f \in Nat /\ s \in Nat
      /\ Spans(call, p)
  <2>1. /\ PlaceOK(call, p) /\ WriteOK(call, p, f, s) /\ p \in Nat /\ f \in Nat
    BY UnderWay DEF Firm, WritePlace
  <2> QED  BY <2>1, FirmIs DEF PlaceOK
<1>2. /\ Blocks(s) \in Nat /\ s <= At(Blocks(s)) /\ At(Blocks(s)) \in Nat
      /\ Blocks(f) \in Nat /\ f <= At(Blocks(f)) /\ At(Blocks(f)) \in Nat
      /\ p <= At(Blocks(p))
  BY <1>1, BlocksIs, AtIs
<1>3. CASE call.at = "size"
  <2>1. (f < p => Blocks(p) = Blocks(s)) /\ (p <= f => s = f)
    BY <1>1, <1>3 DEF WriteOK, Firm, Sees, SeesOK
  <2> QED  BY <1>1, <1>2, <2>1
<1>4. CASE call.at # "size"
  <2>1. call.blocks = Blocks(f) /\ Blocks(s) = Larger(call.blocks, call.idx)
        /\ (call.at = "head" => call.idx < call.blocks)
    BY <1>1, <1>4 DEF WriteOK
  <2>2. /\ call.idx \in Nat /\ At(call.idx) \in Nat /\ At(call.count) \in Nat
        /\ At(call.idx + 1) = At(call.idx) + BS
    BY <1>1, SpanProducts
  <2>3. call.idx <= Blocks(s) /\ Blocks(f) <= Blocks(s)
    BY <1>2, <2>1, <2>2 DEF Larger
  <2>4. \A i, j \in Nat : i <= j => At(i) <= At(j)
    <3>1. ASSUME NEW i \in Nat, NEW j \in Nat, i <= j PROVE At(i) <= At(j)
      <4>1. At(i) \in Nat /\ At(j) \in Nat /\ ((j < i) <=> (At(j) < At(i)))
        BY AtIs, AtMono
      <4> QED  BY <3>1, <4>1
    <3> QED  BY <3>1
  <2>5. f <= At(Blocks(s))
    BY <1>1, <1>2, <2>3, <2>4
  <2>6. CASE call.at = "head"
    <3>1. p < At(call.idx) + BS
      BY <1>1, <2>6 DEF PlaceOK, Stands
    <3>2. call.idx + 1 <= Blocks(s) /\ call.idx + 1 \in Nat
      BY <1>2, <2>1, <2>2, <2>3, <2>6
    <3>3. At(call.idx + 1) <= At(Blocks(s))
      BY <1>2, <2>4, <3>2
    <3> QED  BY <1>1, <1>2, <2>2, <2>5, <3>1, <3>3, PosRange
  <2>7. CASE call.at # "head"
    <3>1. call.at \in {"map", "xfer", "tail"}
      BY <1>4, <2>7 DEF Transfer
    <3>2. p <= At(call.idx)
      BY <1>1, <2>2, <3>1, PosRange DEF PlaceOK, Stands
    <3>3. At(call.idx) <= At(Blocks(s))
      BY <1>2, <2>2, <2>3, <2>4
    <3> QED  BY <1>1, <1>2, <2>2, <2>5, <3>2, <3>3
  <2> QED  BY <2>6, <2>7
<1> QED  BY <1>3, <1>4

LEMMA SeenBlocks ==
    ASSUME Firm
    PROVE  /\ Visible \in Nat /\ Visible <= MaxPos
           /\ \A q \in Nat : q < Visible =>
                /\ q < MaxPos /\ q \div BS \in FileBlock /\ inode.map[q \div BS] # 0
<1> DEFINE s == inode.size
<1>1. s \in Nat /\ s <= MaxPos /\ MaxPos \in Nat
  BY FirmIs, PosRange
<1>2. Blocks(s) \in 0 .. FB /\ s <= At(Blocks(s)) /\ At(Blocks(s)) \in Nat
  <2>1. s \in 0 .. MaxPos
    BY <1>1
  <2>2. Blocks(s) \in 0 .. FB
    BY <2>1, BlocksBound
  <2> QED  BY <1>1, <2>2, BlocksIs, AtIs
<1>3. Visible \in Nat /\ Visible <= MaxPos /\ Visible <= At(Blocks(s))
  <2>1. CASE call.at = "idle" \/ call.op # "fwrite"
    BY <1>1, <1>2, <2>1, VisibleIs
  <2>2. CASE call.at # "idle" /\ call.op = "fwrite"
    <3>1. Transfer(call)
      BY <2>2 DEF Firm, DepthInv
    <3> DEFINE p == file[call.h].fpos
               f == file[call.h].fsize
    <3>2. p <= At(Blocks(s)) /\ f <= At(Blocks(s))
      BY <2>2, <3>1, WriteVisible
    <3>3. call.h \in Handle
      BY <3>1, UnderWay DEF Firm
    <3>4. p \in Nat /\ f \in Nat /\ p <= MaxPos /\ f <= MaxPos
      BY <3>3, FirmIs
    <3>5. Visible = IF p > f THEN p ELSE f
      BY <2>2, VisibleIs
    <3> HIDE DEF p, f
    <3> QED  BY <3>2, <3>4, <3>5
  <2> QED  BY <2>1, <2>2
<1>4. ASSUME NEW q \in Nat, q < Visible
      PROVE  q < MaxPos /\ q \div BS \in FileBlock /\ inode.map[q \div BS] # 0
  <2>1. PICK u \in Nat, c \in Nat : /\ q \div BS = u /\ q % BS = c
                                     /\ q = At(u) + c /\ c < BS /\ At(u) \in Nat
    BY DivAt
  <2>2. At(u) < At(Blocks(s)) /\ q < MaxPos
    BY <1>1, <1>2, <1>3, <1>4, <2>1
  <2>3. u < Blocks(s)
    <3>1. Blocks(s) \in Nat
      BY <1>2, PosRange
    <3> QED  BY <2>1, <2>2, <3>1, AtMono
  <2>4. u \in FileBlock
    BY <1>2, <2>1, <2>3, PosRange DEF FileBlock
  <2>5. inode.map[u] # 0
    BY <2>3, <2>4, FirmIs DEF Exact, FullMap
  <2> QED  BY <2>1, <2>2, <2>4, <2>5
<1> QED  BY <1>3, <1>4

\* The bytes stay where the map leaves the blocks alone.
LEMMA ContentKept ==
    ASSUME Firm, Visible' = Visible, data' = data,
           \A j \in FileBlock : inode.map[j] # 0 => inode'.map[j] = inode.map[j]
    PROVE  Content' = Content
<1>1. ASSUME NEW j \in 1 .. Visible PROVE ByteAt(j - 1)' = ByteAt(j - 1)
  <2>1. j - 1 \in Nat /\ j - 1 < Visible
    BY SeenBlocks
  <2>2. (j - 1) \div BS \in FileBlock /\ inode.map[(j - 1) \div BS] # 0
    BY <2>1, SeenBlocks
  <2>3. inode'.map[(j - 1) \div BS] = inode.map[(j - 1) \div BS]
    BY <2>2
  <2> QED  BY <2>3 DEF ByteAt
<1> QED  BY <1>1 DEF Content

-----------------------------------------------------------------------------
(* The steps of the calls, as steps of OpenFile.                           *)

LEMMA SeesEnds ==
    ASSUME calls' \in Nat, IsSeq(taken'), call'.at = "idle"
    PROVE  Sees'
<1>1. ~Transfer(call')
  BY DEF Transfer
<1> QED  BY <1>1 DEF Sees

LEMMA SeesGoesOn ==
    ASSUME calls' \in Nat, IsSeq(taken'), Transfer(call'), call'.op = "fwrite" => taken' = <<>>,
           SeesOK(call', file'[call'.h].fpos, file'[call'.h].fsize, inode'.size, inode'.map)
    PROVE  Sees'
<1>1. call'.at # "cut"
  BY DEF Transfer
<1> QED  BY <1>1 DEF Sees

LEMMA EmptyIs == IsSeq(<<>>) /\ Len(<<>>) = 0
<1>1. <<>> \in Seq(Nat)
  OBVIOUS
<1> QED  BY <1>1, InSeq

\* The positions after a step.
LEMMA PlacedAdvances ==
    ASSUME FilesOK, call.h \in Handle, NEW k, Advance(k)
    PROVE  Placed' = [Placed EXCEPT ![call.h] = @ + k]
<1>1. \A h \in Handle : file'[h].fpos = IF h = call.h THEN file[h].fpos + k ELSE file[h].fpos
  <2>1. \A h \in Handle :
          file[h] = [open |-> file[h].open, wronly |-> file[h].wronly,
                     fpos |-> file[h].fpos, fsize |-> file[h].fsize]
    BY DEF FilesOK, FileOK
  <2>2. file = [h \in Handle |-> file[h]]
    BY DEF FilesOK
  <2>3. file' = [file EXCEPT ![call.h].fpos = @ + k]
    BY DEF Advance
  <2> QED  BY <2>1, <2>2, <2>3
<1> QED  BY <1>1 DEF Placed

LEMMA PlacedKept ==
    ASSUME \A h \in Handle : file'[h].fpos = file[h].fpos
    PROVE  Placed' = Placed
BY DEF Placed

\* The answer to a request for block i, while the promises hold: blocks the
\* file has stay where they are.
Answers(res, i) ==
    /\ res.r \in {"EOK", "ENOSPC"}
    /\ res.r = "EOK" => /\ res.idx = i /\ res.blk \in Nat /\ res.blk # 0
                        /\ res.map[i] = res.blk
    /\ res.r = "ENOSPC" => res.map = inode.map /\ res.size = inode.size
    /\ \A j \in FileBlock : inode.map[j] # 0 => res.map[j] = inode.map[j]

LEMMA EIOIs == ASSUME NEW res \in EIO PROVE res.r = "EIO"
<1>1. PICK fr : res = [ENOSPC EXCEPT !.r = "EIO", !.free = fr]
  BY DEF EIO
<1> QED  BY <1>1 DEF ENOSPC

LEMMA InitAnswers ==
    ASSUME MapInv, Exact, inode.size \in 0 .. MaxPos, NEW i \in FileBlock,
           i < Blocks(inode.size), NEW res \in InitBlock(i), res.r # "EIO"
    PROVE  Answers(res, i) /\ res.r = "EOK" /\ res.map = inode.map /\ res.size = inode.size
<1>1. inode.size > 0
  <2>1. ASSUME inode.size = 0 PROVE FALSE
    <3>1. Blocks(0) = 0
      BY BlocksAre, AtIs, PosRange
    <3> QED  BY <2>1, <3>1 DEF FileBlock
  <2> QED  BY <2>1, PosRange
<1>2. inode.map[i] \in Nat /\ inode.map[i] # 0
  BY SizesAssumption DEF MapInv, Places, Exact, FullMap
<1>3. Lookup(i) = inode.map[i]
  BY <1>1 DEF Lookup
<1>4. res = EOK(inode.map[i], i, inode.map, free, inode.size)
  BY <1>2, <1>3, EIOIs DEF InitBlock
<1> QED  BY <1>2, <1>4 DEF EOK, Answers

LEMMA AppendAnswers ==
    ASSUME MapInv, Exact, inode.size \in 0 .. MaxPos, Blocks(inode.size) < FB,
           NEW res \in AppendBlock, res.r # "EIO"
    PROVE  Answers(res, Blocks(inode.size))
<1> DEFINE n == Blocks(inode.size)
<1>1. n \in FileBlock
  <2>1. n \in 0 .. FB
    BY BlocksBound
  <2> QED  BY <2>1, PosRange DEF FileBlock
<1>2. inode.map[n] = 0
  BY <1>1 DEF Exact, FullMap, FileBlock
<1>3. PICK s : res \in Allocated(n, s)
  BY <1>2, EIOIs DEF AppendBlock
<1> SUFFICES Answers(res, n)
  OBVIOUS
<1> HIDE DEF n
<1>4. CASE res = ENOSPC
  BY <1>4 DEF ENOSPC, Answers
<1>5. CASE \E b \in free : res = EOK(b, n, [inode.map EXCEPT ![n] = b], free \ {b}, s)
  <2>1. PICK b \in free : res = EOK(b, n, [inode.map EXCEPT ![n] = b], free \ {b}, s)
    BY <1>5
  <2>2. res.r = "EOK" /\ res.idx = n /\ res.blk = b /\ res.map = [inode.map EXCEPT ![n] = b]
    BY <2>1 DEF EOK
  <2>3. b \in Nat /\ b # 0
    BY SizesAssumption DEF MapInv, Places, Phys
  <2>4. \A j \in FileBlock : res.map[j] = IF j = n THEN b ELSE inode.map[j]
    BY <2>2 DEF MapInv, Places
  <2>5. res.map[n] = b
    BY <1>1, <2>4
  <2>6. \A j \in FileBlock : inode.map[j] # 0 => res.map[j] = inode.map[j]
    BY <1>2, <2>4
  <2>7. res.r = "EOK" /\ res.idx = n /\ res.blk = b
    BY <2>2
  <2> QED  BY <2>3, <2>5, <2>6, <2>7 DEF Answers
<1>6. res = ENOSPC \/ \E b \in free : res = EOK(b, n, [inode.map EXCEPT ![n] = b], free \ {b}, s)
  BY <1>3 DEF Allocated
<1> QED  BY <1>4, <1>5, <1>6

LEMMA WriteAnswers ==
    ASSUME MapInv, Exact, inode.size \in 0 .. MaxPos, NEW c, c.idx \in Nat, c.blocks \in Nat,
           c.idx < FB, Blocks(inode.size) = Larger(c.blocks, c.idx), NEW res \in BlockFor(c),
           res.r # "EIO"
    PROVE  /\ Answers(res, c.idx)
           /\ c.idx < c.blocks => res.r = "EOK" /\ res.size = inode.size
<1>1. CASE c.idx < c.blocks
  <2>1. Blocks(inode.size) = c.blocks
    BY <1>1 DEF Larger
  <2>2. c.idx \in FileBlock /\ res \in InitBlock(c.idx)
    BY <1>1, PosRange DEF BlockFor, FileBlock
  <2> QED  BY <1>1, <2>1, <2>2, InitAnswers
<1>2. CASE ~(c.idx < c.blocks)
  <2>1. Blocks(inode.size) = c.idx
    BY <1>2 DEF Larger
  <2>2. res \in AppendBlock
    BY <1>2 DEF BlockFor
  <2> QED  BY <1>2, <2>1, <2>2, AppendAnswers
<1> QED  BY <1>1, <1>2

\* What is seen of the file after a step.
SeenOK ==
    /\ Visible \in Nat /\ Visible <= MaxPos
    /\ \A q \in Nat : q < Visible =>
         /\ q < MaxPos /\ q \div BS \in FileBlock /\ inode.map[q \div BS] # 0
    /\ Places(inode.map, free)

LEMMA SeenAgain == Firm => SeenOK
BY SeenBlocks, FirmIs DEF SeenOK

LEMMA SeenAfter == ASSUME Firm' PROVE SeenOK'
<1>1. Firm' => SeenOK'
  BY SeenAgain, PTL
<1> QED  BY <1>1

LEMMA ContentAfter ==
    ASSUME Visible' \in Nat
    PROVE  /\ IsSeq(Content') /\ Len(Content') = Visible'
           /\ \A j \in 1 .. Visible' : Content'[j] = ByteAt(j - 1)'
<1>1. Content' = [j \in 1 .. Visible' |-> ByteAt(j - 1)']
  BY DEF Content
<1> QED  BY <1>1 DEF IsSeq

LEMMA GivenAfter ==
    ASSUME call'.at # "idle", call'.op = "fwrite", call'.left \in Nat, calls' = calls
    PROVE  /\ IsSeq(Given') /\ Len(Given') = call'.left
           /\ \A j \in 1 .. call'.left : Given'[j] = Buf(call'.got + j - 1)
<1>1. Given' = [j \in 1 .. call'.left |-> Buf(call'.got + j - 1)]
  BY DEF Given, Buf
<1> QED  BY <1>1 DEF IsSeq

\* A part of a write: the bytes at the position of the handle, and no others.
LEMMA PartWritten ==
    ASSUME Firm, Firm', Transfer(call), call.op = "fwrite", Transfer(call'), call'.op = "fwrite",
           call'.h = call.h, NEW k \in Nat, k <= call.left, call'.left = call.left - k,
           call'.got = call.got + k, Advance(k), NEW p, p = file[call.h].fpos,
           NEW i \in Nat, NEW off \in Nat, NEW b \in Nat, p = At(i) + off,
           data' = Overlay(b, off, k, call.got), Run(inode'.map, b, i, p + k),
           \A j \in FileBlock : inode.map[j] # 0 => inode'.map[j] = inode.map[j],
           calls' = calls, taken' = taken
    PROVE  OpenFileStep
<1> DEFINE f == file[call.h].fsize
           v == Visible
           w == Visible'
           h == call.h
<1>1. /\ call.at # "idle" /\ call'.at # "idle" /\ h \in Handle /\ FilesOK
      /\ p \in Nat /\ f \in Nat /\ call.left \in Nat /\ p + call.left <= MaxPos /\ call.got \in Nat
  <2>1. /\ h \in Handle /\ FilesOK /\ p \in Nat /\ f \in Nat
        /\ Spans(call, p) /\ p + call.left <= MaxPos
    BY UnderWay DEF Firm
  <2>2. call.got \in Nat
    BY DEF Firm, Sees, SeesOK
  <2> QED  BY <2>1, <2>2 DEF Spans, Transfer
<1>2. p + k <= MaxPos /\ p + k \in Nat
  BY <1>1, PosRange
<1>3. file'[h].fpos = p + k /\ file'[h].fsize = f
  BY <1>1, <1>2, Advances
<1>4. v = IF p > f THEN p ELSE f
  BY <1>1, VisibleIs
<1>5. w = IF p + k > f THEN p + k ELSE f
  BY <1>1, <1>3 DEF Visible
<1>6. v \in Nat /\ w \in Nat /\ p <= v /\ p + k <= w /\ v <= w
      /\ w = (IF v <= p + k THEN p + k ELSE v)
      /\ \A q \in Nat : q < w /\ ~(q < v) => p <= q /\ q < p + k
  BY <1>1, <1>2, <1>4, <1>5
<1>7. ASSUME NEW q \in Nat, q < w
      PROVE  ByteAt(q)' = IF p <= q /\ q < p + k THEN Buf(call.got + (q - p)) ELSE ByteAt(q)
  <2>1. /\ q < MaxPos /\ q \div BS \in FileBlock /\ inode'.map[q \div BS] # 0
        /\ Places(inode'.map, free')
    <3>1. SeenOK'
      BY SeenAfter
    <3>2. /\ \A x \in Nat : x < Visible' =>
               /\ x < MaxPos' /\ x \div BS \in FileBlock' /\ inode'.map[x \div BS] # 0
          /\ Places(inode'.map, free')
      BY <3>1 DEF SeenOK
    <3>3. MaxPos' = MaxPos /\ FileBlock' = FileBlock
      BY DEF MaxPos, FileBlock
    <3> QED  BY <1>7, <3>2, <3>3
  <2>2. ByteAt(q)' = data'[inode'.map[q \div BS]][q % BS]
    BY DEF ByteAt
  <2>3. data'[inode'.map[q \div BS]][q % BS] =
          IF p <= q /\ q < p + k THEN Buf(call.got + (q - p))
          ELSE data[inode'.map[q \div BS]][q % BS]
    BY <1>2, <2>1, OverlayBytes
  <2>4. CASE p <= q /\ q < p + k
    BY <2>2, <2>3, <2>4
  <2>5. CASE ~(p <= q /\ q < p + k)
    <3>1. q < v
      BY <1>6, <1>7, <2>5
    <3>2. inode.map[q \div BS] # 0
      BY <3>1, SeenBlocks
    <3>3. inode'.map[q \div BS] = inode.map[q \div BS]
      BY <2>1, <3>2
    <3> QED  BY <2>2, <2>3, <2>5, <3>3 DEF ByteAt
  <2> QED  BY <2>4, <2>5
<1>8. /\ IsSeq(Content) /\ Len(Content) = v
      /\ \A j \in 1 .. v : Content[j] = ByteAt(j - 1)
  BY <1>6, ContentIs
<1>9. /\ IsSeq(Content') /\ Len(Content') = w
      /\ \A j \in 1 .. w : Content'[j] = ByteAt(j - 1)'
  BY <1>6, ContentAfter
<1>10. /\ IsSeq(Given) /\ Len(Given) = call.left
       /\ \A j \in 1 .. call.left : Given[j] = Buf(call.got + j - 1)
  BY <1>1, GivenIs
<1>11. /\ IsSeq(Given') /\ Len(Given') = call.left - k
       /\ \A j \in 1 .. (call.left - k) : Given'[j] = Buf(call.got + k + j - 1)
  <2>1. call'.left \in Nat
    BY <1>1
  <2> QED  BY <1>1, <2>1, GivenAfter
<1>12. Sound' = Sound
  BY DEF Firm, Sound
<1>13. Placed' = [Placed EXCEPT ![h] = @ + k] /\ Placed[h] = p
  BY <1>1, PlacedAdvances DEF Placed
<1> HIDE DEF v, w, f
<1>14. CASE k = 0
  <2>1. Content' = Content
    <3>1. w = v
      BY <1>1, <1>6, <1>14
    <3>2. ASSUME NEW j \in 1 .. v PROVE Content'[j] = Content[j]
      <4>1. j - 1 \in Nat /\ j - 1 < w /\ j \in 1 .. w
        BY <1>6, <3>1
      <4>2. ByteAt(j - 1)' = ByteAt(j - 1)
        BY <1>1, <1>7, <1>14, <4>1
      <4> QED  BY <1>8, <1>9, <4>1, <4>2
    <3> QED  BY <1>8, <1>9, <3>1, <3>2, SeqEq
  <2>2. Given' = Given
    <3>1. ASSUME NEW j \in 1 .. call.left PROVE Given'[j] = Given[j]
      <4>1. Given'[j] = Buf(call.got + k + j - 1) /\ Given[j] = Buf(call.got + j - 1)
        BY <1>1, <1>10, <1>11, <1>14
      <4>2. call.got + k + j - 1 = call.got + j - 1
        BY <1>1, <1>14
      <4> QED  BY <4>1, <4>2
    <3>2. Len(Given') = Len(Given)
      BY <1>1, <1>10, <1>11, <1>14
    <3> QED  BY <1>10, <1>11, <3>1, <3>2, SeqEq
  <2>3. Placed' = [Placed EXCEPT ![h] = p + k]
    BY <1>13
  <2> QED  BY <1>1, <1>2, <1>12, <2>1, <2>2, <2>3, PlaceStep
<1>15. CASE k > 0
  <2> DEFINE g == SubSeq(Given, 1, k)
             o == Abstract!Overwrite(Content, p, g)
             r == SubSeq(Given, k + 1, call.left)
  <2>1. /\ IsSeq(g) /\ Len(g) = k
        /\ \A j \in Nat : j >= 1 /\ j <= k => g[j] = Given[j]
    <3>1. /\ IsSeq(g) /\ Len(g) = IF 1 <= k THEN k - 1 + 1 ELSE 0
          /\ \A j \in Nat : j >= 1 /\ j + 1 - 1 <= k => g[j] = Given[j + 1 - 1]
      BY <1>1, <1>10, SubSeqIs
    <3> HIDE DEF g
    <3> QED  BY <1>15, <3>1
  <2>2. /\ IsSeq(r) /\ Len(r) = call.left - k
        /\ \A j \in Nat : j >= 1 /\ j + k <= call.left => r[j] = Given[j + k]
    <3>1. /\ IsSeq(r) /\ Len(r) = IF k + 1 <= call.left THEN call.left - (k + 1) + 1 ELSE 0
          /\ \A j \in Nat : j >= 1 /\ j + (k + 1) - 1 <= call.left => r[j] = Given[j + (k + 1) - 1]
      <4>1. k + 1 \in Nat /\ k + 1 > 0 /\ call.left <= Len(Given)
        BY <1>1, <1>10
      <4> QED  BY <1>1, <1>10, <4>1, SubSeqIs
    <3> HIDE DEF r
    <3>2. ASSUME NEW j \in Nat, j >= 1, j + k <= call.left PROVE r[j] = Given[j + k]
      <4>1. j + (k + 1) - 1 = j + k
        OBVIOUS
      <4> QED  BY <1>1, <3>1, <3>2, <4>1
    <3>3. Len(r) = call.left - k
      BY <1>1, <3>1
    <3> QED  BY <3>1, <3>2, <3>3
  <2> HIDE DEF g, r
  <2>3. /\ IsSeq(o)
        /\ Len(o) = IF v <= p + k THEN p + k ELSE v
        /\ \A j \in 1 .. Len(o) :
             o[j] = IF p < j /\ j <= p + k THEN g[j - p] ELSE Content[j]
    <3>1. p \in Nat /\ p <= Len(Content)
      BY <1>1, <1>6, <1>8
    <3>2. /\ IsSeq(o)
          /\ Len(o) = IF Len(Content) <= p + Len(g) THEN p + Len(g) ELSE Len(Content)
          /\ \A j \in 1 .. Len(o) :
               o[j] = IF p < j /\ j <= p + Len(g) THEN g[j - p] ELSE Content[j]
      BY <1>8, <2>1, <3>1, OverwriteIs
    <3> HIDE DEF o
    <3> QED  BY <1>8, <2>1, <3>2
  <2> HIDE DEF o
  <2>4. Content' = o
    <3>1. Len(o) = w
      BY <1>6, <2>3
    <3>2. ASSUME NEW j \in 1 .. w PROVE Content'[j] = o[j]
      <4>1. j - 1 \in Nat /\ j - 1 < w
        BY <1>6
      <4>2. Content'[j] = IF p <= j - 1 /\ j - 1 < p + k THEN Buf(call.got + ((j - 1) - p))
                                                        ELSE ByteAt(j - 1)
        BY <1>7, <1>9, <4>1
      <4>3. o[j] = IF p < j /\ j <= p + k THEN g[j - p] ELSE Content[j]
        BY <2>3, <3>1
      <4>4. CASE p < j /\ j <= p + k
        <5>1. p <= j - 1 /\ j - 1 < p + k /\ j - p \in Nat /\ j - p >= 1 /\ j - p <= k
              /\ j - p \in 1 .. call.left
          BY <1>1, <4>1, <4>4
        <5>2. g[j - p] = Given[j - p] /\ Given[j - p] = Buf(call.got + (j - p) - 1)
          BY <1>10, <2>1, <5>1
        <5>3. call.got + (j - p) - 1 = call.got + ((j - 1) - p)
          BY <1>1
        <5> QED  BY <4>2, <4>3, <4>4, <5>1, <5>2, <5>3
      <4>5. CASE ~(p < j /\ j <= p + k)
        <5>1. ~(p <= j - 1 /\ j - 1 < p + k)
          BY <1>1, <4>1, <4>5
        <5>2. j \in 1 .. v
          BY <1>6, <4>1, <5>1
        <5> QED  BY <1>8, <4>2, <4>3, <4>5, <5>1, <5>2
      <4> QED  BY <4>4, <4>5
    <3> QED  BY <1>9, <2>3, <3>1, <3>2, SeqEq
  <2>5. Given' = r
    <3>1. ASSUME NEW j \in 1 .. (call.left - k) PROVE Given'[j] = r[j]
      <4>1. j + k \in 1 .. call.left /\ j \in Nat /\ j >= 1 /\ j + k <= call.left
        BY <1>1
      <4>2. r[j] = Buf(call.got + (j + k) - 1)
        BY <1>10, <2>2, <4>1
      <4>3. Given'[j] = Buf(call.got + k + j - 1)
        BY <1>11
      <4>4. call.got + (j + k) - 1 = call.got + k + j - 1
        BY <1>1, <4>1
      <4> QED  BY <4>2, <4>3, <4>4
    <3> QED  BY <1>11, <2>2, <3>1, SeqEq
  <2>6. k <= Len(Given) /\ p <= Len(Content)
    BY <1>6, <1>8, <1>10
  <2>7. /\ Content' = Abstract!Overwrite(Content, p, SubSeq(Given, 1, k))
        /\ Given' = SubSeq(Given, k + 1, Len(Given))
    BY <1>10, <2>4, <2>5 DEF o, g, r
  <2> QED  BY <1>1, <1>12, <1>13, <1>15, <2>6, <2>7, WriteStep
<1> QED  BY <1>14, <1>15

\* No write is under way, before or after, and the bytes stay.
LEMMA NothingWritten ==
    ASSUME Firm, UNCHANGED <<data, inode>>, call.at = "idle" \/ call.op # "fwrite",
           call'.at = "idle" \/ call'.op # "fwrite"
    PROVE  /\ Content' = Content /\ Given' = Given
           /\ IsSeq(Content) /\ Len(Content) = inode.size
           /\ \A j \in 1 .. inode.size : Content[j] = ByteAt(j - 1)
<1>1. Visible = inode.size /\ Given = <<>>
  BY VisibleIs
<1>2. Visible' = inode.size /\ Given' = <<>>
  BY DEF Visible, Given
<1>3. Content' = Content
  BY <1>1, <1>2, ContentKept
<1>4. inode.size \in Nat
  BY FirmIs
<1> QED  BY <1>1, <1>2, <1>3, <1>4, ContentIs

\* The n bytes of a transfer are those of the file from p on.
Delivers(t, p, n) == \A j \in 1 .. n : t[j] = ByteAt(p + j - 1)

LEMMA DeliversPart ==
    ASSUME NEW c, IsSeq(c), NEW p \in Nat, NEW n \in Nat, n > 0,
           NEW size \in Nat, p + n <= size, Len(c) = size,
           \A j \in 1 .. size : c[j] = ByteAt(j - 1),
           NEW t, IsSeq(t), Len(t) = n, Delivers(t, p, n)
    PROVE  t = SubSeq(c, p + 1, p + n)
<1>0. PICK m \in Nat, e \in Nat : m = p + 1 /\ e = p + n /\ e <= Len(c)
  OBVIOUS
<1> DEFINE u == SubSeq(c, m, e)
<1>1. IsSeq(u) /\ Len(u) = n /\ \A j \in 1 .. n : u[j] = c[p + j]
  <2>1. IsSeq(u)
    BY <1>0, PartIs
  <2>2. Len(u) = n
    BY <1>0, PartIs
  <2>3. \A j \in 1 .. n : u[j] = c[p + j]
    BY <1>0, PartIs
  <2> QED  BY <2>1, <2>2, <2>3
<1> SUFFICES t = u
  BY <1>0
<1> HIDE DEF u
<1>2. ASSUME NEW j \in 1 .. n PROVE t[j] = u[j]
  <2>1. PICK k \in Nat : k = p + j /\ k >= 1 /\ k <= size
    OBVIOUS
  <2>2. c[k] = ByteAt(k - 1)
    BY <2>1
  <2>3. t[j] = ByteAt(p + j - 1)
    BY DEF Delivers
  <2>4. p + j - 1 = k - 1
    BY <2>1
  <2>5. u[j] = c[k]
    BY <1>1, <2>1
  <2> QED  BY <2>2, <2>3, <2>4, <2>5
<1> QED  BY <1>1, <1>2, SeqEq

\* A part of a read: the bytes at the position of the handle.
LEMMA PartRead ==
    ASSUME Firm, Sound', Transfer(call), call.op = "fread", UNCHANGED <<data, inode>>,
           call'.at = "idle" \/ call'.op = "fread",
           NEW n \in Nat, n <= call.left, Advance(n), NEW p \in Nat, p = file[call.h].fpos,
           NEW t, IsSeq(t), Len(t) = n, taken' = taken \o t,
           p + call.left <= inode.size => Delivers(t, p, n)
    PROVE  OpenFileStep /\ IsSeq(taken')
<1> DEFINE s == inode.size
           h == call.h
<1>1. /\ Content' = Content /\ Given' = Given
      /\ IsSeq(Content) /\ Len(Content) = s
      /\ \A j \in 1 .. s : Content[j] = ByteAt(j - 1)
  <2>1. call.op # "fwrite" /\ (call'.at = "idle" \/ call'.op # "fwrite")
    OBVIOUS
  <2> QED  BY <2>1, NothingWritten
<1>2. h \in Handle /\ FilesOK /\ p \in Nat /\ call.left \in Nat /\ s \in Nat
  <2>1. h \in Handle /\ FilesOK /\ p \in Nat /\ Spans(call, p)
    BY UnderWay DEF Firm
  <2> QED  BY <2>1, FirmIs DEF Spans
<1>3. p + call.left <= s \/ s < p
  BY DEF Firm, Sees, SeesOK
<1>4. IsSeq(taken) /\ Len(taken) \in Nat
  BY DEF Firm, Sees, IsSeq
<1>5. IsSeq(taken') /\ Len(taken') = Len(taken) + n
  <2>1. /\ IsSeq(taken \o t) /\ Len(taken \o t) = Len(taken) + Len(t)
    BY <1>4, ConcatIs
  <2> QED  BY <2>1
<1>6. Sound' = Sound
  BY DEF Firm, Sound
<1>7. Placed' = [Placed EXCEPT ![h] = @ + n] /\ Placed[h] = p
  BY <1>2, PlacedAdvances DEF Placed
<1> HIDE DEF s, h
<1>8. CASE n = 0
  <2>1. taken' = taken
    <3>1. \A j \in 1 .. Len(taken) : (taken \o t)[j] = taken[j]
      BY <1>4, ConcatIs
    <3>2. Len(taken') = Len(taken)
      BY <1>4, <1>5, <1>8
    <3>3. \A j \in 1 .. Len(taken') : taken'[j] = taken[j]
      BY <3>1, <3>2
    <3>4. IsSeq(taken') /\ IsSeq(taken)
      BY <1>4, <1>5
    <3> QED  BY <3>2, <3>3, <3>4, SeqEq
  <2>2. Placed' = [Placed EXCEPT ![h] = p + n] /\ p + n \in Nat
    BY <1>2, <1>7
  <2> QED  BY <1>1, <1>2, <1>5, <1>6, <2>1, <2>2, PlaceStep
<1>9. CASE n > 0
  <2>1. n <= Len(taken')
    BY <1>4, <1>5
  <2>2. CASE s < p
    <3>1. p > Len(Content)
      BY <1>1, <1>2, <2>2
    <3> QED  BY <1>1, <1>2, <1>5, <1>6, <1>7, <1>9, <2>1, <3>1, ReadStep
  <2>3. CASE p + call.left <= s
    <3>1. p + n <= s
      BY <1>2, <2>3
    <3>2. Delivers(t, p, n)
      BY <2>3 DEF s
    <3>3. t = SubSeq(Content, p + 1, p + n)
      BY <1>1, <1>2, <1>9, <3>1, <3>2, DeliversPart
    <3>6. ~(p > Len(Content)) /\ p + n <= Len(Content) /\ taken' = taken \o SubSeq(Content, p + 1, p + n)
      BY <1>1, <1>2, <3>1, <3>3
    <3> QED  BY <1>1, <1>2, <1>5, <1>6, <1>7, <1>9, <2>1, <3>6, ReadStep
  <2> QED  BY <1>3, <2>2, <2>3 DEF s
<1> QED  BY <1>5, <1>8, <1>9

\* A block the size counts is there.
LEMMA LookupIs ==
    ASSUME Firm, NEW i \in Nat, At(i) < inode.size
    PROVE  /\ i \in FileBlock /\ inode.map[i] \in Nat /\ inode.map[i] # 0
           /\ Lookup(i) = inode.map[i]
<1>1. Exact /\ inode.size \in Nat /\ inode.size <= MaxPos /\ Places(inode.map, free)
  BY FirmIs
<1>2. At(i) \in Nat /\ At(i) < MaxPos /\ inode.size # 0
  BY <1>1, AtIs, PosRange
<1>3. i \in FileBlock /\ i < Blocks(inode.size)
  BY <1>1, <1>2, InFile, UpTo
<1>4. inode.map[i] # 0
  BY <1>1, <1>3 DEF Exact, FullMap
<1>5. inode.map[i] \in Nat
  BY <1>1, <1>3, SizesAssumption DEF Places
<1> QED  BY <1>2, <1>3, <1>4, <1>5 DEF Lookup

LEMMA LookupNat ==
    ASSUME Firm, NEW i \in FileBlock
    PROVE  Lookup(i) \in Nat
<1>1. inode.map[i] \in 0 .. NP
  BY FirmIs DEF Places
<1> QED  BY <1>1, SizesAssumption DEF Lookup

\* Bytes within one block are a run of it.
LEMMA OneBlock ==
    ASSUME NEW m, NEW i \in Nat, NEW b \in Nat, m[i] = b, NEW e \in Nat, e <= At(i) + BS
    PROVE  Run(m, b, i, e)
<1>1. ASSUME NEW j \in FileBlock, i <= j, At(j) < e PROVE m[j] = b + (j - i)
  <2>1. j \in Nat /\ i + 1 \in Nat /\ At(i + 1) = At(i) + BS /\ At(i) \in Nat /\ At(j) \in Nat
    BY AtIs DEF FileBlock
  <2>2. At(j) < At(i + 1)
    BY <1>1, <2>1, PosRange
  <2>3. j < i + 1
    BY <2>1, <2>2, AtMono
  <2>4. j = i
    BY <1>1, <2>1, <2>3
  <2> QED  BY <2>1, <2>4
<1> QED  BY <1>1 DEF Run

LEMMA BytesAre ==
    ASSUME NEW b, NEW off, NEW n \in Nat
    PROVE  IsSeq(Bytes(b, off, n)) /\ Len(Bytes(b, off, n)) = n
BY DEF Bytes, IsSeq

LEMMA ZerosAre ==
    ASSUME NEW n \in Nat
    PROVE  IsSeq([j \in 1 .. n |-> 0]) /\ Len([j \in 1 .. n |-> 0]) = n
BY DEF IsSeq

\* What was gathered is a run of blocks from the position on.
LEMMA LinedRun ==
    ASSUME NEW c, NEW p \in Nat, PlaceOK(c, p), Due(c), NEW m, Lined(c, p, m)
    PROVE  \E i \in Nat : p = At(i) /\ Run(m, c.start, i, p + At(c.count))
<1>1. /\ Spans(c, p)
      /\ {c.left, c.idx, c.count} \subseteq Nat
      /\ {At(c.idx), At(c.count), At(c.count + 1)} \subseteq Nat
      /\ At(c.count + 1) = At(c.count) + BS
      /\ At(c.count) <= c.left /\ p + c.left <= MaxPos
  BY SpanProducts, DueIs DEF PlaceOK, Spans
<1>2. PICK n \in Nat : At(c.idx) = p + At(n)
  <2>1. At(c.idx) = p + At(c.count) \/ At(c.idx) = p + At(c.count + 1)
    BY <1>1, PosRange DEF PlaceOK, Stands, Due
  <2>2. c.count \in Nat /\ c.count + 1 \in Nat
    BY <1>1
  <2> QED  BY <2>1, <2>2
<1>3. n <= c.idx
  <2>1. ASSUME c.idx < n PROVE FALSE
    <3>1. At(c.idx) + BS <= At(n) /\ At(n) \in Nat
      BY <1>1, <2>1, AtMono, AtIs
    <3> QED  BY <1>1, <1>2, <3>1, PosRange
  <2> QED  BY <1>1, <2>1
<1>4. PICK i \in Nat : c.idx = n + i
  <2>1. c.idx - n \in Nat /\ c.idx = n + (c.idx - n)
    BY <1>1, <1>3
  <2> QED  BY <2>1
<1>5. At(c.idx) = At(n) + At(i) /\ At(n) \in Nat /\ At(i) \in Nat
  BY <1>4, AtSum, AtIs
<1>6. p = At(i)
  BY <1>2, <1>5
<1>7. CASE p < p + At(c.count)
  <2>1. At(i) < MaxPos
    BY <1>1, <1>6, <1>7, PosRange
  <2>2. i \in FileBlock
    BY <2>1, InFile
  <2> QED  BY <1>6, <2>2 DEF Lined
<1>8. CASE ~(p < p + At(c.count))
  <2>1. ASSUME NEW j \in FileBlock, i <= j, At(j) < p + At(c.count) PROVE FALSE
    <3>1. j \in Nat /\ At(j) \in Nat /\ At(j) < At(i)
      BY <1>1, <1>6, <1>8, <2>1, AtIs DEF FileBlock
    <3> QED  BY <2>1, <3>1, AtMono
  <2>2. Run(m, c.start, i, p + At(c.count))
    BY <2>1 DEF Run
  <2> QED  BY <1>6, <2>2
<1> QED  BY <1>7, <1>8

LEMMA ReadSees ==
    ASSUME Firm, FreadHead \/ FreadMap \/ FreadBlocks \/ FreadTail \/ FreadFails
    PROVE  Sees' /\ OpenFileStep
<1> DEFINE p == file[call.h].fpos
           s == inode.size
<1>1. Transfer(call) /\ call.op = "fread"
  <2>1. \/ call.op = "fread" /\ call.at \in {"head", "map", "xfer", "tail"}
        \/ FreadFails
    BY DEF FreadHead, FreadMap, FreadBlocks, FreadTail, In, Due
  <2>2. CASE FreadFails
    BY <2>2 DEF FreadFails, DepthInv, Firm
  <2> QED  BY <2>1, <2>2 DEF DepthInv, Firm
<1>2. /\ FilesOK /\ call.h \in Handle /\ s \in Nat
      /\ p \in Nat /\ PlaceOK(call, p) /\ Spans(call, p) /\ p + call.left <= MaxPos
      /\ call.full = FALSE /\ file[call.h].fsize \in Nat
  <2>1. /\ FilesOK /\ call.h \in Handle
        /\ p \in Nat /\ PlaceOK(call, p) /\ Spans(call, p) /\ p + call.left <= MaxPos
        /\ call.full = FALSE /\ file[call.h].fsize \in Nat
    BY <1>1, UnderWay DEF Firm
  <2> QED  BY <2>1, FirmIs
<1>3. UNCHANGED <<data, inode, calls, io_error, beyond>>
  BY DEF FreadHead, FreadMap, FreadBlocks, FreadTail, FreadFails
<1>4. Sound' /\ calls' \in Nat
  BY <1>3 DEF Firm, Sound, Sees
<1>5. /\ IsSeq(taken)
      /\ SeesOK(call, p, file[call.h].fsize, s, inode.map)
  BY <1>1 DEF Firm, Sees
<1>6. call.left \in Nat /\ call.idx \in Nat /\ call.last \in Nat
  BY <1>2 DEF Spans
\* A part of the read.
<1>7. ASSUME NEW n \in Nat, n <= call.left, Advance(n), NEW t, IsSeq(t), Len(t) = n,
             taken' = taken \o t, p + call.left <= s => Delivers(t, p, n),
             \/ call' = NoCall
             \/ /\ Transfer(call') /\ call'.h = call.h /\ call'.op = "fread"
                /\ SeesOK(call', p + n, file[call.h].fsize, s, inode.map)
      PROVE  Sees' /\ OpenFileStep
  <2>1. call'.at = "idle" \/ call'.op = "fread"
    BY <1>7, NoCallIdle
  <2>2. OpenFileStep /\ IsSeq(taken')
    BY <1>1, <1>2, <1>3, <1>4, <1>7, <2>1, PartRead
  <2>3. p + n <= MaxPos
    BY <1>2, <1>6, <1>7, PosRange
  <2>4. file'[call.h].fpos = p + n /\ file'[call.h].fsize = file[call.h].fsize
    BY <1>2, <1>7, <2>3, Advances
  <2>5. CASE call' = NoCall
    BY <1>4, <2>2, <2>5, NoCallIdle, SeesEnds
  <2>6. CASE call' # NoCall
    <3>1. Transfer(call') /\ call'.op # "fwrite"
      BY <1>7, <2>6
    <3>2. SeesOK(call', file'[call'.h].fpos, file'[call'.h].fsize, inode'.size, inode'.map)
      BY <1>3, <1>7, <2>4, <2>6
    <3>3. Sees'
      BY <1>4, <2>2, <3>1, <3>2, SeesGoesOn
    <3> QED  BY <2>2, <3>3
  <2> QED  BY <2>2, <2>5, <2>6
\* A step that moves no byte.
<1>8. ASSUME file' = file, taken' = taken, call'.at = "idle" \/ call'.op = "fread"
      PROVE  OpenFileStep
  <2>1. call.op # "fwrite" /\ (call'.at = "idle" \/ call'.op # "fwrite")
    BY <1>1, <1>8
  <2>2. Content' = Content /\ Given' = Given
    BY <1>3, <2>1, NothingWritten
  <2>3. Placed' = Placed
    BY <1>8, PlacedKept
  <2>4. Sound' = Sound
    BY <1>4 DEF Firm
  <2> QED  BY <1>8, <2>2, <2>3, <2>4, NoStep
<1>9. CASE FreadHead
  <2> DEFINE k == HeadLength
             d == HeadMoved(call, k, "done")
             b == Lookup(call.idx)
             t == IF b # 0 THEN Bytes(b, Unaligned, k) ELSE [j \in 1 .. k |-> 0]
  <2>1. call.at = "head" /\ Advance(k) /\ Continue(d) /\ taken' = taken \o t
    BY <1>9 DEF FreadHead, In
  <2>2. k = Least(call.left, BS - (p % BS)) /\ Unaligned = p % BS
    BY HeadLengthIs DEF Unaligned
  <2>3. /\ PlaceOK(d, p + k) /\ k \in Nat /\ (call.left > 0 => k > 0)
        /\ d.left = call.left - k /\ d.left \in Nat
        /\ At(call.idx) < p + k /\ p + k <= At(call.idx + 1)
    <3>0. PlaceOK(d, p + k)
      BY <1>1, <1>2, <2>1, <2>2, HeadPlace
    <3>1. k \in Nat
      BY <1>1, <1>2, <2>1, <2>2, HeadPlace
    <3>3. d.left = call.left - k
      BY <1>1 DEF HeadMoved, Moved, Transfer, Fields
    <3>2. (call.left > 0 => k > 0) /\ At(call.idx) < p + k /\ p + k <= At(call.idx + 1)
      BY <1>1, <1>2, <2>1, <2>2, HeadPlace
    <3> QED  BY <3>0, <3>1, <3>2, <3>3 DEF PlaceOK, Spans
  <2>4. k <= call.left
    BY <1>6, <2>3
  <2>5. IsSeq(t) /\ Len(t) = k
    BY <2>3, BytesAre, ZerosAre
  <2>6. ASSUME p + call.left <= s PROVE Delivers(t, p, k)
    <3>1. CASE k = 0
      BY <3>1 DEF Delivers
    <3>2. CASE k > 0
      <4>1. At(call.idx) < p /\ p < At(call.idx) + BS /\ At(call.idx) \in Nat
            /\ At(call.idx + 1) = At(call.idx) + BS
        BY <1>2, <1>6, <2>1, AtIs DEF PlaceOK, Stands
      <4>2. At(call.idx) < s
        BY <1>2, <1>6, <2>6, <4>1
      <4>3. b \in Nat /\ b # 0 /\ inode.map[call.idx] = b
        BY <1>6, <4>2, LookupIs
      <4>4. p % BS = p - At(call.idx)
        BY <1>2, <1>6, <4>1, Inside
      <4>5. PICK off \in Nat : off = p % BS /\ p = At(call.idx) + off
        BY <1>2, <4>1, <4>4
      <4>6. p + k \in Nat /\ p + k <= At(call.idx) + BS /\ p + k <= MaxPos
        BY <1>2, <1>6, <2>3, <2>4, <4>1, PosRange
      <4>7. Run(inode.map, b, call.idx, p + k)
        BY <1>6, <4>3, <4>6, OneBlock
      <4>8. t = Bytes(b, off, k)
        BY <2>2, <4>3, <4>5
      <4>9. \A j \in 1 .. k : Bytes(b, off, k)[j] = ByteAt(p + j - 1)
        BY <1>6, <2>3, <4>5, <4>6, <4>7, RunBytes
      <4> QED  BY <4>8, <4>9 DEF Delivers
    <3> QED  BY <2>3, <3>1, <3>2
  <2>7. d.h = call.h
    BY <1>1 DEF HeadMoved, Moved, Transfer, Fields
  <2>8. d.at = "done" \/ (Transfer(d) /\ d.op = "fread")
    BY <1>1, <1>2, HeadMovedShape DEF SameTransfer
  <2>9. call' = NoCall \/ (call' = d /\ d.at # "done")
    BY <2>1 DEF Continue
  <2>10. SeesOK(d, p + k, file[call.h].fsize, s, inode.map)
    BY <1>1, <1>2, <1>5, <2>1, <2>2, HeadSees
  <2> HIDE DEF d, k, t
  <2> QED  BY <1>7, <2>1, <2>3, <2>4, <2>5, <2>6, <2>7, <2>8, <2>9, <2>10
<1>10. CASE FreadMap
  <2> DEFINE b == Lookup(call.idx)
             d == Gather(call, b, call.idx)
  <2>1. call.at = "map" /\ call.idx < call.last /\ call' = d /\ file' = file /\ taken' = taken
    BY <1>10 DEF FreadMap, In
  <2>2. b \in Nat
    <3>1. call.last <= FB
      BY <1>2, LastBlock
    <3>2. call.idx \in FileBlock
      BY <1>6, <2>1, <3>1, PosRange DEF FileBlock
    <3> QED  BY <3>2, LookupNat
  <2>3. ASSUME p + call.left <= s PROVE b # 0 /\ inode.map[call.idx] = b
    <3>1. At(call.idx) < s
      <4>1. At(call.idx) < At(call.last) /\ At(call.idx) \in Nat /\ At(call.last) \in Nat
            /\ At(call.last) <= p + call.left
        BY <1>2, <2>1, SpanProducts DEF Spans
      <4> QED  BY <1>2, <1>6, <2>3, <4>1
    <3> QED  BY <1>6, <3>1, LookupIs
  <2>4. SeesOK(d, p, file[call.h].fsize, s, inode.map)
    <3>1. (call.op = "fread" => p + call.left <= s) =>
             /\ b # 0 /\ inode.map[call.idx] = b
             /\ \A j \in FileBlock : inode.map[j] # 0 => inode.map[j] = inode.map[j]
      BY <1>1, <2>3
    <3>2. call.op # "fwrite"
      BY <1>1
    <3> QED  BY <1>1, <1>2, <1>5, <2>1, <2>2, <3>1, <3>2, GatherSees
  <2>5. Transfer(d) /\ d.op = "fread" /\ d.h = call.h
    BY <1>1, GatherShape, GatherIs DEF SameTransfer
  <2> HIDE DEF d
  <2>6. OpenFileStep
    BY <1>8, <2>1, <2>5
  <2>7. SeesOK(call', file'[call'.h].fpos, file'[call'.h].fsize, inode'.size, inode'.map)
    BY <1>3, <2>1, <2>4, <2>5
  <2>8. Transfer(call') /\ call'.op # "fwrite" /\ IsSeq(taken')
    BY <1>5, <2>1, <2>5
  <2>9. Sees'
    BY <1>4, <2>7, <2>8, SeesGoesOn
  <2> QED  BY <2>6, <2>9
<1>11. CASE FreadBlocks
  <2> DEFINE k == BS * call.count
             d == Transferred(call, "done")
             t == Bytes(call.start, 0, k)
  <2>1. Due(call) /\ Advance(k) /\ Continue(d) /\ taken' = taken \o t
    BY <1>11 DEF FreadBlocks
  <2>2. k = At(call.count)
    BY DEF At
  <2>3. k \in Nat /\ k <= call.left /\ p + k <= MaxPos
    <3>1. At(call.count) \in Nat /\ At(call.count) <= call.left
      BY <1>2, <2>1, DueIs
    <3> QED  BY <1>2, <1>6, <2>2, <3>1, PosRange
  <2>4. IsSeq(t) /\ Len(t) = k
    BY <2>3, BytesAre
  <2>5. ASSUME p + call.left <= s PROVE Delivers(t, p, k)
    <3>1. Lined(call, p, inode.map)
      BY <1>1, <1>5, <2>1, <2>5 DEF SeesOK, Due
    <3>2. PICK i \in Nat : p = At(i) /\ Run(inode.map, call.start, i, p + k)
      BY <1>2, <2>1, <2>2, <3>1, LinedRun
    <3>3. p = At(i) + 0
      BY <1>2, <3>2
    <3>4. \A j \in 1 .. k : Bytes(call.start, 0, k)[j] = ByteAt(p + j - 1)
      BY <2>3, <3>2, <3>3, RunBytes
    <3> QED  BY <3>4 DEF Delivers
  <2>6. d.h = call.h
    BY <1>1, TransferredIs
  <2>7. d.at = "done" \/ (Transfer(d) /\ d.op = "fread")
    BY <1>1, <1>2, TransferredShape DEF SameTransfer
  <2>8. call' = NoCall \/ (call' = d /\ d.at # "done")
    BY <2>1 DEF Continue
  <2>9. SeesOK(d, p + k, file[call.h].fsize, s, inode.map)
    BY <1>1, <1>2, <1>5, <2>1, <2>2, TransferredSees
  <2> HIDE DEF d, k, t
  <2> QED  BY <1>7, <2>1, <2>3, <2>4, <2>5, <2>6, <2>7, <2>8, <2>9
<1>12. CASE FreadTail
  <2> DEFINE b == Lookup(call.idx)
             k == call.left
             t == Bytes(b, 0, k)
  <2>1. call.at = "tail" /\ Advance(k) /\ call' = NoCall /\ taken' = taken \o t
    BY <1>12 DEF FreadTail, In
  <2>2. IsSeq(t) /\ Len(t) = k
    BY <1>6, BytesAre
  <2>3. ASSUME p + call.left <= s PROVE Delivers(t, p, k)
    <3>1. 0 < k /\ k < BS /\ At(call.idx) = p
      BY <1>2, <2>1 DEF PlaceOK, Stands
    <3>2. b \in Nat /\ b # 0 /\ inode.map[call.idx] = b
      BY <1>2, <1>6, <2>3, <3>1, LookupIs
    <3>3. p + k \in Nat /\ p + k <= At(call.idx) + BS /\ p = At(call.idx) + 0
      BY <1>2, <1>6, <3>1, PosRange
    <3>4. Run(inode.map, b, call.idx, p + k)
      BY <1>6, <3>2, <3>3, OneBlock
    <3>5. \A j \in 1 .. k : Bytes(b, 0, k)[j] = ByteAt(p + j - 1)
      BY <1>2, <1>6, <3>3, <3>4, RunBytes
    <3> QED  BY <3>5 DEF Delivers
  <2>4. k \in Nat /\ k <= call.left
    BY <1>6
  <2> HIDE DEF t, k
  <2> QED  BY <1>7, <2>1, <2>2, <2>3, <2>4
<1>13. CASE FreadFails
  <2>1. call' = NoCall /\ file' = file /\ taken' = taken
    BY <1>13 DEF FreadFails
  <2>2. Sees'
    BY <1>4, <1>5, <2>1, NoCallIdle, SeesEnds
  <2> QED  BY <1>8, <2>1, <2>2, NoCallIdle
<1> QED  BY <1>9, <1>10, <1>11, <1>12, <1>13

\* The other parts of the invariant hold after the step.
After == MapInv' /\ DepthInv' /\ Sizes'

\* A step of a write that moves bytes, and one that moves none.
LEMMA WriteMoves ==
    ASSUME Firm, After, Sound', Transfer(call), call.op = "fwrite", calls' = calls, taken' = taken,
           NEW k \in Nat, k <= call.left, Advance(k), NEW p \in Nat, p = file[call.h].fpos,
           NEW f, f = file[call.h].fsize,
           Transfer(call'), call'.op = "fwrite", call'.h = call.h,
           call'.left = call.left - k, call'.got = call.got + k,
           SeesOK(call', p + k, f, inode'.size, inode'.map),
           NEW i \in Nat, NEW off \in Nat, NEW b \in Nat, p = At(i) + off,
           data' = Overlay(b, off, k, call.got), Run(inode'.map, b, i, p + k),
           \A j \in FileBlock : inode.map[j] # 0 => inode'.map[j] = inode.map[j]
    PROVE  Sees' /\ OpenFileStep
<1>1. /\ FilesOK /\ call.h \in Handle /\ call.left \in Nat /\ p + call.left <= MaxPos
  BY UnderWay DEF Firm, Spans
<1>2. p + k <= MaxPos
  BY <1>1, PosRange
<1>3. file'[call.h].fpos = p + k /\ file'[call.h].fsize = f
  BY <1>1, <1>2, Advances
<1>4. calls' \in Nat /\ taken = <<>> /\ taken' = <<>> /\ IsSeq(taken')
  BY EmptyIs DEF Firm, Sees
<1>5. SeesOK(call', file'[call'.h].fpos, file'[call'.h].fsize, inode'.size, inode'.map)
  BY <1>3
<1>6. Sees'
  BY <1>4, <1>5, SeesGoesOn
<1>7. Firm'
  BY <1>6 DEF After, Firm
<1>8. OpenFileStep
  BY <1>7, PartWritten
<1> QED  BY <1>6, <1>8

LEMMA WriteStays ==
    ASSUME Firm, Sound', Transfer(call), call.op = "fwrite", calls' = calls, taken' = taken,
           data' = data, file' = file,
           Transfer(call'), call'.op = "fwrite", call'.h = call.h,
           call'.left = call.left, call'.got = call.got,
           SeesOK(call', file[call.h].fpos, file[call.h].fsize, inode'.size, inode'.map),
           \A j \in FileBlock : inode.map[j] # 0 => inode'.map[j] = inode.map[j]
    PROVE  Sees' /\ OpenFileStep
<1>1. calls' \in Nat /\ taken = <<>> /\ taken' = <<>> /\ IsSeq(taken')
  BY EmptyIs DEF Firm, Sees
<1>2. SeesOK(call', file'[call'.h].fpos, file'[call'.h].fsize, inode'.size, inode'.map)
  OBVIOUS
<1>3. Sees'
  BY <1>1, <1>2, SeesGoesOn
<1>4. call.at # "idle" /\ call'.at # "idle"
  BY DEF Transfer
<1>5. Visible' = Visible
  BY <1>4 DEF Visible
<1>6. Content' = Content
  BY <1>5, ContentKept
<1>7. Given' = Given
  <2>1. Given = [j \in 1 .. call.left |-> Buf(call.got + j - 1)]
    BY <1>4 DEF Given
  <2>2. Given' = [j \in 1 .. call'.left |-> Buf(call'.got + j - 1)]
    BY <1>4 DEF Given, Buf
  <2> QED  BY <2>1, <2>2
<1>8. Placed' = Placed
  BY PlacedKept
<1>9. Sound' = Sound
  BY DEF Firm
<1> QED  BY <1>3, <1>6, <1>7, <1>8, <1>9, NoStep

\* What is not promised any more.
LEMMA WriteBreaks ==
    ASSUME io_error' = TRUE
    PROVE  BytesInv' /\ OpenFileStep
<1>1. ~Sound'
  BY DEF Sound
<1> QED  BY <1>1, UnsoundStep DEF BytesInv

\* The state of a write, with what it knows of the file.
LEMMA WriteKnows ==
    ASSUME Firm, Transfer(call), call.op = "fwrite"
    PROVE  /\ FilesOK /\ call.h \in Handle /\ inode.size \in 0 .. MaxPos
           /\ inode.size \in Nat /\ MapInv /\ Exact /\ io_error = FALSE /\ ~beyond
           /\ file[call.h].fpos \in Nat /\ file[call.h].fsize \in Nat
           /\ PlaceOK(call, file[call.h].fpos) /\ Spans(call, file[call.h].fpos)
           /\ WritePlace(call, file[call.h].fpos, file[call.h].fsize, inode.size)
           /\ WriteOK(call, file[call.h].fpos, file[call.h].fsize, inode.size)
           /\ SeesOK(call, file[call.h].fpos, file[call.h].fsize, inode.size, inode.map)
           /\ call.left \in Nat /\ call.got \in Nat /\ call.idx \in Nat /\ call.blocks \in Nat
           /\ call.count \in Nat /\ call.start \in Nat
<1>1. /\ FilesOK /\ call.h \in Handle /\ inode.size \in 0 .. MaxPos
      /\ file[call.h].fpos \in Nat /\ file[call.h].fsize \in Nat
      /\ PlaceOK(call, file[call.h].fpos) /\ Spans(call, file[call.h].fpos)
      /\ WritePlace(call, file[call.h].fpos, file[call.h].fsize, inode.size)
  BY Writing DEF Firm
<1>2. inode.size \in Nat /\ Exact
  BY FirmIs
<1>3. SeesOK(call, file[call.h].fpos, file[call.h].fsize, inode.size, inode.map)
  BY DEF Firm, Sees
<1>4. MapInv /\ io_error = FALSE /\ ~beyond
  BY FirmIs DEF Firm, Sound
<1>5. WriteOK(call, file[call.h].fpos, file[call.h].fsize, inode.size)
  BY <1>1 DEF WritePlace
<1>6. call.got \in Nat
  BY <1>3 DEF SeesOK
<1> QED  BY <1>1, <1>2, <1>3, <1>4, <1>5, <1>6 DEF Spans

LEMMA HeadWritten ==
    ASSUME Firm, After, FwriteHead
    PROVE  BytesInv' /\ OpenFileStep
<1> DEFINE p == file[call.h].fpos
           f == file[call.h].fsize
           s == inode.size
           k == HeadLength
           d == HeadMoved(call, k, "size")
<1>1. /\ Transfer(call) /\ call.op = "fwrite" /\ call.at = "head"
      /\ UNCHANGED <<taken, calls, beyond>>
  BY DEF FwriteHead, In, DepthInv, Transfer, Firm
<1>2. PICK res \in InitBlock(call.idx) :
        /\ Requested(res)
        /\ IF res.r = "EOK"
             THEN /\ data' = Overlay(res.blk, Unaligned, k, call.got)
                  /\ Advance(k) /\ call' = d
             ELSE call' = NoCall /\ UNCHANGED <<data, file>>
  BY DEF FwriteHead
<1>3. CASE res.r = "EIO"
  BY <1>2, <1>3, WriteBreaks DEF Requested
<1>4. CASE res.r # "EIO"
  <2>1. /\ FilesOK /\ call.h \in Handle /\ s \in 0 .. MaxPos /\ s \in Nat /\ p \in Nat /\ f \in Nat
        /\ PlaceOK(call, p) /\ Spans(call, p) /\ WriteOK(call, p, f, s)
        /\ SeesOK(call, p, f, s, inode.map) /\ MapInv /\ Exact
        /\ call.left \in Nat /\ call.idx \in Nat /\ call.blocks \in Nat /\ io_error = FALSE
    BY <1>1, WriteKnows
  <2>2. call.idx \in FileBlock /\ call.idx < Blocks(s)
    <3>1. call.idx < call.blocks /\ Blocks(s) = Larger(call.blocks, call.idx)
      BY <1>1, <2>1 DEF WriteOK
    <3>2. Blocks(s) \in 0 .. FB
      BY <2>1, BlocksBound
    <3>3. Blocks(s) = call.blocks
      BY <2>1, <3>1 DEF Larger
    <3> QED  BY <2>1, <3>1, <3>2, <3>3, PosRange DEF FileBlock
  <2>3. Answers(res, call.idx) /\ res.r = "EOK" /\ res.map = inode.map /\ res.size = s
    BY <1>4, <2>1, <2>2, InitAnswers
  <2>4. /\ data' = Overlay(res.blk, Unaligned, k, call.got) /\ Advance(k) /\ call' = d
        /\ inode' = [inode EXCEPT !.map = res.map, !.size = res.size]
        /\ io_error' = (io_error \/ res.r = "EIO")
    BY <1>2, <2>3 DEF Requested
  <2>5. inode'.map = inode.map /\ inode'.size = s
    BY <2>1, <2>3, <2>4 DEF MapInv
  <2>6. Sound'
    BY <1>1, <1>4, <2>1, <2>4 DEF Firm, Sound
  <2>7. k = Least(call.left, BS - (p % BS)) /\ Unaligned = p % BS
    BY HeadLengthIs DEF Unaligned
  <2>8. k \in Nat
    BY <1>1, <2>1, <2>7, HeadPlace
  <2>9. At(call.idx) < p + k /\ p + k <= At(call.idx + 1)
    BY <1>1, <2>1, <2>7, HeadPlace
  <2>10. d.left = call.left - k /\ d.got = call.got + k /\ d.h = call.h
    BY <1>1 DEF HeadMoved, Moved, Transfer, Fields
  <2>11. Transfer(d) /\ d.op = "fwrite"
    BY <1>1, HeadMovedShape DEF SameTransfer
  <2>12. k <= call.left
    BY <2>1, <2>7, <2>8, PosRange DEF Least
  <2>13. At(call.idx) < p /\ p < At(call.idx) + BS /\ At(call.idx) \in Nat
         /\ At(call.idx + 1) = At(call.idx) + BS
    BY <1>1, <2>1, AtIs DEF PlaceOK, Stands
  <2>14. p % BS = p - At(call.idx)
    BY <2>1, <2>13, Inside
  <2>15. PICK off \in Nat : off = p % BS /\ p = At(call.idx) + off
    BY <2>1, <2>13, <2>14
  <2>16. SeesOK(d, p + k, f, s, inode.map)
    BY <1>1, <2>1, <2>7, HeadSees
  <2>17. PICK b \in Nat : b = res.blk /\ inode'.map[call.idx] = b
    BY <2>3, <2>5 DEF Answers
  <2>18. Run(inode'.map, b, call.idx, p + k)
    <3>1. p + k \in Nat /\ p + k <= At(call.idx) + BS
      BY <2>1, <2>8, <2>9, <2>13
    <3> QED  BY <2>1, <2>17, <3>1, OneBlock
  <2>19. data' = Overlay(b, off, k, call.got)
    BY <2>4, <2>7, <2>15, <2>17
  <2> HIDE DEF d, k
  <2>20. SeesOK(call', p + k, f, inode'.size, inode'.map)
    BY <2>4, <2>5, <2>16
  <2>21. /\ Transfer(call') /\ call'.op = "fwrite" /\ call'.h = call.h
         /\ call'.left = call.left - k /\ call'.got = call.got + k
    BY <2>4, <2>10, <2>11
  <2>22. \A j \in FileBlock : inode.map[j] # 0 => inode'.map[j] = inode.map[j]
    BY <2>5
  <2>23. calls' = calls /\ taken' = taken /\ Advance(k)
    BY <1>1, <2>4
  <2>24. Sees' /\ OpenFileStep
    BY <1>1, <2>1, <2>6, <2>8, <2>12, <2>15, <2>18, <2>19, <2>20, <2>21, <2>22, <2>23, WriteMoves
  <2> QED  BY <2>24 DEF BytesInv
<1> QED  BY <1>3, <1>4

LEMMA MapWritten ==
    ASSUME Firm, After, FwriteMap
    PROVE  BytesInv' /\ OpenFileStep
<1> DEFINE p == file[call.h].fpos
           f == file[call.h].fsize
           s == inode.size
<1>1. /\ Transfer(call) /\ call.op = "fwrite" /\ call.at = "map" /\ call.idx < call.last
      /\ data' = data /\ file' = file /\ taken' = taken /\ calls' = calls /\ beyond' = beyond
  BY DEF FwriteMap, In, DepthInv, Transfer, Firm
<1>2. PICK res \in BlockFor(call) :
        /\ Requested(res)
        /\ \/ res.r = "EOK" /\ call' = Gather(call, res.blk, res.idx)
           \/ res.r # "EOK" /\ call.idx < call.blocks /\ call' = NoCall
           \/ res.r # "EOK" /\ ~(call.idx < call.blocks) /\ call' = Filled(call)
  BY DEF FwriteMap, Filled
<1>3. CASE res.r = "EIO"
  BY <1>2, <1>3, WriteBreaks DEF Requested
<1>4. CASE res.r # "EIO"
  <2>1. /\ s \in 0 .. MaxPos /\ s \in Nat /\ p \in Nat /\ f \in Nat
        /\ PlaceOK(call, p) /\ Spans(call, p) /\ WriteOK(call, p, f, s)
        /\ SeesOK(call, p, f, s, inode.map) /\ MapInv /\ Exact
        /\ call.idx \in Nat /\ call.blocks \in Nat /\ io_error = FALSE
    BY <1>1, WriteKnows
  <2>2. call.idx < FB /\ Blocks(s) = Larger(call.blocks, call.idx)
    <3>1. call.last <= FB /\ call.last \in Nat
      BY <2>1, LastBlock
    <3> QED  BY <1>1, <2>1, <3>1, PosRange DEF WriteOK
  <2>3. /\ Answers(res, call.idx)
        /\ call.idx < call.blocks => res.r = "EOK" /\ res.size = s
    BY <1>4, <2>1, <2>2, WriteAnswers
  <2>4. /\ inode'.map = res.map /\ inode'.size = res.size
        /\ io_error' = (io_error \/ res.r = "EIO")
    BY <1>2, <2>1 DEF Requested, MapInv
  <2>5. Sound'
    BY <1>1, <1>4, <2>1, <2>4 DEF Firm, Sound
  <2>6. \A j \in FileBlock : inode.map[j] # 0 => inode'.map[j] = inode.map[j]
    BY <2>3, <2>4 DEF Answers
  <2>7. CASE res.r = "EOK"
    <3> DEFINE d == Gather(call, res.blk, call.idx)
    <3>1. /\ call' = d /\ res.blk \in Nat /\ res.blk # 0 /\ inode'.map[call.idx] = res.blk
      BY <1>2, <2>3, <2>4, <2>7 DEF Answers
    <3>2. SeesOK(d, p, f, inode'.size, inode'.map)
      <4>1. /\ call.op = "fread" => inode'.size = s
            /\ call.op = "fwrite" => (call.idx < call.blocks => inode'.size = s)
        BY <1>1, <2>3, <2>4
      <4>2. (call.op = "fread" => p + call.left <= s) =>
              /\ res.blk # 0 /\ inode'.map[call.idx] = res.blk
              /\ \A j \in FileBlock : inode.map[j] # 0 => inode'.map[j] = inode.map[j]
        BY <2>6, <3>1
      <4> QED  BY <1>1, <2>1, <3>1, <4>1, <4>2, GatherSees
    <3>3. Transfer(d) /\ d.op = "fwrite" /\ d.h = call.h /\ d.left = call.left
      BY <1>1, GatherShape, GatherIs DEF SameTransfer
    <3>4. d.got = call.got
      BY <1>1 DEF Gather, Transfer, Fields
    <3> HIDE DEF d
    <3>5. Sees' /\ OpenFileStep
      BY <1>1, <2>5, <2>6, <3>1, <3>2, <3>3, <3>4, WriteStays
    <3> QED  BY <3>5 DEF BytesInv
  <2>8. CASE res.r # "EOK"
    <3> DEFINE d == Filled(call)
    <3>1. call' = d /\ res.r = "ENOSPC" /\ res.map = inode.map /\ res.size = s
      BY <1>2, <2>3, <2>8 DEF Answers
    <3>2. SeesOK(d, p, f, s, inode.map)
      BY <1>1, <2>1, FilledSees
    <3>3. SeesOK(d, p, f, inode'.size, inode'.map)
      BY <2>4, <3>1, <3>2
    <3>4. Transfer(d) /\ d.op = "fwrite" /\ d.h = call.h /\ d.left = call.left /\ d.got = call.got
      BY <1>1 DEF Filled, Transfer, Fields
    <3> HIDE DEF d
    <3>5. Sees' /\ OpenFileStep
      BY <1>1, <2>5, <2>6, <3>1, <3>3, <3>4, WriteStays
    <3> QED  BY <3>5 DEF BytesInv
  <2> QED  BY <2>7, <2>8
<1> QED  BY <1>3, <1>4

LEMMA BlocksWritten ==
    ASSUME Firm, After, FwriteBlocks
    PROVE  BytesInv' /\ OpenFileStep
<1> DEFINE p == file[call.h].fpos
           f == file[call.h].fsize
           s == inode.size
           k == At(call.count)
           c == Transferred(call, "size")
<1>1. /\ Transfer(call) /\ call.op = "fwrite" /\ Due(call) /\ call.at \in {"map", "xfer"}
      /\ inode' = inode /\ taken' = taken /\ calls' = calls
      /\ io_error' = io_error /\ beyond' = beyond
  BY DEF FwriteBlocks, Due, DepthInv, Transfer, Firm
<1>2. /\ s \in Nat /\ p \in Nat /\ f \in Nat
      /\ PlaceOK(call, p) /\ Spans(call, p) /\ WriteOK(call, p, f, s)
      /\ WritePlace(call, p, f, s) /\ SeesOK(call, p, f, s, inode.map)
      /\ call.left \in Nat /\ call.got \in Nat /\ call.start \in Nat
  BY <1>1, WriteKnows
<1>3. Sound'
  BY <1>1 DEF Firm, Sound
<1>4. /\ data' = Overlay(call.start, 0, k, call.got) /\ Advance(k)
      /\ IF call.full THEN call' = Ended(c) ELSE call' = c
  <2>1. BS * call.count = k
    BY DEF At
  <2> QED  BY <2>1 DEF FwriteBlocks, Ended
<1>5. k \in Nat /\ k <= call.left
  BY <1>1, <1>2, DueIs
<1>6. Lined(call, p, inode.map)
  BY <1>1, <1>2 DEF SeesOK
<1>7. PICK i \in Nat : p = At(i) /\ Run(inode.map, call.start, i, p + k)
  BY <1>1, <1>2, <1>6, LinedRun
<1>8. p = At(i) + 0 /\ Run(inode'.map, call.start, i, p + k)
  BY <1>1, <1>2, <1>7
<1>9. /\ Transfer(c) /\ c.op = "fwrite" /\ c.h = call.h /\ c.left = call.left - k
      /\ c.got = call.got + k
  <2>1. Transfer(c) /\ c.op = "fwrite" /\ c.h = call.h /\ c.left = call.left - k
    BY <1>1, TransferredShape, TransferredIs DEF SameTransfer
  <2>2. c.got = call.got + k
    BY <1>1 DEF Transferred, Moved, Transfer, Fields, At
  <2> QED  BY <2>1, <2>2
<1>10. ASSUME NEW d, call' = d, Transfer(d), d.op = "fwrite", d.h = call.h,
              d.left = call.left - k, d.got = call.got + k,
              SeesOK(d, p + k, f, s, inode.map)
       PROVE  Sees' /\ OpenFileStep
  <2>1. SeesOK(call', p + k, f, inode'.size, inode'.map)
    BY <1>1, <1>10
  <2>2. \A j \in FileBlock : inode.map[j] # 0 => inode'.map[j] = inode.map[j]
    BY <1>1
  <2> HIDE DEF k, c
  <2> QED  BY <1>1, <1>2, <1>3, <1>4, <1>5, <1>8, <1>10, <2>1, <2>2, WriteMoves
<1>11. CASE call.full
  <2> DEFINE d == Ended(c)
  <2>1. SeesOK(d, p + k, f, s, inode.map)
    BY <1>1, <1>2, <1>11, FullSees
  <2>2. Transfer(d) /\ d.op = "fwrite" /\ d.h = c.h /\ d.left = c.left
    BY <1>9, EndedIs, SizeShape DEF Ended, SameTransfer
  <2>3. d.got = c.got
    BY <1>9 DEF Ended, Transfer, Fields
  <2>4. call' = d
    BY <1>4, <1>11
  <2> HIDE DEF d, c, k
  <2>5. Sees' /\ OpenFileStep
    BY <1>9, <1>10, <2>1, <2>2, <2>3, <2>4
  <2> QED  BY <2>5 DEF BytesInv
<1>12. CASE ~call.full
  <2>1. SeesOK(c, p + k, f, s, inode.map)
    BY <1>1, <1>2, <1>12, TransferredSees
  <2>2. call' = c
    BY <1>4, <1>12
  <2> HIDE DEF c, k
  <2>3. Sees' /\ OpenFileStep
    BY <1>9, <1>10, <2>1, <2>2
  <2> QED  BY <2>3 DEF BytesInv
<1> QED  BY <1>11, <1>12

LEMMA TailWritten ==
    ASSUME Firm, After, FwriteTail
    PROVE  BytesInv' /\ OpenFileStep
<1> DEFINE p == file[call.h].fpos
           f == file[call.h].fsize
           s == inode.size
           k == call.left
<1>1. /\ Transfer(call) /\ call.op = "fwrite" /\ call.at = "tail"
      /\ taken' = taken /\ calls' = calls /\ beyond' = beyond
  BY DEF FwriteTail, In, DepthInv, Transfer, Firm
<1>2. PICK res \in BlockFor(call) :
        /\ Requested(res)
        /\ IF res.r = "EOK"
             THEN /\ data' = Overlay(res.blk, 0, k, call.got) /\ Advance(k)
                  /\ call' = Ended(Moved(call, k))
             ELSE /\ call' = IF call.idx < call.blocks THEN NoCall ELSE Ended(call)
                  /\ UNCHANGED <<data, file>>
  BY DEF FwriteTail, Ended
<1>3. CASE res.r = "EIO"
  BY <1>2, <1>3, WriteBreaks DEF Requested
<1>4. CASE res.r # "EIO"
  <2>1. /\ s \in 0 .. MaxPos /\ s \in Nat /\ p \in Nat /\ f \in Nat
        /\ PlaceOK(call, p) /\ Spans(call, p) /\ WriteOK(call, p, f, s)
        /\ WritePlace(call, p, f, s)
        /\ SeesOK(call, p, f, s, inode.map) /\ MapInv /\ Exact
        /\ call.idx \in Nat /\ call.blocks \in Nat /\ k \in Nat /\ call.got \in Nat
        /\ io_error = FALSE
    BY <1>1, WriteKnows
  <2>2. call.idx < FB /\ Blocks(s) = Larger(call.blocks, call.idx)
    BY <1>1, <2>1, TailBlock DEF WriteOK
  <2>3. /\ Answers(res, call.idx)
        /\ call.idx < call.blocks => res.r = "EOK" /\ res.size = s
    BY <1>4, <2>1, <2>2, WriteAnswers
  <2>4. /\ inode'.map = res.map /\ inode'.size = res.size
        /\ io_error' = (io_error \/ res.r = "EIO")
    BY <1>2, <2>1 DEF Requested, MapInv
  <2>5. Sound'
    BY <1>1, <1>4, <2>1, <2>4 DEF Firm, Sound
  <2>6. \A j \in FileBlock : inode.map[j] # 0 => inode'.map[j] = inode.map[j]
    BY <2>3, <2>4 DEF Answers
  <2>7. CASE res.r = "EOK"
    <3> DEFINE d == Ended(Moved(call, k))
    <3>1. call' = d /\ data' = Overlay(res.blk, 0, k, call.got) /\ Advance(k)
      BY <1>2, <2>7
    <3>2. PICK b \in Nat : b = res.blk /\ inode'.map[call.idx] = b
      BY <2>3, <2>4, <2>7 DEF Answers
    <3>3. SeesOK(d, p + k, f, inode'.size, inode'.map)
      <4>1. call.idx < call.blocks => inode'.size = s
        BY <2>3, <2>4
      <4> QED  BY <1>1, <2>1, <4>1, TailSees
    <3>4. Transfer(d) /\ d.op = "fwrite"
      BY <1>1, SizeShape DEF SameTransfer, Ended
    <3>5. d.h = call.h /\ d.left = call.left - k /\ d.got = call.got + k
      BY <1>1 DEF Ended, Moved, Transfer, Fields
    <3>6. p = At(call.idx) + 0
      BY <1>1, <2>1 DEF PlaceOK, Stands
    <3>7. Run(inode'.map, b, call.idx, p + k)
      <4>1. p + k \in Nat /\ p + k <= At(call.idx) + BS
        BY <1>1, <2>1, <3>6, PosRange DEF PlaceOK, Stands
      <4> QED  BY <2>1, <3>2, <4>1, OneBlock
    <3>8. data' = Overlay(b, 0, k, call.got)
      BY <3>1, <3>2
    <3>9. k <= call.left
      BY <2>1
    <3> HIDE DEF d
    <3>10. Sees' /\ OpenFileStep
      BY <1>1, <2>1, <2>5, <2>6, <3>1, <3>3, <3>4, <3>5, <3>6, <3>7, <3>8, <3>9, WriteMoves
    <3> QED  BY <3>10 DEF BytesInv
  <2>8. CASE res.r # "EOK"
    <3> DEFINE d == Ended(call)
    <3>1. call' = d /\ data' = data /\ file' = file
          /\ res.r = "ENOSPC" /\ res.map = inode.map /\ res.size = s
      BY <1>2, <2>3, <2>8 DEF Answers
    <3>2. SeesOK(d, p, f, s, inode.map)
      BY <1>1, <2>1, TailSees
    <3>3. SeesOK(d, p, f, inode'.size, inode'.map)
      BY <2>4, <3>1, <3>2
    <3>4. Transfer(d) /\ d.op = "fwrite" /\ d.h = call.h /\ d.left = call.left
      BY <1>1, SizeShape, EndedIs DEF SameTransfer, Ended
    <3>5. d.got = call.got
      BY <1>1 DEF Ended, Transfer, Fields
    <3> HIDE DEF d
    <3>6. Sees' /\ OpenFileStep
      BY <1>1, <2>5, <2>6, <3>1, <3>3, <3>4, <3>5, WriteStays
    <3> QED  BY <3>6 DEF BytesInv
  <2> QED  BY <2>7, <2>8
<1> QED  BY <1>3, <1>4

LEMMA SizeWritten ==
    ASSUME Firm, FwriteSize
    PROVE  BytesInv' /\ OpenFileStep
<1> DEFINE p == file[call.h].fpos
           f == file[call.h].fsize
           s == inode.size
           n == SizeAfter(p, f)
<1>1. /\ Transfer(call) /\ call.op = "fwrite" /\ call.at = "size"
      /\ taken' = taken /\ calls' = calls /\ beyond' = beyond /\ io_error' = io_error
      /\ data' = data /\ call' = NoCall
      /\ inode' = [inode EXCEPT !.size = n]
      /\ file' = [file EXCEPT ![call.h].fsize = IF p > f THEN p ELSE f]
  BY DEF FwriteSize, In, DepthInv, Transfer, Firm
<1>2. /\ FilesOK /\ call.h \in Handle /\ s \in Nat /\ p \in Nat /\ f \in Nat
      /\ SeesOK(call, p, f, s, inode.map) /\ MapInv
  BY <1>1, WriteKnows
<1>3. Sound' = Sound
  BY <1>1 DEF Sound
<1>4. n = IF p > f THEN p ELSE f
  BY <1>1, <1>2 DEF SeesOK, SizeAfter
<1>5. inode'.size = n /\ inode'.map = inode.map
  BY <1>1, <1>2 DEF MapInv
<1>6. Visible = n
  BY <1>1, <1>4, VisibleIs
<1> HIDE DEF n
<1>7. call'.at = "idle"
  BY <1>1, NoCallIdle
<1>8. Visible' = n
  BY <1>5, <1>7 DEF Visible
<1>9. Content' = Content
  BY <1>1, <1>5, <1>6, <1>8, ContentKept
<1>10. Given' = <<>>
  BY <1>7 DEF Given
<1>11. calls' \in Nat /\ taken' = <<>> /\ IsSeq(taken')
  BY <1>1, EmptyIs DEF Firm, Sees
<1>12. Sees'
  BY <1>7, <1>11, SeesEnds
<1>13. \A h \in Handle : file'[h].fpos = file[h].fpos
  <2>1. file = [h \in Handle |-> file[h]]
        /\ \A h \in Handle : file[h] = [open |-> file[h].open, wronly |-> file[h].wronly,
                                        fpos |-> file[h].fpos, fsize |-> file[h].fsize]
    BY <1>2 DEF FilesOK, FileOK
  <2> QED  BY <1>1, <1>2, <2>1
<1>14. OpenFileStep
  <2>1. Placed' = Placed
    BY <1>13, PlacedKept
  <2>2. IsSeq(Given') /\ \A j \in 1 .. Len(Given') : Given'[j] \in Nat
    BY <1>10, EmptyIs
  <2> QED  BY <1>3, <1>9, <1>11, <2>1, <2>2, CallStep
<1> QED  BY <1>12, <1>14 DEF BytesInv

LEMMA PlacedSet ==
    ASSUME FilesOK, NEW h \in Handle, NEW r, file' = [file EXCEPT ![h] = r]
    PROVE  Placed' = [Placed EXCEPT ![h] = r.fpos]
<1>1. \A x \in Handle : file'[x] = IF x = h THEN r ELSE file[x]
  BY DEF FilesOK
<1>2. Placed' = [x \in Handle |-> file'[x].fpos]
  BY DEF Placed
<1>3. [Placed EXCEPT ![h] = r.fpos] = [x \in Handle |-> IF x = h THEN r.fpos ELSE file[x].fpos]
  BY DEF Placed
<1>4. \A x \in Handle : file'[x].fpos = IF x = h THEN r.fpos ELSE file[x].fpos
  BY <1>1
<1> QED  BY <1>2, <1>3, <1>4

LEMMA PlacedMoved ==
    ASSUME FilesOK, NEW h \in Handle, NEW q, file' = [file EXCEPT ![h].fpos = q]
    PROVE  Placed' = [Placed EXCEPT ![h] = q]
<1> DEFINE r == [file[h] EXCEPT !.fpos = q]
<1>1. file[h] = [open |-> file[h].open, wronly |-> file[h].wronly,
                 fpos |-> file[h].fpos, fsize |-> file[h].fsize]
  BY DEF FilesOK, FileOK
<1>2. r.fpos = q
  BY <1>1
<1>3. file' = [file EXCEPT ![h] = r]
  OBVIOUS
<1> HIDE DEF r
<1> QED  BY <1>2, <1>3, PlacedSet

LEMMA SizeReadPlaces ==
    ASSUME FilesOK, NEW h \in Handle, NEW q, file' = [file EXCEPT ![h].fsize = q]
    PROVE  \A x \in Handle : file'[x].fpos = file[x].fpos
<1>1. file = [x \in Handle |-> file[x]]
      /\ \A x \in Handle : file[x] = [open |-> file[x].open, wronly |-> file[x].wronly,
                                      fpos |-> file[x].fpos, fsize |-> file[x].fsize]
  BY DEF FilesOK, FileOK
<1> QED  BY <1>1

LEMMA BeginSees ==
    ASSUME Firm, Sound', NEW h \in Handle,
           \/ \E n \in Amount : FreadStart(h, n) \/ FwriteStart(h, n)
           \/ \E n \in Length : FtruncateStart(h, n)
           \/ \E m \in Mode : FopenStart(h, m)
           \/ \E o \in Offset : Fseek(h, o)
           \/ Fclose(h)
    PROVE  Sees' /\ OpenFileStep
<1> DEFINE s == inode.size
           p == file[h].fpos
<1>1. call.at = "idle" /\ calls' = calls + 1 /\ UNCHANGED <<data, inode, io_error>>
  BY DEF FreadStart, FwriteStart, FtruncateStart, FopenStart, Fseek, Fclose, Begin
<1>2. /\ FilesOK /\ s \in Nat /\ s <= MaxPos /\ s \in 0 .. MaxPos
      /\ p \in Nat /\ file[h].fsize \in Nat
  BY FirmIs, PosRange
<1>3. calls' \in Nat /\ IsSeq(taken)
  BY <1>1 DEF Firm, Sees
<1>4. Sound' = Sound
  BY DEF Firm
\* Nothing but the position of the handle changes.
<1>5. ASSUME call'.at = "idle" \/ call'.op # "fwrite", taken' = taken,
             Placed' = Placed \/ \E q \in Nat : Placed' = [Placed EXCEPT ![h] = q]
      PROVE  OpenFileStep
  <2>1. Content' = Content /\ Given' = Given
    BY <1>1, <1>5, NothingWritten
  <2>2. CASE Placed' = Placed
    BY <1>4, <1>5, <2>1, <2>2, NoStep
  <2>3. ASSUME NEW q \in Nat, Placed' = [Placed EXCEPT ![h] = q] PROVE OpenFileStep
    BY <1>4, <1>5, <2>1, <2>3, PlaceStep
  <2> QED  BY <1>5, <2>2, <2>3
\* A transfer begins.
<1>6. ASSUME taken' = <<>>, file' = [file EXCEPT ![h].fsize = s], Content' = Content,
             IsSeq(Given'), \A j \in 1 .. Len(Given') : Given'[j] \in Nat
      PROVE  OpenFileStep
  <2>1. Placed' = Placed
    BY <1>2, <1>6, SizeReadPlaces, PlacedKept
  <2> QED  BY <1>4, <1>6, <2>1, CallStep
<1>7. ASSUME NEW n \in Amount, FreadStart(h, n) PROVE Sees' /\ OpenFileStep
  <2> DEFINE m == IF s - p < 0 THEN n ELSE Least(n, s - p)
             c == Locals("fread", h, m, 0, "done")
  <2>1. n \in Nat /\ n > 0 /\ Continue(c) /\ taken' = <<>>
        /\ file' = [file EXCEPT ![h].fsize = s]
    BY <1>7, SizesAssumption DEF FreadStart
  <2>2. m \in Nat /\ (p + m <= s \/ s < p)
    BY <1>2, <2>1 DEF Least
  <2>3. /\ c.h = h /\ c.op = "fread"
        /\ c.at = "done" \/ Transfer(c)
    BY DEF Locals, NextPart, Transfer, Fields
  <2> HIDE DEF m
  <2>4. SeesOK(c, p, s, s, inode.map)
    BY <1>2, <2>2, StartSees
  <2>5. file'[h].fpos = p /\ file'[h].fsize = s
    BY <1>2, <2>1, SizeRead
  <2> HIDE DEF c
  <2>6. call' = NoCall \/ (call' = c /\ c.at # "done")
    BY <2>1 DEF Continue
  <2>7. call'.at = "idle" \/ call'.op # "fwrite"
    BY <2>3, <2>6, NoCallIdle
  <2>8. OpenFileStep
    <3>1. Content' = Content
      BY <1>1, <2>7, NothingWritten
    <3>2. Given' = <<>>
      BY <2>7 DEF Given
    <3> QED  BY <1>6, <2>1, <3>1, <3>2, EmptyIs
  <2>9. CASE call' = NoCall
    <3>1. Sees'
      BY <1>3, <2>1, <2>9, EmptyIs, NoCallIdle, SeesEnds
    <3> QED  BY <2>8, <3>1
  <2>10. CASE call' = c /\ c.at # "done"
    <3>1. SeesOK(call', file'[call'.h].fpos, file'[call'.h].fsize, inode'.size, inode'.map)
      BY <1>1, <2>3, <2>4, <2>5, <2>10
    <3>2. Transfer(call') /\ IsSeq(taken')
      BY <2>1, <2>3, <2>10, EmptyIs
    <3>3. Sees'
      BY <1>3, <2>1, <3>1, <3>2, SeesGoesOn
    <3> QED  BY <2>8, <3>3
  <2> QED  BY <2>6, <2>9, <2>10
<1>8. ASSUME NEW n \in Amount, FwriteStart(h, n) PROVE Sees' /\ OpenFileStep
  <2> DEFINE c == Locals("fwrite", h, n, Blocks(s), "size")
  <2>1. /\ n \in Nat /\ n > 0 /\ call' = c /\ taken' = <<>>
        /\ file' = [file EXCEPT ![h].fsize = s]
    <3>1. call' = c /\ taken' = <<>> /\ file' = [file EXCEPT ![h].fsize = s]
      BY <1>8 DEF FwriteStart
    <3>2. n \in Nat /\ n > 0
      BY SizesAssumption
    <3> QED  BY <3>1, <3>2
  <2>2. ~(p > s)
    <3>1. beyond' = (beyond \/ p > s)
      BY <1>8 DEF FwriteStart
    <3>2. ~beyond'
      BY DEF Sound
    <3> QED  BY <3>1, <3>2, Zenon
  <2>3. /\ c.h = h /\ c.op = "fwrite" /\ c.left = n /\ c.got = 0 /\ Transfer(c)
    BY DEF Locals, NextPart, Transfer, Fields
  <2>4. SeesOK(c, p, s, s, inode.map)
    BY <1>2, <2>1, StartSees
  <2>5. file'[h].fpos = p /\ file'[h].fsize = s
    BY <1>2, <2>1, SizeRead
  <2> HIDE DEF c
  <2>6. Sees'
    <3>1. SeesOK(call', file'[call'.h].fpos, file'[call'.h].fsize, inode'.size, inode'.map)
      BY <1>1, <2>1, <2>3, <2>4, <2>5
    <3>2. Transfer(call') /\ IsSeq(taken')
      BY <2>1, <2>3, EmptyIs
    <3> QED  BY <1>3, <2>1, <3>1, <3>2, SeesGoesOn
  <2>7. call'.at # "idle" /\ call'.op = "fwrite"
    BY <2>1, <2>3 DEF Transfer
  <2>8. Content' = Content
    <3>1. Visible = s
      BY <1>1, VisibleIs
    <3>2. Visible' = s
      BY <1>2, <2>1, <2>2, <2>3, <2>5, <2>7 DEF Visible
    <3> QED  BY <1>1, <3>1, <3>2, ContentKept
  <2>9. Given' = [j \in 1 .. n |-> (calls' + (j - 1)) % 3]
    <3>1. Given' = [j \in 1 .. call'.left |-> (calls' + (call'.got + j - 1)) % 3]
      BY <2>7 DEF Given, Buf
    <3>2. Given' = [j \in 1 .. n |-> (calls' + (0 + j - 1)) % 3]
      BY <2>1, <2>3, <3>1
    <3>3. \A j \in 1 .. n : 0 + j - 1 = j - 1
      BY <2>1
    <3> QED  BY <3>2, <3>3
  <2>10. IsSeq(Given') /\ \A j \in 1 .. Len(Given') : Given'[j] \in Nat
    <3>1. IsSeq(Given') /\ Len(Given') = n
      BY <2>1, <2>9 DEF IsSeq
    <3>2. ASSUME NEW j \in 1 .. n PROVE Given'[j] \in Nat
      <4>1. PICK x \in Nat : x = calls' + (j - 1)
        BY <1>3, <2>1
      <4>2. x % 3 \in Nat
        OBVIOUS
      <4>3. Given'[j] = x % 3
        BY <2>9, <4>1
      <4> QED  BY <4>2, <4>3
    <3> QED  BY <3>1, <3>2
  <2>11. OpenFileStep
    BY <1>6, <2>1, <2>8, <2>10
  <2> QED  BY <2>6, <2>11
<1>9. ASSUME NEW n \in Length, FtruncateStart(h, n) PROVE Sees' /\ OpenFileStep
  <2>1. n \in Nat /\ file' = [file EXCEPT ![h].fsize = s] /\ taken' = taken
    BY <1>9, SizesAssumption DEF FtruncateStart
  <2>2. Placed' = Placed /\ file'[h].fpos = p
    BY <1>2, <2>1, SizeReadPlaces, PlacedKept
  <2>3. CASE s <= n
    <3>1. call' = call
      BY <1>9, <2>3 DEF FtruncateStart
    <3>2. Sees'
      BY <1>1, <1>3, <2>1, <3>1, SeesEnds
    <3> QED  BY <1>1, <1>5, <2>1, <2>2, <3>1, <3>2
  <2>4. CASE ~(s <= n)
    <3> DEFINE r == [file[h] EXCEPT !.fsize = n, !.fpos = Least(@, n)]
    <3>1. call' = Cut("ftruncate", h, n, r)
      BY <1>9, <2>4 DEF FtruncateStart
    <3>2. r.fpos = Least(p, n)
      <4>1. file[h] = [open |-> file[h].open, wronly |-> file[h].wronly,
                       fpos |-> p, fsize |-> file[h].fsize]
        BY <1>2 DEF FilesOK, FileOK
      <4>2. [file[h] EXCEPT !.fsize = n]
              = [open |-> file[h].open, wronly |-> file[h].wronly, fpos |-> p, fsize |-> n]
        BY <4>1
      <4>3. r = [[file[h] EXCEPT !.fsize = n] EXCEPT !.fpos = Least(p, n)]
        BY <4>1, <4>2
      <4> QED  BY <4>2, <4>3
    <3> HIDE DEF r
    <3>3. /\ call'.at = "cut" /\ call'.h = h /\ call'.then = r /\ call'.size = n
          /\ call'.op = "ftruncate"
      BY <3>1 DEF Cut
    <3>4. ~Transfer(call')
      BY <3>3 DEF Transfer
    <3>5. call'.then.fpos \in {call'.size, file'[call'.h].fpos}
      BY <2>2, <3>2, <3>3 DEF Least
    <3>6. Sees'
      BY <1>3, <2>1, <3>4, <3>5 DEF Sees
    <3> QED  BY <1>5, <2>1, <2>2, <3>3, <3>6
  <2> QED  BY <2>3, <2>4
<1>10. ASSUME NEW m \in Mode, FopenStart(h, m) PROVE Sees' /\ OpenFileStep
  <2>1. taken' = taken
    BY <1>10 DEF FopenStart
  <2>2. CASE m.trunc /\ s > 0
    <3> DEFINE r == OpenedFile(m, 0)
    <3>1. call' = Cut("fopen", h, 0, r) /\ file' = file
      BY <1>10, <2>2 DEF FopenStart
    <3>2. r.fpos = 0
      BY DEF OpenedFile
    <3> HIDE DEF r
    <3>3. /\ call'.at = "cut" /\ call'.then = r /\ call'.size = 0 /\ call'.op = "fopen"
      BY <3>1 DEF Cut
    <3>4. ~Transfer(call')
      BY <3>3 DEF Transfer
    <3>5. Sees'
      BY <1>3, <2>1, <3>2, <3>3, <3>4 DEF Sees
    <3>6. Placed' = Placed
      BY <3>1, PlacedKept
    <3> QED  BY <1>5, <2>1, <3>3, <3>5, <3>6
  <2>3. CASE ~(m.trunc /\ s > 0)
    <3>1. call' = call /\ file' = [file EXCEPT ![h] = OpenedFile(m, s)]
      BY <1>10, <2>3 DEF FopenStart
    <3>2. OpenedFile(m, s).fpos \in Nat
      BY <1>2 DEF OpenedFile
    <3>3. Placed' = [Placed EXCEPT ![h] = OpenedFile(m, s).fpos]
      BY <1>2, <3>1, PlacedSet
    <3>4. Sees'
      BY <1>1, <1>3, <2>1, <3>1, SeesEnds
    <3> QED  BY <1>1, <1>5, <2>1, <3>1, <3>2, <3>3, <3>4
  <2> QED  BY <2>2, <2>3
<1>11. ASSUME NEW o \in Offset, Fseek(h, o) PROVE Sees' /\ OpenFileStep
  <2>1. PICK q \in SeekSet(file[h], o) \cup SeekCur(file[h], o) \cup SeekEnd(file[h], o) :
          file' = [file EXCEPT ![h].fpos = q]
    BY <1>11 DEF Fseek
  <2>2. o \in Int
    BY SizesAssumption
  <2>3. q \in Nat
    <3>1. CASE q \in SeekSet(file[h], o)
      BY <1>2, <3>1 DEF SeekSet
    <3>2. CASE q \in SeekCur(file[h], o)
      BY <1>2, <2>2, <3>2 DEF SeekCur
    <3>3. CASE q \in SeekEnd(file[h], o)
      BY <1>2, <3>3 DEF SeekEnd
    <3> QED  BY <2>1, <3>1, <3>2, <3>3
  <2>4. call' = call /\ taken' = taken
    BY <1>11 DEF Fseek
  <2>5. Placed' = [Placed EXCEPT ![h] = q]
    BY <1>2, <2>1, PlacedMoved
  <2>6. Sees'
    BY <1>1, <1>3, <2>4, SeesEnds
  <2> QED  BY <1>1, <1>5, <2>3, <2>4, <2>5, <2>6
<1>12. CASE Fclose(h)
  <2>1. call' = call /\ taken' = taken /\ file' = [file EXCEPT ![h] = ClosedFile]
    BY <1>12 DEF Fclose
  <2>2. ClosedFile.fpos = 0
    BY DEF ClosedFile
  <2>3. Placed' = [Placed EXCEPT ![h] = 0]
    BY <1>2, <2>1, <2>2, PlacedSet
  <2>4. Sees'
    BY <1>1, <1>3, <2>1, SeesEnds
  <2> QED  BY <1>1, <1>5, <2>1, <2>3, <2>4
<1> QED  BY <1>7, <1>8, <1>9, <1>10, <1>11, <1>12

\* A truncation leaves the bytes before the new end where they are.
LEMMA CutByte ==
    ASSUME Firm, NEW n \in Nat, n <= inode.size, Released(CutBlocks(n), {}, n),
           NEW q \in Nat, q < n, q < Visible
    PROVE  ByteAt(q)' = ByteAt(q)
<1> DEFINE I == CutBlocks(n)
<1>1. PICK u \in Nat, c \in Nat : /\ q \div BS = u /\ q % BS = c
                                   /\ q = At(u) + c /\ c < BS /\ At(u) \in Nat
  BY DivAt
<1>2. u \in FileBlock /\ inode.map[u] # 0
  BY <1>1, SeenBlocks
<1>3. u < Blocks(n)
  <2>1. Blocks(n) \in Nat /\ n <= At(Blocks(n)) /\ At(Blocks(n)) \in Nat
    BY BlocksIs, AtIs
  <2>2. At(u) < At(Blocks(n))
    BY <1>1, <2>1
  <2> QED  BY <2>1, <2>2, AtMono
<1>4. u \notin I
  BY <1>1, <1>3, BlocksIs DEF CutBlocks
<1>5. /\ inode.map[u] \in 0 .. NP
      /\ \A i \in FileBlock : inode.map[u] = inode.map[i] => u = i
  BY <1>2, FirmIs DEF Places
<1>6. inode.map[u] \notin Mapped(I)
  <2>1. I \subseteq FileBlock
    BY CutBlocksOfFile
  <2> QED  BY <1>4, <1>5, <2>1 DEF Mapped
<1>7. inode'.map[u] = inode.map[u]
  <2>1. inode' = [inode EXCEPT !.size = n,
                     !.map = [i \in FileBlock |-> IF i \in I THEN 0 ELSE inode.map[i]]]
    BY DEF Released
  <2>2. inode'.map = [i \in FileBlock |-> IF i \in I THEN 0 ELSE inode.map[i]]
    BY <2>1 DEF Firm, MapInv
  <2> QED  BY <1>2, <1>4, <2>2
<1>8. data'[inode.map[u]] = data[inode.map[u]]
  BY <1>5, <1>6 DEF Released, Wiped
<1>9. ByteAt(q) = data[inode.map[u]][c] /\ ByteAt(q)' = data'[inode'.map[u]][c]
  BY <1>1 DEF ByteAt
<1> QED  BY <1>7, <1>8, <1>9

LEMMA CutContent ==
    ASSUME Firm, call.at = "cut", call'.at = "idle" \/ call'.op # "fwrite",
           NEW n \in Nat, n <= inode.size, Released(CutBlocks(n), {}, n)
    PROVE  Content' = SubSeq(Content, 1, n) /\ n <= Len(Content) /\ Given' = Given
<1> DEFINE s == inode.size
           u == SubSeq(Content, 1, n)
<1>1. call.op # "fwrite"
  BY DEF Firm, DepthInv, Transfer
<1>2. Visible = s /\ Given = <<>> /\ s \in Nat
  BY <1>1, VisibleIs, FirmIs
<1>3. Visible' = n /\ Given' = <<>>
  <2>1. inode'.size = n
    BY ReleasedClear DEF Firm
  <2> QED  BY <2>1 DEF Visible, Given
<1>4. IsSeq(Content) /\ Len(Content) = s /\ \A j \in 1 .. s : Content[j] = ByteAt(j - 1)
  BY <1>2, ContentIs
<1>5. IsSeq(Content') /\ Len(Content') = n /\ \A j \in 1 .. n : Content'[j] = ByteAt(j - 1)'
  BY <1>3, ContentAfter
<1>6. IsSeq(u)
  BY <1>2, <1>4, SubSeqIs
<1>7. Len(u) = n
  <2>1. Len(u) = IF 1 <= n THEN n - 1 + 1 ELSE 0
    BY <1>2, <1>4, SubSeqIs
  <2> QED  BY <2>1
<1>8. \A j \in 1 .. n : u[j] = Content[j]
  <2>1. \A j \in Nat : j >= 1 /\ j + 1 - 1 <= n => u[j] = Content[j + 1 - 1]
    BY <1>2, <1>4, SubSeqIs
  <2>2. ASSUME NEW j \in 1 .. n PROVE u[j] = Content[j]
    <3>1. j \in Nat /\ j >= 1 /\ j + 1 - 1 <= n /\ j + 1 - 1 = j
      OBVIOUS
    <3> QED  BY <2>1, <3>1
  <2> QED  BY <2>2
<1>9. ASSUME NEW j \in 1 .. n PROVE Content'[j] = u[j]
  <2>1. PICK q \in Nat : q = j - 1 /\ q < n /\ j \in 1 .. s
    BY <1>2
  <2>2. ByteAt(q)' = ByteAt(q)
    BY <1>2, <2>1, CutByte
  <2>3. Content[j] = ByteAt(q) /\ u[j] = Content[j]
    BY <1>4, <1>8, <2>1
  <2>4. Content'[j] = ByteAt(j - 1)'
    BY <1>5
  <2>5. ByteAt(j - 1)' = ByteAt(q)'
    BY <2>1 DEF ByteAt
  <2> QED  BY <2>2, <2>3, <2>4, <2>5
<1> HIDE DEF u
<1>10. Content' = u
  BY <1>5, <1>6, <1>7, <1>9, SeqEq
<1> QED  BY <1>2, <1>3, <1>4, <1>10 DEF u

\* A piece is cut off and the truncation ends or goes on.
LEMMA CutSees ==
    ASSUME Firm, CutPiece \/ CutAtOnce
    PROVE  Sees' /\ OpenFileStep
<1> DEFINE n == IF CutPiece THEN NextSize(call) ELSE call.size
           s == inode.size
<1>1. /\ call.at = "cut" /\ taken' = taken /\ calls' = calls
      /\ io_error' = io_error /\ beyond' = beyond
  BY DEF CutPiece, CutAtOnce
<1>2. /\ FilesOK /\ s \in Nat /\ CutOK(call, s) /\ call.size \in Nat
      /\ call.h \in Handle /\ call.left = s /\ call.size < s
  BY <1>1, FirmIs, PosRange DEF Positions, CutOK
<1>3. n \in Nat /\ call.size <= n /\ n < s
  BY <1>2, NextSizeIs
<1>4. /\ Released(CutBlocks(n), {}, n)
      /\ \/ n = call.size /\ CutEnds(call)
         \/ call' = [call EXCEPT !.left = n] /\ file' = file
  <2>1. CASE CutPiece
    BY <2>1 DEF CutPiece
  <2>2. CASE CutAtOnce /\ ~CutPiece
    BY <2>2 DEF CutAtOnce
  <2> QED  BY <2>1, <2>2
<1> HIDE DEF n
<1>5. /\ Sound' = Sound /\ calls' \in Nat /\ IsSeq(taken') /\ call.op # "fwrite"
      /\ call.then.fpos \in {call.size, file[call.h].fpos}
  <2>1. call.op # "fwrite"
    BY <1>1 DEF Firm, DepthInv, Transfer
  <2> QED  BY <1>1, <2>1 DEF Firm, Sees, Sound
<1>6. ASSUME call'.at = "idle" \/ call'.op # "fwrite",
             Placed' = Placed \/ Placed' = [Placed EXCEPT ![call.h] = n]
      PROVE  OpenFileStep
  <2>1. Content' = SubSeq(Content, 1, n) /\ n <= Len(Content) /\ Given' = Given
    BY <1>1, <1>2, <1>3, <1>4, <1>6, CutContent
  <2> QED  BY <1>1, <1>2, <1>3, <1>5, <1>6, <2>1, TruncateStep
<1>7. CASE n = call.size /\ CutEnds(call)
  <2>1. call' = NoCall /\ file' = [file EXCEPT ![call.h] = call.then]
    BY <1>7 DEF CutEnds
  <2>2. call'.at = "idle"
    BY <2>1, NoCallIdle
  <2>3. Sees'
    BY <1>5, <2>2, SeesEnds
  <2>4. Placed' = [Placed EXCEPT ![call.h] = call.then.fpos]
    BY <1>2, <2>1, PlacedSet
  <2>5. call.then.fpos = n \/ Placed' = Placed
    <3>1. ASSUME call.then.fpos = file[call.h].fpos PROVE Placed' = Placed
      <4>1. Placed' = [Placed EXCEPT ![call.h] = Placed[call.h]]
        BY <1>2, <2>4, <3>1 DEF Placed
      <4> QED  BY <4>1 DEF Placed
    <3> QED  BY <1>5, <1>7, <3>1
  <2>6. OpenFileStep
    BY <1>6, <2>2, <2>4, <2>5
  <2> QED  BY <2>3, <2>6
<1>8. CASE call' = [call EXCEPT !.left = n] /\ file' = file
  <2>1. /\ call'.at = "cut" /\ call'.h = call.h /\ call'.then = call.then
        /\ call'.size = call.size /\ call'.op = call.op
    <3>1. call = [op |-> call.op, h |-> call.h, at |-> call.at, size |-> call.size,
                  left |-> call.left, then |-> call.then]
      BY <1>2 DEF CutOK
    <3>2. call' = [op |-> call.op, h |-> call.h, at |-> call.at, size |-> call.size,
                   left |-> n, then |-> call.then]
      BY <1>8, <3>1
    <3> QED  BY <1>1, <3>2
  <2>2. ~Transfer(call')
    BY <2>1 DEF Transfer
  <2>3. Sees'
    BY <1>5, <1>8, <2>1, <2>2 DEF Sees
  <2>4. Placed' = Placed
    BY <1>8, PlacedKept
  <2>5. OpenFileStep
    BY <1>5, <1>6, <2>1, <2>4
  <2> QED  BY <2>3, <2>5
<1> QED  BY <1>4, <1>7, <1>8

-----------------------------------------------------------------------------
(* The refinement.                                                         *)

LEMMA StepSees ==
    ASSUME Firm, After, Step
    PROVE  BytesInv' /\ OpenFileStep
<1>1. CASE FreadHead \/ FreadMap \/ FreadBlocks \/ FreadTail \/ FreadFails
  BY <1>1, ReadSees DEF BytesInv
<1>2. CASE FwriteHead
  BY <1>2, HeadWritten
<1>3. CASE FwriteMap
  BY <1>3, MapWritten
<1>4. CASE FwriteBlocks
  BY <1>4, BlocksWritten
<1>5. CASE FwriteTail
  BY <1>5, TailWritten
<1>6. CASE FwriteSize
  BY <1>6, SizeWritten
<1>7. CASE FwriteBlocksFail \/ FwriteBytesFail \/ CutPieceLoses \/ CutPieceFails
  <2>1. io_error' = TRUE
    BY <1>7 DEF FwriteBlocksFail, FwriteBytesFail, CutPieceLoses, CutPieceFails
  <2> QED  BY <2>1, WriteBreaks
<1>8. CASE CutPiece \/ CutAtOnce
  BY <1>8, CutSees DEF BytesInv
<1> QED  BY <1>1, <1>2, <1>3, <1>4, <1>5, <1>6, <1>7, <1>8 DEF Step

LEMMA InitSees == Init => BytesInv /\ Abstract!Init
<1> SUFFICES ASSUME Init PROVE BytesInv /\ Abstract!Init
  OBVIOUS
<1>1. /\ call = NoCall /\ calls = 0 /\ taken = <<>>
      /\ io_error = FALSE /\ beyond = FALSE
      /\ file \in [Handle -> {ClosedFile} \cup {OpenedFile(m, inode.size) : m \in Mode}]
  BY DEF Init
<1>2. call.at = "idle" /\ ~Transfer(call)
  BY <1>1, NoCallIdle
<1>3. Sees
  BY <1>1, <1>2, EmptyIs DEF Sees
<1>4. inode.size \in Nat
  <2>1. SizesInv
    BY InitSizes
  <2> QED  BY <1>1, <2>1, PosRange DEF SizesInv, Positions
<1>5. Visible = inode.size /\ Given = <<>>
  BY <1>2, VisibleIs
<1>6. Len(Content) = inode.size
  BY <1>4, <1>5, ContentIs
<1>7. Placed \in [Handle -> 0 .. Len(Content)]
  <2>1. \A h \in Handle : file[h].fpos \in 0 .. inode.size
    BY <1>1, <1>4 DEF ClosedFile, OpenedFile
  <2> QED  BY <1>6, <2>1 DEF Placed
<1>8. Abstract!Init
  BY <1>1, <1>5, <1>7 DEF Abstract!Init, Content, Given, Placed
<1> QED  BY <1>3, <1>8 DEF BytesInv

LEMMA SoundBefore ==
    ASSUME MapInv, DepthInv, beyond \in BOOLEAN, Next, Sound'
    PROVE  Sound
<1>1. io_error = TRUE => io_error' = TRUE
  BY DEF Next, Step, FreadStart, FreadHead, FreadMap, FreadBlocks, FreadTail, FreadFails,
     FwriteStart, FwriteHead, FwriteMap, FwriteBlocks, FwriteBlocksFail, FwriteTail,
     FwriteBytesFail, FwriteSize, CutPiece, CutAtOnce, CutPieceLoses, CutPieceFails,
     FtruncateStart, FopenStart, Fseek, Fclose, Requested
<1>2. beyond = TRUE => beyond' = TRUE
  BY BeyondKept
<1> QED  BY <1>1, <1>2 DEF Sound, DepthInv

LEMMA NextSees ==
    ASSUME SizesInv, BytesInv, [Next]_vars
    PROVE  BytesInv' /\ OpenFileStep
<1>1. MapInv /\ DepthInv /\ beyond \in BOOLEAN /\ (~beyond => Sizes)
  BY DEF SizesInv, Sizes
<1>2. SizesInv'
  BY NextSizes
<1>3. MapInv' /\ DepthInv' /\ (~beyond' => Sizes')
  BY <1>2 DEF SizesInv, Sizes
<1>4. CASE ~Sound'
  BY <1>4, UnsoundStep DEF BytesInv
<1>5. CASE UNCHANGED vars
  <2>1. UNCHANGED <<data, inode, file, call, taken, calls, io_error, beyond>>
    BY <1>5 DEF vars
  <2>2. BytesInv'
    BY <2>1 DEF BytesInv, Sees, SeesOK, Lined, Run, Sound, Transfer, IsSeq, At
  <2>3. /\ Content' = Content /\ Given' = Given /\ Placed' = Placed
        /\ taken' = taken /\ Sound' = Sound
    BY <2>1 DEF Content, Visible, ByteAt, Given, Buf, Placed, Sound
  <2> QED  BY <2>2, <2>3, NoStep
<1>6. CASE Next /\ Sound'
  <2>1. Sound
    BY <1>1, <1>6, SoundBefore
  <2>2. Firm /\ After
    BY <1>1, <1>3, <1>6, <2>1 DEF Firm, After, BytesInv, Sound
  <2>3. CASE Step
    BY <2>2, <2>3, StepSees
  <2>4. ASSUME NEW h \in Handle,
               \/ \E n \in Amount : FreadStart(h, n) \/ FwriteStart(h, n)
               \/ \E n \in Length : FtruncateStart(h, n)
               \/ \E m \in Mode : FopenStart(h, m)
               \/ \E o \in Offset : Fseek(h, o)
               \/ Fclose(h)
        PROVE  BytesInv' /\ OpenFileStep
    BY <1>6, <2>2, <2>4, BeginSees DEF BytesInv
  <2> QED  BY <1>6, <2>3, <2>4 DEF Next
<1> QED  BY <1>4, <1>5, <1>6

\* What ext4_fread, ext4_fwrite, ext4_ftruncate and ext4_fopen2 do with blocks,
\* gathered transfers and partial parts is what OpenFile does with a sequence of
\* bytes: a read delivers the bytes at the position of its handle, a write
\* changes those at its position and no others, a truncation keeps the bytes
\* before the new end, and nothing of a freed block is ever seen, as long as no
\* change of the file has failed and no write has begun past the end.
THEOREM ImplementsFile == Spec => ImplementsOpenFile
<1>1. Init => SizesInv /\ BytesInv
  BY InitSizes, InitSees
<1>2. SizesInv /\ BytesInv /\ [Next]_vars => SizesInv' /\ BytesInv'
  BY NextSizes, NextSees
<1>3. Init => Abstract!Init
  BY InitSees
<1>4. SizesInv /\ BytesInv /\ [Next]_vars => [Sound => Abstract!Next]_(Abstract!vars)
  BY NextSees DEF OpenFileStep
<1>5. Spec => Abstract!Init /\ [][Sound => Abstract!Next]_(Abstract!vars)
  BY <1>1, <1>2, <1>3, <1>4, PTL DEF Spec
<1> QED  BY <1>5 DEF ImplementsOpenFile, Abstract!Spec, Sound
=============================================================================
