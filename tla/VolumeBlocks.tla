---------------------------- MODULE VolumeBlocks ----------------------------
(***************************************************************************)
(* The blocks of a mounted volume as the file system uses them.  Metadata  *)
(* (bitmaps, inodes, directories, extent nodes) goes through BlockCache;   *)
(* file contents go straight to the device, past the cache                 *)
(* (ext4_fread and ext4_fwrite call ext4_blocks_get_direct and             *)
(* ext4_blocks_set_direct).  The two meet when a block is freed and taken  *)
(* again for the other use: ext4_balloc.c invalidates the buffers of what  *)
(* it frees, and nothing looks at the cache when the block is taken.       *)
(*                                                                         *)
(* One session, journal off: JournalBlock is empty.                        *)
(***************************************************************************)
EXTENDS BlockCache

VARIABLE owner  \* what the block bitmap and the inodes say of each block

volumeVars == <<bc, disk, cache_write_back, mounted, io_error, owner>>

VolumeInit ==
    /\ Init
    /\ owner = [b \in Block |-> "free"]

\* ext4_balloc_alloc_block for a directory, an extent node or a file's data:
\* the cache is not asked about the block.
AllocBlock(b, kind) ==
    /\ mounted /\ owner[b] = "free"
    /\ owner' = [owner EXCEPT ![b] = kind]
    /\ UNCHANGED vars

\* ext4_balloc_free_block (n = 1) and ext4_balloc_free_blocks: blocks of one
\* inode that follow each other leave the bitmap, then the cache.
FreeBlocks(from, n) ==
    LET S == from .. (from + n - 1) IN
    /\ S \subseteq Block
    /\ \E kind \in {"meta", "data"} : \A b \in S : owner[b] = kind
    /\ Invalidate(from, n)
    /\ owner' = [b \in Block |-> IF b \in S THEN "free" ELSE owner[b]]

\* ext4_blocks_set_direct on a block of a file.
WriteData(b, v) ==
    /\ mounted /\ owner[b] = "data"
    /\ disk' = [disk EXCEPT ![b] = v]
    /\ UNCHANGED <<bc, cache_write_back, mounted, io_error, owner>>

\* The calls of the metadata code on a block it owns.
MetaOp(b) ==
    /\ owner[b] = "meta"
    /\ \/ GetNoMemory(b) \/ GetNoread(b) \/ Get(b) \/ GetReadFails(b)
       \/ \E v \in Value : SetBlockDirty(b, v)

\* A block may still be held when it is freed.
Release(b) == \E ok \in BOOLEAN : Put(b, ok)

VolumeNext ==
    \/ /\ Mount \/ GetShakeFails \/ WriteBackOn
          \/ \E S \in SUBSET Block : CacheFlush(S) \/ WriteBackOff(S)
          \/ \E b \in Block : MetaOp(b) \/ Release(b)
       /\ UNCHANGED owner
    \/ \E b \in Block : \/ \E kind \in {"meta", "data"} : AllocBlock(b, kind)
                        \/ \E n \in 1 .. MaxRange : FreeBlocks(b, n)
                        \/ \E v \in Value : WriteData(b, v)

VolumeSpec == VolumeInit /\ [][VolumeNext]_volumeVars

-----------------------------------------------------------------------------
(* Properties.                                                             *)

\* What a reader gets: file data from the device, metadata from the cache when
\* it has the block.
Read(b) ==
    CASE owner[b] = "free" -> Garbage
      [] owner[b] = "data" -> disk[b]
      [] owner[b] = "meta" -> IF Uptodate(bc, b) THEN bc.buf[b].data ELSE disk[b]

Store == INSTANCE BlockStore WITH
            Nothing <- Garbage, store <- [b \in Block |-> Read(b)], device <- disk

\* The cache and the direct transfers together implement BlockStore: a block
\* with an owner keeps its content through eviction, failed writes, releases
\* and the reuse of its neighbours, and only its own content reaches it on the
\* device.
ImplementsStore == Store!Spec

\* A block of file data has no dirty buffer: one left from the block's former
\* use would be written over the file's contents when it is evicted or flushed.
NoStaleDirtyOverData ==
    \A b \in Block : owner[b] = "data" => ~Flushable(bc, b)
=============================================================================
