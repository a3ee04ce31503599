--------------------------- MODULE MCVolumeBlocks ---------------------------
(***************************************************************************)
(* VolumeBlocks on a small instance; the states are told apart as in       *)
(* MCBlockCache, by the order of the buffers' lru_id.                      *)
(***************************************************************************)
EXTENDS VolumeBlocks, TLC

LruRank(b) == Cardinality({o \in bc.lba_root : bc.buf[o].lru_id < bc.buf[b].lru_id})

LruView ==
    <<disk, cache_write_back, mounted, io_error, owner, bc.lba_root, bc.dirty_list,
      [b \in Block |-> <<bc.buf[b].refctr, bc.buf[b].flags, bc.buf[b].data,
                         IF b \in bc.lba_root THEN LruRank(b) ELSE 0>>]>>

ValueSymmetry == Permutations(Value)
=============================================================================
