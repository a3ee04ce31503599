---------------------------- MODULE MCBlockCache ----------------------------
(***************************************************************************)
(* BlockCache on a small instance.  lru_id matters only by its order, so   *)
(* the states are told apart by the rank of each buffer's lru_id: the      *)
(* counter is then finite without a bound on the number of calls.          *)
(***************************************************************************)
EXTENDS BlockCache, TLC

LruRank(b) == Cardinality({o \in bc.lba_root : bc.buf[o].lru_id < bc.buf[b].lru_id})

LruView ==
    <<disk, cache_write_back, mounted, io_error, bc.lba_root, bc.dirty_list,
      [b \in Block |-> <<bc.buf[b].refctr, bc.buf[b].flags, bc.buf[b].data,
                         IF b \in bc.lba_root THEN LruRank(b) ELSE 0>>]>>

ValueSymmetry == Permutations(Value)
=============================================================================
