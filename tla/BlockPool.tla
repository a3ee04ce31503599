----------------------------- MODULE BlockPool -----------------------------
(***************************************************************************)
(* What the block allocator of ext4_balloc.c promises to the code that     *)
(* maps file blocks: a pool of free blocks and, for every inode, the       *)
(* blocks its block map refers to.  A block is taken from the pool by one  *)
(* inode; a release gives some of the blocks back and may lose the others  *)
(* (an I/O error on a bitmap leaks them), but a lost block is never        *)
(* handed out again.                                                       *)
(***************************************************************************)
CONSTANTS Block, Ino

VARIABLES free, held

vars == <<free, held>>

Init == /\ free \in SUBSET Block
        /\ held = [n \in Ino |-> {}]

\* One free block becomes a block of the inode.
Take(n, b) ==
    /\ b \in free
    /\ free' = free \ {b}
    /\ held' = [held EXCEPT ![n] = @ \cup {b}]

\* The inode gives up the blocks S; those in R reach the pool.
Release(n, S, R) ==
    /\ S \subseteq held[n]
    /\ R \subseteq S
    /\ free' = free \cup R
    /\ held' = [held EXCEPT ![n] = @ \ S]

Next == \E n \in Ino :
            \/ \E b \in Block : Take(n, b)
            \/ \E S \in SUBSET held[n] : \E R \in SUBSET S : Release(n, S, R)

Spec == Init /\ [][Next]_vars
============================================================================
