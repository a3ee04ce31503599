---------------------------- MODULE AtomicStore ----------------------------
(***************************************************************************)
(* What a journal promises the file system: the changes that one call      *)
(* makes to the blocks of the volume survive a loss of power all together  *)
(* or not at all, and those of a call that has returned survive.           *)
(***************************************************************************)
CONSTANTS
    Block,
    Content

VARIABLES
    durable,    \* what the blocks hold after a loss of power and a recovery
    view,       \* what a reader finds
    open        \* a call is changing blocks

vars == <<durable, view, open>>

Init ==
    /\ durable \in [Block -> Content]
    /\ view = durable
    /\ open = FALSE

Begin == ~open /\ open' = TRUE /\ UNCHANGED <<durable, view>>

Change ==
    /\ open
    /\ view' \in [Block -> Content]
    /\ UNCHANGED <<durable, open>>

Commit == open /\ durable' = view /\ open' = FALSE /\ UNCHANGED view

\* The call gives up, or the power goes.
Abort == view' = durable /\ open' = FALSE /\ UNCHANGED durable

Next == Begin \/ Change \/ Commit \/ Abort

Spec == Init /\ [][Next]_vars
=============================================================================
