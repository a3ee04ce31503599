----------------------------- MODULE MCJournal -----------------------------
(***************************************************************************)
(* The journal with a bitmap and one block besides: a transaction takes    *)
(* three to five of the log's twelve blocks, so that the fourth one wraps. *)
(***************************************************************************)
EXTENDS Journal
=============================================================================
