----------------------------- MODULE MCVolumes -----------------------------
(***************************************************************************)
(* Volumes on a drive of a few partition entries.                          *)
(***************************************************************************)
EXTENDS Volumes

FirstThree == [k \in Partition |-> IF k < 3 THEN "ext4" ELSE "empty"]
=============================================================================
