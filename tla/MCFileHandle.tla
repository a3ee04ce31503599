---------------------------- MODULE MCFileHandle ----------------------------
(* The instance of FileHandle that TLC checks.                              *)
EXTENDS FileHandle, TLC

\* "r+", "w" and "a+" of ext4_parse_flags.
MCMode == {[wronly |-> FALSE, trunc |-> FALSE, append |-> FALSE],
           [wronly |-> TRUE, trunc |-> TRUE, append |-> FALSE],
           [wronly |-> FALSE, trunc |-> FALSE, append |-> TRUE]}

MCOffset == {-2, 0, 1}

MCSymmetry == Permutations(Handle)
=============================================================================
