---- MODULE MCBlockAlloc ----
(* Two groups of six blocks, the second one short; one-kilobyte blocks. *)
EXTENDS BlockAlloc

CONSTANTS n1, n2
====
