---- MODULE MCInodeAlloc ----
(* Volumes of one to three groups of two inodes, one of them reserved. *)
EXTENDS InodeAlloc
====
