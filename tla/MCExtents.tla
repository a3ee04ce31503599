----------------------------- MODULE MCExtents -----------------------------
(***************************************************************************)
(* Extents on a small instance: nodes of two entries under a root of one,  *)
(* so that five extents make a tree of depth three.  The volume is either  *)
(* all the file's, where neighbours merge, or every second block is        *)
(* another file's, where none do.                                          *)
(***************************************************************************)
EXTENDS Extents

Elsewhere == {Extent(1, 1, 4, FALSE), Extent(1, 3, 2, TRUE), Extent(3, 2, 6, FALSE)}
Foreigners == {{}, {b \in Block : b % 2 = 1}}
=============================================================================
