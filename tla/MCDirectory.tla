---------------------------- MODULE MCDirectory ----------------------------
(***************************************************************************)
(* Directory on a small instance: blocks of eight units, names of one to   *)
(* three, three of them with one hash, two entries in the root of the      *)
(* index and three in a node.  Besides new directories the volume has some *)
(* with a long history.  Names of one length and one hash are alike.       *)
(***************************************************************************)
EXTENDS Directory, TLC

CONSTANTS a1, b1, b2, b3, c1, c2, c3

Needs == [n \in Name \cup Dot |-> CASE n \in {c1, c2, c3} -> 3 [] n \in {b1, b2, b3} -> 2 [] OTHER -> 1]
Hashes == [n \in Name |-> CASE n = a1 -> 0 [] n \in {b1, b2, b3} -> 2 [] OTHER -> 4]

Block(lens, names) ==
    LET off[k \in 1 .. Len(lens)] == IF k = 1 THEN 0 ELSE off[k - 1] + lens[k - 1]
        put[k \in 0 .. Len(lens)] ==
            IF k = 0 THEN [x \in Unit |-> Body]
            ELSE [put[k - 1] EXCEPT ![off[k]] = Record(names[k], IF names[k] = "" THEN None ELSE 1, lens[k])]
    IN  put[Len(lens)]
Indexed(bl, lv, nd) == [blocks |-> <<Block0>> \o bl, indexed |-> TRUE, levels |-> lv, nodes |-> nd]
OneLeaf(b) == Indexed(<<b>>, 0, <<IndexNode(0, 0, <<Entry(0, 1)>>)>>)

\* Room in pieces, none of them large; a full leaf; two large names in one.
Scattered == OneLeaf(Block(<<2, 3, 3>>, <<"", a1, b1>>))
Packed == OneLeaf(Block(<<1, 2, 2, 3>>, <<a1, b1, b2, b3>>))
Large == OneLeaf(Block(<<2, 3, 3>>, <<b1, c1, c2>>))
\* One full node below the root, and a full root with a full node.
FullNode ==
    Indexed(<<Block(<<1, 7>>, <<a1, b1>>), EmptyBlock, Block(<<2, 6>>, <<b2, b3>>), Block(<<8>>, <<c1>>)>>,
            1, <<IndexNode(0, 2, <<Entry(0, 1), Entry(3, 3), Entry(4, 4)>>)>>)
FullRoot ==
    Indexed(<<Block(<<8>>, <<a1>>), EmptyBlock, Block(<<2, 6>>, <<b1, b2>>), Block(<<8>>, <<b3>>),
              EmptyBlock, Block(<<8>>, <<c1>>)>>,
            1, <<IndexNode(0, 2, <<Entry(0, 1), Entry(2, 3), Entry(3, 4)>>), IndexNode(4, 5, <<Entry(4, 6)>>)>>)
Same == Permutations({b1, b2, b3}) \cup Permutations({c1, c2, c3})

History == {Scattered, Packed, Large, FullNode, FullRoot}
=============================================================================
