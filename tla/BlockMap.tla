------------------------------ MODULE BlockMap ------------------------------
(***************************************************************************)
(* What a file expects of the structure that finds its blocks: a partial   *)
(* function from the blocks of the file to blocks of the volume.  A block  *)
(* of the file that has one is written or only reserved; a call changes    *)
(* what it was asked for and nothing else.                                 *)
(***************************************************************************)
EXTENDS Integers

CONSTANTS
    FileBlock,  \* blocks of the file
    Block,      \* blocks of the volume
    NoBlock     \* a hole

VARIABLES
    block,      \* where each block of the file is
    written     \* the blocks of the file whose contents have been set

Init ==
    /\ block \in [FileBlock -> Block \cup {NoBlock}]
    /\ written \subseteq {l \in FileBlock : block[l] # NoBlock}

\* A hole gets a block that no other block of the file has.
Fill(l, b) ==
    /\ block[l] = NoBlock /\ \A k \in FileBlock : block[k] # b
    /\ block' = [block EXCEPT ![l] = b]
    /\ written' = written \cup {l}

\* The first write to a reserved block.
Initialize(l) ==
    /\ block[l] # NoBlock /\ l \notin written
    /\ written' = written \cup {l}
    /\ UNCHANGED block

\* The end of the file is cut off, wholly or as far as an error let it.
Cut(from) ==
    /\ \A l \in FileBlock : block'[l] = block[l] \/ (l >= from /\ block'[l] = NoBlock)
    /\ written' = {l \in written : block'[l] # NoBlock}

Next ==
    \/ \E l \in FileBlock, b \in Block : Fill(l, b)
    \/ \E l \in FileBlock : Initialize(l)
    \/ \E from \in FileBlock : Cut(from)

Spec == Init /\ [][Next]_<<block, written>>
=============================================================================
