------------------------------ MODULE OpenFile ------------------------------
(***************************************************************************)
(* What a program that opens one file through several handles counts on,   *)
(* whatever blocks the file is made of: a sequence of bytes, a position    *)
(* per handle, and calls that move bytes at the position of their handle.  *)
(* A call may do its work in several steps.  After a failure that the file *)
(* system does not undo nothing is promised any more (sound).              *)
(***************************************************************************)
EXTENDS Naturals, Sequences

CONSTANT Handle

VARIABLES
    content,    \* the bytes of the file
    fpos,       \* the position of each handle
    given,      \* what the write under way has left to write
    taken,      \* what the read under way has delivered
    sound       \* the promises hold

vars == <<content, fpos, given, taken, sound>>

Overwrite(c, p, bytes) ==
    SubSeq(c, 1, p) \o bytes \o SubSeq(c, p + Len(bytes) + 1, Len(c))

Init ==
    /\ sound = TRUE /\ given = <<>> /\ taken = <<>>
    /\ fpos \in [Handle -> 0 .. Len(content)]

\* A read or a write begins, or ends with what it could do.
Call ==
    /\ taken' = <<>> /\ given' \in Seq(Nat)
    /\ UNCHANGED <<content, fpos, sound>>

\* Past the end of the file (another handle made it shorter) a read may
\* deliver anything.
Read(h, n) ==
    /\ fpos' = [fpos EXCEPT ![h] = @ + n]
    /\ IF fpos[h] > Len(content)
         THEN Len(taken') = Len(taken) + n
         ELSE /\ fpos[h] + n <= Len(content)
              /\ taken' = taken \o SubSeq(content, fpos[h] + 1, fpos[h] + n)
    /\ UNCHANGED <<content, given, sound>>

Write(h, n) ==
    /\ n <= Len(given) /\ fpos[h] <= Len(content)
    /\ content' = Overwrite(content, fpos[h], SubSeq(given, 1, n))
    /\ given' = SubSeq(given, n + 1, Len(given))
    /\ fpos' = [fpos EXCEPT ![h] = @ + n]
    /\ UNCHANGED <<taken, sound>>

\* Only the handle that is used to cut the file follows its end.
Truncate(h, n) ==
    /\ n <= Len(content)
    /\ content' = SubSeq(content, 1, n)
    /\ fpos' \in {fpos, [fpos EXCEPT ![h] = n]}
    /\ UNCHANGED <<given, taken, sound>>

\* Opening, seeking and closing place a handle and touch nothing else.
Place(h) ==
    /\ fpos'[h] \in Nat /\ fpos' = [fpos EXCEPT ![h] = fpos'[h]]
    /\ UNCHANGED <<content, given, taken, sound>>

Next ==
    \/ Call
    \/ \E h \in Handle :
          \/ \E n \in 1 .. Len(taken') : Read(h, n)
          \/ \E n \in 1 .. Len(given) : Write(h, n)
          \/ \E n \in 0 .. Len(content) : Truncate(h, n)
          \/ Place(h)
    \/ ~sound'

Spec == Init /\ [][sound => Next]_vars
=============================================================================
