----------------------------- MODULE BlockStore -----------------------------
(***************************************************************************)
(* What the file system counts on from its blocks, whatever stands between *)
(* it and the device: a block that has an owner reads as it was last       *)
(* written, a block of file data is on the device as soon as it is         *)
(* written, and a block of metadata gets there later, never with anything  *)
(* but its own content.  A block without an owner reads as nothing.        *)
(***************************************************************************)
CONSTANTS Block, Value, Nothing

VARIABLES
    owner,   \* who uses the block: the free space, metadata, or file data
    store,   \* what a reader gets
    device   \* what would survive a loss of power

Owner == {"free", "meta", "data"}

Init ==
    /\ owner = [b \in Block |-> "free"]
    /\ store = [b \in Block |-> Nothing]
    /\ device \in [Block -> Value]

\* A block is taken from the free space; it reads as what was left in it.
Take(b, kind) ==
    /\ owner[b] = "free" /\ kind # "free"
    /\ owner' = [owner EXCEPT ![b] = kind]
    /\ \E v \in Value : store' = [store EXCEPT ![b] = v]
    /\ UNCHANGED device

WriteMeta(b, v) ==
    /\ owner[b] = "meta"
    /\ store' = [store EXCEPT ![b] = v]
    /\ UNCHANGED <<owner, device>>

WriteData(b, v) ==
    /\ owner[b] = "data"
    /\ store' = [store EXCEPT ![b] = v]
    /\ device' = [device EXCEPT ![b] = v]
    /\ UNCHANGED owner

\* Any blocks of metadata reach the device.
Persist(S) ==
    /\ \A b \in S : owner[b] = "meta"
    /\ device' = [b \in Block |-> IF b \in S THEN store[b] ELSE device[b]]
    /\ UNCHANGED <<owner, store>>

Release(S) ==
    /\ owner' = [b \in Block |-> IF b \in S THEN "free" ELSE owner[b]]
    /\ store' = [b \in Block |-> IF b \in S THEN Nothing ELSE store[b]]
    /\ UNCHANGED device

vars == <<owner, store, device>>

Next ==
    \/ \E b \in Block, kind \in Owner : Take(b, kind)
    \/ \E b \in Block, v \in Value : WriteMeta(b, v) \/ WriteData(b, v)
    \/ \E S \in SUBSET Block : Persist(S) \/ Release(S)

Spec == Init /\ [][Next]_vars
=============================================================================
