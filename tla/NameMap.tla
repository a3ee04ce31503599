------------------------------ MODULE NameMap ------------------------------
(* What a directory promises: a partial function from names to inodes.     *)
CONSTANTS Name, Child, None

VARIABLE map

Init == map \in [Name -> Child \cup {None}]
Add(n, c) == map[n] = None /\ map' = [map EXCEPT ![n] = c]
Remove(n) == map[n] # None /\ map' = [map EXCEPT ![n] = None]
Next == \E n \in Name : Remove(n) \/ \E c \in Child : Add(n, c)
Spec == Init /\ [][Next]_map
=============================================================================
