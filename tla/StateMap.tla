------------------------------ MODULE StateMap ------------------------------
(***************************************************************************)
(* What an execution is promised: a map from paths to values, in which a   *)
(* container must exist before anything is put into it, and removing a     *)
(* container, or everything in it, leaves none of its elements.            *)
(***************************************************************************)
CONSTANTS Paths, Parent, Containers, Vals, Absent, Present

VARIABLE state      \* path -> value; a container is Present or Absent

Contents(p) == IF p \in Containers THEN {Present} ELSE Vals

Init == state \in [Paths -> Vals \cup {Present, Absent}]

Put(p, v) ==
    /\ Parent[p] \in Paths => state[Parent[p]] # Absent
    /\ state' = [state EXCEPT ![p] = v]

RemoveIn(c) == state' = [p \in Paths |-> IF Parent[p] = c THEN Absent ELSE state[p]]

Remove(q) ==
    state' = [p \in Paths |-> IF q \in {p, Parent[p]} THEN Absent ELSE state[p]]

Next ==
    \/ \E p \in Paths : \E v \in Contents(p) : Put(p, v)
    \/ \E p \in Paths : Remove(p)
    \/ \E c \in Containers : RemoveIn(c)

Spec == Init /\ [][Next]_state
=============================================================================
