----------------------- MODULE MCExecutionStateStore -----------------------
(***************************************************************************)
(* Small instances of ExecutionStateStore: an account with its balance and *)
(* its system container, one container in that and its elements.           *)
(***************************************************************************)
EXTENDS ExecutionStateStore, TLC

CONSTANTS account, root, balance, box, e1, e2, v1, v2

MCParent ==
    [p \in Paths |-> CASE p \in {e1, e2} -> box
                       [] p = box -> root
                       [] p \in {root, balance} -> account
                       [] OTHER -> Nil]

\* The balance is the one of another account.
MCAccountOf == [p \in Paths |-> IF p = balance THEN balance ELSE account]

\* The elements of the container are interchangeable.
Elements == Permutations({e1, e2})
=============================================================================
