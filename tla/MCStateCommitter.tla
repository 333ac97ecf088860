-------------------------- MODULE MCStateCommitter --------------------------
(***************************************************************************)
(* Small instances of StateCommitter: a storage slot and the balance of    *)
(* account a1, a slot of account a2, a block-bound scratch path and the    *)
(* system container it is in.                                              *)
(***************************************************************************)
EXTENDS StateCommitter

CONSTANTS a1, a2, slot1, slot2, balance, scratch, box

MCAccountOf == [p \in Paths |-> IF p \in {slot2, box} THEN a2 ELSE a1]
=============================================================================
