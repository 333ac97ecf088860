----------------------- MODULE MCStateCommitterFaults -----------------------
(***************************************************************************)
(* Small instances of StateCommitterFaults: a storage slot and the balance *)
(* of account a1.                                                          *)
(***************************************************************************)
EXTENDS StateCommitterFaults

CONSTANTS a1, slot1, balance

MCAccountOf == [p \in Paths |-> a1]
=============================================================================
