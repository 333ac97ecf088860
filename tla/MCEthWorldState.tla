--------------------------- MODULE MCEthWorldState ---------------------------
(***************************************************************************)
(* Two accounts, one slot, two codes, two values; hashes of two bytes and  *)
(* binary digits for hex ones.                                             *)
(***************************************************************************)
EXTENDS EthProofs, TLC

CONSTANTS a1, a2, c0, c1

MCSlots == {<<0, 0, 0, 1>>}

\* Writes of nothing, of a field, of a code, of the slots, and of all three.
W(field, code, val) ==
    [field |-> field, code |-> code, slots |-> [k \in Slots |-> val]]

MCWrites ==
    {W(Unset, Unset, Unset), W(1, Unset, Unset), W(Unset, c0, Unset),
     W(Unset, c1, Unset), W(Unset, Unset, 0), W(Unset, Unset, 1),
     W(Unset, Unset, Nil), W(1, c1, 1)}

\* No key, short ones, full ones with and without leading zeros, one too long.
MCKeys ==
    {<<>>, <<1>>, <<0, 1, 1>>, <<0, 0, 0, 1>>, <<1, 0, 0, 0>>, <<0, 0, 0, 0, 1>>}

MCSymmetry == Permutations(Addresses)
=============================================================================
