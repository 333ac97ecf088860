------------------------- MODULE MCMerkleProofCache -------------------------
(***************************************************************************)
(* Small instances of MerkleProofCache.                                    *)
(***************************************************************************)
EXTENDS MerkleProofCache, TLC

CONSTANTS r1, r2, r3, lost, c1, c2

ClientSymmetry == Permutations(Clients)
=============================================================================
