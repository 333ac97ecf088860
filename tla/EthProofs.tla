------------------------------ MODULE EthProofs ------------------------------
(***************************************************************************)
(* Merkle proofs over the world state: their generation for a committed    *)
(* root (ProofProvider.GetProof), the check that the result carries with   *)
(* it (AccountResult.Validate), the conversion to the other proof format   *)
(* (op.Convertible) and the verifier of that format.                       *)
(*                                                                         *)
(* A storage key is a string of hex digits, two to a byte; a slot is a     *)
(* key of HashLen bytes (32 in the code).  Hashing a byte string is        *)
(* injective, so a hashed key is modelled by the key itself.  The entries  *)
(* of a request do not depend on each other: there is one.                 *)
(***************************************************************************)
EXTENDS EthWorldState, Sequences

CONSTANTS
    Digits,         \* hex digits, 0 among them
    HashLen,        \* bytes of a hash
    Keys            \* bound: the keys asked for

ASSUME HashAssumption ==
    /\ 0 \in Digits /\ Digits \subseteq Nat
    /\ HashLen \in Nat \ {0}
    /\ Slots \subseteq [1..(2 * HashLen) -> Digits]
    /\ Keys \subseteq Seq(Digits)

-----------------------------------------------------------------------------
(* Hex encodings *)

Zeros(n) == [i \in 1..n |-> 0]

\* common.BytesToHash of at most HashLen bytes: padded on the left.
BytesToHash(b) == Zeros(2 * HashLen - Len(b)) \o b

\* hexutil.EncodeBig, the QUANTITY encoding: no leading zeros.
EncodeBig(hash) ==
    LET firsts == {i \in DOMAIN hash : hash[i] # 0}
    IN  IF firsts = {} THEN <<0>>
        ELSE SubSeq(hash, CHOOSE i \in firsts : \A j \in firsts : i <= j, Len(hash))

\* hexutil.MustDecode panics on an odd number of digits.
MustDecodePanics(s) == Len(s) % 2 = 1

\* decodeHash: an odd string gets a leading zero; the bytes, not yet padded.
Decoded(s) == IF Len(s) % 2 = 1 THEN <<0>> \o s ELSE s

TooLong(s) == Len(Decoded(s)) > 2 * HashLen

\* Mutant: the key is always given back as a QUANTITY.
OutputKeyQuantity(s) == EncodeBig(BytesToHash(Decoded(s)))

\* The key is given back as a hash if it was one, else as a QUANTITY.
OutputKey(s) ==
    IF Len(Decoded(s)) # 2 * HashLen THEN EncodeBig(BytesToHash(Decoded(s)))
    ELSE Decoded(s)

-----------------------------------------------------------------------------
(* Proofs.  A proof is modelled by the trie whose nodes it is made of.     *)

Lookup(root, key) == IF key \in DOMAIN root THEN root[key] ELSE Nil

\* The key is given back in the digits of a hash or of a QUANTITY.
AccountResult ==
    [address : Addresses, field : Vals, codeHash : Codes,
     storageHash : StorageTrie, accountProof : WorldTrie, key : Seq(Digits),
     value : Vals, storageProof : StorageTrie]

ASSUME NilIsNoResult == Nil \notin AccountResult

\* trie.VerifyProof (external) fails if the proof does not lead from the root;
\* an empty trie has no node to prove anything with.  Otherwise the value.
ProofLeads(root, proof) == proof = root /\ \E k \in DOMAIN root : root[k] # Nil

\* No result (and no error) if the account is not found.  An absent slot reads
\* as zero: the error of decoding it is dropped.
GetProof(root, a, key) ==
    LET acct == LoadAccount(root, a)
        val == Lookup(acct.state.root, BytesToHash(Decoded(key)))
    IN  IF acct = Nil \/ TooLong(key) THEN Nil
        ELSE [address |-> a, field |-> acct.state.field,
              codeHash |-> acct.state.codeHash, storageHash |-> acct.state.root,
              accountProof |-> root,
              key |-> OutputKey(key),
              value |-> IF val = Nil THEN Zero ELSE val,
              storageProof |-> acct.state.root]

\* AccountResult.Validate.  Only inclusion is accepted, and the key is hashed
\* as it is, without padding.
Validate(res, root) ==
    IF ~ProofLeads(root, res.accountProof) \/ root[res.address] = Nil THEN "error"
    ELSE IF MustDecodePanics(res.key) THEN "panic"
    ELSE IF /\ ProofLeads(res.storageHash, res.storageProof)
            /\ Lookup(res.storageHash, res.key) # Nil THEN "ok"
    ELSE "error"

\* Convertible.New: the key becomes a hash.
ConvertPanics(res) == MustDecodePanics(res.key)

Convert(res) == [res EXCEPT !.key = BytesToHash(@)]

\* The entry proves its value; an absent slot proves zero.
StorageVerified(op) ==
    LET val == Lookup(op.storageHash, op.key)
    IN  /\ ProofLeads(op.storageHash, op.storageProof)
        /\ \/ val = Nil /\ op.value = Zero
           \/ val = op.value

\* Mutant: the account claimed is not compared with the one proven.
VerifyStorageOnly(op, root) ==
    StorageVerified(op) /\ ProofLeads(root, op.accountProof)

\* OptimismAccountResult.Verify: the storage entry against the storage hash
\* claimed, the account claimed against the one proven.
Verify(op, root) ==
    /\ StorageVerified(op)
    /\ ProofLeads(root, op.accountProof)
    /\ root[op.address] =
           [field |-> op.field, codeHash |-> op.codeHash, root |-> op.storageHash]

-----------------------------------------------------------------------------
(* Properties *)

IsHash(key) == Len(Decoded(key)) = 2 * HashLen

\* A proof made for any committed root states what was written when the root
\* was computed, and both checks accept it: Verify after the conversion,
\* Validate if the slot is there.  For keys of full length, and accounts with
\* storage.
ProofsVerify ==
    \A pub \in published : \A a \in Addresses \ pub.torn, key \in Keys :
        LET res == GetProof(pub.root, a, key)
            written == pub.contents[a]
        IN  IF written = Nil THEN res = Nil
            ELSE IsHash(key) =>
                LET val == Lookup(written.storage, Decoded(key))
                IN  /\ res # Nil
                    /\ res.value = IF val = Nil THEN Zero ELSE val
                    /\ written.storage # EmptyRoot =>
                           ~ConvertPanics(res) /\ Verify(Convert(res), pub.root)
                    /\ Validate(res, pub.root) = IF val = Nil THEN "error" ELSE "ok"

\* A result with another value of the slot and of the account's fields.
Claimed(res, value, field, code) ==
    [res EXCEPT !.value = value, !.field = field, !.codeHash = code]

\* Whatever is claimed, on the proof of this root or of another one, Verify
\* accepts it against a committed root only if it is what was written when
\* that root was computed.
OnlyTrueClaimsVerify ==
    \A pub, other \in published : \A a \in Addresses \ (pub.torn \cup other.torn) :
        \A slot \in Slots :
            LET res == GetProof(other.root, a, slot)
                written == pub.contents[a]
            IN  res # Nil =>
                \A value \in Vals, field \in Vals, code \in Codes :
                    Verify(Claimed(res, value, field, code), pub.root) =>
                        /\ written # Nil
                        /\ <<written.field, written.code>> = <<field, code>>
                        /\ \/ written.storage[slot] = value
                           \/ written.storage[slot] = Nil /\ value = Zero

-----------------------------------------------------------------------------
(* What comments say of the program, where it does not hold *)

\* ethtrie_types.go, op_verifier.go: the proof that the generator returns is
\* verified locally.  Whatever the length of the key asked for.
EveryProofVerifies ==
    \A pub \in published : \A a \in Addresses \ pub.torn, key \in Keys :
        LET res == GetProof(pub.root, a, key)
        IN  res # Nil /\ pub.contents[a].storage # EmptyRoot =>
                ~ConvertPanics(res) /\ Verify(Convert(res), pub.root)
=============================================================================
