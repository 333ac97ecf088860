-------------------------- MODULE MCPathsAndCodecs --------------------------
(* All short paths of an account, two at a time, and values at each *)
EXTENDS StorageCodec

MCHexOf == [n \in {"0xa1", "0xA1"} |-> "a1"]

\* Zero, the last number that is a byte of its own in RLP, one that takes two
\* bytes; with and without limits; empty bytes and bytes that begin with zero.
MCValues ==
    {Absent}
    \cup {Typed(k, <<n>>, <<>>) : k \in Numbers, n \in {0, 127, 300}}
    \cup {Typed(k, <<1>>, <<0, 128>>) : k \in Limited}
    \cup {Typed("commutative.Int64", <<-1>>, l) : l \in {<<>>, <<-2, 1>>}}
    \cup {Typed(k, <<-1>>, <<>>) : k \in {"Int64", "Bigint"}}
    \cup {Typed(k, b, <<>>) : k \in {"Path", "Bytes", "String"},
                              b \in {<<>>, <<1>>, <<0, 1>>, <<128, 0>>}}

Init == PathInit /\ CodecInit

Next ==
    \/ PathNext /\ way = "none" /\ UNCHANGED codecVars
    \/ CodecNext

Spec == Init /\ [][Next]_<<pathVars, codecVars>>
=============================================================================
