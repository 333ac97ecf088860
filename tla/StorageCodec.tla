---------------------------- MODULE StorageCodec ----------------------------
(***************************************************************************)
(* How typed values become bytes and typed values again (storage/codec):   *)
(* RLP for the storage trie of an Ethereum account, the codec with a type  *)
(* ID at the end for the live storage, and the selector between the two.   *)
(* A value is stored and loaded, over and over, at a path of StatePaths.   *)
(*                                                                         *)
(* A value is a record of its kind, its contents (one number, or bytes)    *)
(* and its limits, <<>> for the default ones.  Buffers are sequences of    *)
(* bytes, as RLP writes them, for payloads of less than 56 bytes and       *)
(* numbers of less than three.                                             *)
(***************************************************************************)
EXTENDS StatePaths

CONSTANTS
    Values          \* the values that are stored

VARIABLES
    value,          \* the value that was given at first
    way,            \* how it is stored: "eth", "live" or "selector"
    held,           \* what the store has: an account field, or bytes
    current         \* the value in hand, Absent while it is in the store

codecVars == <<value, way, held, current>>

Limited == {"commutative.Uint64", "commutative.U256", "commutative.Int64"}
Unsigned == {"commutative.Uint64", "commutative.U256", "Uint64", "Uint32"}
Numbers == Limited \cup Unsigned \cup {"Int64", "Bigint"}
Kinds == Numbers \cup {"Path", "Bytes", "String"}

Typed(kind, content, limits) == [kind |-> kind, content |-> content, limits |-> limits]

Absent == Typed("nil", <<>>, <<>>)      \* a deletion, or nothing found
Failed == Typed("error", <<>>, <<>>)
Panicked == Typed("panic", <<>>, <<>>)

Nothing == [field |-> Absent, data |-> <<>>]

ASSUME ValuesAssumption ==
    \A v \in Values : /\ v.kind \in Kinds \cup {"nil"}
                      /\ v.kind \in Unsigned => v.content[1] \in 0..65535
                      /\ v.limits # <<>> => v.kind \in Limited /\ Len(v.limits) = 2

-----------------------------------------------------------------------------
(* RLP and the bytes of integers (external) *)

StripZeros(b) ==
    LET kept == {i \in DOMAIN b : b[i] # 0}
    IN  IF kept = {} THEN <<>>
        ELSE SubSeq(b, CHOOSE i \in kept : \A j \in kept : i <= j, Len(b))

BigEndian(n) == StripZeros(<<n \div 256, n % 256>>)
FromBigEndian(b) == FoldLeft(LAMBDA n, byte : n * 256 + byte, 0, b)

\* codec.Int64: eight bytes, two's complement, the lowest first.
Int64Bytes(n) ==
    [i \in 1..8 |-> IF i <= 2 THEN (n \div 256^(i - 1)) % 256
                    ELSE IF n < 0 THEN 255 ELSE 0]
FromInt64Bytes(b) == b[1] + 256 * b[2] - IF b[8] = 255 THEN 65536 ELSE 0

RlpBytes(b) == IF Len(b) = 1 /\ b[1] < 128 THEN b ELSE <<128 + Len(b)>> \o b
RlpUint(n) == RlpBytes(BigEndian(n))
RlpList(items) ==
    LET payload == FlattenSeq(items) IN <<192 + Len(payload)>> \o payload

\* The length of the item that a buffer begins with.
ItemLength(b) ==
    IF b[1] < 128 THEN 1 ELSE IF b[1] < 192 THEN b[1] - 127 ELSE b[1] - 191

IsString(b) == b # <<>> /\ b[1] < 192 /\ ItemLength(b) = Len(b)
IsList(b) == b # <<>> /\ b[1] >= 192 /\ ItemLength(b) = Len(b)

\* What is in a string item; integers have no leading zero.
InString(b) == IF b[1] < 128 THEN b ELSE Tail(b)
IsUint(b) == IsString(b) /\ (InString(b) = <<>> \/ InString(b)[1] # 0)
InUint(b) == FromBigEndian(InString(b))

RECURSIVE Items(_)
Items(b) ==
    IF b = <<>> THEN <<>>
    ELSE <<SubSeq(b, 1, ItemLength(b))>> \o Items(SubSeq(b, ItemLength(b) + 1, Len(b)))

InList(b) == Items(Tail(b))

-----------------------------------------------------------------------------
(* RlpCodec: a value in the storage trie.  Encoders return bytes, or Error *)

Error == <<-1>>

\* Numbers with limits are lists of three, without they are single.
Uint64RLPEncode(v) ==
    IF v.limits = <<>> THEN RlpUint(v.content[1])
    ELSE RlpList(<<RlpUint(v.content[1]), RlpUint(v.limits[1]), RlpUint(v.limits[2])>>)

\* Mutant: the limits are decoded, but a single number is not.
LimitedRLPDecodeList(kind, b) ==
    IF IsList(b)
    THEN Typed(kind, <<InUint(InList(b)[1])>>, <<InUint(InList(b)[2]), InUint(InList(b)[3])>>)
    ELSE Failed

\* Uint64RLP and U256RLP: what is no list is tried as a single number.
LimitedRLPDecode(kind, b) ==
    IF IsList(b)
    THEN Typed(kind, <<InUint(InList(b)[1])>>, <<InUint(InList(b)[2]), InUint(InList(b)[3])>>)
    ELSE IF IsUint(b) THEN Typed(kind, <<InUint(b)>>, <<>>)
    ELSE Failed

CommutativeInt64RLPEncode(v) ==
    LET bytes(n) == RlpBytes(Int64Bytes(n))
    IN  IF v.limits = <<>> THEN bytes(v.content[1])
        ELSE RlpList(<<bytes(v.content[1]), bytes(v.limits[1]), bytes(v.limits[2])>>)

\* A single number has nine bytes in RLP; what has not is a list.
CommutativeInt64RLPDecode(b) ==
    LET number(item) == FromInt64Bytes(InString(item))
    IN  IF Len(b) = 9
        THEN IF IsString(b) THEN Typed("commutative.Int64", <<number(b)>>, <<>>) ELSE Failed
        ELSE IF IsList(b)
        THEN Typed("commutative.Int64", <<number(InList(b)[1])>>,
                   <<number(InList(b)[2]), number(InList(b)[3])>>)
        ELSE Failed

\* Int64 and Bigint, as a big.Int: RLP has no negative numbers.
BigRLPEncode(v) == IF v.content[1] < 0 THEN Error ELSE RlpUint(v.content[1])

Int64RLPDecode(b) == IF IsUint(b) THEN Typed("Int64", <<InUint(b)>>, <<>>) ELSE Failed

\* It returns the wrapper, not the Bigint in it.
BigintRLPDecode(b) == IF IsUint(b) THEN Typed("BigintRLP", <<InUint(b)>>, <<>>) ELSE Failed

\* Uint64 and Uint32 of noncommutative: a struct of one field.
UintRLPEncode(v) == RlpList(<<RlpUint(v.content[1])>>)
UintRLPDecode(kind, b) ==
    IF IsList(b) /\ Len(InList(b)) = 1 THEN Typed(kind, <<InUint(InList(b)[1])>>, <<>>)
    ELSE Failed

\* The bytes are taken for a number.
BytesRLPEncode(v) == RlpBytes(StripZeros(v.content))

\* Mutant: the bytes of the string as they are.
StringRLPEncodeRaw(v) == v.content

\* String, and Path, whose own encoding is its content.
StringRLPEncode(v) == RlpBytes(v.content)

StringRLPDecode(kind, b) == IF IsString(b) THEN Typed(kind, InString(b), <<>>) ELSE Failed

Encodable(v) == v.kind \in Kinds \cup {"nil"}     \* else the encoders panic

RlpCodecEncode(v) ==
    CASE v.kind = "nil" -> <<>>
      [] v.kind \in {"commutative.Uint64", "commutative.U256"} -> Uint64RLPEncode(v)
      [] v.kind = "commutative.Int64" -> CommutativeInt64RLPEncode(v)
      [] v.kind \in {"Int64", "Bigint"} -> BigRLPEncode(v)
      [] v.kind \in {"Uint64", "Uint32"} -> UintRLPEncode(v)
      [] v.kind = "Bytes" -> BytesRLPEncode(v)
      [] v.kind \in {"Path", "String"} -> StringRLPEncode(v)

\* kind: the type hint.  Without one, which is left out, the bytes are returned.
RlpCodecDecode(b, kind) ==
    CASE kind \in {"commutative.Uint64", "commutative.U256"} -> LimitedRLPDecode(kind, b)
      [] kind = "commutative.Int64" -> CommutativeInt64RLPDecode(b)
      [] kind = "Int64" -> Int64RLPDecode(b)
      [] kind = "Bigint" -> BigintRLPDecode(b)
      [] kind \in {"Uint64", "Uint32"} -> UintRLPDecode(kind, b)
      [] kind \in {"Path", "Bytes", "String"} -> StringRLPDecode(kind, b)

-----------------------------------------------------------------------------
(* arcocodec.Codec: the value's own encoding (external), then its type ID *)

TypeID(kind) == [typeID |-> kind]

CodecEncode(v) ==
    IF v.kind = "nil" THEN <<>>
    ELSE <<[own |-> <<v.content, v.limits>>], TypeID(v.kind)>>

\* There is no case for Uint64 and Uint32 of noncommutative.
CodecDecode(b) ==
    IF b = <<>> THEN Absent
    ELSE IF Last(b).typeID \in {"Uint64", "Uint32"} THEN Panicked
    ELSE Typed(Last(b).typeID, b[1].own[1], b[1].own[2])

-----------------------------------------------------------------------------
(* Storing and loading at the path *)

\* The field of the account that the path is kept in, if it is in one.
InField == \E f \in Fields : IsField(f, p1)
FieldKind ==
    CASE IsField(PATH_NONCE, p1) -> "commutative.Uint64"
      [] IsField(PATH_BALANCE, p1) -> "commutative.U256"
      [] IsField(PATH_CODE, p1) -> "Bytes"

\* UpdateAccountStorageTrie: the value without limits goes to a field, or the
\* bytes to the trie.  An encoding error is dropped, and no bytes are stored.
StoreEth(v) ==
    IF InField THEN [field |-> Typed(v.kind, v.content, <<>>), data |-> <<>>]
    ELSE [field |-> Absent,
          data |-> IF RlpCodecEncode(v) = Error THEN <<>> ELSE RlpCodecEncode(v)]

\* EthWorldState.GetAs.
GetAs(h, kind) ==
    IF InField THEN h.field
    ELSE IF h.data = <<>> THEN Absent
    ELSE RlpCodecDecode(h.data, kind)

\* StorageCodec, which goes by the path, with nothing of the account.
SelectorEncode(v) == IF ShouldPersistToEth(p1) THEN RlpCodecEncode(v) ELSE CodecEncode(v)

SelectorDecode(b, kind) ==
    IF ShouldPersistToEth(p1) THEN RlpCodecDecode(b, kind) ELSE CodecDecode(b)

CodecInit == value = Absent /\ way = "none" /\ held = Nothing /\ current = Absent

\* A value for a path that is written and read.  Account fields have a type
\* each and are not deleted, and slots are hex strings.
Give(v, w) ==
    /\ way = "none" /\ path = other /\ Len(path) > 1
    /\ w = "eth" => ~Panics(p1)
    /\ InField => v.kind = FieldKind
    /\ value' = v /\ current' = v /\ way' = w
    /\ UNCHANGED <<held, pathVars>>

\* The encoder panics on a kind that it does not know; the selector's caller
\* is told of an error.
Store ==
    /\ way # "none" /\ current.kind \notin {"error", "panic"}
    /\ current # Absent \/ value = Absent
    /\ IF ~Encodable(current)
       THEN current' = Panicked /\ UNCHANGED held
       ELSE IF way = "selector" /\ SelectorEncode(current) = Error
       THEN current' = Failed /\ UNCHANGED held
       ELSE /\ current' = Absent
            /\ held' = CASE way = "eth" -> StoreEth(current)
                         [] way = "live" -> [Nothing EXCEPT !.data = CodecEncode(current)]
                         [] way = "selector" -> [Nothing EXCEPT !.data = SelectorEncode(current)]
    /\ UNCHANGED <<value, way, pathVars>>

\* The type hint is the kind of the value that was given.
Load ==
    /\ value # Absent /\ current = Absent
    /\ current' = CASE way = "eth" -> GetAs(held, value.kind)
                    [] way = "live" -> CodecDecode(held.data)
                    [] way = "selector" -> SelectorDecode(held.data, value.kind)
    /\ UNCHANGED <<value, way, held, pathVars>>

CodecNext ==
    \/ \E v \in Values, w \in {"eth", "live", "selector"} : Give(v, w)
    \/ Store
    \/ Load

-----------------------------------------------------------------------------
(* Properties *)

UsesRlp ==
    \/ way = "eth" /\ ~InField
    \/ way = "selector" /\ ShouldPersistToEth(p1)

Negative(v) == v.kind \in {"Int64", "Bigint"} /\ v.content[1] < 0
LeadingZero(v) == v.kind = "Bytes" /\ v.content # <<>> /\ v.content[1] = 0

\* However often a value is stored and loaded, it is the value that was given,
\* limits included.  Excepted are, in RLP, negative numbers, bytes that begin
\* with zero, and Bigint, which is loaded as a wrapper that cannot be stored
\* again; limits in account fields; and otherwise Uint64 and Uint32, which have
\* no case in Codec.Decode.
RoundTrip ==
    \/ current \in {Absent, value}
    \/ UsesRlp /\ (value.kind = "Bigint" \/ LeadingZero(value) \/ Negative(value))
    \/ way = "eth" /\ InField /\ current = [value EXCEPT !.limits = <<>>]
    \/ ~UsesRlp /\ way # "eth" /\ value.kind \in {"Uint64", "Uint32"}

\* A value is never stored as the empty bytes that stand for a deletion, and a
\* deletion always is.  Excepted are negative numbers, whose encoding error is
\* dropped.
OnlyDeletionsEmpty ==
    /\ way \in {"eth", "live", "selector"} /\ current = Absent /\ ~(way = "eth" /\ InField)
    /\ ~(UsesRlp /\ Negative(value))
    => (held.data = <<>> <=> value = Absent)

-----------------------------------------------------------------------------
(* What tests and comments say of the program, where it does not hold *)

\* bytes_codec_test.go and bytes_rlp_codec.go: bytes come back as they were.
BytesKept == value.kind = "Bytes" => current \in {Absent, value}

\* The kinds that RlpCodec.Encode takes, RlpCodec.Decode gives back.
StoredAgain == current # Panicked
=============================================================================
