----------------------------- MODULE StatePaths -----------------------------
(***************************************************************************)
(* State paths (common/): how they are taken apart, which of them a new    *)
(* account is given, and where the Ethereum storage keeps the value of a   *)
(* path of an account: in a field, or in the storage trie under a hash of  *)
(* the slot or of the path.                                                *)
(*                                                                         *)
(* A path is a sequence of names and slashes.  The code cuts paths by      *)
(* length at the end of the account prefix and of the address, both of     *)
(* fixed length: here the prefix has 7 members and the address is one.     *)
(* The paths considered are those of one account.                          *)
(***************************************************************************)
EXTENDS Integers, FiniteSets, SequencesExt

CONSTANTS
    Names,          \* names that paths under the account are made of
    HexOf,          \* the names that are hex strings, with what they encode
    MaxTokens       \* bound: names and slashes after the address

ASSUME PathAssumption ==
    /\ DOMAIN HexOf \subseteq Names /\ "/" \notin Names /\ "" \notin Names
    /\ MaxTokens \in Nat

VARIABLES
    created,        \* the default paths that the account has
    createError,    \* CreateDefaultPaths returned an error
    path, other     \* two paths of the account, after the address

pathVars == <<created, createError, path, other>>

ETH_ACCOUNT_PREFIX == <<"blcc:", "/", "/", "eth1.0", "/", "account", "/">>
ETH_ACCOUNT_FULL_LENGTH == Len(ETH_ACCOUNT_PREFIX) + 1

Address == "0x41ef"

FullPath(sub) == ETH_ACCOUNT_PREFIX \o <<Address>> \o sub

-----------------------------------------------------------------------------
(* Taking paths apart *)

\* The rest after the prefix and the address.
ParseAccountAddr(p) ==
    IF Len(p) < ETH_ACCOUNT_FULL_LENGTH THEN <<p, <<>>, <<>>>>
    ELSE <<SubSeq(p, 1, Len(ETH_ACCOUNT_PREFIX)),
           SubSeq(p, Len(ETH_ACCOUNT_PREFIX) + 1, ETH_ACCOUNT_FULL_LENGTH),
           SubSeq(p, ETH_ACCOUNT_FULL_LENGTH + 1, Len(p))>>

GetPathUnder(p, prefix) ==
    LET sub == ParseAccountAddr(p)[3]
    IN  IF sub # prefix /\ IsPrefix(prefix, sub)
        THEN SubSeq(sub, Len(prefix) + 1, Len(sub)) ELSE <<>>

\* Mutant: empty segments are counted.
ScanEmpty(s, token, n) ==
    IF token # "/" THEN [s EXCEPT !.current = token]
    ELSE [seg |-> s.seg + 1, current |-> "",
          found |-> IF s.seg + 1 = n THEN s.current ELSE s.found]

\* One step of GetSegmentAt: the segments ended so far, the current one, and
\* the n-th once it has ended.
Scan(s, token, n) ==
    IF token # "/" THEN [s EXCEPT !.current = token]
    ELSE IF s.current = "" THEN s
    ELSE [seg |-> s.seg + 1, current |-> "",
          found |-> IF s.seg + 1 = n THEN s.current ELSE s.found]

\* The n-th segment, counted from 0; empty if there is none.  The end of the
\* path ends a segment like a slash.
GetSegmentAt(p, n, includeLeading, includeTrailing) ==
    LET step(s, token) == Scan(s, token, n)
        start == [seg |-> -1, current |-> "", found |-> ""]
        segment == FoldLeft(step, start, Append(p, "/")).found
        slash(flag) == IF flag THEN <<"/">> ELSE <<>>
    IN  IF segment = "" THEN <<>>
        ELSE slash(includeLeading) \o <<segment>> \o slash(includeTrailing)

\* Mutant: a slash at the end is taken for the one before the last name.
GetParentPathTrailing(p) ==
    IF p = <<>> \/ p = <<"/">> THEN <<p, p>>
    ELSE LET slashes == {i \in 1..Len(p) : p[i] = "/"}
             last == IF slashes = {} THEN 0 ELSE CHOOSE i \in slashes : \A j \in slashes : j <= i
         IN  <<SubSeq(p, 1, last), SubSeq(p, last + 1, Len(p))>>

\* The path up to the last slash that is not its last character, and the rest.
GetParentPath(p) ==
    IF p = <<>> \/ p = <<"/">> THEN <<p, p>>
    ELSE LET slashes == {i \in 1..(Len(p) - 1) : p[i] = "/"}
             last == IF slashes = {} THEN 0 ELSE CHOOSE i \in slashes : \A j \in slashes : j <= i
         IN  <<SubSeq(p, 1, last), SubSeq(p, last + 1, Len(p))>>

PATH_NONCE == <<"/", "nonce">>
PATH_BALANCE == <<"/", "balance">>
PATH_CODE == <<"/", "code">>
PATH_STORAGE_NATIVE == <<"/", "storage", "/", "native", "/">>

Fields == {PATH_NONCE, PATH_BALANCE, PATH_CODE}

\* Mutant: paths that end with a slash are taken too.
ShouldPersistToEthContainers(p) ==
    /\ Len(p) > ETH_ACCOUNT_FULL_LENGTH + 1
    /\ \/ \E f \in Fields : IsSuffix(f, p)
       \/ GetSegmentAt(p, 5, FALSE, TRUE) = <<"native", "/">>

ShouldPersistToEth(p) ==
    /\ Len(p) > ETH_ACCOUNT_FULL_LENGTH + 1
    /\ \/ \E f \in Fields : IsSuffix(f, p)
       \/ Last(p) # "/" /\ GetSegmentAt(p, 5, FALSE, TRUE) = <<"native", "/">>

-----------------------------------------------------------------------------
(* The paths of a new account *)

DefaultPaths ==
    {<<"/">>, PATH_CODE, PATH_NONCE, PATH_BALANCE, <<"/", "profiles", "/">>,
     <<"/", "storage", "/">>, <<"/", "storage", "/", "container", "/">>,
     PATH_STORAGE_NATIVE}

\* Names and slashes in the order of their bytes.
Alphabet ==
    <<"/", "balance", "code", "container", "native", "nonce", "profiles", "storage">>

Rank(token) == CHOOSE k \in DOMAIN Alphabet : Alphabet[k] = token

\* Byte order of paths.
LessThan(p, q) ==
    \/ IsStrictPrefix(p, q)
    \/ \E k \in 1..Len(p) :
           /\ k <= Len(q) /\ SubSeq(p, 1, k - 1) = SubSeq(q, 1, k - 1)
           /\ Rank(p[k]) < Rank(q[k])

\* Mutant: the comparison is the wrong way round.
GetDefaultReversed ==
    [i \in 1..Cardinality(DefaultPaths) |->
        CHOOSE p \in DefaultPaths : Cardinality({q \in DefaultPaths : LessThan(p, q)}) = i - 1]

\* Sorted: a path comes after the i - 1 paths that are less.
GetDefault ==
    [i \in 1..Cardinality(DefaultPaths) |->
        CHOOSE p \in DefaultPaths : Cardinality({q \in DefaultPaths : LessThan(q, p)}) = i - 1]

IsSysPath(p) ==
    \/ Len(p) <= ETH_ACCOUNT_FULL_LENGTH
    \/ ParseAccountAddr(p)[3] \in DefaultPaths

IsContainerPath(p) == IsSuffix(<<"/", "container", "/">>, p)

\* Mutant: the children of containers count as children of a system path.
IsImmediateChildOfSysPathAll(p) == IsSysPath(p) \/ IsSysPath(GetParentPath(p)[1])

IsImmediateChildOfSysPath(p) ==
    LET parent == GetParentPath(p)[1]
    IN  \/ IsSysPath(p)
        \/ ~IsContainerPath(parent) /\ (IsSysPath(parent) \/ ~Contains(parent, "/"))

\* ExecutionStateStore.Has, when the account has the default paths in have.
Has(have, p) ==
    \/ Len(p) <= Len(ETH_ACCOUNT_PREFIX)
    \/ ParseAccountAddr(p)[3] \in have /\ Len(p) > ETH_ACCOUNT_FULL_LENGTH

\* Each default path that is missing is written.  A write fails without its
\* parent path, and ends the creation.
CreateDefaultPaths ==
    LET written[i \in 0..Len(GetDefault)] ==
            IF i = 0 THEN [have |-> created, err |-> FALSE]
            ELSE LET w == written[i - 1]
                     p == FullPath(GetDefault[i])
                 IN  IF w.err \/ Has(w.have, p) THEN w
                     ELSE IF ~Has(w.have, GetParentPath(p)[1]) THEN [w EXCEPT !.err = TRUE]
                     ELSE [w EXCEPT !.have = @ \cup {GetDefault[i]}]
        result == written[Len(GetDefault)]
    IN  /\ created' = result.have
        /\ createError' = (createError \/ result.err)
        /\ UNCHANGED <<path, other>>

SYSTEM == "SYSTEM"
Callers == {"user", SYSTEM}

\* ExecutionStateStore.write lists a path in its parent's meta data.  What the
\* system writes is listed in the container root of an account only.
ListsInParent(tx, p) ==
    LET parent == GetParentPath(p)[1]
    IN  \/ IsContainerPath(parent)
        \/ ~IsSysPath(parent) /\ tx # SYSTEM

\* ExistsInParent does not look there for children of system paths.
LooksInParent(p) == ~IsImmediateChildOfSysPath(p)

-----------------------------------------------------------------------------
(* Where the Ethereum storage keeps a path *)

IsField(f, p) == IsSuffix(f, p)

IsAccountRoot(p) == Len(p) = ETH_ACCOUNT_FULL_LENGTH + 1

\* A slot that is no hex string cannot be decoded: the code panics.
Panics(p) ==
    LET slot == GetPathUnder(p, PATH_STORAGE_NATIVE)
    IN  IF slot = <<>> THEN FALSE
        ELSE IF Len(slot) > 1 THEN TRUE ELSE slot[1] \notin DOMAIN HexOf

\* Mutant: every key of the storage trie is made from the name alone.
ToStorageKeyByName(p) == [hash |-> <<GetParentPath(p)[2]>>]

\* The hash of the slot that the hex string stands for, else of the path.
ToStorageKey(p) ==
    LET slot == GetPathUnder(p, PATH_STORAGE_NATIVE)
    IN  IF slot # <<>> THEN [hash |-> <<HexOf[slot[1]]>>] ELSE [hash |-> p]

\* Account.Get: a field by the end of the path, else the storage trie.
ReadFrom(p) ==
    IF \E f \in Fields : IsField(f, p)
    THEN [field |-> CHOOSE f \in Fields : IsField(f, p)]
    ELSE ToStorageKey(p)

\* Mutant: the first key of the batch is never taken for a field.
WrittenToLater(batch, k) ==
    IF IsAccountRoot(batch[k]) THEN [none |-> TRUE]
    ELSE IF k > 1 /\ \E f \in Fields :
                IsField(f, batch[k]) /\ \A j \in 1..(k - 1) : ~IsField(f, batch[j])
    THEN [field |-> CHOOSE f \in Fields : IsField(f, batch[k])]
    ELSE ToStorageKey(batch[k])

\* UpdateAccountStorageTrie: where the k-th key of a batch is written.  The
\* account root is left out; each field takes the first key that ends like it,
\* what is left goes to the storage trie.
WrittenTo(batch, k) ==
    IF IsAccountRoot(batch[k]) THEN [none |-> TRUE]
    ELSE IF \E f \in Fields :
                IsField(f, batch[k]) /\ \A j \in 1..(k - 1) : ~IsField(f, batch[j])
    THEN [field |-> CHOOSE f \in Fields : IsField(f, batch[k])]
    ELSE ToStorageKey(batch[k])

-----------------------------------------------------------------------------
(* The address and selector of a profile path *)

\* PathBuilder.ProfileField, for the address as hexutil.Encode writes it.
ProfileField(selector, field) ==
    FullPath(<<"/", "profiles", "/", selector, "/", field>>)

\* hex.DecodeString (external) refuses what begins with 0x, as every address
\* does; of a path without an address, nothing is decoded.
ParseAddressAndSelector(p) ==
    IF Len(p) >= ETH_ACCOUNT_FULL_LENGTH THEN [err |-> TRUE] ELSE [err |-> FALSE]

-----------------------------------------------------------------------------
(* All paths of an account *)

\* Some of the default paths, with the parents of each.
PartlyCreated ==
    {have \in SUBSET DefaultPaths :
        \A p \in have : Has(have, GetParentPath(FullPath(p))[1])}

PathInit ==
    /\ created \in PartlyCreated /\ createError = FALSE
    /\ path = <<>> /\ other = <<>>

Extensions(sub) ==
    IF Len(sub) >= MaxTokens THEN {}
    ELSE IF sub = <<>> THEN {<<"/">>}
    ELSE {Append(sub, t) : t \in IF Last(sub) = "/" THEN Names ELSE {"/"}}

ExtendPath ==
    /\ created = DefaultPaths
    /\ path' \in Extensions(path)
    /\ UNCHANGED <<created, createError, other>>

ExtendOther ==
    /\ created = DefaultPaths
    /\ other' \in Extensions(other)
    /\ UNCHANGED <<created, createError, path>>

\* An account is created before paths of it are used.
PathNext ==
    \/ path = <<>> /\ other = <<>> /\ CreateDefaultPaths
    \/ ExtendPath
    \/ ExtendOther

PathSpec == PathInit /\ [][PathNext]_pathVars

-----------------------------------------------------------------------------
(* Properties *)

p1 == FullPath(path)
p2 == FullPath(other)

\* What is said of one path is looked at before there is another.
Single == other = <<>>

\* CreateDefaultPaths gives an account all its default paths, whichever of them
\* it has already: no write finds its parent missing.
DefaultsCreated == ~createError

\* GetSegmentAt finds the names of a path, in order, whatever the slashes.
SegmentsFound ==
    LET names == {k \in DOMAIN p1 : p1[k] # "/"}
        before(k) == Cardinality({j \in names : j < k})
    IN  Single =>
            /\ \A k \in names :
                   /\ GetSegmentAt(p1, before(k), FALSE, TRUE) = <<p1[k], "/">>
                   /\ GetSegmentAt(p1, before(k), TRUE, FALSE) = <<"/", p1[k]>>
            /\ GetSegmentAt(p1, Cardinality(names), FALSE, FALSE) = <<>>

\* GetParentPath: the longest path that the path is properly under.
ParentIsLongest ==
    LET parent == GetParentPath(p1)[1]
        isPath(q) == Last(q) = "/"
    IN  Single =>
        /\ parent \o GetParentPath(p1)[2] = p1 /\ parent # p1
        /\ isPath(parent)
        /\ \A k \in (Len(parent) + 1)..(Len(p1) - 1) : ~isPath(SubSeq(p1, 1, k))

\* The system writes an element of a container that a user created.
SystemInUserContainer(tx, p) ==
    LET parent == GetParentPath(p)[1]
    IN  tx = SYSTEM /\ ~IsSysPath(parent) /\ ~IsContainerPath(parent)

\* Reader and writer of a path disagree on whether its parent lists it if the
\* system writes into a container of a user, and in no other case.  Where they
\* disagree an element that exists is not found, or a deleted one is.
MembershipAgrees ==
    Single /\ Len(p1) > ETH_ACCOUNT_FULL_LENGTH =>
        \A tx \in Callers :
            (LooksInParent(p1) <=> ListsInParent(tx, p1)) <=> ~SystemInUserContainer(tx, p1)

\* An element of the account that has the name of an account field.
NamedLikeField(p) ==
    (\E f \in Fields : IsField(f, p)) /\ ParseAccountAddr(p)[3] \notin Fields

\* In one batch for the account, every key is written to the place where
\* Account.Get looks for it.  Excepted are elements named like a field.
ReadWhereWritten ==
    LET batch == <<p1, p2>>
    IN  p1 # p2 /\ ~NamedLikeField(p1) /\ ~NamedLikeField(p2) =>
            \A k \in 1..2 :
                \/ Len(batch[k]) <= ETH_ACCOUNT_FULL_LENGTH + 1
                \/ Panics(batch[k])
                \/ WrittenTo(batch, k) = ReadFrom(batch[k])

SpelledDifferently(p, q) ==
    LET slot(r) == GetPathUnder(r, PATH_STORAGE_NATIVE)
    IN  /\ slot(p) # <<>> /\ slot(q) # <<>>
        /\ slot(p)[1] # slot(q)[1] /\ HexOf[slot(p)[1]] = HexOf[slot(q)[1]]

\* Two paths of an account are never kept in the same place, but for two
\* spellings of one slot and for elements named like a field.
NoAlias ==
    /\ p1 # p2 /\ ~Panics(p1) /\ ~Panics(p2)
    /\ ReadFrom(p1) = ReadFrom(p2)
    => NamedLikeField(p1) \/ NamedLikeField(p2) \/ SpelledDifferently(p1, p2)

\* ShouldPersistToEth, which goes by segments, takes exactly what ToStorageKey,
\* which goes by prefix, takes for a slot, and the fields.  Excepted are again
\* elements named like a field, paths outside /storage/, and /storage/native,
\* to which a slash is added.
EthPathsAgree ==
    Single /\ ~NamedLikeField(p1) /\ path # <<"/", "storage", "/", "native">>
    /\ (path \in Fields \/ GetSegmentAt(p1, 4, FALSE, FALSE) \in {<<>>, <<"storage">>})
    => (ShouldPersistToEth(p1) <=>
            \/ path \in Fields
            \/ Last(p1) # "/" /\ GetPathUnder(p1, PATH_STORAGE_NATIVE) # <<>>)

-----------------------------------------------------------------------------
(* What comments say of the program, where it does not hold *)

\* utils.go: the path builder is made from the address and selector of a path.
BuilderFromPath == ~ParseAddressAndSelector(p1).err

\* execution_state_store.go: a write updates the meta data of the parent when
\* necessary, so what the system writes is found as well.
SystemWritesListed ==
    Single /\ Len(p1) > ETH_ACCOUNT_FULL_LENGTH =>
        (LooksInParent(p1) => ListsInParent(SYSTEM, p1))

\* eth_account.go: the key is parsed into one the storage trie accepts.
EveryKeyAccepted == ~Panics(p1)
=============================================================================
