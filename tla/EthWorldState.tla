---------------------------- MODULE EthWorldState ----------------------------
(***************************************************************************)
(* The Ethereum world state (storage/ethstorage) as two of its users see   *)
(* it at the same time: the main store, which starts from an empty trie,   *)
(* and an EthStateSnapshot (storage/proxy), a second EthWorldState opened  *)
(* at a root that the main store, or an earlier snapshot, committed.  Both *)
(* work on the same trie database and the same code database, and both     *)
(* can be read and be written through their own EthStorageWriter.          *)
(*                                                                         *)
(* The root hash of a trie is modelled by its contents, the hash of a code *)
(* by the code.  Nonce and balance are one field.  A nil-pointer           *)
(* dereference ends the process: crashed.                                  *)
(***************************************************************************)
EXTENDS Integers, FiniteSets

CONSTANTS
    Addresses,
    Slots,          \* keys of a storage trie
    Vals,           \* values of fields and slots
    Zero,           \* the value of a field that was never written
    Codes,
    EmptyCode,      \* the code of an account that was never given one
    Nil,            \* absent; a nil pointer
    Unset,          \* not written by a batch
    NoSnapshot,     \* no snapshot has been opened
    Writes,         \* bound: what a batch may write to an account
    MaxBatch,       \* bound: accounts in one batch
    MaxPrecommits,  \* bound: precommits in a behaviour
    MaxOpens        \* bound: snapshots opened and versions set

ASSUME WorldAssumption ==
    /\ Zero \in Vals /\ EmptyCode \in Codes
    /\ Nil \notin Vals \cup Codes /\ Unset \notin Vals \cup Codes \cup {Nil}
    /\ {MaxBatch, MaxPrecommits, MaxOpens} \subseteq Nat

VARIABLES
    store,          \* the two EthWorldStates
    storageRoots,   \* the roots of storage tries in the trie database
    worldRoots,     \* the roots of world tries in the trie database
    codeDB,         \* the codes in the disk database
    crashed,
    precommits, opens,
    \* History, used by the properties only:
    contents,       \* store -> address -> what was written to the account
    torn,           \* accounts whose storage a later precommit marked clean
    published       \* the roots committed, with what they stand for

dbVars == <<storageRoots, worldRoots, codeDB>>
historyVars == <<contents, torn, published>>
vars == <<store, dbVars, crashed, precommits, opens, historyVars>>

Stores == {"main", "snapshot"}

StorageTrie == [Slots -> Vals \cup {Nil}]

\* types.StateAccount
StateAccount == [field : Vals, codeHash : Codes, root : StorageTrie]

\* An Account object: hasBackend tells whether it was given the database.
Account ==
    [state : StateAccount, code : Codes \cup {Nil}, hasBackend : BOOLEAN,
     trieDirty : BOOLEAN]

WorldTrie == [Addresses -> StateAccount \cup {Nil}]

\* What was written to an account.
Contents == [field : Vals, code : Codes, storage : StorageTrie]

ASSUME NilIsNoRecord == Nil \notin StateAccount \cup Account \cup Contents

WorldState ==
    [trie : WorldTrie, accountCache : [Addresses -> Account \cup {Nil}],
     filed : SUBSET Addresses]

\* What precommits write to an account.  A write with nothing set is that of
\* an account whose transitions were all discarded.
Write ==
    [field : Vals \cup {Unset}, code : Codes \cup {Unset},
     slots : [Slots -> Vals \cup {Nil, Unset}]]

ASSUME WritesAssumption == Writes \subseteq Write

Batches ==
    UNION {[accts -> Writes] :
              accts \in {b \in SUBSET Addresses : Cardinality(b) \in 1..MaxBatch}}

Over(new, old) == IF new = Unset THEN old ELSE new

WrittenOver(root, slots) == [k \in Slots |-> Over(slots[k], root[k])]

-----------------------------------------------------------------------------
(* Accounts *)

EmptyRoot == [k \in Slots |-> Nil]

\* Mutant: the code hash is not initialized.
EmptyAccountStateNoHash == [field |-> Zero, codeHash |-> Nil, root |-> EmptyRoot]

EmptyAccountState == [field |-> Zero, codeHash |-> EmptyCode, root |-> EmptyRoot]

EmptyWorld == [a \in Addresses |-> Nil]

\* NewAccountWithSharedCache
NewAccount ==
    [state |-> EmptyAccountState, code |-> Nil, hasBackend |-> TRUE,
     trieDirty |-> FALSE]

LoadCode(hash) == IF hash \in codeDB THEN hash ELSE Nil

\* An account of a world trie: it has no backend, and is not found if its
\* storage trie cannot be opened.
LoadAccount(trie, a) ==
    IF trie[a] = Nil THEN Nil
    ELSE IF trie[a].root \notin storageRoots THEN Nil
    ELSE [state |-> trie[a], code |-> LoadCode(trie[a].codeHash),
          hasBackend |-> FALSE, trieDirty |-> FALSE]

\* Mutant: the account is always read from the trie.
GetAccountUncached(s, a) == LoadAccount(store[s].trie, a)

\* The account in the cache, else the one in the trie.
GetAccount(s, a) ==
    IF store[s].accountCache[a] # Nil THEN store[s].accountCache[a]
    ELSE LoadAccount(store[s].trie, a)

Preload(s, a) == IF GetAccount(s, a) = Nil THEN NewAccount ELSE GetAccount(s, a)

\* Account.Get of a slot, through EthWorldState.Get.
GetSlot(s, a, k) ==
    IF GetAccount(s, a) = Nil THEN Nil ELSE GetAccount(s, a).state.root[k]

\* EthWorldState.Has builds its own account if there is none in the cache,
\* without loading the code.
HasAccount(s, a) ==
    LET state == store[s].trie[a]
    IN  \/ store[s].accountCache[a] # Nil
        \/ IF state = Nil THEN FALSE ELSE state.root \in storageRoots

\* Mutant: the storage trie of an account in the cache is not looked at.
HasSlotUncached(s, a, k) ==
    LET state == store[s].trie[a]
    IN  IF state = Nil THEN FALSE
        ELSE state.root \in storageRoots /\ state.root[k] # Nil

\* Account.Has of a slot, and of the code: a non-empty one that is loaded.
HasSlot(s, a, k) ==
    /\ HasAccount(s, a)
    /\ IF store[s].accountCache[a] # Nil
       THEN store[s].accountCache[a].state.root[k] # Nil
       ELSE store[s].trie[a].root[k] # Nil

HasCode(s, a) ==
    LET acct == store[s].accountCache[a]
    IN  IF acct = Nil THEN FALSE ELSE acct.code \notin {Nil, EmptyCode}

IsEmptyWrite(w) ==
    w.field = Unset /\ w.code = Unset /\ \A k \in Slots : w.slots[k] = Unset

\* The fields are taken out first; what is left goes to the storage trie.
UpdateAccountStorageTrie(acct, w) ==
    IF IsEmptyWrite(w) THEN acct
    ELSE [acct EXCEPT
            !.state = [field |-> Over(w.field, acct.state.field),
                       codeHash |-> Over(w.code, acct.state.codeHash),
                       root |-> WrittenOver(acct.state.root, w.slots)],
            !.code = Over(w.code, @),
            !.trieDirty = \E k \in Slots : w.slots[k] # Unset]

-----------------------------------------------------------------------------
(* Operations *)

\* NewEthDataStore over a world trie.
NewEthDataStore(trie) ==
    [trie |-> trie, accountCache |-> [a \in Addresses |-> Nil], filed |-> {}]

Opened(s) == store[s] \notin {Nil, NoSnapshot}

\* The empty root is always found in the database.
Init ==
    /\ store = [s \in Stores |-> IF s = "main" THEN NewEthDataStore(EmptyWorld)
                                 ELSE NoSnapshot]
    /\ storageRoots = {EmptyRoot} /\ worldRoots = {EmptyWorld} /\ codeDB = {}
    /\ crashed = FALSE
    /\ precommits = 0 /\ opens = 0
    /\ contents = [s \in Stores |-> [a \in Addresses |-> Nil]]
    /\ torn = [s \in Stores |-> {}]
    /\ published = {[root |-> EmptyWorld, contents |-> [a \in Addresses |-> Nil],
                     torn |-> {}]}

Crash ==
    /\ crashed' = TRUE
    /\ UNCHANGED <<store, dbVars, historyVars>>

\* What the accounts of a store are expected to hold after a batch, and the
\* accounts that lose the mark of an earlier storage write to it.
RecordWrites(s, batch) ==
    LET empty == [field |-> Zero, code |-> EmptyCode, storage |-> EmptyRoot]
        old(a) == IF contents[s][a] = Nil THEN empty ELSE contents[s][a]
        new(a) == [field |-> Over(batch[a].field, old(a).field),
                   code |-> Over(batch[a].code, old(a).code),
                   storage |-> WrittenOver(old(a).storage, batch[a].slots)]
        toStorage == {a \in DOMAIN batch : \E k \in Slots : batch[a].slots[k] # Unset}
        unmarked == {a \in DOMAIN batch \ toStorage :
                        ~IsEmptyWrite(batch[a]) /\ Preload(s, a).trieDirty}
    IN  /\ contents' = [contents EXCEPT ![s] =
               [a \in Addresses |-> IF a \in DOMAIN batch THEN new(a) ELSE @[a]]]
        /\ torn' = [torn EXCEPT ![s] =
               (IF s = "main" THEN @ \ toStorage ELSE @) \cup unmarked]
        /\ UNCHANGED published

\* EthStorageWriter.Precommit of what was imported for a store: the accounts
\* are cached, updated, and written to the world trie.  A code goes to the
\* database at once, through the account's backend.
Precommit(s, batch) ==
    LET acct(a) == UpdateAccountStorageTrie(Preload(s, a), batch[a])
        coded == {a \in DOMAIN batch : batch[a].code # Unset}
    IN  /\ Opened(s)
        /\ precommits' = precommits + 1
        /\ IF \E a \in coded : ~Preload(s, a).hasBackend THEN Crash
           ELSE /\ store' = [store EXCEPT
                      ![s].accountCache =
                         [a \in Addresses |-> IF a \in DOMAIN batch THEN acct(a) ELSE @[a]],
                      ![s].trie =
                         [a \in Addresses |-> IF a \in DOMAIN batch THEN acct(a).state ELSE @[a]],
                      ![s].filed = @ \cup DOMAIN batch]
                /\ codeDB' = codeDB \cup {batch[a].code : a \in coded}
                /\ RecordWrites(s, batch)
                /\ UNCHANGED <<storageRoots, worldRoots, crashed>>
        /\ UNCHANGED opens

\* The accounts whose storage trie Account.Commit moves to the database.
ToCommit(s) == {a \in store[s].filed : store[s].accountCache[a].trieDirty}

Publish(s) ==
    /\ published' = published \cup
           {[root |-> store[s].trie, contents |-> contents[s], torn |-> torn[s]]}
    /\ UNCHANGED <<contents, torn>>

\* Mutant: the storage tries are not committed.
CommitWorldOnly(s) ==
    /\ Opened(s)
    /\ worldRoots' = worldRoots \cup {store[s].trie}
    /\ store' = [store EXCEPT ![s].filed = {}]
    /\ Publish(s)
    /\ UNCHANGED <<codeDB, crashed, storageRoots, precommits, opens>>

\* EthStorageWriter.Commit: the storage tries through the backends of their
\* accounts, then the world trie.
Commit(s) ==
    /\ Opened(s)
    /\ IF \E a \in ToCommit(s) : ~store[s].accountCache[a].hasBackend THEN Crash
       ELSE /\ storageRoots' = storageRoots \cup
                  {store[s].accountCache[a].state.root : a \in ToCommit(s)}
            /\ worldRoots' = worldRoots \cup {store[s].trie}
            /\ store' = [store EXCEPT
                  ![s].accountCache =
                     [a \in Addresses |->
                        IF a \in ToCommit(s) THEN [@[a] EXCEPT !.trieDirty = FALSE]
                        ELSE @[a]],
                  ![s].filed = {}]
            /\ Publish(s)
            /\ UNCHANGED <<codeDB, crashed>>
    /\ UNCHANGED <<precommits, opens>>

\* Account.Get of the code: loaded through the backend if it is not there.
GetCode(s, a) ==
    /\ Opened(s)
    /\ GetAccount(s, a) # Nil
    /\ GetAccount(s, a).code = Nil
    /\ IF ~GetAccount(s, a).hasBackend THEN Crash
       ELSE /\ store' = [store EXCEPT ![s].accountCache[a].code =
                            LoadCode(GetAccount(s, a).state.codeHash)]
            /\ UNCHANGED <<dbVars, crashed, historyVars>>
    /\ UNCHANGED <<precommits, opens>>

\* LoadEthTrieByRoot for the snapshot.
Load(root) ==
    /\ store' = [store EXCEPT !["snapshot"] = NewEthDataStore(root)]
    /\ \E pub \in published :
           /\ pub.root = root
           /\ contents' = [contents EXCEPT !["snapshot"] = pub.contents]
           /\ torn' = [torn EXCEPT !["snapshot"] = pub.torn]
    /\ UNCHANGED <<dbVars, crashed, published>>

\* A root that cannot be loaded is refused.
NewEthStateSnapshot(root) ==
    /\ opens' = opens + 1
    /\ IF root \in worldRoots THEN Load(root)
       ELSE UNCHANGED <<store, dbVars, crashed, historyVars>>
    /\ UNCHANGED precommits

\* A root that cannot be loaded leaves a snapshot without world state.
SetVersion(root) ==
    /\ store["snapshot"] # NoSnapshot
    /\ opens' = opens + 1
    /\ IF store["snapshot"] = Nil THEN Crash
       ELSE IF root \in worldRoots THEN Load(root)
       ELSE /\ store' = [store EXCEPT !["snapshot"] = Nil]
            /\ UNCHANGED <<dbVars, crashed, historyVars>>
    /\ UNCHANGED precommits

\* The roots a caller can have: those committed and that of the main store.
KnownRoots == worldRoots \cup {store["main"].trie}

Next ==
    \/ ~crashed /\ precommits < MaxPrecommits
       /\ \E s \in Stores, batch \in Batches : Precommit(s, batch)
    \/ ~crashed /\ \E s \in Stores : Commit(s)
    \/ ~crashed /\ \E s \in Stores, a \in Addresses : GetCode(s, a)
    \/ ~crashed /\ opens < MaxOpens /\ \E root \in KnownRoots : NewEthStateSnapshot(root)
    \/ ~crashed /\ opens < MaxOpens /\ \E root \in KnownRoots : SetVersion(root)

Spec == Init /\ [][Next]_vars

-----------------------------------------------------------------------------
(* Properties *)

\* Every variable holds a value of its kind.
TypeOK ==
    /\ store["main"] \in WorldState
    /\ store["snapshot"] \in WorldState \cup {Nil, NoSnapshot}
    /\ storageRoots \subseteq StorageTrie
    /\ worldRoots \subseteq WorldTrie
    /\ codeDB \subseteq Codes
    /\ crashed \in BOOLEAN
    /\ precommits \in Nat /\ opens \in Nat
    /\ DOMAIN store = Stores
    /\ contents \in [Stores -> [Addresses -> Contents \cup {Nil}]]
    /\ torn \in [Stores -> SUBSET Addresses]
    /\ published \subseteq
           [root : WorldTrie, contents : [Addresses -> Contents \cup {Nil}],
            torn : SUBSET Addresses]

\* The account that a StateAccount stands for is the one that was written.
Stands(state, written) ==
    IF state = Nil \/ written = Nil THEN state = Nil /\ written = Nil
    ELSE /\ state.field = written.field
         /\ state.codeHash = written.code
         /\ state.root = written.storage
         /\ state.codeHash \in codeDB \cup {EmptyCode}

\* Both stores read what was written to them, also while the other one writes
\* and commits to the same databases: GetAccount finds the account, in the
\* cache or through trie and databases, with the latest field, code and slots.
\* Excepted are accounts whose storage write lost its dirty mark.
ReadsAsWritten ==
    \A s \in Stores : Opened(s) =>
        \A a \in Addresses \ torn[s] :
            LET acct == GetAccount(s, a)
            IN  IF acct = Nil THEN contents[s][a] = Nil
                ELSE Stands(acct.state, contents[s][a])

\* Whatever root was committed, by either store and however long ago, opening
\* it again finds every account as it was when the root was computed: with
\* its fields, its code in the code database and its storage trie in the trie
\* database.  Same exception.
RootsReadBack ==
    \A pub \in published :
        /\ pub.root \in worldRoots
        /\ \A a \in Addresses \ pub.torn :
               /\ Stands(pub.root[a], pub.contents[a])
               /\ pub.root[a] # Nil => pub.root[a].root \in storageRoots

\* Has and Get agree on slots, although Has reads the account its own way.  On
\* code they agree for the accounts in the cache.
HasAgreesWithGet ==
    \A s \in Stores : Opened(s) =>
        \A a \in Addresses :
            /\ \A k \in Slots : HasSlot(s, a, k) <=> GetSlot(s, a, k) # Nil
            /\ HasCode(s, a) =>
                   GetAccount(s, a) # Nil /\ GetAccount(s, a).code \in codeDB

-----------------------------------------------------------------------------
(* What comments say of the program, where it does not hold *)

\* snapshot_state_proxy.go: a snapshot serves historical queries and
\* transaction execution; neither ends the process.
NeverCrashes == ~crashed

\* eth_world_state.go: Has looks in the cache first, then in the trie, as Get
\* does: they agree on code too.
HasFindsCode ==
    \A s \in Stores : Opened(s) =>
        \A a \in Addresses :
            GetAccount(s, a) # Nil =>
                (HasCode(s, a) <=> GetAccount(s, a).code \notin {Nil, EmptyCode})
=============================================================================
