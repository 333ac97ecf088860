--------------------------- MODULE EthWorldProofs ---------------------------
(***************************************************************************)
(* Proof that a committed root can always be read back, that both stores   *)
(* read what was written to them, and that Has agrees with Get, for any    *)
(* number of accounts, slots, values, codes, precommits and snapshots; and *)
(* that the Merkle proofs over the committed roots are right, for any      *)
(* length of a hash.                                                       *)
(*                                                                         *)
(* The argument: a storage trie is either in the database or held by a     *)
(* cached account that is marked dirty and filed for the next commit; a    *)
(* code is in the database before any account refers to it; the world trie *)
(* has every cached account as it is.  On the main store every account of  *)
(* the world trie is cached, so even the exempted accounts are as written. *)
(* For the proofs, a cached code is in the code database too.              *)
(***************************************************************************)
EXTENDS EthProofs, TLAPS

\* The storage trie of an account can be opened, now or after the next commit.
Saved(s, a) ==
    store[s].trie[a] # Nil =>
        \/ store[s].trie[a].root \in storageRoots
        \/ store[s].accountCache[a] # Nil /\ store[s].accountCache[a].trieDirty

\* A cached account is the one in the world trie and, if dirty, it is filed;
\* a filed account is cached.
CacheOK(s, a) ==
    /\ store[s].accountCache[a] # Nil =>
           /\ store[s].trie[a] = store[s].accountCache[a].state
           /\ store[s].accountCache[a].trieDirty => a \in store[s].filed
    /\ a \in store[s].filed => store[s].accountCache[a] # Nil

AsWritten(s, a) == Stands(store[s].trie[a], contents[s][a])

StoreInv(s) ==
    \A a \in Addresses :
        /\ CacheOK(s, a)
        /\ a \notin torn[s] => AsWritten(s, a) /\ Saved(s, a)

MainInv ==
    \A a \in Addresses :
        /\ AsWritten("main", a)
        /\ store["main"].trie[a] # Nil => store["main"].accountCache[a] # Nil

IInv ==
    /\ TypeOK
    /\ EmptyRoot \in storageRoots
    /\ \A s \in Stores : Opened(s) => StoreInv(s)
    /\ MainInv
    /\ RootsReadBack

-----------------------------------------------------------------------------
(* Accounts *)

\* A store that is open is a world state.
LEMMA StoreType ==
    ASSUME TypeOK, NEW s \in Stores, Opened(s)
    PROVE  store[s] \in WorldState
BY Zenon DEF TypeOK, Opened, Stores

\* A trie and a database lookup give an account; so do Preload and the cache.
LEMMA AccountTypes ==
    ASSUME TypeOK, NEW s \in Stores, Opened(s), NEW a \in Addresses
    PROVE  /\ store[s] \in WorldState
           /\ GetAccount(s, a) \in Account \cup {Nil}
           /\ Preload(s, a) \in Account
<1>1. store[s] \in WorldState
  BY StoreType, Zenon
<1>2. store[s].accountCache[a] \in Account \cup {Nil}
  BY <1>1, Zenon DEF WorldState
<1>3. store[s].trie[a] \in StateAccount \cup {Nil}
  BY <1>1, Zenon DEF WorldState, WorldTrie
<1>4. LoadAccount(store[s].trie, a) \in Account \cup {Nil}
  <2>1. CASE store[s].trie[a] = Nil
    BY <2>1, Zenon DEF LoadAccount
  <2>2. CASE store[s].trie[a] # Nil
    <3>1. store[s].trie[a] \in StateAccount
      BY <1>3, <2>2, Zenon
    <3>2. LoadCode(store[s].trie[a].codeHash) \in Codes \cup {Nil}
      BY <3>1, Zenon DEF LoadCode, StateAccount
    <3> QED BY <2>2, <3>1, <3>2, Zenon DEF LoadAccount, Account
  <2> QED BY <2>1, <2>2, Zenon
<1>5. GetAccount(s, a) \in Account \cup {Nil}
  BY <1>2, <1>4, Zenon DEF GetAccount
<1>6. NewAccount \in Account
  BY WorldAssumption, Zenon DEF NewAccount, Account, EmptyAccountState, StateAccount,
     EmptyRoot, StorageTrie
<1> QED BY <1>1, <1>5, <1>6, Zenon DEF Preload

\* What UpdateAccountStorageTrie makes of an account, whether or not the write
\* is empty.
LEMMA UpdatedAccount ==
    ASSUME NEW acct \in Account, NEW w \in Write
    PROVE  LET new == UpdateAccountStorageTrie(acct, w)
           IN  /\ new \in Account
               /\ new.state = [field |-> Over(w.field, acct.state.field),
                               codeHash |-> Over(w.code, acct.state.codeHash),
                               root |-> WrittenOver(acct.state.root, w.slots)]
               /\ new.trieDirty = IF IsEmptyWrite(w) THEN acct.trieDirty
                                  ELSE \E k \in Slots : w.slots[k] # Unset
<1> DEFINE state == [field |-> Over(w.field, acct.state.field),
                     codeHash |-> Over(w.code, acct.state.codeHash),
                     root |-> WrittenOver(acct.state.root, w.slots)]
<1>1. acct.state \in StateAccount /\ acct.state.root \in StorageTrie
  BY Zenon DEF Account, StateAccount
<1>2. state \in StateAccount
  <2>1. WrittenOver(acct.state.root, w.slots) \in StorageTrie
    BY <1>1, Zenon DEF WrittenOver, Over, StorageTrie, Write
  <2>2. Over(w.field, acct.state.field) \in Vals
    BY <1>1, Zenon DEF Over, Write, StateAccount
  <2>3. Over(w.code, acct.state.codeHash) \in Codes
    BY <1>1, Zenon DEF Over, Write, StateAccount
  <2> QED BY <2>1, <2>2, <2>3, Zenon DEF StateAccount
<1>3. CASE IsEmptyWrite(w)
  <2>1. WrittenOver(acct.state.root, w.slots) = acct.state.root
    BY <1>1, <1>3, Zenon DEF IsEmptyWrite, WrittenOver, Over, StorageTrie
  <2>2. state = acct.state
    BY <1>1, <1>3, <2>1, Zenon DEF IsEmptyWrite, Over, StateAccount
  <2> QED BY <1>3, <2>2, Zenon DEF UpdateAccountStorageTrie
<1>4. CASE ~IsEmptyWrite(w)
  <2> DEFINE new == UpdateAccountStorageTrie(acct, w)
             dirty == \E k \in Slots : w.slots[k] # Unset
  <2>1. new = [acct EXCEPT !.state = state, !.code = Over(w.code, @), !.trieDirty = dirty]
    BY <1>4, Zenon DEF UpdateAccountStorageTrie
  <2>2. new.state = state /\ new.trieDirty = dirty
    BY <2>1, Zenon DEF Account
  <2>3. new \in Account
    BY <1>2, <2>1, Zenon DEF Account, Over, Write
  <2> QED BY <1>4, <2>2, <2>3, Zenon
<1> QED BY <1>3, <1>4, Zenon

-----------------------------------------------------------------------------
(* Initial states and steps *)

\* A batch of the writer writes to some of the addresses.
LEMMA BatchTypes ==
    ASSUME NEW batch \in Batches
    PROVE  /\ DOMAIN batch \subseteq Addresses
           /\ \A a \in DOMAIN batch : batch[a] \in Write
BY WritesAssumption, Zenon DEF Batches

\* The empty world of the empty store: no account, nothing to find.
LEMMA InitIInv == Init => IInv
<1> SUFFICES ASSUME Init PROVE IInv
  BY Zenon
<1>1. store["main"] = NewEthDataStore(EmptyWorld) /\ store["snapshot"] = NoSnapshot
  BY Zenon DEF Init, Stores
<1>2. NewEthDataStore(EmptyWorld) \in WorldState
  BY Zenon DEF NewEthDataStore, EmptyWorld, WorldState, WorldTrie
<1>3. TypeOK
  <2>1. EmptyRoot \in StorageTrie
    BY Zenon DEF EmptyRoot, StorageTrie
  <2>2. EmptyWorld \in WorldTrie
    BY Zenon DEF EmptyWorld, WorldTrie
  <2>3. contents \in [Stores -> [Addresses -> Contents \cup {Nil}]]
    BY Zenon DEF Init
  <2>4. published \subseteq
           [root : WorldTrie, contents : [Addresses -> Contents \cup {Nil}],
            torn : SUBSET Addresses]
    BY <2>2 DEF Init
  <2>5. torn \in [Stores -> SUBSET Addresses] /\ DOMAIN store = Stores
    BY Zenon DEF Init
  <2> QED BY <1>1, <1>2, <2>1, <2>2, <2>3, <2>4, <2>5, Zenon DEF TypeOK, Init
<1>4. StoreInv("main")
  BY <1>1, Zenon DEF StoreInv, CacheOK, AsWritten, Saved, Stands, NewEthDataStore, EmptyWorld,
     Init, Stores
<1>5. MainInv
  BY <1>1, Zenon DEF MainInv, AsWritten, Stands, NewEthDataStore, EmptyWorld, Init, Stores
<1>6. RootsReadBack
  BY DEF RootsReadBack, Stands, EmptyWorld, Init
<1> QED BY <1>1, <1>3, <1>4, <1>5, <1>6, Zenon DEF IInv, Opened, Stores, Init

\* Steps that change neither the stores nor the databases.
LEMMA NothingWritten ==
    ASSUME IInv, UNCHANGED <<store, dbVars, historyVars>>,
           crashed' \in BOOLEAN, precommits' \in Nat, opens' \in Nat
    PROVE  IInv'
<1>1. TypeOK'
  BY Zenon DEF IInv, TypeOK, dbVars, historyVars
<1>2. \A s \in Stores : Opened(s)' => StoreInv(s)'
  BY DEF IInv, Opened, StoreInv, CacheOK, AsWritten, Saved, Stands, dbVars, historyVars
<1>3. MainInv' /\ RootsReadBack' /\ (EmptyRoot \in storageRoots)'
  BY DEF IInv, MainInv, RootsReadBack, AsWritten, Stands, EmptyRoot, dbVars, historyVars
<1> QED BY <1>1, <1>2, <1>3, Zenon DEF IInv

\* A nil dereference ends the process and changes nothing else.
LEMMA CrashStep ==
    ASSUME IInv, Crash, precommits' \in Nat, opens' \in Nat
    PROVE  IInv'
BY NothingWritten, Zenon DEF Crash

\* Databases only grow, so what could be read back still can.
LEMMA StillReadBack ==
    ASSUME RootsReadBack, published' = published, worldRoots' = worldRoots,
           storageRoots' = storageRoots, codeDB \subseteq codeDB'
    PROVE  RootsReadBack'
BY Zenon DEF RootsReadBack, Stands

\* An account that is neither written to nor moved is still as written.
LEMMA StillAsWritten ==
    ASSUME NEW t \in Stores, NEW a \in Addresses, AsWritten(t, a),
           store'[t].trie[a] = store[t].trie[a],
           contents'[t][a] = contents[t][a], codeDB \subseteq codeDB'
    PROVE  AsWritten(t, a)'
<1> DEFINE state == store[t].trie[a]
           wrote == contents[t][a]
<1>1. CASE state = Nil \/ wrote = Nil
  <2>1. state = Nil /\ wrote = Nil
    BY <1>1, Zenon DEF AsWritten, Stands
  <2> QED BY <2>1, Zenon DEF AsWritten, Stands
<1>2. CASE ~(state = Nil \/ wrote = Nil)
  <2>1. /\ state.field = wrote.field /\ state.codeHash = wrote.code
        /\ state.root = wrote.storage /\ state.codeHash \in codeDB' \cup {EmptyCode}
    BY <1>2, Zenon DEF AsWritten, Stands
  <2> QED BY <1>2, <2>1, Zenon DEF AsWritten, Stands
<1> QED BY <1>1, <1>2, Zenon

\* The main store keeps its accounts cached while its trie stays.
LEMMA MainUntouched ==
    ASSUME MainInv, store'["main"].trie = store["main"].trie,
           \A a \in Addresses : store["main"].accountCache[a] # Nil =>
                                   store'["main"].accountCache[a] # Nil,
           contents'["main"] = contents["main"], codeDB \subseteq codeDB'
    PROVE  MainInv'
<1> SUFFICES ASSUME NEW a \in Addresses
             PROVE  /\ AsWritten("main", a)'
                    /\ store'["main"].trie[a] # Nil => store'["main"].accountCache[a] # Nil
  BY Zenon DEF MainInv
<1>1. "main" \in Stores /\ AsWritten("main", a)
  BY Zenon DEF Stores, MainInv
<1>2. AsWritten("main", a)'
  BY <1>1, StillAsWritten, Zenon
<1>3. store["main"].trie[a] # Nil => store["main"].accountCache[a] # Nil
  BY Zenon DEF MainInv
<1> QED BY <1>2, <1>3, Zenon

\* A store stays as it is while the databases grow.
LEMMA Untouched ==
    ASSUME NEW t \in Stores, StoreInv(t), store'[t] = store[t],
           contents'[t] = contents[t], torn'[t] = torn[t],
           storageRoots \subseteq storageRoots', codeDB \subseteq codeDB'
    PROVE  StoreInv(t)'
<1> SUFFICES ASSUME NEW a \in Addresses
             PROVE  /\ CacheOK(t, a)'
                    /\ a \notin torn'[t] => AsWritten(t, a)' /\ Saved(t, a)'
  BY Zenon DEF StoreInv
<1>1. CacheOK(t, a)'
  BY Zenon DEF StoreInv, CacheOK
<1>2. a \notin torn[t] => AsWritten(t, a)
  BY Zenon DEF StoreInv
<1>3. a \notin torn'[t] => AsWritten(t, a)'
  BY <1>2, StillAsWritten, Zenon
<1>4. a \notin torn'[t] => Saved(t, a)'
  BY Zenon DEF StoreInv, Saved
<1> QED BY <1>1, <1>3, <1>4, Zenon

\* LoadEthTrieByRoot: the snapshot takes over what the root stood for when it
\* was committed; the main store and the databases stay.
LEMMA LoadStep ==
    ASSUME IInv, NEW root, root \in worldRoots, Load(root),
           precommits' \in Nat, opens' \in Nat
    PROVE  IInv'
<1>1. PICK pub \in published :
         /\ pub.root = root
         /\ contents' = [contents EXCEPT !["snapshot"] = pub.contents]
         /\ torn' = [torn EXCEPT !["snapshot"] = pub.torn]
  BY Zenon DEF Load
<1>2. /\ store' = [store EXCEPT !["snapshot"] = NewEthDataStore(root)]
      /\ UNCHANGED <<storageRoots, worldRoots, codeDB, crashed, published>>
  BY Zenon DEF Load, dbVars
<1>3. TypeOK
  BY Zenon DEF IInv
<1>4. /\ store'["main"] = store["main"]
      /\ store'["snapshot"] = NewEthDataStore(root)
      /\ contents'["main"] = contents["main"] /\ torn'["main"] = torn["main"]
      /\ contents'["snapshot"] = pub.contents /\ torn'["snapshot"] = pub.torn
  BY <1>1, <1>2, <1>3, Zenon DEF TypeOK, Stores
<1>5. TypeOK'
  <2>1. NewEthDataStore(root) \in WorldState
    BY <1>3, Zenon DEF TypeOK, NewEthDataStore, WorldState
  <2>2. pub.contents \in [Addresses -> Contents \cup {Nil}] /\ pub.torn \subseteq Addresses
    BY <1>3, Zenon DEF TypeOK
  <2> QED BY <1>1, <1>2, <1>3, <1>4, <2>1, <2>2, Zenon DEF TypeOK, Stores
<1>6. Opened("main")' => StoreInv("main")'
  <2> SUFFICES ASSUME Opened("main")' PROVE StoreInv("main")'
    BY Zenon
  <2>1. StoreInv("main")
    BY <1>4, Zenon DEF IInv, Opened, Stores
  <2> QED BY <1>2, <1>4, <2>1, Untouched, Zenon DEF Stores
<1>7. StoreInv("snapshot")'
  <2> SUFFICES ASSUME NEW a \in Addresses, a \notin pub.torn
               PROVE  Stands(root[a], pub.contents[a])' /\
                      (root[a] # Nil => root[a].root \in storageRoots)
    BY <1>2, <1>4 DEF StoreInv, CacheOK, AsWritten, Saved, NewEthDataStore, Stands
  <2> QED BY <1>1, <1>2, Zenon DEF IInv, RootsReadBack, Stands
<1>8. MainInv'
  BY <1>2, <1>4, MainUntouched, Zenon DEF IInv
<1>9. RootsReadBack' /\ (EmptyRoot \in storageRoots)'
  BY <1>2, Zenon DEF IInv, RootsReadBack, Stands, EmptyRoot
<1> QED BY <1>5, <1>6, <1>7, <1>8, <1>9, Zenon DEF IInv, Stores

\* Loading the code of a cached account changes its code alone.
LEMMA GetCodeStep ==
    ASSUME IInv, NEW s \in Stores, NEW a \in Addresses, GetCode(s, a)
    PROVE  IInv'
<1> DEFINE acct == store[s].accountCache[a]
           code == LoadCode(GetAccount(s, a).state.codeHash)
<1>1. TypeOK /\ Opened(s) /\ precommits' \in Nat /\ opens' \in Nat
  BY Zenon DEF IInv, GetCode, TypeOK
<1>2. CASE ~GetAccount(s, a).hasBackend
  BY <1>1, <1>2, CrashStep, Zenon DEF GetCode
<1>3. CASE GetAccount(s, a).hasBackend
  <2>1. acct # Nil /\ acct \in Account
    <3>1. store[s] \in WorldState
      BY <1>1, AccountTypes, Zenon
    <3>2. acct # Nil
      BY <1>3, Zenon DEF GetAccount, LoadAccount, GetCode
    <3> QED BY <3>1, <3>2, Zenon DEF WorldState
  <2>2. /\ store' = [store EXCEPT ![s].accountCache[a].code = code]
        /\ UNCHANGED <<storageRoots, worldRoots, codeDB, crashed, contents, torn, published>>
    BY <1>3, Zenon DEF GetCode, dbVars, historyVars
  <2>3. code \in Codes \cup {Nil}
    <3>1. GetAccount(s, a) = acct
      BY <2>1, Zenon DEF GetAccount
    <3> QED BY <2>1, <3>1, Zenon DEF LoadCode, Account, StateAccount
  <2>4. /\ store'[s].trie = store[s].trie /\ store'[s].filed = store[s].filed
        /\ store'[s].accountCache = [store[s].accountCache EXCEPT ![a].code = code]
        /\ \A t \in Stores \ {s} : store'[t] = store[t]
        /\ DOMAIN store' = Stores
        /\ store'[s] = [store[s] EXCEPT !.accountCache = [@ EXCEPT ![a].code = code]]
    BY <1>1, <2>2, AccountTypes, Zenon DEF TypeOK, WorldState
  <2>5. \A b \in Addresses :
           LET old == store[s].accountCache[b]
               new == store'[s].accountCache[b]
           IN  /\ new \in Account \cup {Nil}
               /\ old = Nil <=> new = Nil
               /\ new # Nil => new.state = old.state /\ new.trieDirty = old.trieDirty
    <3>1. [acct EXCEPT !.code = code] \in Account
      BY <2>1, <2>3, Zenon DEF Account
    <3>2. store[s].accountCache \in [Addresses -> Account \cup {Nil}]
      BY <1>1, AccountTypes, Zenon DEF WorldState
    <3>3. [acct EXCEPT !.code = code] # Nil
      BY <3>1, NilIsNoRecord, Zenon
    <3>4. /\ [acct EXCEPT !.code = code].state = acct.state
          /\ [acct EXCEPT !.code = code].trieDirty = acct.trieDirty
      BY <2>1, Zenon DEF Account
    <3> QED BY <2>1, <2>4, <3>1, <3>2, <3>3, <3>4, Zenon
  <2>6. store'[s] \in WorldState
    <3>1. store[s] \in WorldState
      BY <1>1, AccountTypes, Zenon
    <3>2. store'[s].accountCache \in [Addresses -> Account \cup {Nil}]
      BY <2>4, <2>5, <3>1, Zenon DEF WorldState
    <3> QED BY <2>4, <3>1, <3>2, Zenon DEF WorldState
  <2>7. TypeOK'
    BY <1>1, <2>2, <2>4, <2>6, Zenon DEF TypeOK, Stores
  <2>8. \A t \in Stores : Opened(t)' => StoreInv(t)'
    <3> SUFFICES ASSUME NEW t \in Stores, Opened(t)' PROVE StoreInv(t)'
      BY Zenon
    <3>1. CASE t = s
      <4>1. StoreInv(s)
        BY <1>1, Zenon DEF IInv
      <4> SUFFICES ASSUME NEW b \in Addresses
                   PROVE  /\ CacheOK(s, b)'
                          /\ b \notin torn[s] => AsWritten(s, b)' /\ Saved(s, b)'
        BY <2>2, <3>1, Zenon DEF StoreInv
      <4>2. CacheOK(s, b) /\ (b \notin torn[s] => AsWritten(s, b) /\ Saved(s, b))
        BY <4>1, Zenon DEF StoreInv
      <4>3. /\ store'[s].trie = store[s].trie /\ store'[s].filed = store[s].filed
            /\ store[s].accountCache[b] = Nil <=> store'[s].accountCache[b] = Nil
            /\ store'[s].accountCache[b] # Nil =>
                  /\ store'[s].accountCache[b].state = store[s].accountCache[b].state
                  /\ store'[s].accountCache[b].trieDirty = store[s].accountCache[b].trieDirty
        BY <2>4, <2>5, Zenon
      <4>4. CacheOK(s, b)'
        BY <4>2, <4>3, Zenon DEF CacheOK
      <4>5. b \notin torn[s] => AsWritten(s, b)'
        BY <2>2, <4>2, <4>3, StillAsWritten, Zenon
      <4>6. b \notin torn[s] => Saved(s, b)'
        BY <2>2, <4>2, <4>3 DEF Saved
      <4> QED BY <4>4, <4>5, <4>6, Zenon
    <3>2. CASE t # s
      <4>1. store'[t] = store[t] /\ StoreInv(t)
        BY <2>4, <3>2, Zenon DEF IInv, Opened
      <4> QED BY <2>2, <4>1, Untouched, Zenon
    <3> QED BY <3>1, <3>2, Zenon
  <2>9. MainInv'
    <3>1. CASE s = "main"
      BY <2>2, <2>4, <2>5, <3>1, MainUntouched, Zenon DEF IInv
    <3>2. CASE s # "main"
      <4>1. store'["main"] = store["main"]
        BY <2>4, <3>2, Zenon DEF Stores
      <4> QED BY <2>2, <4>1, MainUntouched, Zenon DEF IInv
    <3> QED BY <3>1, <3>2, Zenon
  <2> QED BY <2>2, <2>7, <2>8, <2>9, StillReadBack, Zenon DEF IInv, EmptyRoot
<1> QED BY <1>2, <1>3, Zenon

\* The account a batch is applied to is the one written before, and its storage
\* trie is in the database unless the account is dirty.
LEMMA PreloadedAccount ==
    ASSUME IInv, NEW s \in Stores, Opened(s), NEW a \in Addresses
    PROVE  /\ s = "main" \/ a \notin torn[s] =>
                  IF contents[s][a] = Nil THEN Preload(s, a).state = EmptyAccountState
                  ELSE Stands(Preload(s, a).state, contents[s][a])
           /\ a \notin torn[s] /\ ~Preload(s, a).trieDirty =>
                  Preload(s, a).state.root \in storageRoots
<1> DEFINE acct == store[s].accountCache[a]
           state == store[s].trie[a]
<1>1. TypeOK /\ StoreInv(s) /\ EmptyRoot \in storageRoots
  BY Zenon DEF IInv
<1>2. acct \in Account \cup {Nil} /\ state \in StateAccount \cup {Nil}
  BY <1>1, AccountTypes, Zenon DEF WorldState, WorldTrie
<1>3. s = "main" \/ a \notin torn[s] => Stands(state, contents[s][a])
  BY <1>1, Zenon DEF IInv, MainInv, StoreInv, AsWritten
<1>4. CASE acct # Nil
  <2>1. Preload(s, a) = acct /\ acct.state = state
    BY <1>1, <1>4, Zenon DEF Preload, GetAccount, StoreInv, CacheOK
  <2>2. state # Nil
    BY <1>2, <1>4, <2>1, NilIsNoRecord, Zenon DEF Account
  <2>3. a \notin torn[s] /\ ~acct.trieDirty => state.root \in storageRoots
    BY <1>1, <2>2, Zenon DEF StoreInv, Saved
  <2> QED BY <1>3, <2>1, <2>2, <2>3, Zenon DEF Stands
<1>5. CASE acct = Nil /\ state = Nil
  <2>1. Preload(s, a) = NewAccount
    BY <1>5, Zenon DEF Preload, GetAccount, LoadAccount
  <2>2. NewAccount.state = EmptyAccountState /\ EmptyAccountState.root = EmptyRoot
    BY Zenon DEF NewAccount, EmptyAccountState
  <2>3. s = "main" \/ a \notin torn[s] => contents[s][a] = Nil
    BY <1>3, <1>5, Zenon DEF Stands
  <2> QED BY <1>1, <2>1, <2>2, <2>3, Zenon
<1>6. CASE acct = Nil /\ state # Nil
  <2>1. a \notin torn[s] => state.root \in storageRoots
    BY <1>1, <1>6, Zenon DEF StoreInv, Saved
  <2>2. s = "main" => FALSE
    BY <1>6, Zenon DEF IInv, MainInv
  <2>3. ASSUME a \notin torn[s]
        PROVE  Preload(s, a).state = state
    <3> DEFINE loaded == [state |-> state, code |-> LoadCode(state.codeHash),
                          hasBackend |-> FALSE, trieDirty |-> FALSE]
    <3>1. GetAccount(s, a) = loaded
      BY <1>6, <2>1, <2>3, Zenon DEF GetAccount, LoadAccount
    <3>2. loaded \in Account
      BY <1>2, <1>6, Zenon DEF Account, LoadCode, StateAccount
    <3>3. loaded # Nil
      BY <3>2, NilIsNoRecord, Zenon
    <3> QED BY <3>1, <3>3 DEF Preload
  <2>4. a \notin torn[s] => contents[s][a] # Nil
    BY <1>3, <1>6, Zenon DEF Stands
  <2> QED BY <1>3, <2>1, <2>2, <2>3, <2>4, Zenon
<1> QED BY <1>4, <1>5, <1>6, Zenon

\* EthStorageWriter.Commit: the tries of the dirty accounts, which are all
\* filed, reach the database together with the world trie that refers to them.
LEMMA CommitStep ==
    ASSUME IInv, NEW s \in Stores, Commit(s)
    PROVE  IInv'
<1> DEFINE cache == store[s].accountCache
           clean == [a \in Addresses |-> IF a \in ToCommit(s)
                                         THEN [cache[a] EXCEPT !.trieDirty = FALSE]
                                         ELSE cache[a]]
           pub == [root |-> store[s].trie, contents |-> contents[s], torn |-> torn[s]]
<1>1. TypeOK /\ Opened(s) /\ StoreInv(s) /\ precommits' \in Nat /\ opens' \in Nat
  BY Zenon DEF IInv, Commit, TypeOK
<1>2. CASE \E a \in ToCommit(s) : ~store[s].accountCache[a].hasBackend
  BY <1>1, <1>2, CrashStep, Zenon DEF Commit
<1>3. CASE ~(\E a \in ToCommit(s) : ~store[s].accountCache[a].hasBackend)
  <2>1. store[s] \in WorldState
    BY <1>1, StoreType, Zenon
  <2>2. /\ storageRoots' = storageRoots \cup {cache[a].state.root : a \in ToCommit(s)}
        /\ worldRoots' = worldRoots \cup {store[s].trie}
        /\ published' = published \cup {pub}
        /\ UNCHANGED <<codeDB, crashed, contents, torn>>
    BY <1>3, Zenon DEF Commit, Publish
  <2>3. store' = [store EXCEPT ![s].accountCache = clean, ![s].filed = {}]
    BY <1>3, Zenon DEF Commit
  <2>4. /\ store'[s] = [trie |-> store[s].trie, accountCache |-> clean, filed |-> {}]
        /\ \A t \in Stores \ {s} : store'[t] = store[t]
        /\ DOMAIN store' = Stores
    BY <1>1, <2>1, <2>3, Zenon DEF TypeOK, WorldState
  <2>5. \A a \in ToCommit(s) : a \in Addresses /\ cache[a] \in Account
    BY <1>1, <2>1, Zenon DEF ToCommit, WorldState, StoreInv, CacheOK
  <2>6. \A a \in Addresses : cache[a] # Nil /\ cache[a].trieDirty => a \in ToCommit(s)
    BY <1>1, Zenon DEF StoreInv, CacheOK, ToCommit
  <2>7. \A a \in Addresses :
           /\ clean[a] \in Account \cup {Nil}
           /\ clean[a] = Nil <=> cache[a] = Nil
           /\ clean[a] # Nil => clean[a].state = cache[a].state /\ ~clean[a].trieDirty
    <3> SUFFICES ASSUME NEW a \in Addresses
                 PROVE  /\ clean[a] \in Account \cup {Nil}
                        /\ clean[a] = Nil <=> cache[a] = Nil
                        /\ clean[a] # Nil =>
                               clean[a].state = cache[a].state /\ ~clean[a].trieDirty
      BY Zenon
    <3>1. CASE a \in ToCommit(s)
      <4>1. clean[a] = [cache[a] EXCEPT !.trieDirty = FALSE] /\ cache[a] \in Account
        BY <2>5, <3>1, Zenon
      <4>2. clean[a] \in Account
        BY <4>1, Zenon DEF Account
      <4>3. clean[a].state = cache[a].state /\ ~clean[a].trieDirty
        BY <4>1, Zenon DEF Account
      <4> QED BY <4>1, <4>2, <4>3, NilIsNoRecord, Zenon
    <3>2. CASE a \notin ToCommit(s)
      BY <2>1, <2>6, <3>2, Zenon DEF WorldState
    <3> QED BY <3>1, <3>2, Zenon
  <2>8. /\ store'[s].trie = store[s].trie /\ store'[s].filed = {}
         /\ store'[s].accountCache = clean
         /\ clean \in [Addresses -> Account \cup {Nil}]
    BY <2>4, <2>7
  <2> HIDE DEF clean
  <2>9. \A a \in Addresses \ torn[s] :
           store[s].trie[a] # Nil => store[s].trie[a].root \in storageRoots'
    BY <1>1, <2>2, <2>6, Zenon DEF StoreInv, Saved, CacheOK
  <2>10. TypeOK'
    <3>1. store'[s] \in WorldState
      BY <2>1, <2>4, <2>8, Zenon DEF WorldState
    <3>2. storageRoots' \subseteq StorageTrie
      BY <1>1, <2>2, <2>5 DEF TypeOK, Account, StateAccount
    <3>3. worldRoots' \subseteq WorldTrie
      BY <1>1, <2>1, <2>2, Zenon DEF TypeOK, WorldState
    <3>4. pub \in [root : WorldTrie, contents : [Addresses -> Contents \cup {Nil}],
                   torn : SUBSET Addresses]
      BY <1>1, <2>1, Zenon DEF TypeOK, WorldState
    <3> QED BY <1>1, <2>2, <2>4, <3>1, <3>2, <3>3, <3>4, Zenon DEF TypeOK, Stores
  <2>11. \A t \in Stores : Opened(t)' => StoreInv(t)'
    <3> SUFFICES ASSUME NEW t \in Stores, Opened(t)' PROVE StoreInv(t)'
      BY Zenon
    <3>1. CASE t = s
      <4> SUFFICES ASSUME NEW a \in Addresses
                   PROVE  /\ CacheOK(s, a)'
                          /\ a \notin torn[s] => AsWritten(s, a)' /\ Saved(s, a)'
        BY <2>2, <3>1, Zenon DEF StoreInv
      <4>1. CacheOK(s, a)'
        BY <1>1, <2>7, <2>8, Zenon DEF StoreInv, CacheOK
      <4>2. a \notin torn[s] => AsWritten(s, a)'
        <5>1. a \notin torn[s] => AsWritten(s, a)
          BY <1>1, Zenon DEF StoreInv
        <5> QED BY <2>2, <2>8, <5>1, StillAsWritten, Zenon
      <4>3. a \notin torn[s] => Saved(s, a)'
        BY <2>8, <2>9, Zenon DEF Saved
      <4> QED BY <4>1, <4>2, <4>3, Zenon
    <3>2. CASE t # s
      <4>1. store'[t] = store[t] /\ StoreInv(t)
        BY <2>4, <3>2, Zenon DEF IInv, Opened
      <4> QED BY <2>2, <4>1, Untouched, Zenon
    <3> QED BY <3>1, <3>2, Zenon
  <2>12. MainInv'
    <3>1. CASE s = "main"
      <4>1. /\ store'["main"].trie = store["main"].trie
            /\ \A a \in Addresses : store'["main"].accountCache[a] = Nil <=>
                                     store["main"].accountCache[a] = Nil
        BY <2>7, <2>8, <3>1, Zenon
      <4> QED BY <2>2, <4>1, MainUntouched, Zenon DEF IInv
    <3>2. CASE s # "main"
      <4>1. store'["main"] = store["main"]
        BY <2>4, <3>2, Zenon DEF Stores
      <4> QED BY <2>2, <4>1, MainUntouched, Zenon DEF IInv
    <3> QED BY <3>1, <3>2, Zenon
  <2>13. RootsReadBack'
    <3> SUFFICES ASSUME NEW p \in published'
                 PROVE  /\ p.root \in worldRoots'
                        /\ \A a \in Addresses \ p.torn :
                               /\ Stands(p.root[a], p.contents[a])'
                               /\ p.root[a] # Nil => p.root[a].root \in storageRoots'
      BY <2>2, Zenon DEF RootsReadBack, Stands
    <3>1. CASE p \in published
      BY <2>2, <3>1, Zenon DEF IInv, RootsReadBack, Stands
    <3>2. CASE p = pub
      <4>1. \A a \in Addresses \ torn[s] : Stands(store[s].trie[a], contents[s][a])
        BY <1>1, Zenon DEF StoreInv, AsWritten
      <4> QED BY <2>2, <2>9, <3>2, <4>1, Zenon DEF Stands
    <3> QED BY <2>2, <3>1, <3>2, Zenon
  <2> QED BY <2>2, <2>10, <2>11, <2>12, <2>13, Zenon DEF IInv, EmptyRoot
<1> QED BY <1>2, <1>3, Zenon

\* EthStorageWriter.Precommit: every account of the batch is updated in cache
\* and world trie alike, and filed; its code is stored first.
LEMMA PrecommitStep ==
    ASSUME IInv, NEW s \in Stores, NEW batch \in Batches, Precommit(s, batch)
    PROVE  IInv'
<1> DEFINE cache == store[s].accountCache
           trie == store[s].trie
           written == DOMAIN batch
           acct(a) == UpdateAccountStorageTrie(Preload(s, a), batch[a])
           coded == {a \in written : batch[a].code # Unset}
           newCache == [a \in Addresses |-> IF a \in written THEN acct(a) ELSE cache[a]]
           newTrie == [a \in Addresses |-> IF a \in written THEN acct(a).state ELSE trie[a]]
           empty == [field |-> Zero, code |-> EmptyCode, storage |-> EmptyRoot]
           old(a) == IF contents[s][a] = Nil THEN empty ELSE contents[s][a]
           new(a) == [field |-> Over(batch[a].field, old(a).field),
                      code |-> Over(batch[a].code, old(a).code),
                      storage |-> WrittenOver(old(a).storage, batch[a].slots)]
           toStorage == {a \in written : \E k \in Slots : batch[a].slots[k] # Unset}
           unmarked == {a \in written \ toStorage :
                           ~IsEmptyWrite(batch[a]) /\ Preload(s, a).trieDirty}
<1>1. TypeOK /\ Opened(s) /\ StoreInv(s) /\ precommits' \in Nat /\ opens' \in Nat
  <2>1. Opened(s) /\ precommits' = precommits + 1 /\ opens' = opens
    BY Zenon DEF Precommit
  <2> QED BY <2>1 DEF IInv, TypeOK
<1>2. CASE \E a \in coded : ~Preload(s, a).hasBackend
  BY <1>1, <1>2, CrashStep, Zenon DEF Precommit
<1>3. CASE ~(\E a \in coded : ~Preload(s, a).hasBackend)
  <2>1. store[s] \in WorldState
    BY <1>1, StoreType, Zenon
  <2>2. store' = [store EXCEPT ![s].accountCache = newCache, ![s].trie = newTrie,
                               ![s].filed = @ \cup written]
    BY <1>3, Zenon DEF Precommit
  <2>3. /\ codeDB' = codeDB \cup {batch[a].code : a \in coded}
        /\ UNCHANGED <<storageRoots, worldRoots, crashed, published>>
    BY <1>3, Zenon DEF Precommit, RecordWrites
  <2>4. contents' = [contents EXCEPT ![s] =
                       [a \in Addresses |-> IF a \in written THEN new(a) ELSE contents[s][a]]]
    BY <1>3, Zenon DEF Precommit, RecordWrites
  <2>5. torn' = [torn EXCEPT ![s] =
                   (IF s = "main" THEN torn[s] \ toStorage ELSE torn[s]) \cup unmarked]
    BY <1>3, Zenon DEF Precommit, RecordWrites
  <2>6. /\ store'[s] = [trie |-> newTrie, accountCache |-> newCache,
                       filed |-> store[s].filed \cup written]
        /\ \A t \in Stores \ {s} : store'[t] = store[t]
        /\ DOMAIN store' = Stores
    BY <1>1, <2>1, <2>2, Zenon DEF TypeOK, WorldState
  <2>7. /\ contents'[s] = [a \in Addresses |-> IF a \in written THEN new(a)
                                                ELSE contents[s][a]]
        /\ torn'[s] = (IF s = "main" THEN torn[s] \ toStorage ELSE torn[s]) \cup unmarked
        /\ \A t \in Stores \ {s} : contents'[t] = contents[t] /\ torn'[t] = torn[t]
    BY <1>1, <2>4, <2>5, Zenon DEF TypeOK
  <2>8. \A a \in written : a \in Addresses /\ batch[a] \in Write
    BY BatchTypes, Zenon
  <2>9. \A a \in written :
           /\ Preload(s, a) \in Account
           /\ acct(a) \in Account
           /\ acct(a).state = [field |-> Over(batch[a].field, Preload(s, a).state.field),
                               codeHash |-> Over(batch[a].code, Preload(s, a).state.codeHash),
                               root |-> WrittenOver(Preload(s, a).state.root, batch[a].slots)]
           /\ acct(a).trieDirty = IF IsEmptyWrite(batch[a]) THEN Preload(s, a).trieDirty
                                  ELSE \E k \in Slots : batch[a].slots[k] # Unset
    <3> SUFFICES ASSUME NEW a \in written
                 PROVE  Preload(s, a) \in Account
      BY <2>8, UpdatedAccount, Zenon
    <3> QED BY <1>1, <2>8, AccountTypes, Zenon
  <2>10. \A a \in written : old(a) \in Contents /\ new(a) \in Contents
    <3> SUFFICES ASSUME NEW a \in written PROVE old(a) \in Contents /\ new(a) \in Contents
      BY Zenon
    <3>1. empty \in Contents
      BY WorldAssumption, Zenon DEF Contents, EmptyRoot, StorageTrie
    <3>2. old(a) \in Contents
      BY <1>1, <2>8, <3>1, Zenon DEF TypeOK
    <3>3. WrittenOver(old(a).storage, batch[a].slots) \in StorageTrie
      BY <2>8, <3>2, Zenon DEF Contents, WrittenOver, Over, StorageTrie, Write
    <3>4. Over(batch[a].field, old(a).field) \in Vals /\ Over(batch[a].code, old(a).code) \in Codes
      BY <2>8, <3>2, Zenon DEF Contents, Over, Write
    <3> QED BY <3>2, <3>3, <3>4, Zenon DEF Contents
  <2>11. \A a \in written : s = "main" \/ a \notin torn[s] =>
            /\ acct(a).state # Nil /\ new(a) # Nil
            /\ acct(a).state.field = new(a).field
            /\ acct(a).state.codeHash = new(a).code
            /\ acct(a).state.root = new(a).storage
            /\ new(a).code \in codeDB' \cup {EmptyCode}
    <3> SUFFICES ASSUME NEW a \in written, s = "main" \/ a \notin torn[s]
                 PROVE  /\ acct(a).state # Nil /\ new(a) # Nil
                        /\ acct(a).state.field = new(a).field
                        /\ acct(a).state.codeHash = new(a).code
                        /\ acct(a).state.root = new(a).storage
                        /\ new(a).code \in codeDB' \cup {EmptyCode}
      BY Zenon
    <3>1. /\ Preload(s, a).state.field = old(a).field
          /\ Preload(s, a).state.codeHash = old(a).code
          /\ Preload(s, a).state.root = old(a).storage
          /\ old(a).code \in codeDB \cup {EmptyCode}
      <4>1. IF contents[s][a] = Nil THEN Preload(s, a).state = EmptyAccountState
            ELSE Stands(Preload(s, a).state, contents[s][a])
        BY <1>1, <2>8, PreloadedAccount, Zenon
      <4>2. CASE contents[s][a] = Nil
        <5>1. Preload(s, a).state = EmptyAccountState /\ old(a) = empty
          BY <4>1, <4>2, Zenon
        <5> HIDE DEF old
        <5> QED BY <5>1 DEF EmptyAccountState
      <4>3. CASE contents[s][a] # Nil
        <5>1. Stands(Preload(s, a).state, contents[s][a]) /\ old(a) = contents[s][a]
          BY <4>1, <4>3, Zenon
        <5>2. Preload(s, a).state # Nil
          BY <2>9, NilIsNoRecord, Zenon DEF Account
        <5> HIDE DEF old
        <5> QED BY <4>3, <5>1, <5>2, Zenon DEF Stands
      <4> QED BY <4>2, <4>3, Zenon
    <3>2. Over(batch[a].code, old(a).code) \in codeDB' \cup {EmptyCode}
      BY <2>3, <3>1, Zenon DEF Over
    <3>3. acct(a).state # Nil /\ new(a) # Nil
      BY <2>9, <2>10, NilIsNoRecord, Zenon DEF Account
    <3>4. /\ acct(a).state.field = Over(batch[a].field, Preload(s, a).state.field)
          /\ acct(a).state.codeHash = Over(batch[a].code, Preload(s, a).state.codeHash)
          /\ acct(a).state.root = WrittenOver(Preload(s, a).state.root, batch[a].slots)
      <4> DEFINE field == Over(batch[a].field, Preload(s, a).state.field)
                 hash == Over(batch[a].code, Preload(s, a).state.codeHash)
                 root == WrittenOver(Preload(s, a).state.root, batch[a].slots)
      <4>1. acct(a).state = [field |-> field, codeHash |-> hash, root |-> root]
        BY <2>9, Zenon
      <4> HIDE DEF acct, field, hash, root
      <4>2. /\ acct(a).state.field = field /\ acct(a).state.codeHash = hash
            /\ acct(a).state.root = root
        BY <4>1
      <4> QED BY <4>2, Zenon DEF field, hash, root
    <3>5. /\ new(a).field = Over(batch[a].field, old(a).field)
          /\ new(a).code = Over(batch[a].code, old(a).code)
          /\ new(a).storage = WrittenOver(old(a).storage, batch[a].slots)
      BY Zenon
    <3> HIDE DEF acct, old, new
    <3>6. acct(a).state.field = new(a).field
      BY <3>1, <3>4, <3>5, Zenon
    <3>7. acct(a).state.codeHash = new(a).code
      BY <3>1, <3>4, <3>5, Zenon
    <3>8. acct(a).state.root = new(a).storage
      BY <3>1, <3>4, <3>5, Zenon
    <3>9. new(a).code \in codeDB' \cup {EmptyCode}
      BY <3>2, <3>5, Zenon
    <3> QED BY <3>3, <3>6, <3>7, <3>8, <3>9, Zenon
  <2>12. \A a \in written : a \notin torn'[s] =>
            acct(a).state.root \in storageRoots \/ acct(a).trieDirty
    <3> SUFFICES ASSUME NEW a \in written, a \notin torn'[s], ~acct(a).trieDirty
                 PROVE  acct(a).state.root \in storageRoots
      BY Zenon
    <3>1. a \notin toStorage
      BY <2>9, Zenon DEF IsEmptyWrite
    <3>2. ~Preload(s, a).trieDirty /\ a \notin torn[s]
      BY <2>7, <2>9, <3>1, Zenon
    <3>3. Preload(s, a).state.root \in storageRoots
      BY <1>1, <2>8, <3>2, PreloadedAccount, Zenon
    <3>4. Preload(s, a).state.root \in StorageTrie
      BY <2>9, Zenon DEF Account, StateAccount
    <3>5. WrittenOver(Preload(s, a).state.root, batch[a].slots) = Preload(s, a).state.root
      BY <3>1, <3>4, Zenon DEF WrittenOver, Over, StorageTrie
    <3>6. acct(a).state = [field |-> Over(batch[a].field, Preload(s, a).state.field),
                           codeHash |-> Over(batch[a].code, Preload(s, a).state.codeHash),
                           root |-> WrittenOver(Preload(s, a).state.root, batch[a].slots)]
      BY <2>9, Zenon
    <3> HIDE DEF acct
    <3> QED BY <3>3, <3>5, <3>6
  <2>13. \A a \in Addresses \ written :
            /\ newCache[a] = cache[a] /\ newTrie[a] = trie[a]
            /\ contents'[s][a] = contents[s][a]
            /\ a \notin torn'[s] => a \notin torn[s]
    BY <2>7, Zenon
  <2>14. \A a \in written :
            /\ newCache[a] = acct(a) /\ newTrie[a] = acct(a).state
            /\ contents'[s][a] = new(a)
            /\ a \notin torn'[s] => s = "main" \/ a \notin torn[s]
            /\ acct(a) # Nil
    BY <2>7, <2>8, <2>9, NilIsNoRecord, Zenon
  <2>15. TypeOK'
    <3>1. newCache \in [Addresses -> Account \cup {Nil}]
      BY <2>1, <2>9, Zenon DEF WorldState
    <3>2. newTrie \in WorldTrie
      <4>1. \A a \in written : acct(a).state \in StateAccount
        BY <2>9, Zenon DEF Account
      <4>2. trie \in WorldTrie
        BY <2>1, Zenon DEF WorldState
      <4> HIDE DEF acct
      <4> QED BY <4>1, <4>2, Zenon DEF WorldTrie
    <3>3. store'[s] \in WorldState
      <4>1. store[s].filed \cup written \in SUBSET Addresses
        BY <2>1, <2>8, Zenon DEF WorldState
      <4> HIDE DEF newCache, newTrie
      <4> QED BY <2>6, <3>1, <3>2, <4>1 DEF WorldState
    <3>4. codeDB' \subseteq Codes
      <4>1. \A a \in coded : batch[a].code \in Codes
        BY <2>8, Zenon DEF Write
      <4>2. codeDB \subseteq Codes
        BY <1>1, Zenon DEF TypeOK
      <4> QED BY <2>3, <4>1, <4>2, Zenon
    <3>5. contents'[s] \in [Addresses -> Contents \cup {Nil}]
      <4>1. contents[s] \in [Addresses -> Contents \cup {Nil}]
        BY <1>1, Zenon DEF TypeOK
      <4>2. /\ \A a \in written : new(a) \in Contents
            /\ contents'[s] = [a \in Addresses |-> IF a \in written THEN new(a)
                                                   ELSE contents[s][a]]
        BY <2>7, <2>10, Zenon
      <4> HIDE DEF new
      <4> QED BY <4>1, <4>2, Zenon
    <3>6. contents' \in [Stores -> [Addresses -> Contents \cup {Nil}]]
      BY <1>1, <2>4, <2>7, <3>5, Zenon DEF TypeOK
    <3>7. torn' \in [Stores -> SUBSET Addresses]
      BY <1>1, <2>5, <2>8, Zenon DEF TypeOK
    <3> QED BY <1>1, <2>3, <2>6, <3>3, <3>4, <3>6, <3>7, Zenon DEF TypeOK, Stores
  <2> HIDE DEF acct, new, old, newCache, newTrie, empty
  <2>16. \A a \in Addresses :
            /\ CacheOK(s, a)'
            /\ s = "main" \/ a \notin torn'[s] => AsWritten(s, a)'
            /\ a \notin torn'[s] => Saved(s, a)'
    <3> SUFFICES ASSUME NEW a \in Addresses
                 PROVE  /\ CacheOK(s, a)'
                        /\ s = "main" \/ a \notin torn'[s] => AsWritten(s, a)'
                        /\ a \notin torn'[s] => Saved(s, a)'
      BY Zenon
    <3>0. /\ store'[s].trie = newTrie /\ store'[s].accountCache = newCache
          /\ store'[s].filed = store[s].filed \cup written
      BY <2>6
    <3>1. CASE a \in written
      <4>0. /\ store'[s].trie[a] = acct(a).state /\ store'[s].accountCache[a] = acct(a)
            /\ a \in store'[s].filed /\ contents'[s][a] = new(a) /\ acct(a) # Nil
            /\ a \notin torn'[s] => s = "main" \/ a \notin torn[s]
        BY <2>14, <3>0, <3>1, Zenon
      <4>1. CacheOK(s, a)'
        BY <4>0, Zenon DEF CacheOK
      <4>2. s = "main" \/ a \notin torn'[s] => AsWritten(s, a)'
        <5>1. s = "main" \/ a \notin torn'[s] =>
                /\ acct(a).state # Nil /\ new(a) # Nil
                /\ acct(a).state.field = new(a).field
                /\ acct(a).state.codeHash = new(a).code
                /\ acct(a).state.root = new(a).storage
                /\ new(a).code \in codeDB' \cup {EmptyCode}
          BY <2>11, <3>1, <4>0, Zenon
        <5> QED BY <4>0, <5>1, Zenon DEF AsWritten, Stands
      <4>3. a \notin torn'[s] => Saved(s, a)'
        <5>1. a \notin torn'[s] => acct(a).state.root \in storageRoots' \/ acct(a).trieDirty
          BY <2>3, <2>12, <3>1, Zenon
        <5> QED BY <4>0, <5>1, Zenon DEF Saved
      <4> QED BY <4>1, <4>2, <4>3, Zenon
    <3>2. CASE a \notin written
      <4>0. /\ store'[s].trie[a] = store[s].trie[a]
            /\ store'[s].accountCache[a] = store[s].accountCache[a]
            /\ a \in store'[s].filed <=> a \in store[s].filed
            /\ contents'[s][a] = contents[s][a]
            /\ a \notin torn'[s] => a \notin torn[s]
        BY <2>13, <3>0, <3>2, Zenon
      <4>1. CacheOK(s, a)'
        <5>1. CacheOK(s, a)
          BY <1>1, Zenon DEF StoreInv
        <5> QED BY <4>0, <5>1, Zenon DEF CacheOK
      <4>2. s = "main" \/ a \notin torn'[s] => AsWritten(s, a)
        BY <1>1, <4>0, Zenon DEF StoreInv, IInv, MainInv
      <4>3. s = "main" \/ a \notin torn'[s] => AsWritten(s, a)'
        BY <2>3, <4>0, <4>2, StillAsWritten, Zenon
      <4>4. a \notin torn'[s] => Saved(s, a)'
        <5>1. a \notin torn'[s] => Saved(s, a)
          BY <1>1, <4>0, Zenon DEF StoreInv
        <5> QED BY <2>3, <4>0, <5>1, Zenon DEF Saved
      <4> QED BY <4>1, <4>3, <4>4, Zenon
    <3> QED BY <3>1, <3>2, Zenon
  <2>17. \A t \in Stores : Opened(t)' => StoreInv(t)'
    <3> SUFFICES ASSUME NEW t \in Stores, Opened(t)' PROVE StoreInv(t)'
      BY Zenon
    <3>1. CASE t = s
      BY <2>16, <3>1, Zenon DEF StoreInv
    <3>2. CASE t # s
      <4>1. store'[t] = store[t] /\ StoreInv(t)
        BY <2>6, <3>2, Zenon DEF IInv, Opened
      <4> QED BY <2>3, <2>7, <3>2, <4>1, Untouched, Zenon
    <3> QED BY <3>1, <3>2, Zenon
  <2>18. MainInv'
    <3>1. CASE s = "main"
      <4>1. \A a \in Addresses : newTrie[a] # Nil => newCache[a] # Nil
        BY <2>13, <2>14, <3>1, Zenon DEF IInv, MainInv
      <4> QED BY <2>6, <2>16, <3>1, <4>1 DEF MainInv
    <3>2. CASE s # "main"
      <4>1. store'["main"] = store["main"] /\ contents'["main"] = contents["main"]
        BY <2>6, <2>7, <3>2, Zenon DEF Stores
      <4> QED BY <2>3, <4>1, MainUntouched, Zenon DEF IInv
    <3> QED BY <3>1, <3>2, Zenon
  <2>19. RootsReadBack'
    BY <2>3, StillReadBack, Zenon DEF IInv
  <2> QED BY <2>3, <2>15, <2>17, <2>18, <2>19, Zenon DEF IInv, EmptyRoot
<1> QED BY <1>2, <1>3, Zenon

\* A snapshot whose version cannot be loaded is gone; the main store stays.
LEMMA SnapshotGone ==
    ASSUME IInv, store' = [store EXCEPT !["snapshot"] = Nil],
           UNCHANGED <<dbVars, crashed, historyVars>>,
           precommits' \in Nat, opens' \in Nat
    PROVE  IInv'
<1>1. TypeOK /\ UNCHANGED <<storageRoots, worldRoots, codeDB, contents, torn, published>>
  BY Zenon DEF IInv, dbVars, historyVars
<1>2. store'["main"] = store["main"] /\ store'["snapshot"] = Nil /\ DOMAIN store' = Stores
  BY <1>1, Zenon DEF TypeOK, Stores
<1>3. TypeOK'
  BY <1>1, <1>2, Zenon DEF TypeOK
<1>4. \A t \in Stores : Opened(t)' => StoreInv(t)'
  <2> SUFFICES ASSUME NEW t \in Stores, Opened(t)' PROVE StoreInv(t)'
    BY Zenon
  <2>1. t = "main" /\ StoreInv(t)
    BY <1>2, Zenon DEF IInv, Opened, Stores
  <2> QED BY <1>1, <1>2, <2>1, Untouched, Zenon
<1>5. MainInv'
  BY <1>1, <1>2, MainUntouched, Zenon DEF IInv
<1> QED BY <1>1, <1>3, <1>4, <1>5, StillReadBack, Zenon DEF IInv, EmptyRoot

\* Every step of either store keeps the invariant.
LEMMA NextIInv == IInv /\ [Next]_vars => IInv'
<1> SUFFICES ASSUME IInv, [Next]_vars PROVE IInv'
  BY Zenon
<1>1. precommits \in Nat /\ opens \in Nat /\ crashed \in BOOLEAN
  BY Zenon DEF IInv, TypeOK
<1>2. ASSUME NEW s \in Stores, NEW batch \in Batches, Precommit(s, batch) PROVE IInv'
  BY <1>2, PrecommitStep, Zenon
<1>3. ASSUME NEW s \in Stores, Commit(s) PROVE IInv'
  BY <1>3, CommitStep, Zenon
<1>4. ASSUME NEW s \in Stores, NEW a \in Addresses, GetCode(s, a) PROVE IInv'
  BY <1>4, GetCodeStep, Zenon
<1>5. ASSUME NEW root \in KnownRoots, NewEthStateSnapshot(root) PROVE IInv'
  <2>1. precommits' \in Nat /\ opens' \in Nat
    BY <1>1, <1>5 DEF NewEthStateSnapshot
  <2>2. CASE root \in worldRoots
    BY <1>5, <2>1, <2>2, LoadStep, Zenon DEF NewEthStateSnapshot
  <2>3. CASE root \notin worldRoots
    BY <1>1, <1>5, <2>1, <2>3, NothingWritten, Zenon DEF NewEthStateSnapshot
  <2> QED BY <2>2, <2>3, Zenon
<1>6. ASSUME NEW root \in KnownRoots, SetVersion(root) PROVE IInv'
  <2>1. precommits' \in Nat /\ opens' \in Nat
    BY <1>1, <1>6 DEF SetVersion
  <2>2. CASE store["snapshot"] = Nil
    BY <1>6, <2>1, <2>2, CrashStep, Zenon DEF SetVersion
  <2>3. CASE store["snapshot"] # Nil /\ root \in worldRoots
    BY <1>6, <2>1, <2>3, LoadStep, Zenon DEF SetVersion
  <2>4. CASE store["snapshot"] # Nil /\ root \notin worldRoots
    BY <1>6, <2>1, <2>4, SnapshotGone, Zenon DEF SetVersion
  <2> QED BY <2>2, <2>3, <2>4, Zenon
<1>7. CASE UNCHANGED vars
  BY <1>1, <1>7, NothingWritten, Zenon DEF vars
<1> QED BY <1>2, <1>3, <1>4, <1>5, <1>6, <1>7, Zenon DEF Next

-----------------------------------------------------------------------------
(* Theorems *)

\* In every behaviour of the two stores, a root that EthStorageWriter.Commit
\* made known can be opened again, and gives every account (but those whose
\* storage write lost its mark) the fields, code and storage it had then.
THEOREM CommittedRootsReadBack == Spec => []RootsReadBack
<1>1. IInv => RootsReadBack
  BY Zenon DEF IInv
<1> QED BY <1>1, InitIInv, NextIInv, PTL DEF Spec

\* In every behaviour of the two stores, GetAccount finds in each of them what
\* was last written to it, in the account cache or through the databases.
THEOREM StoresReadAsWritten == Spec => []ReadsAsWritten
<1>1. IInv => ReadsAsWritten
  <2> SUFFICES ASSUME IInv, NEW s \in Stores, Opened(s), NEW a \in Addresses, a \notin torn[s]
               PROVE  IF GetAccount(s, a) = Nil THEN contents[s][a] = Nil
                      ELSE Stands(GetAccount(s, a).state, contents[s][a])
    BY Zenon DEF ReadsAsWritten
  <2> DEFINE acct == store[s].accountCache[a]
             state == store[s].trie[a]
  <2>1. CacheOK(s, a) /\ AsWritten(s, a) /\ Saved(s, a)
    BY Zenon DEF IInv, StoreInv
  <2>2. CASE acct # Nil
    BY <2>1, <2>2, Zenon DEF GetAccount, CacheOK, AsWritten
  <2>3. CASE acct = Nil /\ state = Nil
    BY <2>1, <2>3, Zenon DEF GetAccount, LoadAccount, AsWritten, Stands
  <2>4. CASE acct = Nil /\ state # Nil
    <3>1. state.root \in storageRoots
      BY <2>1, <2>4, Zenon DEF Saved
    <3>2. state \in StateAccount
      BY <2>4, AccountTypes, Zenon DEF IInv, WorldState, WorldTrie
    <3>3. GetAccount(s, a) = [state |-> state, code |-> LoadCode(state.codeHash),
                              hasBackend |-> FALSE, trieDirty |-> FALSE]
      BY <2>4, <3>1, Zenon DEF GetAccount, LoadAccount
    <3>4. GetAccount(s, a) \in Account
      BY <3>2, <3>3 DEF Account, LoadCode, StateAccount
    <3>5. GetAccount(s, a) # Nil
      BY <3>4, NilIsNoRecord, Zenon
    <3>6. GetAccount(s, a).state = state
      BY <3>3
    <3> QED BY <2>1, <3>5, <3>6, Zenon DEF AsWritten
  <2> QED BY <2>2, <2>3, <2>4, Zenon
<1> QED BY <1>1, InitIInv, NextIInv, PTL DEF Spec

-----------------------------------------------------------------------------
(* Keys of full length *)

\* A key that decodes to a full-length string d is given back as d, which is
\* its own hash and can be decoded again.
LEMMA FullLengthKey ==
    ASSUME NEW key \in Seq(Digits), Len(Decoded(key)) = 2 * HashLen
    PROVE  /\ Decoded(key) \in Seq(Digits)
           /\ BytesToHash(Decoded(key)) = Decoded(key)
           /\ OutputKey(key) = Decoded(key)
           /\ ~MustDecodePanics(Decoded(key))
           /\ ~TooLong(key)
<1> DEFINE d == Decoded(key)
<1>1. HashLen \in Nat /\ 0 \in Digits
  BY HashAssumption, Zenon
<1>2. d \in Seq(Digits)
  BY <1>1 DEF Decoded
<1> HIDE DEF d
<1>3. Len(d) = 2 * HashLen /\ Len(d) % 2 = 0
  <2>1. Len(d) = 2 * HashLen
    BY Zenon DEF d
  <2> QED BY <1>1, <2>1
<1>4. BytesToHash(d) = d
  <2>1. Zeros(2 * HashLen - Len(d)) = <<>>
    <3>1. 2 * HashLen - Len(d) = 0
      BY <1>1, <1>3
    <3>2. Zeros(0) = <<>>
      BY DEF Zeros
    <3> QED BY <3>1, <3>2, Zenon
  <2> QED BY <1>2, <2>1 DEF BytesToHash
<1>5. ~MustDecodePanics(d)
  BY <1>3 DEF MustDecodePanics
<1>6. ~TooLong(key) /\ OutputKey(key) = d
  BY <1>1, <1>3 DEF TooLong, OutputKey, d
<1> QED BY <1>2, <1>4, <1>5, <1>6, Zenon DEF d

\* A slot is a key of full length.
LEMMA SlotIsKey ==
    ASSUME NEW slot \in Slots
    PROVE  slot \in Seq(Digits) /\ Decoded(slot) = slot /\ Len(slot) = 2 * HashLen
<1>1. HashLen \in Nat /\ slot \in [1..(2 * HashLen) -> Digits]
  BY HashAssumption, Zenon
<1>2. 2 * HashLen \in Nat
  BY <1>1
<1>3. slot \in Seq(Digits) /\ Len(slot) = 2 * HashLen
  BY <1>1, <1>2
<1>4. Len(slot) % 2 = 0
  BY <1>1, <1>3
<1> QED BY <1>3, <1>4 DEF Decoded

-----------------------------------------------------------------------------
(* Proofs *)

\* The account of a committed root is found, with what was written to it, and
\* the result of GetProof for a full-length key is made of it.
LEMMA ProvenAccount ==
    ASSUME TypeOK, RootsReadBack, NEW pub \in published,
           NEW a \in Addresses \ pub.torn, pub.contents[a] # Nil,
           NEW key \in Seq(Digits), Len(Decoded(key)) = 2 * HashLen
    PROVE  LET state == pub.root[a]
               val == Lookup(state.root, Decoded(key))
           IN  /\ state \in StateAccount /\ state # Nil
               /\ pub.root \in WorldTrie
               /\ state.field = pub.contents[a].field
               /\ state.codeHash = pub.contents[a].code
               /\ state.root = pub.contents[a].storage
               /\ GetProof(pub.root, a, key) =
                      [address |-> a, field |-> state.field,
                       codeHash |-> state.codeHash, storageHash |-> state.root,
                       accountProof |-> pub.root, key |-> Decoded(key),
                       value |-> IF val = Nil THEN Zero ELSE val,
                       storageProof |-> state.root]
<1> DEFINE state == pub.root[a]
           acct == LoadAccount(pub.root, a)
<1>1. pub.root \in WorldTrie /\ state \in StateAccount \cup {Nil}
  BY Zenon DEF TypeOK, WorldTrie
<1>2. Stands(state, pub.contents[a]) /\ (state # Nil => state.root \in storageRoots)
  BY Zenon DEF RootsReadBack
<1>3. /\ state # Nil /\ state.field = pub.contents[a].field
      /\ state.codeHash = pub.contents[a].code /\ state.root = pub.contents[a].storage
  BY <1>2, Zenon DEF Stands
<1>4. state \in StateAccount /\ state.root \in storageRoots
  BY <1>1, <1>2, <1>3, Zenon
<1>5. acct = [state |-> state, code |-> LoadCode(state.codeHash),
              hasBackend |-> FALSE, trieDirty |-> FALSE]
  BY <1>3, <1>4, Zenon DEF LoadAccount
<1>6. acct # Nil
  <2>1. acct \in Account
    BY <1>4, <1>5 DEF Account, LoadCode, StateAccount
  <2> QED BY <2>1, NilIsNoRecord, Zenon
<1>7. acct.state = state
  BY <1>5
<1> HIDE DEF acct, state
<1>8. /\ BytesToHash(Decoded(key)) = Decoded(key) /\ OutputKey(key) = Decoded(key)
      /\ ~TooLong(key)
  BY FullLengthKey, Zenon
<1>9. GetProof(pub.root, a, key) =
         [address |-> a, field |-> state.field,
          codeHash |-> state.codeHash, storageHash |-> state.root,
          accountProof |-> pub.root, key |-> Decoded(key),
          value |-> IF Lookup(state.root, Decoded(key)) = Nil THEN Zero
                    ELSE Lookup(state.root, Decoded(key)),
          storageProof |-> state.root]
  BY <1>6, <1>7, <1>8, Zenon DEF GetProof, acct
<1> QED BY <1>1, <1>3, <1>4, <1>9, Zenon DEF state

\* Verify and Validate accept what GetProof made for a committed root.
LEMMA ProofAccepted ==
    ASSUME TypeOK, RootsReadBack, NEW pub \in published,
           NEW a \in Addresses \ pub.torn, pub.contents[a] # Nil,
           NEW key \in Seq(Digits), Len(Decoded(key)) = 2 * HashLen
    PROVE  LET res == GetProof(pub.root, a, key)
               written == pub.contents[a]
               val == Lookup(written.storage, Decoded(key))
           IN  /\ res # Nil
               /\ res.value = IF val = Nil THEN Zero ELSE val
               /\ written.storage # EmptyRoot =>
                      ~ConvertPanics(res) /\ Verify(Convert(res), pub.root)
               /\ Validate(res, pub.root) = IF val = Nil THEN "error" ELSE "ok"
<1> DEFINE state == pub.root[a]
           root == pub.root
           d == Decoded(key)
           val == Lookup(state.root, d)
           shown == IF val = Nil THEN Zero ELSE val
           res == GetProof(pub.root, a, key)
<1>1. /\ state \in StateAccount /\ state # Nil /\ root \in WorldTrie
      /\ state.field = pub.contents[a].field
      /\ state.codeHash = pub.contents[a].code
      /\ state.root = pub.contents[a].storage
      /\ res = [address |-> a, field |-> state.field, codeHash |-> state.codeHash,
                storageHash |-> state.root, accountProof |-> root, key |-> d,
                value |-> shown, storageProof |-> state.root]
  BY ProvenAccount, Zenon
<1>2. d \in Seq(Digits) /\ BytesToHash(d) = d /\ ~MustDecodePanics(d)
  BY FullLengthKey, Zenon
<1>3. state.root \in StorageTrie /\ state.field \in Vals /\ state.codeHash \in Codes
  BY <1>1, Zenon DEF StateAccount
<1>4. val = (IF d \in Slots THEN state.root[d] ELSE Nil)
  BY <1>3, Zenon DEF Lookup, StorageTrie
<1>5. shown \in Vals
  BY <1>3, <1>4, WorldAssumption, Zenon DEF StorageTrie
<1> HIDE DEF res, shown, val, d, state, root
<1>6. /\ res.address = a /\ res.field = state.field /\ res.codeHash = state.codeHash
      /\ res.storageHash = state.root /\ res.accountProof = root /\ res.key = d
      /\ res.value = shown /\ res.storageProof = state.root
  BY <1>1, Zenon
<1>7. res # Nil
  <2>1. res \in AccountResult
    BY <1>1, <1>2, <1>3, <1>5, Zenon DEF AccountResult
  <2> QED BY <2>1, NilIsNoResult, Zenon
<1>8. ProofLeads(root, root)
  BY <1>1, Zenon DEF ProofLeads, WorldTrie, root, state
<1>9. state.root # EmptyRoot => ProofLeads(state.root, state.root)
  BY <1>3, Zenon DEF ProofLeads, StorageTrie, EmptyRoot
<1>10. ~ConvertPanics(res)
  BY <1>2, <1>6, Zenon DEF ConvertPanics
<1>11. ASSUME state.root # EmptyRoot
       PROVE  Verify(Convert(res), root)
  <2> DEFINE op == Convert(res)
  <2>1. op = [address |-> a, field |-> state.field, codeHash |-> state.codeHash,
              storageHash |-> state.root, accountProof |-> root, key |-> d,
              value |-> shown, storageProof |-> state.root]
    BY <1>1, <1>2 DEF Convert
  <2> HIDE DEF op
  <2>2. /\ op.address = a /\ op.field = state.field /\ op.codeHash = state.codeHash
        /\ op.storageHash = state.root /\ op.accountProof = root /\ op.key = d
        /\ op.value = shown /\ op.storageProof = state.root
    BY <2>1, Zenon
  <2>3. StorageVerified(op)
    BY <1>9, <1>11, <2>2, Zenon DEF StorageVerified, shown, val
  <2>4. root[a] = [field |-> state.field, codeHash |-> state.codeHash, root |-> state.root]
    BY <1>1, Zenon DEF StateAccount, state, root
  <2> QED BY <1>8, <2>2, <2>3, <2>4, Zenon DEF Verify, op
<1>12. Validate(res, root) = IF val = Nil THEN "error" ELSE "ok"
  <2>1. root[a] # Nil
    BY <1>1, Zenon DEF state, root
  <2>2. ~MustDecodePanics(res.key) /\ ProofLeads(root, res.accountProof)
    BY <1>2, <1>6, <1>8, Zenon
  <2>3. Lookup(res.storageHash, res.key) = val
    BY <1>6, Zenon DEF val
  <2>4. val # Nil => ProofLeads(res.storageHash, res.storageProof)
    <3>1. val # Nil => state.root # EmptyRoot
      BY <1>4, Zenon DEF EmptyRoot
    <3> QED BY <1>6, <1>9, <3>1, Zenon
  <2> QED BY <1>6, <2>1, <2>2, <2>3, <2>4, Zenon DEF Validate
<1>13. pub.contents[a].storage = state.root
  BY <1>1, Zenon
<1> QED BY <1>6, <1>7, <1>10, <1>11, <1>12, <1>13, Zenon DEF res, root, shown, val, d

\* A result with another value, field and code, and the rest as it was.
LEMMA ChangedResult ==
    ASSUME NEW res \in AccountResult, NEW value, NEW field, NEW code
    PROVE  LET claim == Claimed(res, value, field, code)
           IN  /\ claim.address = res.address /\ claim.storageHash = res.storageHash
               /\ claim.key = res.key
               /\ claim.value = value /\ claim.field = field /\ claim.codeHash = code
BY Zenon DEF AccountResult, Claimed

\* A claim that Verify accepts against a committed root is true of it.
LEMMA ClaimIsTrue ==
    ASSUME TypeOK, RootsReadBack, NEW pub \in published, NEW other \in published,
           NEW a \in Addresses \ (pub.torn \cup other.torn),
           NEW slot \in Slots, NEW value \in Vals, NEW field \in Vals, NEW code \in Codes,
           GetProof(other.root, a, slot) # Nil,
           Verify(Claimed(GetProof(other.root, a, slot), value, field, code), pub.root)
    PROVE  /\ pub.contents[a] # Nil
           /\ <<pub.contents[a].field, pub.contents[a].code>> = <<field, code>>
           /\ \/ pub.contents[a].storage[slot] = value
              \/ pub.contents[a].storage[slot] = Nil /\ value = Zero
<1> DEFINE res == GetProof(other.root, a, slot)
           claim == Claimed(res, value, field, code)
           from == other.root[a]
           state == pub.root[a]
<1>1. res # Nil /\ Verify(claim, pub.root)
  BY Zenon
<1>2. slot \in Seq(Digits) /\ Decoded(slot) = slot /\ Len(Decoded(slot)) = 2 * HashLen
  BY SlotIsKey, Zenon
<1>3. other.contents[a] # Nil
  <2>1. Stands(from, other.contents[a])
    BY Zenon DEF RootsReadBack
  <2>2. from # Nil
    BY <1>1, Zenon DEF GetProof, LoadAccount
  <2> QED BY <2>1, <2>2, Zenon DEF Stands
<1> DEFINE val == Lookup(from.root, slot)
           shown == IF val = Nil THEN Zero ELSE val
<1>4. /\ from \in StateAccount
      /\ res = [address |-> a, field |-> from.field, codeHash |-> from.codeHash,
                storageHash |-> from.root, accountProof |-> other.root, key |-> slot,
                value |-> shown, storageProof |-> from.root]
  <2>1. a \in Addresses \ other.torn
    BY Zenon
  <2> QED BY <1>2, <1>3, <2>1, ProvenAccount
<1>5. res \in AccountResult
  <2>1. from.root \in StorageTrie /\ from.field \in Vals /\ from.codeHash \in Codes
    BY <1>4, Zenon DEF StateAccount
  <2>2. shown \in Vals
    BY <2>1, WorldAssumption, Zenon DEF Lookup, StorageTrie
  <2>3. other.root \in WorldTrie
    BY Zenon DEF TypeOK
  <2> HIDE DEF res, shown, from
  <2> QED BY <1>2, <1>4, <2>1, <2>2, <2>3, Zenon DEF AccountResult
<1> HIDE DEF res, shown, from
<1>6. /\ claim.address = a /\ claim.field = field /\ claim.codeHash = code
      /\ claim.storageHash = from.root /\ claim.key = slot /\ claim.value = value
  <2>1. res.address = a /\ res.storageHash = from.root /\ res.key = slot
    BY <1>4, Zenon
  <2> QED BY <1>5, <2>1, ChangedResult
<1> HIDE DEF claim
<1>7. /\ state = [field |-> field, codeHash |-> code, root |-> from.root]
      /\ StorageVerified(claim)
  BY <1>1, <1>6, Zenon DEF Verify
<1>8. from.root \in StorageTrie
  BY <1>4, Zenon DEF StateAccount
<1>9. state # Nil
  <2>1. state \in StateAccount
    BY <1>7, <1>8 DEF StateAccount
  <2> QED BY <2>1, NilIsNoRecord, Zenon
<1>10. Stands(state, pub.contents[a])
  BY Zenon DEF RootsReadBack
<1>11. /\ pub.contents[a] # Nil /\ state.field = pub.contents[a].field
       /\ state.codeHash = pub.contents[a].code /\ state.root = pub.contents[a].storage
  BY <1>9, <1>10, Zenon DEF Stands
<1>12. state.field = field /\ state.codeHash = code /\ state.root = from.root
  BY <1>7
<1>13. from.root[slot] = value \/ (from.root[slot] = Nil /\ value = Zero)
  BY <1>6, <1>7, <1>8, Zenon DEF StorageVerified, Lookup, StorageTrie
<1> HIDE DEF state
<1> QED BY <1>11, <1>12, <1>13, Zenon

\* Every proof that is made for a committed root, for a key of full length,
\* states what was written and passes both checks.
THEOREM CommittedRootsProve == Spec => []ProofsVerify
<1>1. IInv => ProofsVerify
  <2> SUFFICES ASSUME IInv, NEW pub \in published, NEW a \in Addresses \ pub.torn,
                      NEW key \in Keys
               PROVE  LET res == GetProof(pub.root, a, key)
                          written == pub.contents[a]
                      IN  IF written = Nil THEN res = Nil
                          ELSE IsHash(key) =>
                              LET val == Lookup(written.storage, Decoded(key))
                              IN  /\ res # Nil
                                  /\ res.value = IF val = Nil THEN Zero ELSE val
                                  /\ written.storage # EmptyRoot =>
                                         ~ConvertPanics(res) /\ Verify(Convert(res), pub.root)
                                  /\ Validate(res, pub.root) =
                                         IF val = Nil THEN "error" ELSE "ok"
    BY Zenon DEF ProofsVerify
  <2>1. TypeOK /\ RootsReadBack /\ key \in Seq(Digits)
    BY HashAssumption, Zenon DEF IInv
  <2>2. CASE pub.contents[a] = Nil
    <3>1. pub.root[a] = Nil
      BY <2>1, <2>2, Zenon DEF RootsReadBack, Stands
    <3>2. LoadAccount(pub.root, a) = Nil
      BY <3>1, Zenon DEF LoadAccount
    <3>3. GetProof(pub.root, a, key) = Nil
      BY <3>2, Zenon DEF GetProof
    <3> QED BY <2>2, <3>3, Zenon
  <2>3. CASE pub.contents[a] # Nil
    BY <2>1, <2>3, ProofAccepted, Zenon DEF IsHash
  <2> QED BY <2>2, <2>3, Zenon
<1> QED BY <1>1, InitIInv, NextIInv, PTL DEF Spec

\* Whatever account, slot and value are claimed, Verify accepts the claim
\* against a committed root only if it is true of the state committed.
THEOREM VerifiedClaimsTrue == Spec => []OnlyTrueClaimsVerify
<1>1. ASSUME IInv
      PROVE  OnlyTrueClaimsVerify
  <2> SUFFICES ASSUME NEW pub \in published, NEW other \in published,
                      NEW a \in Addresses \ (pub.torn \cup other.torn), NEW slot \in Slots,
                      GetProof(other.root, a, slot) # Nil,
                      NEW value \in Vals, NEW field \in Vals, NEW code \in Codes,
                      Verify(Claimed(GetProof(other.root, a, slot), value, field, code),
                             pub.root)
               PROVE  /\ pub.contents[a] # Nil
                      /\ <<pub.contents[a].field, pub.contents[a].code>> = <<field, code>>
                      /\ \/ pub.contents[a].storage[slot] = value
                         \/ pub.contents[a].storage[slot] = Nil /\ value = Zero
    BY Zenon DEF OnlyTrueClaimsVerify
  <2>1. TypeOK /\ RootsReadBack
    BY <1>1 DEF IInv
  <2> QED BY <2>1, ClaimIsTrue
<1> QED BY <1>1, InitIInv, NextIInv, PTL DEF Spec

-----------------------------------------------------------------------------
(* Has and Get *)

\* A code that an account in the cache has loaded is in the code database.
CodesKnown ==
    \A s \in Stores : Opened(s) =>
        \A a \in Addresses : store[s].accountCache[a] # Nil =>
            store[s].accountCache[a].code \in codeDB \cup {Nil}

\* Whether it comes from the cache, from the trie or is new, the account that
\* a precommit works on has its code in the database or not loaded.
LEMMA PreloadedCode ==
    ASSUME TypeOK, CodesKnown, NEW s \in Stores, Opened(s), NEW a \in Addresses
    PROVE  Preload(s, a).code \in codeDB \cup {Nil}
<1>1. CASE store[s].accountCache[a] # Nil
  BY <1>1, Zenon DEF Preload, GetAccount, CodesKnown
<1>2. CASE store[s].accountCache[a] = Nil
  <2>1. GetAccount(s, a) # Nil => GetAccount(s, a).code \in codeDB \cup {Nil}
    BY <1>2, Zenon DEF GetAccount, LoadAccount, LoadCode
  <2>2. NewAccount.code = Nil
    BY Zenon DEF NewAccount
  <2> QED BY <2>1, <2>2, Zenon DEF Preload
<1> QED BY <1>1, <1>2, Zenon

\* A step on one store keeps the codes of the other known.
LEMMA OneStoreChanged ==
    ASSUME CodesKnown, NEW s \in Stores, codeDB \subseteq codeDB',
           \A t \in Stores \ {s} : store'[t] = store[t],
           \A a \in Addresses : store'[s].accountCache[a] # Nil =>
               store'[s].accountCache[a].code \in codeDB' \cup {Nil}
    PROVE  CodesKnown'
<1> SUFFICES ASSUME NEW t \in Stores, Opened(t)', NEW a \in Addresses,
                    store'[t].accountCache[a] # Nil
             PROVE  store'[t].accountCache[a].code \in codeDB' \cup {Nil}
  BY Zenon DEF CodesKnown
<1>1. CASE t # s
  <2>1. store'[t] = store[t] /\ Opened(t)
    BY <1>1, Zenon DEF Opened
  <2> QED BY <2>1, Zenon DEF CodesKnown
<1> QED BY <1>1, Zenon

\* A precommit stores a code before the cached account has it.
LEMMA CodesPrecommit ==
    ASSUME TypeOK, CodesKnown, NEW s \in Stores, NEW batch \in Batches,
           Precommit(s, batch)
    PROVE  CodesKnown'
<1> DEFINE cache == store[s].accountCache
           written == DOMAIN batch
           acct(a) == UpdateAccountStorageTrie(Preload(s, a), batch[a])
           coded == {a \in written : batch[a].code # Unset}
           newCache == [a \in Addresses |-> IF a \in written THEN acct(a) ELSE cache[a]]
           newTrie == [a \in Addresses |-> IF a \in written THEN acct(a).state
                                           ELSE store[s].trie[a]]
<1>1. Opened(s) /\ store[s] \in WorldState
  BY StoreType, Zenon DEF Precommit
<1>2. CASE \E a \in coded : ~Preload(s, a).hasBackend
  BY <1>2, Zenon DEF Precommit, Crash, dbVars, CodesKnown, Opened
<1>3. CASE ~(\E a \in coded : ~Preload(s, a).hasBackend)
  <2>1. /\ codeDB' = codeDB \cup {batch[a].code : a \in coded}
        /\ store' = [store EXCEPT ![s].accountCache = newCache, ![s].trie = newTrie,
                                  ![s].filed = @ \cup written]
    BY <1>3, Zenon DEF Precommit
  <2>2. /\ store'[s] = [trie |-> newTrie, accountCache |-> newCache,
                        filed |-> store[s].filed \cup written]
        /\ \A t \in Stores \ {s} : store'[t] = store[t]
    BY <1>1, <2>1, Zenon DEF TypeOK, WorldState
  <2>3. store'[s].accountCache = newCache
    BY <2>2
  <2>4. ASSUME NEW a \in written
        PROVE  acct(a).code \in codeDB' \cup {Nil}
    <3>1. Preload(s, a) \in Account /\ Preload(s, a).code \in codeDB \cup {Nil}
      BY <1>1, AccountTypes, BatchTypes, PreloadedCode, Zenon
    <3>2. acct(a).code \in {Preload(s, a).code} \cup {batch[a].code : b \in {a} \cap coded}
      <4>1. CASE IsEmptyWrite(batch[a])
        BY <4>1, Zenon DEF UpdateAccountStorageTrie
      <4>2. CASE ~IsEmptyWrite(batch[a])
        <5>1. acct(a).code = Over(batch[a].code, Preload(s, a).code)
          BY <3>1, <4>2, Zenon DEF UpdateAccountStorageTrie, Account
        <5> HIDE DEF acct
        <5> QED BY <5>1, Zenon DEF Over
      <4> QED BY <4>1, <4>2, Zenon
    <3> HIDE DEF acct
    <3> QED BY <2>1, <3>1, <3>2, Zenon
  <2>5. ASSUME NEW a \in Addresses, newCache[a] # Nil
        PROVE  newCache[a].code \in codeDB' \cup {Nil}
    <3>1. CASE a \in written
      <4>1. newCache[a] = acct(a)
        BY <3>1, Zenon
      <4> HIDE DEF newCache, acct
      <4> QED BY <2>4, <3>1, <4>1, Zenon
    <3>2. CASE a \notin written
      <4>1. newCache[a] = cache[a]
        BY <3>2, Zenon
      <4> HIDE DEF newCache
      <4> QED BY <1>1, <2>1, <2>5, <4>1, Zenon DEF CodesKnown
    <3> QED BY <3>1, <3>2, Zenon
  <2> HIDE DEF newCache
  <2> QED BY <2>1, <2>2, <2>3, <2>5, OneStoreChanged, Zenon
<1> QED BY <1>2, <1>3, Zenon

\* A commit changes the marks of cached accounts, not their codes.
LEMMA CodesCommit ==
    ASSUME IInv, CodesKnown, NEW s \in Stores, Commit(s)
    PROVE  CodesKnown'
<1> DEFINE cache == store[s].accountCache
           clean == [a \in Addresses |-> IF a \in ToCommit(s)
                                         THEN [cache[a] EXCEPT !.trieDirty = FALSE]
                                         ELSE cache[a]]
<1>1. Opened(s) /\ store[s] \in WorldState /\ TypeOK /\ StoreInv(s)
  BY StoreType, Zenon DEF Commit, IInv
<1>2. CASE \E a \in ToCommit(s) : ~store[s].accountCache[a].hasBackend
  BY <1>2, Zenon DEF Commit, Crash, dbVars, CodesKnown, Opened
<1>3. CASE ~(\E a \in ToCommit(s) : ~store[s].accountCache[a].hasBackend)
  <2>1. /\ codeDB' = codeDB
        /\ store' = [store EXCEPT ![s].accountCache = clean, ![s].filed = {}]
    BY <1>3, Zenon DEF Commit
  <2>2. /\ store'[s] = [trie |-> store[s].trie, accountCache |-> clean, filed |-> {}]
        /\ \A t \in Stores \ {s} : store'[t] = store[t]
    BY <1>1, <2>1, Zenon DEF TypeOK, WorldState
  <2>3. store'[s].accountCache = clean
    BY <2>2
  <2>4. ASSUME NEW a \in Addresses, clean[a] # Nil
        PROVE  clean[a].code \in codeDB \cup {Nil}
    <3>1. CASE a \in ToCommit(s)
      <4>1. clean[a] = [cache[a] EXCEPT !.trieDirty = FALSE]
        BY <3>1, Zenon
      <4>2. cache[a] # Nil /\ cache[a] \in Account
        BY <1>1, <3>1, Zenon DEF ToCommit, WorldState, StoreInv, CacheOK
      <4>3. cache[a].code \in codeDB \cup {Nil}
        BY <1>1, <4>2, Zenon DEF CodesKnown
      <4> HIDE DEF clean
      <4>4. clean[a].code = cache[a].code
        BY <4>1, <4>2, Zenon DEF Account
      <4> QED BY <4>3, <4>4, Zenon
    <3>2. CASE a \notin ToCommit(s)
      <4>1. clean[a] = cache[a]
        BY <3>2, Zenon
      <4> HIDE DEF clean
      <4> QED BY <1>1, <2>4, <4>1, Zenon DEF CodesKnown
    <3> QED BY <3>1, <3>2, Zenon
  <2> HIDE DEF clean
  <2> QED BY <2>1, <2>2, <2>3, <2>4, OneStoreChanged, Zenon
<1> QED BY <1>2, <1>3, Zenon

\* A code that Account.Get loads comes from the code database.
LEMMA CodesGetCode ==
    ASSUME TypeOK, CodesKnown, NEW s \in Stores, NEW a \in Addresses, GetCode(s, a)
    PROVE  CodesKnown'
<1> DEFINE cache == store[s].accountCache
           code == LoadCode(GetAccount(s, a).state.codeHash)
<1>1. Opened(s) /\ store[s] \in WorldState
  BY StoreType, Zenon DEF GetCode
<1>2. CASE ~GetAccount(s, a).hasBackend
  BY <1>2, Zenon DEF GetCode, Crash, dbVars, CodesKnown, Opened
<1>3. CASE GetAccount(s, a).hasBackend
  <2>1. /\ codeDB' = codeDB
        /\ store' = [store EXCEPT ![s].accountCache[a].code = code]
    BY <1>3, Zenon DEF GetCode, dbVars
  <2>2. code \in codeDB \cup {Nil}
    BY Zenon DEF LoadCode
  <2>3. cache[a] # Nil /\ cache[a] \in Account
    <3>1. cache[a] # Nil
      BY <1>3, Zenon DEF GetAccount, LoadAccount, GetCode
    <3> QED BY <1>1, <3>1, Zenon DEF WorldState
  <2> HIDE DEF code
  <2>4. /\ \A t \in Stores \ {s} : store'[t] = store[t]
        /\ store'[s].accountCache = [cache EXCEPT ![a].code = code]
    BY <1>1, <2>1, Zenon DEF TypeOK, WorldState
  <2>5. ASSUME NEW b \in Addresses, store'[s].accountCache[b] # Nil
        PROVE  store'[s].accountCache[b].code \in codeDB \cup {Nil}
    <3>1. cache \in [Addresses -> Account \cup {Nil}]
      BY <1>1, Zenon DEF WorldState
    <3>2. CASE b = a
      <4>1. store'[s].accountCache[b] = [cache[a] EXCEPT !.code = code]
        BY <2>4, <3>1, <3>2, Zenon
      <4>2. store'[s].accountCache[b].code = code
        BY <2>3, <4>1, Zenon DEF Account
      <4> QED BY <2>2, <4>2, Zenon
    <3>3. CASE b # a
      <4>1. store'[s].accountCache[b] = cache[b]
        BY <2>4, <3>1, <3>3, Zenon
      <4> QED BY <1>1, <2>5, <4>1, Zenon DEF CodesKnown
    <3> QED BY <3>2, <3>3, Zenon
  <2> QED BY <2>1, <2>4, <2>5, OneStoreChanged, Zenon
<1> QED BY <1>2, <1>3, Zenon

\* A store that is opened has cached nothing, and one that is gone is not open.
LEMMA CodesVersion ==
    ASSUME TypeOK, CodesKnown, NEW root,
           NewEthStateSnapshot(root) \/ SetVersion(root)
    PROVE  CodesKnown'
<1>1. codeDB' = codeDB
  BY Zenon DEF NewEthStateSnapshot, SetVersion, Load, Crash, dbVars
<1>2. CASE store' = store
  BY <1>1, <1>2, Zenon DEF CodesKnown, Opened
<1>3. CASE store' = [store EXCEPT !["snapshot"] = NewEthDataStore(root)]
  <2>1. \A t \in Stores \ {"snapshot"} : store'[t] = store[t]
    BY <1>3
  <2>2. store'["snapshot"].accountCache = [a \in Addresses |-> Nil]
    BY <1>3, Zenon DEF TypeOK, Stores, NewEthDataStore
  <2> QED BY <1>1, <2>1, <2>2, OneStoreChanged, Zenon DEF Stores
<1>4. CASE store' = [store EXCEPT !["snapshot"] = Nil]
  <2>1. store'["main"] = store["main"] /\ store'["snapshot"] = Nil
    BY <1>4, Zenon DEF TypeOK, Stores
  <2>2. \A t \in Stores : Opened(t)' => t = "main" /\ Opened(t) /\ store'[t] = store[t]
    BY <2>1, Zenon DEF Opened, Stores
  <2> QED BY <1>1, <2>2, Zenon DEF CodesKnown
<1> QED BY <1>2, <1>3, <1>4, Zenon DEF NewEthStateSnapshot, SetVersion, Load, Crash

\* Has and Get agree on every slot of every open store, and Has finds only
\* codes that Get returns and the code database holds, in every behaviour.
THEOREM HasAsGet == Spec => []HasAgreesWithGet
<1>1. Init => CodesKnown
  <2> SUFFICES ASSUME Init PROVE CodesKnown
    BY Zenon
  <2>1. store["main"].accountCache = [a \in Addresses |-> Nil] /\ store["snapshot"] = NoSnapshot
    BY Zenon DEF Init, Stores, NewEthDataStore
  <2> QED BY <2>1, Zenon DEF CodesKnown, Opened, Stores
<1>2. IInv /\ CodesKnown /\ [Next]_vars => CodesKnown'
  <2> SUFFICES ASSUME IInv, CodesKnown, [Next]_vars PROVE CodesKnown'
    BY Zenon
  <2>1. TypeOK
    BY Zenon DEF IInv
  <2>2. CASE UNCHANGED vars
    BY <2>2, Zenon DEF vars, dbVars, CodesKnown, Opened
  <2> QED BY <2>1, <2>2, CodesPrecommit, CodesCommit, CodesGetCode, CodesVersion, Zenon DEF Next
<1>3. IInv /\ CodesKnown => HasAgreesWithGet
  <2> SUFFICES ASSUME IInv, CodesKnown, NEW s \in Stores, Opened(s), NEW a \in Addresses
               PROVE  /\ \A k \in Slots : HasSlot(s, a, k) <=> GetSlot(s, a, k) # Nil
                      /\ HasCode(s, a) =>
                             GetAccount(s, a) # Nil /\ GetAccount(s, a).code \in codeDB
    BY Zenon DEF HasAgreesWithGet
  <2> DEFINE acct == store[s].accountCache[a]
             state == store[s].trie[a]
  <2>1. TypeOK /\ state \in StateAccount \cup {Nil}
    BY StoreType, Zenon DEF IInv, WorldState, WorldTrie
  <2>2. CASE acct # Nil
    <3>1. GetAccount(s, a) = acct
      BY <2>2, Zenon DEF GetAccount
    <3>2. \A k \in Slots : HasSlot(s, a, k) <=> GetSlot(s, a, k) # Nil
      BY <2>2, <3>1, Zenon DEF HasSlot, HasAccount, GetSlot
    <3>3. HasCode(s, a) => acct.code \in codeDB
      BY <2>2, Zenon DEF HasCode, CodesKnown
    <3> QED BY <2>2, <3>1, <3>2, <3>3, Zenon
  <2>3. CASE acct = Nil /\ (state = Nil \/ state.root \notin storageRoots)
    <3>1. GetAccount(s, a) = Nil
      BY <2>3, Zenon DEF GetAccount, LoadAccount
    <3>2. ~HasAccount(s, a) /\ ~HasCode(s, a)
      BY <2>3, Zenon DEF HasAccount, HasCode
    <3> QED BY <3>1, <3>2, Zenon DEF HasSlot, GetSlot
  <2>4. CASE acct = Nil /\ state # Nil /\ state.root \in storageRoots
    <3> DEFINE loaded == [state |-> state, code |-> LoadCode(state.codeHash),
                          hasBackend |-> FALSE, trieDirty |-> FALSE]
    <3>1. GetAccount(s, a) = loaded
      BY <2>4, Zenon DEF GetAccount, LoadAccount
    <3>2. loaded \in Account
      BY <2>1, <2>4, Zenon DEF Account, LoadCode, StateAccount
    <3>3. loaded # Nil /\ loaded.state = state
      BY <3>2, NilIsNoRecord, Zenon
    <3> HIDE DEF loaded
    <3>4. HasAccount(s, a) /\ ~HasCode(s, a)
      BY <2>4, Zenon DEF HasAccount, HasCode
    <3>5. \A k \in Slots : GetSlot(s, a, k) = state.root[k]
      BY <3>1, <3>3, Zenon DEF GetSlot
    <3>6. \A k \in Slots : HasSlot(s, a, k) <=> state.root[k] # Nil
      BY <2>4, <3>4, Zenon DEF HasSlot
    <3> QED BY <3>4, <3>5, <3>6, Zenon
  <2> QED BY <2>2, <2>3, <2>4, Zenon
<1> QED BY <1>1, <1>2, <1>3, InitIInv, NextIInv, PTL DEF Spec

\* Both world states and both databases stay well formed, whatever the two
\* stores write, commit and open.
THEOREM WorldTypeCorrect == Spec => []TypeOK
<1>1. IInv => TypeOK
  BY Zenon DEF IInv
<1> QED BY <1>1, InitIInv, NextIInv, PTL DEF Spec
=============================================================================
