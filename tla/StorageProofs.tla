---------------------------- MODULE StorageProofs ----------------------------
(***************************************************************************)
(* What the storages hold, proved for all values of the constants.  Under  *)
(* the sequential schedule: the Ethereum accounts, and what blocks of one  *)
(* generation leave in the execution storage and in the trie database.  On *)
(* storage that fails: what the execution storage and the reads are after  *)
(* writes that failed and after a stop at any point, and what a new        *)
(* process starts from.                                                    *)
(*                                                                         *)
(* Steps without a fault keep what the stores hold up to the paths where   *)
(* the storage was behind already.  A flush that fails in part adds the    *)
(* paths it did not write; one that writes a path repairs it.  What a stop *)
(* in the middle of a flush leaves at a path that one generation of the    *)
(* block wrote is the entry of that generation or what was there before.   *)
(***************************************************************************)
EXTENDS StateCommitterFaults, StateCommitterProofs

-----------------------------------------------------------------------------
(* The Ethereum accounts *)

\* The accounts hold the latest values, up to the transitions indexed.
EthInv ==
    /\ \A i \in byPath : cells[i].path \notin BlockBound =>
           i \in ethIndex[AccountOf[cells[i].path]]
    /\ \A a \in Accounts :
           /\ \A i \in ethIndex[a] : cells[i].path # Nil => AccountOf[cells[i].path] = a
           /\ stage = "executing" => ethIndex[a] \subseteq byPath
           /\ ethIndex[a] # {} =>
                  \/ stage \in {"executing", "finalized"}
                  \/ stage = "precommitted" /\ (owed = 1 \/ Pending("AsyncPrecommit", "eth"))
           /\ worldTrie[a] \in {Nil, Encode(ethAccounts, a)}
    /\ \A p \in Paths \ BlockBound :
           LET live == At(ethIndex[AccountOf[p]] \ byPath, p)
           IN  IF live = {} THEN ethAccounts[p] = ledger[p]
               ELSE \A i \in live : cells[i].val = ledger[p]

CommitInv == FlowInv /\ StoresUpTo({}) /\ EthInv

\* What is indexed between two calls belongs to the generation being imported.
LEMMA EthBetweenCalls ==
    ASSUME EthInv, tasks = {}, owed = 0,
           stage \in {"executing", "precommitted", "committed"}
    PROVE  \A a \in Accounts : ethIndex[a] \subseteq byPath
<1>1. ~Pending("AsyncPrecommit", "eth")
  BY Zenon DEF Pending
<1>2. ASSUME NEW a \in Accounts
      PROVE  ethIndex[a] \subseteq byPath
  <2>1. CASE stage = "executing"
    BY <2>1, Zenon DEF EthInv
  <2>2. CASE stage # "executing"
    <3>1. ethIndex[a] = {}
      BY <1>1, <2>2 DEF EthInv
    <3> QED BY <3>1, Zenon
  <2> QED BY <2>1, <2>2, Zenon
<1> QED BY <1>2, Zenon

\* Import indexes the transitions of each account.
LEMMA EthImported ==
    ASSUME FlowInv, EthInv, tasks = {}, owed = 0, NEW trans \in Batches, Import(trans)
    PROVE  EthInv'
<1> DEFINE new == NewIds(trans)
           of(a) == {i \in new : /\ cells'[i].path \notin BlockBound
                                 /\ AccountOf[cells'[i].path] = a}
<1>1. /\ CellIds' = CellIds \cup new /\ CellIds \cap new = {}
      /\ \A i \in CellIds : cells'[i] = cells[i]
      /\ \A i \in new : cells'[i].path \in Paths
  BY ImportedCells, Zenon DEF FlowInv, OverlappedInv
<1>2. /\ byPath' = byPath \cup new /\ stage' = "executing"
      /\ \A a \in Accounts : ethIndex'[a] = ethIndex[a] \cup of(a)
      /\ UNCHANGED <<ethAccounts, worldTrie, ledger>>
  BY ImportedVars DEF FlowInv, OverlappedInv
<1>3. stage \in {"executing", "precommitted", "committed"}
  BY Zenon DEF Import
<1>4. byPath \subseteq CellIds /\ \A a \in Accounts : ethIndex[a] \subseteq byPath
  BY <1>3, EthBetweenCalls, Zenon DEF FlowInv, OverlappedInv, TypeOK
<1>5. AccountOf \in [Paths -> Accounts]
  BY AccountAssumption, Zenon
<1> HIDE DEF new
<1>6. ASSUME NEW i \in byPath', cells'[i].path \notin BlockBound
      PROVE  i \in ethIndex'[AccountOf[cells'[i].path]]
  <2>1. CASE i \in byPath
    <3>1. cells[i].path \in Paths
      BY <2>1, Zenon DEF FlowInv, OverlappedInv, GenerationInv
    <3>2. i \in ethIndex[AccountOf[cells[i].path]]
      BY <1>1, <1>4, <1>6, <2>1, Zenon DEF EthInv
    <3> QED BY <1>1, <1>2, <1>4, <1>5, <2>1, <3>1, <3>2, Zenon
  <2>2. CASE i \in new
    BY <1>1, <1>2, <1>5, <1>6, <2>2, Zenon
  <2> QED BY <1>2, <2>1, <2>2, Zenon
<1>7. ASSUME NEW a \in Accounts
      PROVE  /\ \A i \in ethIndex'[a] : cells'[i].path # Nil => AccountOf[cells'[i].path] = a
             /\ ethIndex'[a] \subseteq byPath'
             /\ worldTrie'[a] \in {Nil, Encode(ethAccounts', a)}
  <2>1. \A i \in ethIndex[a] : cells[i].path # Nil => AccountOf[cells[i].path] = a
    BY Zenon DEF EthInv
  <2>2. worldTrie[a] \in {Nil, Encode(ethAccounts, a)}
    BY Zenon DEF EthInv
  <2>3. \A i \in ethIndex[a] : i \in CellIds /\ i \in byPath
    BY <1>4, Zenon
  <2>4. /\ ethIndex'[a] = ethIndex[a] \cup of(a)
        /\ UNCHANGED <<worldTrie, ethAccounts>> /\ byPath' = byPath \cup new
    BY <1>2, Zenon
  <2>5. \A i \in ethIndex'[a] : cells'[i].path # Nil => AccountOf[cells'[i].path] = a
    BY <1>1, <2>1, <2>3, <2>4, Zenon
  <2>6. ethIndex'[a] \subseteq byPath'
    BY <2>3, <2>4, Zenon
  <2> QED BY <2>2, <2>4, <2>5, <2>6, Zenon
<1>8. ASSUME NEW p \in Paths \ BlockBound
      PROVE  /\ At(ethIndex[AccountOf[p]] \ byPath, p)' = {}
             /\ ethAccounts'[p] = ledger'[p]
  <2>1. AccountOf[p] \in Accounts
    BY <1>5, Zenon
  <2>2. At(ethIndex[AccountOf[p]] \ byPath, p) = {}
    BY <1>4, <2>1, Zenon DEF At
  <2>3. ethAccounts[p] = ledger[p]
    BY <2>2, Zenon DEF EthInv
  <2>4. At(ethIndex[AccountOf[p]] \ byPath, p)' = {}
    BY <1>7, <2>1, Zenon DEF At
  <2> QED BY <1>2, <2>3, <2>4, Zenon
<1> QED BY <1>2, <1>6, <1>7, <1>8, Zenon DEF EthInv

\* What Finalize leaves of a path is the latest value of the path, for the
\* Ethereum accounts too.
LEMMA EthFinalized ==
    ASSUME FlowInv, EthInv, tasks = {}, owed = 0, NEW txs, Finalize(txs)
    PROVE  EthInv'
<1>1. /\ byPath' = {} /\ stage' = "finalized"
      /\ stage \in {"executing", "precommitted", "committed"}
      /\ UNCHANGED <<ethIndex, ethAccounts, worldTrie>>
  BY FinalizedVars, Zenon DEF FlowInv, OverlappedInv
<1>2. \A a \in Accounts : ethIndex[a] \subseteq byPath
  BY <1>1, EthBetweenCalls, Zenon
<1>3. \A i \in byPath : cells'[i].path \in {cells[i].path, Nil}
  BY FinalizedPathOf, Zenon DEF FlowInv, OverlappedInv
<1>4. ASSUME NEW a \in Accounts
      PROVE  /\ \A i \in ethIndex'[a] : cells'[i].path # Nil => AccountOf[cells'[i].path] = a
             /\ worldTrie'[a] \in {Nil, Encode(ethAccounts', a)}
  <2>1. \A i \in ethIndex[a] : cells[i].path # Nil => AccountOf[cells[i].path] = a
    BY Zenon DEF EthInv
  <2>2. worldTrie[a] \in {Nil, Encode(ethAccounts, a)}
    BY Zenon DEF EthInv
  <2> QED BY <1>1, <1>2, <1>3, <2>1, <2>2, Zenon
<1>5. ASSUME NEW p \in Paths \ BlockBound
      PROVE  IF At(ethIndex[AccountOf[p]] \ byPath, p)' = {} THEN ethAccounts'[p] = ledger'[p]
             ELSE \A i \in At(ethIndex[AccountOf[p]] \ byPath, p)' : cells'[i].val = ledger'[p]
  <2> DEFINE index == ethIndex[AccountOf[p]]
  <2>1. index \subseteq byPath
    BY <1>2, AccountAssumption, Zenon
  <2>2. At(ethIndex[AccountOf[p]] \ byPath, p)' = {i \in index : cells'[i].path = p}
    BY <1>1, Zenon DEF At
  <2>3. ethAccounts[p] = ledger[p]
    <3>1. At(index \ byPath, p) = {}
      BY <2>1, Zenon DEF At
    <3> QED BY <3>1, Zenon DEF EthInv
  <2>4. \A i \in byPath : cells[i].path = p => i \in index
    BY Zenon DEF EthInv
  <2> HIDE DEF index
  <2>5. CASE (\A i \in byPath : cells'[i].path # p) /\ ledger'[p] = ledger[p]
    BY <1>1, <2>1, <2>2, <2>3, <2>5, Zenon
  <2>6. ASSUME NEW b \in byPath, cells[b].path = p, cells'[b].path = p,
               cells'[b].val = ledger'[p], \A i \in byPath : cells'[i].path = p => i = b
        PROVE  /\ At(ethIndex[AccountOf[p]] \ byPath, p)' # {}
               /\ \A i \in At(ethIndex[AccountOf[p]] \ byPath, p)' : cells'[i].val = ledger'[p]
    <3>1. {i \in index : cells'[i].path = p} = {b}
      BY <2>1, <2>4, <2>6, Zenon
    <3> QED BY <2>2, <2>6, <3>1, Zenon
  <2>7. \/ (\A i \in byPath : cells'[i].path # p) /\ ledger'[p] = ledger[p]
        \/ \E b \in byPath :
               /\ cells[b].path = p /\ cells'[b].path = p /\ cells'[b].val = ledger'[p]
               /\ \A i \in byPath : cells'[i].path = p => i = b
    BY FinalizedPath, Zenon DEF FlowInv, OverlappedInv
  <2> QED BY <2>5, <2>6, <2>7, Zenon
<1> QED BY <1>1, <1>4, <1>5, Zenon DEF EthInv

\* Steps that do not touch the accounts.
LEMMA EthFrame ==
    ASSUME EthInv, UNCHANGED <<cells, byPath, stage, owed, ledger>>,
           UNCHANGED <<ethIndex, ethAccounts, worldTrie>>,
           Pending("AsyncPrecommit", "eth")' <=> Pending("AsyncPrecommit", "eth")
    PROVE  EthInv'
BY DEF EthInv, At

\* The calls leave the accounts to their tasks.
LEMMA EthCalls ==
    ASSUME FlowInv, EthInv, tasks = {},
           \/ owed = 0 /\ SyncPrecommit
           \/ AsyncPrecommit
           \/ owed = 0 /\ SyncCommit
           \/ AsyncCommit
    PROVE  EthInv'
<1>1. /\ UNCHANGED <<cells, byPath, ethIndex, ethAccounts, worldTrie>>
      /\ stage # "executing" /\ byPath = {} /\ ~Pending("AsyncPrecommit", "eth")
      /\ \A p \in Paths \ BlockBound : ledger'[p] = ledger[p]
  BY CallStarts, Zenon
<1>2. /\ stage' # "executing"
      /\ \/ stage = "finalized" /\ stage' = "precommitted" /\ owed' = 1
         \/ /\ stage = "precommitted" /\ owed = 1 /\ stage' = "precommitted"
            /\ Pending("AsyncPrecommit", "eth")'
         \/ stage = "precommitted" /\ owed = 0
         \/ stage = "synced"
  <2>1. Tasks("AsyncPrecommit", AsyncPrecommitWriters) = tasks' => Pending("AsyncPrecommit", "eth")'
    BY Zenon DEF Pending, Tasks, AsyncPrecommitWriters
  <2> QED BY <2>1, CallStarts, Zenon
<1>3. ASSUME NEW a \in Accounts
      PROVE  /\ \A i \in ethIndex[a] : cells[i].path # Nil => AccountOf[cells[i].path] = a
             /\ worldTrie[a] \in {Nil, Encode(ethAccounts, a)}
             /\ ethIndex[a] # {} => stage' = "precommitted" /\ (owed' = 1 \/ Pending("AsyncPrecommit", "eth")')
  <2>1. ethIndex[a] # {} => stage = "finalized" \/ (stage = "precommitted" /\ owed = 1)
    BY <1>1, Zenon DEF EthInv
  <2>2. owed = 1 => owed # 0
    OBVIOUS
  <2>3. ethIndex[a] # {} => stage' = "precommitted" /\ (owed' = 1 \/ Pending("AsyncPrecommit", "eth")')
    BY <1>2, <2>1, <2>2, Zenon
  <2> QED BY <2>3, Zenon DEF EthInv
<1>4. ASSUME NEW p \in Paths \ BlockBound
      PROVE  LET live == At(ethIndex[AccountOf[p]] \ byPath, p)
             IN  IF live = {} THEN ethAccounts[p] = ledger'[p]
                 ELSE \A i \in live : cells[i].val = ledger'[p]
  BY <1>1, Zenon DEF EthInv
<1> QED BY <1>1, <1>2, <1>3, <1>4 DEF EthInv, At

\* The tasks of the other writers.
LEMMA EthOtherTask ==
    ASSUME FlowInv, EthInv, NEW c, NEW u, Done(c, u), u # "eth", UNCHANGED ethVars
    PROVE  EthInv'
<1>1. /\ UNCHANGED <<cells, byPath, stage, owed, ledger>>
      /\ \A d, v : Pending(d, v)' <=> Pending(d, v) /\ <<d, v>> # <<c, u>>
  BY TaskOf, Zenon
<1>2. Pending("AsyncPrecommit", "eth")' <=> Pending("AsyncPrecommit", "eth")
  BY <1>1, Zenon
<1> QED BY <1>1, <1>2, EthFrame, Zenon DEF ethVars

\* The precommit of the accounts writes the one transition left of each path.
LEMMA EthPrecommitted ==
    ASSUME FlowInv, EthInv, Done("AsyncPrecommit", "eth"), EthPrecommit
    PROVE  EthInv'
<1> DEFINE live == UNION {Attached(ethIndex[a]) : a \in Accounts}
           touched == {a \in Accounts : ethIndex[a] # {}}
<1>1. byPath = {} /\ UNCHANGED <<cells, byPath, stage, owed, ledger>>
  BY TaskOf, Zenon
<1>2. /\ ethAccounts' = [p \in Paths |->
             IF At(live, p) # {} THEN cells[EthWritten(live, p)].val ELSE ethAccounts[p]]
      /\ worldTrie' = WriteWorldTrie(touched, ethAccounts')
      /\ ethIndex' = [a \in Accounts |-> {}]
  BY Zenon DEF EthPrecommit
<1>3. CellIds = 1..Len(cells) /\ Len(cells) \in Nat
  BY HeapDomain, Zenon DEF FlowInv, OverlappedInv, TypeOK
<1>4. ASSUME NEW p \in Paths
      PROVE  /\ At(live, p) = At(ethIndex[AccountOf[p]], p)
             /\ At(live, p) \subseteq 1..Len(cells)
  <2>1. \A a \in Accounts : \A i \in ethIndex[a] :
            cells[i].path # Nil => AccountOf[cells[i].path] = a
    BY Zenon DEF EthInv
  <2>2. p # Nil /\ AccountOf[p] \in Accounts
    BY NilAssumption, AccountAssumption, Zenon
  <2>3. \A a \in Accounts : ethIndex[a] \subseteq CellIds
    BY Zenon DEF FlowInv, OverlappedInv, TypeOK, EthTypeOK
  <2>4. \A i : i \in live /\ cells[i].path = p <=>
               i \in ethIndex[AccountOf[p]] /\ cells[i].path = p
    BY <2>1, <2>2 DEF Attached
  <2>5. At(live, p) = At(ethIndex[AccountOf[p]], p)
    BY <2>4, Zenon DEF At
  <2>6. ethIndex[AccountOf[p]] \subseteq 1..Len(cells)
    BY <1>3, <2>2, <2>3, Zenon
  <2> QED BY <2>5, <2>6, Zenon DEF At
<1> HIDE DEF live
<1>5. ASSUME NEW p \in Paths \ BlockBound
      PROVE  ethAccounts'[p] = ledger[p]
  <2>1. At(ethIndex[AccountOf[p]] \ byPath, p) = At(live, p)
    BY <1>1, <1>4, Zenon DEF At
  <2>2. CASE At(live, p) = {}
    <3>1. ethAccounts[p] = ledger[p]
      BY <2>1, <2>2, Zenon DEF EthInv
    <3> QED BY <1>2, <2>2, <3>1, Zenon
  <2>3. CASE At(live, p) # {}
    <3>1. EthWritten(live, p) \in At(live, p)
      <4>1. At(live, p) \in SUBSET (1..Len(cells))
        BY <1>4, Zenon
      <4>2. Newest(At(live, p)) \in At(live, p)
        BY <1>3, <2>3, <4>1, NewestMember, Zenon
      <4>3. Oldest(At(live, p)) \in At(live, p)
        BY <1>3, <2>3, <4>1, OldestMember, Zenon
      <4> QED BY <4>2, <4>3, Zenon DEF EthWritten
    <3>2. \A i \in At(live, p) : cells[i].val = ledger[p]
      BY <2>1, <2>3, Zenon DEF EthInv
    <3> QED BY <1>2, <2>3, <3>1, <3>2, Zenon
  <2> QED BY <2>2, <2>3, Zenon
<1>6. ASSUME NEW a \in Accounts
      PROVE  worldTrie'[a] \in {Nil, Encode(ethAccounts', a)}
  <2>1. CASE a \in touched
    BY <1>2, <2>1, Zenon DEF WriteWorldTrie
  <2>2. CASE a \notin touched
    <3>1. \A p \in PathsOf(a) : ethAccounts'[p] = ethAccounts[p]
      BY <1>2, <1>4, <2>2, Zenon DEF At, PathsOf
    <3>2. Encode(ethAccounts', a) = Encode(ethAccounts, a)
      BY <3>1, Zenon DEF Encode
    <3>3. worldTrie'[a] = worldTrie[a]
      BY <1>2, <2>2, Zenon DEF WriteWorldTrie
    <3> QED BY <3>2, <3>3, Zenon DEF EthInv
  <2> QED BY <2>1, <2>2, Zenon
<1>7. \A a \in Accounts : ethIndex'[a] = {}
  BY <1>2, Zenon
<1>8. ASSUME NEW p \in Paths \ BlockBound
      PROVE  At(ethIndex[AccountOf[p]] \ byPath, p)' = {}
  <2>1. AccountOf[p] \in Accounts
    BY AccountAssumption, Zenon
  <2> QED BY <1>7, <2>1, Zenon DEF At
<1>9. \A a \in Accounts : Encode(ethAccounts, a)' = Encode(ethAccounts', a)
  BY Zenon DEF Encode
<1> QED BY <1>1, <1>5, <1>6, <1>7, <1>8, <1>9, Zenon DEF EthInv

\* The accounts' own tasks.
LEMMA EthOwnTask ==
    ASSUME FlowInv, EthInv, EthTask
    PROVE  EthInv'
<1>1. CASE Done("AsyncPrecommit", "eth") /\ EthPrecommit
  BY <1>1, EthPrecommitted, Zenon
<1>2. CASE Done("AsyncCommit", "eth") /\ EthCommit(block)
  <2>1. UNCHANGED <<ethIndex, ethAccounts, worldTrie>>
    BY <1>2, Zenon DEF EthCommit
  <2>2. /\ UNCHANGED <<cells, byPath, stage, owed, ledger>>
        /\ Pending("AsyncPrecommit", "eth")' <=> Pending("AsyncPrecommit", "eth")
    BY <1>2, TaskOf, Zenon
  <2> QED BY <2>1, <2>2, EthFrame, Zenon
<1> QED BY <1>1, <1>2, Zenon DEF EthTask

\* The accounts and their index are empty at the start.
LEMMA CommitInit == Init => CommitInv
<1> SUFFICES ASSUME Init PROVE EthInv
  BY FlowInit, Zenon DEF CommitInv
<1>1. \A p \in Paths : At(ethIndex[AccountOf[p]] \ byPath, p) = {}
  BY AccountAssumption, Zenon DEF Init, EthInit, At
<1> QED BY <1>1, Zenon DEF Init, EthInit, EmptyAccounts, EthInv

\* The invariant is inductive.
LEMMA CommitStep ==
    ASSUME CommitInv, Next \/ UNCHANGED vars
    PROVE  CommitInv'
<1>1. FlowInv' /\ StoresUpTo({})'
  BY FlowStep, Zenon DEF CommitInv
<1>2. EthInv'
  <2>1. CASE tasks = {} /\ owed = 0 /\ CallImport
    BY <2>1, EthImported, Zenon DEF CallImport, CommitInv
  <2>2. CASE tasks = {} /\ owed = 0 /\ CallFinalize
    BY <2>2, EthFinalized, Zenon DEF CallFinalize, CommitInv
  <2>3. CASE /\ tasks = {}
             /\ \/ owed = 0 /\ SyncPrecommit
                \/ AsyncPrecommit
                \/ owed = 0 /\ SyncCommit
                \/ AsyncCommit
    BY <2>3, EthCalls, Zenon DEF CommitInv
  <2>4. CASE ExecTask \/ LiveCacheTask \/ LiveStorageTask
    BY <2>4, EthOtherTask, Zenon DEF ExecTask, LiveCacheTask, LiveStorageTask, CommitInv
  <2>5. CASE EthTask
    BY <2>5, EthOwnTask, Zenon DEF CommitInv
  <2>6. CASE UNCHANGED vars
    <3>1. /\ UNCHANGED <<cells, byPath, stage, tasks, owed, ledger>>
          /\ UNCHANGED <<ethIndex, ethAccounts, worldTrie>>
      BY <2>6, Zenon DEF vars, ethVars, indexVars, callerVars, historyVars
    <3> QED BY <3>1, EthFrame, Zenon DEF Pending, CommitInv
  <2> QED BY <2>1, <2>2, <2>3, <2>4, <2>5, <2>6, Zenon DEF Next, WriterTask
<1> QED BY <1>1, <1>2, Zenon DEF CommitInv

\* The flow of the writes, the stores and the accounts, always.
LEMMA CommitAlways == Spec => []CommitInv
<1>1. CommitInv /\ [Next \/ Finished]_vars => CommitInv'
  BY CommitStep, Zenon DEF Finished
<1> QED BY <1>1, CommitInit, PTL DEF Spec

\* Between two calls the Ethereum accounts have the latest value of every
\* persistent path, and the world trie has each account as it is.
THEOREM EthIsLatest == Spec => []EthLatest
<1>1. CommitInv => EthLatest
  <2> SUFFICES ASSUME FlowInv, EthInv, Settled
               PROVE  /\ \A p \in Paths \ BlockBound : ethAccounts[p] = ledger[p]
                      /\ \A a \in Accounts : worldTrie[a] \in {Nil, Encode(ethAccounts, a)}
    BY Zenon DEF EthLatest, CommitInv
  <2>1. ASSUME NEW a \in Accounts
        PROVE  ethIndex[a] \subseteq byPath
    <3>1. CASE stage = "executing"
      BY <3>1, Zenon DEF EthInv
    <3>2. CASE stage # "executing"
      <4>1. ~Pending("AsyncPrecommit", "eth") /\ owed = 0 /\ stage # "finalized"
        BY Zenon DEF Settled, Pending
      <4>2. ethIndex[a] = {}
        BY <3>2, <4>1 DEF EthInv
      <4> QED BY <4>2, Zenon
    <3> QED BY <3>1, <3>2, Zenon
  <2>2. ASSUME NEW p \in Paths \ BlockBound
        PROVE  ethAccounts[p] = ledger[p]
    <3>1. At(ethIndex[AccountOf[p]] \ byPath, p) = {}
      BY <2>1, AccountAssumption, Zenon DEF At
    <3> QED BY <3>1, Zenon DEF EthInv
  <2> QED BY <2>2, Zenon DEF EthInv
<1> QED BY <1>1, CommitAlways, PTL

-----------------------------------------------------------------------------
(* Blocks of one generation *)

\* The storage trie of an account is empty or in the trie database.
Resolved(acct) == IsEmptyRoot(StorageRoot(acct)) \/ StorageRoot(acct) \in trieDB

\* A storage trie that is not in the database is dirty, and its account filed;
\* the world tries in the database were committed with their storage tries.
TriesInv ==
    \A a \in Accounts :
        /\ trieDirty[a] => a \in ethDirty
        /\ Resolved(Encode(ethAccounts, a)) \/ trieDirty[a]
        /\ \A w \in trieDB : DOMAIN w = Accounts => w[a] = Nil \/ Resolved(w[a])

\* A second generation would find tries that the block's commit has still to
\* flush; with one generation to a block, a precommit finds none.
SingleInv ==
    /\ setInBlock # {} \/ stage \in {"finalized", "precommitted"} => generation > 0
    /\ setThenDeleted = {}
    /\ ethDirty # {} =>
           \/ /\ stage \in {"executing", "precommitted"}
              /\ generation > 0 /\ owed = 0 /\ ~Pending("AsyncPrecommit", "eth")
           \/ stage = "synced"
           \/ Pending("AsyncCommit", "eth")
    /\ TriesInv

\* As long as the tries are not touched.
LEMMA TriesFrame ==
    ASSUME TriesInv, UNCHANGED <<ethAccounts, trieDirty, ethDirty, trieDB>>
    PROVE  TriesInv'
<1>1. \A a \in Accounts : Resolved(Encode(ethAccounts, a))' <=> Resolved(Encode(ethAccounts, a))
  BY Zenon DEF Resolved, Encode, StorageRoot, IsEmptyRoot
<1>2. \A w \in trieDB : \A a \in Accounts : Resolved(w[a])' <=> Resolved(w[a])
  BY Zenon DEF Resolved, StorageRoot, IsEmptyRoot
<1> QED BY <1>1, <1>2, Zenon DEF TriesInv

\* The calls: a generation is imported and finalized when nothing is dirty.
LEMMA SingleCalls ==
    ASSUME MaxGenerations <= 1, CommitInv, SingleInv, tasks = {},
           \/ owed = 0 /\ CallImport
           \/ owed = 0 /\ CallFinalize
           \/ owed = 0 /\ SyncPrecommit
           \/ AsyncPrecommit
           \/ owed = 0 /\ SyncCommit
           \/ AsyncCommit
    PROVE  SingleInv'
<1>1. UNCHANGED <<ethAccounts, trieDirty, worldTrie, ethDirty, trieDB>>
  <2>1. CASE CallImport
    BY <2>1, Zenon DEF CallImport, Import, EthImport
  <2>2. CASE CallFinalize
    BY <2>2, Zenon DEF CallFinalize, Finalize, ethVars
  <2>3. CASE SyncPrecommit \/ AsyncPrecommit \/ SyncCommit \/ AsyncCommit
    BY <2>3, Zenon DEF SyncPrecommit, AsyncPrecommit, SyncCommit, AsyncCommit, Start, ethVars
  <2> QED BY <2>1, <2>2, <2>3, Zenon
<1>2. TriesInv'
  BY <1>1, TriesFrame, Zenon DEF SingleInv
<1>3. ~Pending("AsyncCommit", "eth") /\ ~Pending("AsyncPrecommit", "eth")
  BY Zenon DEF Pending
<1>4. generation \in Nat /\ MaxGenerations \in Nat /\ owed \in {0, 1}
      /\ stage \in Stage /\ (owed = 1 => stage = "precommitted")
  BY BoundAssumption, Zenon DEF CommitInv, FlowInv, OverlappedInv, TypeOK, CallsInv
<1>5. CASE owed = 0 /\ CallImport
  <2>1. /\ generation = 0 /\ stage' = "executing"
        /\ stage \in {"executing", "precommitted", "committed"}
        /\ UNCHANGED <<generation, setInBlock, setThenDeleted>>
    BY <1>4, <1>5 DEF CallImport, MoreGenerations, Import, historyVars
  <2>2. ethDirty = {}
    BY <1>3, <2>1 DEF SingleInv
  <2> QED BY <1>1, <1>2, <2>1, <2>2, Zenon DEF SingleInv
<1>6. CASE owed = 0 /\ CallFinalize
  <2>1. PICK txs \in SUBSET TxIds : Finalize(txs)
    BY <1>6, Zenon DEF CallFinalize
  <2>2. /\ generation = 0 /\ stage' = "finalized" /\ generation' = generation + 1
        /\ stage \in {"executing", "precommitted", "committed"}
    BY <1>4, <1>6, <2>1 DEF CallFinalize, MoreGenerations, Finalize
  <2>3. ethDirty = {} /\ setInBlock = {} /\ setThenDeleted = {}
    BY <1>3, <2>2 DEF SingleInv
  <2>4. setThenDeleted' = {}
    BY <2>1, <2>3, Zenon DEF Finalize, RecordOutcome
  <2>5. generation' > 0
    BY <2>2
  <2> QED BY <1>1, <1>2, <2>3, <2>4, <2>5, Zenon DEF SingleInv
<1>7. CASE owed = 0 /\ SyncPrecommit
  <2>1. /\ stage = "finalized" /\ stage' = "precommitted"
        /\ UNCHANGED <<generation, setInBlock, setThenDeleted>>
    BY <1>7, Zenon DEF SyncPrecommit, historyVars
  <2>2. ethDirty = {} /\ generation > 0
    BY <1>3, <2>1, Zenon DEF SingleInv
  <2> QED BY <1>1, <1>2, <2>1, <2>2, Zenon DEF SingleInv
<1>8. CASE AsyncPrecommit
  <2>1. /\ stage = "precommitted" /\ owed = 1 /\ stage' = "precommitted"
        /\ UNCHANGED <<generation, setInBlock, setThenDeleted>>
    BY <1>4, <1>8 DEF AsyncPrecommit, historyVars
  <2>2. ethDirty = {} /\ generation > 0
    BY <1>3, <2>1 DEF SingleInv
  <2> QED BY <1>1, <1>2, <2>1, <2>2, Zenon DEF SingleInv
<1>9. CASE owed = 0 /\ SyncCommit
  <2>1. stage' = "synced" /\ setInBlock' = {} /\ UNCHANGED setThenDeleted
    BY <1>9, Zenon DEF SyncCommit
  <2> QED BY <1>2, <2>1, Zenon DEF SingleInv
<1>10. CASE AsyncCommit
  <2>1. /\ stage' = "committed" /\ UNCHANGED <<generation, setInBlock, setThenDeleted>>
        /\ Pending("AsyncCommit", "eth")'
    BY <1>10, Zenon DEF AsyncCommit, Start, Tasks, AsyncWriters, Pending, historyVars
  <2> QED BY <1>2, <2>1, Zenon DEF SingleInv
<1> QED BY <1>5, <1>6, <1>7, <1>8, <1>9, <1>10, Zenon

\* The tasks of the other writers, and no step at all.
LEMMA SingleFrame ==
    ASSUME SingleInv,
           UNCHANGED <<ethAccounts, trieDirty, worldTrie, ethDirty, trieDB>>,
           UNCHANGED <<stage, owed, generation, setInBlock, setThenDeleted>>,
           Pending("AsyncPrecommit", "eth")' <=> Pending("AsyncPrecommit", "eth"),
           Pending("AsyncCommit", "eth")' <=> Pending("AsyncCommit", "eth")
    PROVE  SingleInv'
<1>1. TriesInv'
  BY TriesFrame, Zenon DEF SingleInv
<1> QED BY <1>1, Zenon DEF SingleInv

\* What the precommit leaves of a storage trie is dirty or as it was.
LEMMA SinglePrecommit ==
    ASSUME CommitInv, SingleInv, Done("AsyncPrecommit", "eth"), EthPrecommit
    PROVE  SingleInv'
<1> DEFINE live == UNION {Attached(ethIndex[a]) : a \in Accounts}
           touched == {a \in Accounts : ethIndex[a] # {}}
           ofAccount(a) == {i \in live : AccountOf[cells[i].path] = a}
<1>1. /\ UNCHANGED <<cells, stage, owed, setInBlock, setThenDeleted>>
      /\ stage = "precommitted" /\ owed = 0 /\ Pending("AsyncPrecommit", "eth")
      /\ ~Pending("AsyncPrecommit", "eth")'
      /\ UNCHANGED generation
  BY TaskOf, Zenon DEF Done, CommitInv
<1>2. /\ ethAccounts' = [p \in Paths |->
             IF At(live, p) # {} THEN cells[EthWritten(live, p)].val ELSE ethAccounts[p]]
      /\ trieDirty' = [a \in Accounts |->
             IF ofAccount(a) # {}
             THEN \E i \in ofAccount(a) : cells[i].path \in StoragePaths ELSE trieDirty[a]]
      /\ ethDirty' = ethDirty \cup touched
      /\ UNCHANGED trieDB
  BY Zenon DEF EthPrecommit
<1>3. ethDirty = {} /\ generation > 0
  <2>1. ~Pending("AsyncCommit", "eth")
    BY <1>1, Zenon DEF CommitInv, FlowInv, CallsInv, Pending
  <2> QED BY <1>1, <2>1, Zenon DEF SingleInv
<1>4. \A i \in live : cells[i].path \in Paths /\ AccountOf[cells[i].path] \in touched
  <2> SUFFICES ASSUME NEW a \in Accounts, NEW i \in Attached(ethIndex[a])
               PROVE  cells[i].path \in Paths /\ AccountOf[cells[i].path] \in touched
    BY Zenon
  <2>1. i \in ethIndex[a] /\ cells[i].path # Nil /\ i \in CellIds
    BY Zenon DEF Attached, CommitInv, FlowInv, OverlappedInv, TypeOK, EthTypeOK
  <2>2. cells[i] \in StateCell
    BY <2>1, HeapDomain, Zenon DEF CommitInv, FlowInv, OverlappedInv, TypeOK
  <2>3. AccountOf[cells[i].path] = a
    BY <2>1, Zenon DEF CommitInv, EthInv
  <2> QED BY <2>1, <2>2, <2>3, Zenon DEF StateCell
<1> HIDE DEF live
<1>5. ASSUME NEW a \in Accounts
      PROVE  /\ trieDirty'[a] => a \in ethDirty'
             /\ Resolved(Encode(ethAccounts, a))' \/ trieDirty'[a]
  <2>1. ~trieDirty[a] /\ Resolved(Encode(ethAccounts, a))
    BY <1>3, Zenon DEF SingleInv, TriesInv
  <2>2. trieDirty'[a] <=> \E i \in ofAccount(a) : cells[i].path \in StoragePaths
    BY <1>2, <2>1, Zenon
  <2>3. trieDirty'[a] => a \in ethDirty'
    BY <1>2, <1>4, <2>2, Zenon
  <2>4. ASSUME ~trieDirty'[a]
        PROVE  Resolved(Encode(ethAccounts, a))'
    <3>1. \A p \in PathsOf(a) \cap StoragePaths : ethAccounts'[p] = ethAccounts[p]
      <4> SUFFICES ASSUME NEW p \in PathsOf(a) \cap StoragePaths
                   PROVE  At(live, p) = {}
        BY <1>2, Zenon DEF PathsOf
      <4> QED BY <2>2, <2>4, Zenon DEF At, PathsOf
    <3>2. StorageRoot(Encode(ethAccounts', a)) = StorageRoot(Encode(ethAccounts, a))
      <4>1. \A c : StorageRoot(Encode(c, a)) = [p \in PathsOf(a) \cap StoragePaths |-> c[p]]
        BY Zenon DEF StorageRoot, Encode
      <4> QED BY <3>1, <4>1, Zenon
    <3> QED BY <1>2, <2>1, <3>2, Zenon DEF Resolved, Encode
  <2> QED BY <2>3, <2>4, Zenon
<1>6. \A a \in Accounts : \A w \in trieDB' :
          DOMAIN w = Accounts => w[a] = Nil \/ Resolved(w[a])'
  <2>1. \A w \in trieDB : \A a \in Accounts : Resolved(w[a])' <=> Resolved(w[a])
    BY <1>2, Zenon DEF Resolved, StorageRoot, IsEmptyRoot
  <2> QED BY <1>2, <2>1, Zenon DEF SingleInv, TriesInv
<1>7. TriesInv'
  BY <1>5, <1>6, Zenon DEF TriesInv
<1> QED BY <1>1, <1>3, <1>7, Zenon DEF SingleInv

\* The commit moves every dirty storage trie to the database with the world
\* trie.
LEMMA SingleCommit ==
    ASSUME CommitInv, SingleInv, Done("AsyncCommit", "eth"), EthCommit(block)
    PROVE  SingleInv'
<1>1. /\ UNCHANGED <<cells, stage, owed, setInBlock, setThenDeleted>>
      /\ UNCHANGED generation
  BY TaskOf, Zenon DEF Done, CommitInv
<1>2. /\ trieDB' = trieDB \cup (CommittedStorage \cup {worldTrie})
      /\ trieDirty' = [a \in Accounts |-> trieDirty[a] /\ a \notin ethDirty]
      /\ ethDirty' = {} /\ UNCHANGED <<ethAccounts, worldTrie>>
  BY Zenon DEF EthCommit, Committed
<1> DEFINE InDB(acct) == IsEmptyRoot(StorageRoot(acct)) \/ StorageRoot(acct) \in trieDB'
<1>3. ASSUME NEW a \in Accounts
      PROVE  ~trieDirty'[a] /\ InDB(Encode(ethAccounts, a))
  <2>1. trieDirty[a] => a \in ethDirty
    BY Zenon DEF SingleInv, TriesInv
  <2>2. trieDirty[a] => StorageRoot(Encode(ethAccounts, a)) \in CommittedStorage
    BY <2>1, Zenon DEF CommittedStorage
  <2>3. Resolved(Encode(ethAccounts, a)) \/ trieDirty[a]
    BY Zenon DEF SingleInv, TriesInv
  <2>4. ~trieDirty'[a]
    <3>1. trieDirty'[a] = (trieDirty[a] /\ a \notin ethDirty)
      BY <1>2, Zenon
    <3> QED BY <2>1, <3>1, Zenon
  <2>5. CASE trieDirty[a]
    BY <1>2, <2>2, <2>4, <2>5, Zenon
  <2>6. CASE Resolved(Encode(ethAccounts, a))
    BY <1>2, <2>4, <2>6, Zenon DEF Resolved
  <2> QED BY <2>3, <2>5, <2>6, Zenon
<1>4. ASSUME NEW a \in Accounts, NEW w \in trieDB', DOMAIN w = Accounts
      PROVE  w[a] = Nil \/ InDB(w[a])
  <2>1. CASE w \in trieDB
    <3>1. w[a] = Nil \/ Resolved(w[a])
      BY <1>4, <2>1, Zenon DEF SingleInv, TriesInv
    <3> QED BY <1>2, <3>1, Zenon DEF Resolved
  <2>2. CASE w = worldTrie
    <3>1. worldTrie[a] \in {Nil, Encode(ethAccounts, a)}
      BY Zenon DEF CommitInv, EthInv
    <3> HIDE DEF InDB
    <3> QED BY <1>3, <2>2, <3>1, Zenon
  <2>3. CASE w \in CommittedStorage
    <3>1. PICK b : w = StorageRoot(Encode(ethAccounts, b))
      BY <2>3, Zenon DEF CommittedStorage
    <3>2. DOMAIN w \subseteq Paths
      BY <3>1, AccountAssumption, Zenon DEF StorageRoot
    <3> QED BY <1>4, <3>2, AccountAssumption, Zenon
  <2> QED BY <1>2, <2>1, <2>2, <2>3, Zenon
<1>5. /\ \A a \in Accounts : Resolved(Encode(ethAccounts, a))' <=> InDB(Encode(ethAccounts, a))
      /\ \A w \in trieDB' : \A a \in Accounts : Resolved(w[a])' <=> InDB(w[a])
  BY <1>2, Zenon DEF Resolved, Encode, StorageRoot, IsEmptyRoot
<1> HIDE DEF InDB
<1>6. TriesInv'
  BY <1>3, <1>4, <1>5, Zenon DEF TriesInv
<1> QED BY <1>1, <1>2, <1>6, Zenon DEF SingleInv

\* No trie is dirty, and none in the database, at the start.
LEMMA SingleInit == Init => SingleInv
<1> SUFFICES ASSUME Init PROVE SingleInv
  BY Zenon
<1>1. ASSUME NEW a \in Accounts
      PROVE  IsEmptyRoot(StorageRoot(Encode(ethAccounts, a)))
  BY Zenon DEF Init, EthInit, EmptyAccounts, Encode, PathsOf, StorageRoot, IsEmptyRoot
<1>2. TriesInv
  BY <1>1, Zenon DEF Init, EthInit, TriesInv, Resolved
<1> QED BY <1>2, Zenon DEF Init, EthInit, SingleInv

\* With one generation to a block, the two invariants are inductive together.
LEMMA SingleStep ==
    ASSUME MaxGenerations <= 1, CommitInv, SingleInv, Next \/ UNCHANGED vars
    PROVE  SingleInv'
<1>1. CASE /\ tasks = {}
           /\ \/ owed = 0 /\ CallImport
              \/ owed = 0 /\ CallFinalize
              \/ owed = 0 /\ SyncPrecommit
              \/ AsyncPrecommit
              \/ owed = 0 /\ SyncCommit
              \/ AsyncCommit
  BY <1>1, SingleCalls, Zenon
<1>2. ASSUME NEW c, NEW u, Done(c, u), u # "eth", UNCHANGED ethVars
      PROVE  SingleInv'
  <2>1. /\ UNCHANGED <<stage, owed, setInBlock, setThenDeleted>>
        /\ \A d, v : Pending(d, v)' <=> Pending(d, v) /\ <<d, v>> # <<c, u>>
    BY <1>2, TaskOf, Zenon DEF CommitInv
  <2>2. /\ Pending("AsyncPrecommit", "eth")' <=> Pending("AsyncPrecommit", "eth")
        /\ Pending("AsyncCommit", "eth")' <=> Pending("AsyncCommit", "eth")
    BY <1>2, <2>1, Zenon
  <2>3. UNCHANGED <<generation, ethAccounts, trieDirty, worldTrie, ethDirty, trieDB>>
    BY <1>2, Zenon DEF Done, ethVars
  <2> QED BY <2>1, <2>2, <2>3, SingleFrame, Zenon
<1>3. CASE ExecTask \/ LiveCacheTask \/ LiveStorageTask
  BY <1>2, <1>3, Zenon DEF ExecTask, LiveCacheTask, LiveStorageTask
<1>4. CASE EthTask
  BY <1>4, SinglePrecommit, SingleCommit, Zenon DEF EthTask
<1>5. CASE UNCHANGED vars
  <2>1. /\ UNCHANGED <<ethAccounts, trieDirty, worldTrie, ethDirty, trieDB>>
        /\ UNCHANGED <<stage, owed, generation, setInBlock, setThenDeleted, tasks>>
    BY <1>5, Zenon DEF vars, ethVars, callerVars, historyVars
  <2>2. \A d, v : Pending(d, v)' <=> Pending(d, v)
    BY <2>1, Zenon DEF Pending
  <2> QED BY <2>1, <2>2, SingleFrame, Zenon
<1> QED BY <1>1, <1>3, <1>4, <1>5, Zenon DEF Next, WriterTask

\* Both invariants, always.
LEMMA SingleAlways ==
    ASSUME MaxGenerations <= 1
    PROVE  Spec => [](CommitInv /\ SingleInv)
<1>1. CommitInv /\ SingleInv /\ [Next \/ Finished]_vars => (CommitInv /\ SingleInv)'
  BY CommitStep, SingleStep, Zenon DEF Finished
<1> QED BY <1>1, CommitInit, SingleInit, PTL DEF Spec

\* With blocks of one generation, the execution storage has the latest value of
\* every path when AsyncCommit has returned, without exception.
THEOREM SingleGenerationStored ==
    ASSUME MaxGenerations <= 1
    PROVE  Spec => []StorageHoldsLatest
<1>1. StorageLatest /\ SingleInv => StorageHoldsLatest
  BY Zenon DEF StorageLatest, SingleInv, StorageHoldsLatest
<1> QED BY <1>1, SingleAlways, StorageIsLatest, PTL

\* With blocks of one generation, every world root in the trie database can be
\* read again: the storage trie of each of its accounts is empty or was
\* committed before it or with it.
THEOREM SingleGenerationResolves ==
    ASSUME MaxGenerations <= 1
    PROVE  Spec => []EthRootsResolvable
<1>1. SingleInv => EthRootsResolvable
  <2> SUFFICES ASSUME SingleInv, NEW w \in trieDB, DOMAIN w = Accounts,
                      NEW p \in Paths, w[AccountOf[p]] # Nil
               PROVE  EthGet(w, p) = w[AccountOf[p]][p]
    BY Zenon DEF EthRootsResolvable
  <2>1. AccountOf[p] \in Accounts
    BY AccountAssumption, Zenon
  <2>2. Resolved(w[AccountOf[p]])
    BY <2>1, Zenon DEF SingleInv, TriesInv
  <2>3. GetAccount(w, AccountOf[p]) = w[AccountOf[p]]
    BY <2>2, Zenon DEF GetAccount, Resolved
  <2> QED BY <2>3, Zenon DEF EthGet, AccountGet
<1> QED BY <1>1, SingleAlways, PTL

-----------------------------------------------------------------------------
(* Storage that fails *)

\* The entries on their way to the storage, by what is recorded of the block: a
\* path that one generation wrote has one entry, with the latest value.
RecordInv ==
    \A e \in Entries("livestorage") :
        /\ e.key \in writtenInBlock
        /\ e.key \notin rewritten =>
               /\ e.val = ledger[e.key]
               /\ \A f \in Entries("livestorage") : f.key = e.key => f = e

\* The block being written is not the first one that there can be.
BlockInv == stage = "synced" \/ FlushTask \in tasks => block > 0

FaultInv ==
    /\ FlowInv /\ StoresUpTo(unflushed)
    /\ \A p \in Paths : durable[p] = liveStorage[p]
    /\ RecordInv /\ BlockInv /\ restarts \in Nat

-----------------------------------------------------------------------------
(* Steps without a fault *)

\* No other task than the flush removes FlushTask.
LEMMA FlushEnds ==
    ASSUME Next, FlushTask \in tasks \ tasks'
    PROVE  /\ Done("AsyncCommit", "livestorage") /\ LiveStorageCommit
           /\ UNCHANGED <<execVars, lcVars, ethVars>>
<1>1. tasks # {} /\ <<"AsyncCommit", "livestorage">> \notin tasks'
      /\ <<"AsyncCommit", "livestorage">> \in tasks
  BY Zenon DEF FlushTask
<1>2. ~AsyncPrecommit /\ ~AsyncCommit
  BY <1>1, Zenon DEF AsyncPrecommit, AsyncCommit, Start
<1>3. WriterTask
  BY <1>1, <1>2, Zenon DEF Next
<1>4. \A c, w : Done(c, w) => <<c, w>> = <<"AsyncCommit", "livestorage">>
  BY <1>1, Zenon DEF Done
<1>5. /\ \A c, w : Done(c, w) => c = "AsyncCommit" /\ w = "livestorage"
  BY <1>4, Zenon
<1>6. LiveStorageTask
  BY <1>3, <1>5 DEF WriterTask, ExecTask, LiveCacheTask, EthTask
<1> QED BY <1>5, <1>6 DEF LiveStorageTask

\* The tasks before the block's commit leave what is to be written to the
\* storage, and the storage, as they are.
LEMMA WriterEntries ==
    ASSUME FlowInv, WriterTask, FlushTask \notin tasks \ tasks'
    PROVE  Entries("livestorage")' = Entries("livestorage") /\ UNCHANGED liveStorage
<1>1. ASSUME NEW c, NEW u, Done(c, u), UNCHANGED lsVars
      PROVE  Entries("livestorage")' = Entries("livestorage") /\ UNCHANGED liveStorage
  <2>1. UNCHANGED <<cells, byPath>>
    BY <1>1, TaskOf, Zenon
  <2>2. UNCHANGED <<lsImport, lsBuffer, lsFiled, liveStorage>>
    BY <1>1, Zenon DEF lsVars
  <2>3. /\ ImportBuffer("livestorage")' = ImportBuffer("livestorage")
        /\ Buffer("livestorage")' = Buffer("livestorage")
    BY <2>2, Zenon DEF ImportBuffer, Buffer
  <2> QED BY <2>1, <2>2, <2>3, EntriesKept, Zenon DEF Persistent
<1>2. CASE ExecTask \/ LiveCacheTask \/ EthTask
  BY <1>1, <1>2, Zenon DEF ExecTask, LiveCacheTask, EthTask
<1>3. CASE Done("SyncPrecommit", "livestorage") /\ LiveStorageSyncPrecommit
  <2>1. /\ Buffer("livestorage")' = ImportBuffer("livestorage")
        /\ ImportBuffer("livestorage")' = {} /\ Filed("livestorage")' = Filed("livestorage")
        /\ UNCHANGED liveStorage
    BY <1>3, Zenon DEF LiveStorageSyncPrecommit, Buffer, ImportBuffer, Filed
  <2> QED BY <1>3, <2>1, MoveToBuffer, Zenon DEF Persistent
<1>4. CASE Done("AsyncPrecommit", "livestorage") /\ LiveStorageAsyncPrecommit
  <2>1. /\ Buffer("livestorage")' = {} /\ ImportBuffer("livestorage")' = {}
        /\ Filed("livestorage")' =
              Filed("livestorage") \cup {EntryOf(i) : i \in Attached(Buffer("livestorage"))}
        /\ UNCHANGED liveStorage
    BY <1>4, Zenon DEF LiveStorageAsyncPrecommit, Buffer, ImportBuffer, Filed
  <2> QED BY <1>4, <2>1, MoveToFiled, Zenon DEF Persistent
<1>5. ~Done("AsyncCommit", "livestorage")
  BY Zenon DEF Done, FlushTask
<1> QED BY <1>2, <1>3, <1>4, <1>5, Zenon DEF WriterTask, LiveStorageTask

\* A step other than Finalize and the flush leaves them, and the latest values
\* of the persistent paths.
LEMMA OtherSteps ==
    ASSUME FlowInv, Next, ~(tasks = {} /\ owed = 0 /\ CallFinalize),
           FlushTask \notin tasks \ tasks'
    PROVE  /\ Entries("livestorage")' = Entries("livestorage")
           /\ UNCHANGED liveStorage
           /\ \A p \in Paths \ BlockBound : ledger'[p] = ledger[p]
           /\ ~(generation' > generation)
<1>1. generation \in Nat
  BY Zenon DEF FlowInv, OverlappedInv, TypeOK
<1>2. CASE tasks = {} /\ owed = 0 /\ CallImport
  <2>1. PICK trans \in Batches : Import(trans)
    BY <1>2, Zenon DEF CallImport
  <2>2. Entries("livestorage")' = Entries("livestorage")
    BY <1>2, <2>1, ImportedBuffers, Zenon DEF Persistent
  <2>3. UNCHANGED <<liveStorage, ledger>>
    BY <2>1, ImportedVars, Zenon DEF FlowInv, OverlappedInv
  <2>4. generation' = generation
    BY <2>1, Zenon DEF Import
  <2> QED BY <1>1, <2>2, <2>3, <2>4
<1>3. CASE /\ tasks = {}
           /\ \/ owed = 0 /\ SyncPrecommit
              \/ AsyncPrecommit
              \/ owed = 0 /\ SyncCommit
              \/ AsyncCommit
  <2>1. /\ UNCHANGED <<cells, byPath, lsImport, lsBuffer, lsFiled, liveStorage>>
        /\ \A p \in Paths \ BlockBound : ledger'[p] = ledger[p]
    BY <1>3, CallStarts, Zenon
  <2>2. /\ ImportBuffer("livestorage")' = ImportBuffer("livestorage")
        /\ Buffer("livestorage")' = Buffer("livestorage")
    BY <2>1, Zenon DEF ImportBuffer, Buffer
  <2>3. Entries("livestorage")' = Entries("livestorage")
    BY <2>1, <2>2, EntriesKept, Zenon DEF Persistent
  <2>4. generation' \in {0, generation}
    BY <1>3, Zenon DEF SyncPrecommit, AsyncPrecommit, SyncCommit, AsyncCommit
  <2> QED BY <1>1, <2>1, <2>3, <2>4
<1>4. CASE WriterTask
  <2>1. PICK c, u : Done(c, u)
    BY <1>4, Zenon DEF WriterTask, ExecTask, LiveCacheTask, LiveStorageTask, EthTask
  <2>2. UNCHANGED <<ledger, generation>>
    BY <2>1, Zenon DEF Done, historyVars
  <2> QED BY <1>1, <1>4, <2>2, WriterEntries
<1> QED BY <1>2, <1>3, <1>4, Zenon DEF Next

\* The number of the last block only grows without a restart.
LEMMA BlockStep ==
    ASSUME FlowInv, BlockInv, Next
    PROVE  BlockInv'
<1>1. block \in Nat
  BY Zenon DEF FlowInv, OverlappedInv, TypeOK
<1>2. CASE tasks = {} /\ (CallImport \/ CallFinalize)
  BY <1>2, Zenon DEF CallImport, CallFinalize, Import, Finalize, BlockInv
<1>3. CASE tasks = {} /\ (SyncPrecommit \/ SyncCommit \/ AsyncCommit)
  BY <1>1, <1>3 DEF SyncPrecommit, SyncCommit, AsyncCommit, Start, Tasks, FlushTask, BlockInv
<1>4. CASE tasks = {} /\ AsyncPrecommit
  BY <1>4, Zenon DEF AsyncPrecommit, Start, Tasks, FlushTask, BlockInv
<1>5. CASE WriterTask
  <2>1. PICK c, u : Done(c, u)
    BY <1>5, Zenon DEF WriterTask, ExecTask, LiveCacheTask, LiveStorageTask, EthTask
  <2> QED BY <2>1, Zenon DEF Done, BlockInv
<1> QED BY <1>2, <1>3, <1>4, <1>5, Zenon DEF Next

\* Finalize adds one entry for each path that the generation writes.
LEMMA RecordFinalize ==
    ASSUME FlowInv, RecordInv, tasks = {}, owed = 0, NEW txs, Finalize(txs),
           RecordGeneration
    PROVE  RecordInv'
<1> DEFINE left == {i \in byPath : cells'[i].path \in Paths \ BlockBound}
           old == Entries("livestorage")
           written == {cells'[i].path : i \in byPath} \ {Nil}
<1>1. Entries("livestorage")' = old \cup {EntryOf(i)' : i \in left}
  BY FinalizedEntries, Zenon DEF Persistent
<1>2. /\ writtenInBlock' = writtenInBlock \cup written
      /\ rewritten' = rewritten \cup (written \cap writtenInBlock)
  BY Zenon DEF RecordGeneration
<1>3. \A i : EntryOf(i)' = [id |-> i, key |-> cells'[i].path, val |-> cells'[i].val]
  BY Zenon DEF EntryOf
<1>4. \A e \in old : /\ e.key \in Paths \ BlockBound /\ e.key \in writtenInBlock
                     /\ e.key \notin rewritten =>
                            e.val = ledger[e.key] /\ \A f \in old : f.key = e.key => f = e
  BY Zenon DEF RecordInv, FlowInv, EntriesInv, Persistent
<1>5. \A i \in left : cells'[i].path \in written
  BY NilAssumption, Zenon
<1> HIDE DEF old, written
<1>6. ASSUME NEW e \in old, e.key \notin rewritten'
      PROVE  /\ e.val = ledger'[e.key]
             /\ \A f \in old \cup {EntryOf(i)' : i \in left} : f.key = e.key => f = e
  <2>1. e.key \notin rewritten /\ e.key \notin written
    BY <1>2, <1>4, <1>6, Zenon
  <2>2. \A i \in left : EntryOf(i)'.key # e.key
    BY <1>3, <1>5, <2>1, Zenon
  <2>3. \A i \in byPath : cells'[i].path # e.key
    BY <1>4, <1>5, <2>1, Zenon
  <2>4. ledger'[e.key] = ledger[e.key]
    BY <1>4, <2>3, FinalizedPath, Zenon DEF FlowInv, OverlappedInv
  <2> QED BY <1>4, <2>1, <2>2, <2>4, Zenon
<1>7. ASSUME NEW j \in left, cells'[j].path \notin rewritten'
      PROVE  /\ cells'[j].val = ledger'[cells'[j].path]
             /\ \A f \in old \cup {EntryOf(i)' : i \in left} :
                    f.key = cells'[j].path => f = EntryOf(j)'
  <2>1. cells'[j].path \notin writtenInBlock
    BY <1>2, <1>5, <1>7, Zenon
  <2>2. \A f \in old : f.key # cells'[j].path
    BY <1>4, <2>1, Zenon
  <2>3. /\ cells'[j].val = ledger'[cells'[j].path]
        /\ \A i \in byPath : cells'[i].path = cells'[j].path => i = j
    BY FinalizedPath, Zenon DEF FlowInv, OverlappedInv
  <2>4. \A i \in left : EntryOf(i)'.key = cells'[j].path => i = j
    BY <1>3, <2>3, Zenon
  <2> QED BY <2>2, <2>3, <2>4, Zenon
<1>8. \A i \in left : /\ EntryOf(i)'.key = cells'[i].path
                      /\ EntryOf(i)'.val = cells'[i].val
                      /\ EntryOf(i)'.key \in writtenInBlock'
  BY <1>2, <1>3, <1>5, Zenon
<1>9. \A e \in old : e.key \in writtenInBlock'
  BY <1>2, <1>4, Zenon
<1> HIDE DEF left
<1> QED BY <1>1, <1>6, <1>7, <1>8, <1>9 DEF RecordInv

-----------------------------------------------------------------------------
(* Flushing the block to the execution storage *)

\* A part of the batch leaves values in the storage.
LEMMA PartTyped ==
    ASSUME FlowInv, NEW part \in SUBSET lsFiled
    PROVE  DeleteThenSet(liveStorage, part) \in [Paths -> Value \cup {Nil}]
<1> DEFINE after == DeleteThenSet(liveStorage, part)
<1>1. TypeOK
  BY Zenon DEF FlowInv, OverlappedInv
<1>2. Len(cells) \in Nat /\ \A e \in part : e.id \in 1..Len(cells)
  BY <1>1, HeapDomain, Zenon DEF TypeOK, LiveStorageTypeOK, EncodedEntry
<1>3. ASSUME NEW p \in Paths
      PROVE  after[p] \in Value \cup {Nil}
  <2>1. after[p] \in {Nil, liveStorage[p]} \cup {e.val : e \in {f \in part : f.key = p}}
    BY <1>2, BatchSource
  <2>2. /\ liveStorage[p] \in Value \cup {Nil}
        /\ \A e \in part : e.val \in Value \cup {Nil}
    BY <1>1, Zenon DEF TypeOK, LiveStorageTypeOK, EncodedEntry
  <2> HIDE DEF after
  <2> QED BY <2>1, <2>2, Zenon
<1>4. after = [p \in Paths |-> after[p]]
  BY DEF DeleteThenSet
<1> HIDE DEF after
<1>5. after \in [Paths -> Value \cup {Nil}]
  BY <1>3, <1>4, Zenon
<1> QED BY <1>5, Zenon DEF after

\* A flush, of the whole batch or of a part, concerns nothing but the storage.
LEMMA FlushFlow ==
    ASSUME FlowInv, NEW part \in SUBSET lsFiled, Done("AsyncCommit", "livestorage"),
           liveStorage' = DeleteThenSet(liveStorage, part), lsFiled' = {},
           UNCHANGED <<lsImport, lsBuffer, execVars, lcVars, ethVars>>
    PROVE  /\ FlowInv' /\ UNCHANGED liveCache
           /\ Entries("livestorage") = lsFiled /\ Entries("livestorage")' = {}
           /\ Entries("livecache")' = Entries("livecache")
<1>1. TypeOK'
  <2>1. TypeOK
    BY Zenon DEF FlowInv, OverlappedInv
  <2>2. liveStorage' \in [Paths -> Value \cup {Nil}]
    BY PartTyped, Zenon
  <2>3. CellIds' = CellIds /\ EncodedEntry' = EncodedEntry
    BY <2>1, DoneType, Zenon
  <2>4. LiveStorageTypeOK'
    BY <2>1, <2>2, <2>3, Zenon DEF TypeOK, LiveStorageTypeOK
  <2>5. ExecTypeOK' /\ LiveCacheTypeOK' /\ EthTypeOK'
    BY <2>1, <2>3, Zenon DEF TypeOK, execVars, lcVars, ethVars, ExecTypeOK, LiveCacheTypeOK, EthTypeOK
  <2> QED BY <2>1, <2>4, <2>5, DoneType, Zenon DEF TypeOK, AllTasks
<1>2. /\ UNCHANGED <<cells, byPath, byTxID, stage, owed, ledger, setInBlock>>
      /\ tasks' = tasks \ {<<"AsyncCommit", "livestorage">>}
  BY Zenon DEF Done, indexVars, historyVars
<1>3. GenerationInv' /\ OverlayInv'
  <2>1. /\ Pending("SyncPrecommit", "exec")' <=> Pending("SyncPrecommit", "exec")
        /\ Pending("SyncCommit", "exec")' <=> Pending("SyncCommit", "exec")
    BY <1>2, Zenon DEF Pending
  <2>2. UNCHANGED <<execBuffer, localCells>>
    BY Zenon DEF execVars
  <2> QED BY <1>2, <2>1, <2>2, GenerationFrame, OverlayFrame, Zenon DEF FlowInv, OverlappedInv
<1>4. CallsInv'
  BY <1>2, Zenon DEF FlowInv, CallsInv
<1>5. /\ ImportBuffer("livestorage")' = ImportBuffer("livestorage")
      /\ Buffer("livestorage")' = Buffer("livestorage")
      /\ Filed("livestorage") = lsFiled /\ Filed("livestorage")' = {}
      /\ UNCHANGED <<lcImport, lcBuffer, lcFiled, liveCache>>
  BY Zenon DEF ImportBuffer, Buffer, Filed, lcVars
<1>6. /\ BuffersInv' /\ EntriesInv'
      /\ Entries("livestorage") = lsFiled /\ Entries("livestorage")' = {}
      /\ Entries("livecache")' = Entries("livecache")
  BY <1>5, CommitEntries, Zenon DEF Persistent
<1> QED BY <1>1, <1>3, <1>4, <1>5, <1>6, Zenon DEF FlowInv, OverlappedInv

\* The storage is behind where the flush failed and, as before, where it had
\* nothing to write; elsewhere it is what is recorded as durable.
LEMMA FlushStep ==
    ASSUME FaultInv, NEW part \in SUBSET lsFiled, Done("AsyncCommit", "livestorage"),
           liveStorage' = DeleteThenSet(liveStorage, part), lsFiled' = {},
           UNCHANGED <<lsImport, lsBuffer, execVars, lcVars, ethVars, restarts>>,
           RecordFlush({e.key : e \in lsFiled \ part})
    PROVE  FaultInv'
<1>1. /\ FlowInv' /\ UNCHANGED liveCache
      /\ Entries("livestorage") = lsFiled /\ Entries("livestorage")' = {}
      /\ Entries("livecache")' = Entries("livecache")
  BY FlushFlow, Zenon DEF FaultInv
<1>2. PICK stale, behind : stale = unflushed /\ behind = unflushed'
  BY Zenon
<1>3. behind = (stale \ {e.key : e \in lsFiled}) \cup {e.key : e \in lsFiled \ part}
  BY <1>2, Zenon DEF RecordFlush
<1>4. StoresUpTo(behind)'
  <2>1. StoresUpTo(stale)
    BY <1>2, Zenon DEF FaultInv
  <2>2. /\ \A e \in lsFiled \ part : e.key \in behind
        /\ \A p \in stale : p \in behind \/ \E e \in lsFiled : e.key = p
    BY <1>3, Zenon
  <2>3. FlushOf(part, stale, behind)
    BY <1>1, <2>2, Zenon DEF FlushOf
  <2>4. FlowInv
    BY Zenon DEF FaultInv
  <2> QED BY <2>1, <2>3, <2>4, Flushed, Zenon
<1>5. StoresUpTo(unflushed)'
  BY <1>2, <1>4, Zenon DEF StoresUpTo
<1>6. UNCHANGED <<ledger, setThenDeleted>> /\ stage = "committed" /\ stage' = "committed"
  BY TaskOf, Zenon DEF FaultInv
<1>7. ASSUME NEW p \in Paths
      PROVE  durable'[p] = liveStorage'[p]
  <2>1. durable'[p] = IF p \in unflushed' \cup setThenDeleted THEN liveStorage'[p]
                      ELSE ledger[p]
    BY Zenon DEF RecordFlush
  <2>2. CASE p \in BlockBound
    <3>1. liveStorage'[p] = Nil
      BY <1>5, <2>2, Zenon DEF StoresUpTo
    <3>2. ledger[p] = Nil
      BY <1>6, <2>2, Zenon DEF FaultInv, FlowInv, OverlappedInv, OverlayInv
    <3> QED BY <2>1, <3>1, <3>2, Zenon
  <2>3. CASE p \notin BlockBound /\ p \notin setThenDeleted
    <3>1. \/ DeleteThenSet(liveStorage, Entries("livestorage"))'[p] = ledger'[p]
          \/ p \in unflushed'
      BY <1>5, <1>6, <2>3, Zenon DEF StoresUpTo
    <3>2. DeleteThenSet(liveStorage', {})[p] = liveStorage'[p]
      BY BatchEmpty, Zenon
    <3> QED BY <1>1, <1>6, <2>1, <3>1, <3>2, Zenon
  <2> QED BY <2>1, <2>2, <2>3, Zenon
<1>8. RecordInv'
  BY <1>1, Zenon DEF RecordInv
<1>9. BlockInv'
  BY <1>6, Zenon DEF FaultInv, BlockInv, Done, FlushTask
<1> QED BY <1>1, <1>5, <1>7, <1>8, <1>9, Zenon DEF FaultInv

\* Steps without a fault.
LEMMA ProceedStep ==
    ASSUME FaultInv, Proceed
    PROVE  FaultInv'
<1>1. Next /\ UNCHANGED restarts
  BY Zenon DEF Proceed
<1>2. CASE FlushTask \in tasks \ tasks'
  <2>1. /\ Done("AsyncCommit", "livestorage") /\ LiveStorageCommit
        /\ UNCHANGED <<execVars, lcVars, ethVars>>
    BY <1>1, <1>2, FlushEnds, Zenon
  <2>2. /\ liveStorage' = DeleteThenSet(liveStorage, lsFiled) /\ lsFiled' = {}
        /\ UNCHANGED <<lsImport, lsBuffer>>
    BY <2>1, Zenon DEF LiveStorageCommit
  <2>3. PICK part : part = lsFiled
    BY Zenon
  <2>4. {e.key : e \in lsFiled \ part} = {} /\ part \in SUBSET lsFiled
    BY <2>3, Zenon
  <2>5. RecordFlush({e.key : e \in lsFiled \ part})
    BY <1>2, <2>4, Zenon DEF Proceed
  <2> QED BY <1>1, <2>1, <2>2, <2>3, <2>4, <2>5, FlushStep, Zenon
<1>3. CASE FlushTask \notin tasks \ tasks'
  <2>1. PICK stale : stale = unflushed
    BY Zenon
  <2>2. FlowInv' /\ StoresUpTo(stale)'
    <3>1. FlowInv /\ StoresUpTo(stale)
      BY <2>1, Zenon DEF FaultInv
    <3> QED BY <1>1, <3>1, FlowStep, Zenon
  <2>3. BlockInv'
    BY <1>1, BlockStep, Zenon DEF FaultInv
  <2>4. /\ RecordInv' /\ UNCHANGED <<liveStorage, durable, unflushed>>
    <3>1. CASE tasks = {} /\ owed = 0 /\ CallFinalize
      <4>1. PICK txs \in SUBSET TxIds : Finalize(txs)
        BY <3>1, Zenon DEF CallFinalize
      <4>2. /\ generation' = generation + 1 /\ generation \in Nat /\ UNCHANGED liveStorage
        BY <4>1, FinalizedVars, Zenon DEF FaultInv, FlowInv, OverlappedInv, TypeOK
      <4>3. RecordGeneration
        BY <1>3, <4>2 DEF Proceed
      <4> QED BY <3>1, <4>1, <4>2, <4>3, RecordFinalize, Zenon DEF FaultInv, RecordGeneration
    <3>2. CASE ~(tasks = {} /\ owed = 0 /\ CallFinalize)
      <4>1. /\ Entries("livestorage")' = Entries("livestorage")
            /\ UNCHANGED liveStorage
            /\ \A p \in Paths \ BlockBound : ledger'[p] = ledger[p]
            /\ ~(generation' > generation)
        BY <1>1, <1>3, <3>2, OtherSteps, Zenon DEF FaultInv
      <4>2. UNCHANGED <<durable, writtenInBlock, rewritten, unflushed>>
        BY <1>3, <4>1, Zenon DEF Proceed
      <4>3. \A e \in Entries("livestorage") : e.key \in Paths \ BlockBound
        BY Zenon DEF FaultInv, FlowInv, EntriesInv, Persistent
      <4>4. RecordInv'
        BY <4>1, <4>2, <4>3, Zenon DEF FaultInv, RecordInv
      <4> QED BY <4>1, <4>2, <4>4, Zenon
    <3> QED BY <3>1, <3>2, Zenon
  <2>5. StoresUpTo(unflushed)'
    BY <2>1, <2>2, <2>4, Zenon DEF StoresUpTo
  <2> QED BY <1>1, <2>2, <2>3, <2>4, <2>5, Zenon DEF FaultInv
<1> QED BY <1>2, <1>3, Zenon

-----------------------------------------------------------------------------
(* Stopping and starting again *)

\* The entries that a stop finds at a path are of the block's flush.
LEMMA FiledEntries ==
    ASSUME FlowInv
    PROVE  \A e \in lsFiled : e \in Entries("livestorage") /\ e.key \in Paths \ BlockBound
<1>1. lsFiled \subseteq Entries("livestorage")
  BY Zenon DEF Entries, Filed
<1> QED BY <1>1, Zenon DEF FlowInv, EntriesInv, Persistent

\* A new process starts with the values that it finds, whatever they are, as
\* long as the storage has none of a path that is bound to a block.
LEMMA RestartStep ==
    ASSUME FaultInv, NEW stored \in [Paths -> Value \cup {Nil}],
           \A p \in BlockBound : stored[p] = Nil, Restart(stored)
    PROVE  FaultInv'
<1>1. /\ cells' = cells /\ execBuffer' = {} /\ localCells' = [p \in Paths |-> Nil]
      /\ lsImport' = {} /\ lsBuffer' = {} /\ lsFiled' = {} /\ liveStorage' = stored
      /\ lcImport' = {} /\ lcBuffer' = {} /\ lcFiled' = {}
      /\ liveCache' = [p \in Paths |-> Nil]
      /\ byPath' = {} /\ byTxID' = {} /\ tasks' = {} /\ owed' = 0
      /\ stage' = "committed" /\ generation' = 0
      /\ block' = LastStored /\ restarts' = restarts + 1
      /\ ledger' = stored /\ durable' = stored /\ rejected' = rejected
      /\ setInBlock' = {} /\ setThenDeleted' = {}
      /\ writtenInBlock' = {} /\ rewritten' = {} /\ unflushed' = {}
  BY Zenon DEF Restart, NewStoreProxy
<1>2. TypeOK'
  <2>1. TypeOK
    BY Zenon DEF FaultInv, FlowInv, OverlappedInv
  <2>2. CellIds' = CellIds
    BY <1>1, Zenon DEF CellIds
  <2>3. ExecTypeOK' /\ LiveCacheTypeOK' /\ LiveStorageTypeOK'
    BY <1>1, Zenon DEF ExecTypeOK, LiveCacheTypeOK, LiveStorageTypeOK
  <2>4. EthTypeOK'
    <3>1. DOMAIN blockRoots' = {}
      BY DEF Restart, NewStoreProxy
    <3> QED BY <3>1, Zenon DEF Restart, NewStoreProxy, EmptyAccounts, EthTypeOK
  <2>5. block' \in Nat
    <3>1. block \in Nat /\ (stage = "synced" \/ FlushTask \in tasks => block > 0)
      BY <2>1, Zenon DEF TypeOK, FaultInv, BlockInv
    <3> QED BY <1>1, <3>1 DEF LastStored
  <2> QED BY <1>1, <2>1, <2>2, <2>3, <2>4, <2>5, Zenon DEF TypeOK, Stage
<1>3. GenerationInv'
  BY <1>1, Zenon DEF GenerationInv
<1>4. \A c, w : ~Pending(c, w)'
  BY <1>1, Zenon DEF Pending
<1>5. OverlayInv'
  <2>1. \A p \in Paths : Merged(p)' = {}
    BY <1>1, Zenon DEF Merged, At
  <2>2. \A p \in Paths : MergedLatest(p)'
    BY <1>1, <2>1, Zenon DEF MergedLatest
  <2> QED BY <1>1, <1>4, <2>1, <2>2, Zenon DEF OverlayInv
<1>6. CallsInv'
  BY <1>1 DEF CallsInv
<1>7. ASSUME NEW w \in Persistent
      PROVE  BuffersOf(w)' /\ Entries(w)' = {}
  <2>1. ImportBuffer(w)' = {} /\ Buffer(w)' = {} /\ Filed(w)' = {}
    BY <1>1, Zenon DEF ImportBuffer, Buffer, Filed
  <2>2. Attached((ImportBuffer(w) \ byPath) \cup Buffer(w))' = {}
    BY <2>1, Zenon DEF Attached
  <2> QED BY <1>1, <2>1, <2>2, Zenon DEF BuffersOf, Entries
<1>8. Entries("livecache")' = {} /\ Entries("livestorage")' = {}
  BY <1>7, Zenon DEF Persistent
<1>9. BuffersInv' /\ EntriesInv'
  BY <1>7, <1>8, <1>1, Zenon DEF BuffersInv, EntriesInv
<1>10. StoresUpTo(unflushed)'
  <2>1. ASSUME NEW p \in Paths
        PROVE  /\ DeleteThenSet(liveStorage', {})[p] = stored[p]
               /\ DeleteThenSet(liveCache', {})[p] = Nil
    <3>1. /\ DeleteThenSet(liveStorage', {})[p] = liveStorage'[p]
          /\ DeleteThenSet(liveCache', {})[p] = liveCache'[p]
      BY BatchEmpty, Zenon
    <3>2. liveStorage'[p] = stored[p] /\ liveCache'[p] = Nil
      BY <1>1, Zenon
    <3> QED BY <3>1, <3>2, Zenon
  <2> QED BY <1>1, <1>8, <2>1, BlockBoundAssumption, Zenon DEF StoresUpTo
<1>11. RecordInv' /\ BlockInv'
  BY <1>1, <1>8, Zenon DEF RecordInv, BlockInv
<1>12. restarts' \in Nat
  <2>1. restarts \in Nat
    BY Zenon DEF FaultInv
  <2> QED BY <1>1, <2>1
<1> QED BY <1>1, <1>2, <1>3, <1>5, <1>6, <1>9, <1>10, <1>11, <1>12, Zenon
        DEF FaultInv, FlowInv, OverlappedInv

\* A part of the batch leaves the paths alone that are bound to the block.
LEMMA PartUnbound ==
    ASSUME FaultInv, NEW part \in SUBSET lsFiled, NEW p \in BlockBound
    PROVE  DeleteThenSet(liveStorage, part)[p] = Nil
<1>1. p \in Paths /\ liveStorage[p] = Nil
  BY BlockBoundAssumption, Zenon DEF FaultInv, StoresUpTo
<1>2. \A e \in part : e.key # p
  BY FiledEntries, Zenon DEF FaultInv
<1> QED BY <1>1, <1>2, BatchNone, Zenon

\* A stop leaves the storage as it is, or with a part of the flush under way.
LEMMA StopStep ==
    ASSUME FaultInv, StopBetweenSteps \/ \E part \in SUBSET lsFiled : StopInFlush(part)
    PROVE  FaultInv'
<1>1. CASE StopBetweenSteps
  <2>1. PICK stored : stored = liveStorage
    BY Zenon
  <2>2. /\ stored \in [Paths -> Value \cup {Nil}]
        /\ \A p \in BlockBound : stored[p] = Nil
    BY <2>1, Zenon DEF FaultInv, FlowInv, OverlappedInv, TypeOK, LiveStorageTypeOK, StoresUpTo
  <2>3. Restart(stored)
    BY <1>1, <2>1, Zenon DEF StopBetweenSteps, Restart, NewStoreProxy
  <2> QED BY <2>2, <2>3, RestartStep, Zenon
<1>2. ASSUME NEW part \in SUBSET lsFiled, StopInFlush(part)
      PROVE  FaultInv'
  <2>1. PICK stored : stored = DeleteThenSet(liveStorage, part)
    BY Zenon
  <2>2. /\ stored \in [Paths -> Value \cup {Nil}]
        /\ \A p \in BlockBound : stored[p] = Nil
    BY <2>1, PartTyped, PartUnbound, Zenon DEF FaultInv
  <2>3. Restart(stored)
    BY <1>2, <2>1, Zenon DEF StopInFlush, Restart, NewStoreProxy
  <2> QED BY <2>2, <2>3, RestartStep, Zenon
<1> QED BY <1>1, <1>2, Zenon

-----------------------------------------------------------------------------
(* With faults *)

\* Nothing has failed at the start.
LEMMA FaultInitial == FaultInit => FaultInv
<1> SUFFICES ASSUME FaultInit PROVE FaultInv
  BY Zenon
<1>1. Init /\ unflushed = {} /\ restarts = 0
  BY Zenon DEF FaultInit
<1>2. FlowInv /\ StoresUpTo({})
  BY <1>1, FlowInit, Zenon
<1>3. \A p \in Paths : durable[p] = liveStorage[p]
  BY Zenon DEF FaultInit, Init, LiveStorageInit
<1>4. Entries("livestorage") = {}
  BY Zenon DEF FaultInit, Init, LiveStorageInit, Entries, Filed, ImportBuffer, Buffer, Attached
<1>5. RecordInv /\ BlockInv
  BY <1>1, <1>4, Zenon DEF RecordInv, BlockInv, Init
<1> QED BY <1>1, <1>2, <1>3, <1>5, Zenon DEF FaultInv

\* The invariant is inductive, faults included.
LEMMA FaultStep ==
    ASSUME FaultInv, FaultNext \/ UNCHANGED allVars
    PROVE  FaultInv'
<1>1. CASE Proceed
  BY <1>1, ProceedStep, Zenon
<1>2. ASSUME NEW part \in SUBSET lsFiled, FlushFails(part)
      PROVE  FaultInv'
  BY <1>2, FlushStep, Zenon DEF FlushFails
<1>3. CASE StopBetweenSteps \/ \E part \in SUBSET lsFiled : StopInFlush(part)
  BY <1>3, StopStep, Zenon
<1>4. CASE UNCHANGED vars /\ UNCHANGED faultVars
  <2>1. PICK stale : stale = unflushed
    BY Zenon
  <2>2. FlowInv' /\ StoresUpTo(stale)'
    <3>1. FlowInv /\ StoresUpTo(stale)
      BY <2>1, Zenon DEF FaultInv
    <3> QED BY <1>4, <3>1, FlowStep, Zenon
  <2>3. /\ UNCHANGED <<durable, writtenInBlock, rewritten, unflushed, restarts>>
        /\ UNCHANGED <<cells, byPath, lsImport, lsBuffer, lsFiled, liveStorage>>
        /\ UNCHANGED <<ledger, stage, tasks, block>>
    BY <1>4, Zenon DEF faultVars, vars, lsVars, indexVars, callerVars, historyVars
  <2>4. StoresUpTo(unflushed)'
    BY <2>1, <2>2, <2>3, Zenon DEF StoresUpTo
  <2>5. Entries("livestorage")' = Entries("livestorage")
    <3>1. /\ ImportBuffer("livestorage")' = ImportBuffer("livestorage")
          /\ Buffer("livestorage")' = Buffer("livestorage")
      BY <2>3, Zenon DEF ImportBuffer, Buffer
    <3> QED BY <2>3, <3>1, EntriesKept, Zenon DEF Persistent
  <2>6. RecordInv' /\ BlockInv'
    BY <2>3, <2>5, Zenon DEF FaultInv, RecordInv, BlockInv
  <2> QED BY <2>2, <2>3, <2>4, <2>6, Zenon DEF FaultInv
<1> QED BY <1>1, <1>2, <1>3, <1>4, Zenon DEF FaultNext, Finished, allVars

\* Through every failure and restart.
LEMMA FaultAlways == FaultSpec => []FaultInv
<1>1. FaultInv /\ [FaultNext]_allVars => FaultInv'
  BY FaultStep, Zenon
<1> QED BY <1>1, FaultInitial, PTL DEF FaultSpec

\* For any number of failed flushes and restarts: an error that AsyncCommit
\* dropped shows only at a path whose last write to the storage failed, and only
\* once the path is in neither overlay nor cache.
THEOREM StaleOnlyWhereUnflushed == FaultSpec => []StaleOnlyIfUnflushed
<1>1. FaultInv => StaleOnlyIfUnflushed
  BY ReadsUpTo, Zenon DEF FaultInv, StaleOnlyIfUnflushed
<1> QED BY <1>1, FaultAlways, PTL

\* When AsyncCommit has returned, the storage has the latest value of every path
\* whose last write did not fail, the next block that writes it repairing one
\* that did.
THEOREM StorageRepaired == FaultSpec => []StorageUpToFailures
<1>1. FaultInv => StorageUpToFailures
  BY StoredUpTo, Zenon DEF FaultInv, StorageUpToFailures
<1> QED BY <1>1, FaultAlways, PTL

\* Wherever the process stops, also in the middle of a flush of which any part
\* took effect: at a path that at most one generation of the block wrote it
\* starts again from the last block written or from the one being written.
THEOREM RestartsFromWholeBlocks == FaultSpec => RestartsFromCommittedValues
<1> DEFINE Step == restarts' > restarts =>
                       \A p \in Paths \ rewritten :
                           \/ liveStorage'[p] = durable[p]
                           \/ FlushTask \in tasks /\ liveStorage'[p] = ledger[p]
<1>1. ASSUME FaultInv, Proceed
      PROVE  Step
  BY <1>1 DEF FaultInv, Proceed
<1>2. ASSUME FaultInv, NEW part \in SUBSET lsFiled, FlushFails(part)
      PROVE  Step
  BY <1>2 DEF FaultInv, FlushFails
<1>3. ASSUME FaultInv, StopBetweenSteps
      PROVE  Step
  BY <1>3, Zenon DEF FaultInv, StopBetweenSteps, Restart, NewStoreProxy
<1>4. ASSUME FaultInv, NEW part \in SUBSET lsFiled, StopInFlush(part), NEW p \in Paths \ rewritten
      PROVE  liveStorage'[p] = durable[p] \/ liveStorage'[p] = ledger[p]
  <2>1. liveStorage' = DeleteThenSet(liveStorage, part)
    BY <1>4, Zenon DEF StopInFlush, Restart, NewStoreProxy
  <2>2. CASE \A e \in part : e.key # p
    <3>1. DeleteThenSet(liveStorage, part)[p] = liveStorage[p]
      BY <2>2, BatchNone, Zenon
    <3> QED BY <1>4, <2>1, <3>1, Zenon DEF FaultInv
  <2>3. ASSUME NEW e \in part, e.key = p
        PROVE  liveStorage'[p] = ledger[p]
    <3>1. \A f \in part : f \in Entries("livestorage")
      BY <1>4, FiledEntries, Zenon DEF FaultInv
    <3>2. e.val = ledger[p] /\ \A f \in part : f.key = p => f = e
      BY <1>4, <2>3, <3>1, Zenon DEF FaultInv, RecordInv
    <3>3. CASE e.val = Nil
      <4>1. DeleteThenSet(liveStorage, part)[p] = Nil
        BY <2>3, <3>2, <3>3, BatchDeleted, Zenon
      <4> QED BY <2>1, <3>2, <3>3, <4>1, Zenon
    <3>4. CASE e.val # Nil
      <4>1. e.id \in Nat
        BY <1>4, HeapDomain
        DEF FaultInv, FlowInv, OverlappedInv, TypeOK, LiveStorageTypeOK, EncodedEntry
      <4>2. DeleteThenSet(liveStorage, part)[p] = e.val
        BY <2>3, <3>2, <3>4, <4>1, BatchNewest
      <4> QED BY <2>1, <3>2, <4>2, Zenon
    <3> QED BY <3>3, <3>4, Zenon
  <2> QED BY <2>2, <2>3, Zenon
<1>5. ASSUME FaultInv, NEW part \in SUBSET lsFiled, StopInFlush(part)
      PROVE  Step
  <2>1. FlushTask \in tasks
    BY <1>5, Zenon DEF StopInFlush
  <2> QED BY <1>4, <1>5, <2>1, Zenon
<1>6. FaultInv /\ [FaultNext]_allVars => [Step]_allVars
  <2>1. ASSUME FaultInv, Finished /\ UNCHANGED faultVars
        PROVE  UNCHANGED allVars
    BY <2>1, Zenon DEF Finished, allVars
  <2> HIDE DEF Step
  <2> QED BY <1>1, <1>2, <1>3, <1>5, <2>1, Zenon DEF FaultNext
<1> QED BY <1>6, FaultAlways, PTL DEF FaultSpec, RestartsFromCommittedValues
=============================================================================
