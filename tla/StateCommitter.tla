--------------------------- MODULE StateCommitter ---------------------------
(***************************************************************************)
(* The state committer (state/committer) and the four store writers it     *)
(* drives.  A block is executed as a sequence of generations.  For each    *)
(* generation the caller imports the transitions of its transactions,      *)
(* finalizes them against the list of transactions that survived conflict  *)
(* detection, and precommits them; at the end of the block it commits.     *)
(*                                                                         *)
(* Each precommit and commit call runs the writers in parallel and waits   *)
(* for all of them (slice.ParallelForeach).  A call therefore only starts  *)
(* one task per writer; the tasks run in any order, one step each.         *)
(***************************************************************************)
EXTENDS ExecutionCacheWriter, LiveCacheWriter, LiveStorageWriter,
        EthStorageWriter

CONSTANTS
    MaxCells,       \* bound: transitions imported in a behaviour
    MaxBatch,       \* bound: transitions in one Import
    MaxGenerations, \* bound: generations in a block
    MaxBlocks       \* bound: blocks committed

ASSUME BoundAssumption ==
    {MaxCells, MaxBatch, MaxGenerations, MaxBlocks} \subseteq Nat

VARIABLES
    byPath,         \* the cells in the path index
    byTxID,         \* the cells in the transaction index
    stage,          \* the caller's last call
    tasks,          \* writers the calls made still have to run
    owed,           \* generations whose AsyncPrecommit has not been called
    generation,     \* generations finalized in this block
    block,          \* blocks committed: the number of the last one
    \* History, used by the properties only:
    rejected,       \* cells whose transaction was not listed to Finalize
    ledger,         \* path -> latest value, after the last Finalize
    setInBlock,     \* paths given a value by a generation of this block
    setThenDeleted  \* paths whose last write deleted what the same block set

indexVars == <<byPath, byTxID>>
callerVars == <<stage, tasks, owed, generation, block>>
historyVars == <<rejected, ledger, setInBlock, setThenDeleted>>
vars == <<cells, execVars, lcVars, lsVars, ethVars, indexVars, callerVars,
          historyVars>>

-----------------------------------------------------------------------------
(* Calls and tasks *)

Stage == {"executing", "finalized", "precommitted", "synced", "committed"}

SyncPrecommitWriters == {"exec", "livecache", "livestorage"}
AsyncPrecommitWriters == {"livecache", "livestorage", "eth"}
SyncWriters == {"exec", "livecache"}

\* Mutant: a writer is lost when the list is split.
AsyncWritersEthOnly == {"eth"}

AsyncWriters == {"livestorage", "eth"}

Tasks(call, writers) == {<<call, w>> : w \in writers}

AllTasks == Tasks("SyncPrecommit", SyncPrecommitWriters)
       \cup Tasks("AsyncPrecommit", AsyncPrecommitWriters)
       \cup Tasks("SyncCommit", SyncWriters)
       \cup Tasks("AsyncCommit", AsyncWriters)

Joined(calls) == \A t \in tasks : t[1] \notin calls

Done(call, w) ==
    /\ <<call, w>> \in tasks
    /\ tasks' = tasks \ {<<call, w>>}
    /\ UNCHANGED <<cells, indexVars, stage, owed, generation, block, historyVars>>

-----------------------------------------------------------------------------
(* DeltaSequence: the transitions of a generation to one path *)

\* DeltaSequence.sort on cells listed in order of import: system transactions
\* first, then by transaction number.  A system cell compares as smaller than
\* any cell before it, another system cell included, so the stable sort
\* reverses their order.
Before(i, j) ==
    LET system(k) == cells[k].tx = SYSTEM
    IN  \/ system(i) /\ (system(j) => j < i)
        \/ /\ ~system(i) /\ ~system(j)
           /\ \/ cells[i].tx < cells[j].tx
              \/ cells[i].tx = cells[j].tx /\ i < j

\* Before(i, i) is never needed: the ends of a sequence, by comparison with
\* its other members.
First(seq) == CHOOSE i \in seq : \A j \in seq \ {i} : Before(i, j)
Last(seq) == CHOOSE i \in seq : \A j \in seq \ {i} : Before(j, i)

\* The transitions a value was made from.
Origins(v) == IF v = Nil THEN {} ELSE v.from

MergedOrigins(ids) == UNION {Origins(cells[i].val) : i \in ids}

\* Mutant: a deletion at the end is carried in the value.
ApplyDeltaKeepsDeletion(seq) ==
    [from |-> MergedOrigins(seq),
     last |-> IF cells[Last(seq)].val = Nil THEN Nil ELSE Last(seq)]

\* StateCell.ApplyDelta (external): the rest of the sequence applied to the
\* first cell in order.  A deletion at the end leaves nothing.
ApplyDelta(seq) ==
    IF cells[Last(seq)].val = Nil THEN Nil
    ELSE [from |-> MergedOrigins(seq), last |-> Last(seq)]

-----------------------------------------------------------------------------
(* The committer's operations *)

Init ==
    /\ cells = <<>>
    /\ ExecInit /\ LiveCacheInit /\ LiveStorageInit /\ EthInit
    /\ byPath = {} /\ byTxID = {}
    /\ stage = "executing" /\ tasks = {} /\ owed = 0
    /\ generation = 0 /\ block = 0
    /\ rejected = {}
    /\ ledger = [p \in Paths |-> Nil]
    /\ setInBlock = {} /\ setThenDeleted = {}

\* The first cell imported for a path in a generation is preloaded (a deletion
\* has no value, so there is nothing to load).
NewCell(trans, k) ==
    LET t == trans[k]
        id == Len(cells) + k
        isFirst == /\ At(byPath, t.path) = {}
                   /\ \A m \in 1..(k - 1) : trans[m].path # t.path
    IN  [path |-> t.path, tx |-> t.tx, skip |-> t.skip,
         val |-> IF t.delete THEN Nil
                 ELSE [from |-> ResetContent(t.path, {id}), last |-> id],
         preloaded |-> isFirst]

Import(trans) ==
    LET new == (Len(cells) + 1)..(Len(cells) + Len(trans))
        persistent == {i \in new : NonTransientOnly(trans[i - Len(cells)].path)}
    IN  /\ stage \in {"executing", "precommitted", "committed"}
        /\ cells' = cells \o [k \in 1..Len(trans) |-> NewCell(trans, k)]
        /\ byPath' = byPath \cup new
        /\ byTxID' = byTxID \cup {i \in new : ~trans[i - Len(cells)].skip}
        /\ ExecImport(new)
        /\ LiveCacheImport(persistent)
        /\ LiveStorageImport(persistent)
        /\ EthImport(persistent)
        /\ stage' = "executing"
        /\ UNCHANGED <<tasks, owed, generation, block, historyVars>>

\* Mutant: the listed transactions are discarded, not the others.
DiscardedListed(txs) ==
    IF txs = {} THEN {} ELSE {i \in byTxID : cells[i].tx \in txs}

\* whitelist: the cells discarded for the listed transactions; none is if the
\* list is empty.
Discarded(txs) ==
    IF txs = {} THEN {} ELSE {i \in byTxID : cells[i].tx \notin txs}

\* The delta sequences left once those cells are removed.
DeltaSequences(txs) ==
    {seq \in {At(byPath, p) \ Discarded(txs) : p \in Paths} : seq # {}}

\* Mutant: the cells merged into the first one are not discarded.
FinalizedCellsKeepMerged(txs) ==
    LET bases == {First(seq) : seq \in DeltaSequences(txs)}
        seqOf(i) == CHOOSE seq \in DeltaSequences(txs) : i \in seq
    IN  [i \in DOMAIN cells |->
            IF i \in bases THEN [cells[i] EXCEPT !.val = ApplyDelta(seqOf(i))]
            ELSE IF i \in Discarded(txs) THEN [cells[i] EXCEPT !.path = Nil]
            ELSE cells[i]]

\* The heap after finalization: the first cell of each sequence carries the
\* merged value, every other cell of the generation is discarded.
FinalizedCells(txs) ==
    LET bases == {First(seq) : seq \in DeltaSequences(txs)}
        seqOf(i) == CHOOSE seq \in DeltaSequences(txs) : i \in seq
    IN  [i \in DOMAIN cells |->
            IF i \in bases THEN [cells[i] EXCEPT !.val = ApplyDelta(seqOf(i))]
            ELSE IF i \in byPath THEN [cells[i] EXCEPT !.path = Nil]
            ELSE cells[i]]

(* What the stores are expected to hold afterwards, stated without the     *)
(* committer's indexes and sort: a transition is accepted if its           *)
(* transaction is listed, or exempt from conflict detection, or if         *)
(* nothing is listed; the accepted transition of the highest transaction   *)
(* decides, a system transaction counting as the lowest.                   *)
Listed(i, txs) == txs = {} \/ cells[i].skip \/ cells[i].tx \in txs

Accepted(txs, p) == {i \in byPath : cells[i].path = p /\ Listed(i, txs)}

Outcome(acc) ==
    LET rank(i) == IF cells[i].tx = SYSTEM THEN -1 ELSE cells[i].tx
        decides == CHOOSE i \in acc : \A j \in acc : rank(j) <= rank(i)
    IN  IF cells[decides].val = Nil THEN Nil
        ELSE [from |-> MergedOrigins(acc), last |-> decides]

RecordOutcome(txs) ==
    LET written == {p \in Paths : Accepted(txs, p) # {}}
        deleted == {p \in written : Outcome(Accepted(txs, p)) = Nil}
    IN  /\ rejected' = rejected \cup {i \in byPath : ~Listed(i, txs)}
        /\ ledger' = [p \in Paths |->
               IF p \in written THEN Outcome(Accepted(txs, p)) ELSE ledger[p]]
        /\ setInBlock' = setInBlock \cup (written \ deleted)
        /\ setThenDeleted' =
               (setThenDeleted \ written) \cup (deleted \cap setInBlock)

\* Mutant: the indexes are not cleared.
FinalizeKeepsIndex(txs) ==
    /\ stage \in {"executing", "precommitted", "committed"}
    /\ cells' = FinalizedCells(txs)
    /\ stage' = "finalized"
    /\ generation' = generation + 1
    /\ RecordOutcome(txs)
    /\ UNCHANGED <<execVars, lcVars, lsVars, ethVars, indexVars, tasks, owed, block>>

Finalize(txs) ==
    /\ stage \in {"executing", "precommitted", "committed"}
    /\ cells' = FinalizedCells(txs)
    /\ byPath' = {}
    /\ byTxID' = {}
    /\ stage' = "finalized"
    /\ generation' = generation + 1
    /\ RecordOutcome(txs)
    /\ UNCHANGED <<execVars, lcVars, lsVars, ethVars, tasks, owed, block>>

\* The four calls that run the writers.  Each only starts its tasks here.
Start(call, writers) ==
    /\ tasks' = tasks \cup Tasks(call, writers)
    /\ UNCHANGED <<cells, execVars, lcVars, lsVars, ethVars, indexVars>>

SyncPrecommit ==
    /\ stage = "finalized"
    /\ stage' = "precommitted"
    /\ owed' = owed + 1
    /\ Start("SyncPrecommit", SyncPrecommitWriters)
    /\ UNCHANGED <<generation, block, historyVars>>

AsyncPrecommit ==
    /\ owed > 0
    /\ owed' = owed - 1
    /\ Start("AsyncPrecommit", AsyncPrecommitWriters)
    /\ UNCHANGED <<stage, generation, block, historyVars>>

\* What is bound to the block ends with it.
SyncCommit ==
    /\ stage = "precommitted"
    /\ stage' = "synced"
    /\ block' = block + 1
    /\ generation' = 0
    /\ Start("SyncCommit", SyncWriters)
    /\ ledger' = [p \in Paths |-> IF p \in BlockBound THEN Nil ELSE ledger[p]]
    /\ setInBlock' = {}
    /\ UNCHANGED <<owed, rejected, setThenDeleted>>

AsyncCommit ==
    /\ stage = "synced"
    /\ stage' = "committed"
    /\ Start("AsyncCommit", AsyncWriters)
    /\ UNCHANGED <<owed, generation, block, historyVars>>

\* One writer finishing its part of a call.
ExecTask ==
    /\ \/ Done("SyncPrecommit", "exec") /\ ExecPrecommit
       \/ Done("SyncCommit", "exec") /\ ExecCommit
    /\ UNCHANGED <<lcVars, lsVars, ethVars>>

LiveCacheTask ==
    /\ \/ Done("SyncPrecommit", "livecache") /\ LiveCacheSyncPrecommit
       \/ Done("AsyncPrecommit", "livecache") /\ LiveCacheAsyncPrecommit
       \/ Done("SyncCommit", "livecache") /\ LiveCacheCommit
    /\ UNCHANGED <<execVars, lsVars, ethVars>>

LiveStorageTask ==
    /\ \/ Done("SyncPrecommit", "livestorage") /\ LiveStorageSyncPrecommit
       \/ Done("AsyncPrecommit", "livestorage") /\ LiveStorageAsyncPrecommit
       \/ Done("AsyncCommit", "livestorage") /\ LiveStorageCommit
    /\ UNCHANGED <<execVars, lcVars, ethVars>>

EthTask ==
    /\ \/ Done("AsyncPrecommit", "eth") /\ EthPrecommit
       \/ Done("AsyncCommit", "eth") /\ EthCommit(block)
    /\ UNCHANGED <<execVars, lcVars, lsVars>>

WriterTask == ExecTask \/ LiveCacheTask \/ LiveStorageTask \/ EthTask

-----------------------------------------------------------------------------
(* Schedules *)

\* A transaction exports one transition per path, SYSTEM too, whose cells are
\* those of one transaction; only storage is ever deleted, and a system
\* transaction is exempt from conflict detection.
Exportable(trans) ==
    /\ \A k \in DOMAIN trans :
           /\ trans[k].delete => trans[k].path \in StoragePaths
           /\ trans[k].tx = SYSTEM => trans[k].skip
           /\ \A i \in At(byPath, trans[k].path) : cells[i].tx # trans[k].tx
    /\ \A k, m \in DOMAIN trans :
           k # m => <<trans[k].path, trans[k].tx>> # <<trans[m].path, trans[m].tx>>

Batches == UNION {[1..n -> Transition] : n \in 1..MaxBatch}

MoreGenerations == generation < MaxGenerations /\ block < MaxBlocks

CallImport ==
    \E trans \in Batches :
        /\ MoreGenerations /\ Len(cells) + Len(trans) <= MaxCells
        /\ Exportable(trans)
        /\ Import(trans)

CallFinalize == MoreGenerations /\ \E txs \in SUBSET TxIds : Finalize(txs)

\* DebugPrecommit and DebugCommit: each call waits for the one before it.
Next ==
    \/ tasks = {} /\ owed = 0 /\ CallImport
    \/ tasks = {} /\ owed = 0 /\ CallFinalize
    \/ tasks = {} /\ owed = 0 /\ SyncPrecommit
    \/ tasks = {} /\ AsyncPrecommit
    \/ tasks = {} /\ owed = 0 /\ SyncCommit
    \/ tasks = {} /\ AsyncCommit
    \/ WriterTask

\* SyncPrecommit and AsyncPrecommit called separately: the caller waits for
\* the synchronous calls, and the next generation proceeds while the
\* asynchronous calls of earlier ones are still to come or under way.
NextOverlapped ==
    \/ Joined({"SyncPrecommit", "SyncCommit"}) /\ CallImport
    \/ Joined({"SyncPrecommit", "SyncCommit"}) /\ CallFinalize
    \/ Joined({"SyncPrecommit", "SyncCommit"}) /\ SyncPrecommit
    \/ Joined({"SyncPrecommit", "AsyncPrecommit", "AsyncCommit"}) /\ AsyncPrecommit
    \/ tasks = {} /\ owed = 0 /\ SyncCommit
    \/ tasks = {} /\ AsyncCommit
    \/ WriterTask

\* The bounds are reached and every call has returned.
Finished == block = MaxBlocks /\ stage = "committed" /\ tasks = {} /\ UNCHANGED vars

Spec == Init /\ [][Next \/ Finished]_vars

\* Every call returns, and the caller goes on to the end of the block.
Fairness ==
    /\ WF_vars(WriterTask)
    /\ WF_vars(tasks = {} /\ owed = 0 /\ CallFinalize)
    /\ WF_vars(tasks = {} /\ owed = 0 /\ SyncPrecommit)
    /\ WF_vars(tasks = {} /\ AsyncPrecommit)
    /\ WF_vars(tasks = {} /\ owed = 0 /\ SyncCommit)
    /\ WF_vars(tasks = {} /\ AsyncCommit)

FairSpec == Spec /\ Fairness

OverlappedSpec == Init /\ [][NextOverlapped \/ Finished]_vars

-----------------------------------------------------------------------------
(* Properties *)

\* What an execution in the next generation reads: the overlay, then the live
\* cache, then the storage behind it (ExecutionStateStore over CachedStore).
View(p) ==
    IF localCells[p] # Nil THEN cells[localCells[p]].val
    ELSE IF liveCache[p] # Nil THEN liveCache[p] ELSE liveStorage[p]

\* Every call has returned and every finalized generation is precommitted.
Settled == tasks = {} /\ owed = 0 /\ stage # "finalized"

\* Every variable holds a value of its kind; list members are cells of the heap.
TypeOK ==
    /\ cells \in Seq(StateCell)
    /\ ExecTypeOK /\ LiveCacheTypeOK /\ LiveStorageTypeOK /\ EthTypeOK
    /\ byPath \subseteq CellIds
    /\ byTxID \subseteq CellIds
    /\ stage \in Stage
    /\ tasks \subseteq AllTasks
    /\ owed \in Nat /\ generation \in Nat /\ block \in Nat
    /\ rejected \subseteq CellIds
    /\ ledger \in [Paths -> Value \cup {Nil}]
    /\ setInBlock \subseteq Paths /\ setThenDeleted \subseteq Paths

\* Nothing a rejected transaction wrote reaches a store: no value in the
\* overlay, the live cache, the storage or the Ethereum accounts was merged
\* from a cell that Finalize's whitelist left out.
RejectedNeverVisible ==
    \A p \in Paths :
        /\ localCells[p] # Nil =>
               Origins(cells[localCells[p]].val) \cap rejected = {}
        /\ Origins(liveCache[p]) \cap rejected = {}
        /\ Origins(liveStorage[p]) \cap rejected = {}
        /\ Origins(ethAccounts[p]) \cap rejected = {}

\* From SyncPrecommit of a generation on, an execution reads what the accepted
\* transitions of the highest transaction left, whichever of overlay, cache
\* and storage it is found in, also across the commit of the block and the
\* eviction of cache entries.  Excepted are paths that one block set and a
\* later generation of it deleted, once the overlay is cleared.
ReadsLatest ==
    stage \in {"executing", "precommitted", "committed"} /\ tasks = {} =>
        \A p \in Paths :
            \/ View(p) = ledger[p]
            \/ p \in setThenDeleted /\ localCells[p] = Nil

\* When AsyncCommit has returned, the execution storage holds the latest value
\* of every persistent path, with the same exception.
StorageLatest ==
    stage = "committed" /\ tasks = {} =>
        \A p \in Paths \ setThenDeleted : liveStorage[p] = ledger[p]

\* Once a generation is precommitted, the Ethereum accounts hold the latest
\* value of every persistent path, and the world trie has every account as
\* it is.
EthLatest ==
    Settled =>
        /\ \A p \in Paths \ BlockBound : ethAccounts[p] = ledger[p]
        /\ \A a \in Accounts :
               worldTrie[a] \in {Nil, Encode(ethAccounts, a)}

\* After SyncPrecommit the live cache writer has at most one cell per path
\* left to file: merged cells are discarded for it too.
OneCellPerPath ==
    stage = "precommitted" =>
        \A i, j \in Attached(lcBuffer) : cells[i].path = cells[j].path => i = j

\* The cache and the storage behind it commit the same writes, although the one
\* reads the cells when it commits and the other copied them before.
SameWritesFiled ==
    Settled /\ stage # "synced" =>
        lsFiled = {EntryOf(i) : i \in lcFiled}

\* A cell filed for the block's commit is not modified any more: its path is
\* dereferenced and its value shared when the live cache commits.
FiledCellsFrozen == [][\A i \in lcFiled : cells'[i] = cells[i]]_vars

\* Whatever world root is in the trie database, reading it again gives the
\* contents of the accounts that the root was computed from: their storage
\* tries were committed before it or with it.
EthRootsResolvable ==
    \A w \in trieDB : DOMAIN w = Accounts =>
        \A p \in Paths :
            w[AccountOf[p]] # Nil => EthGet(w, p) = w[AccountOf[p]][p]

\* Under any overlap of the asynchronous calls, the overlay is up to date when
\* SyncPrecommit has returned: it has every path the block set, and what it has
\* is the latest value.
OverlayLatest ==
    stage \in {"executing", "precommitted"} /\ Joined({"SyncPrecommit"}) =>
        \A p \in Paths :
            IF localCells[p] = Nil THEN p \notin setInBlock
            ELSE cells[localCells[p]].val = ledger[p]

\* A finalized generation is eventually committed and in the storage.
EventuallyStored ==
    stage = "finalized" ~>
        /\ stage = "committed" /\ tasks = {}
        /\ \A p \in Paths \ setThenDeleted : liveStorage[p] = ledger[p]

-----------------------------------------------------------------------------
(* What comments and documents say of the program, where it does not hold *)

\* README: the execution storage holds the latest state.  No exception.
StorageHoldsLatest ==
    stage = "committed" /\ tasks = {} =>
        \A p \in Paths : liveStorage[p] = ledger[p]

\* README, object cache: an updated entry is not evicted before it is flushed
\* to the execution storage, so between the two commits a value that the
\* storage does not have yet is in the cache.
NotEvictedBeforeFlush ==
    stage = "synced" /\ tasks = {} =>
        \A p \in Paths :
            ledger[p] \in {Nil, liveStorage[p], liveCache[p]}

\* eth_world_state.go: blockRoots looks up the root hash for a block number.
RootOfBlock ==
    stage = "committed" /\ tasks = {} =>
        block \in DOMAIN blockRoots /\ blockRoots[block] = worldTrie

\* eth_storage_indexer.go: accounts with no transition left are removed, so an
\* account is in the world trie only if an accepted transition touched it.
OnlyWrittenAccounts ==
    \A a \in Accounts :
        worldTrie[a] # Nil =>
            \E i \in CellIds \ rejected :
                cells[i].path # Nil /\ AccountOf[cells[i].path] = a

\* indexer.go: the path index serves to apply transitions on the original
\* state, so the cell that the others are applied to is the preloaded one.
BaseIsPreloaded ==
    \A i \in CellIds \ byPath :
        cells[i].path # Nil /\ cells[i].val # Nil => cells[i].preloaded
=============================================================================
