------------------------ MODULE StateCommitterFaults ------------------------
(***************************************************************************)
(* The state committer on storage that fails: the process may stop at any  *)
(* point and be started again on the same directories (NewFileStoreProxy,  *)
(* NewPebbleDBProxy), also in the middle of the batch that a commit writes *)
(* to the execution storage, and writes of that batch may fail.  The       *)
(* caller executes the interrupted block again.                            *)
(*                                                                         *)
(* The database writes key by key: of DeleteBatch and SetBatch any part    *)
(* may have taken effect.  The heap of cells is only kept to name values;  *)
(* a new process has no pointer into it.                                   *)
(***************************************************************************)
EXTENDS StateCommitter

CONSTANTS
    MaxRestarts,    \* bound: restarts in a behaviour
    MaxFailures     \* bound: batches that fail in part

ASSUME FaultAssumption == {MaxRestarts, MaxFailures} \subseteq Nat

VARIABLES
    restarts, failures,
    \* History, used by the properties only:
    durable,        \* path -> value, after the last block written to storage
    writtenInBlock, \* paths written by a generation of the unwritten block
    rewritten,      \* paths written by more than one
    unflushed       \* paths whose last write to the storage failed

faultVars == <<restarts, failures, durable, writtenInBlock, rewritten, unflushed>>
allVars == <<vars, faultVars>>

FaultInit ==
    /\ Init
    /\ restarts = 0 /\ failures = 0
    /\ durable = [p \in Paths |-> Nil]
    /\ writtenInBlock = {} /\ rewritten = {} /\ unflushed = {}

-----------------------------------------------------------------------------
(* Flushing the block to the execution storage *)

FlushTask == <<"AsyncCommit", "livestorage">>

\* A part of the batch: the deletions go first.
PartOfBatch(part) ==
    /\ part \subseteq lsFiled
    /\ (\E e \in part : e.val # Nil) => \A e \in lsFiled \ part : e.val # Nil

\* After a flush whose writes to the paths in failed did not take effect.
RecordFlush(failed) ==
    LET written == {e.key : e \in lsFiled}
    IN  /\ unflushed' = (unflushed \ written) \cup failed
        /\ durable' = [p \in Paths |->
               IF p \in unflushed' \cup setThenDeleted THEN liveStorage'[p] ELSE ledger[p]]
        /\ writtenInBlock' = {} /\ rewritten' = {}

\* A generation writes the paths of the cells that Finalize leaves attached.
RecordGeneration ==
    LET written == {cells'[i].path : i \in byPath} \ {Nil}
    IN  /\ writtenInBlock' = writtenInBlock \cup written
        /\ rewritten' = rewritten \cup (written \cap writtenInBlock)
        /\ UNCHANGED <<durable, unflushed>>

\* Steps without a fault.
Proceed ==
    /\ Next
    /\ IF FlushTask \in tasks \ tasks' THEN RecordFlush({})
       ELSE IF generation' > generation THEN RecordGeneration
       ELSE UNCHANGED <<durable, writtenInBlock, rewritten, unflushed>>
    /\ UNCHANGED <<restarts, failures>>

\* Mutant: the flush is retried with the next block.
FlushFailsKeepsBuffer(part) ==
    /\ part \subseteq lsFiled /\ part # lsFiled
    /\ Done("AsyncCommit", "livestorage")
    /\ liveStorage' = DeleteThenSet(liveStorage, part)
    /\ RecordFlush({e.key : e \in lsFiled \ part})
    /\ failures' = failures + 1
    /\ UNCHANGED <<lsFiled, lsImport, lsBuffer, execVars, lcVars, ethVars, restarts>>

\* LiveStorageWriter.Commit when only a part of the batch can be written: the
\* buffer is cleared all the same, and AsyncCommit drops the error.
FlushFails(part) ==
    /\ part \subseteq lsFiled /\ part # lsFiled
    /\ Done("AsyncCommit", "livestorage")
    /\ liveStorage' = DeleteThenSet(liveStorage, part)
    /\ lsFiled' = {}
    /\ RecordFlush({e.key : e \in lsFiled \ part})
    /\ failures' = failures + 1
    /\ UNCHANGED <<lsImport, lsBuffer, execVars, lcVars, ethVars, restarts>>

-----------------------------------------------------------------------------
(* Stopping and starting again *)

\* The block that the caller goes on from: the last one written to storage.
LastStored ==
    IF stage = "synced" \/ FlushTask \in tasks THEN block - 1 ELSE block

\* A new StorageProxy and committer over the execution storage as it is.  The
\* live cache is empty, and so is the Ethereum storage: NewLevelDBDataStore
\* starts with an empty trie, and trie nodes are never written to its disk.
NewStoreProxy(stored) ==
    /\ liveStorage' = stored
    /\ lsImport' = {} /\ lsBuffer' = {} /\ lsFiled' = {}
    /\ execBuffer' = {} /\ localCells' = [p \in Paths |-> Nil]
    /\ liveCache' = [p \in Paths |-> Nil]
    /\ lcImport' = {} /\ lcBuffer' = {} /\ lcFiled' = {}
    /\ ethIndex' = [a \in Accounts |-> {}] /\ ethAccounts' = EmptyAccounts
    /\ trieDirty' = [a \in Accounts |-> FALSE]
    /\ worldTrie' = [a \in Accounts |-> Nil]
    /\ ethFiled' = 0 /\ ethDirty' = {} /\ trieDB' = {} /\ blockRoots' = <<>>
    /\ byPath' = {} /\ byTxID' = {} /\ tasks' = {} /\ owed' = 0
    /\ UNCHANGED cells

Restart(stored) ==
    /\ NewStoreProxy(stored)
    /\ stage' = "committed" /\ generation' = 0 /\ block' = LastStored
    /\ restarts' = restarts + 1
    /\ ledger' = stored /\ durable' = stored
    /\ setInBlock' = {} /\ setThenDeleted' = {}
    /\ writtenInBlock' = {} /\ rewritten' = {} /\ unflushed' = {}
    /\ UNCHANGED <<rejected, failures>>

StopBetweenSteps == Restart(liveStorage)

StopInFlush(part) ==
    /\ FlushTask \in tasks
    /\ PartOfBatch(part)
    /\ Restart(DeleteThenSet(liveStorage, part))

FaultNext ==
    \/ Proceed
    \/ failures < MaxFailures /\ \E part \in SUBSET lsFiled : FlushFails(part)
    \/ restarts < MaxRestarts /\ StopBetweenSteps
    \/ restarts < MaxRestarts /\ \E part \in SUBSET lsFiled : StopInFlush(part)
    \/ Finished /\ UNCHANGED faultVars

FaultSpec == FaultInit /\ [][FaultNext]_allVars

-----------------------------------------------------------------------------
(* Properties *)

\* Whenever the process stops, it starts again with what whole blocks left:
\* each path has its value of the last block written or, if the stop was in
\* the middle of a flush, that of the block being written; nothing of a block
\* whose AsyncCommit had not begun is there.  Excepted are paths that several
\* generations of the interrupted block wrote.
RestartsFromCommittedValues ==
    [][restarts' > restarts =>
        \A p \in Paths \ rewritten :
            \/ liveStorage'[p] = durable[p]
            \/ FlushTask \in tasks /\ liveStorage'[p] = ledger[p]]_allVars

\* An error that AsyncCommit dropped shows only where it must: executions read
\* the latest value of every path, in later blocks and after a restart too,
\* but for a path whose write failed and that is in neither overlay nor cache.
StaleOnlyIfUnflushed ==
    stage \in {"executing", "precommitted", "committed"} /\ tasks = {} =>
        \A p \in Paths :
            \/ View(p) = ledger[p]
            \/ p \in setThenDeleted /\ localCells[p] = Nil
            \/ p \in unflushed /\ localCells[p] = Nil /\ liveCache[p] = Nil

\* A failed write stays without effect, and the next block that writes the path
\* repairs it: everywhere else the storage is that of the last block.
StorageUpToFailures ==
    stage = "committed" /\ tasks = {} =>
        \A p \in Paths \ (setThenDeleted \cup unflushed) : liveStorage[p] = ledger[p]

-----------------------------------------------------------------------------
(* What comments say of the program, where it does not hold *)

\* state_proxy.go: the Ethereum storage is a persistent storage, so a stop between
\* blocks, after everything has been committed, leaves it as it was.
EthPersistent ==
    [][restarts' > restarts /\ stage = "committed" /\ tasks = {} =>
           ethAccounts' = ethAccounts]_allVars
=============================================================================
