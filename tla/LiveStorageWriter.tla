-------------------------- MODULE LiveStorageWriter --------------------------
(***************************************************************************)
(* The writer of the execution storage (storage/execstorage/livebackend),  *)
(* the persistent store of the latest state.  It buffers like the live     *)
(* cache writer, but keys and encoded values are extracted from the cells  *)
(* by the asynchronous precommit, and committed from that copy.            *)
(***************************************************************************)
EXTENDS StateCells

VARIABLES
    lsImport,       \* LiveStgIndexer.importBuffer of the current indexer
    lsBuffer,       \* LiveStgIndexer.buffer of the current indexer
    lsFiled,        \* keyBuffer/encodedBuffer of the indexers filed for commit
    liveStorage     \* the backend: path -> value, Nil if absent

lsVars == <<lsImport, lsBuffer, lsFiled, liveStorage>>

EncodedEntry == [id : CellIds, key : Paths \cup {Nil}, val : Value \cup {Nil}]

LiveStorageInit ==
    /\ lsImport = {} /\ lsBuffer = {} /\ lsFiled = {}
    /\ liveStorage = [p \in Paths |-> Nil]

LiveStorageTypeOK ==
    /\ lsImport \subseteq CellIds
    /\ lsBuffer \subseteq CellIds
    /\ lsFiled \subseteq EncodedEntry
    /\ liveStorage \in [Paths -> Value \cup {Nil}]

LiveStorageImport(new) ==
    /\ lsImport' = lsImport \cup new
    /\ UNCHANGED <<lsBuffer, lsFiled, liveStorage>>

\* Mutant: the transitions are dropped with the import buffer.
LiveStorageSyncPrecommitDrops ==
    /\ lsBuffer' = {}
    /\ lsImport' = {}
    /\ UNCHANGED <<lsFiled, liveStorage>>

\* LiveStgIndexer.Reset
LiveStorageSyncPrecommit ==
    /\ lsBuffer' = lsImport
    /\ lsImport' = {}
    /\ UNCHANGED <<lsFiled, liveStorage>>

\* Mutant: the discarded cells are not removed.
LiveStorageAsyncPrecommitUnfiltered ==
    /\ lsFiled' = lsFiled \cup {EntryOf(i) : i \in lsBuffer}
    /\ lsBuffer' = {}
    /\ lsImport' = {}
    /\ UNCHANGED liveStorage

\* Mutant: the entries are written to the storage without waiting for Commit.
LiveStorageAsyncPrecommitEager ==
    /\ lsFiled' = lsFiled \cup {EntryOf(i) : i \in Attached(lsBuffer)}
    /\ liveStorage' = DeleteThenSet(liveStorage, lsFiled')
    /\ lsBuffer' = {}
    /\ lsImport' = {}

\* Finalize (drop the discarded cells, extract and encode the rest), file the
\* indexer, replace it by a new one.
LiveStorageAsyncPrecommit ==
    /\ lsFiled' = lsFiled \cup {EntryOf(i) : i \in Attached(lsBuffer)}
    /\ lsBuffer' = {}
    /\ lsImport' = {}
    /\ UNCHANGED liveStorage

\* Mutant: the filed indexers are kept for the next block.
LiveStorageCommitKeepsFiled ==
    /\ liveStorage' = DeleteThenSet(liveStorage, lsFiled)
    /\ UNCHANGED <<lsFiled, lsImport, lsBuffer>>

LiveStorageCommit ==
    /\ liveStorage' = DeleteThenSet(liveStorage, lsFiled)
    /\ lsFiled' = {}
    /\ UNCHANGED <<lsImport, lsBuffer>>
=============================================================================
