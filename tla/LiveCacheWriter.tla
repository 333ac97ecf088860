--------------------------- MODULE LiveCacheWriter ---------------------------
(***************************************************************************)
(* The writer of the live cache (storage/execstorage/livecache), the       *)
(* in-memory object cache in front of the execution storage.  Each         *)
(* generation has an indexer with two buffers: importBuffer collects what  *)
(* is imported, and the synchronous precommit moves it to buffer.  The     *)
(* asynchronous precommit files the indexer with the block's others and    *)
(* starts a new, empty one.                                                *)
(***************************************************************************)
EXTENDS StateCells

CONSTANT CacheCapacity  \* entries the cache keeps when it evicts

ASSUME CapacityAssumption == CacheCapacity \in Nat

VARIABLES
    lcImport,       \* LiveCacheIndexer.importBuffer of the current indexer
    lcBuffer,       \* LiveCacheIndexer.buffer of the current indexer
    lcFiled,        \* cells of the indexers in LiveCacheWriter.buffer
    liveCache       \* the cache: path -> value, Nil on a miss

lcVars == <<lcImport, lcBuffer, lcFiled, liveCache>>

LiveCacheInit ==
    /\ lcImport = {} /\ lcBuffer = {} /\ lcFiled = {}
    /\ liveCache = [p \in Paths |-> Nil]

LiveCacheTypeOK ==
    /\ lcImport \subseteq CellIds
    /\ lcBuffer \subseteq CellIds
    /\ lcFiled \subseteq CellIds
    /\ liveCache \in [Paths -> Value \cup {Nil}]

LiveCacheImport(new) ==
    /\ lcImport' = lcImport \cup new
    /\ UNCHANGED <<lcBuffer, lcFiled, liveCache>>

\* LiveCacheIndexer.Reset
LiveCacheSyncPrecommit ==
    /\ lcBuffer' = lcImport
    /\ lcImport' = {}
    /\ UNCHANGED <<lcFiled, liveCache>>

\* Finalize, file the indexer, replace it by a new one.
LiveCacheAsyncPrecommit ==
    /\ lcFiled' = lcFiled \cup Attached(lcBuffer)
    /\ lcBuffer' = {}
    /\ lcImport' = {}
    /\ UNCHANGED liveCache

\* Cache.Evict (external): a cache over its capacity drops entries of its
\* choice until it fits.
Evicted(cache, after) ==
    LET held(c) == {p \in Paths : c[p] # Nil}
    IN  \E keep \in SUBSET held(cache) :
            /\ IF Cardinality(held(cache)) > CacheCapacity
               THEN Cardinality(keep) <= CacheCapacity ELSE keep = held(cache)
            /\ after = [p \in Paths |-> IF p \in keep THEN cache[p] ELSE Nil]

\* Key and value are read from the cells now, not when they were filed.
LiveCacheCommit ==
    /\ Evicted(DeleteThenSet(liveCache, {EntryOf(i) : i \in lcFiled}), liveCache')
    /\ lcFiled' = {}
    /\ UNCHANGED <<lcImport, lcBuffer>>
=============================================================================
