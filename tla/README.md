# State engine: specification, model checks and proofs

The state engine keeps the state of a blockchain whose transactions are
executed in parallel. This directory has TLA+ models of how state transitions
travel from an execution into the stores, TLC configurations that check the
models on small instances, and TLAPS proofs for all instances. Paths such as
`state/committer/committer.go` are relative to `src/`.

## The system

A block is executed as a sequence of *generations* of transactions that run in
parallel. A transaction runs on an `ExecutionStateStore`, which records what it
reads and writes as *state cells*, one per path. Conflict detection, outside
this repository, decides which transactions survive. The `StateCommitter`
merges the surviving transitions and passes them to the store writers.

| Part | State | Operations | What makes it hard |
|---|---|---|---|
| State cells (`common-lib`, `state/committer/delta_sequence.go`, `indexer.go`) | path, transaction, value; shared by pointer | sort, `ApplyDelta`, `SetPath(nil)` | one flag in a shared cell is how six indexers learn that it is discarded |
| State committer (`state/committer/committer.go`) | indexes by path and by transaction | `Import`, `Finalize`, `SyncPrecommit`, `AsyncPrecommit`, `SyncCommit`, `AsyncCommit` | writers run in parallel; asynchronous calls may overlap with the next generation |
| Execution cache writer (`state/cache/execution_store_*.go`) | buffer, overlay of the block | import, precommit, commit | the buffer is entered again in every generation |
| Live cache (`storage/execstorage/livecache`) | two import buffers, filed indexers, cache | import, two precommits, commit, evict | cells are dereferenced generations after they were filed |
| Live storage (`storage/execstorage/livebackend`) | the same, with encoded copies; persistent store | import, two precommits, commit | must agree with the cache in front of it |
| Ethereum storage (`storage/ethstorage`) | accounts, storage tries, world trie, trie database, block roots | import, precommit, commit, read at a root | dirty flags live across generations, roots across blocks |
| Merkle proof cache (`ethtrie_proof_cache.go`, `ethtrie_storage_proof.go`) | cached trees with visit counters | `GetProofProvider`, `Root`, `GetProof` | counters are not under the lock |
| Execution state store (`state/cache`) | local cells over a committed store | reads, writes, wildcards, operations by index, `Insert`, `Export`, `Clear` | existence is decided by the container's list; stores are nested |
| Storage proxy (`storage/proxy`) | the stores | choice of writers, filter of transient cells, reads | the filter modifies the cell |
| Snapshot proxy (`snapshot_state_proxy.go`) | a second world state at a committed root | open, move to another root, read, write | shares the trie database with the store that goes on |
| Proofs (`ethtrie_storage_proof.go`, `ethtrie_types.go`, `op/`) | none | make, validate, convert, verify | keys are decoded and padded again at every stage |
| Paths (`common/`) | none | parents, segments, default paths, storage keys | writers and readers of a path test it differently |
| Codecs (`storage/codec`) | none | encode, decode, choice by path or type | an encoding does not always tell the type |
| Remote proxy (`storage/proxy/remote`) | none | forwards reads | – |

What each part should guarantee:

* *committer and writers*: nothing of a rejected transaction is stored; from the
  precommit of a generation on, readers see its outcome; after the commit the
  stores hold it; cache and storage commit the same writes;
* *Ethereum storage*: the tries hold the latest values, and every committed root
  can be read again, also by snapshots while later blocks are committed; a proof
  made for a root verifies against it, and nothing else does;
* *restart*: the execution storage has values of whole blocks, whenever the
  process stopped;
* *paths and codecs*: what is written at a path is found there, as it was;
* *execution state store*: for the process that runs it is a map, whichever
  nested store a value is in; every read a result depends on is exported;
* *proof cache*: bounded, one tree per root, counters that mean something.

## Modules

| Module | Models | Correspondence |
|---|---|---|
| `StateCells` | the heap of cells | `cells[i]` is the i-th cell imported; a list of pointers is a set of indices, as lists are only appended to in import order and filtered. `path = Nil` is `SetPath(nil)`. A value is the set of transitions merged into it and the one applied last. |
| `ExecutionCacheWriter`, `LiveCacheWriter`, `LiveStorageWriter`, `EthStorageWriter` | one writer each | variables are the fields of indexer, writer and store; one operator per `Import`, `Precommit(true)`, `Precommit(false)`, `Commit` |
| `StateCommitter` | the committer and all four writers | a precommit or commit call puts one task per writer into `tasks`; each task is one step, in any order (`slice.ParallelForeach`). History variables `rejected`, `ledger`, `setInBlock`, `setThenDeleted` are the reference: `ledger` is computed from the transactions accepted, without the committer's indexes and sort. |
| `StateMap` | what the execution state store promises | a map in which a container must exist before anything is put in it, and takes its elements along |
| `ExecutionStateStore` | the store, a sub-process's store over it, the committed store | one action per public operation; `Insert` is the merge of a sub-process, `Commit` the effect of the committer, on what `StateCacheFilter` lets through, followed by `Clear` |
| `StateCommitterFaults` | the committer on storage that fails | extends `StateCommitter`: `FlushFails` is `LiveStorageWriter.Commit` when only part of the batch is written, `Restart` a new proxy over the directories as they are, between any two steps or with part of a flush done. `durable`, `writtenInBlock`, `rewritten`, `unflushed` are history. |
| `EthWorldState` | main store and a snapshot over the same databases | one action per `Precommit`, `Commit`, `Get` of a code, `NewEthStateSnapshot`, `SetVersion`; a root hash is the contents of the trie, a code hash the code. `EthStorageWriter` has the same store as the committer drives it; this module has what its readers do. `contents`, `published` are the reference; `torn` are the accounts whose dirty mark was lost (`unresolvable_root`). |
| `EthProofs` | proofs | operators over `EthWorldState`; a proof is the trie whose nodes it is made of, a key a string of digits with its length |
| `StatePaths` | paths | a path is a sequence of names and slashes, up to `MaxTokens` after the address; the cuts by length are cuts by tokens |
| `StorageCodec` | codecs | a value is kind, content and limits; buffers are bytes as RLP writes them; `Store` and `Load` go by the account's trie, by the live storage and by the selector |
| `MerkleProofCache` | proof cache and clients | `GetProofProvider` is one step (it holds the lock); `visits++` is two (it does not) |
| `StateCommitterProofs`, `StorageProofs` | – | theorems about the committer and their proofs; the second, on top of the first, has the Ethereum accounts and the storage that fails |
| `EthWorldProofs`, `MerkleCacheProofs` | – | theorems about the Ethereum storage with its proofs, and the proof cache |
| `StoreProofs`, `StoreRefinement` | – | theorems about the execution state store: its invariants, and that it implements `StateMap` |
| `PathProofs`, `SegmentProofs` | – | theorems about paths of any length; the second, on top of the first, has what goes by segments |
| `MC*` | – | small instances |

External code (`common-lib`'s cells, CRDTs, cache and sets; go-ethereum's tries)
is modelled from its use here: `ApplyDelta`, `CopyTo`, `Path.Set`, `Cache.Evict`
(any choice of entries down to the capacity), a root hash as the contents of the
trie.

Two schedules of the committer are modelled. `Next` is that of `DebugPrecommit`
and `DebugCommit`: each call waits for the one before. `NextOverlapped` is the
one the comments describe for production: the caller waits for synchronous
calls only, and `AsyncPrecommit` comes at any time after `SyncPrecommit`.

## Runs

Passing:

| Run | Checks | Instance |
|---|---|---|
| `multi_generation` | `RejectedNeverVisible`, `ReadsLatest`, `StorageLatest`, `EthLatest`, `OneCellPerPath`, `SameWritesFiled`, `FiledCellsFrozen` | a storage slot and a balance of one account, 2 transactions and the system, 3 cells, 2 generations in each of 2 blocks, cache of 1 entry; 3.5 million states |
| `single_generation` | `StorageHoldsLatest`, `ReadsLatest`, `EthRootsResolvable`, `EventuallyStored` | a slot, a block-bound path and a block-bound system container in 2 accounts, batches of 2, one generation in each of 2 blocks; 150,000 states |
| `overlapped` | `TypeOK`, `OverlayLatest` | overlapped schedule, a slot and a block-bound path, 2 generations; 520,000 states |
| `store_refines_map` | `TypeOK`, `ListedHaveValues`, `MapSpec` | a system container, a container and 2 interchangeable elements; 46,000 states |
| `reads_recorded` | `ElementReadsRecorded`, `CommittedTogether` | the same with one element, sub-processes that delete containers, accounts taken back by the filter; 40,000 states |
| `proof_cache` | `TypeOK`, `CacheBounded`, `OlderCountedMore`, `VisitsNotInvented` | 3 stored roots and a missing one, 2 interchangeable clients, 2 trees cached, 4 calls; 305,000 states |
| `world_state` | `TypeOK`, `ReadsAsWritten`, `RootsReadBack`, `HasAgreesWithGet`, `ProofsVerify`, `OnlyTrueClaimsVerify` | 2 interchangeable accounts, a slot, 2 codes, 3 precommits, a snapshot opened or moved twice, keys of all lengths for hashes of 2 bytes; 251,000 states |
| `restart` | `StaleOnlyIfUnflushed`, `StorageUpToFailures`, `RestartsFromCommittedValues` | a slot and a balance, 4 cells, 2 generations in each of 2 blocks, one failing flush and one restart; 706,000 states |
| `paths_and_codecs` | `DefaultsCreated`, `SegmentsFound`, `ParentIsLongest`, `MembershipAgrees`, `ReadWhereWritten`, `NoAlias`, `EthPathsAgree`, `RoundTrip`, `OnlyDeletionsEmpty` | 8 names, paths of up to 6 tokens and pairs of them, values of every kind at the ends of their ranges, stored and loaded repeatedly; 600,000 states |

What they show:

* Whatever the order of the parallel writers, rejected writes reach no store,
  readers see the outcome of the last finalized generation across commit and
  eviction, and the stores hold it after the commit. The exception in
  `ReadsLatest` and `StorageLatest` (`setThenDeleted`) is the behaviour that
  `deleted_path_returns` exhibits; with one generation per block
  `StorageHoldsLatest` has no exception.
* The live cache commits the cells, the live storage copies taken earlier; they
  commit the same, because filed cells are not modified (`FiledCellsFrozen`).
* Overlapping the asynchronous calls does not disturb the overlay, which is what
  the next generation executes on.
* The execution state store implements `StateMap` under the mapping
  `state <- what the running process reads`: starting a sub-process, merging it
  and committing change nothing visible. This holds when sub-processes delete no
  containers; when they do, `InsertKeepsValues` fails (below). What a committed
  container lists is committed in either case, also after the filter took an
  account back (`CommittedTogether`).
* A root that either store committed reads back as it was, however many commits
  follow, and both stores read what was written to them. The exception, `torn`,
  is the behaviour that `unresolvable_root` exhibits.
* Proofs for keys of full length verify, and a claim that differs from what was
  committed in value, field or code, or comes with the proof of another root,
  does not.
* A stop at any point leaves the execution storage with values of whole blocks.
  The exception are paths that several generations of the interrupted block
  wrote: the merged batch has an entry for each generation, and a stop between
  them leaves the value of an earlier one. An error that `AsyncCommit` drops
  shows at the paths whose write failed, once they are evicted, and nowhere else.
* Paths: a writer enters a path in its parent's list exactly if readers look for
  it there, except that what `SYSTEM` writes into a container of a user is looked
  for and not entered (execution_state_store.go:388); `MembershipAgrees` says that
  this is the only disagreement. Fields and slots are read where they were
  written, and distinct paths of one account share no place. Excepted are elements
  named like an account field, which the suffix tests take for the field, and two
  spellings of one hex slot. The parent of a path ends at its last slash that is not its
  last character; the comment at path_types.go:85-87 (up to "the last occurrence")
  says so only of keys that do not end in a slash.
* Codecs: what is loaded is what was stored, limits included, and only a deletion
  is stored as nothing. The exceptions are written into the properties: in RLP,
  negative numbers (the encoder's error is dropped and the slot deleted), bytes
  with leading zeros, and big integers; limits of account fields; and plain
  `Uint64` and `Uint32` in the live storage.

Violations, each of a statement in the repository (PROJECT.json quotes it):

| Run | Property | What the code does |
|---|---|---|
| `deleted_path_returns` | `StorageHoldsLatest` | a block's deletions are applied before its values, so a path set in one generation and deleted in a later one is stored |
| `unresolvable_root` | `EthRootsResolvable` | a generation that changes only fields resets the dirty flag of the storage trie |
| `eth_lost_on_restart` | `EthPersistent` | the Ethereum storage is opened with an empty trie, and its nodes are never written to disk: a restart between blocks empties it |

### Bounds

`MaxCells`, `MaxBatch`, `MaxGenerations`, `MaxBlocks`, `MaxCalls` bound
behaviours, not the code's own limits. Two generations are the least in which an
indexer is filed while another is filled; two blocks show what a commit leaves
behind; three cells allow a merge of two and a further generation, or three
generations that write one path. A cache of one entry makes every second entry
an eviction. Batches of more than one cell only matter for which cell is
preloaded and filtered, so one run has them. Nesting below one level of
containers is not supported by `ExistsInParent` and not modelled. In
`ExecutionStateStore`, `Watched` limits the reads that history variables keep;
system containers are looked up but not read directly. The elements, and the
clients, are interchangeable in definitions and properties, so symmetry is sound
(the runs that use it check no liveness).

`MaxRestarts`, `MaxFailures` are one each: a restart forgets everything but the
storage, so a second one starts from a state the first can reach. `MaxPrecommits`
of three gives a write, a later write that clears its mark, and one by the other
store; `MaxOpens` of two a snapshot and its `SetVersion`. Hashes have 2 bytes of
binary digits in place of 32 bytes of hex ones: every length below, at and above
the full one occurs. Six tokens reach one name below `/storage/native/` and
`/storage/container/`. Numbers have at most two bytes and payloads are shorter
than 56 bytes: one-byte and longer RLP items, strings and lists occur, long
headers do not. `reads_recorded` has also been run with a second account
(4,976,768 states, no error).

### Environment

What callers do is part of the models, in operators of their own:

* `Writes` (`ExecutionStateStore`): a transaction writes and deletes anything but
  the system paths themselves; `SYSTEM` writes and deletes only what an account
  has by default or what is directly under a container root. Elements that
  `SYSTEM` writes or deletes in a container of a user are left out: they are not
  entered in its list, so the store is no map there and nothing that is said of
  `ExecutionStateStore` covers them. `MembershipAgrees` and `SystemWritesListed`
  are about that case. No code in `src/` but the test harness writes as `SYSTEM`.
* `Exportable` (`StateCommitter`): a transaction exports one cell per path, as
  `Export` takes them from a map. `SYSTEM` counts as one transaction of the
  generation, so a path has at most one system cell in it, and the order of
  several, for which the comparison in delta_sequence.go:44-52 is not consistent,
  never matters.
* `Give` (`StorageCodec`): values come with a type, which is the hint they are
  decoded with. `RlpCodec.Decode` without a hint gives the buffer back
  (rlp_codec.go:67-69); that case is left out. Account fields have values of
  their own type.

### Fairness

`FairSpec` has weak fairness of the writers' tasks (goroutines that do not
block, joined by `ParallelForeach`) and of the caller's next call: a block that
is begun is completed. Nothing is assumed about `Import`. `EventuallyStored`
would be meaningless otherwise, as the committer does nothing by itself.
Deadlock is checked in the runs of the committer, the state store and the proof
cache; `Finished` and `Crashed` are the ends that bounds, or a panic, impose. The
world state and the paths have no process that could wait: their runs simply end
at the bounds.

### Other disagreements

These statements are refuted too; each is an invariant or property of its module
and fails on the instance named when it is put into that configuration.

| Property | Statement | Code | Instance |
|---|---|---|---|
| `RejectedNeverVisible` (overlapped) | committer.go:185-186, the Ethereum storage need not be precommitted synchronously | an `AsyncPrecommit` between the next `Import` and `Finalize` writes cells not yet finalized | `overlapped` |
| `StorageLatest` (overlapped) | committer.go:172, 193, the two precommits are called separately | the next `SyncPrecommit` overwrites the buffer that a late `AsyncPrecommit` would have filed | `overlapped` |
| `NotEvictedBeforeFlush` | README.md:30, updated entries are not evicted before they are flushed | `Commit` evicts in `SyncCommit` what `AsyncCommit` has still to write (live_cache_writer.go:92) | `multi_generation` |
| `RootOfBlock` | eth_world_state.go:74, the root hash for a block number | roots are recorded under the version of an indexer, always -1 or 0 (eth_storage_writer.go:83) | `multi_generation` |
| `OnlyWrittenAccounts` | eth_storage_indexer.go:84, accounts without transitions are removed | they are removed from a copy (l.85-90) | `multi_generation` |
| `BaseIsPreloaded` | indexer.go:32, delta_sequence.go:69, transitions are applied on the original state | the first imported is preloaded, the first sorted is the base | `multi_generation` |
| `PathReadsRecorded` | state_cache_path.go:197-198, an operation by index generates a path read | `Insert` drops reads of committed containers (execution_state_store.go:564) | `reads_recorded` with `Watched = {box}` |
| `AbsentReadsRecorded` | execution_state_store.go:79-81, a cell is added when it is accessed directly | not if the container does not list it (l.240) | `reads_recorded` |
| `CommittedReadsRecorded` | execution_state_store.go:310, `ReadCommitted` leaves a record | in a cell that is dropped (l.317-325) | `reads_recorded` |
| `DeletedWithContainer` | execution_state_store.go:275-276, children of a deleted container are deleted | `Has` asks the committed store (l.523); no wildcard deletion is ever recorded (l.108) | `reads_recorded` |
| `InsertKeepsValues` | execution_state_store.go:561-562, changes to container metadata are redone from the elements | `Insert` also drops the deletion of a committed container (l.564) | `reads_recorded` |
| `NeverCrashes` | state_cache_path.go:181, popping from an absent path is an error | the type assertion in l.179 (and l.111) panics | `reads_recorded` |
| `VisitsCounted` | ethtrie_storage_proof.go:36, `visits` is the number of accesses | concurrent increments are lost (l.56, 61) | `proof_cache` |
| `MostRecentKept` | ethtrie_proof_cache.go:29-30, the most recently used trees are kept | the tree being returned can be evicted (l.73) | `proof_cache` |
| `NeverCrashes` (world state) | snapshot_state_proxy.go:26-27, a snapshot serves queries and execution | an account loaded from a trie has no backend (eth_world_state.go:299-305), so writing the code or committing the storage of an existing account through a snapshot panics; `SetVersion` with an unknown root leaves a nil state (l.51) | `world_state` |
| `HasFindsCode` | eth_world_state.go:189, `Has` gets the account from cache or trie | it does not load the code of one it finds in the trie (l.226) | `world_state` |
| `EveryProofVerifies` | op_verifier.go:36-38, the proof returned is verified locally | a short key is given back as a quantity, which may have an odd number of digits (type_converter.go:36 panics) | `world_state` |
| `BuilderFromPath` | utils.go:31-32, a builder is made from the address in a path | the address is decoded with its `0x`, which `hex.DecodeString` refuses | `paths_and_codecs` |
| `SystemWritesListed` | execution_state_store.go:365-367, a write updates the parent's metadata when necessary | not if `SYSTEM` writes into a container of a user (l.388), where readers look for it (l.208-227) | `paths_and_codecs` |
| `EveryKeyAccepted` | eth_account.go:167-168, keys are parsed into ones the trie accepts | a native key that is not hex panics (l.173) | `paths_and_codecs` |
| `BytesKept` | bytes_codec_test.go, bytes come back as they were | leading zeros are lost (bytes_rlp_codec.go:29-33) | `paths_and_codecs` |
| `StoredAgain` | rlp_codec.go, what is encoded can be decoded and encoded again | a big integer is decoded to its wrapper, which the encoder refuses by a panic; plain `Uint64` and `Uint32` panic in `Codec.Decode` | `paths_and_codecs` |

## Proofs

All theorems hold for every value of the constants that satisfies the named
assumptions: transaction numbers are naturals and differ from `SYSTEM`; `Nil` is
neither a path, a number, a value nor a record; block-bound paths are paths;
every path has an account and no account is a path (the world trie, a function of
accounts, is then not mistaken for a storage trie); capacity and bounds are
naturals. TLC evaluates the assumptions in the runs. The inductive invariants were
checked by TLC, on the instances of the runs, before they were proved.

### Committer, calls in sequence and overlapped

* `TypeCorrect` (`StateCommitterProofs`): `Spec => []TypeOK`. `TypeOK` is
  inductive. The work is in `Finalize`: that the first and the last cell of a
  delta sequence exist. The module first proves that a total order on `1..N` has
  a greatest member in every non-empty subset (from the least number principle);
  `BeforeOrders` shows that the code's comparison is such an order, system cells
  included.
* `NoRejectedValue` (`StateCommitterProofs`): `Spec => []RejectedNeverVisible`. The
  property is not inductive: `Finalize` declares cells rejected, so the stores
  must not have taken them before. `RejectionInv` adds that
  the indexes hold exactly the current generation, with the transaction index
  covering every cell that may be rejected (`IndexInv`); no writer runs while
  transitions are imported (`ScheduleInv`); a cell still attached after its
  generation was made from accepted cells only (`HeapInv`); overlay and filed
  indexers point to such cells (`PointerInv`); stores and encoded copies hold
  such values (`StoresInv`). `ScheduleInv` is what the overlapped schedule lacks.
* `FiledFrozen` (`StateCommitterProofs`): `Spec => FiledCellsFrozen`, from the same
  invariant: `Finalize` modifies cells of the path index only, and no filed cell
  is in it (`PointerInv`).
* `OverlayUpToDate` (`StateCommitterProofs`): `OverlappedSpec => []OverlayLatest`, that
  is, for any overlap of the asynchronous calls. `MergeIsOutcome` shows that what
  the delta sequences of a path merge to is the outcome of the accepted
  transactions, computed without the sort and the indexes; `FinalizedAt` that one
  cell of the path is left attached and has that value. `GenerationInv` says that
  the indexes hold attached cells newer than all others. `OverlayInv` says that of
  the cells a block has merged for a path the newest has the latest value, and
  that the overlay points to it unless the writer's own task is outstanding. No
  other writer touches what it speaks of, which is why overlap does no harm.

### Committer, calls in sequence

These theorems (`StateCommitterProofs`, and `StorageProofs` for what names the
Ethereum storage or a single generation) are about the states between
calls, and their invariants say where a write is while a call is under way:

* `CallsInv`: whose tasks are outstanding in which stage;
* `BuffersInv`: in which of its buffers a writer has the transitions of a
  generation, and that after `Finalize` one of each path is attached;
* `EntriesInv`: `Entries(w)`, what the writer will have filed once the calls under
  way have returned, are the cells as they are, and the same for cache and storage
  until the block is committed;
* `StoresUpTo(stale)`: the stores after a commit of those entries have the latest
  values; the storage may be behind at the paths in `stale`, which is empty here
  and used for faults below;
* `EthInv`: the accounts hold the latest value, or the index has the one cell that
  does.

Moving a generation from buffer to buffer does not change `Entries`, a commit
does not change what the store will hold after it, and `Finalize` changes both by
the same merge: `Batch*` and `Finalized*` are the lemmas on `DeleteThenSet` and the
merge that carry this. From it follow `ReadsAreLatest` (`ReadsLatest`),
`StorageIsLatest` (`StorageLatest`), `OneCellOfEachPath` (`OneCellPerPath`),
`BothFileTheSame` (`SameWritesFiled`) and `EthIsLatest` (`EthLatest`).

`SingleGenerationStored` (`StorageHoldsLatest`) and `SingleGenerationResolves`
(`EthRootsResolvable`) have the hypothesis `MaxGenerations <= 1`. It is needed:
`deleted_path_returns` and `unresolvable_root` violate the two properties with two
generations. `SingleInv` says that no path is set and then deleted, that a
precommit finds no account filed by an earlier one, and that a storage trie is in
the database or dirty and filed (`TriesInv`).

### Committer on storage that fails

The rest of `StorageProofs` has any number of partial flushes and restarts. Steps without a
fault keep `FlowInv` and `StoresUpTo(unflushed)` by the same lemmas as above; a
flush that fails in part adds its paths to `unflushed`, and one that writes a path
takes it out (`Flushed`). `RecordInv` adds that a path which one generation of the
block wrote has one entry on its way to the storage, with the latest value:
wherever a flush stops, such a path has that value or the old one. A restart
starts from `stored`, which is then the latest state by definition, and from empty
buffers. Proved are `StaleOnlyWhereUnflushed` (`StaleOnlyIfUnflushed`),
`StorageRepaired` (`StorageUpToFailures`) and the action property
`RestartsFromWholeBlocks` (`RestartsFromCommittedValues`).

### Ethereum storage

* `CommittedRootsReadBack` and `StoresReadAsWritten` (`EthWorldProofs`):
  `Spec => []RootsReadBack` and `Spec => []ReadsAsWritten` of `EthWorldState`, for
  any addresses, slots, values, codes and writes; assumed is that `Nil` and
  `Unset` are no values or records and that bounds are naturals. Neither property
  is inductive: a committed root is readable only because every storage trie it
  refers to was in the database or dirty and filed before the commit. `IInv` adds
  that a cached account is the one in the world trie and filed if dirty
  (`CacheOK`), that the world trie is as written (`AsWritten`), that every storage
  trie is in the database or will be after the next commit (`Saved`), and that the
  main store caches every account of its trie (`MainInv`), without which a lost
  mark would make an account disappear there.
* `CommittedRootsProve` (`ProofsVerify`), `VerifiedClaimsTrue`
  (`OnlyTrueClaimsVerify`) (`EthWorldProofs`): both follow from `IInv`, which
  says what is under a published root, and from lemmas on keys: one of full length
  is its own hash at each of the stages that decode and pad it
  (`FullLengthKey`). The hash is injective by construction, as the code relies on;
  that slots are keys of full length is assumed (`HashAssumption`).
* `HasAsGet` (`HasAgreesWithGet`): `IInv` and `CodesKnown`, that a code which a
  cached account has loaded is in the code database. `WorldTypeCorrect`: `TypeOK`.

### Merkle proof cache

`CacheTypeCorrect` (`TypeOK`), `CacheStaysBounded` (`CacheBounded`), `AgesInOrder`
(`OlderCountedMore`) and `NoInventedVisits` (`VisitsNotInvented`), for any roots,
clients, capacity and number of calls. `CacheInv` adds to the four that a cached
tree has counted two calls (`CountedTwice`), which a new one also has, and that a
client in the middle of `visits++` has loaded no more than was counted
(`LoadedCovered`).

### Execution state store

`StoreProofs` and `StoreRefinement` are about any paths, containers, values and
accounts, with one level of containers under the container roots. Assumed is
(`PathAssumption`, `NilAssumption`) that the paths are finitely many and laid out
as `common/platform.go` and `GetParentPath` lay them out: what is not a system
path has a container as its parent and belongs to the parent's account, a
container that is not a system path is under a container root, and the parent of
a system path is neither a container root nor one of the other paths; and that "no value" and "no cell" are told from values
and cells.

* `StoreTypeCorrect` (`TypeOK`), `ListedElementsExist` (`ListedHaveValues`),
  `StoreCommitsTogether` (`CommittedTogether`), `StoreRecordsReads`
  (`ElementReadsRecorded`): for all operations that `Next` has, sub-processes that
  delete containers and accounts that are taken back included, and writes by
  `SYSTEM` as far as `Writes` allows them (see Environment). `StoreInv` says of the
  committed values, of the main store over them and of a sub-process's store over
  both that they are in order (`Level`): a cell says whether the store behind has
  a value, and has that value until it is written (`Faithful`); and the values,
  resolved through the cells, form a tree in which a container exists exactly if
  it is listed and what is listed has a value (`Tree`). `ListedHaveValues` alone
  is not inductive: a cell that is looked up shows what is behind it, and
  deleting a container deletes the cached elements only. The others keep their
  values, which nothing lists any more, so the tree says nothing of them.
  `ReadsKept` says where a read is recorded: by the main process, or by the
  sub-process at a path where `Insert` will find it; `PopBack` writes the
  element it has read, so the record outlives the deletion.
* `Insert` is a fold. `SmallestSet`, from the library's theorems on finite sets
  and well-founded orders, replaces induction: of the sets of cells that could
  be copied with a wrong result take a smallest one; without one of its members
  the result is right, and one more copy keeps it right. `RecursionExists`
  shows, in the same way, that the fold has a recursion at all. The tree is stated up to `pending`, the elements that a new
  container lists and that are still to be copied. No order of copying is
  assumed, except that the containers come first.
* `StoreRefinesMap`: `Spec => MapSpec` if `~SubMayDelete` and `~MayRevert`. Both
  are needed: `InsertKeepsValues` is violated without the first, and taking an
  account back changes what is visible, as it should. Every
  step is a step of `StateMap`, or not seen. What is visible is a function of the
  values of the running store (`View`), so `PutView` and `ClearView` say what a
  write does to it. For `Insert`, `MapInv` adds that a sub-process which deletes
  no container leaves nothing behind (`OnlyAdds`), and `Copying` relates what the
  main process sees to what the sub-process saw, copied path by copied path.

### Paths

`PathProofs` and `SegmentProofs` are about `PathSpec`, the paths' part of `paths_and_codecs`, for any
names and paths of any length. Assumed of the names: none is a slash, none is
empty. The invariant is `PathsInv`: a path begins with a slash, and slashes and
names take turns. Every theorem then follows for a single state.

* `ParentsAreLongest` (`ParentIsLongest`), `MembershipAlwaysAgrees`
  (`MembershipAgrees`): `LastSlash` says where `GetParentPath` cuts. For the
  second, `DefaultParents` goes through the default paths: the parent of each is a
  system path and not the container root, so that reader and writer both leave it
  out. What is left are the transactions: `tx # SYSTEM` in `ListsInParent` has no
  counterpart in `LooksInParent`, which is the exception.
* `AlwaysReadWhereWritten` (`ReadWhereWritten`), `PlacesNeverShared` (`NoAlias`):
  `FieldAtEnd` reduces the suffix tests to the last two members of a path, so that
  a path is taken for one field at most, and `SlotDecides` says that a slot has one
  path. These four do not need the shape.
* `SegmentsAlwaysFound` (`SegmentsFound`, in `SegmentProofs` like the next one): `ScannedTo` says what the scan has found
  after any number of members, counted by `Count`, the names so far. It holds for
  all of them because there would otherwise be a shortest beginning for which it
  does not (`LeastNumber`); `ScanExists` shows that the fold has a recursion at
  all. Slashes separate the names by the shape.
* `EthPathsAlwaysAgree` (`EthPathsAgree`): the account's part of a path has four
  names, so segments 4 and 5 are the second and the fourth member after the address
  (`SegmentsAfterAccount`), which is what the prefix `/storage/native/` fixes
  (`SlotWhenUnder`).

Most leaves name Zenon: they need no arithmetic, and it takes them in a fraction
of the time.

### Only model-checked

* `EventuallyStored`: liveness under fairness, and `ENABLED`, are out of the
  prover's reach.
* `DefaultsCreated`: it depends on no constant, and the run has every set of
  default paths that an account can begin with.
* `RoundTrip` and `OnlyDeletionsEmpty` (`StorageCodec`): the codecs' operators are
  recursive, which is out of the prover's reach, as is induction over data. Where a
  proof above speaks of a fold, it argues by a smallest counterexample instead.
* The refuted statements, and the execution state store as a `StateMap` when
  sub-processes delete containers or accounts are taken back: there it is none.

## Not modelled

* The arithmetic of CRDTs (`common-lib`). In the committer's models values stand
  for the transitions they came from; encodings and path strings have modules of
  their own, which those models do not use.
* Errors of tries and of the Ethereum databases, and the unguarded `dbErr` that
  goroutines join them into (eth_storage_writer.go:70): errors are collected and
  otherwise ignored. The failures modelled are those of the execution storage.
* Whether a read fills the live cache: `CachedStore` is in `common-lib`.
* The limit of 1024 block roots, not reached while the version is constant.
* `Inject` (called by the test harness only), sizes and gas, and the inheritance
  of the block-bound flag (execution_state_store.go:399-417).
* Several snapshots at once: snapshots share nothing but the database, whose
  roots are only added to, and the model's one snapshot can be replaced.
* Remote proxy (the client is commented out, the server forwards reads) and test
  harness.

## Plan

The order in which the project was and will be built:

1. done: committer and writers, sequential and overlapped; execution state
   store and its refinement; proof cache; type correctness and rejection proved.
2. done: failing storage and restarts; the read side of the Ethereum storage with
   snapshots and proofs, read-back of committed roots proved; the address filter;
   paths and codecs.
3. done: the values of the committer proved, for the sequential schedule, for the
   overlay under overlap, and with failing storage; proofs over committed roots;
   the proof cache.
4. model: an abstract specification of the latest state that the committer
   implements; the block-bound flag of the execution state store; errors of tries.
5. done: the execution state store and its refinement of `StateMap` proved; paths
   of any length.
6. prove: the refinement of 4.
