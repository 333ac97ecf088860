----------------------------- MODULE StateCells -----------------------------
(***************************************************************************)
(* The heap of state transitions (StateCells) that the committer and all   *)
(* the store writers share by pointer.  A cell is one write of one         *)
(* transaction to one path.  Every indexer keeps pointers into the same    *)
(* heap, so SetPath(nil), by which the committer discards a cell, is seen  *)
(* by all of them at once.                                                 *)
(*                                                                         *)
(* A cell is named by its position in the order of import.  Lists of cells *)
(* in the code are only ever appended to in that order and filtered in     *)
(* place, so a list is modelled by the set of its members: its order is    *)
(* the order of their names.                                               *)
(*                                                                         *)
(* A value is modelled by its origin: the set of transitions whose content *)
(* was merged into it and the one applied last.  Nil is a deletion (a cell *)
(* whose Value() is nil) or, in a store, the absence of the path.          *)
(***************************************************************************)
EXTENDS Integers, FiniteSets, Sequences

CONSTANTS
    Paths,          \* state paths
    Txs,            \* ordinary transaction numbers
    SYSTEM,         \* the number of system transactions, math.MaxInt32
    BlockBound,     \* paths whose cells carry the block-bound (transient) flag
    BoundContainers,\* system containers whose elements are block-bound
    Nil

ASSUME TxAssumption == Txs \subseteq Nat /\ SYSTEM \in Nat \ Txs
ASSUME BlockBoundAssumption == BlockBound \cup BoundContainers \subseteq Paths
ASSUME NilAssumption == Nil \notin Paths \cup Nat

VARIABLE cells      \* the heap: a sequence of StateCells

TxIds == Txs \cup {SYSTEM}

CellIds == DOMAIN cells

Value == [from : SUBSET (Nat \ {0}), last : Nat \ {0}]

ASSUME NilIsNoValue == Nil \notin Value

\* preloaded: the cell's value was given the stored value to build upon.
StateCell ==
    [path : Paths \cup {Nil}, tx : TxIds, skip : BOOLEAN,
     val : Value \cup {Nil}, preloaded : BOOLEAN]

\* The transitions a caller hands to Import: what an executed transaction
\* exports for one path.
Transition == [path : Paths, tx : TxIds, skip : BOOLEAN, delete : BOOLEAN]

\* RemoveIf(GetPath() == nil): the members of a list still attached to a path.
Attached(ids) == {i \in ids : cells[i].path # Nil}

\* The members of a list attached to path p.
At(ids, p) == {i \in ids : cells[i].path = p}

\* The member of a list that comes last.
Newest(ids) == CHOOSE i \in ids : \A j \in ids : j <= i

Oldest(ids) == CHOOSE i \in ids : \A j \in ids : i <= j

\* StorageProxy.NonTransientOnly: block-bound cells are not persisted.  On its
\* way to that answer it resets the content of a block-bound system container,
\* which is itself persisted, in the cell that all the stores share.
NonTransientOnly(p) == p \notin BlockBound

ResetContent(p, content) == IF p \in BoundContainers THEN {} ELSE content

\* What a cell writes to a key/value store, and when it was imported.
EntryOf(i) == [id |-> i, key |-> cells[i].path, val |-> cells[i].val]

\* What a batch of entries leaves in a store: DeleteBatch of the keys whose
\* value is nil, then SetBatch of the others, a later one winning.
DeleteThenSet(store, entries) ==
    LET sets(p) == {e \in entries : e.key = p /\ e.val # Nil}
        latest(p) == CHOOSE e \in sets(p) : \A f \in sets(p) : f.id <= e.id
    IN  [p \in Paths |->
            IF sets(p) # {} THEN latest(p).val
            ELSE IF \E e \in entries : e.key = p THEN Nil ELSE store[p]]
=============================================================================
