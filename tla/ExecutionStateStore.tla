------------------------ MODULE ExecutionStateStore ------------------------
(***************************************************************************)
(* The execution state store (state/cache): the cells that one execution   *)
(* has touched, over a committed store that it never modifies.             *)
(*                                                                         *)
(* A container holds the set of its children, so an element is found only  *)
(* if its container lists it.  An execution may run a sub-process with a   *)
(* store of its own, whose committed store is the first one; the cells of  *)
(* the sub-process are inserted into the first store when it completes.    *)
(* A filter over the store may take back what was done to an account.      *)
(*                                                                         *)
(* Paths are nested one level under the system containers, the nesting     *)
(* that ExistsInParent supports.  The order of the elements of a           *)
(* container is left open: an operation by index takes any of them.        *)
(***************************************************************************)
EXTENDS FiniteSets, FiniteSetsExt

CONSTANTS
    Paths,
    Parent,         \* path -> path it is directly under
    AccountOf,      \* path -> the account address in it
    SysPaths,       \* paths every account has (Platform.defaultPaths)
    ContainerRoots, \* those of them that end in "/container/"
    Containers,     \* paths that end in "/": their values are sets of children
    Vals,           \* values of the other paths
    Absent, Present,
    Nil, NoCell,
    SubMayDelete,   \* whether a sub-process deletes containers
    MayRevert,      \* whether accounts are taken back
    Watched         \* paths whose reads the history variables keep

ASSUME PathAssumption ==
    /\ ContainerRoots \subseteq SysPaths \cap Containers
    /\ SysPaths \cup Containers \subseteq Paths
    /\ \A p \in Paths \ SysPaths : Parent[p] \in Containers
    /\ \A c \in Containers \ SysPaths : Parent[c] \in ContainerRoots
    /\ \A p \in SysPaths : Parent[p] \notin ContainerRoots \cup (Paths \ SysPaths)
    /\ \A p \in SysPaths \ Containers : Parent[p] \in SysPaths \cap Containers
    /\ DOMAIN AccountOf = Paths
    /\ \A p \in Paths \ SysPaths : AccountOf[p] = AccountOf[Parent[p]]
    /\ IsFiniteSet(Paths)
    /\ {SubMayDelete, MayRevert} \subseteq BOOLEAN

Stores == {"main", "sub"}
Callers == {"user", "SYSTEM"}

VARIABLES
    committed,      \* the committed store: path -> value, Nil if absent
    localCells,     \* store -> path -> cell, NoCell if the path is not cached
    running,        \* the store of the process that runs
    panicked,       \* the process crashed
    ignoreAddresses,    \* accounts that the filter leaves out
    \* History, used by the properties only:
    found,          \* paths whose committed value this execution has read
    missed,         \* paths this execution has read that had no value
    committedReads  \* paths read by ReadCommitted

vars == <<committed, localCells, running, panicked, ignoreAddresses,
          found, missed, committedReads>>

ElementsOf(c) == {p \in Paths : Parent[p] = c}

ValuesAt(p) == IF p \in Containers THEN SUBSET ElementsOf(p) ELSE Vals

Cell(p) == [val : ValuesAt(p) \cup {Nil}, read : BOOLEAN, written : BOOLEAN,
            committed : BOOLEAN]

NoCells == [p \in Paths |-> NoCell]

\* "No value" and "no cell" are told from every value and every cell.
ASSUME NilAssumption ==
    /\ Absent # Present
    /\ \A p \in Paths : \A v \in ValuesAt(p) : v # Nil
    /\ \A p \in Paths : \A cell \in Cell(p) : cell # NoCell

-----------------------------------------------------------------------------
(* Lookups in a store with the cells loc over a store that returns base *)

\* Nothing is ever appended to the wildcard deletions that a path would inherit.
pendingWildcardDeletes == {}

ResolveWildcardDeletion(p) == Parent[p] \in pendingWildcardDeletes

\* ResolveCellForRead: the cached cell, or a new one with the committed value.
ResolveValue(loc, base, p) ==
    IF loc[p] # NoCell THEN loc[p].val
    ELSE IF ResolveWildcardDeletion(p) THEN Nil ELSE base[p]

ResolveCell(loc, base, p) ==
    IF loc[p] # NoCell THEN loc[p]
    ELSE [val |-> ResolveValue(loc, base, p), read |-> FALSE,
          written |-> ResolveWildcardDeletion(p), committed |-> base[p] # Nil]

\* ... which addToLocalCache enters in the cache.
Cached(loc, base, p) == [loc EXCEPT ![p] = ResolveCell(loc, base, p)]

IsImmediateChildOfSysPath(p) ==
    p \in SysPaths \/ Parent[p] \in SysPaths \ ContainerRoots

\* Mutant: whatever is in the storage exists.
ExistsInParentUnchecked(loc, base, p) == TRUE

ExistsInParent(loc, base, p) ==
    \/ IsImmediateChildOfSysPath(p)
    \/ LET meta == ResolveValue(loc, base, Parent[p])
       IN  meta # Nil /\ p \in meta

\* ReadCell, and GetAs when the store serves as a committed store: the value
\* of every path.
ReadCell(loc, base) ==
    [p \in Paths |-> IF ExistsInParent(loc, base, p)
                     THEN ResolveValue(loc, base, p) ELSE Nil]

\* Has does not ask the parent, but the store behind.
HasIn(loc, hasBase, p) ==
    IF loc[p] # NoCell THEN loc[p].val # Nil ELSE hasBase[p]

Base(s) ==
    IF s = "main" THEN committed ELSE ReadCell(localCells["main"], committed)

HasBase(s) ==
    LET inDB == [p \in Paths |-> committed[p] # Nil]
    IN  IF s = "main" THEN inDB
        ELSE [p \in Paths |-> HasIn(localCells["main"], inDB, p)]

Has(s, p) == HasIn(localCells[s], HasBase(s), p)

\* What the running process reads.
Visible == ReadCell(localCells[running], Base(running))

-----------------------------------------------------------------------------
(* Changes to the cells loc *)

\* Read: the parent is looked up and cached; a path that exists is cached and
\* its cell marked as read.
AfterRead(loc, base, p) ==
    LET withParent == IF IsImmediateChildOfSysPath(p) THEN loc
                      ELSE Cached(loc, base, Parent[p])
    IN  IF ExistsInParent(loc, base, p)
        THEN [Cached(withParent, base, p) EXCEPT ![p].read = TRUE]
        ELSE withParent

SetCell(cell, v) == [cell EXCEPT !.val = v, !.written = TRUE]

\* commutative.Path.Set (external): deleting what a container holds deletes
\* the cached elements; the others are not touched.
DeleteCached(loc, elements) ==
    [p \in Paths |-> IF p \in elements /\ loc[p] # NoCell
                     THEN SetCell(loc[p], Nil) ELSE loc[p]]

\* Whether the parent keeps a list of its children for this caller.
Tracked(tx, parent) ==
    parent \in ContainerRoots \/ (parent \notin SysPaths /\ tx # "SYSTEM")

\* Mutant: a deleted child stays in the list.
ListedForever(loc, base, p, v) ==
    LET cell == ResolveCell(loc, base, Parent[p])
    IN  [loc EXCEPT ![Parent[p]] = SetCell(cell, cell.val \cup {p})]

\* Mutant: the list takes the value, not the key.
ListedByValue(loc, base, p, v) ==
    LET cell == ResolveCell(loc, base, Parent[p])
        list == IF v = Nil THEN cell.val \ {p} ELSE cell.val \cup {v}
    IN  [loc EXCEPT ![Parent[p]] = SetCell(cell, list)]

\* The parent's list after a child was set or deleted.
Listed(loc, base, p, v) ==
    LET cell == ResolveCell(loc, base, Parent[p])
        list == IF v = Nil THEN cell.val \ {p} ELSE cell.val \cup {p}
    IN  [loc EXCEPT ![Parent[p]] = SetCell(cell, list)]

\* write: the parent must exist unless the system writes.
AfterWrite(loc, base, has, tx, p, v) ==
    LET cell == ResolveCell(loc, base, p)
        deleted == IF p \in Containers /\ v = Nil /\ cell.val # Nil
                   THEN DeleteCached(loc, cell.val) ELSE loc
        set == [deleted EXCEPT ![p] = SetCell(cell, v)]
    IN  IF ~(HasIn(loc, has, Parent[p]) \/ tx = "SYSTEM") THEN loc
        ELSE IF Tracked(tx, Parent[p]) THEN Listed(set, base, p, v) ELSE set

\* write to "c*": only the list of c and the cached elements change.
AfterWildcard(loc, base, has, tx, c) ==
    LET cell == ResolveCell(loc, base, c)
    IN  IF (HasIn(loc, has, c) \/ tx = "SYSTEM") /\ Tracked(tx, c) /\ cell.val # Nil
        THEN [DeleteCached(loc, cell.val) EXCEPT ![c] = SetCell(cell, {})]
        ELSE loc

\* CopyTo (external): a written cell is written again, the others are read.
CopyTo(cell, loc, p) ==
    LET inDB == [q \in Paths |-> committed[q] # Nil]
    IN  IF cell.written THEN AfterWrite(loc, committed, inDB, "user", p, cell.val)
        ELSE AfterRead(loc, committed, p)

-----------------------------------------------------------------------------
(* The operations of the running process *)

Become(loc) ==
    /\ ~panicked
    /\ localCells' = [localCells EXCEPT ![running] = loc]
    /\ UNCHANGED <<committed, running, panicked, ignoreAddresses, committedReads>>

\* Reads that the execution's result depends on.
Unwritten(p) == \A s \in Stores : localCells[s][p] # NoCell => ~localCells[s][p].written

Note(paths) ==
    /\ found' = found \cup {p \in paths \cap Watched : Visible[p] # Nil /\ Unwritten(p)}
    /\ missed' = missed \cup {p \in paths \cap Watched : Visible[p] = Nil}

Read(p) ==
    /\ Become(AfterRead(localCells[running], Base(running), p))
    /\ Note({p})

\* ReadCommitted asks the committed store, in a cell that it then drops.
ReadCommitted(p) ==
    /\ ~panicked
    /\ committedReads' = committedReads
           \cup {q \in {p} \cap Watched : Base(running)[q] # Nil}
    /\ UNCHANGED <<committed, localCells, running, panicked, ignoreAddresses, found, missed>>

Write(tx, p, v) ==
    /\ Become(AfterWrite(localCells[running], Base(running), HasBase(running), tx, p, v))
    /\ UNCHANGED <<found, missed>>

WriteWildcard(tx, c) ==
    /\ Become(AfterWildcard(localCells[running], Base(running), HasBase(running), tx, c))
    /\ UNCHANGED <<found, missed>>

\* IndexOf, KeyAt, Min and Max read the list of a container, no element.
IndexOf(c) == Read(c)

\* ReadAt, PopBack and WriteAt read the container, then take one of its elements
\* by its position.  They crash if there is no container to take the length or
\* the last element of.
NoContainer(c) ==
    /\ ~panicked
    /\ Visible[c] = Nil
    /\ panicked' = TRUE
    /\ UNCHANGED <<committed, localCells, running, ignoreAddresses,
                   found, missed, committedReads>>

WithContainerRead(c) == AfterRead(localCells[running], Base(running), c)

OutOfRange(c) ==
    /\ Visible[c] # Nil
    /\ Become(WithContainerRead(c))
    /\ Note({c})

ReadAt(c) ==
    \/ NoContainer(c)
    \/ OutOfRange(c)
    \/ /\ Visible[c] # Nil
       /\ \E e \in Visible[c] :
              /\ Become(AfterRead(WithContainerRead(c), Base(running), e))
              /\ Note({c, e})

\* An element without a value is not removed.
PopBack(c) ==
    LET read(e) == AfterRead(WithContainerRead(c), Base(running), e)
        popped(e) == AfterWrite(read(e), Base(running), HasBase(running), "user", e, Nil)
    IN  \/ NoContainer(c)
        \/ Visible[c] = {} /\ OutOfRange(c)
        \/ /\ Visible[c] # Nil
           /\ \E e \in Visible[c] :
                  /\ Become(IF Visible[e] = Nil THEN read(e) ELSE popped(e))
                  /\ Note({c, e})

WriteAt(c, v) ==
    \/ NoContainer(c)
    \/ OutOfRange(c)
    \/ /\ Visible[c] # Nil
       /\ \E e \in Visible[c] :
              /\ Become(AfterWrite(WithContainerRead(c), Base(running),
                                   HasBase(running), "user", e, v))
              /\ Note({c})

\* A sub-process starts with an empty store over this one.
Spawn ==
    /\ ~panicked
    /\ running = "main"
    /\ running' = "sub"
    /\ UNCHANGED <<committed, localCells, panicked, ignoreAddresses,
                   found, missed, committedReads>>

\* Mutant: only writes are exported.
ExportWrites(s) ==
    {p \in Paths : localCells[s][p] # NoCell /\ localCells[s][p].written}

\* Export leaves out the cells that were only looked up.
Export(s) ==
    {p \in Paths : localCells[s][p] # NoCell
                   /\ (localCells[s][p].read \/ localCells[s][p].written)}

\* The cells sub[p], for p in paths, are copied to loc one after the other.
Copied(sub, loc, paths) ==
    LET copy(p, l) == CopyTo(sub[p], l, p) IN FoldSet(copy, loc, paths)

\* Insert: the containers the sub-process created, then everything that is
\* not a container; other changes of containers are left out.
Insert ==
    LET sub == localCells["sub"]
        newPathCreations == {p \in Export("sub") \cap Containers : ~sub[p].committed}
    IN  /\ ~panicked
        /\ running = "sub"
        /\ running' = "main"
        /\ localCells' =
               [main |-> Copied(sub, Copied(sub, localCells["main"], newPathCreations),
                                Export("sub") \ Containers),
                sub |-> NoCells]
        /\ UNCHANGED <<committed, panicked, ignoreAddresses, found, missed, committedReads>>

\* StateCacheFilter, once the execution has completed: the cells of an account
\* are dropped at once, or left out of what is exported.
RemoveByAddress(a) ==
    LET dropped == {p \in Paths : AccountOf[p] = a}
    IN  /\ ~panicked /\ running = "main"
        /\ localCells' = [localCells EXCEPT !["main"] =
                             [p \in Paths |-> IF p \in dropped THEN NoCell ELSE @[p]]]
        /\ found' = found \ dropped /\ missed' = missed \ dropped
        /\ UNCHANGED <<committed, running, panicked, ignoreAddresses, committedReads>>

AddToAutoReversion(a) ==
    /\ ~panicked /\ running = "main"
    /\ ignoreAddresses' = ignoreAddresses \cup {a}
    /\ UNCHANGED <<committed, localCells, running, panicked, found, missed, committedReads>>

\* Mutant: the containers of the account are not left out.
filterByAddressElements(transitions) ==
    {p \in transitions : p \in Containers \/ AccountOf[p] \notin ignoreAddresses}

filterByAddress(transitions) ==
    {p \in transitions : AccountOf[p] \notin ignoreAddresses}

\* The committer (see StateCommitter) writes what was exported, and Clear
\* empties the store.
Commit ==
    /\ ~panicked
    /\ running = "main"
    /\ committed' = [p \in Paths |->
           IF p \in filterByAddress(Export("main")) /\ localCells["main"][p].written
           THEN localCells["main"][p].val ELSE committed[p]]
    /\ localCells' = [localCells EXCEPT !["main"] = NoCells]
    /\ ignoreAddresses' = {}
    /\ found' = {} /\ missed' = {} /\ committedReads' = {}
    /\ UNCHANGED <<running, panicked>>

-----------------------------------------------------------------------------
(* Executions *)

\* The account exists: its system paths were committed, its containers empty.
Init ==
    /\ committed \in
           {f \in [Paths -> {Nil, {}} \cup Vals] :
                \A p \in Paths :
                    f[p] \in (IF p \notin SysPaths THEN {Nil}
                              ELSE IF p \in Containers THEN {{}} ELSE Vals)}
    /\ localCells = [s \in Stores |-> NoCells]
    /\ running = "main"
    /\ panicked = FALSE
    /\ ignoreAddresses = {}
    /\ found = {} /\ missed = {} /\ committedReads = {}

\* A container is created where there is none, and only what exists is deleted.
\* System paths are not deleted, and the system writes only paths that the
\* account has or that are directly under a system container.
Writes(tx, p, v) ==
    /\ p \in Containers => p \notin SysPaths
    /\ p \in Containers /\ v # Nil => v = {} /\ Visible[p] = Nil
    /\ v = Nil => p \notin SysPaths /\ Visible[p] # Nil
    /\ tx = "SYSTEM" => p \in SysPaths \/ Parent[p] \in ContainerRoots

MayDelete == running = "sub" => SubMayDelete

\* Nothing happens after a crash.
Crashed == panicked /\ UNCHANGED vars

\* Bound: the list of a system container is looked up but not read itself.
Next ==
    \/ \E p \in Paths \ ContainerRoots : Read(p)
    \/ \E p \in Paths \ ContainerRoots : ReadCommitted(p)
    \/ \E tx \in Callers, p \in Paths : \E v \in ValuesAt(p) :
           Writes(tx, p, v) /\ Write(tx, p, v)
    \/ \E tx \in Callers, p \in Paths :
           Writes(tx, p, Nil) /\ (p \in Containers => MayDelete) /\ Write(tx, p, Nil)
    \/ \E tx \in Callers, c \in Containers \ SysPaths :
           MayDelete /\ WriteWildcard(tx, c)
    \/ \E c \in Containers \ SysPaths : IndexOf(c)
    \/ \E c \in Containers \ SysPaths : ReadAt(c)
    \/ \E c \in Containers \ SysPaths : PopBack(c)
    \/ \E c \in Containers \ SysPaths : \E v \in Vals : WriteAt(c, v)
    \/ Spawn
    \/ Insert
    \/ MayRevert /\ \E p \in Paths : RemoveByAddress(AccountOf[p])
    \/ MayRevert /\ \E p \in Paths : AddToAutoReversion(AccountOf[p])
    \/ Commit
    \/ Crashed

Spec == Init /\ [][Next]_vars

-----------------------------------------------------------------------------
(* Properties *)

\* Every variable holds a value of its kind; a sub-process's cells are gone
\* when it does not run.
TypeOK ==
    /\ \A p \in Paths : committed[p] \in ValuesAt(p) \cup {Nil}
    /\ \A s \in Stores, p \in Paths : localCells[s][p] \in Cell(p) \cup {NoCell}
    /\ running \in Stores
    /\ running = "main" => localCells["sub"] = NoCells
    /\ panicked \in BOOLEAN
    /\ ignoreAddresses \subseteq {AccountOf[p] : p \in Paths}
    /\ found \subseteq Paths /\ missed \subseteq Paths /\ committedReads \subseteq Paths

Abstracted(p, v) ==
    IF v = Nil THEN Absent ELSE IF p \in Containers THEN Present ELSE v

\* What the running process reads behaves like a map: a successful write to a
\* path changes that path only, a deletion takes the elements along, and
\* nothing changes when a sub-process starts or its cells are inserted, when
\* the block is committed, or when something is read.
Map == INSTANCE StateMap WITH state <- [p \in Paths |-> Abstracted(p, Visible[p])]

MapSpec == Map!Spec

\* An element that its container lists has a value, so ReadAt and PopBack find
\* one at every position of the container.
ListedHaveValues ==
    \A c \in Containers :
        Visible[c] # Nil => \A e \in Visible[c] : Visible[e] # Nil

Recorded(p) ==
    \E s \in Stores :
        localCells[s][p] # NoCell /\ (localCells[s][p].read \/ localCells[s][p].written)

\* A committed value that the execution has read, in the main process or in a
\* sub-process since inserted, is among the accesses that Export hands to
\* conflict detection, whatever was deleted or popped afterwards.
ElementReadsRecorded == \A p \in found \ Containers : Recorded(p)

\* What a committed container lists is committed, also after StateCacheFilter
\* took back an account in the middle of its history, or a sub-process deleted
\* containers.
CommittedTogether ==
    \A c \in Containers : committed[c] # Nil =>
        \A e \in committed[c] : committed[e] # Nil

-----------------------------------------------------------------------------
(* What comments and messages say of the program, where it does not hold *)

\* state_cache_path.go: an operation by index generates a read of the path.
PathReadsRecorded == \A p \in found \cap Containers : Recorded(p)

\* execution_state_store.go: a cell is added when it is accessed directly.
AbsentReadsRecorded == \A p \in missed : Recorded(p)

\* execution_state_store.go: ReadCommitted leaves a record for conflict detection.
CommittedReadsRecorded == \A p \in committedReads : Recorded(p)

\* execution_state_store.go: the elements of a deleted container are deleted,
\* so what the parent does not list does not exist.
DeletedWithContainer == \A p \in Paths : Has(running, p) => Visible[p] # Nil

\* execution_state_store.go: changes to the list of an existing container are
\* redone when the elements are inserted, so the process that goes on reads
\* what its sub-process read last.
InsertKeepsValues == [][running = "sub" /\ running' = "main" => Visible' = Visible]_vars

\* state_cache_path.go: PopBack of a path that does not exist returns an error.
NeverCrashes == ~panicked
=============================================================================
