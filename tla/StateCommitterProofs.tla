------------------------ MODULE StateCommitterProofs ------------------------
(***************************************************************************)
(* Proofs about StateCommitter, for any paths, transactions and accounts   *)
(* and any bounds: its types and what becomes of rejected transactions     *)
(* under the sequential schedule; its indexes and the overlay that the     *)
(* next generation reads under any overlap of the asynchronous calls with  *)
(* later generations; and what the live cache and the execution storage    *)
(* hold under the sequential schedule.                                     *)
(*                                                                         *)
(* The last are properties of the states between calls.  Their invariants  *)
(* say in addition where a write is while a call is under way: which of    *)
(* its buffers a writer has it in, and what the store will hold once       *)
(* everything in the buffers has been committed.                           *)
(***************************************************************************)
EXTENDS StateCommitter, WellFoundedInduction, TLAPS

-----------------------------------------------------------------------------
(* A non-empty set of list positions has a greatest member in every total  *)
(* order.  The definitions that pick a first, last, newest or oldest cell  *)
(* of a list with CHOOSE rest on it.                                       *)

\* R orders any two different members of S, and does so transitively.
Orders(R, S) ==
    /\ \A i, j \in S : i # j => <<i, j>> \in R \/ <<j, i>> \in R
    /\ \A i, j, k \in S :
           <<i, j>> \in R /\ <<j, k>> \in R /\ i # k => <<i, k>> \in R

Greatest(R, S, m) == m \in S /\ \A j \in S \ {m} : <<j, m>> \in R

\* Every non-empty set of natural numbers has a least member.
LEMMA LeastNatural ==
    ASSUME NEW T \in SUBSET Nat, T # {}
    PROVE  \E x \in T : \A y \in T : x <= y
<1> DEFINE R == OpToRel(<, Nat)
<1>1. IsWellFoundedOn(R, Nat)
  BY NatLessThanWellFounded, Zenon
<1>2. PICK x \in T : \A y \in T : ~ (<<y, x>> \in R)
  <2> HIDE DEF R
  <2> QED BY <1>1, WFMin, Zenon
<1>3. ASSUME NEW y \in T
      PROVE  x <= y
  <2>1. x \in Nat /\ y \in Nat
    BY Zenon
  <2>2. y < x => <<y, x>> \in R
    BY <2>1, Zenon DEF OpToRel
  <2> HIDE DEF R
  <2> QED BY <1>2, <2>1, <2>2
<1> QED BY <1>3, Zenon

\* By contradiction: in the shortest prefix of the list that has a set without
\* a greatest member, the set without the prefix's last member has one, and
\* one of the two is the greatest of both.
LEMMA GreatestExists ==
    ASSUME NEW N \in Nat, NEW R, Orders(R, 1..N),
           NEW S \in SUBSET (1..N), S # {}
    PROVE  \E m \in S : Greatest(R, S, m)
<1> DEFINE Bad(T) == T # {} /\ ~ \E m \in T : Greatest(R, T, m)
           K == {k \in 0..N : \E T \in SUBSET (1..k) : Bad(T)}
<1>1. SUFFICES ASSUME N \in K
               PROVE  FALSE
  OBVIOUS
<1>2. PICK k \in K : \A l \in K : k <= l
  <2>1. K \in SUBSET Nat
    OBVIOUS
  <2> HIDE DEF K
  <2> QED BY <1>1, <2>1, LeastNatural, Zenon
<1>3. PICK T \in SUBSET (1..k) : Bad(T)
  BY Zenon
<1>4. k \in 0..N
  BY Zenon
<1>5. ASSUME NEW l \in 0..N, l \notin K, NEW U \in SUBSET (1..l), U # {}
      PROVE  \E m \in U : Greatest(R, U, m)
  BY <1>5, Zenon
<1> HIDE DEF K
<1>6. k \in 1..N /\ k \in T
  <2>1. k # 0
    <3>1. PICK i \in T : TRUE
      BY <1>3, Zenon
    <3> QED BY <3>1
  <2>2. k - 1 \in 0..N /\ k - 1 \notin K
    BY <2>1, <1>2, <1>4
  <2>3. k \in T
    <3>1. SUFFICES ASSUME k \notin T
                   PROVE  FALSE
      BY Zenon
    <3>2. T \in SUBSET (1..(k - 1))
      BY <3>1, <1>4
    <3> QED BY <3>2, <2>2, <1>3, <1>5, Zenon
  <2> QED BY <2>1, <2>3, <1>4
<1>7. T \ {k} # {}
  BY <1>3, <1>6, Zenon DEF Greatest
<1>8. PICK m \in T \ {k} : Greatest(R, T \ {k}, m)
  <2>1. T \ {k} \in SUBSET (1..(k - 1))
    BY <1>6
  <2>2. k - 1 \notin K /\ k - 1 \in 0..N
    BY <1>2, <1>6
  <2> QED BY <2>1, <2>2, <1>7, <1>5, Zenon
<1>9. T \subseteq 1..N
  BY <1>6
<1>10. Greatest(R, T, k) \/ Greatest(R, T, m)
  <2>1. CASE <<m, k>> \in R
    BY <2>1, <1>6, <1>8, <1>9, Zenon DEF Greatest, Orders
  <2>2. CASE <<k, m>> \in R
    BY <2>2, <1>6, <1>8, <1>9, Zenon DEF Greatest, Orders
  <2> QED BY <2>1, <2>2, <1>6, <1>8, <1>9, Zenon DEF Orders
<1> QED BY <1>3, <1>6, <1>8, <1>10, Zenon

-----------------------------------------------------------------------------
(* Picking a cell of a list *)

\* A non-empty list of cells has one that was imported last.
LEMMA GreatestId ==
    ASSUME NEW N \in Nat, NEW ids \in SUBSET (1..N), ids # {}
    PROVE  \E m \in ids : \A j \in ids : j <= m
<1> DEFINE R == {r \in (1..N) \X (1..N) : r[1] <= r[2]}
<1>1. Orders(R, 1..N)
  BY DEF Orders
<1>2. PICK m \in ids : Greatest(R, ids, m)
  <2> HIDE DEF R
  <2> QED BY <1>1, GreatestExists, Zenon
<1>3. ASSUME NEW j \in ids
      PROVE  j <= m
  <2>1. j # m => <<j, m>> \in R
    BY <1>2, Zenon DEF Greatest
  <2> QED BY <2>1
<1> QED BY <1>3, Zenon

\* The cell that comes last in a non-empty list is a member of it, and the
\* others come before it.
LEMMA NewestMember ==
    ASSUME NEW N \in Nat, NEW ids \in SUBSET (1..N), ids # {}
    PROVE  Newest(ids) \in ids /\ \A j \in ids : j <= Newest(ids)
BY GreatestId, Zenon DEF Newest

\* The cell that comes first in a non-empty list is a member of it.
LEMMA OldestMember ==
    ASSUME NEW N \in Nat, NEW ids \in SUBSET (1..N), ids # {}
    PROVE  Oldest(ids) \in ids
<1>1. \E m \in ids : \A j \in ids : m <= j
  BY LeastNatural
<1> QED BY <1>1, Zenon DEF Oldest

\* The ids of the cells are their positions in the heap, and each holds a cell.
LEMMA HeapDomain ==
    ASSUME cells \in Seq(StateCell)
    PROVE  /\ Len(cells) \in Nat
           /\ CellIds = 1..Len(cells)
           /\ \A i \in CellIds : cells[i] \in StateCell
BY DEF CellIds

\* DeltaSequence.sort orders any two different cells, and transitively.
LEMMA BeforeOrders ==
    ASSUME cells \in Seq(StateCell)
    PROVE  /\ \A i, j \in CellIds : i # j => Before(i, j) \/ Before(j, i)
           /\ \A i, j, k \in CellIds :
                  Before(i, j) /\ Before(j, k) /\ i # k => Before(i, k)
<1>1. ASSUME NEW i \in CellIds
      PROVE  i \in Nat /\ cells[i].tx \in Nat
  <2>1. cells[i] \in StateCell /\ i \in 1..Len(cells) /\ Len(cells) \in Nat
    BY HeapDomain, Zenon
  <2>2. cells[i].tx \in TxIds
    BY <2>1, Zenon DEF StateCell
  <2>3. TxIds \subseteq Nat
    BY TxAssumption, Zenon DEF TxIds
  <2>4. i \in Nat
    BY <2>1
  <2> QED BY <2>2, <2>3, <2>4, Zenon
<1> QED BY <1>1 DEF Before

\* A non-empty delta sequence has a first and a last cell.
LEMMA EndsOfSequence ==
    ASSUME cells \in Seq(StateCell), NEW seq \in SUBSET CellIds, seq # {}
    PROVE  /\ First(seq) \in seq
           /\ Last(seq) \in seq /\ \A j \in seq \ {Last(seq)} : Before(j, Last(seq))
<1> DEFINE N == Len(cells)
           Up == {r \in (1..N) \X (1..N) : Before(r[1], r[2])}
           Down == {r \in (1..N) \X (1..N) : Before(r[2], r[1])}
<1>1. N \in Nat /\ CellIds = 1..N
  BY HeapDomain, Zenon
<1>2. Orders(Up, 1..N) /\ Orders(Down, 1..N)
  <2> HIDE DEF N
  <2> QED BY <1>1, BeforeOrders, Zenon DEF Orders
<1>3. (\E m \in seq : Greatest(Up, seq, m)) /\ (\E m \in seq : Greatest(Down, seq, m))
  <2> HIDE DEF N, Up, Down
  <2> QED BY <1>1, <1>2, GreatestExists, Zenon
<1>4. \E i \in seq : \A j \in seq \ {i} : Before(j, i)
  <2> HIDE DEF N
  <2> QED BY <1>1, <1>3, Zenon DEF Greatest
<1>5. \E i \in seq : \A j \in seq \ {i} : Before(i, j)
  <2> HIDE DEF N
  <2> QED BY <1>1, <1>3, Zenon DEF Greatest
<1> QED BY <1>4, <1>5, Zenon DEF First, Last

-----------------------------------------------------------------------------
(* Type correctness *)

\* The initial state is well typed: nothing imported, every store empty.
LEMMA TypeInit == Init => TypeOK
<1> SUFFICES ASSUME Init PROVE TypeOK
  BY Zenon
<1>1. cells \in Seq(StateCell)
  BY DEF Init
<1>2. ExecTypeOK /\ LiveCacheTypeOK /\ LiveStorageTypeOK
  BY Zenon DEF Init, ExecInit, ExecTypeOK, LiveCacheInit, LiveCacheTypeOK,
         LiveStorageInit, LiveStorageTypeOK
<1>3. EthTypeOK
  <2>1. DOMAIN blockRoots = {}
    BY DEF Init, EthInit, EmptyAccounts
  <2> QED BY <2>1, Zenon DEF Init, EthInit, EmptyAccounts, EthTypeOK
<1> QED BY <1>1, <1>2, <1>3, Zenon DEF Init, TypeOK, Stage

\* Import appends well-formed cells to the heap, named after all others.
LEMMA ImportAppends ==
    ASSUME cells \in Seq(StateCell), NEW trans \in Batches, Import(trans)
    PROVE  /\ cells' \in Seq(StateCell)
           /\ Len(trans) \in Nat
           /\ Len(cells') = Len(cells) + Len(trans)
           /\ \A i \in CellIds : cells'[i] = cells[i]
           /\ \A k \in 1..Len(trans) :
                  /\ trans[k] \in Transition
                  /\ cells'[Len(cells) + k] = NewCell(trans, k)
<1>1. PICK n \in Nat : trans \in [1..n -> Transition]
  BY BoundAssumption DEF Batches
<1>2. Len(trans) = n
  BY <1>1
<1> DEFINE f == [k \in 1..Len(trans) |-> NewCell(trans, k)]
<1>3. ASSUME NEW k \in 1..n
      PROVE  NewCell(trans, k) \in StateCell
  <2>1. trans[k] \in Transition /\ Len(cells) + k \in Nat \ {0}
    BY <1>1
  <2>2. ResetContent(trans[k].path, {Len(cells) + k}) \in SUBSET (Nat \ {0})
    BY <2>1, Zenon DEF ResetContent
  <2>3. [from |-> ResetContent(trans[k].path, {Len(cells) + k}),
         last |-> Len(cells) + k] \in Value
    BY <2>1, <2>2, Zenon DEF Value
  <2> QED BY <2>1, <2>3, Zenon DEF NewCell, StateCell, Transition
<1>4. f \in Seq(StateCell) /\ Len(f) = n
  BY <1>2, <1>3
<1>5. cells' = cells \o f
  BY Zenon DEF Import
<1> HIDE DEF f
<1>6. cells' \in Seq(StateCell) /\ Len(cells') = Len(cells) + n
  <2>1. cells \o f \in Seq(StateCell)
    BY <1>4
  <2>2. Len(cells \o f) = Len(cells) + Len(f)
    BY <1>4
  <2> QED BY <2>1, <2>2, <1>4, <1>5, Zenon
<1>7. \A i \in CellIds : cells'[i] = cells[i]
  BY <1>4, <1>5, HeapDomain
<1>8. \A k \in 1..n : cells'[Len(cells) + k] = f[k]
  BY <1>4, <1>5
<1>9. \A k \in 1..n : f[k] = NewCell(trans, k)
  BY <1>2, Zenon DEF f
<1> QED BY <1>1, <1>2, <1>6, <1>7, <1>8, <1>9, Zenon

\* Import keeps the types: the new cell is entered in every index.
LEMMA TypeImport ==
    ASSUME TypeOK, NEW trans \in Batches, Import(trans)
    PROVE  TypeOK'
<1> DEFINE new == (Len(cells) + 1)..(Len(cells) + Len(trans))
           persistent == {i \in new : NonTransientOnly(trans[i - Len(cells)].path)}
<1>1. /\ byPath' = byPath \cup new
      /\ byTxID' = byTxID \cup {i \in new : ~trans[i - Len(cells)].skip}
      /\ ExecImport(new)
      /\ LiveCacheImport(persistent)
      /\ LiveStorageImport(persistent)
      /\ EthImport(persistent)
      /\ stage' = "executing"
      /\ UNCHANGED <<tasks, owed, generation, block, historyVars>>
  BY Zenon DEF Import
<1>2. cells' \in Seq(StateCell) /\ CellIds \subseteq CellIds' /\ new \subseteq CellIds'
  <2>1. cells \in Seq(StateCell)
    BY Zenon DEF TypeOK
  <2>2. /\ cells' \in Seq(StateCell)
        /\ Len(cells) \in Nat /\ Len(trans) \in Nat
        /\ Len(cells') = Len(cells) + Len(trans)
    BY <2>1, ImportAppends
  <2>3. CellIds = 1..Len(cells) /\ CellIds' = 1..Len(cells')
    BY <2>1, <2>2 DEF CellIds
  <2> QED BY <2>2, <2>3
<1>3. persistent \subseteq new
  BY Zenon
<1> HIDE DEF new, persistent
<1>4. ExecTypeOK'
  BY <1>1, <1>2, Zenon DEF TypeOK, ExecTypeOK, ExecImport
<1>5. LiveCacheTypeOK'
  BY <1>1, <1>2, <1>3, Zenon DEF TypeOK, LiveCacheTypeOK, LiveCacheImport
<1>6. LiveStorageTypeOK'
  <2>1. EncodedEntry \subseteq EncodedEntry'
    BY <1>2, Zenon DEF EncodedEntry
  <2> QED BY <1>1, <1>2, <1>3, <2>1, Zenon DEF TypeOK, LiveStorageTypeOK, LiveStorageImport
<1>7. EthTypeOK'
  <2>1. ethIndex' \in [Accounts -> SUBSET CellIds']
    BY <1>1, <1>2, <1>3, Zenon DEF TypeOK, EthTypeOK, EthImport
  <2> QED BY <1>1, <2>1, Zenon DEF TypeOK, EthTypeOK, EthImport
<1>8. /\ byPath' \subseteq CellIds' /\ byTxID' \subseteq CellIds'
      /\ rejected' \subseteq CellIds'
  BY <1>1, <1>2, Zenon DEF TypeOK, historyVars
<1> QED BY <1>1, <1>2, <1>4, <1>5, <1>6, <1>7, <1>8, Zenon
        DEF TypeOK, Stage, historyVars, AllTasks, Tasks

\* The calls only start tasks.
LEMMA TypeCalls ==
    ASSUME TypeOK, SyncPrecommit \/ AsyncPrecommit \/ SyncCommit \/ AsyncCommit
    PROVE  TypeOK'
<1>1. UNCHANGED <<cells, execVars, lcVars, lsVars, ethVars, indexVars>>
  BY Zenon DEF SyncPrecommit, AsyncPrecommit, SyncCommit, AsyncCommit, Start
<1>2. CellIds' = CellIds /\ EncodedEntry' = EncodedEntry
  BY <1>1, Zenon DEF CellIds, EncodedEntry
<1>3. ExecTypeOK' /\ LiveCacheTypeOK' /\ LiveStorageTypeOK' /\ EthTypeOK'
  BY <1>1, <1>2, Zenon DEF TypeOK, execVars, lcVars, lsVars, ethVars, ExecTypeOK,
                    LiveCacheTypeOK, LiveStorageTypeOK, EthTypeOK
<1>4. rejected' = rejected
  BY Zenon DEF SyncPrecommit, AsyncPrecommit, SyncCommit, AsyncCommit, historyVars
<1>5. tasks' \subseteq AllTasks
  BY Zenon DEF SyncPrecommit, AsyncPrecommit, SyncCommit, AsyncCommit, Start, TypeOK,
         AllTasks
<1>6. /\ stage' \in Stage /\ owed' \in Nat /\ generation' \in Nat /\ block' \in Nat
      /\ ledger' \in [Paths -> Value \cup {Nil}]
      /\ setInBlock' \subseteq Paths /\ setThenDeleted' \subseteq Paths
  BY DEF SyncPrecommit, AsyncPrecommit, SyncCommit, AsyncCommit, TypeOK, Stage,
         historyVars
<1> QED BY <1>1, <1>2, <1>3, <1>4, <1>5, <1>6, Zenon DEF TypeOK, indexVars, AllTasks

\* A writer's step touches nothing but the writer's own variables and tasks.
LEMMA DoneType ==
    ASSUME TypeOK, NEW call, NEW w, Done(call, w)
    PROVE  /\ cells' \in Seq(StateCell) /\ cells' = cells
           /\ CellIds' = CellIds /\ EncodedEntry' = EncodedEntry
           /\ byPath' \subseteq CellIds /\ byTxID' \subseteq CellIds
           /\ rejected' \subseteq CellIds
           /\ stage' \in Stage /\ tasks' \subseteq AllTasks
           /\ owed' \in Nat /\ generation' \in Nat /\ block' \in Nat
           /\ ledger' \in [Paths -> Value \cup {Nil}]
           /\ setInBlock' \subseteq Paths /\ setThenDeleted' \subseteq Paths
BY Zenon DEF TypeOK, Done, indexVars, historyVars, CellIds, EncodedEntry

-----------------------------------------------------------------------------
(* Where the contents of the stores come from *)

\* The overlay takes cells of the buffer that are still attached.
LEMMA ExecSource ==
    ASSUME TypeOK, ExecPrecommit, NEW p \in Paths
    PROVE  localCells'[p] \in {localCells[p]} \cup Attached(execBuffer)
<1> DEFINE S == At(Attached(execBuffer), p)
<1>1. localCells'[p] = IF S # {} THEN Newest(S) ELSE localCells[p]
  BY Zenon DEF ExecPrecommit
<1>2. S \in SUBSET (1..Len(cells)) /\ Len(cells) \in Nat /\ S \subseteq Attached(execBuffer)
  BY HeapDomain, Zenon DEF At, Attached, TypeOK, ExecTypeOK
<1> HIDE DEF S
<1> QED BY <1>1, <1>2, NewestMember, Zenon

\* A batch leaves at a path what was there, nothing, or the value of an entry
\* for that path.
LEMMA BatchSource ==
    ASSUME NEW N \in Nat, NEW store, NEW entries, \A e \in entries : e.id \in 1..N,
           NEW p \in Paths
    PROVE  DeleteThenSet(store, entries)[p] \in
               {Nil, store[p]} \cup {e.val : e \in {f \in entries : f.key = p}}
<1> DEFINE sets == {e \in entries : e.key = p /\ e.val # Nil}
           ids == {e.id : e \in sets}
           latest == CHOOSE e \in sets : \A f \in sets : f.id <= e.id
<1>1. DeleteThenSet(store, entries)[p] =
          IF sets # {} THEN latest.val
          ELSE IF \E e \in entries : e.key = p THEN Nil ELSE store[p]
  BY Zenon DEF DeleteThenSet
<1>2. ASSUME sets # {}
      PROVE  latest \in sets
  <2>1. ids \in SUBSET (1..N) /\ ids # {}
    BY <1>2, Zenon
  <2>2. PICK m \in ids : \A j \in ids : j <= m
    <3> HIDE DEF ids
    <3> QED BY <2>1, GreatestId, Zenon
  <2>3. \E e \in sets : \A f \in sets : f.id <= e.id
    BY <2>2, Zenon
  <2> HIDE DEF sets
  <2> QED BY <2>3, Zenon
<1> HIDE DEF latest
<1> QED BY <1>1, <1>2, Zenon

\* The live cache takes the values of the attached cells filed.
LEMMA LiveCacheSource ==
    ASSUME TypeOK, LiveCacheCommit
    PROVE  /\ liveCache' = [p \in Paths |-> liveCache'[p]]
           /\ \A p \in Paths :
                  liveCache'[p] \in
                      {Nil, liveCache[p]} \cup {cells[i].val : i \in Attached(lcFiled)}
<1> DEFINE entries == {EntryOf(i) : i \in lcFiled}
           written == DeleteThenSet(liveCache, entries)
<1>1. Len(cells) \in Nat /\ \A e \in entries : e.id \in 1..Len(cells)
  BY HeapDomain DEF TypeOK, LiveCacheTypeOK, EntryOf
<1>2. ASSUME NEW p \in Paths
      PROVE  written[p] \in
                 {Nil, liveCache[p]} \cup {cells[i].val : i \in Attached(lcFiled)}
  <2>1. \A e \in entries : e.key = p =>
            \E i \in Attached(lcFiled) : e.val = cells[i].val
    BY NilAssumption DEF EntryOf, Attached
  <2>2. written[p] \in
            {Nil, liveCache[p]} \cup {e.val : e \in {f \in entries : f.key = p}}
    <3> HIDE DEF entries
    <3> QED BY <1>1, BatchSource
  <2> HIDE DEF entries, written
  <2> QED BY <2>1, <2>2, Zenon
<1>3. Evicted(written, liveCache')
  BY Zenon DEF LiveCacheCommit
<1> HIDE DEF written
<1> QED BY <1>2, <1>3, Zenon DEF Evicted

\* The storage takes the values extracted by the asynchronous precommits.
LEMMA LiveStorageSource ==
    ASSUME TypeOK, LiveStorageCommit
    PROVE  /\ liveStorage' = [p \in Paths |-> liveStorage'[p]]
           /\ \A p \in Paths :
                  liveStorage'[p] \in
                      {Nil, liveStorage[p]} \cup {e.val : e \in lsFiled}
<1>1. Len(cells) \in Nat /\ \A e \in lsFiled : e.id \in 1..Len(cells)
  BY HeapDomain, Zenon DEF TypeOK, LiveStorageTypeOK, EncodedEntry
<1>2. liveStorage' = DeleteThenSet(liveStorage, lsFiled)
  BY Zenon DEF LiveStorageCommit
<1>3. liveStorage' = [p \in Paths |-> liveStorage'[p]]
  BY <1>2 DEF DeleteThenSet
<1> QED BY <1>1, <1>2, <1>3, BatchSource

\* The accounts take the values of attached cells.
LEMMA EthSource ==
    ASSUME TypeOK, EthPrecommit, NEW p \in Paths
    PROVE  ethAccounts'[p] \in
               {ethAccounts[p]} \cup {cells[i].val : i \in Attached(CellIds)}
<1> DEFINE live == UNION {Attached(ethIndex[a]) : a \in Accounts}
           S == At(live, p)
<1>1. ethAccounts'[p] =
          IF S # {} THEN cells[EthWritten(live, p)].val ELSE ethAccounts[p]
  BY Zenon DEF EthPrecommit, WriteWorldTrie
<1>2. S \subseteq Attached(CellIds)
  BY Zenon DEF At, Attached, TypeOK, EthTypeOK
<1>3. S \in SUBSET (1..Len(cells)) /\ Len(cells) \in Nat
  BY <1>2, HeapDomain, Zenon DEF TypeOK, Attached
<1>4. EthWritten(live, p) \in {Newest(S), Oldest(S)}
  BY Zenon DEF EthWritten
<1> HIDE DEF S
<1> QED BY <1>1, <1>2, <1>3, <1>4, NewestMember, OldestMember, Zenon

-----------------------------------------------------------------------------
(* Type correctness of the writers' steps and of Finalize *)

\* The value of a cell of the heap.
LEMMA CellValue ==
    ASSUME TypeOK, NEW i \in CellIds
    PROVE  cells[i].val \in Value \cup {Nil}
<1>1. cells[i] \in StateCell
  BY HeapDomain, Zenon DEF TypeOK
<1> QED BY <1>1, Zenon DEF StateCell

\* The tasks of the execution cache writer keep the types.
LEMMA TypeExecTask ==
    ASSUME TypeOK, ExecTask
    PROVE  TypeOK'
<1>1. PICK call, w : Done(call, w)
  BY Zenon DEF ExecTask
<1>2. CellIds' = CellIds
  BY <1>1, DoneType, Zenon
<1>3. ExecTypeOK'
  <2>1. CASE ExecPrecommit
    <3>1. execBuffer' \subseteq CellIds /\ Attached(execBuffer) \subseteq CellIds
      BY <2>1, Zenon DEF ExecPrecommit, Attached, TypeOK, ExecTypeOK
    <3>2. localCells' = [p \in Paths |-> localCells'[p]]
      BY <2>1, Zenon DEF ExecPrecommit
    <3>3. \A p \in Paths : localCells'[p] \in CellIds \cup {Nil}
      BY <2>1, <3>1, ExecSource, Zenon DEF TypeOK, ExecTypeOK
    <3> QED BY <1>2, <3>1, <3>2, <3>3, Zenon DEF ExecTypeOK
  <2>2. CASE ExecCommit
    BY <1>2, <2>2, Zenon DEF ExecCommit, ExecTypeOK
  <2> QED BY <2>1, <2>2, Zenon DEF ExecTask
<1>4. UNCHANGED <<lcVars, lsVars, ethVars>>
  BY Zenon DEF ExecTask
<1>5. LiveCacheTypeOK' /\ LiveStorageTypeOK' /\ EthTypeOK'
  BY <1>1, <1>4, DoneType, Zenon DEF TypeOK, lcVars, lsVars, ethVars, LiveCacheTypeOK,
                              LiveStorageTypeOK, EthTypeOK
<1> QED BY <1>1, <1>3, <1>5, DoneType, Zenon DEF TypeOK, AllTasks

\* The tasks of the live cache writer keep the types, evictions included.
LEMMA TypeLiveCacheTask ==
    ASSUME TypeOK, LiveCacheTask
    PROVE  TypeOK'
<1>1. PICK call, w : Done(call, w)
  BY Zenon DEF LiveCacheTask
<1>2. CellIds' = CellIds
  BY <1>1, DoneType, Zenon
<1>3. LiveCacheTypeOK'
  <2>1. CASE LiveCacheSyncPrecommit \/ LiveCacheAsyncPrecommit
    BY <1>2, <2>1, Zenon DEF LiveCacheSyncPrecommit, LiveCacheAsyncPrecommit, Attached,
                      TypeOK, LiveCacheTypeOK
  <2>2. CASE LiveCacheCommit
    <3>1. \A i \in Attached(lcFiled) : cells[i].val \in Value \cup {Nil}
      BY CellValue, Zenon DEF Attached, TypeOK, LiveCacheTypeOK
    <3>2. liveCache' \in [Paths -> Value \cup {Nil}]
      BY <2>2, <3>1, LiveCacheSource, Zenon DEF TypeOK, LiveCacheTypeOK
    <3> QED BY <1>2, <2>2, <3>2, Zenon DEF LiveCacheCommit, TypeOK, LiveCacheTypeOK
  <2> QED BY <2>1, <2>2, Zenon DEF LiveCacheTask
<1>4. UNCHANGED <<execVars, lsVars, ethVars>>
  BY Zenon DEF LiveCacheTask
<1>5. ExecTypeOK' /\ LiveStorageTypeOK' /\ EthTypeOK'
  BY <1>1, <1>4, DoneType, Zenon DEF TypeOK, execVars, lsVars, ethVars, ExecTypeOK,
                              LiveStorageTypeOK, EthTypeOK
<1> QED BY <1>1, <1>3, <1>5, DoneType, Zenon DEF TypeOK, AllTasks

\* The tasks of the live storage writer keep the types.
LEMMA TypeLiveStorageTask ==
    ASSUME TypeOK, LiveStorageTask
    PROVE  TypeOK'
<1>1. PICK call, w : Done(call, w)
  BY Zenon DEF LiveStorageTask
<1>2. CellIds' = CellIds /\ EncodedEntry' = EncodedEntry
  BY <1>1, DoneType, Zenon
<1>3. LiveStorageTypeOK'
  <2>1. CASE LiveStorageSyncPrecommit
    BY <1>2, <2>1, Zenon DEF LiveStorageSyncPrecommit, TypeOK, LiveStorageTypeOK
  <2>2. CASE LiveStorageAsyncPrecommit
    <3>1. ASSUME NEW i \in Attached(lsBuffer)
          PROVE  EntryOf(i) \in EncodedEntry
      <4>1. i \in CellIds
        BY Zenon DEF Attached, TypeOK, LiveStorageTypeOK
      <4>2. cells[i] \in StateCell
        BY <4>1, HeapDomain, Zenon DEF TypeOK
      <4> QED BY <4>1, <4>2, Zenon DEF StateCell, EncodedEntry, EntryOf
    <3>2. lsFiled' \subseteq EncodedEntry
      BY <2>2, <3>1, Zenon DEF LiveStorageAsyncPrecommit, TypeOK, LiveStorageTypeOK
    <3> QED BY <1>2, <2>2, <3>2, Zenon DEF LiveStorageAsyncPrecommit, TypeOK, LiveStorageTypeOK
  <2>3. CASE LiveStorageCommit
    <3>1. \A e \in lsFiled : e.val \in Value \cup {Nil}
      BY Zenon DEF TypeOK, LiveStorageTypeOK, EncodedEntry
    <3>2. liveStorage' \in [Paths -> Value \cup {Nil}]
      BY <2>3, <3>1, LiveStorageSource, Zenon DEF TypeOK, LiveStorageTypeOK
    <3> QED BY <1>2, <2>3, <3>2, Zenon DEF LiveStorageCommit, TypeOK, LiveStorageTypeOK
  <2> QED BY <2>1, <2>2, <2>3, Zenon DEF LiveStorageTask
<1>4. UNCHANGED <<execVars, lcVars, ethVars>>
  BY Zenon DEF LiveStorageTask
<1>5. ExecTypeOK' /\ LiveCacheTypeOK' /\ EthTypeOK'
  BY <1>1, <1>4, DoneType, Zenon DEF TypeOK, execVars, lcVars, ethVars, ExecTypeOK,
                              LiveCacheTypeOK, EthTypeOK
<1> QED BY <1>1, <1>3, <1>5, DoneType, Zenon DEF TypeOK, AllTasks

\* The tasks of the Eth storage writer keep the types.
LEMMA TypeEthTask ==
    ASSUME TypeOK, EthTask
    PROVE  TypeOK'
<1>1. PICK call, w : Done(call, w)
  BY Zenon DEF EthTask
<1>2. CellIds' = CellIds
  BY <1>1, DoneType, Zenon
<1>3. EthTypeOK'
  <2>1. CASE EthPrecommit
    <3>1. ethAccounts' = [p \in Paths |-> ethAccounts'[p]]
      BY <2>1, Zenon DEF EthPrecommit, WriteWorldTrie
    <3>2. \A i \in Attached(CellIds) : cells[i].val \in Value \cup {Nil}
      BY CellValue, Zenon DEF Attached
    <3>3. \A p \in Paths : ethAccounts'[p] \in Value \cup {Nil}
      BY <2>1, <3>2, EthSource, Zenon DEF TypeOK, EthTypeOK
    <3>4. ethAccounts' \in [Paths -> Value \cup {Nil}]
      BY <3>1, <3>3, Zenon
    <3>5. \A a \in Accounts :
              Encode(ethAccounts', a) \in [PathsOf(a) -> Value \cup {Nil}]
      BY <3>4, Zenon DEF Encode, PathsOf
    <3>6. /\ DOMAIN worldTrie' = Accounts
          /\ \A a \in Accounts :
                 worldTrie'[a] \in {worldTrie[a], Encode(ethAccounts', a)}
      BY <2>1, Zenon DEF EthPrecommit, WriteWorldTrie
    <3>7. /\ ethIndex' \in [Accounts -> SUBSET CellIds]
          /\ ethFiled' \in Nat /\ ethDirty' \subseteq Accounts
          /\ blockRoots' = blockRoots
      <4>1. /\ ethIndex' = [a \in Accounts |-> {}]
            /\ ethFiled' = ethFiled + 1
            /\ ethDirty' = ethDirty \cup {a \in Accounts : ethIndex[a] # {}}
            /\ blockRoots' = blockRoots
        BY <2>1, Zenon DEF EthPrecommit
      <4>2. ethFiled \in Nat /\ ethDirty \subseteq Accounts
        BY Zenon DEF TypeOK, EthTypeOK
      <4> QED BY <4>1, <4>2
    <3>8. trieDirty' \in [Accounts -> BOOLEAN]
      BY <2>1, Zenon DEF EthPrecommit, WriteWorldTrie, TypeOK, EthTypeOK
    <3> QED BY <1>2, <3>4, <3>5, <3>6, <3>7, <3>8, Zenon DEF TypeOK, EthTypeOK, PathsOf
  <2>2. CASE EthCommit(block)
    <3>1. DOMAIN blockRoots' \subseteq Nat \cup {NoVersion}
      BY <2>2, Zenon DEF EthCommit, MergedVersion, TypeOK, EthTypeOK
    <3>2. trieDirty' \in [Accounts -> BOOLEAN]
      BY <2>2, Zenon DEF EthCommit, TypeOK, EthTypeOK
    <3> QED BY <1>2, <2>2, <3>1, <3>2, Zenon DEF EthCommit, TypeOK, EthTypeOK, PathsOf
  <2> QED BY <2>1, <2>2, Zenon DEF EthTask
<1>4. UNCHANGED <<execVars, lcVars, lsVars>>
  BY Zenon DEF EthTask
<1>5. ExecTypeOK' /\ LiveCacheTypeOK' /\ LiveStorageTypeOK'
  BY <1>1, <1>4, DoneType, Zenon DEF TypeOK, execVars, lcVars, lsVars, ExecTypeOK,
                              LiveCacheTypeOK, LiveStorageTypeOK
<1> QED BY <1>1, <1>3, <1>5, DoneType, Zenon DEF TypeOK, AllTasks

\* What Finalize merges from a sequence of cells is a set of writes.
LEMMA MergedOriginsType ==
    ASSUME TypeOK, NEW ids \in SUBSET CellIds
    PROVE  MergedOrigins(ids) \in SUBSET (Nat \ {0})
<1>1. ASSUME NEW i \in ids
      PROVE  Origins(cells[i].val) \in SUBSET (Nat \ {0})
  <2>1. cells[i].val \in Value \cup {Nil}
    BY CellValue, Zenon
  <2> QED BY <2>1, Zenon DEF Origins, Value
<1> QED BY <1>1, Zenon DEF MergedOrigins

\* Applying a delta sequence (DeltaSequence.Finalize) gives a value or a deletion.
LEMMA ApplyDeltaType ==
    ASSUME TypeOK, NEW seq \in SUBSET CellIds, seq # {}
    PROVE  ApplyDelta(seq) \in Value \cup {Nil}
<1>1. Last(seq) \in CellIds
  BY EndsOfSequence, Zenon DEF TypeOK
<1>2. Last(seq) \in Nat \ {0}
  BY <1>1, HeapDomain DEF TypeOK
<1> QED BY <1>2, MergedOriginsType, Zenon DEF ApplyDelta, Value

\* Finalize modifies no cell but those of the generation.  Each of them is
\* discarded, or is in a sequence of accepted cells and carries its merge.
LEMMA FinalizedHeap ==
    ASSUME TypeOK, NEW txs
    PROVE  /\ FinalizedCells(txs) = [i \in CellIds |-> FinalizedCells(txs)[i]]
           /\ \A i \in CellIds \ byPath : FinalizedCells(txs)[i] = cells[i]
           /\ \A i \in byPath :
                 \/ FinalizedCells(txs)[i] = [cells[i] EXCEPT !.path = Nil]
                 \/ \E seq \in DeltaSequences(txs) :
                        /\ i \in seq
                        /\ FinalizedCells(txs)[i] =
                               [cells[i] EXCEPT !.val = ApplyDelta(seq)]
<1> DEFINE bases == {First(seq) : seq \in DeltaSequences(txs)}
           seqOf(i) == CHOOSE seq \in DeltaSequences(txs) : i \in seq
<1>1. FinalizedCells(txs) =
          [i \in CellIds |->
            IF i \in bases THEN [cells[i] EXCEPT !.val = ApplyDelta(seqOf(i))]
            ELSE IF i \in byPath THEN [cells[i] EXCEPT !.path = Nil]
            ELSE cells[i]]
  BY Zenon DEF FinalizedCells, CellIds
<1>2. ASSUME NEW i \in bases
      PROVE  i \in byPath /\ seqOf(i) \in DeltaSequences(txs) /\ i \in seqOf(i)
  <2>1. PICK seq \in DeltaSequences(txs) : i = First(seq)
    BY Zenon
  <2>2. seq # {} /\ seq \in SUBSET byPath
    BY Zenon DEF DeltaSequences, At
  <2>3. i \in seq
    BY <2>1, <2>2, EndsOfSequence, Zenon DEF TypeOK
  <2> QED BY <2>2, <2>3, Zenon
<1>3. byPath \subseteq CellIds
  BY Zenon DEF TypeOK
<1> HIDE DEF bases, seqOf
<1> QED BY <1>1, <1>2, <1>3, Zenon

\* The heap that Finalize leaves is a heap of the same cells.
LEMMA FinalizedHeapType ==
    ASSUME TypeOK, NEW txs
    PROVE  FinalizedCells(txs) \in Seq(StateCell) /\ DOMAIN FinalizedCells(txs) = CellIds
<1> DEFINE F == FinalizedCells(txs)
<1>1. CellIds = 1..Len(cells) /\ Len(cells) \in Nat
  BY HeapDomain, Zenon DEF TypeOK
<1>2. ASSUME NEW i \in CellIds
      PROVE  F[i] \in StateCell
  <2>1. cells[i] \in StateCell
    BY HeapDomain, Zenon DEF TypeOK
  <2>2. ASSUME NEW seq \in DeltaSequences(txs)
        PROVE  ApplyDelta(seq) \in Value \cup {Nil}
    <3>1. seq # {} /\ seq \in SUBSET CellIds
      BY Zenon DEF DeltaSequences, At, TypeOK
    <3> QED BY <3>1, ApplyDeltaType, Zenon
  <2>3. \/ F[i] = cells[i]
        \/ F[i] = [cells[i] EXCEPT !.path = Nil]
        \/ \E seq \in DeltaSequences(txs) :
               F[i] = [cells[i] EXCEPT !.val = ApplyDelta(seq)]
    BY FinalizedHeap
  <2> QED BY <2>1, <2>2, <2>3, Zenon DEF StateCell
<1>3. F = [i \in CellIds |-> F[i]]
  BY FinalizedHeap, Zenon
<1>4. F \in Seq(StateCell) /\ DOMAIN F = CellIds
  <2> HIDE DEF F
  <2> QED BY <1>1, <1>2, <1>3
<1> QED BY <1>4, Zenon

\* Among the accepted transitions to a path one has the highest transaction.
LEMMA OutcomeType ==
    ASSUME TypeOK, NEW acc \in SUBSET CellIds, acc # {}
    PROVE  Outcome(acc) \in Value \cup {Nil}
<1> DEFINE rank(i) == IF cells[i].tx = SYSTEM THEN -1 ELSE cells[i].tx
           decides == CHOOSE i \in acc : \A j \in acc : rank(j) <= rank(i)
           N == Len(cells)
           f == [i \in 1..N |-> rank(i)]
           R == {r \in (1..N) \X (1..N) : f[r[1]] <= f[r[2]]}
<1>1. CellIds = 1..N /\ N \in Nat
  BY HeapDomain, Zenon DEF TypeOK
<1>2. ASSUME NEW i \in 1..N
      PROVE  f[i] = rank(i) /\ f[i] \in Int
  <2>1. cells[i] \in StateCell
    BY <1>1, HeapDomain, Zenon DEF TypeOK
  <2>2. cells[i].tx \in TxIds
    BY <2>1, Zenon DEF StateCell
  <2>3. TxIds \subseteq Nat
    BY TxAssumption, Zenon DEF TxIds
  <2>4. rank(i) \in Int
    <3>1. -1 \in Int
      OBVIOUS
    <3>2. cells[i].tx \in Nat
      BY <2>2, <2>3, Zenon
    <3> QED BY <3>1, <3>2
  <2> QED BY <2>4, Zenon
<1> HIDE DEF rank, N, f
<1>3. Orders(R, 1..N)
  <2>1. ASSUME NEW i \in 1..N, NEW j \in 1..N
        PROVE  <<i, j>> \in R <=> f[i] <= f[j]
    BY Zenon
  <2> HIDE DEF R
  <2> QED BY <1>2, <2>1 DEF Orders
<1>4. PICK m \in acc : Greatest(R, acc, m)
  <2> HIDE DEF R
  <2> QED BY <1>1, <1>3, GreatestExists, Zenon
<1>5. ASSUME NEW j \in acc
      PROVE  rank(j) <= rank(m)
  <2>1. j \in 1..N /\ m \in 1..N
    BY <1>1, Zenon
  <2>2. j # m => <<j, m>> \in R
    BY <1>4, Zenon DEF Greatest
  <2>3. f[j] <= f[m]
    BY <1>2, <2>1, <2>2
  <2> QED BY <1>2, <2>1, <2>3, Zenon
<1>6. decides \in acc
  BY <1>5, Zenon
<1>7. decides \in Nat \ {0}
  <2> HIDE DEF decides
  <2> QED BY <1>1, <1>6
<1>8. Outcome(acc) \in {Nil, [from |-> MergedOrigins(acc), last |-> decides]}
  BY Zenon DEF Outcome, rank
<1> HIDE DEF decides
<1> QED BY <1>7, <1>8, MergedOriginsType DEF Value

\* Finalize keeps the types, whatever whitelist it is given.
LEMMA TypeFinalize ==
    ASSUME TypeOK, NEW txs, Finalize(txs)
    PROVE  TypeOK'
<1>1. cells' \in Seq(StateCell) /\ CellIds' = CellIds
  BY FinalizedHeapType, Zenon DEF Finalize, CellIds
<1>2. EncodedEntry' = EncodedEntry
  BY <1>1, Zenon DEF EncodedEntry
<1>3. ExecTypeOK' /\ LiveCacheTypeOK' /\ LiveStorageTypeOK' /\ EthTypeOK'
  BY <1>1, <1>2, Zenon DEF Finalize, TypeOK, execVars, lcVars, lsVars, ethVars, ExecTypeOK,
                    LiveCacheTypeOK, LiveStorageTypeOK, EthTypeOK
<1>4. ASSUME NEW p \in Paths, Accepted(txs, p) # {}
      PROVE  Outcome(Accepted(txs, p)) \in Value \cup {Nil}
  <2>1. Accepted(txs, p) \in SUBSET CellIds
    BY Zenon DEF Accepted, TypeOK
  <2> QED BY <1>4, <2>1, OutcomeType, Zenon
<1>5. ledger' \in [Paths -> Value \cup {Nil}]
  BY <1>4, Zenon DEF Finalize, RecordOutcome, TypeOK
<1>6. /\ rejected' \subseteq CellIds
      /\ setInBlock' \subseteq Paths /\ setThenDeleted' \subseteq Paths
  BY Zenon DEF Finalize, RecordOutcome, TypeOK
<1>7. /\ byPath' = {} /\ byTxID' = {} /\ stage' \in Stage /\ generation' \in Nat
      /\ UNCHANGED <<tasks, owed, block>>
  BY DEF Finalize, TypeOK, Stage
<1> QED BY <1>1, <1>3, <1>5, <1>6, <1>7, Zenon DEF TypeOK, AllTasks

\* A stuttering step keeps the types.
LEMMA TypeStutter ==
    ASSUME TypeOK, UNCHANGED vars
    PROVE  TypeOK'
<1>1. CellIds' = CellIds /\ EncodedEntry' = EncodedEntry
  BY Zenon DEF vars, CellIds, EncodedEntry
<1>2. ExecTypeOK' /\ LiveCacheTypeOK' /\ LiveStorageTypeOK' /\ EthTypeOK'
  BY <1>1, Zenon DEF vars, TypeOK, execVars, lcVars, lsVars, ethVars, ExecTypeOK,
              LiveCacheTypeOK, LiveStorageTypeOK, EthTypeOK
<1> QED BY <1>1, <1>2, Zenon DEF vars, TypeOK, indexVars, callerVars, historyVars, AllTasks

\* Every step keeps the types.
LEMMA TypeNext == TypeOK /\ [Next \/ Finished]_vars => TypeOK'
<1> SUFFICES ASSUME TypeOK, [Next \/ Finished]_vars PROVE TypeOK'
  BY Zenon
<1>1. CASE CallImport
  BY <1>1, TypeImport, Zenon DEF CallImport
<1>2. CASE CallFinalize
  BY <1>2, TypeFinalize, Zenon DEF CallFinalize
<1>3. CASE SyncPrecommit \/ AsyncPrecommit \/ SyncCommit \/ AsyncCommit
  BY <1>3, TypeCalls, Zenon
<1>4. CASE WriterTask
  BY <1>4, TypeExecTask, TypeLiveCacheTask, TypeLiveStorageTask, TypeEthTask, Zenon
     DEF WriterTask
<1>5. CASE Finished \/ UNCHANGED vars
  BY <1>5, TypeStutter, Zenon DEF Finished
<1> QED BY <1>1, <1>2, <1>3, <1>4, <1>5, Zenon DEF Next

\* In every reachable state, for all values of the constants, every list of
\* the committer and of the writers holds cells of the heap, and every store
\* holds values: Newest, Oldest, First and Last never pick from an empty list.
THEOREM TypeCorrect == Spec => []TypeOK
<1>1. Init => TypeOK
  BY TypeInit, Zenon
<1>2. TypeOK /\ [Next \/ Finished]_vars => TypeOK'
  BY TypeNext, Zenon
<1> QED BY <1>1, <1>2, PTL DEF Spec

-----------------------------------------------------------------------------
(* The indexes and the overlay, under any schedule *)

\* The indexes hold the transitions of the current generation: attached cells,
\* newer than all others, at most one for each path and transaction.
GenerationInv ==
    /\ byTxID = {i \in byPath : ~cells[i].skip}
    /\ stage # "executing" => byPath = {}
    /\ \A i \in byPath : cells[i].path \in Paths
    /\ \A i \in byPath, j \in CellIds \ byPath : j < i
    /\ \A i, j \in byPath :
           cells[i].path = cells[j].path /\ cells[i].tx = cells[j].tx => i = j

\* The cells of path p that the finalized generations of the block left.
Merged(p) == At(execBuffer \ byPath, p)

Pending(call, w) == <<call, w>> \in tasks

\* The last one of them is the latest value; a path without any was not set in
\* the block.
MergedLatest(p) ==
    IF Merged(p) = {} THEN p \notin setInBlock /\ (p \in BlockBound => ledger[p] = Nil)
    ELSE cells[Newest(Merged(p))].val = ledger[p]

OverlayInv ==
    /\ byPath \subseteq execBuffer
    /\ Pending("SyncPrecommit", "exec") => stage = "precommitted"
    /\ Pending("SyncCommit", "exec") => stage = "synced"
    /\ stage \in {"synced", "committed"} =>
           setInBlock = {} /\ \A p \in BlockBound : ledger[p] = Nil
    /\ ~Pending("SyncCommit", "exec") => \A p \in Paths : MergedLatest(p)
    /\ \A p \in Paths : localCells[p] = Nil \/ localCells[p] \in Merged(p)
    /\ \/ stage = "finalized"
       \/ Pending("SyncPrecommit", "exec") \/ Pending("SyncCommit", "exec")
       \/ \A p \in Paths : Merged(p) # {} => localCells[p] = Newest(Merged(p))

OverlappedInv == TypeOK /\ GenerationInv /\ OverlayInv

-----------------------------------------------------------------------------
(* What Finalize leaves at a path *)

\* The cells that whitelist leaves of a path are the accepted ones.
LEMMA SequencesAreAccepted ==
    ASSUME TypeOK, GenerationInv, NEW txs
    PROVE  /\ \A p \in Paths : At(byPath, p) \ Discarded(txs) = Accepted(txs, p)
           /\ DeltaSequences(txs) =
                  {seq \in {Accepted(txs, p) : p \in Paths} : seq # {}}
<1>1. ASSUME NEW p \in Paths
      PROVE  At(byPath, p) \ Discarded(txs) = Accepted(txs, p)
  <2>1. ASSUME NEW i \in byPath
        PROVE  i \notin Discarded(txs) <=> Listed(i, txs)
    <3>1. i \in byTxID <=> ~cells[i].skip
      BY Zenon DEF GenerationInv
    <3> QED BY <3>1, Zenon DEF Discarded, Listed
  <2> QED BY <2>1, Zenon DEF At, Accepted
<1> QED BY <1>1, Zenon DEF DeltaSequences

\* The sequence's last cell in order is the transition that decides: no two
\* transitions of a transaction write the same path.
LEMMA MergeIsOutcome ==
    ASSUME TypeOK, GenerationInv, NEW acc \in SUBSET byPath, acc # {},
           \A i, j \in acc : cells[i].path = cells[j].path
    PROVE  ApplyDelta(acc) = Outcome(acc)
<1> DEFINE rank(i) == IF cells[i].tx = SYSTEM THEN -1 ELSE cells[i].tx
           decides == CHOOSE i \in acc : \A j \in acc : rank(j) <= rank(i)
           last == Last(acc)
<1>1. last \in acc /\ \A j \in acc \ {last} : Before(j, last)
  BY EndsOfSequence, Zenon DEF TypeOK
<1>2. ASSUME NEW i \in acc
      PROVE  i \in Nat /\ cells[i].tx \in Nat
  <2>1. i \in CellIds /\ i \in 1..Len(cells) /\ Len(cells) \in Nat /\ cells[i] \in StateCell
    BY HeapDomain, Zenon DEF TypeOK
  <2>2. cells[i].tx \in TxIds /\ TxIds \subseteq Nat
    BY <2>1, TxAssumption, Zenon DEF StateCell, TxIds
  <2>3. i \in Nat
    BY <2>1
  <2> QED BY <2>2, <2>3, Zenon
<1>3. ASSUME NEW i \in acc, NEW j \in acc, i # j
      PROVE  cells[i].tx # cells[j].tx
  BY <1>3, Zenon DEF GenerationInv
<1> HIDE DEF last
<1>4. ASSUME NEW j \in acc, j # last
      PROVE  rank(j) < rank(last)
  <2>1. Before(j, last) /\ cells[j].tx # cells[last].tx
    BY <1>1, <1>3, <1>4, Zenon
  <2>2. cells[j].tx \in Nat /\ cells[last].tx \in Nat
    BY <1>1, <1>2, Zenon
  <2> QED BY <2>1, <2>2 DEF Before
<1>5. \A j \in acc : rank(j) \in Int
  BY <1>2
<1> HIDE DEF rank
<1>6. \A j \in acc : rank(j) <= rank(last)
  BY <1>1, <1>4, <1>5
<1>7. decides \in acc /\ \A j \in acc : rank(j) <= rank(decides)
  BY <1>1, <1>6, Zenon
<1> HIDE DEF decides
<1>8. decides = last
  <2>1. rank(last) <= rank(decides) /\ rank(last) \in Int /\ rank(decides) \in Int
    BY <1>1, <1>5, <1>7, Zenon
  <2>2. decides # last => rank(decides) < rank(last)
    BY <1>4, <1>7, Zenon
  <2> QED BY <2>1, <2>2
<1>9. Outcome(acc) = IF cells[decides].val = Nil THEN Nil
                     ELSE [from |-> MergedOrigins(acc), last |-> decides]
  BY Zenon DEF Outcome, decides, rank
<1> QED BY <1>8, <1>9, Zenon DEF ApplyDelta, last

\* Of the generation's cells at a path, Finalize leaves none if no transition
\* to it was accepted, and otherwise one, with the value that is expected.
LEMMA FinalizedAt ==
    ASSUME TypeOK, GenerationInv, NEW txs, NEW p \in Paths
    PROVE  LET F == FinalizedCells(txs)
               acc == Accepted(txs, p)
           IN  /\ \A i \in byPath : F[i].path = p =>
                      cells[i].path = p /\ acc # {} /\ i = First(acc)
               /\ acc # {} =>
                      /\ First(acc) \in byPath
                      /\ F[First(acc)].path = p
                      /\ F[First(acc)].val = Outcome(acc)
<1> DEFINE F == FinalizedCells(txs)
           Acc(q) == Accepted(txs, q)
           bases == {First(seq) : seq \in DeltaSequences(txs)}
           seqOf(i) == CHOOSE seq \in DeltaSequences(txs) : i \in seq
<1>1. F = [i \in CellIds |->
              IF i \in bases THEN [cells[i] EXCEPT !.val = ApplyDelta(seqOf(i))]
              ELSE IF i \in byPath THEN [cells[i] EXCEPT !.path = Nil]
              ELSE cells[i]]
  BY Zenon DEF FinalizedCells, CellIds
<1>2. DeltaSequences(txs) = {seq \in {Acc(q) : q \in Paths} : seq # {}}
  BY SequencesAreAccepted, Zenon
<1>3. ASSUME NEW q \in Paths
      PROVE  /\ Acc(q) \in SUBSET byPath
             /\ \A i \in Acc(q) : cells[i].path = q
             /\ Acc(q) # {} => First(Acc(q)) \in Acc(q)
  <2>1. Acc(q) \in SUBSET byPath /\ \A i \in Acc(q) : cells[i].path = q
    BY Zenon DEF Accepted
  <2>2. Acc(q) \in SUBSET CellIds
    BY <2>1, Zenon DEF TypeOK
  <2> HIDE DEF Acc
  <2> QED BY <2>1, <2>2, EndsOfSequence, Zenon DEF TypeOK
<1>4. ASSUME NEW i \in byPath
      PROVE  i \in CellIds /\ cells[i] \in StateCell /\ cells[i].path \in Paths
  BY HeapDomain, Zenon DEF TypeOK, GenerationInv
<1> HIDE DEF F, Acc
<1>5. ASSUME NEW i \in bases
      PROVE  /\ i = First(Acc(cells[i].path)) /\ Acc(cells[i].path) # {}
             /\ i \in Acc(cells[i].path) /\ i \in byPath
             /\ seqOf(i) = Acc(cells[i].path)
  <2>1. PICK q \in Paths : Acc(q) # {} /\ i = First(Acc(q))
    BY <1>2, Zenon
  <2>2. i \in Acc(q) /\ i \in byPath /\ cells[i].path = q
    BY <1>3, <2>1, Zenon
  <2>3. Acc(q) \in DeltaSequences(txs)
    BY <1>2, <2>1, Zenon
  <2>4. \A seq \in DeltaSequences(txs) : i \in seq => seq = Acc(q)
    BY <1>2, <1>3, <2>2
  <2>5. seqOf(i) = Acc(q)
    BY <2>2, <2>3, <2>4, Zenon
  <2> QED BY <2>1, <2>2, <2>5, Zenon
<1>6. ASSUME Acc(p) # {}
      PROVE  First(Acc(p)) \in bases
  BY <1>2, <1>6, Zenon
<1> HIDE DEF bases, seqOf
<1>7. ASSUME NEW i \in byPath, F[i].path = p
      PROVE  cells[i].path = p /\ Acc(p) # {} /\ i = First(Acc(p))
  <2>1. CASE i \in bases
    <3>1. F[i] = [cells[i] EXCEPT !.val = ApplyDelta(seqOf(i))]
      BY <1>1, <1>4, <2>1, Zenon
    <3>2. F[i].path = cells[i].path
      BY <1>4, <3>1, Zenon DEF StateCell
    <3> QED BY <1>5, <1>7, <2>1, <3>2, Zenon
  <2>2. CASE i \notin bases
    <3>1. F[i] = [cells[i] EXCEPT !.path = Nil]
      BY <1>1, <1>4, <2>2, Zenon
    <3>2. F[i].path = Nil
      BY <1>4, <3>1, Zenon DEF StateCell
    <3> QED BY <1>7, <3>2, NilAssumption, Zenon
  <2> QED BY <2>1, <2>2, Zenon
<1>8. ASSUME Acc(p) # {}
      PROVE  /\ First(Acc(p)) \in byPath
             /\ F[First(Acc(p))].path = p /\ F[First(Acc(p))].val = Outcome(Acc(p))
  <2> DEFINE b == First(Acc(p))
  <2>1. b \in Acc(p) /\ b \in byPath /\ cells[b].path = p /\ b \in bases
    BY <1>3, <1>6, <1>8, Zenon
  <2>2. seqOf(b) = Acc(p)
    BY <1>5, <2>1, Zenon
  <2>3. ApplyDelta(Acc(p)) = Outcome(Acc(p))
    BY <1>3, <1>8, MergeIsOutcome, Zenon
  <2> HIDE DEF b
  <2>4. F[b] = [cells[b] EXCEPT !.val = Outcome(Acc(p))]
    BY <1>1, <1>4, <2>1, <2>2, <2>3, Zenon
  <2>5. F[b].path = p /\ F[b].val = Outcome(Acc(p))
    BY <1>4, <2>1, <2>4, Zenon DEF StateCell
  <2> QED BY <2>1, <2>5, Zenon DEF b
<1> QED BY <1>7, <1>8, Zenon DEF F, Acc

-----------------------------------------------------------------------------
(* The overlay, under any schedule *)

NewIds(trans) == (Len(cells) + 1)..(Len(cells) + Len(trans))

\* What Import does, in terms of the cells it adds to the heap.
LEMMA ImportedCells ==
    ASSUME TypeOK, NEW trans \in Batches, Import(trans)
    PROVE  LET new == NewIds(trans)
           IN  /\ CellIds' = CellIds \cup new /\ CellIds \cap new = {}
               /\ \A i \in CellIds : cells'[i] = cells[i]
               /\ \A i \in new :
                      /\ \A j \in CellIds : j < i
                      /\ i - Len(cells) \in DOMAIN trans
                      /\ cells'[i].path = trans[i - Len(cells)].path
                      /\ cells'[i].tx = trans[i - Len(cells)].tx
                      /\ cells'[i].skip = trans[i - Len(cells)].skip
                      /\ cells'[i].path \in Paths
               /\ \A i, j \in new : i # j => i - Len(cells) # j - Len(cells)
<1> DEFINE n == Len(cells)
           new == NewIds(trans)
<1>1. /\ n \in Nat /\ Len(trans) \in Nat
      /\ cells' \in Seq(StateCell) /\ Len(cells') = n + Len(trans)
      /\ \A i \in CellIds : cells'[i] = cells[i]
      /\ \A k \in 1..Len(trans) : trans[k] \in Transition /\ cells'[n + k] = NewCell(trans, k)
  BY ImportAppends DEF TypeOK
<1>2. CellIds = 1..n /\ CellIds' = 1..(n + Len(trans)) /\ new = (n + 1)..(n + Len(trans))
  BY <1>1, HeapDomain DEF TypeOK, CellIds, NewIds
<1>3. DOMAIN trans = 1..Len(trans)
  <2>1. PICK m \in Nat : trans \in [1..m -> Transition]
    BY BoundAssumption DEF Batches
  <2> QED BY <2>1
<1> HIDE DEF n, new
<1>4. CellIds' = CellIds \cup new /\ CellIds \cap new = {}
  BY <1>1, <1>2
<1>5. ASSUME NEW i \in new
      PROVE  /\ \A j \in CellIds : j < i
             /\ i - n \in DOMAIN trans
             /\ cells'[i].path = trans[i - n].path
             /\ cells'[i].tx = trans[i - n].tx
             /\ cells'[i].skip = trans[i - n].skip
             /\ cells'[i].path \in Paths
  <2>1. i - n \in 1..Len(trans) /\ n + (i - n) = i
    BY <1>1, <1>2
  <2>2. \A j \in CellIds : j < i
    BY <1>1, <1>2
  <2>3. cells'[i] = NewCell(trans, i - n) /\ trans[i - n] \in Transition
    BY <1>1, <2>1, Zenon
  <2>4. /\ cells'[i].path = trans[i - n].path
        /\ cells'[i].tx = trans[i - n].tx
        /\ cells'[i].skip = trans[i - n].skip
    BY <2>3 DEF NewCell
  <2>5. trans[i - n].path \in Paths
    BY <2>3, Zenon DEF Transition
  <2> QED BY <1>3, <2>1, <2>2, <2>4, <2>5, Zenon
<1>6. \A i, j \in new : i # j => i - n # j - n
  BY <1>1, <1>2
<1> QED BY <1>1, <1>4, <1>5, <1>6, Zenon DEF n, new

\* The variables after Import.
LEMMA ImportedVars ==
    ASSUME TypeOK, NEW trans \in Batches, Import(trans)
    PROVE  LET new == NewIds(trans)
               persistent == {i \in new : cells'[i].path \notin BlockBound}
           IN  /\ byPath' = byPath \cup new
               /\ byTxID' = byTxID \cup {i \in new : ~cells'[i].skip}
               /\ execBuffer' = execBuffer \cup new
               /\ lcImport' = lcImport \cup persistent
               /\ lsImport' = lsImport \cup persistent
               /\ ethIndex' = [a \in Accounts |->
                      ethIndex[a] \cup {i \in persistent : AccountOf[cells'[i].path] = a}]
               /\ stage' = "executing"
               /\ UNCHANGED <<localCells, lcBuffer, lcFiled, liveCache, lsBuffer, lsFiled,
                              liveStorage, ethAccounts, trieDirty, worldTrie, ethDirty,
                              trieDB, tasks, owed, generation, ledger, setInBlock,
                              setThenDeleted>>
<1> DEFINE new == NewIds(trans)
           n == Len(cells)
           persistent == {i \in new : cells'[i].path \notin BlockBound}
<1>1. ASSUME NEW i \in new
      PROVE  cells'[i].path = trans[i - n].path /\ cells'[i].skip = trans[i - n].skip
  BY ImportedCells, Zenon
<1>2. /\ byPath' = byPath \cup new
      /\ byTxID' = byTxID \cup {i \in new : ~trans[i - n].skip}
      /\ ExecImport(new)
      /\ LiveCacheImport({i \in new : NonTransientOnly(trans[i - n].path)})
      /\ LiveStorageImport({i \in new : NonTransientOnly(trans[i - n].path)})
      /\ EthImport({i \in new : NonTransientOnly(trans[i - n].path)})
      /\ stage' = "executing"
      /\ UNCHANGED <<tasks, owed, generation, block, historyVars>>
  BY Zenon DEF Import, NewIds
<1> HIDE DEF new, n
<1>3. {i \in new : NonTransientOnly(trans[i - n].path)} = persistent
  BY <1>1, Zenon DEF NonTransientOnly
<1>4. {i \in new : ~trans[i - n].skip} = {i \in new : ~cells'[i].skip}
  BY <1>1, Zenon
<1> HIDE DEF persistent
<1> QED BY <1>2, <1>3, <1>4, Zenon
        DEF ExecImport, LiveCacheImport, LiveStorageImport, EthImport, historyVars,
            new, persistent

\* The transitions imported are the newest, and new to their transactions.
LEMMA GenerationImport ==
    ASSUME TypeOK, GenerationInv, NEW trans \in Batches, Exportable(trans), Import(trans)
    PROVE  GenerationInv'
<1> DEFINE new == NewIds(trans)
           n == Len(cells)
<1>1. /\ CellIds' = CellIds \cup new /\ CellIds \cap new = {}
      /\ \A i \in CellIds : cells'[i] = cells[i]
      /\ \A i \in new : (\A j \in CellIds : j < i) /\ cells'[i].path \in Paths
  BY ImportedCells, Zenon
<1>2. /\ byPath' = byPath \cup new
      /\ byTxID' = byTxID \cup {i \in new : ~cells'[i].skip}
      /\ stage' = "executing"
  BY ImportedVars, Zenon
<1>3. byPath \subseteq CellIds
  BY Zenon DEF TypeOK
<1>4. ASSUME NEW i \in new, NEW j \in byPath,
             cells'[i].path = cells'[j].path, cells'[i].tx = cells'[j].tx
      PROVE  FALSE
  <2>1. /\ i - n \in DOMAIN trans
        /\ trans[i - n].path = cells'[i].path /\ trans[i - n].tx = cells'[i].tx
    BY ImportedCells, Zenon
  <2>2. j \in At(byPath, trans[i - n].path) /\ cells[j].tx = trans[i - n].tx
    BY <1>1, <1>3, <1>4, <2>1, Zenon DEF At
  <2> QED BY <2>1, <2>2, Zenon DEF Exportable
<1>5. ASSUME NEW i \in new, NEW j \in new, i # j,
             cells'[i].path = cells'[j].path, cells'[i].tx = cells'[j].tx
      PROVE  FALSE
  <2>1. /\ i - n \in DOMAIN trans /\ j - n \in DOMAIN trans /\ i - n # j - n
        /\ trans[i - n].path = cells'[i].path /\ trans[i - n].tx = cells'[i].tx
        /\ trans[j - n].path = cells'[j].path /\ trans[j - n].tx = cells'[j].tx
    BY <1>5, ImportedCells, Zenon
  <2> QED BY <1>5, <2>1, Zenon DEF Exportable
<1> HIDE DEF new, n
<1>6. byTxID' = {i \in byPath' : ~cells'[i].skip}
  <2>1. byTxID = {i \in byPath : ~cells[i].skip}
    BY Zenon DEF GenerationInv
  <2> QED BY <1>1, <1>2, <1>3, <2>1, Zenon
<1>7. \A i \in byPath' : cells'[i].path \in Paths
  BY <1>1, <1>2, <1>3, Zenon DEF GenerationInv
<1>8. \A i \in byPath', j \in CellIds' \ byPath' : j < i
  BY <1>1, <1>2, <1>3, Zenon DEF GenerationInv
<1>9. ASSUME NEW i \in byPath', NEW j \in byPath',
             cells'[i].path = cells'[j].path, cells'[i].tx = cells'[j].tx
      PROVE  i = j
  <2>1. CASE i \in byPath /\ j \in byPath
    BY <1>1, <1>3, <1>9, <2>1, Zenon DEF GenerationInv
  <2> QED BY <1>2, <1>4, <1>5, <1>9, <2>1, Zenon
<1> QED BY <1>2, <1>6, <1>7, <1>8, <1>9, Zenon DEF GenerationInv

\* The greatest of the ids is the newest cell.
LEMMA NewestIs ==
    ASSUME NEW N \in Nat, NEW ids \in SUBSET (1..N), NEW b \in ids,
           \A j \in ids : j <= b
    PROVE  Newest(ids) = b
<1>1. Newest(ids) \in ids /\ \A j \in ids : j <= Newest(ids)
  BY NewestMember, Zenon
<1> HIDE DEF Newest
<1>2. b <= Newest(ids) /\ Newest(ids) <= b /\ b \in 1..N /\ Newest(ids) \in 1..N
  BY <1>1, Zenon
<1> QED BY <1>2

\* Finalize and the variables: only the generation's cells change.
LEMMA FinalizedVars ==
    ASSUME TypeOK, NEW txs, Finalize(txs)
    PROVE  /\ CellIds' = CellIds /\ \A i \in CellIds \ byPath : cells'[i] = cells[i]
           /\ byPath' = {} /\ byTxID' = {} /\ stage' = "finalized"
           /\ generation' = generation + 1
           /\ stage \in {"executing", "precommitted", "committed"}
           /\ UNCHANGED <<execBuffer, localCells, lcImport, lcBuffer, lcFiled, liveCache,
                          lsImport, lsBuffer, lsFiled, liveStorage, ethIndex, ethAccounts,
                          trieDirty, worldTrie, ethDirty, trieDB, tasks, owed>>
<1>1. CellIds' = CellIds
  BY FinalizedHeapType, Zenon DEF Finalize, CellIds
<1>2. \A i \in CellIds \ byPath : cells'[i] = cells[i]
  BY FinalizedHeap, Zenon DEF Finalize
<1> QED BY <1>1, <1>2, Zenon DEF Finalize, execVars, lcVars, lsVars, ethVars

\* Finalize and one path: either no transition to it was accepted, and nothing
\* is left of those imported, or one cell is left, with the latest value.
LEMMA FinalizedPath ==
    ASSUME TypeOK, GenerationInv, NEW txs, Finalize(txs), NEW p \in Paths
    PROVE  \/ /\ \A i \in byPath : cells'[i].path # p
              /\ ledger'[p] = ledger[p]
              /\ p \in setInBlock' <=> p \in setInBlock
              /\ p \in setThenDeleted' <=> p \in setThenDeleted
           \/ \E b \in byPath :
                 /\ cells[b].path = p /\ cells'[b].path = p /\ cells'[b].val = ledger'[p]
                 /\ \A i \in byPath : cells'[i].path = p => i = b
                 /\ p \in setInBlock' <=> p \in setInBlock \/ ledger'[p] # Nil
                 /\ p \in setThenDeleted' <=> p \in setInBlock /\ ledger'[p] = Nil
<1> DEFINE acc == Accepted(txs, p)
<1>1. /\ \A i \in byPath : cells'[i].path = p =>
             cells[i].path = p /\ acc # {} /\ i = First(acc)
      /\ acc # {} =>
             /\ First(acc) \in byPath
             /\ cells'[First(acc)].path = p
             /\ cells'[First(acc)].val = Outcome(acc)
  BY FinalizedAt, Zenon DEF Finalize
<1>2. /\ ledger'[p] = IF acc # {} THEN Outcome(acc) ELSE ledger[p]
      /\ p \in setInBlock' <=> p \in setInBlock \/ (acc # {} /\ Outcome(acc) # Nil)
      /\ p \in setThenDeleted' <=>
             \/ p \in setThenDeleted /\ acc = {}
             \/ acc # {} /\ Outcome(acc) = Nil /\ p \in setInBlock
  BY Zenon DEF Finalize, RecordOutcome
<1> HIDE DEF acc
<1>3. CASE acc = {}
  BY <1>1, <1>2, <1>3, Zenon
<1>4. CASE acc # {}
  <2> DEFINE b == First(acc)
  <2>1. b \in byPath /\ cells[b].path = p /\ cells'[b].path = p /\ cells'[b].val = ledger'[p]
    BY <1>1, <1>2, <1>4, Zenon
  <2>2. \A i \in byPath : cells'[i].path = p => i = b
    BY <1>1, Zenon
  <2> HIDE DEF b
  <2> QED BY <1>2, <1>4, <2>1, <2>2, Zenon
<1> QED BY <1>3, <1>4, Zenon

\* A cell of the generation stays at its path or is discarded.
LEMMA FinalizedPathOf ==
    ASSUME TypeOK, GenerationInv, NEW txs, Finalize(txs), NEW i \in byPath
    PROVE  cells'[i].path \in {cells[i].path, Nil}
<1>1. cells' \in Seq(StateCell) /\ DOMAIN cells' = CellIds
  BY FinalizedHeapType, Zenon DEF Finalize
<1>2. i \in CellIds
  BY Zenon DEF TypeOK
<1>3. cells'[i] \in StateCell
  BY <1>1, <1>2, HeapDomain DEF TypeOK
<1>4. cells'[i].path \in Paths \cup {Nil}
  BY <1>3, Zenon DEF StateCell
<1>5. \A p \in Paths : cells'[i].path = p => cells[i].path = p
  BY FinalizedAt, Zenon DEF Finalize
<1> QED BY <1>4, <1>5, Zenon

\* The indexes are empty after Finalize.
LEMMA GenerationFinalize ==
    ASSUME TypeOK, GenerationInv, NEW txs, Finalize(txs)
    PROVE  GenerationInv'
BY FinalizedVars, Zenon DEF GenerationInv

\* The other steps leave the heap and the indexes alone, and none of them
\* leads back to importing.
LEMMA GenerationFrame ==
    ASSUME GenerationInv, UNCHANGED <<cells, byPath, byTxID>>,
           stage' = stage \/ (byPath = {} /\ stage' # "executing")
    PROVE  GenerationInv'
BY Zenon DEF GenerationInv, CellIds

\* Import adds no cell to the merged ones.
LEMMA OverlayImport ==
    ASSUME OverlappedInv, ~Pending("SyncPrecommit", "exec"),
           NEW trans \in Batches, Import(trans)
    PROVE  OverlayInv'
<1> DEFINE new == NewIds(trans)
<1>1. /\ \A i \in CellIds : cells'[i] = cells[i]
      /\ CellIds \cap new = {}
  BY ImportedCells, Zenon DEF OverlappedInv
<1>2. /\ byPath' = byPath \cup new /\ execBuffer' = execBuffer \cup new
      /\ stage' = "executing" /\ UNCHANGED <<localCells, tasks, ledger, setInBlock>>
  BY ImportedVars, Zenon DEF OverlappedInv
<1>3. execBuffer \subseteq CellIds /\ byPath \subseteq CellIds /\ byPath \subseteq execBuffer
  BY Zenon DEF OverlappedInv, TypeOK, ExecTypeOK, OverlayInv
<1> HIDE DEF new
<1>4. ASSUME NEW p \in Paths
      PROVE  Merged(p)' = Merged(p) /\ Merged(p) \subseteq CellIds
  BY <1>1, <1>2, <1>3, Zenon DEF Merged, At
<1>5. stage \in {"executing", "precommitted", "committed"}
  BY Zenon DEF Import
<1>6. /\ ~Pending("SyncCommit", "exec")
      /\ \A p \in Paths : MergedLatest(p)
      /\ \A p \in Paths : localCells[p] = Nil \/ localCells[p] \in Merged(p)
      /\ \A p \in Paths : Merged(p) # {} => localCells[p] = Newest(Merged(p))
  BY <1>5, Zenon DEF OverlappedInv, OverlayInv
<1>7. ~Pending("SyncPrecommit", "exec")' /\ ~Pending("SyncCommit", "exec")'
  BY <1>2, <1>6, Zenon DEF Pending
<1>8. ASSUME NEW p \in Paths
      PROVE  MergedLatest(p)'
  <2>1. Merged(p) # {} => Newest(Merged(p)) \in CellIds
    <3>1. Len(cells) \in Nat /\ CellIds = 1..Len(cells)
      BY HeapDomain, Zenon DEF OverlappedInv, TypeOK
    <3> QED BY <1>4, <3>1, NewestMember, Zenon
  <2> QED BY <1>1, <1>2, <1>4, <1>6, <2>1, Zenon DEF MergedLatest
<1> QED BY <1>2, <1>3, <1>4, <1>6, <1>7, <1>8, Zenon DEF OverlayInv

\* What Finalize leaves of the generation is newer than what is merged.
LEMMA OverlayFinalize ==
    ASSUME OverlappedInv, ~Pending("SyncPrecommit", "exec"), NEW txs, Finalize(txs)
    PROVE  OverlayInv'
<1>1. /\ \A i \in CellIds \ byPath : cells'[i] = cells[i]
      /\ byPath' = {} /\ stage' = "finalized"
      /\ stage \in {"executing", "precommitted", "committed"}
      /\ UNCHANGED <<execBuffer, localCells, tasks>>
  BY FinalizedVars, Zenon DEF OverlappedInv
<1>2. execBuffer \subseteq CellIds /\ byPath \subseteq CellIds /\ byPath \subseteq execBuffer
  BY Zenon DEF OverlappedInv, TypeOK, ExecTypeOK, OverlayInv
<1>3. ASSUME NEW p \in Paths
      PROVE  /\ Merged(p) \subseteq CellIds \ byPath
             /\ Merged(p)' = Merged(p) \cup {i \in byPath : cells'[i].path = p}
  BY <1>1, <1>2 DEF Merged, At
<1>4. ~Pending("SyncPrecommit", "exec")' /\ ~Pending("SyncCommit", "exec")'
      /\ ~Pending("SyncCommit", "exec")
  BY <1>1, Zenon DEF Pending, OverlappedInv, OverlayInv
<1>5. Len(cells) \in Nat /\ CellIds = 1..Len(cells)
  BY HeapDomain, Zenon DEF OverlappedInv, TypeOK
<1>6. ASSUME NEW p \in Paths
      PROVE  MergedLatest(p)'
  <2>1. MergedLatest(p)
    BY <1>4, Zenon DEF OverlappedInv, OverlayInv
  <2>2. CASE /\ \A i \in byPath : cells'[i].path # p
             /\ ledger'[p] = ledger[p]
             /\ p \in setInBlock' <=> p \in setInBlock
    <3>1. Merged(p)' = Merged(p)
      BY <1>3, <2>2, Zenon
    <3>2. Merged(p) # {} => Newest(Merged(p)) \in Merged(p)
      BY <1>3, <1>5, NewestMember, Zenon
    <3> QED BY <1>1, <1>3, <2>1, <2>2, <3>1, <3>2, Zenon DEF MergedLatest
  <2>3. ASSUME NEW b \in byPath, cells'[b].path = p, cells'[b].val = ledger'[p],
               \A i \in byPath : cells'[i].path = p => i = b
        PROVE  MergedLatest(p)'
    <3>1. Merged(p)' = Merged(p) \cup {b}
      BY <1>3, <2>3
    <3>2. \A j \in Merged(p) : j < b
      BY <1>3, Zenon DEF OverlappedInv, GenerationInv
    <3>3. Merged(p) \cup {b} \in SUBSET (1..Len(cells))
      BY <1>2, <1>3, <1>5, Zenon
    <3>4. \A j \in Merged(p) \cup {b} : j <= b
      BY <1>5, <3>2, <3>3
    <3>5. Newest(Merged(p) \cup {b}) = b
      BY <1>5, <3>3, <3>4, NewestIs, Zenon
    <3> QED BY <2>3, <3>1, <3>5, Zenon DEF MergedLatest
  <2> QED BY <2>2, <2>3, FinalizedPath, Zenon DEF OverlappedInv
<1>7. \A p \in Paths : (localCells[p] = Nil \/ localCells[p] \in Merged(p))'
  BY <1>1, <1>3, Zenon DEF OverlappedInv, OverlayInv
<1> QED BY <1>1, <1>2, <1>4, <1>6, <1>7, Zenon DEF OverlayInv

\* Steps that leave the overlay, its buffer and the heap alone.
LEMMA OverlayFrame ==
    ASSUME OverlayInv, UNCHANGED <<cells, execBuffer, localCells, byPath>>,
           UNCHANGED <<ledger, setInBlock, stage>>,
           Pending("SyncPrecommit", "exec")' <=> Pending("SyncPrecommit", "exec"),
           Pending("SyncCommit", "exec")' <=> Pending("SyncCommit", "exec")
    PROVE  OverlayInv'
<1>1. \A p \in Paths : Merged(p)' = Merged(p)
  BY Zenon DEF Merged, At
<1>2. \A p \in Paths : MergedLatest(p)' <=> MergedLatest(p)
  BY <1>1, Zenon DEF MergedLatest
<1> QED BY <1>1, <1>2, Zenon DEF OverlayInv

\* The calls: SyncPrecommit and SyncCommit start the overlay's tasks.
LEMMA OverlayCalls ==
    ASSUME OverlappedInv,
           \/ SyncPrecommit \/ AsyncPrecommit
           \/ tasks = {} /\ SyncCommit
           \/ tasks = {} /\ AsyncCommit
    PROVE  GenerationInv' /\ OverlayInv'
<1>1. UNCHANGED <<cells, execBuffer, localCells, byPath, byTxID>>
  BY Zenon DEF SyncPrecommit, AsyncPrecommit, SyncCommit, AsyncCommit, Start, execVars, indexVars
<1>2. \A p \in Paths : Merged(p)' = Merged(p)
  BY <1>1, Zenon DEF Merged, At
<1>3. CASE AsyncPrecommit
  <2>1. UNCHANGED <<ledger, setInBlock, stage>>
    BY <1>3, Zenon DEF AsyncPrecommit, historyVars
  <2>2. /\ Pending("SyncPrecommit", "exec")' <=> Pending("SyncPrecommit", "exec")
        /\ Pending("SyncCommit", "exec")' <=> Pending("SyncCommit", "exec")
    BY <1>3, Zenon DEF AsyncPrecommit, Start, Tasks, Pending
  <2> QED BY <1>1, <2>1, <2>2, GenerationFrame, OverlayFrame, Zenon DEF OverlappedInv
<1>4. CASE SyncPrecommit
  <2>1. /\ stage = "finalized" /\ stage' = "precommitted"
        /\ UNCHANGED <<ledger, setInBlock>>
        /\ tasks' = tasks \cup Tasks("SyncPrecommit", SyncPrecommitWriters)
    BY <1>4, Zenon DEF SyncPrecommit, Start, historyVars
  <2>2. /\ Pending("SyncPrecommit", "exec")'
        /\ Pending("SyncCommit", "exec")' <=> Pending("SyncCommit", "exec")
    BY <2>1, Zenon DEF Tasks, SyncPrecommitWriters, Pending
  <2>3. \A p \in Paths : MergedLatest(p)' <=> MergedLatest(p)
    BY <1>1, <1>2, <2>1, Zenon DEF MergedLatest
  <2>4. byPath = {}
    BY <2>1, Zenon DEF OverlappedInv, GenerationInv
  <2> QED BY <1>1, <1>2, <2>1, <2>2, <2>3, <2>4, GenerationFrame, Zenon
          DEF OverlappedInv, OverlayInv
<1>5. CASE tasks = {} /\ SyncCommit
  <2>1. /\ stage = "precommitted" /\ stage' = "synced" /\ setInBlock' = {}
        /\ ledger' = [p \in Paths |-> IF p \in BlockBound THEN Nil ELSE ledger[p]]
        /\ tasks' = Tasks("SyncCommit", SyncWriters)
    BY <1>5, Zenon DEF SyncCommit, Start
  <2>2. ~Pending("SyncPrecommit", "exec")' /\ Pending("SyncCommit", "exec")'
    BY <2>1, Zenon DEF Tasks, SyncWriters, Pending
  <2>3. byPath = {}
    BY <2>1, Zenon DEF OverlappedInv, GenerationInv
  <2>4. \A p \in BlockBound : ledger'[p] = Nil
    BY <2>1, BlockBoundAssumption, Zenon
  <2> QED BY <1>1, <1>2, <2>1, <2>2, <2>3, <2>4, GenerationFrame, Zenon
          DEF OverlappedInv, OverlayInv
<1>6. CASE tasks = {} /\ AsyncCommit
  <2>1. /\ stage = "synced" /\ stage' = "committed"
        /\ UNCHANGED <<ledger, setInBlock>>
        /\ tasks' = Tasks("AsyncCommit", AsyncWriters)
    BY <1>6, Zenon DEF AsyncCommit, Start, historyVars
  <2>2. /\ ~Pending("SyncPrecommit", "exec") /\ ~Pending("SyncCommit", "exec")
        /\ ~Pending("SyncPrecommit", "exec")' /\ ~Pending("SyncCommit", "exec")'
    BY <1>6, <2>1, Zenon DEF Tasks, Pending
  <2>3. byPath = {}
    BY <2>1, Zenon DEF OverlappedInv, GenerationInv
  <2>4. \A p \in Paths : MergedLatest(p)' <=> MergedLatest(p)
    BY <1>1, <1>2, <2>1, Zenon DEF MergedLatest
  <2> QED BY <1>1, <1>2, <2>1, <2>2, <2>3, <2>4, GenerationFrame, Zenon
          DEF OverlappedInv, OverlayInv
<1> QED BY <1>3, <1>4, <1>5, <1>6, Zenon

\* The tasks: ExecPrecommit enters the newest cell of each path, ExecCommit
\* clears the overlay, and no other writer touches it.
LEMMA OverlayTask ==
    ASSUME OverlappedInv, WriterTask
    PROVE  GenerationInv' /\ OverlayInv'
<1>1. PICK call, w : Done(call, w)
  BY Zenon DEF WriterTask, ExecTask, LiveCacheTask, LiveStorageTask, EthTask
<1>2. UNCHANGED <<cells, byPath, byTxID, stage, ledger, setInBlock>>
  BY <1>1, Zenon DEF Done, indexVars, historyVars
<1>3. GenerationInv'
  BY <1>2, GenerationFrame, Zenon DEF OverlappedInv
<1>4. ASSUME NEW c, NEW u, Done(c, u), u # "exec", UNCHANGED execVars
      PROVE  OverlayInv'
  <2>1. /\ Pending("SyncPrecommit", "exec")' <=> Pending("SyncPrecommit", "exec")
        /\ Pending("SyncCommit", "exec")' <=> Pending("SyncCommit", "exec")
    BY <1>4, Zenon DEF Done, Pending
  <2> QED BY <1>2, <1>4, <2>1, OverlayFrame, Zenon DEF OverlappedInv, execVars
<1>5. CASE Done("SyncPrecommit", "exec") /\ ExecPrecommit
  <2> DEFINE buffer == Attached(execBuffer)
  <2>1. /\ Pending("SyncPrecommit", "exec") /\ stage = "precommitted"
        /\ ~Pending("SyncCommit", "exec") /\ byPath = {}
    BY <1>5, Zenon DEF Done, Pending, OverlappedInv, OverlayInv, GenerationInv
  <2>2. ~Pending("SyncPrecommit", "exec")' /\ ~Pending("SyncCommit", "exec")'
    BY <1>5, <2>1, Zenon DEF Done, Pending
  <2>3. /\ execBuffer' = buffer
        /\ localCells' = [p \in Paths |->
               IF At(buffer, p) # {} THEN Newest(At(buffer, p)) ELSE localCells[p]]
    BY <1>5, Zenon DEF ExecPrecommit
  <2>4. ASSUME NEW p \in Paths
        PROVE  Merged(p) = At(buffer, p) /\ Merged(p)' = At(buffer, p)
    <3>1. p # Nil
      BY NilAssumption, Zenon
    <3>2. Merged(p) = At(buffer, p)
      BY <2>1, <3>1, Zenon DEF Merged, At, Attached
    <3>3. Merged(p)' = At(buffer, p)
      BY <1>2, <2>1, <2>3, Zenon DEF Merged, At
    <3> QED BY <3>2, <3>3, Zenon
  <2>5. Len(cells) \in Nat /\ \A p \in Paths : Merged(p) \in SUBSET (1..Len(cells))
    BY HeapDomain, Zenon DEF OverlappedInv, TypeOK, ExecTypeOK, Merged, At
  <2> HIDE DEF buffer
  <2>6. ASSUME NEW p \in Paths
        PROVE  /\ localCells'[p] = Nil \/ localCells'[p] \in Merged(p)'
               /\ Merged(p)' # {} => localCells'[p] = Newest(Merged(p)')
    <3>1. localCells'[p] = IF Merged(p) # {} THEN Newest(Merged(p)) ELSE localCells[p]
      BY <2>3, <2>4, Zenon
    <3>2. localCells[p] = Nil \/ localCells[p] \in Merged(p)
      BY Zenon DEF OverlappedInv, OverlayInv
    <3>3. Merged(p) # {} => Newest(Merged(p)) \in Merged(p)
      BY <2>5, NewestMember, Zenon
    <3> QED BY <2>4, <3>1, <3>2, <3>3, Zenon
  <2>7. ASSUME NEW p \in Paths
        PROVE  MergedLatest(p)'
    BY <1>2, <2>1, <2>4, Zenon DEF OverlappedInv, OverlayInv, MergedLatest
  <2>8. byPath' = {} /\ stage' = "precommitted"
    BY <1>2, <2>1, Zenon
  <2> QED BY <1>3, <2>2, <2>6, <2>7, <2>8, Zenon DEF OverlayInv
<1>6. CASE Done("SyncCommit", "exec") /\ ExecCommit
  <2>1. /\ Pending("SyncCommit", "exec") /\ stage = "synced"
        /\ ~Pending("SyncPrecommit", "exec") /\ byPath = {}
        /\ setInBlock = {} /\ \A p \in BlockBound : ledger[p] = Nil
    BY <1>6, Zenon DEF Done, Pending, OverlappedInv, OverlayInv, GenerationInv
  <2>2. ~Pending("SyncPrecommit", "exec")' /\ ~Pending("SyncCommit", "exec")'
    BY <1>6, <2>1, Zenon DEF Done, Pending
  <2>3. execBuffer' = {} /\ localCells' = [p \in Paths |-> Nil]
    BY <1>6, Zenon DEF ExecCommit
  <2>4. \A p \in Paths : Merged(p)' = {}
    BY <2>3, Zenon DEF Merged, At
  <2>5. \A p \in Paths : MergedLatest(p)'
    BY <1>2, <2>1, <2>4, Zenon DEF MergedLatest
  <2> QED BY <1>2, <1>3, <2>1, <2>2, <2>3, <2>4, <2>5, Zenon DEF OverlayInv
<1>7. CASE ExecTask
  BY <1>3, <1>5, <1>6, <1>7, Zenon DEF ExecTask
<1>8. CASE LiveCacheTask
  BY <1>3, <1>4, <1>8, Zenon DEF LiveCacheTask
<1>9. CASE LiveStorageTask
  BY <1>3, <1>4, <1>9, Zenon DEF LiveStorageTask
<1>10. CASE EthTask
  BY <1>3, <1>4, <1>10, Zenon DEF EthTask
<1> QED BY <1>7, <1>8, <1>9, <1>10, Zenon DEF WriterTask

\* Every step keeps the indexes and the overlay, whichever calls overlap, as
\* long as nothing is imported or finalized while SyncPrecommit is under way.
LEMMA OverlappedStep ==
    ASSUME OverlappedInv,
           \/ CallImport /\ ~Pending("SyncPrecommit", "exec")
           \/ CallFinalize /\ ~Pending("SyncPrecommit", "exec")
           \/ SyncPrecommit \/ AsyncPrecommit
           \/ tasks = {} /\ SyncCommit
           \/ tasks = {} /\ AsyncCommit
           \/ WriterTask
           \/ UNCHANGED vars
    PROVE  OverlappedInv'
<1>1. CASE CallImport /\ ~Pending("SyncPrecommit", "exec")
  BY <1>1, TypeImport, GenerationImport, OverlayImport, Zenon DEF CallImport, OverlappedInv
<1>2. CASE CallFinalize /\ ~Pending("SyncPrecommit", "exec")
  BY <1>2, TypeFinalize, GenerationFinalize, OverlayFinalize, Zenon DEF CallFinalize, OverlappedInv
<1>3. CASE \/ SyncPrecommit \/ AsyncPrecommit
           \/ tasks = {} /\ SyncCommit
           \/ tasks = {} /\ AsyncCommit
  <2>1. TypeOK'
    BY <1>3, TypeCalls, Zenon DEF OverlappedInv
  <2> QED BY <1>3, <2>1, OverlayCalls, Zenon DEF OverlappedInv
<1>4. CASE WriterTask
  <2>1. TypeOK'
    BY <1>4, TypeExecTask, TypeLiveCacheTask, TypeLiveStorageTask, TypeEthTask, Zenon
       DEF OverlappedInv, WriterTask
  <2> QED BY <1>4, <2>1, OverlayTask, Zenon DEF OverlappedInv
<1>5. CASE UNCHANGED vars
  <2>1. TypeOK'
    BY <1>5, TypeStutter, Zenon DEF OverlappedInv
  <2>2. /\ UNCHANGED <<cells, execBuffer, localCells, byPath, byTxID>>
        /\ UNCHANGED <<ledger, setInBlock, stage, tasks>>
    BY <1>5, Zenon DEF vars, execVars, indexVars, callerVars, historyVars
  <2>3. OverlayInv'
    BY <2>2, OverlayFrame, Zenon DEF OverlappedInv, Pending
  <2> QED BY <2>1, <2>2, <2>3, GenerationFrame, Zenon DEF OverlappedInv
<1> QED BY <1>1, <1>2, <1>3, <1>4, <1>5, Zenon

\* Nothing is indexed and the overlay is empty at the start.
LEMMA OverlappedInit == Init => OverlappedInv
<1> SUFFICES ASSUME Init PROVE OverlappedInv
  BY Zenon
<1>1. GenerationInv
  BY Zenon DEF Init, GenerationInv
<1>2. \A p \in Paths : Merged(p) = {} /\ MergedLatest(p)
  BY BlockBoundAssumption, Zenon DEF Init, ExecInit, Merged, At, MergedLatest
<1>3. OverlayInv
  BY <1>2, Zenon DEF Init, ExecInit, OverlayInv, Pending
<1> QED BY <1>1, <1>3, TypeInit, Zenon DEF OverlappedInv

\* For every set of paths, transactions and whitelists and every overlap of the
\* asynchronous calls with later generations: when SyncPrecommit has returned,
\* the overlay has every path the block set, at its latest value.
THEOREM OverlayUpToDate == OverlappedSpec => []OverlayLatest
<1>1. Init => OverlappedInv
  BY OverlappedInit, Zenon
<1>2. OverlappedInv /\ [NextOverlapped \/ Finished]_vars => OverlappedInv'
  <2>1. Joined({"SyncPrecommit", "SyncCommit"}) => ~Pending("SyncPrecommit", "exec")
    BY Zenon DEF Joined, Pending
  <2> QED BY <2>1, OverlappedStep, Zenon DEF NextOverlapped, Finished
<1>3. OverlappedInv => OverlayLatest
  <2> SUFFICES ASSUME OverlappedInv, stage \in {"executing", "precommitted"},
                      Joined({"SyncPrecommit"}), NEW p \in Paths
               PROVE  IF localCells[p] = Nil THEN p \notin setInBlock
                      ELSE cells[localCells[p]].val = ledger[p]
    BY Zenon DEF OverlayLatest
  <2>1. ~Pending("SyncPrecommit", "exec")
    BY Zenon DEF Joined, Pending
  <2>2. /\ MergedLatest(p)
        /\ localCells[p] = Nil \/ localCells[p] \in Merged(p)
        /\ Merged(p) # {} => localCells[p] = Newest(Merged(p))
    BY <2>1, Zenon DEF OverlappedInv, OverlayInv
  <2>3. Merged(p) # {} => localCells[p] # Nil
    <3>1. Len(cells) \in Nat /\ Merged(p) \in SUBSET (1..Len(cells))
      BY HeapDomain, Zenon DEF OverlappedInv, TypeOK, ExecTypeOK, Merged, At
    <3>2. Merged(p) # {} => Newest(Merged(p)) \in 1..Len(cells)
      BY <3>1, NewestMember, Zenon
    <3> QED BY <2>2, <3>1, <3>2, NilAssumption
  <2> QED BY <2>2, <2>3, Zenon DEF MergedLatest
<1> QED BY <1>1, <1>2, <1>3, PTL DEF OverlappedSpec

-----------------------------------------------------------------------------
(* Nothing that a rejected transaction wrote becomes visible, and no cell  *)
(* filed for a commit is modified.                                         *)
(*                                                                         *)
(* RejectedNeverVisible is not inductive: Finalize rejects cells that the  *)
(* stores must not have taken yet, so the invariant has to say that no     *)
(* store holds anything of the current generation, that the transaction    *)
(* index has every cell that may be rejected, and that no writer runs      *)
(* while transitions are being imported.                                   *)

\* The accepted transitions of the generations finalized so far, and a value
\* that was made from no others.
Survivors == CellIds \ (rejected \cup byPath)

Clean(v) == Origins(v) \subseteq Survivors

\* The indexes hold the transitions of the current generation, each with the
\* value it was imported with; the transaction index those that may conflict.
IndexInv ==
    /\ byTxID = {i \in byPath : ~cells[i].skip}
    /\ \A i \in byPath : i \notin rejected /\ Origins(cells[i].val) \subseteq {i}

\* No writer has a task to run while transitions are being imported.
ScheduleInv ==
    /\ stage # "executing" => byPath = {}
    /\ tasks # {} \/ owed # 0 => stage # "executing"

\* A cell that survived its generation's Finalize carries a clean value.
HeapInv ==
    \A i \in CellIds \ byPath : cells[i].path = Nil \/ Clean(cells[i].val)

\* The overlay and the filed indexers only point to such cells.
PointerInv ==
    /\ \A p \in Paths : localCells[p] # Nil =>
           localCells[p] \notin byPath /\ cells[localCells[p]].path # Nil
    /\ lcFiled \cap byPath = {}

StoresInv ==
    /\ \A p \in Paths :
           Clean(liveCache[p]) /\ Clean(liveStorage[p]) /\ Clean(ethAccounts[p])
    /\ \A e \in lsFiled : Clean(e.val)

RejectionInv ==
    TypeOK /\ IndexInv /\ ScheduleInv /\ HeapInv /\ PointerInv /\ StoresInv

-----------------------------------------------------------------------------
\* Nothing is rejected and nothing is filed at the start.
LEMMA RejectionInit == Init => RejectionInv
<1> SUFFICES ASSUME Init PROVE RejectionInv
  BY Zenon
<1>1. TypeOK
  BY TypeInit, Zenon
<1>2. CellIds = {}
  BY DEF Init, CellIds
<1>3. IndexInv /\ ScheduleInv /\ HeapInv /\ PointerInv
  BY <1>2, Zenon DEF Init, ExecInit, LiveCacheInit, IndexInv, ScheduleInv, HeapInv, PointerInv
<1>4. StoresInv
  BY Zenon DEF Init, LiveCacheInit, LiveStorageInit, EthInit, EmptyAccounts, StoresInv, Clean, Origins
<1> QED BY <1>1, <1>3, <1>4, Zenon DEF RejectionInv

\* Import adds cells of the current generation only.
LEMMA RejectionImport ==
    ASSUME RejectionInv, NEW trans \in Batches, Import(trans), tasks = {}, owed = 0
    PROVE  RejectionInv'
<1> DEFINE n == Len(cells)
           new == (n + 1)..(n + Len(trans))
<1>1. TypeOK'
  BY TypeImport, Zenon DEF RejectionInv
<1>2. /\ cells \in Seq(StateCell) /\ cells' \in Seq(StateCell)
      /\ n \in Nat /\ Len(trans) \in Nat
      /\ Len(cells') = n + Len(trans)
      /\ \A i \in CellIds : cells'[i] = cells[i]
      /\ \A k \in 1..Len(trans) :
             trans[k] \in Transition /\ cells'[n + k] = NewCell(trans, k)
  BY ImportAppends DEF RejectionInv, TypeOK
<1>3. CellIds = 1..n /\ CellIds' = 1..(n + Len(trans))
  BY <1>2 DEF CellIds
<1>4. /\ byPath' = byPath \cup new
      /\ byTxID' = byTxID \cup {i \in new : ~trans[i - n].skip}
      /\ UNCHANGED <<rejected, tasks, owed, localCells, lcFiled, lsFiled,
                     liveCache, liveStorage, ethAccounts>>
      /\ stage' = "executing"
  BY Zenon DEF Import, ExecImport, LiveCacheImport, LiveStorageImport, EthImport, historyVars
<1> HIDE DEF n
<1>5. /\ CellIds' = CellIds \cup new /\ CellIds \cap new = {}
      /\ byPath \subseteq CellIds /\ rejected \subseteq CellIds /\ lcFiled \subseteq CellIds
      /\ localCells \in [Paths -> CellIds \cup {Nil}]
  <2>1. CellIds' = CellIds \cup new /\ CellIds \cap new = {}
    BY <1>2, <1>3
  <2> QED BY <2>1, Zenon DEF RejectionInv, TypeOK, ExecTypeOK, LiveCacheTypeOK
<1>6. ASSUME NEW i \in new
      PROVE  /\ cells'[i].skip = trans[i - n].skip
             /\ Origins(cells'[i].val) \subseteq {i}
  <2>1. i - n \in 1..Len(trans) /\ n + (i - n) = i
    BY <1>2
  <2>2. cells'[i] = NewCell(trans, i - n)
    BY <1>2, <2>1, Zenon
  <2>3. cells'[i].skip = trans[i - n].skip
    BY <2>2 DEF NewCell
  <2>4. cells'[i].val = IF trans[i - n].delete THEN Nil
                        ELSE [from |-> ResetContent(trans[i - n].path, {i}), last |-> i]
    BY <2>1, <2>2 DEF NewCell, n
  <2> QED BY <2>3, <2>4 DEF Origins, ResetContent
<1> HIDE DEF new
<1>7. Survivors' = Survivors
  BY <1>4, <1>5, Zenon DEF Survivors
<1>8. IndexInv'
  <2>1. byTxID = {i \in byPath : ~cells[i].skip}
    BY Zenon DEF RejectionInv, IndexInv
  <2>2. byTxID' = {i \in byPath' : ~cells'[i].skip}
    BY <2>1, <1>2, <1>4, <1>5, <1>6, Zenon
  <2>3. \A i \in byPath' : i \notin rejected' /\ Origins(cells'[i].val) \subseteq {i}
    BY <1>2, <1>4, <1>5, <1>6, Zenon DEF RejectionInv, IndexInv
  <2> QED BY <2>2, <2>3, Zenon DEF IndexInv, Origins
<1>9. ScheduleInv'
  BY <1>4, Zenon DEF ScheduleInv
<1>10. HeapInv'
  <2>1. CellIds' \ byPath' = CellIds \ byPath
    BY <1>4, <1>5, Zenon
  <2> QED BY <2>1, <1>2, <1>7, Zenon DEF RejectionInv, HeapInv, Clean, Origins
<1>11. PointerInv'
  BY <1>2, <1>4, <1>5, NilAssumption, Zenon DEF RejectionInv, PointerInv
<1>12. StoresInv'
  BY <1>4, <1>7, Zenon DEF RejectionInv, StoresInv, Clean, Origins
<1> QED BY <1>1, <1>8, <1>9, <1>10, <1>11, <1>12, Zenon DEF RejectionInv

\* What Finalize keeps of the generation is accepted: whitelist discards every
\* cell that is not listed, because the transaction index has them all.
LEMMA MergedAreAccepted ==
    ASSUME RejectionInv, NEW txs, NEW seq \in DeltaSequences(txs), NEW i \in seq
    PROVE  i \in byPath /\ Listed(i, txs)
<1>1. i \in byPath /\ i \notin Discarded(txs)
  BY Zenon DEF DeltaSequences, At
<1>2. i \in byTxID <=> ~cells[i].skip
  BY <1>1, Zenon DEF RejectionInv, IndexInv
<1> QED BY <1>1, <1>2, Zenon DEF Discarded, Listed

\* Finalize drops the cells of rejected transactions before any writer files them.
LEMMA RejectionFinalize ==
    ASSUME RejectionInv, NEW txs, Finalize(txs), tasks = {}, owed = 0
    PROVE  RejectionInv'
<1>1. TypeOK /\ TypeOK'
  BY TypeFinalize, Zenon DEF RejectionInv
<1>2. CellIds' = CellIds
  BY <1>1, FinalizedHeapType, Zenon DEF Finalize, CellIds
<1>3. /\ cells' = FinalizedCells(txs)
      /\ byPath' = {} /\ byTxID' = {} /\ stage' = "finalized"
      /\ rejected' = rejected \cup {i \in byPath : ~Listed(i, txs)}
      /\ UNCHANGED <<tasks, owed, localCells, lcFiled, lsFiled, liveCache,
                     liveStorage, ethAccounts>>
  BY Zenon DEF Finalize, RecordOutcome, execVars, lcVars, lsVars, ethVars
<1>4. Survivors \subseteq Survivors'
  BY <1>2, <1>3, Zenon DEF Survivors
<1>5. \A i \in CellIds \ byPath : cells'[i] = cells[i]
  BY <1>1, <1>3, FinalizedHeap, Zenon
<1>6. ASSUME NEW i \in byPath, cells'[i].path # Nil
      PROVE  Origins(cells'[i].val) \subseteq Survivors'
  <2>1. i \in CellIds /\ cells[i] \in StateCell
    BY <1>1, HeapDomain, Zenon DEF TypeOK
  <2>2. cells'[i] # [cells[i] EXCEPT !.path = Nil]
    BY <1>6, <2>1, Zenon DEF StateCell
  <2>3. PICK seq \in DeltaSequences(txs) :
            cells'[i] = [cells[i] EXCEPT !.val = ApplyDelta(seq)]
    BY <1>1, <1>3, <2>2, FinalizedHeap
  <2>4. cells'[i].val = ApplyDelta(seq)
    BY <2>1, <2>3, Zenon DEF StateCell
  <2>5. Origins(cells'[i].val) \subseteq MergedOrigins(seq)
    BY <2>4 DEF ApplyDelta, Origins
  <2>6. MergedOrigins(seq) \subseteq seq
    <3>1. \A j \in seq : Origins(cells[j].val) \subseteq {j}
      BY MergedAreAccepted, Zenon DEF RejectionInv, IndexInv
    <3> QED BY <3>1, Zenon DEF MergedOrigins
  <2>7. seq \subseteq Survivors'
    <3>1. ASSUME NEW j \in seq
          PROVE  j \in byPath /\ Listed(j, txs) /\ j \notin rejected /\ j \in CellIds
      BY <1>1, MergedAreAccepted, Zenon DEF RejectionInv, IndexInv, TypeOK
    <3> QED BY <1>2, <1>3, <3>1, Zenon DEF Survivors
  <2> QED BY <2>5, <2>6, <2>7, Zenon
<1>7. IndexInv' /\ ScheduleInv'
  BY <1>3, Zenon DEF IndexInv, ScheduleInv
<1>8. HeapInv'
  <2>1. ASSUME NEW i \in CellIds, cells'[i].path # Nil
        PROVE  Origins(cells'[i].val) \subseteq Survivors'
    <3>1. CASE i \in byPath
      BY <1>6, <2>1, <3>1, Zenon
    <3>2. CASE i \notin byPath
      BY <1>4, <1>5, <2>1, <3>2, Zenon DEF RejectionInv, HeapInv, Clean
    <3> QED BY <3>1, <3>2, Zenon
  <2> QED BY <1>2, <2>1, Zenon DEF HeapInv, Clean, Origins
<1>9. PointerInv'
  <2>1. \A p \in Paths : localCells[p] # Nil => localCells[p] \in CellIds \ byPath
    BY Zenon DEF RejectionInv, TypeOK, ExecTypeOK, PointerInv
  <2> QED BY <1>3, <1>5, <2>1, Zenon DEF RejectionInv, PointerInv
<1>10. StoresInv'
  BY <1>3, <1>4, Zenon DEF RejectionInv, StoresInv, Clean, Origins
<1> QED BY <1>1, <1>7, <1>8, <1>9, <1>10, Zenon DEF RejectionInv

\* The calls touch neither heap nor stores, and leave the stage "executing".
LEMMA RejectionCalls ==
    ASSUME RejectionInv, SyncPrecommit \/ AsyncPrecommit \/ SyncCommit \/ AsyncCommit
    PROVE  RejectionInv'
<1>1. TypeOK'
  BY TypeCalls, Zenon DEF RejectionInv
<1>2. /\ UNCHANGED <<cells, localCells, lcFiled, lsFiled, liveCache, liveStorage,
                     ethAccounts, byPath, byTxID, rejected>>
      /\ CellIds' = CellIds
  BY Zenon DEF SyncPrecommit, AsyncPrecommit, SyncCommit, AsyncCommit, Start, execVars,
         lcVars, lsVars, ethVars, indexVars, historyVars, CellIds
<1>3. byPath = {} /\ stage' # "executing"
  BY DEF RejectionInv, ScheduleInv, SyncPrecommit, AsyncPrecommit, SyncCommit,
         AsyncCommit, TypeOK
<1>4. ScheduleInv'
  BY <1>2, <1>3, Zenon DEF ScheduleInv
<1>5. Survivors' = Survivors
  BY <1>2, Zenon DEF Survivors
<1>6. IndexInv' /\ HeapInv' /\ PointerInv' /\ StoresInv'
  BY <1>2, <1>5, Zenon DEF RejectionInv, IndexInv, HeapInv, PointerInv, StoresInv, Clean,
                    Origins
<1> QED BY <1>1, <1>4, <1>6, Zenon DEF RejectionInv

\* A writer runs when no generation is being imported, so every cell that is
\* still attached is clean.
LEMMA TaskFrame ==
    ASSUME RejectionInv, WriterTask
    PROVE  /\ UNCHANGED <<cells, byPath, byTxID, rejected, stage, owed>>
           /\ CellIds' = CellIds /\ Survivors' = Survivors
           /\ byPath = {}
           /\ \A i \in Attached(CellIds) : Clean(cells[i].val)
           /\ IndexInv' /\ ScheduleInv' /\ HeapInv'
<1>1. PICK call, w : Done(call, w)
  BY Zenon DEF WriterTask, ExecTask, LiveCacheTask, LiveStorageTask, EthTask
<1>2. /\ UNCHANGED <<cells, byPath, byTxID, rejected, stage, owed>>
      /\ tasks # {} /\ tasks' \subseteq tasks
  BY <1>1, Zenon DEF Done, indexVars, historyVars
<1>3. CellIds' = CellIds /\ Survivors' = Survivors
  BY <1>2, Zenon DEF CellIds, Survivors
<1>4. byPath = {}
  BY <1>2, Zenon DEF RejectionInv, ScheduleInv
<1>5. \A i \in Attached(CellIds) : Clean(cells[i].val)
  BY <1>4, Zenon DEF RejectionInv, HeapInv, Attached
<1>6. IndexInv' /\ ScheduleInv' /\ HeapInv'
  BY <1>2, <1>3, Zenon DEF RejectionInv, IndexInv, ScheduleInv, HeapInv, Clean, Origins
<1> QED BY <1>2, <1>3, <1>4, <1>5, <1>6, Zenon

\* A task of a writer files and stores only cells that Finalize let through.
LEMMA RejectionTask ==
    ASSUME RejectionInv, WriterTask
    PROVE  RejectionInv'
<1>1. TypeOK /\ TypeOK'
  BY TypeExecTask, TypeLiveCacheTask, TypeLiveStorageTask, TypeEthTask, Zenon
     DEF RejectionInv, WriterTask
<1>2. byPath' = {} /\ lcFiled' \cap byPath' = {}
  BY TaskFrame, Zenon
<1>3. Clean(Nil)
  BY Zenon DEF Clean, Origins
<1>4. CASE ExecTask
  <2>1. ASSUME NEW p \in Paths, localCells'[p] # Nil
        PROVE  cells[localCells'[p]].path # Nil
    <3>1. CASE ExecPrecommit
      <4>1. localCells'[p] \in {localCells[p]} \cup Attached(execBuffer)
        BY <1>1, <3>1, ExecSource, Zenon
      <4> QED BY <2>1, <4>1, Zenon DEF RejectionInv, PointerInv, Attached
    <3>2. CASE ExecCommit
      BY <2>1, <3>2, Zenon DEF ExecCommit
    <3> QED BY <1>4, <3>1, <3>2, Zenon DEF ExecTask
  <2>2. PointerInv'
    BY <1>2, <2>1, TaskFrame, Zenon DEF PointerInv
  <2>3. StoresInv'
    BY <1>4, TaskFrame, Zenon DEF ExecTask, lcVars, lsVars, ethVars, RejectionInv, StoresInv,
                           Clean, Origins
  <2> QED BY <1>1, <2>2, <2>3, TaskFrame, Zenon DEF RejectionInv
<1>5. CASE LiveCacheTask
  <2>1. PointerInv'
    BY <1>2, <1>5, TaskFrame, Zenon DEF LiveCacheTask, execVars, RejectionInv, PointerInv
  <2>2. \A p \in Paths : Clean(liveCache'[p])
    <3>1. CASE LiveCacheCommit
      <4>1. \A i \in Attached(lcFiled) : Clean(cells[i].val)
        BY <1>1, TaskFrame, Zenon DEF Attached, TypeOK, LiveCacheTypeOK
      <4>2. \A p \in Paths : Clean(liveCache[p])
        BY Zenon DEF RejectionInv, StoresInv
      <4> QED BY <1>1, <1>3, <3>1, <4>1, <4>2, LiveCacheSource, Zenon
    <3>2. CASE liveCache' = liveCache
      BY <3>2, Zenon DEF RejectionInv, StoresInv
    <3> QED BY <1>5, <3>1, <3>2, Zenon DEF LiveCacheTask, LiveCacheSyncPrecommit,
                                    LiveCacheAsyncPrecommit
  <2>3. StoresInv'
    BY <1>5, <2>2, TaskFrame, Zenon DEF LiveCacheTask, lsVars, ethVars, RejectionInv,
                                 StoresInv, Clean, Origins
  <2> QED BY <1>1, <2>1, <2>3, TaskFrame, Zenon DEF RejectionInv
<1>6. CASE LiveStorageTask
  <2>1. PointerInv'
    BY <1>2, <1>6, TaskFrame, Zenon DEF LiveStorageTask, execVars, RejectionInv, PointerInv
  <2>2. \A p \in Paths : Clean(liveStorage'[p])
    <3>1. CASE LiveStorageCommit
      <4>1. /\ \A e \in lsFiled : Clean(e.val)
            /\ \A p \in Paths : Clean(liveStorage[p])
        BY Zenon DEF RejectionInv, StoresInv
      <4> QED BY <1>1, <1>3, <3>1, <4>1, LiveStorageSource, Zenon
    <3>2. CASE liveStorage' = liveStorage
      BY <3>2, Zenon DEF RejectionInv, StoresInv
    <3> QED BY <1>6, <3>1, <3>2, Zenon DEF LiveStorageTask, LiveStorageSyncPrecommit,
                                    LiveStorageAsyncPrecommit
  <2>3. \A e \in lsFiled' : Clean(e.val)
    <3>1. CASE LiveStorageAsyncPrecommit
      <4>1. \A i \in Attached(lsBuffer) : Clean(cells[i].val)
        BY <1>1, TaskFrame, Zenon DEF Attached, TypeOK, LiveStorageTypeOK
      <4> QED BY <3>1, <4>1 DEF LiveStorageAsyncPrecommit, EntryOf, RejectionInv, StoresInv
    <3>2. CASE lsFiled' \subseteq lsFiled
      BY <3>2, Zenon DEF RejectionInv, StoresInv
    <3> QED BY <1>6, <3>1, <3>2, Zenon DEF LiveStorageTask, LiveStorageSyncPrecommit,
                                    LiveStorageCommit
  <2>4. StoresInv'
    BY <1>6, <2>2, <2>3, TaskFrame, Zenon DEF LiveStorageTask, lcVars, ethVars,
                                       RejectionInv, StoresInv, Clean, Origins
  <2> QED BY <1>1, <2>1, <2>4, TaskFrame, Zenon DEF RejectionInv
<1>7. CASE EthTask
  <2>1. PointerInv'
    BY <1>2, <1>7, TaskFrame, Zenon DEF EthTask, execVars, RejectionInv, PointerInv
  <2>2. \A p \in Paths : Clean(ethAccounts'[p])
    <3>1. CASE EthPrecommit
      <4>1. \A p \in Paths : Clean(ethAccounts[p])
        BY Zenon DEF RejectionInv, StoresInv
      <4> QED BY <1>1, <3>1, <4>1, EthSource, TaskFrame, Zenon
    <3>2. CASE ethAccounts' = ethAccounts
      BY <3>2, Zenon DEF RejectionInv, StoresInv
    <3> QED BY <1>7, <3>1, <3>2, Zenon DEF EthTask, EthCommit
  <2>3. StoresInv'
    BY <1>7, <2>2, TaskFrame, Zenon DEF EthTask, lcVars, lsVars, RejectionInv, StoresInv,
                                 Clean, Origins
  <2> QED BY <1>1, <2>1, <2>3, TaskFrame, Zenon DEF RejectionInv
<1> QED BY <1>4, <1>5, <1>6, <1>7, Zenon DEF WriterTask

\* Every step keeps rejected values out of the writers.
LEMMA RejectionNext == RejectionInv /\ [Next \/ Finished]_vars => RejectionInv'
<1> SUFFICES ASSUME RejectionInv, [Next \/ Finished]_vars PROVE RejectionInv'
  BY Zenon
<1>1. CASE tasks = {} /\ owed = 0 /\ CallImport
  BY <1>1, RejectionImport, Zenon DEF CallImport
<1>2. CASE tasks = {} /\ owed = 0 /\ CallFinalize
  BY <1>2, RejectionFinalize, Zenon DEF CallFinalize
<1>3. CASE SyncPrecommit \/ AsyncPrecommit \/ SyncCommit \/ AsyncCommit
  BY <1>3, RejectionCalls, Zenon
<1>4. CASE WriterTask
  BY <1>4, RejectionTask, Zenon
<1>5. CASE UNCHANGED vars
  <2>1. TypeOK' /\ CellIds' = CellIds /\ Survivors' = Survivors
    BY <1>5, TypeStutter, Zenon DEF RejectionInv, vars, indexVars, historyVars, CellIds,
                             Survivors
  <2> QED BY <1>5, <2>1, Zenon
          DEF vars, execVars, lcVars, lsVars, ethVars, indexVars, callerVars,
              historyVars, RejectionInv, IndexInv, ScheduleInv, HeapInv, PointerInv,
              StoresInv, Clean, Origins
<1> QED BY <1>1, <1>2, <1>3, <1>4, <1>5, Zenon DEF Next, Finished

-----------------------------------------------------------------------------
\* For every set of paths and transactions and every whitelist given to
\* Finalize: no store ever holds a value merged from a cell whose transaction
\* the whitelist left out.
THEOREM NoRejectedValue == Spec => []RejectedNeverVisible
<1>1. Init => RejectionInv
  BY RejectionInit, Zenon
<1>2. RejectionInv /\ [Next \/ Finished]_vars => RejectionInv'
  BY RejectionNext, Zenon
<1>3. RejectionInv => RejectedNeverVisible
  <2> SUFFICES ASSUME RejectionInv, NEW p \in Paths
               PROVE  /\ localCells[p] # Nil =>
                             Origins(cells[localCells[p]].val) \cap rejected = {}
                      /\ Origins(liveCache[p]) \cap rejected = {}
                      /\ Origins(liveStorage[p]) \cap rejected = {}
                      /\ Origins(ethAccounts[p]) \cap rejected = {}
    BY Zenon DEF RejectedNeverVisible
  <2>1. localCells[p] # Nil => Clean(cells[localCells[p]].val)
    BY Zenon DEF RejectionInv, TypeOK, ExecTypeOK, PointerInv, HeapInv
  <2>2. Clean(liveCache[p]) /\ Clean(liveStorage[p]) /\ Clean(ethAccounts[p])
    BY Zenon DEF RejectionInv, StoresInv
  <2> QED BY <2>1, <2>2, Zenon DEF Clean, Survivors
<1> QED BY <1>1, <1>2, <1>3, PTL DEF Spec

\* No step of the committer or of a writer modifies a cell that is filed for
\* the block's commit, which dereferences its path.
THEOREM FiledFrozen == Spec => FiledCellsFrozen
<1>1. Init => RejectionInv
  BY RejectionInit, Zenon
<1>2. RejectionInv /\ [Next \/ Finished]_vars => RejectionInv'
  BY RejectionNext, Zenon
<1>3. RejectionInv /\ [Next \/ Finished]_vars =>
          [\A i \in lcFiled : cells'[i] = cells[i]]_vars
  <2> SUFFICES ASSUME RejectionInv, Next \/ Finished, NEW i \in lcFiled
               PROVE  cells'[i] = cells[i]
    BY Zenon
  <2>1. i \in CellIds \ byPath /\ TypeOK
    BY Zenon DEF RejectionInv, PointerInv, TypeOK, LiveCacheTypeOK
  <2>2. CASE CallImport
    BY <2>1, <2>2, ImportAppends, Zenon DEF CallImport, TypeOK
  <2>3. CASE CallFinalize
    BY <2>1, <2>3, FinalizedHeap, Zenon DEF CallFinalize, Finalize
  <2>4. CASE SyncPrecommit \/ AsyncPrecommit \/ SyncCommit \/ AsyncCommit
    BY <2>4, Zenon DEF SyncPrecommit, AsyncPrecommit, SyncCommit, AsyncCommit, Start
  <2>5. CASE WriterTask
    BY <2>5, TaskFrame, Zenon
  <2>6. CASE Finished
    BY <2>6, Zenon DEF Finished, vars
  <2> QED BY <2>2, <2>3, <2>4, <2>5, <2>6, Zenon DEF Next
<1> QED BY <1>1, <1>2, <1>3, PTL DEF Spec, FiledCellsFrozen

-----------------------------------------------------------------------------
(* The stores, under the sequential schedule *)

\* Which call is under way.
CallsInv ==
    /\ owed \in {0, 1}
    /\ owed = 1 => stage = "precommitted"
    /\ \A t \in tasks :
           \/ t[1] = "SyncPrecommit" /\ stage = "precommitted" /\ owed = 1
           \/ t[1] = "AsyncPrecommit" /\ stage = "precommitted" /\ owed = 0
           \/ t[1] = "SyncCommit" /\ stage = "synced"
           \/ t[1] = "AsyncCommit" /\ stage = "committed"

\* The writers of the live cache and of the storage, their buffers, and what
\* they have filed for the block's commit.
Persistent == {"livecache", "livestorage"}

ImportBuffer(w) == IF w = "livecache" THEN lcImport ELSE lsImport

Buffer(w) == IF w = "livecache" THEN lcBuffer ELSE lsBuffer

Filed(w) == IF w = "livecache" THEN {EntryOf(i) : i \in lcFiled} ELSE lsFiled

\* The import buffer has the persistent transitions of the current generation
\* until they are moved to the buffer; after Finalize one for each path.
BuffersOf(w) ==
    /\ \A i \in byPath : cells[i].path \notin BlockBound => i \in ImportBuffer(w)
    /\ stage = "executing" => ImportBuffer(w) \subseteq byPath
    /\ \A i \in ImportBuffer(w) \cup Buffer(w) : cells[i].path \notin BlockBound
    /\ ImportBuffer(w) # {} =>
           stage \in {"executing", "finalized"} \/ Pending("SyncPrecommit", w)
    /\ Buffer(w) # {} => /\ stage = "precommitted"
                         /\ ~Pending("SyncPrecommit", w)
                         /\ owed = 1 \/ Pending("AsyncPrecommit", w)
    /\ \A i, j \in Attached((ImportBuffer(w) \ byPath) \cup Buffer(w)) :
           cells[i].path = cells[j].path => i = j

BuffersInv == \A w \in Persistent : BuffersOf(w)

\* What the writer will have filed once the calls under way have returned.
Entries(w) ==
    Filed(w) \cup {EntryOf(i) : i \in Attached((ImportBuffer(w) \ byPath) \cup Buffer(w))}

\* They are the cells as they are, and until the block is committed the same
\* for both writers and all in the overlay's buffer.
EntriesInv ==
    /\ \A w \in Persistent : \A e \in Entries(w) :
           /\ e.id \in CellIds \ byPath
           /\ e = EntryOf(e.id)
           /\ e.key \in Paths \ BlockBound
    /\ stage \notin {"synced", "committed"} =>
           /\ Entries("livecache") = Entries("livestorage")
           /\ \A w \in Persistent : \A e \in Entries(w) :
                  e.id \in execBuffer /\ (e.val # Nil => e.key \in setInBlock)
    /\ stage \in {"synced", "committed"} =>
           Pending("SyncCommit", "livecache") \/ Entries("livecache") = {}
    /\ stage = "committed" =>
           Pending("AsyncCommit", "livestorage") \/ Entries("livestorage") = {}

\* Where the writes of the generations of the block are.
FlowInv == OverlappedInv /\ CallsInv /\ BuffersInv /\ EntriesInv

\* What the stores hold once those entries are committed: the latest values,
\* except that the storage may be behind at the stale paths, if the block does
\* not write them.
StoresUpTo(stale) ==
    /\ \A p \in BlockBound : liveCache[p] = Nil /\ liveStorage[p] = Nil
    /\ \A p \in (Paths \ BlockBound) \ setThenDeleted :
           /\ \/ DeleteThenSet(liveStorage, Entries("livestorage"))[p] = ledger[p]
              \/ p \in stale /\ \A e \in Entries("livestorage") : e.key # p
           /\ DeleteThenSet(liveCache, Entries("livecache"))[p] \in {Nil, ledger[p]}

-----------------------------------------------------------------------------
(* What a batch leaves in a store *)

\* The entries of a batch for one path.
EntriesAt(E, p) == {e \in E : e.key = p}

\* Only the entries of the path matter.
LEMMA BatchAt ==
    ASSUME NEW store, NEW E, NEW F, NEW p \in Paths, EntriesAt(E, p) = EntriesAt(F, p)
    PROVE  DeleteThenSet(store, E)[p] = DeleteThenSet(store, F)[p]
<1> DEFINE sets(B) == {e \in B : e.key = p /\ e.val # Nil}
           latest(B) == CHOOSE e \in sets(B) : \A f \in sets(B) : f.id <= e.id
<1>1. \A B : DeleteThenSet(store, B)[p] =
          IF sets(B) # {} THEN latest(B).val
          ELSE IF \E e \in B : e.key = p THEN Nil ELSE store[p]
  BY Zenon DEF DeleteThenSet
<1>2. sets(E) = sets(F) /\ ((\E e \in E : e.key = p) <=> (\E e \in F : e.key = p))
  BY Zenon DEF EntriesAt
<1>3. latest(E) = latest(F)
  BY <1>2, Zenon
<1> HIDE DEF sets, latest
<1> QED BY <1>1, <1>2, <1>3, Zenon

\* A path without an entry keeps its value.
LEMMA BatchNone ==
    ASSUME NEW store, NEW E, NEW p \in Paths, \A e \in E : e.key # p
    PROVE  DeleteThenSet(store, E)[p] = store[p]
BY Zenon DEF DeleteThenSet

\* Nor does an empty batch change anything.
LEMMA BatchEmpty ==
    ASSUME NEW store, NEW p \in Paths
    PROVE  DeleteThenSet(store, {})[p] = store[p]
BY BatchNone, Zenon

\* A path with deletions only is deleted.
LEMMA BatchDeleted ==
    ASSUME NEW store, NEW E, NEW p \in Paths, \E e \in E : e.key = p,
           \A e \in E : e.key = p => e.val = Nil
    PROVE  DeleteThenSet(store, E)[p] = Nil
<1>1. {e \in E : e.key = p /\ e.val # Nil} = {}
  BY Zenon
<1> QED BY <1>1, Zenon DEF DeleteThenSet

\* A value that is newer than the other entries of its path is what is left.
LEMMA BatchNewest ==
    ASSUME NEW store, NEW E, NEW p \in Paths, NEW n \in E, n.key = p, n.val # Nil,
           n.id \in Nat, \A e \in E : e.key = p => e = n \/ (e.id \in Nat /\ e.id < n.id)
    PROVE  DeleteThenSet(store, E)[p] = n.val
<1> DEFINE sets == {e \in E : e.key = p /\ e.val # Nil}
           latest == CHOOSE e \in sets : \A f \in sets : f.id <= e.id
<1>1. n \in sets /\ \A f \in sets : f = n \/ (f.id \in Nat /\ f.id < n.id)
  BY Zenon
<1>2. DeleteThenSet(store, E)[p] = latest.val
  BY <1>1, Zenon DEF DeleteThenSet
<1> HIDE DEF sets
<1>3. \A f \in sets : f.id <= n.id
  BY <1>1
<1>4. latest \in sets /\ n.id <= latest.id
  BY <1>1, <1>3, Zenon
<1> HIDE DEF latest
<1>5. latest = n
  BY <1>1, <1>4
<1> QED BY <1>2, <1>5, Zenon

-----------------------------------------------------------------------------
(* The stores, under the sequential schedule: the caller's calls *)

\* Between two calls the writers have no more than the transitions imported.
LEMMA BetweenCalls ==
    ASSUME FlowInv, tasks = {}, owed = 0,
           stage \in {"executing", "precommitted", "committed"}
    PROVE  /\ \A w \in Persistent :
                 /\ ImportBuffer(w) = {i \in byPath : cells[i].path \notin BlockBound}
                 /\ Buffer(w) = {}
                 /\ Entries(w) = Filed(w)
                 /\ \A e \in Entries(w) :
                        e.id \in execBuffer /\ (e.val # Nil => e.key \in setInBlock)
           /\ Entries("livecache") = Entries("livestorage")
<1>1. \A c, w : ~Pending(c, w)
  BY Zenon DEF Pending
<1>2. stage # "executing" => byPath = {}
  BY Zenon DEF FlowInv, OverlappedInv, GenerationInv
<1>3. ASSUME NEW w \in Persistent
      PROVE  /\ ImportBuffer(w) = {i \in byPath : cells[i].path \notin BlockBound}
             /\ Buffer(w) = {}
  <2>1. Buffer(w) = {}
    <3>1. ~Pending("AsyncPrecommit", w)
      BY <1>1, Zenon
    <3>2. Buffer(w) # {} => owed = 1 \/ Pending("AsyncPrecommit", w)
      BY Zenon DEF FlowInv, BuffersInv, BuffersOf
    <3> QED BY <3>1, <3>2
  <2>2. ImportBuffer(w) \subseteq byPath
    <3>1. /\ stage = "executing" => ImportBuffer(w) \subseteq byPath
          /\ ImportBuffer(w) # {} =>
                 stage \in {"executing", "finalized"} \/ Pending("SyncPrecommit", w)
      BY Zenon DEF FlowInv, BuffersInv, BuffersOf
    <3> QED BY <1>1, <3>1, Zenon
  <2>3. /\ \A i \in byPath : cells[i].path \notin BlockBound => i \in ImportBuffer(w)
        /\ \A i \in ImportBuffer(w) : cells[i].path \notin BlockBound
    BY Zenon DEF FlowInv, BuffersInv, BuffersOf
  <2> QED BY <2>1, <2>2, <2>3, Zenon
<1>4. ASSUME NEW w \in Persistent
      PROVE  Entries(w) = Filed(w)
  <2>1. Attached((ImportBuffer(w) \ byPath) \cup Buffer(w)) = {}
    BY <1>3, Zenon DEF Attached
  <2> QED BY <2>1, Zenon DEF Entries
<1>5. CASE stage = "committed"
  <2>1. \A w \in Persistent : Entries(w) = {}
    BY <1>1, <1>5, Zenon DEF FlowInv, EntriesInv, Persistent
  <2> QED BY <1>3, <1>4, <2>1, Zenon DEF Persistent
<1>6. CASE stage # "committed"
  <2>1. /\ Entries("livecache") = Entries("livestorage")
        /\ \A w \in Persistent : \A e \in Entries(w) :
               e.id \in execBuffer /\ (e.val # Nil => e.key \in setInBlock)
    BY <1>6, Zenon DEF FlowInv, EntriesInv
  <2> QED BY <1>3, <1>4, <2>1, Zenon
<1> QED BY <1>5, <1>6, Zenon

\* Steps that change neither the stores nor what will be filed.
LEMMA StoresFrame ==
    ASSUME NEW stale, StoresUpTo(stale),
           UNCHANGED <<liveCache, liveStorage, setThenDeleted>>,
           \A p \in Paths \ BlockBound : ledger'[p] = ledger[p],
           \A w \in Persistent : Entries(w)' = Entries(w)
    PROVE  StoresUpTo(stale)'
<1>1. Entries("livecache")' = Entries("livecache") /\ Entries("livestorage")' = Entries("livestorage")
  BY Zenon DEF Persistent
<1> QED BY <1>1, Zenon DEF StoresUpTo

\* Import adds the persistent transitions to the import buffers, and nothing to
\* what the writers have filed.
LEMMA ImportedBuffers ==
    ASSUME FlowInv, tasks = {}, owed = 0, NEW trans \in Batches, Import(trans),
           NEW w \in Persistent
    PROVE  /\ ImportBuffer(w)' = {i \in byPath' : cells'[i].path \notin BlockBound}
           /\ Buffer(w)' = {}
           /\ Entries(w)' = Entries(w)
<1> DEFINE new == NewIds(trans)
           persistent == {i \in new : cells'[i].path \notin BlockBound}
<1>1. /\ CellIds' = CellIds \cup new /\ CellIds \cap new = {}
      /\ \A i \in CellIds : cells'[i] = cells[i]
  BY ImportedCells, Zenon DEF FlowInv, OverlappedInv
<1>2. /\ byPath' = byPath \cup new /\ execBuffer' = execBuffer \cup new
      /\ lcImport' = lcImport \cup persistent /\ lsImport' = lsImport \cup persistent
      /\ stage' = "executing"
      /\ UNCHANGED <<lcBuffer, lcFiled, liveCache, lsBuffer, lsFiled, liveStorage,
                     ledger, setInBlock, setThenDeleted>>
  BY ImportedVars, Zenon DEF FlowInv, OverlappedInv
<1>3. stage \in {"executing", "precommitted", "committed"}
  BY Zenon DEF Import
<1>4. byPath \subseteq CellIds /\ lcFiled \subseteq CellIds
  BY Zenon DEF FlowInv, OverlappedInv, TypeOK, LiveCacheTypeOK
<1> HIDE DEF new
<1>5. /\ ImportBuffer(w) = {i \in byPath : cells[i].path \notin BlockBound}
      /\ Buffer(w) = {} /\ Entries(w) = Filed(w)
  BY <1>3, BetweenCalls, Zenon
<1>6. ImportBuffer(w)' = ImportBuffer(w) \cup persistent /\ Buffer(w)' = Buffer(w)
  BY <1>2, Zenon DEF ImportBuffer, Buffer
<1>7. ImportBuffer(w)' = {i \in byPath' : cells'[i].path \notin BlockBound}
  BY <1>1, <1>2, <1>4, <1>5, <1>6, Zenon
<1>8. Filed(w)' = Filed(w)
  BY <1>1, <1>2, <1>4, Zenon DEF Filed, EntryOf
<1>9. (ImportBuffer(w)' \ byPath') \cup Buffer(w)' = {}
  BY <1>5, <1>6, <1>7, Zenon
<1>10. Entries(w)' = Filed(w)'
  BY <1>9, Zenon DEF Entries, Attached
<1> QED BY <1>5, <1>6, <1>7, <1>8, <1>10, Zenon

\* The stores and the flow after Import.
LEMMA StoresImport ==
    ASSUME FlowInv, NEW stale, StoresUpTo(stale), tasks = {}, owed = 0,
           NEW trans \in Batches, Import(trans)
    PROVE  BuffersInv' /\ EntriesInv' /\ StoresUpTo(stale)'
<1> DEFINE new == NewIds(trans)
<1>1. /\ CellIds' = CellIds \cup new /\ CellIds \cap new = {}
      /\ \A i \in CellIds : cells'[i] = cells[i]
  BY ImportedCells, Zenon DEF FlowInv, OverlappedInv
<1>2. /\ byPath' = byPath \cup new /\ execBuffer' = execBuffer \cup new
      /\ stage' = "executing"
      /\ UNCHANGED <<liveCache, liveStorage, ledger, setInBlock, setThenDeleted>>
  BY ImportedVars, Zenon DEF FlowInv, OverlappedInv
<1>3. stage \in {"executing", "precommitted", "committed"}
  BY Zenon DEF Import
<1> HIDE DEF new
<1>4. \A w \in Persistent :
          /\ ImportBuffer(w)' = {i \in byPath' : cells'[i].path \notin BlockBound}
          /\ Buffer(w)' = {}
          /\ Entries(w)' = Entries(w)
  BY ImportedBuffers, Zenon
<1>5. BuffersInv'
  <2> SUFFICES ASSUME NEW w \in Persistent
               PROVE  /\ \A i \in byPath' : cells'[i].path \notin BlockBound =>
                             i \in ImportBuffer(w)'
                      /\ ImportBuffer(w)' \subseteq byPath'
                      /\ \A i \in ImportBuffer(w)' : cells'[i].path \notin BlockBound
                      /\ Buffer(w)' = {}
    BY <1>2, Zenon DEF BuffersInv, BuffersOf, Attached
  <2> QED BY <1>4, Zenon
<1>6. EntriesInv'
  <2>1. ASSUME NEW w \in Persistent, NEW e \in Entries(w)'
        PROVE  /\ e.id \in CellIds' \ byPath' /\ e = EntryOf(e.id)'
               /\ e.key \in Paths \ BlockBound
               /\ e.id \in execBuffer' /\ (e.val # Nil => e.key \in setInBlock')
    <3>1. e \in Entries(w)
      BY <1>4, <2>1, Zenon
    <3>2. /\ e.id \in CellIds \ byPath /\ e = EntryOf(e.id)
          /\ e.key \in Paths \ BlockBound
      BY <3>1, Zenon DEF FlowInv, EntriesInv
    <3>3. e.id \in execBuffer /\ (e.val # Nil => e.key \in setInBlock)
      BY <1>3, <3>1, BetweenCalls, Zenon
    <3> QED BY <1>1, <1>2, <3>2, <3>3, Zenon DEF EntryOf
  <2>2. Entries("livecache")' = Entries("livestorage")'
    BY <1>3, <1>4, BetweenCalls, Zenon DEF Persistent
  <2> QED BY <1>2, <2>1, <2>2, Zenon DEF EntriesInv
<1>7. StoresUpTo(stale)'
  BY <1>2, <1>4, StoresFrame, Zenon
<1> QED BY <1>5, <1>6, <1>7, Zenon

\* What Finalize adds to the entries of a writer: the cells it leaves of the
\* generation, as they are then.
LEMMA FinalizedEntries ==
    ASSUME FlowInv, tasks = {}, owed = 0, NEW txs, Finalize(txs), NEW w \in Persistent
    PROVE  LET left == {i \in byPath : cells'[i].path \in Paths \ BlockBound}
           IN  /\ Attached((ImportBuffer(w) \ byPath) \cup Buffer(w))' = left
               /\ Entries(w)' = Entries(w) \cup {EntryOf(i)' : i \in left}
<1> DEFINE left == {i \in byPath : cells'[i].path \in Paths \ BlockBound}
<1>1. /\ \A i \in CellIds \ byPath : cells'[i] = cells[i]
      /\ byPath' = {} /\ stage \in {"executing", "precommitted", "committed"}
      /\ UNCHANGED <<lcImport, lcBuffer, lcFiled, lsImport, lsBuffer, lsFiled>>
  BY FinalizedVars, Zenon DEF FlowInv, OverlappedInv
<1>2. /\ ImportBuffer(w) = {i \in byPath : cells[i].path \notin BlockBound}
      /\ Buffer(w) = {} /\ Entries(w) = Filed(w)
  BY <1>1, BetweenCalls, Zenon
<1>3. ImportBuffer(w)' = ImportBuffer(w) /\ Buffer(w)' = Buffer(w)
  BY <1>1, Zenon DEF ImportBuffer, Buffer
<1>4. ASSUME NEW i \in byPath
      PROVE  cells[i].path \in Paths /\ cells'[i].path \in {cells[i].path, Nil}
  BY FinalizedPathOf, Zenon DEF FlowInv, OverlappedInv, GenerationInv
<1>5. Nil \notin Paths
  BY NilAssumption, Zenon
<1>6. Attached((ImportBuffer(w) \ byPath) \cup Buffer(w))' = left
  <2>1. (ImportBuffer(w)' \ byPath') \cup Buffer(w)' = ImportBuffer(w)
    BY <1>1, <1>2, <1>3, Zenon
  <2>2. Attached((ImportBuffer(w) \ byPath) \cup Buffer(w))' =
            {i \in ImportBuffer(w) : cells'[i].path # Nil}
    BY <2>1, Zenon DEF Attached
  <2>3. ASSUME NEW i
        PROVE  i \in ImportBuffer(w) /\ cells'[i].path # Nil <=> i \in left
    BY <1>2, <1>4, <1>5, Zenon
  <2> HIDE DEF left
  <2> QED BY <2>2, <2>3, Zenon
<1>7. Filed(w)' = Filed(w)
  <2>1. CASE w = "livecache"
    <3>1. \A i \in lcFiled : EntryOf(i) \in Entries(w)
      BY <1>2, <2>1, Zenon DEF Filed
    <3>2. \A i \in lcFiled : EntryOf(i).id \in CellIds \ byPath
      BY <3>1, Zenon DEF FlowInv, EntriesInv
    <3>3. \A i \in lcFiled : EntryOf(i)' = EntryOf(i)
      BY <1>1, <3>2, Zenon DEF EntryOf
    <3> QED BY <1>1, <2>1, <3>3, Zenon DEF Filed
  <2>2. CASE w # "livecache"
    BY <1>1, <2>2, Zenon DEF Filed
  <2> QED BY <2>1, <2>2, Zenon
<1> HIDE DEF left
<1>8. Entries(w)' = Filed(w)' \cup {EntryOf(i)' : i \in left}
  BY <1>6, Zenon DEF Entries
<1> QED BY <1>2, <1>6, <1>7, <1>8, Zenon DEF left

\* What Finalize leaves of a path is newer than the entries there are, and the
\* latest value, so it is what the commit will leave, unless it deletes what
\* an earlier generation of the block set.
LEMMA FinalizedBatch ==
    ASSUME FlowInv, tasks = {}, owed = 0, NEW txs, Finalize(txs), NEW w \in Persistent,
           NEW store, NEW p \in (Paths \ BlockBound) \ setThenDeleted'
    PROVE  \/ /\ DeleteThenSet(store, Entries(w)')[p] = DeleteThenSet(store, Entries(w))[p]
              /\ ledger'[p] = ledger[p] /\ p \notin setThenDeleted
              /\ (\A e \in Entries(w) : e.key # p) => \A e \in Entries(w)' : e.key # p
           \/ DeleteThenSet(store, Entries(w)')[p] = ledger'[p]
<1> DEFINE left == {i \in byPath : cells'[i].path \in Paths \ BlockBound}
<1>1. Entries(w)' = Entries(w) \cup {EntryOf(i)' : i \in left}
  BY FinalizedEntries, Zenon
<1>2. ASSUME NEW e \in Entries(w)
      PROVE  /\ e.id \in CellIds \ byPath
             /\ e.val # Nil => e.key \in setInBlock
  <2>1. stage \in {"executing", "precommitted", "committed"}
    BY Zenon DEF Finalize
  <2>2. e.val # Nil => e.key \in setInBlock
    BY <2>1, BetweenCalls, Zenon
  <2> QED BY <2>2, Zenon DEF FlowInv, EntriesInv
<1>3. \A i : EntryOf(i)'.id = i /\ EntryOf(i)'.key = cells'[i].path
             /\ EntryOf(i)'.val = cells'[i].val
  BY Zenon DEF EntryOf
<1>4. CASE /\ \A i \in byPath : cells'[i].path # p
           /\ ledger'[p] = ledger[p]
           /\ p \in setThenDeleted' <=> p \in setThenDeleted
  <2>1. \A i \in left : EntryOf(i)'.key # p
    BY <1>3, <1>4, Zenon
  <2>2. \A e \in Entries(w)' : e.key = p => e \in Entries(w)
    BY <1>1, <2>1, Zenon
  <2>3. \A e \in Entries(w) : e \in Entries(w)'
    BY <1>1, Zenon
  <2>4. DeleteThenSet(store, Entries(w)')[p] = DeleteThenSet(store, Entries(w))[p]
    <3> DEFINE after == Entries(w)'
               before == Entries(w)
    <3>1. EntriesAt(after, p) = EntriesAt(before, p)
      BY <2>2, <2>3, Zenon DEF EntriesAt
    <3> HIDE DEF after, before
    <3>2. DeleteThenSet(store, after)[p] = DeleteThenSet(store, before)[p]
      BY <3>1, BatchAt
    <3> QED BY <3>2, Zenon DEF after, before
  <2> QED BY <1>4, <2>2, <2>4, Zenon
<1>5. ASSUME NEW b \in byPath, cells'[b].path = p, cells'[b].val = ledger'[p],
             \A i \in byPath : cells'[i].path = p => i = b,
             p \in setThenDeleted' <=> p \in setInBlock /\ ledger'[p] = Nil
      PROVE  DeleteThenSet(store, Entries(w)')[p] = ledger'[p]
  <2> DEFINE n == EntryOf(b)'
  <2>1. n \in Entries(w)' /\ n.id = b /\ n.key = p /\ n.val = ledger'[p]
    BY <1>1, <1>3, <1>5, Zenon
  <2> HIDE DEF n
  <2>2. ASSUME NEW e \in Entries(w)', e.key = p
        PROVE  e = n \/ e \in Entries(w)
    <3>1. CASE e \notin Entries(w)
      <4>1. PICK i \in left : e = EntryOf(i)'
        BY <1>1, <3>1, Zenon
      <4>2. i = b
        BY <1>3, <1>5, <2>2, <4>1, Zenon
      <4> QED BY <4>1, <4>2, Zenon DEF n
    <3> QED BY <3>1, Zenon
  <2>3. CASE ledger'[p] = Nil
    <3>1. p \notin setInBlock
      BY <1>5, <2>3, Zenon
    <3>2. \A e \in Entries(w)' : e.key = p => e.val = Nil
      BY <1>2, <2>1, <2>2, <2>3, <3>1, Zenon
    <3> QED BY <2>1, <2>3, <3>2, BatchDeleted, Zenon
  <2>4. CASE ledger'[p] # Nil
    <3>1. Len(cells) \in Nat /\ CellIds = 1..Len(cells) /\ byPath \subseteq CellIds
      BY HeapDomain, Zenon DEF FlowInv, OverlappedInv, TypeOK
    <3>2. ASSUME NEW e \in Entries(w)
          PROVE  e.id \in Nat /\ e.id < b
      <4>1. e.id \in CellIds \ byPath
        BY <1>2, Zenon
      <4>2. e.id < b
        BY <4>1, Zenon DEF FlowInv, OverlappedInv, GenerationInv
      <4> QED BY <3>1, <4>1, <4>2
    <3>3. b \in Nat
      BY <3>1
    <3>4. \A e \in Entries(w)' : e.key = p => e = n \/ (e.id \in Nat /\ e.id < n.id)
      BY <2>1, <2>2, <3>2, Zenon
    <3> DEFINE after == Entries(w)'
    <3>5. /\ n \in after /\ n.key = p /\ n.val # Nil /\ n.id \in Nat
          /\ \A e \in after : e.key = p => e = n \/ (e.id \in Nat /\ e.id < n.id)
      BY <2>1, <2>4, <3>3, <3>4, Zenon
    <3> HIDE DEF after
    <3>6. DeleteThenSet(store, after)[p] = n.val
      BY <3>5, BatchNewest
    <3> QED BY <2>1, <3>6, Zenon DEF after
  <2> QED BY <2>3, <2>4, Zenon
<1> QED BY <1>4, <1>5, FinalizedPath, Zenon DEF FlowInv, OverlappedInv

\* Finalize adds the latest values to what will be filed.
LEMMA StoresFinalize ==
    ASSUME FlowInv, NEW stale, StoresUpTo(stale), tasks = {}, owed = 0,
           NEW txs, Finalize(txs)
    PROVE  BuffersInv' /\ EntriesInv' /\ StoresUpTo(stale)'
<1> DEFINE left == {i \in byPath : cells'[i].path \in Paths \ BlockBound}
<1>1. /\ CellIds' = CellIds /\ \A i \in CellIds \ byPath : cells'[i] = cells[i]
      /\ byPath' = {} /\ stage' = "finalized"
      /\ stage \in {"executing", "precommitted", "committed"}
      /\ UNCHANGED <<execBuffer, lcImport, lcBuffer, lsImport, lsBuffer, liveCache,
                     liveStorage, tasks, owed>>
  BY FinalizedVars, Zenon DEF FlowInv, OverlappedInv
<1>2. ASSUME NEW w \in Persistent
      PROVE  /\ Attached((ImportBuffer(w) \ byPath) \cup Buffer(w))' = left
             /\ Entries(w)' = Entries(w) \cup {EntryOf(i)' : i \in left}
  BY FinalizedEntries, Zenon
<1>3. ASSUME NEW i \in left
      PROVE  /\ \A j \in left : cells'[i].path = cells'[j].path => i = j
             /\ cells'[i].val # Nil => cells'[i].path \in setInBlock'
  <2> DEFINE p == cells'[i].path
  <2>1. p \in Paths /\ i \in byPath
    BY Zenon
  <2> HIDE DEF p
  <2>2. PICK b \in byPath :
            /\ cells'[b].val = ledger'[p]
            /\ \A j \in byPath : cells'[j].path = p => j = b
            /\ p \in setInBlock' <=> p \in setInBlock \/ ledger'[p] # Nil
    BY <2>1, FinalizedPath, Zenon DEF FlowInv, OverlappedInv, p
  <2> QED BY <2>1, <2>2, Zenon DEF p
<1>4. BuffersInv'
  <2> SUFFICES ASSUME NEW w \in Persistent
               PROVE  /\ \A i \in ImportBuffer(w)' : cells'[i].path \notin BlockBound
                      /\ Buffer(w)' = {}
                      /\ \A i, j \in Attached((ImportBuffer(w) \ byPath) \cup Buffer(w))' :
                             cells'[i].path = cells'[j].path => i = j
    BY <1>1, Zenon DEF BuffersInv, BuffersOf
  <2>1. /\ ImportBuffer(w) = {i \in byPath : cells[i].path \notin BlockBound}
        /\ Buffer(w) = {}
    BY <1>1, BetweenCalls, Zenon
  <2>2. ImportBuffer(w)' = ImportBuffer(w) /\ Buffer(w)' = Buffer(w)
    BY <1>1, Zenon DEF ImportBuffer, Buffer
  <2>3. \A i \in byPath : cells'[i].path \in {cells[i].path, Nil}
    BY FinalizedPathOf, Zenon DEF FlowInv, OverlappedInv
  <2>4. Nil \notin BlockBound
    BY NilAssumption, BlockBoundAssumption, Zenon
  <2> QED BY <1>2, <1>3, <2>1, <2>2, <2>3, <2>4, Zenon
<1>5. EntriesInv'
  <2>1. byPath \subseteq CellIds /\ byPath \subseteq execBuffer
    BY Zenon DEF FlowInv, OverlappedInv, TypeOK, OverlayInv
  <2>2. ASSUME NEW p \in Paths
        PROVE  p \in setInBlock => p \in setInBlock'
    BY FinalizedPath, Zenon DEF FlowInv, OverlappedInv
  <2>3. ASSUME NEW w \in Persistent, NEW e \in Entries(w)'
        PROVE  /\ e.id \in CellIds' \ byPath' /\ e = EntryOf(e.id)'
               /\ e.key \in Paths \ BlockBound
               /\ e.id \in execBuffer' /\ (e.val # Nil => e.key \in setInBlock')
    <3>1. CASE e \in Entries(w)
      <4>1. /\ e.id \in CellIds \ byPath /\ e = EntryOf(e.id)
            /\ e.key \in Paths \ BlockBound
        BY <3>1, Zenon DEF FlowInv, EntriesInv
      <4>2. e.id \in execBuffer /\ (e.val # Nil => e.key \in setInBlock)
        BY <1>1, <3>1, BetweenCalls, Zenon
      <4> QED BY <1>1, <2>2, <4>1, <4>2, Zenon DEF EntryOf
    <3>2. CASE e \notin Entries(w)
      <4>1. PICK i \in left : e = EntryOf(i)'
        BY <1>2, <2>3, <3>2, Zenon
      <4>2. e.id = i /\ e.key = cells'[i].path /\ e.val = cells'[i].val
        BY <4>1, Zenon DEF EntryOf
      <4> QED BY <1>1, <1>3, <2>1, <4>1, <4>2, Zenon
    <3> QED BY <3>1, <3>2, Zenon
  <2>4. Entries("livecache")' = Entries("livestorage")'
    BY <1>1, <1>2, BetweenCalls, Zenon DEF Persistent
  <2> QED BY <1>1, <2>3, <2>4, Zenon DEF EntriesInv
<1>6. StoresUpTo(stale)'
  <2>1. ASSUME NEW p \in (Paths \ BlockBound) \ setThenDeleted'
        PROVE  \/ DeleteThenSet(liveStorage, Entries("livestorage")')[p] = ledger'[p]
               \/ p \in stale /\ \A e \in Entries("livestorage")' : e.key # p
    <3>1. p \notin setThenDeleted =>
              \/ DeleteThenSet(liveStorage, Entries("livestorage"))[p] = ledger[p]
              \/ p \in stale /\ \A e \in Entries("livestorage") : e.key # p
      BY Zenon DEF StoresUpTo
    <3>2. "livestorage" \in Persistent
      BY Zenon DEF Persistent
    <3> QED BY <3>1, <3>2, FinalizedBatch, Zenon
  <2>2. ASSUME NEW p \in (Paths \ BlockBound) \ setThenDeleted'
        PROVE  DeleteThenSet(liveCache, Entries("livecache")')[p] \in {Nil, ledger'[p]}
    <3>1. p \notin setThenDeleted =>
              DeleteThenSet(liveCache, Entries("livecache"))[p] \in {Nil, ledger[p]}
      BY Zenon DEF StoresUpTo
    <3>2. "livecache" \in Persistent
      BY Zenon DEF Persistent
    <3>3. \/ /\ DeleteThenSet(liveCache, Entries("livecache")')[p] =
                    DeleteThenSet(liveCache, Entries("livecache"))[p]
             /\ ledger'[p] = ledger[p] /\ p \notin setThenDeleted
          \/ DeleteThenSet(liveCache, Entries("livecache")')[p] = ledger'[p]
      BY <3>2, FinalizedBatch, Zenon
    <3> QED BY <3>1, <3>3, Zenon
  <2>3. \A p \in BlockBound : liveCache'[p] = Nil /\ liveStorage'[p] = Nil
    BY <1>1, Zenon DEF StoresUpTo
  <2> QED BY <1>1, <2>1, <2>2, <2>3, Zenon DEF StoresUpTo
<1> QED BY <1>4, <1>5, <1>6, Zenon

-----------------------------------------------------------------------------
(* The steps that start and run the writers *)

\* Each call waits for the one before, so the tasks are those of one call.
LEMMA CallsStep ==
    ASSUME TypeOK, CallsInv, Next \/ UNCHANGED vars
    PROVE  CallsInv'
<1>1. \A call, writers : \A t \in Tasks(call, writers) : t[1] = call
  BY DEF Tasks
<1>2. CASE tasks = {} /\ owed = 0 /\ (CallImport \/ CallFinalize)
  <2>1. tasks' = tasks /\ owed' = owed
    BY <1>2, Zenon DEF CallImport, Import, CallFinalize, Finalize
  <2> QED BY <1>2, <2>1 DEF CallsInv
<1>3. CASE tasks = {} /\ owed = 0 /\ SyncPrecommit
  <2>1. /\ tasks' = tasks \cup Tasks("SyncPrecommit", SyncPrecommitWriters)
        /\ stage' = "precommitted" /\ owed' = owed + 1
    BY <1>3, Zenon DEF SyncPrecommit, Start
  <2>2. owed' = 1 /\ \A t \in tasks' : t[1] = "SyncPrecommit"
    BY <1>1, <1>3, <2>1
  <2> QED BY <2>1, <2>2, Zenon DEF CallsInv
<1>4. CASE tasks = {} /\ AsyncPrecommit
  <2>1. /\ tasks' = tasks \cup Tasks("AsyncPrecommit", AsyncPrecommitWriters)
        /\ stage' = stage /\ owed > 0 /\ owed' = owed - 1
    BY <1>4, Zenon DEF AsyncPrecommit, Start
  <2>2. owed \in {0, 1} /\ (owed = 1 => stage = "precommitted")
    BY Zenon DEF CallsInv
  <2>3. owed' = 0 /\ stage' = "precommitted"
    BY <2>1, <2>2
  <2>4. \A t \in tasks' : t[1] = "AsyncPrecommit"
    BY <1>1, <1>4, <2>1, Zenon
  <2> QED BY <2>3, <2>4, Zenon DEF CallsInv
<1>5. CASE tasks = {} /\ owed = 0 /\ SyncCommit
  <2>1. /\ tasks' = tasks \cup Tasks("SyncCommit", SyncWriters)
        /\ stage' = "synced" /\ owed' = owed
    BY <1>5, Zenon DEF SyncCommit, Start
  <2>2. \A t \in tasks' : t[1] = "SyncCommit"
    BY <1>1, <1>5, <2>1, Zenon
  <2> QED BY <1>5, <2>1, <2>2 DEF CallsInv
<1>6. CASE tasks = {} /\ AsyncCommit
  <2>1. /\ tasks' = tasks \cup Tasks("AsyncCommit", AsyncWriters)
        /\ stage = "synced" /\ stage' = "committed" /\ owed' = owed
    BY <1>6, Zenon DEF AsyncCommit, Start
  <2>2. owed = 0
    BY <2>1, Zenon DEF CallsInv
  <2>3. \A t \in tasks' : t[1] = "AsyncCommit"
    BY <1>1, <1>6, <2>1, Zenon
  <2> QED BY <2>1, <2>2, <2>3, Zenon DEF CallsInv
<1>7. CASE WriterTask
  <2>1. PICK c, w : Done(c, w)
    BY <1>7, Zenon DEF WriterTask, ExecTask, LiveCacheTask, LiveStorageTask, EthTask
  <2> QED BY <2>1, Zenon DEF Done, CallsInv
<1>8. CASE UNCHANGED vars
  BY <1>8, Zenon DEF vars, callerVars, CallsInv
<1> QED BY <1>2, <1>3, <1>4, <1>5, <1>6, <1>7, <1>8, Zenon DEF Next

\* Entries that stay the same.
LEMMA EntriesKept ==
    ASSUME UNCHANGED <<cells, byPath>>, NEW w \in Persistent,
           ImportBuffer(w)' = ImportBuffer(w), Buffer(w)' = Buffer(w),
           lcFiled' = lcFiled \/ w = "livestorage", lsFiled' = lsFiled \/ w = "livecache"
    PROVE  Entries(w)' = Entries(w)
<1>1. \A i : EntryOf(i)' = EntryOf(i)
  BY Zenon DEF EntryOf
<1>2. Filed(w)' = Filed(w)
  BY <1>1, Zenon DEF Filed, Persistent
<1> DEFINE left == Attached((ImportBuffer(w) \ byPath) \cup Buffer(w))
<1>3. left' = left
  BY Zenon DEF Attached
<1>4. Entries(w) = Filed(w) \cup {EntryOf(i) : i \in left}
  BY Zenon DEF Entries
<1>5. Entries(w)' = Filed(w)' \cup {EntryOf(i)' : i \in left'}
  BY Zenon DEF Entries
<1> HIDE DEF left
<1> QED BY <1>1, <1>2, <1>3, <1>4, <1>5, Zenon

\* What a call that starts tasks finds and leaves: no task of an earlier call,
\* nothing being imported, and every buffer as it was.
LEMMA CallStarts ==
    ASSUME FlowInv, tasks = {},
           \/ owed = 0 /\ SyncPrecommit
           \/ AsyncPrecommit
           \/ owed = 0 /\ SyncCommit
           \/ AsyncCommit
    PROVE  /\ UNCHANGED <<cells, byPath, execBuffer, lcImport, lcBuffer, lcFiled, liveCache>>
           /\ UNCHANGED <<lsImport, lsBuffer, lsFiled, liveStorage>>
           /\ UNCHANGED <<ethIndex, ethAccounts, worldTrie, setThenDeleted>>
           /\ stage # "executing" /\ byPath = {}
           /\ \A c, w : ~Pending(c, w)
           /\ \A p \in Paths \ BlockBound : ledger'[p] = ledger[p]
           /\ \/ /\ stage = "finalized" /\ stage' = "precommitted" /\ owed' = 1
                 /\ UNCHANGED setInBlock
                 /\ tasks' = Tasks("SyncPrecommit", SyncPrecommitWriters)
              \/ /\ stage = "precommitted" /\ stage' = "precommitted" /\ owed = 1 /\ owed' = 0
                 /\ UNCHANGED setInBlock
                 /\ tasks' = Tasks("AsyncPrecommit", AsyncPrecommitWriters)
              \/ /\ stage = "precommitted" /\ stage' = "synced" /\ owed = 0
                 /\ tasks' = Tasks("SyncCommit", SyncWriters)
              \/ /\ stage = "synced" /\ stage' = "committed"
                 /\ UNCHANGED setInBlock
                 /\ tasks' = Tasks("AsyncCommit", AsyncWriters)
<1>1. /\ UNCHANGED <<cells, byPath, execBuffer, lcImport, lcBuffer, lcFiled, liveCache>>
      /\ UNCHANGED <<lsImport, lsBuffer, lsFiled, liveStorage>>
      /\ UNCHANGED <<ethIndex, ethAccounts, worldTrie, setThenDeleted>>
  BY Zenon DEF SyncPrecommit, AsyncPrecommit, SyncCommit, AsyncCommit, Start, execVars, lcVars,
         lsVars, ethVars, indexVars, historyVars
<1>2. owed \in {0, 1} /\ (owed = 1 => stage = "precommitted")
  BY Zenon DEF FlowInv, CallsInv
<1>3. \A c, w : ~Pending(c, w)
  BY Zenon DEF Pending
<1>4. stage # "executing" => byPath = {}
  BY Zenon DEF FlowInv, OverlappedInv, GenerationInv
<1>5. CASE owed = 0 /\ SyncPrecommit
  <2>1. /\ stage = "finalized" /\ stage' = "precommitted" /\ owed' = owed + 1
        /\ tasks' = tasks \cup Tasks("SyncPrecommit", SyncPrecommitWriters)
        /\ UNCHANGED <<ledger, setInBlock>>
    BY <1>5, Zenon DEF SyncPrecommit, Start, historyVars
  <2>2. owed' = 1
    BY <1>5, <2>1
  <2> QED BY <1>1, <1>3, <1>4, <2>1, <2>2, Zenon
<1>6. CASE AsyncPrecommit
  <2>1. /\ owed > 0 /\ owed' = owed - 1 /\ stage' = stage
        /\ tasks' = tasks \cup Tasks("AsyncPrecommit", AsyncPrecommitWriters)
        /\ UNCHANGED <<ledger, setInBlock>>
    BY <1>6, Zenon DEF AsyncPrecommit, Start, historyVars
  <2>2. owed = 1 /\ owed' = 0
    BY <1>2, <2>1
  <2> QED BY <1>1, <1>2, <1>3, <1>4, <2>1, <2>2, Zenon
<1>7. CASE owed = 0 /\ SyncCommit
  <2>1. /\ stage = "precommitted" /\ stage' = "synced" /\ owed = 0
        /\ tasks' = tasks \cup Tasks("SyncCommit", SyncWriters)
        /\ \A p \in Paths \ BlockBound : ledger'[p] = ledger[p]
    BY <1>7, Zenon DEF SyncCommit, Start
  <2> QED BY <1>1, <1>3, <1>4, <2>1, Zenon
<1>8. CASE AsyncCommit
  <2>1. /\ stage = "synced" /\ stage' = "committed"
        /\ tasks' = tasks \cup Tasks("AsyncCommit", AsyncWriters)
        /\ UNCHANGED <<ledger, setInBlock>>
    BY <1>8, Zenon DEF AsyncCommit, Start, historyVars
  <2> QED BY <1>1, <1>3, <1>4, <2>1, Zenon
<1> QED BY <1>5, <1>6, <1>7, <1>8, Zenon

\* The calls start the tasks; what the writers have to do becomes pending.
LEMMA StoresCalls ==
    ASSUME FlowInv, NEW stale, StoresUpTo(stale), tasks = {},
           \/ owed = 0 /\ SyncPrecommit
           \/ AsyncPrecommit
           \/ owed = 0 /\ SyncCommit
           \/ AsyncCommit
    PROVE  BuffersInv' /\ EntriesInv' /\ StoresUpTo(stale)'
<1>1. /\ UNCHANGED <<cells, byPath, execBuffer, lcImport, lcBuffer, lcFiled, liveCache>>
      /\ UNCHANGED <<lsImport, lsBuffer, lsFiled, liveStorage>>
      /\ UNCHANGED setThenDeleted
      /\ stage # "executing" /\ byPath = {}
      /\ \A c, w : ~Pending(c, w)
      /\ \A p \in Paths \ BlockBound : ledger'[p] = ledger[p]
  BY CallStarts, Zenon
<1>2. \A w \in Persistent : ImportBuffer(w)' = ImportBuffer(w) /\ Buffer(w)' = Buffer(w)
  BY <1>1, Zenon DEF ImportBuffer, Buffer
<1>3. \A w \in Persistent : Entries(w)' = Entries(w)
  BY <1>1, <1>2, EntriesKept, Zenon
<1>4. Entries("livecache")' = Entries("livecache") /\ Entries("livestorage")' = Entries("livestorage")
  BY <1>3, Zenon DEF Persistent
<1>5. CellIds' = CellIds /\ \A i : EntryOf(i)' = EntryOf(i)
  BY <1>1, Zenon DEF CellIds, EntryOf
<1>6. StoresUpTo(stale)'
  BY <1>1, <1>3, StoresFrame, Zenon
<1>7. ASSUME NEW w \in Persistent
      PROVE  /\ BuffersOf(w)
             /\ ImportBuffer(w) # {} => stage = "finalized"
             /\ Buffer(w) # {} => stage = "precommitted" /\ owed = 1
  <2>1. ~Pending("SyncPrecommit", w) /\ ~Pending("AsyncPrecommit", w)
    BY <1>1, Zenon
  <2>2. BuffersOf(w)
    BY Zenon DEF FlowInv, BuffersInv
  <2>3. /\ ImportBuffer(w) # {} =>
               stage \in {"executing", "finalized"} \/ Pending("SyncPrecommit", w)
        /\ Buffer(w) # {} =>
               stage = "precommitted" /\ (owed = 1 \/ Pending("AsyncPrecommit", w))
    BY <2>2, Zenon DEF BuffersOf
  <2> QED BY <1>1, <2>1, <2>2, <2>3, Zenon
<1>8. ASSUME NEW w \in Persistent,
             ImportBuffer(w) # {} => Pending("SyncPrecommit", w)',
             Buffer(w) # {} => /\ stage' = "precommitted"
                               /\ ~Pending("SyncPrecommit", w)'
                               /\ owed' = 1 \/ Pending("AsyncPrecommit", w)',
             stage' # "executing"
      PROVE  BuffersOf(w)'
  <2> DEFINE left == Attached((ImportBuffer(w) \ byPath) \cup Buffer(w))
  <2>1. /\ \A i \in ImportBuffer(w) \cup Buffer(w) : cells[i].path \notin BlockBound
        /\ \A i, j \in left : cells[i].path = cells[j].path => i = j
    BY <1>7, Zenon DEF BuffersOf
  <2>2. left' = left
    BY <1>1, <1>2, Zenon DEF Attached
  <2> HIDE DEF left
  <2>3. \A i, j \in left' : cells'[i].path = cells'[j].path => i = j
    BY <1>1, <2>1, <2>2, Zenon
  <2>4. \A i \in ImportBuffer(w)' \cup Buffer(w)' : cells'[i].path \notin BlockBound
    BY <1>1, <1>2, <2>1, Zenon
  <2> QED BY <1>1, <1>2, <1>8, <2>3, <2>4, Zenon DEF BuffersOf, left
<1>9. CASE /\ stage = "finalized" /\ stage' = "precommitted" /\ UNCHANGED setInBlock
           /\ tasks' = Tasks("SyncPrecommit", SyncPrecommitWriters)
  <2>1. \A w \in Persistent : Pending("SyncPrecommit", w)'
    BY <1>9, Zenon DEF Pending, Tasks, SyncPrecommitWriters, Persistent
  <2>2. BuffersInv'
    BY <1>7, <1>8, <1>9, <2>1, Zenon DEF BuffersInv
  <2>3. EntriesInv'
    BY <1>1, <1>3, <1>4, <1>5, <1>9, Zenon DEF FlowInv, EntriesInv
  <2> QED BY <1>6, <2>2, <2>3, Zenon
<1>10. CASE /\ stage = "precommitted" /\ stage' = "precommitted" /\ UNCHANGED setInBlock
            /\ tasks' = Tasks("AsyncPrecommit", AsyncPrecommitWriters)
  <2>1. \A w \in Persistent : Pending("AsyncPrecommit", w)' /\ ~Pending("SyncPrecommit", w)'
    BY <1>10, Zenon DEF Pending, Tasks, AsyncPrecommitWriters, Persistent
  <2>2. BuffersInv'
    BY <1>7, <1>8, <1>10, <2>1, Zenon DEF BuffersInv
  <2>3. EntriesInv'
    BY <1>1, <1>3, <1>4, <1>5, <1>10, Zenon DEF FlowInv, EntriesInv
  <2> QED BY <1>6, <2>2, <2>3, Zenon
<1>11. ASSUME stage' \in {"synced", "committed"},
              \A w \in Persistent : ImportBuffer(w) = {} /\ Buffer(w) = {}
       PROVE  BuffersInv'
  BY <1>8, <1>11, Zenon DEF BuffersInv
<1>12. CASE /\ stage = "precommitted" /\ stage' = "synced" /\ owed = 0
            /\ tasks' = Tasks("SyncCommit", SyncWriters)
  <2>1. Pending("SyncCommit", "livecache")'
    BY <1>12, Zenon DEF Pending, Tasks, SyncWriters
  <2>2. BuffersInv'
    BY <1>7, <1>11, <1>12
  <2>3. EntriesInv'
    BY <1>1, <1>3, <1>5, <1>12, <2>1, Zenon DEF FlowInv, EntriesInv
  <2> QED BY <1>6, <2>2, <2>3, Zenon
<1>13. CASE /\ stage = "synced" /\ stage' = "committed" /\ UNCHANGED setInBlock
            /\ tasks' = Tasks("AsyncCommit", AsyncWriters)
  <2>1. Pending("AsyncCommit", "livestorage")'
    BY <1>13, Zenon DEF Pending, Tasks, AsyncWriters
  <2>2. BuffersInv'
    BY <1>7, <1>11, <1>13, Zenon
  <2>3. Entries("livecache") = {}
    BY <1>1, <1>13, Zenon DEF FlowInv, EntriesInv
  <2>4. EntriesInv'
    BY <1>1, <1>3, <1>4, <1>5, <1>13, <2>1, <2>3, Zenon DEF FlowInv, EntriesInv
  <2> QED BY <1>6, <2>2, <2>4, Zenon
<1> QED BY <1>9, <1>10, <1>12, <1>13, CallStarts, Zenon

\* A task changes nothing but its writer and itself, and no generation is
\* being imported while it runs.
LEMMA TaskOf ==
    ASSUME FlowInv, NEW c, NEW u, Done(c, u)
    PROVE  /\ byPath = {} /\ CellIds' = CellIds /\ \A i : EntryOf(i)' = EntryOf(i)
           /\ UNCHANGED <<cells, byPath, stage, owed, ledger, setInBlock, setThenDeleted>>
           /\ Pending(c, u)
           /\ \A d, v : Pending(d, v)' <=> Pending(d, v) /\ <<d, v>> # <<c, u>>
           /\ c = "SyncPrecommit" => stage = "precommitted" /\ owed = 1
           /\ c = "AsyncPrecommit" => stage = "precommitted" /\ owed = 0
           /\ c = "SyncCommit" => stage = "synced"
           /\ c = "AsyncCommit" => stage = "committed"
<1>1. /\ <<c, u>> \in tasks /\ tasks' = tasks \ {<<c, u>>}
      /\ UNCHANGED <<cells, byPath, stage, owed, ledger, setInBlock, setThenDeleted>>
  BY Zenon DEF Done, indexVars, historyVars
<1>2. /\ \/ c = "SyncPrecommit" /\ stage = "precommitted" /\ owed = 1
         \/ c = "AsyncPrecommit" /\ stage = "precommitted" /\ owed = 0
         \/ c = "SyncCommit" /\ stage = "synced"
         \/ c = "AsyncCommit" /\ stage = "committed"
  BY <1>1, Zenon DEF FlowInv, CallsInv
<1>3. byPath = {}
  BY <1>2, Zenon DEF FlowInv, OverlappedInv, GenerationInv
<1>4. CellIds' = CellIds /\ \A i : EntryOf(i)' = EntryOf(i)
  BY <1>1, Zenon DEF CellIds, EntryOf
<1>5. \A d, v : Pending(d, v)' <=> Pending(d, v) /\ <<d, v>> # <<c, u>>
  BY <1>1, Zenon DEF Pending
<1> QED BY <1>1, <1>2, <1>3, <1>4, <1>5, Zenon DEF Pending

\* The buffers of the other writer, or of both, are as before.
LEMMA BuffersKept ==
    ASSUME FlowInv, UNCHANGED <<cells, byPath, stage, owed>>, NEW w \in Persistent,
           ImportBuffer(w)' = ImportBuffer(w), Buffer(w)' = Buffer(w),
           Pending("SyncPrecommit", w)' <=> Pending("SyncPrecommit", w),
           Pending("AsyncPrecommit", w)' <=> Pending("AsyncPrecommit", w)
    PROVE  BuffersOf(w)'
<1>1. BuffersOf(w)
  BY Zenon DEF FlowInv, BuffersInv
<1> QED BY <1>1, Zenon DEF BuffersOf, Attached

\* The entries of both writers are as before, and in the overlay's buffer.
LEMMA EntriesFrame ==
    ASSUME FlowInv, UNCHANGED <<cells, byPath, stage, setInBlock>>,
           \A w \in Persistent : Entries(w)' = Entries(w),
           stage \notin {"synced", "committed"} => Attached(execBuffer) \subseteq execBuffer',
           Pending("SyncCommit", "livecache")' <=> Pending("SyncCommit", "livecache"),
           Pending("AsyncCommit", "livestorage")' <=> Pending("AsyncCommit", "livestorage")
    PROVE  EntriesInv'
<1>1. CellIds' = CellIds /\ \A i : EntryOf(i)' = EntryOf(i)
  BY Zenon DEF CellIds, EntryOf
<1>2. Entries("livecache")' = Entries("livecache") /\ Entries("livestorage")' = Entries("livestorage")
  BY Zenon DEF Persistent
<1>3. ASSUME NEW w \in Persistent, NEW e \in Entries(w), e.id \in execBuffer
      PROVE  e.id \in Attached(execBuffer)
  <2>1. e = EntryOf(e.id) /\ e.key \in Paths
    BY Zenon DEF FlowInv, EntriesInv
  <2>2. cells[e.id].path # Nil
    BY <2>1, NilAssumption DEF EntryOf
  <2> QED BY <1>3, <2>2, Zenon DEF Attached
<1> QED BY <1>1, <1>2, <1>3, Zenon DEF FlowInv, EntriesInv

\* The tasks of the overlay leave the stores alone.
LEMMA StoresExecTask ==
    ASSUME FlowInv, NEW stale, StoresUpTo(stale), ExecTask
    PROVE  BuffersInv' /\ EntriesInv' /\ StoresUpTo(stale)'
<1>1. /\ UNCHANGED <<lcImport, lcBuffer, lcFiled, liveCache>>
      /\ UNCHANGED <<lsImport, lsBuffer, lsFiled, liveStorage>>
  BY Zenon DEF ExecTask, lcVars, lsVars
<1>2. ASSUME NEW c, Done(c, "exec"),
             stage \notin {"synced", "committed"} => Attached(execBuffer) \subseteq execBuffer'
      PROVE  BuffersInv' /\ EntriesInv' /\ StoresUpTo(stale)'
  <2>1. /\ UNCHANGED <<cells, byPath, stage, owed, ledger, setInBlock, setThenDeleted>>
        /\ \A d, v : Pending(d, v)' <=> Pending(d, v) /\ <<d, v>> # <<c, "exec">>
    BY <1>2, TaskOf, Zenon
  <2>2. \A w \in Persistent : ImportBuffer(w)' = ImportBuffer(w) /\ Buffer(w)' = Buffer(w)
    BY <1>1, Zenon DEF ImportBuffer, Buffer
  <2>3. \A w \in Persistent : Entries(w)' = Entries(w)
    BY <1>1, <2>1, <2>2, EntriesKept, Zenon
  <2>4. ASSUME NEW d, NEW v, v # "exec"
        PROVE  Pending(d, v)' <=> Pending(d, v)
    BY <2>1, <2>4, Zenon
  <2>5. BuffersInv'
    <3> SUFFICES ASSUME NEW w \in Persistent PROVE BuffersOf(w)'
      BY Zenon DEF BuffersInv
    <3>1. /\ Pending("SyncPrecommit", w)' <=> Pending("SyncPrecommit", w)
          /\ Pending("AsyncPrecommit", w)' <=> Pending("AsyncPrecommit", w)
      BY <2>4, Zenon DEF Persistent
    <3> QED BY <2>1, <2>2, <3>1, BuffersKept, Zenon
  <2>6. EntriesInv'
    BY <1>2, <2>1, <2>3, <2>4, EntriesFrame, Zenon
  <2>7. StoresUpTo(stale)'
    BY <1>1, <2>1, <2>3, StoresFrame, Zenon
  <2> QED BY <2>5, <2>6, <2>7, Zenon
<1>3. CASE Done("SyncPrecommit", "exec") /\ ExecPrecommit
  BY <1>2, <1>3, Zenon DEF ExecPrecommit
<1>4. CASE Done("SyncCommit", "exec") /\ ExecCommit
  <2>1. stage = "synced"
    BY <1>4, TaskOf, Zenon
  <2> QED BY <1>2, <1>4, <2>1, Zenon
<1> QED BY <1>3, <1>4, Zenon DEF ExecTask

\* A task that moves the cells of writer u on from one of its buffers leaves
\* what u will have filed, and the other writer, as they are.
LEMMA MoveTask ==
    ASSUME FlowInv, NEW stale, StoresUpTo(stale),
           NEW u \in Persistent, NEW c \in {"SyncPrecommit", "AsyncPrecommit"},
           Done(c, u), BuffersOf(u)', Entries(u)' = Entries(u),
           u = "livecache" => UNCHANGED <<lsImport, lsBuffer, lsFiled>>,
           u = "livestorage" => UNCHANGED <<lcImport, lcBuffer, lcFiled>>,
           UNCHANGED <<execBuffer, liveCache, liveStorage>>
    PROVE  BuffersInv' /\ EntriesInv' /\ StoresUpTo(stale)'
<1>1. /\ UNCHANGED <<cells, byPath, stage, owed, ledger, setInBlock, setThenDeleted>>
      /\ \A d, v : Pending(d, v)' <=> Pending(d, v) /\ <<d, v>> # <<c, u>>
  BY TaskOf, Zenon
<1>2. ASSUME NEW w \in Persistent, w # u
      PROVE  BuffersOf(w)' /\ Entries(w)' = Entries(w)
  <2>1. /\ ImportBuffer(w)' = ImportBuffer(w) /\ Buffer(w)' = Buffer(w)
    BY <1>2, Zenon DEF ImportBuffer, Buffer, Persistent
  <2>2. /\ Pending("SyncPrecommit", w)' <=> Pending("SyncPrecommit", w)
        /\ Pending("AsyncPrecommit", w)' <=> Pending("AsyncPrecommit", w)
    BY <1>1, <1>2, Zenon
  <2>3. /\ lcFiled' = lcFiled \/ w = "livestorage"
        /\ lsFiled' = lsFiled \/ w = "livecache"
    BY <1>2, Zenon DEF Persistent
  <2> QED BY <1>1, <2>1, <2>2, <2>3, BuffersKept, EntriesKept, Zenon
<1>3. BuffersInv' /\ \A w \in Persistent : Entries(w)' = Entries(w)
  BY <1>2, Zenon DEF BuffersInv
<1>4. /\ Pending("SyncCommit", "livecache")' <=> Pending("SyncCommit", "livecache")
      /\ Pending("AsyncCommit", "livestorage")' <=> Pending("AsyncCommit", "livestorage")
  BY <1>1, Zenon DEF Persistent
<1>5. EntriesInv'
  <2>1. Attached(execBuffer) \subseteq execBuffer'
    BY Zenon DEF Attached
  <2> QED BY <1>1, <1>3, <1>4, <2>1, EntriesFrame, Zenon
<1>6. StoresUpTo(stale)'
  BY <1>1, <1>3, StoresFrame, Zenon
<1> QED BY <1>3, <1>5, <1>6, Zenon

\* SyncPrecommit moves the import buffer on.
LEMMA MoveToBuffer ==
    ASSUME FlowInv, NEW u \in Persistent, Done("SyncPrecommit", u),
           Buffer(u)' = ImportBuffer(u), ImportBuffer(u)' = {}, Filed(u)' = Filed(u)
    PROVE  BuffersOf(u)' /\ Entries(u)' = Entries(u)
<1>1. /\ byPath = {} /\ UNCHANGED <<cells, byPath, stage, owed>>
      /\ \A i : EntryOf(i)' = EntryOf(i)
      /\ Pending("SyncPrecommit", u) /\ ~Pending("SyncPrecommit", u)'
      /\ stage = "precommitted" /\ owed = 1
  BY TaskOf, Zenon
<1>2. BuffersOf(u)
  BY Zenon DEF FlowInv, BuffersInv
<1>3. Buffer(u) = {}
  BY <1>1, <1>2, Zenon DEF BuffersOf
<1> DEFINE left == Attached((ImportBuffer(u) \ byPath) \cup Buffer(u))
<1>4. left = Attached(ImportBuffer(u))
  BY <1>1, <1>3, Zenon DEF Attached
<1>5. left' = left
  BY <1>1, <1>4, Zenon DEF Attached
<1>6. BuffersOf(u)'
  <2>1. \A i \in ImportBuffer(u) : cells[i].path \notin BlockBound
    BY <1>2, Zenon DEF BuffersOf
  <2>3. \A i, j \in left : cells[i].path = cells[j].path => i = j
    BY <1>2, Zenon DEF BuffersOf
  <2> HIDE DEF left
  <2>2. \A i, j \in left' : cells'[i].path = cells'[j].path => i = j
    BY <1>1, <1>5, <2>3, Zenon
  <2> USE DEF left
  <2> QED BY <1>1, <2>1, <2>2, Zenon DEF BuffersOf
<1>7. Entries(u) = Filed(u) \cup {EntryOf(i) : i \in left}
  BY Zenon DEF Entries
<1>8. Entries(u)' = Filed(u)' \cup {EntryOf(i)' : i \in left'}
  BY Zenon DEF Entries
<1> HIDE DEF left
<1> QED BY <1>1, <1>5, <1>6, <1>7, <1>8, Zenon

\* AsyncPrecommit files the attached cells of the buffer.
LEMMA MoveToFiled ==
    ASSUME FlowInv, NEW u \in Persistent, Done("AsyncPrecommit", u),
           Buffer(u)' = {}, ImportBuffer(u)' = {},
           Filed(u)' = Filed(u) \cup {EntryOf(i) : i \in Attached(Buffer(u))}
    PROVE  BuffersOf(u)' /\ Entries(u)' = Entries(u)
<1>1. /\ byPath = {} /\ UNCHANGED <<cells, byPath, stage, owed>>
      /\ stage = "precommitted" /\ owed = 0
  BY TaskOf, Zenon
<1>2. ~Pending("SyncPrecommit", u)
  BY <1>1 DEF FlowInv, CallsInv, Pending
<1>3. ImportBuffer(u) = {}
  <2>1. BuffersOf(u)
    BY Zenon DEF FlowInv, BuffersInv
  <2>2. ImportBuffer(u) # {} =>
            stage \in {"executing", "finalized"} \/ Pending("SyncPrecommit", u)
    BY <2>1, Zenon DEF BuffersOf
  <2> QED BY <1>1, <1>2, <2>2, Zenon
<1>4. Attached((ImportBuffer(u) \ byPath) \cup Buffer(u)) = Attached(Buffer(u))
  BY <1>3, Zenon DEF Attached
<1>5. Attached((ImportBuffer(u) \ byPath) \cup Buffer(u))' = {}
  BY Zenon DEF Attached
<1>6. BuffersOf(u)'
  BY <1>1, <1>5, Zenon DEF BuffersOf
<1> QED BY <1>4, <1>5, <1>6, Zenon DEF Entries

\* A commit takes all that is filed.
LEMMA CommitFiled ==
    ASSUME FlowInv, NEW u \in Persistent, NEW c, Done(c, u),
           stage \in {"synced", "committed"},
           ImportBuffer(u)' = ImportBuffer(u), Buffer(u)' = Buffer(u), Filed(u)' = {}
    PROVE  BuffersOf(u)' /\ Entries(u) = Filed(u) /\ Entries(u)' = {}
<1>1. UNCHANGED <<cells, byPath, stage, owed>>
  BY TaskOf, Zenon
<1>2. ~Pending("SyncPrecommit", u)
  BY Zenon DEF FlowInv, CallsInv, Pending
<1>3. ImportBuffer(u) = {} /\ Buffer(u) = {}
  <2>1. BuffersOf(u)
    BY Zenon DEF FlowInv, BuffersInv
  <2>2. /\ ImportBuffer(u) # {} =>
               stage \in {"executing", "finalized"} \/ Pending("SyncPrecommit", u)
        /\ Buffer(u) # {} => stage = "precommitted"
    BY <2>1, Zenon DEF BuffersOf
  <2> QED BY <1>2, <2>2, Zenon
<1>4. Attached((ImportBuffer(u) \ byPath) \cup Buffer(u)) = {}
  BY <1>3, Zenon DEF Attached
<1>5. Attached((ImportBuffer(u) \ byPath) \cup Buffer(u))' = {}
  BY <1>3, Zenon DEF Attached
<1>6. BuffersOf(u)'
  <2>1. byPath = {} /\ byPath' = {}
    BY <1>1, TaskOf, Zenon
  <2> QED BY <1>3, <1>5, <2>1, Zenon DEF BuffersOf
<1> QED BY <1>4, <1>5, <1>6, Zenon DEF Entries

\* The commit of writer u leaves it without entries; the other keeps its own.
LEMMA CommitEntries ==
    ASSUME FlowInv, NEW u \in Persistent, NEW c \in {"SyncCommit", "AsyncCommit"},
           Done(c, u), u = "livecache" <=> c = "SyncCommit",
           ImportBuffer(u)' = ImportBuffer(u), Buffer(u)' = Buffer(u), Filed(u)' = {},
           u = "livecache" => UNCHANGED <<lsImport, lsBuffer, lsFiled>>,
           u = "livestorage" => UNCHANGED <<lcImport, lcBuffer, lcFiled>>
    PROVE  /\ BuffersInv' /\ EntriesInv'
           /\ Entries(u) = Filed(u) /\ Entries(u)' = {}
           /\ \A w \in Persistent : w # u => Entries(w)' = Entries(w)
<1>1. /\ UNCHANGED <<cells, byPath, stage, owed, ledger, setInBlock, setThenDeleted>>
      /\ CellIds' = CellIds /\ \A i : EntryOf(i)' = EntryOf(i)
      /\ Pending(c, u)
      /\ \A d, v : Pending(d, v)' <=> Pending(d, v) /\ <<d, v>> # <<c, u>>
      /\ stage \in {"synced", "committed"}
      /\ u = "livecache" => stage = "synced"
      /\ u = "livestorage" => stage = "committed"
  BY TaskOf, Zenon DEF Persistent
<1>2. BuffersOf(u)' /\ Entries(u) = Filed(u) /\ Entries(u)' = {}
  BY <1>1, CommitFiled, Zenon
<1>3. ASSUME NEW w \in Persistent, w # u
      PROVE  BuffersOf(w)' /\ Entries(w)' = Entries(w)
  <2>1. ImportBuffer(w)' = ImportBuffer(w) /\ Buffer(w)' = Buffer(w)
    BY <1>3, Zenon DEF ImportBuffer, Buffer, Persistent
  <2>2. /\ Pending("SyncPrecommit", w)' <=> Pending("SyncPrecommit", w)
        /\ Pending("AsyncPrecommit", w)' <=> Pending("AsyncPrecommit", w)
    BY <1>1, <1>3, Zenon
  <2>3. /\ lcFiled' = lcFiled \/ w = "livestorage"
        /\ lsFiled' = lsFiled \/ w = "livecache"
    BY <1>3, Zenon DEF Persistent
  <2> QED BY <1>1, <2>1, <2>2, <2>3, BuffersKept, EntriesKept, Zenon
<1>4. BuffersInv'
  BY <1>2, <1>3, Zenon DEF BuffersInv
<1>5. EntriesInv'
  <2>1. \A w \in Persistent : Entries(w)' = Entries(w) \/ Entries(w)' = {}
    BY <1>2, <1>3, Zenon
  <2>2. \A w \in Persistent : \A e \in Entries(w)' :
            /\ e.id \in CellIds' \ byPath'
            /\ e = EntryOf(e.id)'
            /\ e.key \in Paths \ BlockBound
    BY <1>1, <2>1, Zenon DEF FlowInv, EntriesInv
  <2>3. Pending("SyncCommit", "livecache")' \/ Entries("livecache")' = {}
    <3>1. CASE u = "livecache"
      BY <1>2, <3>1, Zenon
    <3>2. CASE u = "livestorage"
      <4>1. Entries("livecache")' = Entries("livecache")
        BY <1>3, <3>2, Zenon DEF Persistent
      <4>2. Pending("SyncCommit", "livecache") \/ Entries("livecache") = {}
        BY <1>1, Zenon DEF FlowInv, EntriesInv
      <4> QED BY <1>1, <3>2, <4>1, <4>2, Zenon
    <3> QED BY <3>1, <3>2, Zenon DEF Persistent
  <2>4. stage' = "committed" => Entries("livestorage")' = {}
    BY <1>1, <1>2, Zenon DEF Persistent
  <2>5. stage' \in {"synced", "committed"}
    BY <1>1, Zenon
  <2> QED BY <2>2, <2>3, <2>4, <2>5, Zenon DEF EntriesInv
<1> QED BY <1>2, <1>3, <1>4, <1>5, Zenon

\* The live cache after its commit: what the entries leave, or less.
LEMMA CacheCommitted ==
    ASSUME FlowInv, NEW stale, StoresUpTo(stale), Done("SyncCommit", "livecache"),
           Entries("livecache") = Filed("livecache"), Entries("livecache")' = {},
           Entries("livestorage")' = Entries("livestorage"), UNCHANGED liveStorage,
           \A p \in Paths :
               liveCache'[p] \in {Nil, DeleteThenSet(liveCache, Filed("livecache"))[p]}
    PROVE  StoresUpTo(stale)'
<1>1. UNCHANGED <<ledger, setThenDeleted>>
  BY TaskOf, Zenon
<1>2. ASSUME NEW p \in BlockBound
      PROVE  liveCache'[p] = Nil /\ liveStorage'[p] = Nil
  <2>1. p \in Paths /\ liveCache[p] = Nil /\ liveStorage[p] = Nil
    BY BlockBoundAssumption, Zenon DEF StoresUpTo
  <2>2. \A e \in Filed("livecache") : e.key # p
    BY Zenon DEF FlowInv, EntriesInv, Persistent
  <2>3. DeleteThenSet(liveCache, Filed("livecache"))[p] = Nil
    BY <2>1, <2>2, BatchNone, Zenon
  <2> QED BY <2>1, <2>3, Zenon
<1>3. ASSUME NEW p \in (Paths \ BlockBound) \ setThenDeleted
      PROVE  /\ \/ DeleteThenSet(liveStorage, Entries("livestorage"))'[p] = ledger'[p]
                \/ p \in stale /\ \A e \in Entries("livestorage")' : e.key # p
             /\ DeleteThenSet(liveCache, Entries("livecache"))'[p] \in {Nil, ledger'[p]}
  <2>1. /\ \/ DeleteThenSet(liveStorage, Entries("livestorage"))[p] = ledger[p]
           \/ p \in stale /\ \A e \in Entries("livestorage") : e.key # p
        /\ DeleteThenSet(liveCache, Entries("livecache"))[p] \in {Nil, ledger[p]}
    BY Zenon DEF StoresUpTo
  <2>2. DeleteThenSet(liveStorage, Entries("livestorage"))' =
            DeleteThenSet(liveStorage, Entries("livestorage"))
    BY Zenon
  <2>3. DeleteThenSet(liveCache, Entries("livecache"))'[p] = liveCache'[p]
    <3>1. DeleteThenSet(liveCache', {})[p] = liveCache'[p]
      BY BatchEmpty, Zenon
    <3> QED BY <3>1, Zenon
  <2>4. liveCache'[p] \in {Nil, ledger[p]}
    BY <2>1, Zenon
  <2> QED BY <1>1, <2>1, <2>2, <2>3, <2>4, Zenon
<1> QED BY <1>1, <1>2, <1>3, Zenon DEF StoresUpTo

\* A step that writes part of what the storage has filed.  It is behind at the
\* paths of the other entries, and where it was, unless they are written.
FlushOf(part, stale, behind) ==
    /\ Done("AsyncCommit", "livestorage")
    /\ Entries("livestorage") = lsFiled /\ Entries("livestorage")' = {}
    /\ Entries("livecache")' = Entries("livecache") /\ UNCHANGED liveCache
    /\ part \subseteq lsFiled
    /\ liveStorage' = DeleteThenSet(liveStorage, part)
    /\ \A e \in lsFiled \ part : e.key \in behind
    /\ \A p \in stale : p \in behind \/ \E e \in lsFiled : e.key = p

\* What the stores hold after it.
LEMMA Flushed ==
    ASSUME FlowInv, NEW stale, StoresUpTo(stale), NEW part, NEW behind,
           FlushOf(part, stale, behind)
    PROVE  StoresUpTo(behind)'
<1>1. UNCHANGED <<ledger, setThenDeleted>>
  BY TaskOf, Zenon DEF FlushOf
<1>2. part \subseteq lsFiled /\ liveStorage' = DeleteThenSet(liveStorage, part)
  BY Zenon DEF FlushOf
<1>3. ASSUME NEW p \in BlockBound
      PROVE  liveCache'[p] = Nil /\ liveStorage'[p] = Nil
  <2>1. p \in Paths /\ liveCache[p] = Nil /\ liveStorage[p] = Nil
    BY BlockBoundAssumption, Zenon DEF StoresUpTo
  <2>2. \A e \in Entries("livestorage") : e.key # p
    BY Zenon DEF FlowInv, EntriesInv, Persistent
  <2>3. \A e \in part : e.key # p
    BY <1>2, <2>2, Zenon DEF FlushOf
  <2>4. DeleteThenSet(liveStorage, part)[p] = liveStorage[p]
    BY <2>1, <2>3, BatchNone, Zenon
  <2>5. liveCache'[p] = liveCache[p]
    BY Zenon DEF FlushOf
  <2> QED BY <1>2, <2>1, <2>4, <2>5, Zenon
<1>4. ASSUME NEW p \in (Paths \ BlockBound) \ setThenDeleted
      PROVE  /\ \/ DeleteThenSet(liveStorage, Entries("livestorage"))'[p] = ledger'[p]
                \/ p \in behind /\ \A e \in Entries("livestorage")' : e.key # p
             /\ DeleteThenSet(liveCache, Entries("livecache"))'[p] \in {Nil, ledger'[p]}
  <2>1. /\ \/ DeleteThenSet(liveStorage, lsFiled)[p] = ledger[p]
           \/ p \in stale /\ \A e \in lsFiled : e.key # p
        /\ DeleteThenSet(liveCache, Entries("livecache"))[p] \in {Nil, ledger[p]}
    BY Zenon DEF StoresUpTo, FlushOf
  <2>2. DeleteThenSet(liveCache, Entries("livecache"))' =
            DeleteThenSet(liveCache, Entries("livecache"))
    BY Zenon DEF FlushOf
  <2>3. DeleteThenSet(liveStorage, Entries("livestorage"))'[p] = liveStorage'[p]
    <3>1. DeleteThenSet(liveStorage', {})[p] = liveStorage'[p]
      BY BatchEmpty, Zenon
    <3> QED BY <3>1, Zenon DEF FlushOf
  <2>4. liveStorage'[p] = ledger[p] \/ p \in behind
    <3>1. CASE \E e \in lsFiled \ part : e.key = p
      BY <3>1, Zenon DEF FlushOf
    <3>2. CASE \A e \in lsFiled \ part : e.key # p
      <4>1. EntriesAt(part, p) = EntriesAt(lsFiled, p)
        BY <1>2, <3>2 DEF EntriesAt
      <4>2. DeleteThenSet(liveStorage, part)[p] = DeleteThenSet(liveStorage, lsFiled)[p]
        <5>1. p \in Paths
          BY Zenon
        <5> QED BY <4>1, <5>1, BatchAt
      <4>3. p \in stale /\ (\A e \in lsFiled : e.key # p) => p \in behind
        BY Zenon DEF FlushOf
      <4> QED BY <1>2, <2>1, <4>2, <4>3, Zenon
    <3> QED BY <3>1, <3>2, Zenon
  <2>5. \A e \in Entries("livestorage")' : FALSE
    BY Zenon DEF FlushOf
  <2> QED BY <1>1, <2>1, <2>2, <2>3, <2>4, <2>5, Zenon
<1> QED BY <1>1, <1>3, <1>4, Zenon DEF StoresUpTo

\* The live cache's tasks.
LEMMA StoresLiveCacheTask ==
    ASSUME FlowInv, NEW stale, StoresUpTo(stale), LiveCacheTask
    PROVE  BuffersInv' /\ EntriesInv' /\ StoresUpTo(stale)'
<1>1. UNCHANGED <<execBuffer, lsImport, lsBuffer, lsFiled, liveStorage>>
  BY Zenon DEF LiveCacheTask, execVars, lsVars
<1>2. CASE Done("SyncPrecommit", "livecache") /\ LiveCacheSyncPrecommit
  <2>1. /\ Buffer("livecache")' = ImportBuffer("livecache")
        /\ ImportBuffer("livecache")' = {} /\ UNCHANGED <<lcFiled, liveCache>>
    BY <1>2, Zenon DEF LiveCacheSyncPrecommit, Buffer, ImportBuffer
  <2>2. \A i : EntryOf(i)' = EntryOf(i)
    BY <1>2, TaskOf, Zenon
  <2>3. Filed("livecache")' = Filed("livecache")
    BY <2>1, <2>2, Zenon DEF Filed
  <2>4. /\ BuffersOf("livecache")'
        /\ Entries("livecache")' = Entries("livecache")
    BY <1>2, <2>1, <2>3, MoveToBuffer, Zenon DEF Persistent
  <2> QED BY <1>1, <1>2, <2>1, <2>4, MoveTask, Zenon DEF Persistent
<1>3. CASE Done("AsyncPrecommit", "livecache") /\ LiveCacheAsyncPrecommit
  <2>1. /\ Buffer("livecache")' = {} /\ ImportBuffer("livecache")' = {}
        /\ lcFiled' = lcFiled \cup Attached(lcBuffer) /\ UNCHANGED liveCache
    BY <1>3, Zenon DEF LiveCacheAsyncPrecommit, Buffer, ImportBuffer
  <2>2. \A i : EntryOf(i)' = EntryOf(i)
    BY <1>3, TaskOf, Zenon
  <2>3. Filed("livecache")' =
            Filed("livecache") \cup {EntryOf(i) : i \in Attached(Buffer("livecache"))}
    <3>1. Filed("livecache") = {EntryOf(i) : i \in lcFiled} /\ Buffer("livecache") = lcBuffer
      BY Zenon DEF Filed, Buffer
    <3>2. Filed("livecache")' = {EntryOf(i)' : i \in lcFiled'}
      BY Zenon DEF Filed
    <3> QED BY <2>1, <2>2, <3>1, <3>2, Zenon
  <2>4. /\ BuffersOf("livecache")'
        /\ Entries("livecache")' = Entries("livecache")
    BY <1>3, <2>1, <2>3, MoveToFiled, Zenon DEF Persistent
  <2> QED BY <1>1, <1>3, <2>1, <2>4, MoveTask, Zenon DEF Persistent
<1>4. CASE Done("SyncCommit", "livecache") /\ LiveCacheCommit
  <2>1. /\ Buffer("livecache")' = Buffer("livecache")
        /\ ImportBuffer("livecache")' = ImportBuffer("livecache")
        /\ Filed("livecache")' = {}
    BY <1>4, Zenon DEF LiveCacheCommit, Buffer, ImportBuffer, Filed
  <2>2. Evicted(DeleteThenSet(liveCache, Filed("livecache")), liveCache')
    BY <1>4, Zenon DEF LiveCacheCommit, Filed
  <2>3. \A p \in Paths :
            liveCache'[p] \in {Nil, DeleteThenSet(liveCache, Filed("livecache"))[p]}
    BY <2>2, Zenon DEF Evicted
  <2>4. /\ BuffersInv' /\ EntriesInv'
        /\ Entries("livecache") = Filed("livecache") /\ Entries("livecache")' = {}
        /\ Entries("livestorage")' = Entries("livestorage")
    BY <1>1, <1>4, <2>1, CommitEntries, Zenon DEF Persistent
  <2> QED BY <1>1, <1>4, <2>3, <2>4, CacheCommitted, Zenon
<1> QED BY <1>2, <1>3, <1>4, Zenon DEF LiveCacheTask

\* The storage's tasks.
LEMMA StoresLiveStorageTask ==
    ASSUME FlowInv, NEW stale, StoresUpTo(stale), LiveStorageTask
    PROVE  BuffersInv' /\ EntriesInv' /\ StoresUpTo(stale)'
<1>1. UNCHANGED <<execBuffer, lcImport, lcBuffer, lcFiled, liveCache>>
  BY Zenon DEF LiveStorageTask, execVars, lcVars
<1>2. CASE Done("SyncPrecommit", "livestorage") /\ LiveStorageSyncPrecommit
  <2>1. /\ Buffer("livestorage")' = ImportBuffer("livestorage")
        /\ ImportBuffer("livestorage")' = {} /\ Filed("livestorage")' = Filed("livestorage")
        /\ UNCHANGED liveStorage
    BY <1>2, Zenon DEF LiveStorageSyncPrecommit, Buffer, ImportBuffer, Filed
  <2>2. /\ BuffersOf("livestorage")'
        /\ Entries("livestorage")' = Entries("livestorage")
    BY <1>2, <2>1, MoveToBuffer, Zenon DEF Persistent
  <2> QED BY <1>1, <1>2, <2>1, <2>2, MoveTask, Zenon DEF Persistent
<1>3. CASE Done("AsyncPrecommit", "livestorage") /\ LiveStorageAsyncPrecommit
  <2>1. /\ Buffer("livestorage")' = {} /\ ImportBuffer("livestorage")' = {}
        /\ Filed("livestorage")' =
              Filed("livestorage") \cup {EntryOf(i) : i \in Attached(Buffer("livestorage"))}
        /\ UNCHANGED liveStorage
    BY <1>3, Zenon DEF LiveStorageAsyncPrecommit, Buffer, ImportBuffer, Filed
  <2>2. /\ BuffersOf("livestorage")'
        /\ Entries("livestorage")' = Entries("livestorage")
    BY <1>3, <2>1, MoveToFiled, Zenon DEF Persistent
  <2> QED BY <1>1, <1>3, <2>1, <2>2, MoveTask, Zenon DEF Persistent
<1>4. CASE Done("AsyncCommit", "livestorage") /\ LiveStorageCommit
  <2>1. /\ Buffer("livestorage")' = Buffer("livestorage")
        /\ ImportBuffer("livestorage")' = ImportBuffer("livestorage")
        /\ Filed("livestorage")' = {} /\ Filed("livestorage") = lsFiled
        /\ liveStorage' = DeleteThenSet(liveStorage, lsFiled)
    BY <1>4, Zenon DEF LiveStorageCommit, Buffer, ImportBuffer, Filed
  <2>2. /\ BuffersInv' /\ EntriesInv'
        /\ Entries("livestorage") = lsFiled /\ Entries("livestorage")' = {}
        /\ Entries("livecache")' = Entries("livecache")
    BY <1>1, <1>4, <2>1, CommitEntries, Zenon DEF Persistent
  <2>3. FlushOf(lsFiled, stale, stale)
    BY <1>1, <1>4, <2>1, <2>2, Zenon DEF FlushOf
  <2> QED BY <2>2, <2>3, Flushed, Zenon
<1> QED BY <1>2, <1>3, <1>4, Zenon DEF LiveStorageTask

\* The accounts' tasks leave the other stores alone.
LEMMA StoresEthTask ==
    ASSUME FlowInv, NEW stale, StoresUpTo(stale), EthTask
    PROVE  BuffersInv' /\ EntriesInv' /\ StoresUpTo(stale)'
<1>1. /\ UNCHANGED <<lcImport, lcBuffer, lcFiled, liveCache>>
      /\ UNCHANGED <<lsImport, lsBuffer, lsFiled, liveStorage, execBuffer>>
  BY Zenon DEF EthTask, execVars, lcVars, lsVars
<1>2. PICK c : Done(c, "eth")
  BY Zenon DEF EthTask
<1>3. /\ UNCHANGED <<cells, byPath, stage, owed, ledger, setInBlock, setThenDeleted>>
      /\ \A d, v : Pending(d, v)' <=> Pending(d, v) /\ <<d, v>> # <<c, "eth">>
  BY <1>2, TaskOf, Zenon
<1>4. \A w \in Persistent : ImportBuffer(w)' = ImportBuffer(w) /\ Buffer(w)' = Buffer(w)
  BY <1>1, Zenon DEF ImportBuffer, Buffer
<1>5. \A w \in Persistent : Entries(w)' = Entries(w)
  BY <1>1, <1>3, <1>4, EntriesKept, Zenon
<1>6. ASSUME NEW d, NEW v, v # "eth"
      PROVE  Pending(d, v)' <=> Pending(d, v)
  BY <1>3, <1>6, Zenon
<1>7. BuffersInv'
  <2> SUFFICES ASSUME NEW w \in Persistent PROVE BuffersOf(w)'
    BY Zenon DEF BuffersInv
  <2>1. /\ Pending("SyncPrecommit", w)' <=> Pending("SyncPrecommit", w)
        /\ Pending("AsyncPrecommit", w)' <=> Pending("AsyncPrecommit", w)
    BY <1>6, Zenon DEF Persistent
  <2> QED BY <1>3, <1>4, <2>1, BuffersKept, Zenon
<1>8. EntriesInv'
  <2>1. Attached(execBuffer) \subseteq execBuffer'
    BY <1>1, Zenon DEF Attached
  <2> QED BY <1>3, <1>5, <1>6, <2>1, EntriesFrame, Zenon
<1>9. StoresUpTo(stale)'
  BY <1>1, <1>3, <1>5, StoresFrame, Zenon
<1> QED BY <1>7, <1>8, <1>9, Zenon

\* No step at all.
LEMMA StoresStutter ==
    ASSUME FlowInv, NEW stale, StoresUpTo(stale), UNCHANGED vars
    PROVE  BuffersInv' /\ EntriesInv' /\ StoresUpTo(stale)'
<1>1. /\ UNCHANGED <<cells, byPath, execBuffer, lcImport, lcBuffer, lcFiled, liveCache>>
      /\ UNCHANGED <<lsImport, lsBuffer, lsFiled, liveStorage>>
      /\ UNCHANGED <<stage, tasks, owed, ledger, setInBlock, setThenDeleted>>
  BY Zenon DEF vars, execVars, lcVars, lsVars, indexVars, callerVars, historyVars
<1>2. \A d, v : Pending(d, v)' <=> Pending(d, v)
  BY <1>1, Zenon DEF Pending
<1>3. \A w \in Persistent : ImportBuffer(w)' = ImportBuffer(w) /\ Buffer(w)' = Buffer(w)
  BY <1>1, Zenon DEF ImportBuffer, Buffer
<1>4. \A w \in Persistent : Entries(w)' = Entries(w)
  BY <1>1, <1>3, EntriesKept, Zenon
<1>5. BuffersInv'
  BY <1>1, <1>2, <1>3, BuffersKept, Zenon DEF BuffersInv
<1>6. EntriesInv'
  <2>1. Attached(execBuffer) \subseteq execBuffer'
    BY <1>1, Zenon DEF Attached
  <2> QED BY <1>1, <1>2, <1>4, <2>1, EntriesFrame, Zenon
<1>7. StoresUpTo(stale)'
  BY <1>1, <1>4, StoresFrame, Zenon
<1> QED BY <1>5, <1>6, <1>7, Zenon

-----------------------------------------------------------------------------
(* The sequential schedule *)

\* Nothing is filed and the stores are empty at the start.
LEMMA FlowInit == Init => FlowInv /\ StoresUpTo({})
<1> SUFFICES ASSUME Init PROVE FlowInv /\ StoresUpTo({})
  BY Zenon
<1>1. CallsInv
  BY DEF Init, CallsInv
<1>2. \A w \in Persistent : ImportBuffer(w) = {} /\ Buffer(w) = {} /\ Filed(w) = {}
  BY Zenon DEF Init, LiveCacheInit, LiveStorageInit, ImportBuffer, Buffer, Filed
<1>3. \A w \in Persistent : Attached((ImportBuffer(w) \ byPath) \cup Buffer(w)) = {}
  BY <1>2, Zenon DEF Attached
<1>4. BuffersInv
  BY <1>2, <1>3, Zenon DEF Init, BuffersInv, BuffersOf
<1>5. \A w \in Persistent : Entries(w) = {}
  BY <1>2, <1>3, Zenon DEF Entries
<1>6. EntriesInv
  BY <1>5, Zenon DEF EntriesInv, Persistent
<1>7. StoresUpTo({})
  <2>1. \A p \in Paths : liveCache[p] = Nil /\ liveStorage[p] = Nil /\ ledger[p] = Nil
    BY Zenon DEF Init, LiveCacheInit, LiveStorageInit
  <2>2. \A p \in Paths : /\ DeleteThenSet(liveStorage, {})[p] = Nil
                         /\ DeleteThenSet(liveCache, {})[p] = Nil
    BY <2>1, BatchEmpty, Zenon
  <2> QED BY <1>5, <2>1, <2>2, BlockBoundAssumption, Zenon DEF StoresUpTo, Persistent
<1> QED BY <1>1, <1>4, <1>6, <1>7, OverlappedInit, Zenon DEF FlowInv

\* A step without a fault leaves no path behind that was not behind before.
LEMMA FlowStep ==
    ASSUME FlowInv, NEW stale, StoresUpTo(stale), Next \/ UNCHANGED vars
    PROVE  FlowInv' /\ StoresUpTo(stale)'
<1>1. CallsInv'
  BY CallsStep, Zenon DEF FlowInv, OverlappedInv
<1>2. OverlappedInv'
  <2>1. tasks = {} => ~Pending("SyncPrecommit", "exec")
    BY Zenon DEF Pending
  <2> QED BY <2>1, OverlappedStep, Zenon DEF FlowInv, Next
<1>3. BuffersInv' /\ EntriesInv' /\ StoresUpTo(stale)'
  <2>1. CASE tasks = {} /\ owed = 0 /\ CallImport
    BY <2>1, StoresImport, Zenon DEF CallImport
  <2>2. CASE tasks = {} /\ owed = 0 /\ CallFinalize
    BY <2>2, StoresFinalize, Zenon DEF CallFinalize
  <2>3. CASE /\ tasks = {}
             /\ \/ owed = 0 /\ SyncPrecommit
                \/ AsyncPrecommit
                \/ owed = 0 /\ SyncCommit
                \/ AsyncCommit
    BY <2>3, StoresCalls, Zenon
  <2>4. CASE WriterTask
    BY <2>4, StoresExecTask, StoresLiveCacheTask, StoresLiveStorageTask, StoresEthTask, Zenon
       DEF WriterTask
  <2>5. CASE UNCHANGED vars
    BY <2>5, StoresStutter, Zenon
  <2> QED BY <2>1, <2>2, <2>3, <2>4, <2>5, Zenon DEF Next
<1> QED BY <1>1, <1>2, <1>3, Zenon DEF FlowInv

\* The flow of the writes and the stores, without a fault, always.
LEMMA FlowAlways == Spec => [](FlowInv /\ StoresUpTo({}))
<1>1. FlowInv /\ StoresUpTo({}) /\ [Next \/ Finished]_vars => (FlowInv /\ StoresUpTo({}))'
  BY FlowStep, Zenon DEF Finished
<1> QED BY <1>1, FlowInit, PTL DEF Spec

\* A path that neither the overlay nor an entry on its way has is in the
\* stores.
LEMMA InStores ==
    ASSUME FlowInv, NEW stale, StoresUpTo(stale), tasks = {},
           stage \in {"executing", "precommitted", "committed"},
           NEW p \in Paths \ setThenDeleted, Merged(p) = {}
    PROVE  /\ liveStorage[p] = ledger[p] \/ p \in stale
           /\ liveCache[p] \in {Nil, ledger[p]}
<1>1. CASE p \in BlockBound
  <2>1. MergedLatest(p)
    BY Zenon DEF FlowInv, OverlappedInv, OverlayInv, Pending
  <2> QED BY <1>1, <2>1, Zenon DEF MergedLatest, StoresUpTo
<1>2. CASE p \notin BlockBound
  <2>1. ASSUME NEW w \in Persistent, NEW e \in Entries(w), e.key = p
        PROVE  FALSE
    <3>1. stage # "committed"
      BY Zenon DEF FlowInv, EntriesInv, Pending, Persistent
    <3>2. e.id \in execBuffer /\ e.id \notin byPath /\ e = EntryOf(e.id)
      BY <3>1, Zenon DEF FlowInv, EntriesInv
    <3>3. cells[e.id].path = p
      BY <2>1, <3>2 DEF EntryOf
    <3> QED BY <3>2, <3>3, Zenon DEF Merged, At
  <2>2. /\ DeleteThenSet(liveStorage, Entries("livestorage"))[p] = liveStorage[p]
        /\ DeleteThenSet(liveCache, Entries("livecache"))[p] = liveCache[p]
    BY <2>1, BatchNone, Zenon DEF Persistent
  <2> QED BY <1>2, <2>2, Zenon DEF StoresUpTo
<1> QED BY <1>1, <1>2, Zenon

\* View finds it there, if the storage behind the cache is not behind.
LEMMA ReadsUpTo ==
    ASSUME FlowInv, NEW stale, StoresUpTo(stale), tasks = {},
           stage \in {"executing", "precommitted", "committed"},
           NEW p \in Paths, p \in setThenDeleted => localCells[p] # Nil
    PROVE  \/ View(p) = ledger[p]
           \/ p \in stale /\ localCells[p] = Nil /\ liveCache[p] = Nil
<1>1. /\ MergedLatest(p)
      /\ localCells[p] = Nil \/ localCells[p] \in Merged(p)
      /\ Merged(p) # {} => localCells[p] = Newest(Merged(p))
  BY Zenon DEF FlowInv, OverlappedInv, OverlayInv, Pending
<1>2. CASE localCells[p] # Nil
  BY <1>1, <1>2, Zenon DEF MergedLatest, View
<1>3. CASE localCells[p] = Nil
  <2>1. Merged(p) = {}
    <3>1. Len(cells) \in Nat /\ Merged(p) \in SUBSET (1..Len(cells))
      BY HeapDomain, Zenon DEF FlowInv, OverlappedInv, TypeOK, ExecTypeOK, Merged, At
    <3>2. Merged(p) # {} => Newest(Merged(p)) \in 1..Len(cells)
      BY <3>1, NewestMember, Zenon
    <3> QED BY <1>1, <1>3, <3>1, <3>2, NilAssumption
  <2>2. /\ liveStorage[p] = ledger[p] \/ p \in stale
        /\ liveCache[p] \in {Nil, ledger[p]}
    BY <1>3, <2>1, InStores, Zenon
  <2> QED BY <1>3, <2>2, Zenon DEF View
<1> QED BY <1>2, <1>3, Zenon

\* When AsyncCommit has returned, everything filed is in the storage.
LEMMA StoredUpTo ==
    ASSUME FlowInv, NEW stale, StoresUpTo(stale), stage = "committed", tasks = {},
           NEW p \in Paths \ setThenDeleted
    PROVE  liveStorage[p] = ledger[p] \/ p \in stale
<1>1. CASE p \in BlockBound
  BY <1>1, Zenon DEF FlowInv, OverlappedInv, OverlayInv, StoresUpTo
<1>2. CASE p \notin BlockBound
  <2>1. Entries("livestorage") = {}
    BY Zenon DEF FlowInv, EntriesInv, Pending
  <2>2. DeleteThenSet(liveStorage, {})[p] = liveStorage[p]
    BY BatchEmpty, Zenon
  <2> QED BY <1>2, <2>1, <2>2, Zenon DEF StoresUpTo
<1> QED BY <1>1, <1>2, Zenon

\* For every set of paths, accounts and transactions, every capacity of the
\* cache and any number of generations and blocks: from SyncPrecommit of a
\* generation on, View reads the outcome of the accepted transitions, except at
\* paths that a block set and then deleted.
THEOREM ReadsAreLatest == Spec => []ReadsLatest
<1>1. FlowInv /\ StoresUpTo({}) => ReadsLatest
  BY ReadsUpTo, Zenon DEF ReadsLatest
<1> QED BY <1>1, FlowAlways, PTL

\* When AsyncCommit has returned, the execution storage has the latest value of
\* every path that no block set and then deleted.
THEOREM StorageIsLatest == Spec => []StorageLatest
<1>1. FlowInv /\ StoresUpTo({}) => StorageLatest
  BY StoredUpTo, Zenon DEF StorageLatest
<1> QED BY <1>1, FlowAlways, PTL

\* Finalize leaves the live cache writer one cell of each path.
THEOREM OneCellOfEachPath == Spec => []OneCellPerPath
<1>1. FlowInv => OneCellPerPath
  <2> SUFFICES ASSUME FlowInv, stage = "precommitted", NEW i \in Attached(lcBuffer),
                      NEW j \in Attached(lcBuffer), cells[i].path = cells[j].path
               PROVE  i = j
    BY Zenon DEF OneCellPerPath
  <2>1. Attached(lcBuffer) \subseteq
            Attached((ImportBuffer("livecache") \ byPath) \cup Buffer("livecache"))
    BY Zenon DEF Attached, Buffer
  <2>2. BuffersOf("livecache")
    BY Zenon DEF FlowInv, BuffersInv, Persistent
  <2> QED BY <2>1, <2>2, Zenon DEF BuffersOf
<1> QED BY <1>1, FlowAlways, PTL

\* The cache and the storage have filed the same writes: no cell that the
\* storage's writer copied was modified after.
THEOREM BothFileTheSame == Spec => []SameWritesFiled
<1>1. FlowInv => SameWritesFiled
  <2> SUFFICES ASSUME FlowInv, Settled, stage # "synced"
               PROVE  lsFiled = {EntryOf(i) : i \in lcFiled}
    BY Zenon DEF SameWritesFiled
  <2>1. stage \in {"executing", "precommitted", "committed"}
    BY Zenon DEF Settled, FlowInv, OverlappedInv, TypeOK, Stage
  <2>2. /\ Entries("livecache") = Entries("livestorage")
        /\ \A w \in Persistent : Entries(w) = Filed(w)
    BY <2>1, BetweenCalls, Zenon DEF Settled
  <2> QED BY <2>2, Zenon DEF Filed, Persistent
<1> QED BY <1>1, FlowAlways, PTL
=============================================================================
