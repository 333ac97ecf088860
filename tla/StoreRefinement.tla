-------------------------- MODULE StoreRefinement --------------------------
(***************************************************************************)
(* ExecutionStateStore implements StateMap, for any paths, values and      *)
(* caches, as long as sub-processes delete no container and no account is  *)
(* taken back (where the implementation does not hold).                    *)
(*                                                                         *)
(* The argument: what a process sees is decided by the values of its store *)
(* (View).  A write changes it at one path.  A sub-process that deletes no *)
(* container has no values that nothing lists, so copying its cells one by *)
(* one makes the main process see them; the elements of a container that   *)
(* it created may show what they held long before until they are copied.   *)
(***************************************************************************)
EXTENDS StoreProofs

-----------------------------------------------------------------------------
(* The inductive invariant *)

\* Nothing is left behind: a path with a value exists in its parent.
Whole(m) == \A p \in Paths : m[p] # Nil => Exists(m, p)

\* The store loc deleted no container of the store behind, and hides nothing.
OnlyAdds(loc, base) ==
    LET m == Values(loc, base)
    IN  /\ Whole(m)
        /\ \A c \in Containers : base[c] # Nil => m[c] # Nil

\* No account is taken back, and a sub-process deletes no container.
MapInv ==
    /\ StoreInv
    /\ ignoreAddresses = {}
    /\ running = "sub" => OnlyAdds(localCells["sub"], ReadCell(localCells["main"], committed))

\* What StateMap says of the store.
State == [p \in Paths |-> Abstracted(p, Visible[p])]

-----------------------------------------------------------------------------
(* What StateMap says of the values m of a store *)

\* What StateMap says of a store with the values m.
View(m) == [p \in Paths |-> Abstracted(p, Seen(m)[p])]

\* A path that does not exist, or has no value, is absent; a container with a
\* value is present.
LEMMA Viewed ==
    ASSUME NEW m, NEW p \in Paths
    PROVE  /\ Exists(m, p) => View(m)[p] = Abstracted(p, m[p])
           /\ ~Exists(m, p) => View(m)[p] = Absent
           /\ m[p] = Nil => View(m)[p] = Absent
<1>1. View(m)[p] = Abstracted(p, Seen(m)[p]) /\ Seen(m)[p] = IF Exists(m, p) THEN m[p] ELSE Nil
  BY Zenon DEF View, Seen
<1>2. Abstracted(p, Nil) = Absent
  BY Zenon DEF Abstracted
<1> QED BY <1>1, <1>2, Zenon

\* Every container exists in its parent, also if elements are still to be
\* written.
LEMMA ContainerExists ==
    ASSUME NEW m, NEW pending, Tree(m, pending), NEW c \in Containers
    PROVE  /\ m[c] # Nil => Exists(m, c)
           /\ View(m)[c] = IF m[c] # Nil THEN Present ELSE Absent
<1>1. c \in Paths
  BY Nesting, Zenon
<1>2. m[c] # Nil => Exists(m, c)
  <2>1. CASE c \in SysPaths
    BY <2>1, Zenon DEF Exists, IsImmediateChildOfSysPath
  <2>2. CASE c \notin SysPaths
    <3>1. Parent[c] \in SysPaths \cap Containers
      BY <2>2, Nesting, Zenon
    <3> QED BY <2>2, <3>1, Zenon DEF Exists, Tree
  <2> QED BY <2>1, <2>2, Zenon
<1>3. m[c] # Nil => Abstracted(c, m[c]) = Present
  BY Zenon DEF Abstracted
<1> QED BY <1>1, <1>2, <1>3, Viewed, Zenon

\* A path that does not exist merely as a child of a system path is directly
\* under a container.
LEMMA UnderContainer ==
    ASSUME NEW p \in Paths, ~IsImmediateChildOfSysPath(p)
    PROVE  /\ Parent[p] \in Containers /\ Parent[p] \in Paths /\ p \notin SysPaths
           /\ \A m : Exists(m, p) <=> m[Parent[p]] # Nil /\ p \in m[Parent[p]]
<1>1. p \notin SysPaths
  BY Zenon DEF IsImmediateChildOfSysPath
<1> QED BY <1>1, Nesting, Zenon DEF Exists

\* What is directly under a container that is not a system path exists only if
\* that container lists it.
LEMMA InContainer ==
    ASSUME NEW c \in Containers \ SysPaths, NEW q \in Paths, Parent[q] = c
    PROVE  /\ q # c /\ q \notin Containers /\ q \notin SysPaths
           /\ ~IsImmediateChildOfSysPath(q)
           /\ \A m : Exists(m, q) <=> m[c] # Nil /\ q \in m[c]
<1>1. q # c /\ q \notin Containers /\ q \notin SysPaths
  BY Nesting, Zenon
<1> QED BY <1>1, Zenon DEF Exists, IsImmediateChildOfSysPath

-----------------------------------------------------------------------------
(* What a write does to the view *)

\* The view n differs from m in the value v of p, except that what is directly
\* under a container p is absent from m, or absent from n, or among v.
Differs(m, n, p, v) ==
    /\ View(n)[p] = Abstracted(p, v)
    /\ \A q \in Paths : q # p /\ ~(p \in Containers /\ Parent[q] = p) =>
           View(n)[q] = View(m)[q]
    /\ p \in Containers => \A q \in Paths : Parent[q] = p =>
           /\ q # p
           /\ v # Nil => View(m)[q] = Absent
           /\ v = Nil \/ q \notin v => View(n)[q] = Absent

\* Writing to a tree changes its view at the path, and below a deleted or new
\* container.
LEMMA PutView ==
    ASSUME NEW m, NEW pending, Tree(m, pending), NEW tx, NEW p \in Paths, NEW v, NEW loc,
           MayPut(tx, p, v, pending), m[Parent[p]] # Nil \/ tx = "SYSTEM",
           p \in Containers /\ v # Nil => m[p] = Nil
    PROVE  Differs(m, AfterPut(loc, m, tx, p, v), p, v)
<1> DEFINE n == AfterPut(loc, m, tx, p, v)
           par == Parent[p]
           tracked == Tracked(tx, par)
<1>1. /\ tracked => /\ p \notin SysPaths /\ par # p /\ par \in Containers /\ m[par] # Nil
                    /\ NewList(m[par], p, v) \in ValuesAt(par)
      /\ ~tracked => par \in SysPaths /\ par \notin ContainerRoots /\ p \notin Containers
  BY TrackedParent, Zenon
<1>2. Tree(n, pending \ {p})
  BY PutKeepsTree, Zenon
<1>3. \A q \in Paths : n[q] =
          IF q = p THEN v
          ELSE IF tracked /\ q = par THEN NewList(m[q], p, v)
          ELSE IF GoesToo(loc, m, p, v, q) THEN Nil ELSE m[q]
  BY Zenon DEF AfterPut
<1> HIDE DEF n, tracked
<1>4. tracked => par \in Paths /\ NewList(m[par], p, v) # Nil
  <2>1. tracked => par \in Paths
    BY <1>1, Nesting, Zenon
  <2> QED BY <1>1, <2>1, NilAssumption, Zenon
<1>5. ASSUME NEW q \in Paths, GoesToo(loc, m, p, v, q)
      PROVE  p \in Containers \ SysPaths /\ Parent[q] = p
  <2>1. p \in Containers \ SysPaths /\ m[p] # Nil /\ q \in m[p]
    BY <1>5, Zenon DEF GoesToo, MayPut
  <2> QED BY <2>1, ListedBelow, Zenon
<1>6. View(n)[p] = Abstracted(p, v)
  <2>1. CASE v = Nil
    <3>1. n[p] = Nil
      BY <1>3, <2>1, Zenon
    <3>2. Abstracted(p, v) = Absent
      BY <2>1, Zenon DEF Abstracted
    <3> QED BY <3>1, <3>2, Viewed, Zenon
  <2>2. CASE v # Nil
    <3>1. n[p] = v
      BY <1>3, Zenon
    <3>2. CASE tracked
      <4>1. n[par] # Nil /\ p \in n[par]
        BY <1>1, <1>3, <1>4, <2>2, <3>2, Zenon DEF NewList
      <4> QED BY <3>1, <4>1, Viewed, Zenon DEF Exists
    <3>3. CASE ~tracked
      BY <1>1, <3>1, <3>3, Viewed, Zenon DEF Exists, IsImmediateChildOfSysPath
    <3> QED BY <3>2, <3>3, Zenon
  <2> QED BY <2>1, <2>2, Zenon
<1>7. ASSUME NEW q \in Paths, q # p, ~(p \in Containers /\ Parent[q] = p)
      PROVE  View(n)[q] = View(m)[q]
  <2>1. ~GoesToo(loc, m, p, v, q)
    BY <1>5, <1>7, Zenon
  <2>2. CASE q \in Containers
    <3>1. n[q] # Nil <=> m[q] # Nil
      BY <1>1, <1>3, <1>4, <1>7, <2>1, Zenon
    <3> QED BY <1>2, <2>2, <3>1, ContainerExists, Zenon
  <2>3. CASE q \notin Containers
    <3>1. n[q] = m[q]
      BY <1>1, <1>3, <1>7, <2>1, <2>3, Zenon
    <3>2. Exists(n, q) <=> Exists(m, q)
      <4>1. CASE IsImmediateChildOfSysPath(q)
        BY <4>1, Zenon DEF Exists
      <4>2. CASE ~IsImmediateChildOfSysPath(q)
        <5>1. /\ Parent[q] \in Containers /\ Parent[q] \in Paths
              /\ \A k : Exists(k, q) <=> k[Parent[q]] # Nil /\ q \in k[Parent[q]]
          BY <4>2, UnderContainer, Zenon
        <5>2. Parent[q] # p
          BY <1>7, <5>1, Zenon
        <5>3. CASE tracked /\ Parent[q] = par
          <6>1. q \in NewList(m[par], p, v) <=> q \in m[par]
            BY <1>7, Zenon DEF NewList
          <6>2. n[par] = NewList(m[par], p, v)
            BY <1>1, <1>3, <1>4, <5>3, Zenon
          <6> QED BY <1>1, <1>4, <5>1, <5>3, <6>1, <6>2, Zenon
        <5>4. CASE ~(tracked /\ Parent[q] = par)
          <6>1. ~GoesToo(loc, m, p, v, Parent[q])
            BY <1>5, <5>1, InContainer, Zenon
          <6>2. n[Parent[q]] = m[Parent[q]]
            BY <1>3, <5>1, <5>2, <5>4, <6>1, Zenon
          <6> QED BY <5>1, <6>2, Zenon
        <5> QED BY <5>3, <5>4, Zenon
      <4> QED BY <4>1, <4>2, Zenon
    <3> QED BY <3>1, <3>2, Viewed, Zenon
  <2> QED BY <2>2, <2>3, Zenon
<1>8. ASSUME p \in Containers, NEW q \in Paths, Parent[q] = p
      PROVE  /\ q # p
             /\ v # Nil => View(m)[q] = Absent
             /\ v = Nil \/ q \notin v => View(n)[q] = Absent
  <2>1. p \in Containers \ SysPaths
    BY <1>8, Zenon DEF MayPut
  <2>2. q # p /\ \A k : Exists(k, q) <=> k[p] # Nil /\ q \in k[p]
    BY <1>8, <2>1, InContainer, Zenon
  <2>3. n[p] = v
    BY <1>3, Zenon
  <2>4. v # Nil => ~Exists(m, q)
    BY <1>8, <2>2, Zenon
  <2>5. v = Nil \/ q \notin v => ~Exists(n, q)
    BY <2>2, <2>3, Zenon
  <2> QED BY <2>2, <2>4, <2>5, Viewed, Zenon
<1> QED BY <1>6, <1>7, <1>8, Zenon DEF Differs, n

\* A write to "c*" makes what is in c absent.
LEMMA ClearView ==
    ASSUME NEW m, Tree(m, {}), NEW loc, NEW c \in Containers \ SysPaths, m[c] # Nil,
           Tree(AfterClear(loc, m, c), {}), NEW q \in Paths
    PROVE  /\ Parent[q] = c => View(AfterClear(loc, m, c))[q] = Absent
           /\ Parent[q] # c => View(AfterClear(loc, m, c))[q] = View(m)[q]
<1> DEFINE n == AfterClear(loc, m, c)
<1>1. \A p \in Paths : n[p] = IF p = c THEN {}
                              ELSE IF p \in m[c] /\ loc[p] # NoCell THEN Nil ELSE m[p]
  BY Zenon DEF AfterClear
<1> HIDE DEF n
<1>2. c \in Paths /\ n[c] = {} /\ n[c] # Nil
  <2>1. c \in Paths /\ {} \in ValuesAt(c)
    BY ContainerValue, Nesting, Zenon
  <2> QED BY <1>1, <2>1, NilAssumption, Zenon
<1>3. \A e \in m[c] : e \in Paths /\ Parent[e] = c
  BY ListedHere, Zenon
<1>4. CASE Parent[q] = c
  <2>1. ~Exists(n, q)
    BY <1>2, <1>4, InContainer, Zenon
  <2> QED BY <1>4, <2>1, Viewed, Zenon DEF n
<1>5. CASE Parent[q] # c /\ q \in Containers
  <2>1. n[q] # Nil <=> m[q] # Nil
    BY <1>1, <1>2, <1>3, <1>5, Zenon
  <2>2. View(m)[q] = IF m[q] # Nil THEN Present ELSE Absent
    BY <1>5, ContainerExists, Zenon
  <2>3. View(n)[q] = IF n[q] # Nil THEN Present ELSE Absent
    BY <1>5, ContainerExists, Zenon DEF n
  <2> QED BY <1>5, <2>1, <2>2, <2>3, Zenon DEF n
<1>6. CASE Parent[q] # c /\ q \notin Containers
  <2>1. n[q] = m[q]
    BY <1>1, <1>3, <1>6, Zenon
  <2>2. Exists(n, q) <=> Exists(m, q)
    <3>1. CASE IsImmediateChildOfSysPath(q)
      BY <3>1, Zenon DEF Exists
    <3>2. CASE ~IsImmediateChildOfSysPath(q)
      <4>1. /\ Parent[q] \in Containers /\ Parent[q] \in Paths
            /\ \A k : Exists(k, q) <=> k[Parent[q]] # Nil /\ q \in k[Parent[q]]
        BY <3>2, UnderContainer, Zenon
      <4>2. Parent[q] \notin m[c]
        BY <1>3, <4>1, InContainer, Zenon
      <4>3. n[Parent[q]] = m[Parent[q]]
        BY <1>1, <1>6, <4>1, <4>2, Zenon
      <4> QED BY <4>1, <4>3, Zenon
    <3> QED BY <3>1, <3>2, Zenon
  <2> QED BY <1>6, <2>1, <2>2, Viewed, Zenon DEF n
<1> QED BY <1>4, <1>5, <1>6, Zenon

\* A write that deletes no container hides nothing.
LEMMA PutOnlyAdds ==
    ASSUME NEW m, Tree(m, {}), Whole(m), NEW tx, NEW p \in Paths, NEW v, NEW loc,
           MayPut(tx, p, v, {}), m[Parent[p]] # Nil \/ tx = "SYSTEM",
           p \in Containers => v # Nil /\ m[p] = Nil
    PROVE  /\ Whole(AfterPut(loc, m, tx, p, v))
           /\ \A c \in Containers : m[c] # Nil => AfterPut(loc, m, tx, p, v)[c] # Nil
<1> DEFINE n == AfterPut(loc, m, tx, p, v)
           par == Parent[p]
           tracked == Tracked(tx, par)
<1>1. /\ tracked => /\ p \notin SysPaths /\ par # p /\ par \in Containers /\ m[par] # Nil
                    /\ NewList(m[par], p, v) \in ValuesAt(par)
      /\ ~tracked => par \in SysPaths /\ par \notin ContainerRoots /\ p \notin Containers
  BY TrackedParent, Zenon
<1>2. \A q \in Paths : n[q] =
          IF q = p THEN v
          ELSE IF tracked /\ q = par THEN NewList(m[q], p, v)
          ELSE IF GoesToo(loc, m, p, v, q) THEN Nil ELSE m[q]
  BY Zenon DEF AfterPut
<1>3. \A q \in Paths : q # p /\ Parent[q] # p /\ Exists(m, q) => Exists(n, q)
  BY PutKeepsOthers, Zenon
<1>4. \A q : ~GoesToo(loc, m, p, v, q)
  BY Zenon DEF GoesToo
<1> HIDE DEF n, tracked
<1>5. tracked => par \in Paths /\ NewList(m[par], p, v) # Nil
  <2>1. tracked => par \in Paths
    BY <1>1, Nesting, Zenon
  <2> QED BY <1>1, <2>1, NilAssumption, Zenon
<1>6. ASSUME NEW c \in Containers, m[c] # Nil
      PROVE  n[c] # Nil
  <2>1. c \in Paths
    BY Nesting, Zenon
  <2> QED BY <1>2, <1>4, <1>5, <1>6, <2>1, Zenon
<1>7. ASSUME NEW q \in Paths, n[q] # Nil
      PROVE  Exists(n, q)
  <2>1. CASE q = p
    <3>1. v # Nil
      BY <1>2, <1>7, <2>1, Zenon
    <3>2. CASE tracked
      <4>1. n[par] # Nil /\ p \in n[par]
        BY <1>1, <1>2, <1>5, <3>1, <3>2, Zenon DEF NewList
      <4> QED BY <2>1, <4>1, Zenon DEF Exists
    <3>3. CASE ~tracked
      BY <1>1, <2>1, <3>3, Zenon DEF Exists, IsImmediateChildOfSysPath
    <3> QED BY <3>2, <3>3, Zenon
  <2>2. CASE q # p
    <3>1. m[q] # Nil
      BY <1>1, <1>2, <1>4, <1>7, <2>2, Zenon
    <3>2. Exists(m, q)
      BY <3>1, Zenon DEF Whole
    <3>3. CASE Parent[q] # p
      BY <1>3, <2>2, <3>2, <3>3, Zenon
    <3>4. CASE Parent[q] = p /\ IsImmediateChildOfSysPath(q)
      BY <3>4, Zenon DEF Exists
    <3>5. CASE Parent[q] = p /\ ~IsImmediateChildOfSysPath(q)
      <4>1. p \in Containers /\ m[p] # Nil
        BY <3>2, <3>5, UnderContainer, Zenon
      <4> QED BY <4>1, Zenon
    <3> QED BY <3>3, <3>4, <3>5, Zenon
  <2> QED BY <2>1, <2>2, Zenon
<1> QED BY <1>6, <1>7, Zenon DEF Whole, n

-----------------------------------------------------------------------------
(* The operations of the running process *)

\* What is read next is decided by the cells and the store behind them.
LEMMA NextVisible ==
    ASSUME NEW loc, NEW base, localCells'[running'] = loc, Base(running)' = base
    PROVE  Visible' = Seen(Values(loc, base))
<1>1. Visible' = ReadCell(loc, base)
  BY Zenon DEF Visible, ReadCell, ExistsInParent, ResolveValue, ResolveWildcardDeletion,
               pendingWildcardDeletes, IsImmediateChildOfSysPath
<1> QED BY <1>1, ReadCellSees, Zenon

\* The running process sees the view of its values.
LEMMA StateIsView ==
    ASSUME StoreInv
    PROVE  State = View(Values(localCells[running], Base(running)))
BY RunningStore, Zenon DEF State, View

\* An operation that leaves the cells loc makes their view the state.
LEMMA BecomeMaps ==
    ASSUME MapInv, StoreInv', NEW loc, Become(loc),
           running = "sub" => OnlyAdds(loc, Base(running))
    PROVE  MapInv' /\ State' = View(Values(loc, Base(running)))
<1>1. /\ UNCHANGED <<committed, running, ignoreAddresses>>
      /\ localCells' = [localCells EXCEPT ![running] = loc]
      /\ localCells = [s \in Stores |-> localCells[s]] /\ running \in Stores
  BY Zenon DEF Become, MapInv, StoreInv
<1>2. /\ localCells'[running] = loc
      /\ \A s \in Stores : s # running => localCells'[s] = localCells[s]
  BY <1>1
<1>3. "main" \in Stores /\ "sub" \in Stores /\ "main" # "sub"
  BY DEF Stores
<1>4. running = "sub" =>
          ReadCell(localCells'["main"], committed') = ReadCell(localCells["main"], committed)
  BY <1>1, <1>2, <1>3, Zenon
<1>5. Base(running)' = Base(running)
  BY <1>1, <1>4, Zenon DEF Base, Stores
<1>6. Visible' = Seen(Values(loc, Base(running)))
  BY <1>1, <1>2, <1>5, NextVisible, Zenon
<1>7. running' = "sub" =>
          OnlyAdds(localCells'["sub"], ReadCell(localCells'["main"], committed'))
  BY <1>1, <1>2, <1>3, <1>4, Zenon DEF Base
<1>8. MapInv'
  BY <1>1, <1>7, Zenon DEF MapInv
<1> QED BY <1>6, <1>8, Zenon DEF State, View

\* Setting a path whose parent is present is a step of StateMap.
LEMMA MapPut ==
    ASSUME NEW p \in Paths, NEW v, v \in (IF p \in Containers THEN {Present} ELSE Vals),
           Parent[p] \in Paths => State[Parent[p]] # Absent,
           State' = [State EXCEPT ![p] = v]
    PROVE  Map!Next
BY Zenon DEF Map!Next, Map!Put, Map!Contents, State

\* So is making a path and what is directly under it absent.
LEMMA MapRemove ==
    ASSUME NEW p \in Paths,
           State' = [q \in Paths |-> IF p \in {q, Parent[q]} THEN Absent ELSE State[q]]
    PROVE  Map!Next
BY Zenon DEF Map!Next, Map!Remove, State

\* So is making what is directly under a container absent.
LEMMA MapRemoveIn ==
    ASSUME NEW c \in Containers,
           State' = [q \in Paths |-> IF Parent[q] = c THEN Absent ELSE State[q]]
    PROVE  Map!Next
BY Zenon DEF Map!Next, Map!RemoveIn, State

\* An operation that changes no value is not seen.
LEMMA SameMaps ==
    ASSUME MapInv, StoreInv', NEW new, Become(new),
           Values(new, Base(running)) = Values(localCells[running], Base(running))
    PROVE  MapInv' /\ [Map!Next]_State
<1>1. running = "sub" => OnlyAdds(new, Base(running))
  <2>1. ASSUME running = "sub"
        PROVE  OnlyAdds(localCells[running], Base(running))
    <3>1. Base(running) = ReadCell(localCells["main"], committed)
      BY <2>1 DEF Base
    <3> QED BY <2>1, <3>1, Zenon DEF MapInv
  <2> QED BY <2>1, Zenon DEF OnlyAdds
<1>2. MapInv' /\ State' = View(Values(new, Base(running)))
  BY <1>1, BecomeMaps, Zenon
<1>3. State = View(Values(localCells[running], Base(running)))
  BY StateIsView, Zenon DEF MapInv
<1> QED BY <1>2, <1>3, Zenon

\* A write by the running process, after it has read from the cells loc, sets a
\* path or removes it.
LEMMA PutMaps ==
    ASSUME MapInv, StoreInv', NEW loc, Level(loc, Base(running), {}),
           Values(loc, Base(running)) = Values(localCells[running], Base(running)),
           NEW tx, NEW p \in Paths, NEW v, MayPut(tx, p, v, {}),
           NEW new, Puts(loc, new, Base(running), tx, p, v, {}), Become(new),
           p \in Containers /\ v # Nil => Visible[p] = Nil,
           p \in Containers /\ v = Nil => running # "sub",
           v = Nil => p \notin SysPaths
    PROVE  MapInv' /\ [Map!Next]_State
<1> DEFINE base == Base(running)
           m == Values(loc, base)
           n == AfterPut(loc, m, tx, p, v)
           par == Parent[p]
<1>1. State = View(m) /\ Visible = Seen(m) /\ Tree(m, {})
  BY StateIsView, RunningStore, Zenon DEF MapInv, Level
<1>2. CASE ~(m[par] # Nil \/ tx = "SYSTEM")
  <2>1. new = loc
    BY <1>2, Zenon DEF Puts
  <2> QED BY <2>1, SameMaps, Zenon
<1>3. CASE m[par] # Nil \/ tx = "SYSTEM"
  <2>1. Values(new, base) = n
    BY <1>3, Zenon DEF Puts
  <2>2. running = "sub" =>
            Whole(m) /\ \A c \in Containers : base[c] # Nil => m[c] # Nil
    <3> SUFFICES ASSUME running = "sub"
                 PROVE  Whole(m) /\ \A c \in Containers : base[c] # Nil => m[c] # Nil
      BY Zenon
    <3>1. base = ReadCell(localCells["main"], committed)
      BY DEF Base
    <3> QED BY <3>1, Zenon DEF MapInv, OnlyAdds
  <2> HIDE DEF m, base
  <2>3. p \in Containers /\ v # Nil => m[p] = Nil
    BY <1>1, TreeSeen, Zenon
  <2>4. Differs(m, n, p, v)
    BY <1>1, <1>3, <2>3, PutView, Zenon
  <2>5. running = "sub" => Whole(n) /\ \A c \in Containers : m[c] # Nil => n[c] # Nil
    BY <1>1, <1>3, <2>2, <2>3, PutOnlyAdds, Zenon
  <2>6. par \in Containers /\ par \in Paths /\ View(m)[par] # Absent
    <3>1. par \in Containers /\ par \in Paths
      BY Nesting, Zenon DEF MayPut
    <3>2. m[par] # Nil
      <4>1. m[par] # Nil \/ par \in SysPaths
        BY <1>1, <1>3, TrackedParent, Zenon
      <4> QED BY <1>1, <3>1, <4>1, Zenon DEF Tree
    <3> QED BY <1>1, <3>1, <3>2, ContainerExists, NilAssumption, Zenon
  <2> HIDE DEF n
  <2>7. running = "sub" => OnlyAdds(new, base)
    BY <2>1, <2>2, <2>5, Zenon DEF OnlyAdds
  <2>8. MapInv' /\ State' = View(n)
    BY <2>1, <2>7, BecomeMaps, Zenon DEF base
  <2>9. CASE v # Nil
    <3> DEFINE w == Abstracted(p, v)
    <3>1. w \in (IF p \in Containers THEN {Present} ELSE Vals)
      BY <2>9, Zenon DEF Abstracted, MayPut, ValuesAt
    <3>2. \A q \in Paths : View(n)[q] = IF q = p THEN w ELSE View(m)[q]
      BY <2>4, <2>9, Zenon DEF Differs, MayPut
    <3>3. State' = [State EXCEPT ![p] = w]
      <4> HIDE DEF w
      <4>1. View(n) = [q \in Paths |-> View(n)[q]] /\ View(m) = [q \in Paths |-> View(m)[q]]
        BY Zenon DEF View
      <4>2. View(n) = [View(m) EXCEPT ![p] = w]
        BY <3>2, <4>1
      <4> QED BY <1>1, <2>8, <4>2, Zenon
    <3> HIDE DEF w
    <3>4. Map!Next
      BY <1>1, <2>6, <3>1, <3>3, MapPut, Zenon
    <3> QED BY <2>8, <3>4, Zenon
  <2>10. CASE v = Nil
    <3>1. Abstracted(p, v) = Absent
      BY <2>10, Zenon DEF Abstracted
    <3>2. p \notin Containers => \A q \in Paths : Parent[q] # p
      <4>1. p \in Paths \ SysPaths
        BY <2>10, Zenon
      <4>2. \A q \in SysPaths : Parent[q] \notin Paths \ SysPaths
        BY PathAssumption, Zenon
      <4>3. \A q \in Paths \ SysPaths : Parent[q] \in Containers
        BY PathAssumption, Zenon
      <4> QED BY <4>1, <4>2, <4>3, Zenon
    <3>3. \A q \in Paths : View(n)[q] = IF p \in {q, Parent[q]} THEN Absent ELSE View(m)[q]
      BY <2>4, <2>10, <3>1, <3>2, Zenon DEF Differs
    <3>4. View(n) = [q \in Paths |-> IF p \in {q, Parent[q]} THEN Absent ELSE View(m)[q]]
      BY <3>3, Zenon DEF View
    <3>5. Map!Next
      BY <1>1, <2>8, <3>4, MapRemove, Zenon
    <3> QED BY <2>8, <3>5, Zenon
  <2> QED BY <2>9, <2>10, Zenon
<1> QED BY <1>2, <1>3, Zenon

\* Read is not seen.
LEMMA MapRead ==
    ASSUME MapInv, StoreInv', NEW p \in Paths, Read(p)
    PROVE  MapInv' /\ [Map!Next]_State
<1> DEFINE loc == localCells[running]
           base == Base(running)
           new == AfterRead(loc, base, p)
<1>1. IsBase(base) /\ Level(loc, base, {})
  BY RunningStore, Zenon DEF MapInv
<1>2. Become(new)
  BY Zenon DEF Read
<1>3. Values(new, base) = Values(loc, base)
  <2> HIDE DEF loc, base
  <2>1. Reads(loc, new, base, p)
    BY <1>1, ReadKeeps, Zenon
  <2> QED BY <2>1, Zenon DEF Reads
<1> HIDE DEF new
<1> QED BY <1>2, <1>3, SameMaps, Zenon

\* An operation by index that reads the container only is not seen.
LEMMA MapOutOfRange ==
    ASSUME MapInv, StoreInv', NEW c \in Paths, OutOfRange(c)
    PROVE  MapInv' /\ [Map!Next]_State
BY MapRead, Zenon DEF OutOfRange, Read, WithContainerRead

\* A step that leaves the stores alone is not seen.
LEMMA MapOther ==
    ASSUME MapInv, StoreInv', UNCHANGED <<committed, localCells, running, ignoreAddresses>>
    PROVE  MapInv' /\ [Map!Next]_State
<1>1. ReadCell(localCells["main"], committed)' = ReadCell(localCells["main"], committed)
  BY Zenon
<1>2. Base(running)' = Base(running)
  BY <1>1, Zenon DEF Base
<1>3. Visible' = Visible
  <2>1. Visible' = Seen(Values(localCells[running], Base(running)))
    BY <1>2, NextVisible, Zenon
  <2> QED BY <2>1, RunningStore, Zenon DEF MapInv
<1> QED BY <1>1, <1>3, Zenon DEF MapInv, State

\* Nor is its crash.
LEMMA MapNoContainer ==
    ASSUME MapInv, StoreInv', NEW c, NoContainer(c)
    PROVE  MapInv' /\ [Map!Next]_State
BY MapOther, Zenon DEF NoContainer

\* A write sets the path or removes it, or is not seen if the parent is missing.
LEMMA MapWrite ==
    ASSUME MapInv, StoreInv', ~SubMayDelete, NEW tx, NEW p \in Paths, NEW v,
           v \in ValuesAt(p) \cup {Nil}, Writes(tx, p, v),
           v = Nil /\ p \in Containers => MayDelete, Write(tx, p, v)
    PROVE  MapInv' /\ [Map!Next]_State
<1> DEFINE loc == localCells[running]
           base == Base(running)
           new == AfterWrite(loc, base, HasBase(running), tx, p, v)
<1>1. IsBase(base) /\ Knows(HasBase(running), base) /\ Level(loc, base, {})
  BY RunningStore, Zenon DEF MapInv
<1>2. Become(new)
  BY Zenon DEF Write
<1>3. MayPut(tx, p, v, {})
  BY WritesMayPut, Zenon
<1>4. Puts(loc, new, base, tx, p, v, {})
  <2> HIDE DEF loc, base
  <2> QED BY <1>1, <1>3, WriteKeeps, Zenon
<1> HIDE DEF new
<1>5. /\ p \in Containers /\ v # Nil => Visible[p] = Nil
      /\ p \in Containers /\ v = Nil => running # "sub"
      /\ v = Nil => p \notin SysPaths
  BY Zenon DEF Writes, MayDelete
<1> QED BY <1>1, <1>2, <1>3, <1>4, <1>5, PutMaps, Zenon

\* A write to "c*" removes what is in c, or is not seen.
LEMMA MapWriteWildcard ==
    ASSUME MapInv, StoreInv', ~SubMayDelete, NEW tx, NEW c \in Containers \ SysPaths,
           MayDelete, WriteWildcard(tx, c)
    PROVE  MapInv' /\ [Map!Next]_State
<1> DEFINE loc == localCells[running]
           base == Base(running)
           new == AfterWildcard(loc, base, HasBase(running), tx, c)
           m == Values(loc, base)
           n == AfterClear(loc, m, c)
<1>1. IsBase(base) /\ Level(loc, base, {}) /\ State = View(m)
  BY RunningStore, StateIsView, Zenon DEF MapInv
<1>2. Become(new)
  BY Zenon DEF WriteWildcard
<1>3. Clears(loc, new, base, c)
  <2> HIDE DEF loc, base
  <2> QED BY <1>1, WildcardKeeps, Zenon
<1> HIDE DEF new
<1>4. CASE new = loc
  BY <1>2, <1>4, SameMaps, Zenon
<1>5. CASE m[c] # Nil /\ Values(new, base) = n
  <2>1. Tree(m, {}) /\ Tree(n, {})
    BY <1>1, <1>3, <1>5, Zenon DEF Clears, Level
  <2>2. running # "sub"
    BY Zenon DEF MayDelete
  <2>3. MapInv' /\ State' = View(n)
    <3>1. MapInv' /\ State' = View(Values(new, base))
      BY <1>2, <2>2, BecomeMaps, Zenon
    <3> QED BY <1>5, <3>1, Zenon
  <2> HIDE DEF m
  <2>4. \A q \in Paths : View(n)[q] = IF Parent[q] = c THEN Absent ELSE View(m)[q]
    <3> HIDE DEF loc
    <3>1. \A q \in Paths : /\ Parent[q] = c => View(n)[q] = Absent
                           /\ Parent[q] # c => View(n)[q] = View(m)[q]
      BY <1>5, <2>1, ClearView, Zenon
    <3> HIDE DEF n
    <3> QED BY <3>1, Zenon
  <2> HIDE DEF n
  <2>5. View(n) = [q \in Paths |-> IF Parent[q] = c THEN Absent ELSE View(m)[q]]
    BY <2>4, Zenon DEF View
  <2>6. Map!Next
    BY <1>1, <2>3, <2>5, MapRemoveIn, Zenon
  <2> QED BY <2>3, <2>6, Zenon
<1> QED BY <1>3, <1>4, <1>5, Zenon DEF Clears

\* ReadAt is not seen.
LEMMA MapReadAt ==
    ASSUME MapInv, StoreInv', NEW c \in Containers, ReadAt(c)
    PROVE  MapInv' /\ [Map!Next]_State
<1>1. c \in Paths
  BY Nesting, Zenon
<1>2. CASE NoContainer(c)
  BY <1>2, MapNoContainer, Zenon
<1>3. CASE OutOfRange(c)
  BY <1>1, <1>3, MapOutOfRange, Zenon
<1>4. ASSUME Visible[c] # Nil, NEW e \in Visible[c],
             Become(AfterRead(WithContainerRead(c), Base(running), e))
      PROVE  MapInv' /\ [Map!Next]_State
  <2> DEFINE loc == AfterRead(WithContainerRead(c), Base(running), e)
  <2>1. Values(loc, Base(running)) = Values(localCells[running], Base(running))
    BY <1>4, BothRead, Zenon DEF MapInv
  <2>2. Become(loc)
    BY <1>4, Zenon
  <2> HIDE DEF loc
  <2> QED BY <2>1, <2>2, SameMaps, Zenon
<1> QED BY <1>2, <1>3, <1>4, Zenon DEF ReadAt

\* PopBack removes an element.
LEMMA MapPopBack ==
    ASSUME MapInv, StoreInv', NEW c \in Containers \ SysPaths, PopBack(c)
    PROVE  MapInv' /\ [Map!Next]_State
<1>1. c \in Paths /\ StoreInv
  BY Nesting, Zenon DEF MapInv
<1>2. CASE NoContainer(c)
  BY <1>2, MapNoContainer, Zenon
<1>3. CASE OutOfRange(c)
  BY <1>1, <1>3, MapOutOfRange, Zenon
<1> DEFINE base == Base(running)
           read(e) == AfterRead(WithContainerRead(c), base, e)
           popped(e) == AfterWrite(read(e), base, HasBase(running), "user", e, Nil)
<1>4. ASSUME Visible[c] # Nil, NEW e \in Visible[c],
             Become(IF Visible[e] = Nil THEN read(e) ELSE popped(e))
      PROVE  MapInv' /\ [Map!Next]_State
  <2>1. e \in Paths /\ Parent[e] = c /\ Visible[e] # Nil
    BY <1>1, <1>4, VisibleElements, Zenon
  <2> DEFINE loc1 == read(e)
             loc2 == popped(e)
  <2>2. Become(loc2)
    BY <1>4, <2>1, Zenon
  <2>3. Level(loc1, base, {}) /\ Values(loc1, base) = Values(localCells[running], base)
    BY <1>1, <1>4, BothRead, Zenon
  <2>4. IsBase(base) /\ Knows(HasBase(running), base)
    BY <1>1, RunningStore, Zenon
  <2>5. e \notin SysPaths /\ e \notin Containers
    BY <2>1, InContainer, Zenon
  <2>6. MayPut("user", e, Nil, {})
    <3>1. "user" # "SYSTEM"
      OBVIOUS
    <3> QED BY <2>5, <3>1, Zenon DEF MayPut
  <2> HIDE DEF loc1, base
  <2>7. Puts(loc1, loc2, base, "user", e, Nil, {})
    BY <2>1, <2>3, <2>4, <2>6, WriteKeeps, Zenon DEF loc1
  <2> HIDE DEF loc2
  <2> QED BY <2>1, <2>2, <2>3, <2>5, <2>6, <2>7, PutMaps, Zenon DEF base
<1> QED BY <1>2, <1>3, <1>4, Zenon DEF PopBack

\* WriteAt sets an element.
LEMMA MapWriteAt ==
    ASSUME MapInv, StoreInv', NEW c \in Containers \ SysPaths, NEW v \in Vals, WriteAt(c, v)
    PROVE  MapInv' /\ [Map!Next]_State
<1>1. c \in Paths /\ StoreInv
  BY Nesting, Zenon DEF MapInv
<1>2. CASE NoContainer(c)
  BY <1>2, MapNoContainer, Zenon
<1>3. CASE OutOfRange(c)
  BY <1>1, <1>3, MapOutOfRange, Zenon
<1> DEFINE base == Base(running)
           loc0 == localCells[running]
           loc1 == WithContainerRead(c)
<1>4. ASSUME Visible[c] # Nil, NEW e \in Visible[c],
             Become(AfterWrite(loc1, base, HasBase(running), "user", e, v))
      PROVE  MapInv' /\ [Map!Next]_State
  <2> DEFINE loc2 == AfterWrite(loc1, base, HasBase(running), "user", e, v)
  <2>1. e \in Paths /\ Parent[e] = c
    BY <1>1, <1>4, VisibleElements, Zenon
  <2>2. e \notin SysPaths /\ e \notin Containers
    BY <2>1, InContainer, Zenon
  <2>3. Become(loc2)
    BY <1>4, Zenon
  <2>4. IsBase(base) /\ Knows(HasBase(running), base) /\ Level(loc0, base, {})
    BY <1>1, RunningStore, Zenon
  <2>5. loc1 = AfterRead(loc0, base, c)
    BY Zenon DEF WithContainerRead
  <2>6. v \in ValuesAt(e) /\ v # Nil
    <3>1. v \in ValuesAt(e)
      BY <2>2, Zenon DEF ValuesAt
    <3> QED BY <2>1, <3>1, NilAssumption, Zenon
  <2>7. MayPut("user", e, v, {})
    <3>1. "user" # "SYSTEM"
      OBVIOUS
    <3> QED BY <2>2, <2>6, <3>1, Zenon DEF MayPut
  <2> HIDE DEF loc0, loc1, base
  <2>8. Reads(loc0, loc1, base, c)
    BY <1>1, <2>4, <2>5, ReadKeeps, Zenon
  <2>9. Level(loc1, base, {}) /\ Values(loc1, base) = Values(loc0, base)
    BY <2>8, Zenon DEF Reads
  <2>10. Puts(loc1, loc2, base, "user", e, v, {})
    BY <2>1, <2>4, <2>7, <2>9, WriteKeeps, Zenon
  <2> HIDE DEF loc2
  <2> QED BY <2>1, <2>2, <2>3, <2>6, <2>7, <2>9, <2>10, PutMaps, Zenon DEF base, loc0
<1> QED BY <1>2, <1>3, <1>4, Zenon DEF WriteAt

-----------------------------------------------------------------------------
(* Sub-processes and commits *)

\* An empty store over a tree m has the values of m.
LEMMA EmptyValues ==
    ASSUME NEW m, Tree(m, {}), m = [p \in Paths |-> m[p]]
    PROVE  Values(NoCells, m) = m
<1>1. \A p \in Paths : Values(NoCells, m)[p] = m[p]
  BY EmptyLevel, Zenon
<1>2. Values(NoCells, m) = [p \in Paths |-> Values(NoCells, m)[p]]
  BY Zenon DEF Values
<1> QED BY <1>1, <1>2, Zenon

\* A sub-process sees what the process that starts it sees.
LEMMA MapSpawn ==
    ASSUME MapInv, StoreInv', Spawn
    PROVE  MapInv' /\ [Map!Next]_State
<1> DEFINE base == ReadCell(localCells["main"], committed)
           m == Values(localCells["main"], committed)
<1>1. /\ running = "main" /\ running' = "sub" /\ "main" # "sub"
      /\ UNCHANGED <<committed, localCells, ignoreAddresses>>
      /\ localCells["sub"] = NoCells
  BY Zenon DEF Spawn, MapInv, StoreInv
<1>2. base = Seen(m) /\ Tree(m, {}) /\ Visible = Seen(m)
  BY <1>1, ReadCellSees, RunningStore, Zenon DEF MapInv, StoreInv, Level, Base
<1>3. Base(running)' = base /\ ReadCell(localCells["main"], committed)' = base
  BY <1>1, Zenon DEF Base
<1>4. localCells'[running'] = NoCells
  BY <1>1, Zenon
<1> HIDE DEF base, m
<1>5. /\ Tree(Seen(m), {}) /\ Seen(Seen(m)) = Seen(m)
      /\ \A p \in Paths : Exists(Seen(m), p) <=> Exists(m, p)
  BY <1>2, TreeSeen, Zenon
<1>6. Values(NoCells, base) = base
  <2>1. Seen(m) = [p \in Paths |-> Seen(m)[p]]
    BY Zenon DEF Seen
  <2> QED BY <1>2, <1>5, <2>1, EmptyValues, Zenon
<1>7. Visible' = Visible
  <2>1. Visible' = Seen(Values(NoCells, base))
    BY <1>3, <1>4, NextVisible, Zenon
  <2> QED BY <1>2, <1>5, <1>6, <2>1, Zenon
<1>8. OnlyAdds(NoCells, base)
  <2>1. Whole(base)
    <3>1. \A p \in Paths : Seen(m)[p] # Nil => Exists(m, p)
      BY Zenon DEF Seen
    <3> QED BY <1>2, <1>5, <3>1, Zenon DEF Whole
  <2> QED BY <1>6, <2>1, Zenon DEF OnlyAdds
<1>9. MapInv'
  BY <1>1, <1>3, <1>4, <1>8, Zenon DEF MapInv
<1> QED BY <1>7, <1>9, Zenon DEF State

\* Committing is not seen, as no account is left out.
LEMMA MapCommit ==
    ASSUME MapInv, StoreInv', Commit
    PROVE  MapInv' /\ [Map!Next]_State
<1> DEFINE m == Values(localCells["main"], committed)
<1>1. /\ running = "main" /\ running' = "main" /\ ignoreAddresses' = {}
      /\ localCells' = [localCells EXCEPT !["main"] = NoCells]
      /\ localCells = [s \in Stores |-> localCells[s]] /\ "main" # "sub"
  BY Zenon DEF Commit, MapInv, StoreInv
<1>2. committed' = m
  <2>1. committed' = ByAccount({}, committed, m)
    BY CommitResult, Zenon DEF MapInv
  <2>2. ByAccount({}, committed, m) = [p \in Paths |-> m[p]]
    BY Zenon DEF ByAccount
  <2>3. m = [p \in Paths |-> m[p]]
    BY Zenon DEF Values
  <2> QED BY <2>1, <2>2, <2>3, Zenon
<1>3. localCells'[running'] = NoCells
  BY <1>1 DEF Stores
<1>4. Base(running)' = m
  BY <1>1, <1>2, Zenon DEF Base
<1>5. Tree(m, {}) /\ Visible = Seen(m)
  BY <1>1, RunningStore, Zenon DEF MapInv, StoreInv, Level, Base
<1>6. Values(NoCells, m) = m
  <2>1. m = [p \in Paths |-> m[p]]
    BY Zenon DEF Values
  <2> HIDE DEF m
  <2> QED BY <1>5, <2>1, EmptyValues, Zenon
<1> HIDE DEF m
<1>7. Visible' = Visible
  <2>1. Visible' = Seen(Values(NoCells, m))
    BY <1>3, <1>4, NextVisible, Zenon
  <2> QED BY <1>5, <1>6, <2>1, Zenon
<1>8. MapInv'
  BY <1>1, Zenon DEF MapInv
<1> QED BY <1>7, <1>8, Zenon DEF State

-----------------------------------------------------------------------------
(* Insert *)

\* The main store l while Insert copies cells into it, for the view old that
\* the main process had and the view new that the sub-process has: the paths in
\* done show what they are to show, except those in pending, which are listed by
\* a new container and still to be written.
Copying(l, old, new, done, pending) ==
    /\ Level(l, committed, pending)
    /\ \A q \in Paths : q \notin pending =>
           View(Values(l, committed))[q] = IF q \in done THEN new[q] ELSE old[q]

\* Copying one cell makes its path show what it is to show.
LEMMA CopyMaps ==
    ASSUME Tree(committed, {}), NEW old, NEW new, NEW done, NEW pending,
           \A q \in pending : q \notin Containers,
           NEW l, Copying(l, old, new, done, pending),
           NEW p \in Paths, p \notin done, NEW x,
           x.written => MayPut("user", p, x.val, pending) /\ new[p] = Abstracted(p, x.val),
           ~x.written => p \notin pending /\ new[p] = old[p],
           p \in Containers => old[p] = Absent,
           Parent[p] \in done \/ old[Parent[p]] = new[Parent[p]],
           ~IsImmediateChildOfSysPath(p) /\ new[Parent[p]] = Absent => new[p] = Absent
    PROVE  Copying(CopyTo(x, l, p), old, new, done \cup {p}, pending \ {p})
<1> DEFINE inDB == [q \in Paths |-> committed[q] # Nil]
           m == Values(l, committed)
           loc == CopyTo(x, l, p)
           shown(q) == IF q \in done THEN new[q] ELSE old[q]
<1>1. /\ Level(l, committed, pending) /\ Tree(m, pending)
      /\ l \in Caches /\ Faithful(l, committed)
      /\ \A q \in Paths : q \notin pending => View(m)[q] = shown(q)
  BY Zenon DEF Copying, Level
<1>2. IsBase(committed)
  BY Zenon DEF IsBase, Tree
<1>3. Knows(inDB, committed)
  BY Nesting, Zenon DEF Knows
<1>4. "user" # "SYSTEM"
  OBVIOUS
<1>5. SUFFICES /\ Level(loc, committed, pending \ {p})
               /\ View(Values(loc, committed))[p] = new[p]
               /\ \A q \in Paths : q # p /\ q \notin pending =>
                      View(Values(loc, committed))[q] = View(m)[q]
  <2> HIDE DEF loc, m
  <2>1. ASSUME NEW q \in Paths, q \notin pending \ {p}
        PROVE  View(Values(loc, committed))[q] = IF q \in done \cup {p} THEN new[q] ELSE old[q]
    <3>1. CASE q = p
      BY <1>5, <3>1, Zenon
    <3>2. CASE q # p
      BY <1>1, <1>5, <2>1, <3>2, Zenon
    <3> QED BY <3>1, <3>2, Zenon
  <2> QED BY <1>5, <2>1, Zenon DEF Copying, loc
<1>6. CASE ~x.written
  <2>1. loc = AfterRead(l, committed, p)
    BY <1>6, Zenon DEF CopyTo
  <2> HIDE DEF loc
  <2>2. LooksUp(l, loc, committed)
    BY <1>1, <1>2, <2>1, AfterReadLooksUp, Zenon
  <2>3. Level(loc, committed, pending) /\ Values(loc, committed) = m
    BY <1>1, <2>2, LevelLooksUp, Zenon
  <2>4. pending \ {p} = pending
    BY <1>6
  <2> QED BY <1>1, <1>6, <2>3, <2>4, Zenon
<1>7. CASE x.written
  <2>1. loc = AfterWrite(l, committed, inDB, "user", p, x.val)
    BY <1>7, Zenon DEF CopyTo
  <2> DEFINE v == x.val
             par == Parent[p]
  <2>2. MayPut("user", p, v, pending) /\ new[p] = Abstracted(p, v)
    BY <1>7, Zenon
  <2> HIDE DEF loc, inDB, v, shown
  <2>3. Puts(l, loc, committed, "user", p, v, pending)
    BY <1>1, <1>2, <1>3, <2>1, <2>2, WriteKeeps, Zenon DEF v
  <2>4. Level(loc, committed, pending \ {p})
    BY <2>3, Zenon DEF Puts
  <2>5. CASE m[par] # Nil
    <3>1. Values(loc, committed) = AfterPut(l, m, "user", p, v)
      BY <2>3, <2>5, Zenon DEF Puts
    <3> HIDE DEF m
    <3>2. p \in Containers => m[p] = Nil
      <4> SUFFICES ASSUME p \in Containers PROVE m[p] = Nil
        BY Zenon
      <4>1. View(m)[p] = Absent
        BY <1>1, Zenon DEF shown
      <4> QED BY <1>1, <4>1, ContainerExists, NilAssumption, Zenon
    <3>3. Differs(m, AfterPut(l, m, "user", p, v), p, v)
      BY <1>1, <2>2, <2>5, <3>2, PutView, Zenon
    <3> DEFINE n == Values(loc, committed)
    <3>4. Differs(m, n, p, v)
      BY <3>1, <3>3, Zenon
    <3> HIDE DEF n
    <3>5. ASSUME NEW q \in Paths, q # p, q \notin pending
          PROVE  View(n)[q] = View(m)[q]
      <4>1. CASE ~(p \in Containers /\ Parent[q] = p)
        BY <3>4, <3>5, <4>1, Zenon DEF Differs
      <4>2. CASE p \in Containers /\ Parent[q] = p
        <5>1. v = Nil \/ q \notin v
          BY <2>2, <3>5, <4>2, Zenon DEF MayPut
        <5>2. View(n)[q] = Absent
          BY <3>4, <4>2, <5>1, Zenon DEF Differs
        <5>3. p \in Containers \ SysPaths
          BY <2>2, <4>2, Zenon DEF MayPut
        <5>4. ~Exists(m, q)
          BY <3>2, <4>2, <5>3, InContainer, Zenon
        <5> QED BY <5>2, <5>4, Viewed, Zenon
      <4> QED BY <4>1, <4>2, Zenon
    <3>6. View(n)[p] = new[p]
      BY <2>2, <3>4, Zenon DEF Differs
    <3> QED BY <2>4, <3>5, <3>6, Zenon DEF n
  <2>6. CASE m[par] = Nil
    <3>1. loc = l
      BY <1>4, <2>3, <2>6, Zenon DEF Puts
    <3> HIDE DEF m
    <3>2. par \in Containers /\ par \in Paths /\ (p \in SysPaths => par \in SysPaths)
      BY <2>2, Nesting, Zenon DEF MayPut
    <3>3. par \notin SysPaths
      BY <1>1, <2>6, <3>2, Zenon DEF Tree
    <3>4. ~IsImmediateChildOfSysPath(p)
      BY <3>2, <3>3, Zenon DEF IsImmediateChildOfSysPath
    <3>5. View(m)[p] = Absent
      BY <2>6, <3>4, UnderContainer, Viewed, Zenon
    <3>6. View(m)[par] = Absent
      BY <2>6, <3>2, Viewed, Zenon
    <3>7. new[par] = Absent
      BY <1>1, <3>2, <3>6, Zenon DEF shown
    <3>8. new[p] = Absent
      BY <3>4, <3>7, Zenon
    <3> QED BY <2>4, <3>1, <3>5, <3>8, Zenon DEF m
  <2> QED BY <2>5, <2>6, Zenon
<1> QED BY <1>6, <1>7, Zenon

\* What the paths show before and after Insert: those whose cells are not
\* copied show the same, and those whose cells are show what the cells hold.
LEMMA InsertViews ==
    ASSUME MapInv, running = "sub"
    PROVE  LET sub == localCells["sub"]
               base == ReadCell(localCells["main"], committed)
               creations == {p \in Export("sub") \cap Containers : ~sub[p].committed}
               rest == Export("sub") \ Containers
               old == View(Values(localCells["main"], committed))
               new == View(Values(sub, base))
           IN  /\ \A p \in Paths : p \notin creations /\ p \notin rest => new[p] = old[p]
               /\ \A p \in creations : old[p] = Absent
               /\ \A p \in creations \cup rest :
                      IF sub[p].written THEN new[p] = Abstracted(p, sub[p].val)
                      ELSE new[p] = old[p]
               /\ \A p \in Paths :
                      ~IsImmediateChildOfSysPath(p) /\ new[Parent[p]] = Absent => new[p] = Absent
<1> DEFINE sub == localCells["sub"]
           base == ReadCell(localCells["main"], committed)
           creations == {p \in Export("sub") \cap Containers : ~sub[p].committed}
           rest == Export("sub") \ Containers
           m0 == Values(localCells["main"], committed)
           m == Values(sub, base)
           old == View(m0)
           new == View(m)
<1>1. /\ Level(sub, base, {}) /\ base = Seen(m0) /\ Tree(m0, {})
      /\ OnlyAdds(sub, base)
  BY ReadCellSees, Zenon DEF MapInv, StoreInv, Level
<1>2. Faithful(sub, base) /\ Tree(m, {})
  BY <1>1, Zenon DEF Level
<1>3. Whole(m) /\ \A c \in Containers : base[c] # Nil => m[c] # Nil
  BY <1>1, Zenon DEF OnlyAdds
<1>4. \A p \in Paths : m[p] = ResolveValue(sub, base, p)
  BY Zenon DEF Values
<1>5. \A p \in Paths : p \in Export("sub") <=>
          sub[p] # NoCell /\ (sub[p].read \/ sub[p].written)
  BY Zenon DEF Export
<1>6. \A p \in creations : base[p] = Nil /\ p \in Paths
  BY Exported, Zenon DEF MapInv
<1>7. \A p \in Paths : /\ p \in creations <=> p \in Export("sub") /\ p \in Containers
                                              /\ ~sub[p].committed
                       /\ p \in rest <=> p \in Export("sub") /\ p \notin Containers
  BY Zenon
<1>8. \A p \in creations \cup rest : p \in Paths
  BY Zenon DEF Export
<1> HIDE DEF sub, base, creations, rest, m0, m
<1>9. ASSUME NEW p \in Paths
      PROVE  old[p] = Abstracted(p, base[p])
  BY <1>1, Zenon DEF View
<1>10. ASSUME NEW p \in Paths
       PROVE  new[p] = Abstracted(p, m[p])
  <2>1. m[p] = Nil => Abstracted(p, m[p]) = Absent
    BY Zenon DEF Abstracted
  <2> QED BY <1>3, <2>1, Viewed, Zenon DEF Whole
<1>11. ASSUME NEW p \in Paths, ~WrittenIn(sub, p)
       PROVE  new[p] = old[p]
  <2>1. m[p] = base[p]
    <3>1. sub[p] # NoCell => sub[p].val = base[p]
      BY <1>2, <1>11, Zenon DEF Faithful, WrittenIn
    <3> QED BY <1>4, <3>1, CachedValue
  <2> QED BY <1>9, <1>10, <2>1, Zenon
<1>12. ASSUME NEW p \in Paths, WrittenIn(sub, p)
       PROVE  m[p] = sub[p].val /\ p \in Export("sub")
  <2>1. sub[p] # NoCell /\ sub[p].written
    BY <1>12, Zenon DEF WrittenIn
  <2>2. m[p] = sub[p].val
    BY <1>4, <2>1, CachedValue
  <2> QED BY <1>5, <2>1, <2>2, Zenon
<1>13. ASSUME NEW p \in Paths, p \notin creations, p \notin rest
       PROVE  new[p] = old[p]
  <2>1. CASE ~WrittenIn(sub, p)
    BY <1>11, <2>1, Zenon
  <2>2. CASE WrittenIn(sub, p)
    <3>1. p \in Containers /\ sub[p].committed /\ sub[p] # NoCell
      BY <1>7, <1>12, <1>13, <2>2, Zenon DEF WrittenIn
    <3>2. base[p] # Nil /\ m[p] # Nil
      BY <1>2, <1>3, <3>1, Zenon DEF Faithful
    <3>3. Abstracted(p, base[p]) = Present /\ Abstracted(p, m[p]) = Present
      BY <3>1, <3>2, Zenon DEF Abstracted
    <3>4. old[p] = Abstracted(p, base[p]) /\ new[p] = Abstracted(p, m[p])
      BY <1>9, <1>10, Zenon
    <3> QED BY <3>3, <3>4, Zenon
  <2> QED BY <2>1, <2>2, Zenon
<1>14. ASSUME NEW p \in creations
       PROVE  old[p] = Absent
  <2>1. Abstracted(p, Nil) = Absent
    BY Zenon DEF Abstracted
  <2> QED BY <1>6, <1>9, <2>1, Zenon
<1>15. ASSUME NEW p \in creations \cup rest
       PROVE  IF sub[p].written THEN new[p] = Abstracted(p, sub[p].val)
              ELSE new[p] = old[p]
  <2>1. p \in Paths /\ sub[p] # NoCell
    BY <1>5, <1>7, <1>8, Zenon
  <2>2. CASE sub[p].written
    BY <1>10, <1>12, <2>1, <2>2, Zenon DEF WrittenIn
  <2>3. CASE ~sub[p].written
    BY <1>11, <2>1, <2>3, Zenon DEF WrittenIn
  <2> QED BY <2>2, <2>3, Zenon
<1>16. ASSUME NEW p \in Paths, ~IsImmediateChildOfSysPath(p), new[Parent[p]] = Absent
       PROVE  new[p] = Absent
  <2>1. /\ Parent[p] \in Containers
        /\ Exists(m, p) => m[Parent[p]] # Nil
    BY <1>16, UnderContainer, Zenon
  <2>2. m[Parent[p]] = Nil
    BY <1>2, <1>16, <2>1, ContainerExists, NilAssumption, Zenon
  <2> QED BY <2>1, <2>2, Viewed, Zenon
<1> HIDE DEF old, new
<1> QED BY <1>13, <1>14, <1>15, <1>16, Zenon DEF old, new, sub, base, creations, rest, m0, m

\* When Insert has copied the cells, the main process sees what the sub-process
\* saw.
LEMMA InsertView ==
    ASSUME MapInv, running = "sub"
    PROVE  LET sub == localCells["sub"]
               creations == {p \in Export("sub") \cap Containers : ~sub[p].committed}
               rest == Export("sub") \ Containers
               loc == Copied(sub, Copied(sub, localCells["main"], creations), rest)
           IN  View(Values(loc, committed)) =
                   View(Values(sub, ReadCell(localCells["main"], committed)))
<1> DEFINE sub == localCells["sub"]
           main == localCells["main"]
           base == ReadCell(main, committed)
           creations == {p \in Export("sub") \cap Containers : ~sub[p].committed}
           rest == Export("sub") \ Containers
           pending == {p \in rest : sub[p].written /\ sub[p].val # Nil}
           m0 == Values(main, committed)
           m == Values(sub, base)
           old == View(m0)
           new == View(m)
           both == creations \cup rest
<1>1. /\ creations \in SUBSET Paths /\ rest \in SUBSET Paths
      /\ IsFiniteSet(creations) /\ IsFiniteSet(rest)
      /\ \A p \in both : /\ sub[p].written => MayPut("user", p, sub[p].val, pending)
                         /\ ~sub[p].written => p \notin pending
  BY Exported, Zenon DEF MapInv
<1>2. /\ \A p \in Paths : p \notin creations /\ p \notin rest => new[p] = old[p]
      /\ \A p \in creations : old[p] = Absent
      /\ \A p \in both : IF sub[p].written THEN new[p] = Abstracted(p, sub[p].val)
                         ELSE new[p] = old[p]
      /\ \A p \in Paths :
             ~IsImmediateChildOfSysPath(p) /\ new[Parent[p]] = Absent => new[p] = Absent
  BY InsertViews, Zenon
<1>3. /\ \A p \in creations : p \in Containers
      /\ \A p \in rest : p \notin Containers
      /\ pending \subseteq rest
  BY Zenon
<1>4. Tree(committed, {}) /\ Level(main, committed, {}) /\ main \in Caches
  BY Zenon DEF MapInv, StoreInv, Level
<1>5. \A p \in creations : p \notin SysPaths
  <2>1. \A p \in creations : base[p] = Nil
    BY Exported, Zenon DEF MapInv
  <2>2. Tree(base, {})
    BY RunningStore, Zenon DEF MapInv, Base
  <2> HIDE DEF base, creations
  <2> QED BY <1>3, <2>1, <2>2, Zenon DEF Tree
<1>6. Copying(main, old, new, {}, pending)
  <2>1. Level(main, committed, pending)
    <3> HIDE DEF main, pending
    <3> QED BY <1>4, Zenon DEF Level, Tree
  <2> HIDE DEF pending, new
  <2> QED BY <2>1, Zenon DEF Copying
<1> HIDE DEF pending, creations, rest, old, new, sub, main
<1>7. \A p \in Paths : p \in SysPaths /\ p \in Containers => p \notin creations /\ p \notin rest
  BY <1>3, <1>5, Zenon
<1>8. ASSUME NEW p \in both
      PROVE  /\ p \in Paths
             /\ p \in Containers => Parent[p] \in SysPaths /\ Parent[p] \in Containers
             /\ p \notin Containers => Parent[p] \in Containers
             /\ Parent[p] \in Paths
  BY <1>1, <1>3, <1>5, Nesting, Zenon
<1>9. ASSUME NEW p \in both
      PROVE  /\ Parent[p] \in creations \/ old[Parent[p]] = new[Parent[p]]
             /\ p \in creations => old[Parent[p]] = new[Parent[p]]
  BY <1>2, <1>3, <1>7, <1>8, Zenon
<1>10. ASSUME NEW p \in both, NEW pen, pen \subseteq pending, NEW done, p \notin done,
              \A e \in pending : p \in Containers => e \in pen,
              Parent[p] \in done \/ old[Parent[p]] = new[Parent[p]],
              NEW l, Copying(l, old, new, done, pen)
       PROVE  Copying(CopyTo(sub[p], l, p), old, new, done \cup {p}, pen \ {p})
  <2> DEFINE x == sub[p]
  <2>1. /\ x.written => MayPut("user", p, x.val, pending) /\ new[p] = Abstracted(p, x.val)
        /\ ~x.written => p \notin pending /\ new[p] = old[p]
    BY <1>1, <1>2, Zenon
  <2>2. /\ p \in Paths
        /\ p \in Containers => old[p] = Absent
        /\ ~IsImmediateChildOfSysPath(p) /\ new[Parent[p]] = Absent => new[p] = Absent
    BY <1>2, <1>3, <1>8, Zenon
  <2> HIDE DEF x
  <2>3. /\ x.written => MayPut("user", p, x.val, pen) /\ new[p] = Abstracted(p, x.val)
        /\ ~x.written => p \notin pen /\ new[p] = old[p]
    <3>1. x.written => MayPut("user", p, x.val, pen)
      BY <1>10, <2>1, Zenon DEF MayPut
    <3> QED BY <1>10, <2>1, <3>1, Zenon
  <2>4. \A q \in pen : q \notin Containers
    BY <1>3, <1>10, Zenon
  <2>5. Copying(CopyTo(x, l, p), old, new, done \cup {p}, pen \ {p})
    BY <1>4, <1>10, <2>2, <2>3, <2>4, CopyMaps, Zenon
  <2> QED BY <2>5, Zenon DEF x
<1> DEFINE K1(s) == {l \in Caches : Copying(l, old, new, s, pending)}
           Kept1 == [s \in SUBSET creations |-> K1(s)]
           loc1 == Copied(sub, main, creations)
<1>11. loc1 \in K1(creations)
  <2>1. ASSUME NEW s \in SUBSET creations, NEW p \in creations \ s, NEW l \in K1(s)
        PROVE  CopyTo(sub[p], l, p) \in K1(s \cup {p})
    <3>1. p \in both /\ p \notin s /\ p \notin pending /\ Copying(l, old, new, s, pending)
          /\ pending \subseteq pending
      BY <1>3, Zenon
    <3>2. pending \ {p} = pending
      BY <3>1
    <3>3. Copying(CopyTo(sub[p], l, p), old, new, s \cup {p}, pending \ {p})
      BY <1>9, <1>10, <3>1, Zenon
    <3>4. Copying(CopyTo(sub[p], l, p), old, new, s \cup {p}, pending)
      BY <3>2, <3>3, Zenon
    <3>5. CopyTo(sub[p], l, p) \in Caches
      BY <3>4, Zenon DEF Copying, Level
    <3> QED BY <3>4, <3>5, Zenon
  <2>2. main \in K1({})
    BY <1>4, <1>6, Zenon
  <2>3. {} \in SUBSET creations /\ creations \in SUBSET creations
    BY Zenon
  <2> HIDE DEF K1
  <2>4. \A s \in SUBSET creations : Kept1[s] = K1(s)
    BY Zenon
  <2>5. \A s \in SUBSET creations : \A p \in creations \ s : \A l \in Kept1[s] :
            CopyTo(sub[p], l, p) \in Kept1[s \cup {p}]
    <3> SUFFICES ASSUME NEW s \in SUBSET creations, NEW p \in creations \ s, NEW l \in Kept1[s]
                 PROVE  CopyTo(sub[p], l, p) \in Kept1[s \cup {p}]
      BY Zenon
    <3>1. s \cup {p} \in SUBSET creations
      BY Zenon
    <3>2. l \in K1(s) /\ Kept1[s \cup {p}] = K1(s \cup {p})
      BY <2>4, <3>1, Zenon
    <3> QED BY <2>1, <3>2, Zenon
  <2>6. main \in Kept1[{}]
    BY <2>2, <2>3, <2>4, Zenon
  <2> HIDE DEF Kept1
  <2>7. Copied(sub, main, creations) \in Kept1[creations]
    BY <1>1, <2>5, <2>6, CopiedKeeps, Zenon
  <2> QED BY <2>3, <2>4, <2>7, Zenon
<1> HIDE DEF loc1
<1> DEFINE K2(s) == {l \in Caches : Copying(l, old, new, creations \cup s, pending \ s)}
           Kept2 == [s \in SUBSET rest |-> K2(s)]
           loc2 == Copied(sub, loc1, rest)
<1>12. loc2 \in K2(rest)
  <2>1. ASSUME NEW s \in SUBSET rest, NEW p \in rest \ s, NEW l \in K2(s)
        PROVE  CopyTo(sub[p], l, p) \in K2(s \cup {p})
    <3> DEFINE pen == pending \ s
               done == creations \cup s
    <3>1. p \in both /\ p \notin done /\ p \notin Containers /\ pen \subseteq pending
          /\ Copying(l, old, new, done, pen)
      BY <1>3, Zenon
    <3>2. pen \ {p} = pending \ (s \cup {p}) /\ done \cup {p} = creations \cup (s \cup {p})
      OBVIOUS
    <3>3. Parent[p] \in done \/ old[Parent[p]] = new[Parent[p]]
      BY <1>9, <3>1, Zenon
    <3> HIDE DEF pen, done
    <3>4. Copying(CopyTo(sub[p], l, p), old, new, done \cup {p}, pen \ {p})
      BY <1>10, <3>1, <3>3, Zenon
    <3>5. Copying(CopyTo(sub[p], l, p), old, new, creations \cup (s \cup {p}),
                  pending \ (s \cup {p}))
      BY <3>2, <3>4, Zenon
    <3>6. CopyTo(sub[p], l, p) \in Caches
      BY <3>5, Zenon DEF Copying, Level
    <3> QED BY <3>5, <3>6, Zenon
  <2>2. loc1 \in K2({})
    <3>1. creations \cup {} = creations /\ pending \ {} = pending
      OBVIOUS
    <3>2. loc1 \in Caches /\ Copying(loc1, old, new, creations, pending)
      BY <1>11, Zenon
    <3>3. Copying(loc1, old, new, creations \cup {}, pending \ {})
      BY <3>1, <3>2, Zenon
    <3> QED BY <3>2, <3>3, Zenon
  <2>3. {} \in SUBSET rest /\ rest \in SUBSET rest
    BY Zenon
  <2> HIDE DEF K2
  <2>4. \A s \in SUBSET rest : Kept2[s] = K2(s)
    BY Zenon
  <2>5. \A s \in SUBSET rest : \A p \in rest \ s : \A l \in Kept2[s] :
            CopyTo(sub[p], l, p) \in Kept2[s \cup {p}]
    <3> SUFFICES ASSUME NEW s \in SUBSET rest, NEW p \in rest \ s, NEW l \in Kept2[s]
                 PROVE  CopyTo(sub[p], l, p) \in Kept2[s \cup {p}]
      BY Zenon
    <3>1. s \cup {p} \in SUBSET rest
      BY Zenon
    <3>2. l \in K2(s) /\ Kept2[s \cup {p}] = K2(s \cup {p})
      BY <2>4, <3>1, Zenon
    <3> QED BY <2>1, <3>2, Zenon
  <2>6. loc1 \in Kept2[{}]
    BY <2>2, <2>3, <2>4, Zenon
  <2> HIDE DEF Kept2
  <2>7. Copied(sub, loc1, rest) \in Kept2[rest]
    BY <1>1, <2>5, <2>6, CopiedKeeps, Zenon
  <2> QED BY <2>3, <2>4, <2>7, Zenon
<1> HIDE DEF loc2
<1>13. \A q \in Paths : View(Values(loc2, committed))[q] = new[q]
  <2>1. \A q \in Paths : q \notin pending \ rest =>
            View(Values(loc2, committed))[q] = IF q \in both THEN new[q] ELSE old[q]
    BY <1>12, Zenon DEF Copying
  <2> QED BY <1>2, <1>3, <2>1, Zenon
<1>14. View(Values(loc2, committed)) = new
  <2>1. new = [q \in Paths |-> new[q]]
    BY Zenon DEF View, new
  <2>2. View(Values(loc2, committed)) = [q \in Paths |-> View(Values(loc2, committed))[q]]
    BY Zenon DEF View
  <2> QED BY <1>13, <2>1, <2>2, Zenon
<1> QED BY <1>14, Zenon DEF loc2, loc1, creations, rest, main, sub, new

\* Insert is not seen.
LEMMA MapInsert ==
    ASSUME MapInv, StoreInv', Insert
    PROVE  MapInv' /\ [Map!Next]_State
<1> DEFINE sub == localCells["sub"]
           creations == {p \in Export("sub") \cap Containers : ~sub[p].committed}
           loc == Copied(sub, Copied(sub, localCells["main"], creations), Export("sub") \ Containers)
<1>1. /\ running = "sub" /\ running' = "main"
      /\ localCells' = [main |-> loc, sub |-> NoCells]
      /\ UNCHANGED <<committed, ignoreAddresses>>
  BY Zenon DEF Insert
<1>2. View(Values(loc, committed)) = View(Values(sub, ReadCell(localCells["main"], committed)))
  BY <1>1, InsertView, Zenon
<1> HIDE DEF loc
<1>3. localCells'[running'] = loc /\ "main" # "sub"
  BY <1>1
<1>4. Base(running)' = committed
  BY <1>1, Zenon DEF Base
<1>5. State' = View(Values(loc, committed))
  <2>1. Visible' = Seen(Values(loc, committed))
    BY <1>3, <1>4, NextVisible, Zenon
  <2> QED BY <2>1, Zenon DEF State, View
<1>6. State = View(Values(sub, ReadCell(localCells["main"], committed)))
  <2>1. Base(running) = ReadCell(localCells["main"], committed)
    BY <1>1, <1>3, Zenon DEF Base
  <2> QED BY <1>1, <2>1, StateIsView, Zenon DEF MapInv
<1>7. MapInv'
  BY <1>1, <1>3, Zenon DEF MapInv
<1> QED BY <1>2, <1>5, <1>6, <1>7, Zenon

-----------------------------------------------------------------------------
(* The store implements the map *)

\* The store starts as a map.
LEMMA MapInit == Init => MapInv /\ Map!Init
<1> SUFFICES ASSUME Init PROVE MapInv /\ Map!Init
  BY Zenon
<1>1. StoreInv
  BY InvInit, Zenon
<1>2. running = "main" /\ ignoreAddresses = {} /\ "main" # "sub"
  BY Zenon DEF Init
<1>3. \A p \in Paths : Visible[p] \in ValuesAt(p) \cup {Nil}
  <2> DEFINE m == Values(localCells[running], Base(running))
  <2>1. Tree(m, {}) /\ Visible = Seen(m)
    BY <1>1, RunningStore, Zenon DEF Level
  <2> HIDE DEF m
  <2>2. Tree(Seen(m), {})
    BY <2>1, TreeSeen, Zenon
  <2> QED BY <2>1, <2>2, Zenon DEF Tree
<1>4. \A p \in Paths : Abstracted(p, Visible[p]) \in Vals \cup {Present, Absent}
  BY <1>3, Zenon DEF Abstracted, ValuesAt
<1>5. Map!Init
  BY <1>4 DEF Map!Init
<1> QED BY <1>1, <1>2, <1>5, Zenon DEF MapInv

\* A step of a store, whose sub-processes delete no container and whose accounts
\* are not taken back, is a step of the map or not seen.
LEMMA MapNext ==
    ASSUME ~SubMayDelete, ~MayRevert, MapInv, [Next]_vars
    PROVE  MapInv' /\ [Map!Next]_State
<1>0. StoreInv'
  BY InvNext, Zenon DEF MapInv
<1> DEFINE Goal == MapInv' /\ [Map!Next]_State
<1>1. ASSUME NEW p \in Paths \ ContainerRoots, Read(p) PROVE Goal
  BY <1>0, <1>1, MapRead, Zenon
<1>2. ASSUME NEW p \in Paths \ ContainerRoots, ReadCommitted(p) PROVE Goal
  BY <1>0, <1>2, MapOther, Zenon DEF ReadCommitted
<1>3. ASSUME NEW tx, NEW p \in Paths, NEW v, v \in ValuesAt(p) \cup {Nil}, Writes(tx, p, v),
             v = Nil /\ p \in Containers => MayDelete, Write(tx, p, v)
      PROVE  Goal
  BY <1>0, <1>3, MapWrite, Zenon
<1>4. ASSUME NEW tx, NEW c \in Containers \ SysPaths, MayDelete, WriteWildcard(tx, c)
      PROVE  Goal
  BY <1>0, <1>4, MapWriteWildcard, Zenon
<1>5. ASSUME NEW c \in Containers \ SysPaths, IndexOf(c) PROVE Goal
  BY <1>0, <1>5, MapRead, Nesting, Zenon DEF IndexOf
<1>6. ASSUME NEW c \in Containers \ SysPaths, ReadAt(c) PROVE Goal
  BY <1>0, <1>6, MapReadAt, Zenon
<1>7. ASSUME NEW c \in Containers \ SysPaths, PopBack(c) PROVE Goal
  BY <1>0, <1>7, MapPopBack, Zenon
<1>8. ASSUME NEW c \in Containers \ SysPaths, NEW v \in Vals, WriteAt(c, v) PROVE Goal
  BY <1>0, <1>8, MapWriteAt, Zenon
<1>9. CASE Spawn
  BY <1>0, <1>9, MapSpawn, Zenon
<1>10. CASE Insert
  BY <1>0, <1>10, MapInsert, Zenon
<1>11. CASE Commit
  BY <1>0, <1>11, MapCommit, Zenon
<1>12. CASE UNCHANGED vars
  BY <1>0, <1>12, MapOther, Zenon DEF vars
<1>13. CASE Crashed
  BY <1>12, <1>13, Zenon DEF Crashed
<1>14. \A p \in Paths : \A v \in ValuesAt(p) : v \in ValuesAt(p) \cup {Nil} /\ v # Nil
  BY NilAssumption, Zenon
<1> HIDE DEF Goal
<1>15. ASSUME NEW tx, NEW p \in Paths, NEW v \in ValuesAt(p), Writes(tx, p, v), Write(tx, p, v)
       PROVE  Goal
  BY <1>3, <1>14, <1>15, Zenon
<1>16. ASSUME NEW tx, NEW p \in Paths, Writes(tx, p, Nil), p \in Containers => MayDelete,
              Write(tx, p, Nil)
       PROVE  Goal
  BY <1>3, <1>16, Zenon
<1> QED
  BY <1>1, <1>2, <1>4, <1>5, <1>6, <1>7, <1>8, <1>9, <1>10, <1>11, <1>12, <1>13,
     <1>15, <1>16, Zenon DEF Next, Goal

\* What the running process reads behaves like a map, as long as sub-processes
\* delete no container and no account is taken back: whatever its caches hold,
\* whichever containers were deleted and created again, and in whatever order
\* the cells of a sub-process are inserted.
THEOREM StoreRefinesMap ==
    ASSUME ~SubMayDelete, ~MayRevert
    PROVE  Spec => MapSpec
<1>1. MapInv /\ [Next]_vars => MapInv' /\ [Map!Next]_State
  BY MapNext
<1> QED BY <1>1, MapInit, PTL DEF Spec, MapSpec, Map!Spec, State
=============================================================================
