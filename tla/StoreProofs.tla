---------------------------- MODULE StoreProofs ----------------------------
(***************************************************************************)
(* Proofs about ExecutionStateStore, for any paths, values and caches: its *)
(* types, that what a container lists exists, what is committed together   *)
(* and that reads are recorded, also when sub-processes delete containers  *)
(* and accounts are taken back.                                            *)
(*                                                                         *)
(* None of these is inductive.  The argument: the values of every store,   *)
(* and the committed ones, form a tree in which a container exists if and  *)
(* only if it is listed and what is listed has a value.  The elements of a *)
(* deleted container that were not cached keep their values, but nothing   *)
(* lists them.  While Insert copies the cells of a sub-process, in any     *)
(* order, a new container lists elements that are still to be written; the *)
(* tree is stated up to those.                                             *)
(***************************************************************************)
EXTENDS ExecutionStateStore, FiniteSetTheorems, TLAPS

-----------------------------------------------------------------------------
(* Copying cells one after the other *)

\* A set of naturals that has a member has a least one.
LEMMA LeastNumber ==
    ASSUME NEW T \in SUBSET Nat, T # {}
    PROVE  \E x \in T : \A y \in T : x <= y
<1> DEFINE R == OpToRel(<, Nat)
<1>1. IsWellFoundedOn(R, Nat)
  BY NatLessThanWellFounded, Zenon
<1>2. PICK x \in T : \A y \in T : ~ (<<y, x>> \in R)
  <2> HIDE DEF R
  <2> QED BY <1>1, WFMin, Zenon
<1>3. \A y \in T : ~ (y < x)
  BY <1>2 DEF OpToRel
<1> QED BY <1>3

\* A set of subsets of a finite set that has a member has a smallest one, and
\* what is left of that without one of its elements is not in the set.
LEMMA SmallestSet ==
    ASSUME NEW S, IsFiniteSet(S), NEW Bad \in SUBSET (SUBSET S), Bad # {}
    PROVE  \E s \in Bad : \A x \in s : s \ {x} \notin Bad
<1> DEFINE T == {Cardinality(s) : s \in Bad}
<1>1. \A s \in SUBSET S : IsFiniteSet(s) /\ Cardinality(s) \in Nat
  BY FS_Subset, FS_CardinalityType, Zenon
<1>2. T \in SUBSET Nat /\ T # {}
  BY <1>1
<1>3. PICK s \in Bad : \A t \in Bad : Cardinality(s) <= Cardinality(t)
  <2>1. PICK n \in T : \A m \in T : n <= m
    <3> HIDE DEF T
    <3> QED BY <1>2, LeastNumber, Zenon
  <2> QED BY <2>1
<1>4. ASSUME NEW x \in s, s \ {x} \in Bad
      PROVE  FALSE
  <2>1. Cardinality(s \ {x}) = Cardinality(s) - 1
    BY <1>1, FS_RemoveElement
  <2> QED BY <1>1, <1>3, <1>4, <2>1
<1> QED BY <1>4, Zenon

\* The element that a fold over the set s takes last.
LastOf(s) == CHOOSE x \in s : TRUE

\* The function on the sets in D that gives what copying the cells of each
\* leaves.
CopyRecursion(iter, sub, loc, D) ==
    iter = [s \in D |-> IF s = {} THEN loc
                        ELSE CopyTo(sub[LastOf(s)], iter[s \ {LastOf(s)}], LastOf(s))]

\* That function exists on the subsets of a finite set.
LEMMA RecursionExists ==
    ASSUME NEW S, IsFiniteSet(S), NEW sub, NEW loc
    PROVE  \E iter : CopyRecursion(iter, sub, loc, SUBSET S)
<1> DEFINE D(n) == {s \in SUBSET S : Cardinality(s) <= n}
           Exists(n) == \E iter : CopyRecursion(iter, sub, loc, D(n))
           Bad == {n \in Nat : ~Exists(n)}
<1>1. \A s \in SUBSET S : IsFiniteSet(s) /\ Cardinality(s) \in Nat
  BY FS_Subset, FS_CardinalityType, Zenon
<1>2. \A s \in SUBSET S : s # {} =>
          /\ LastOf(s) \in s /\ s \ {LastOf(s)} \in SUBSET S
          /\ Cardinality(s \ {LastOf(s)}) = Cardinality(s) - 1
  <2> SUFFICES ASSUME NEW s \in SUBSET S, s # {}
               PROVE  /\ LastOf(s) \in s /\ s \ {LastOf(s)} \in SUBSET S
                      /\ Cardinality(s \ {LastOf(s)}) = Cardinality(s) - 1
    BY Zenon
  <2>1. LastOf(s) \in s
    BY Zenon DEF LastOf
  <2> QED BY <1>1, <2>1, FS_RemoveElement
<1>3. Exists(0)
  <2>1. \A s \in D(0) : s = {}
    BY <1>1, FS_EmptySet
  <2>2. CopyRecursion([s \in D(0) |-> loc], sub, loc, D(0))
    <3> HIDE DEF D
    <3> QED BY <2>1, Zenon DEF CopyRecursion
  <2> QED BY <2>2, Zenon
<1>4. ASSUME NEW n \in Nat, Exists(n)
      PROVE  Exists(n + 1)
  <2>1. PICK f : CopyRecursion(f, sub, loc, D(n))
    BY <1>4, Zenon
  <2> DEFINE next(s) == CopyTo(sub[LastOf(s)], f[s \ {LastOf(s)}], LastOf(s))
             g == [s \in D(n + 1) |-> IF s = {} THEN loc ELSE next(s)]
  <2>2. \A s \in D(n) : s \in D(n + 1)
    BY <1>1
  <2>3. \A s \in D(n + 1) : s # {} => s \ {LastOf(s)} \in D(n)
    BY <1>1, <1>2
  <2>4. \A s \in D(n) : g[s] = f[s]
    <3> HIDE DEF D
    <3> QED BY <2>1, <2>2, Zenon DEF CopyRecursion
  <2>5. \A s \in D(n + 1) : s # {} => g[s \ {LastOf(s)}] = f[s \ {LastOf(s)}]
    BY <2>3, <2>4, Zenon
  <2>6. CopyRecursion(g, sub, loc, D(n + 1))
    <3> DEFINE h == [s \in D(n + 1) |->
                       IF s = {} THEN loc
                       ELSE CopyTo(sub[LastOf(s)], g[s \ {LastOf(s)}], LastOf(s))]
    <3>1. \A s \in D(n + 1) : g[s] = h[s]
      <4> HIDE DEF D
      <4> QED BY <2>5, Zenon
    <3>2. g = h
      <4> HIDE DEF D
      <4> QED BY <3>1, Zenon
    <3> QED BY <3>2, Zenon DEF CopyRecursion
  <2> QED BY <2>6, Zenon
<1>5. Bad = {}
  <2> SUFFICES ASSUME Bad # {} PROVE FALSE
    BY Zenon
  <2>1. PICK n \in Bad : \A m \in Bad : n <= m
    <3>1. Bad \in SUBSET Nat
      BY Zenon
    <3> HIDE DEF Bad
    <3> QED BY <3>1, LeastNumber, Zenon
  <2> HIDE DEF Exists
  <2>2. n \in Nat /\ n # 0
    BY <1>3
  <2>3. n - 1 \in Nat /\ n - 1 \notin Bad
    BY <2>1, <2>2
  <2>4. Exists(n - 1)
    BY <2>3
  <2>5. Exists((n - 1) + 1)
    BY <1>4, <2>3, <2>4, Zenon
  <2> QED BY <2>2, <2>5
<1>6. Cardinality(S) \in Nat /\ D(Cardinality(S)) = SUBSET S
  BY FS_CardinalityType, FS_Subset
<1> QED BY <1>5, <1>6, Zenon

\* What holds before the cells are copied, and is carried from one set of
\* copied cells to the next, holds when all are copied: Kept[s] are the stores
\* that may result when the cells in s have been copied.
LEMMA CopiedKeeps ==
    ASSUME NEW S, IsFiniteSet(S), NEW sub, NEW loc, NEW Kept,
           loc \in Kept[{}],
           \A s \in SUBSET S : \A p \in S \ s : \A l \in Kept[s] :
               CopyTo(sub[p], l, p) \in Kept[s \cup {p}]
    PROVE  Copied(sub, loc, S) \in Kept[S]
<1>1. PICK f : /\ f = CHOOSE iter : CopyRecursion(iter, sub, loc, SUBSET S)
               /\ Copied(sub, loc, S) = f[S]
  BY Zenon DEF Copied, FoldSet, MapThenFoldSet, CopyRecursion, LastOf
<1>2. CopyRecursion(f, sub, loc, SUBSET S)
  BY <1>1, RecursionExists, Zenon
<1> DEFINE Bad == {s \in SUBSET S : f[s] \notin Kept[s]}
<1>3. Bad = {}
  <2> SUFFICES ASSUME Bad # {} PROVE FALSE
    BY Zenon
  <2>1. PICK s \in Bad : \A x \in s : s \ {x} \notin Bad
    <3>1. Bad \in SUBSET (SUBSET S)
      BY Zenon
    <3> HIDE DEF Bad
    <3> QED BY <3>1, SmallestSet, Zenon
  <2>2. s # {}
    BY <1>2, Zenon DEF CopyRecursion
  <2> DEFINE x == LastOf(s)
             t == s \ {x}
  <2>3. x \in s
    BY <2>2, Zenon DEF LastOf
  <2>4. t \in SUBSET S /\ x \in S \ t /\ t \cup {x} = s
    BY <2>3
  <2>5. f[t] \in Kept[t]
    BY <2>1, <2>3, <2>4, Zenon
  <2>6. f[s] = CopyTo(sub[x], f[t], x)
    BY <1>2, <2>2, Zenon DEF CopyRecursion
  <2>7. CopyTo(sub[x], f[t], x) \in Kept[t \cup {x}]
    <3> HIDE DEF x, t
    <3> QED BY <2>4, <2>5, Zenon
  <2> QED BY <2>4, <2>6, <2>7, Zenon
<1> QED BY <1>1, <1>3, Zenon

-----------------------------------------------------------------------------
(* The inductive invariant *)

\* What a store caches: of every path a cell of its kind, or none.
Caches ==
    {loc \in [Paths -> (UNION {Cell(p) : p \in Paths}) \cup {NoCell}] :
         \A p \in Paths : loc[p] \in Cell(p) \cup {NoCell}}

\* The value of every path in the store loc over base, whether its parent lists
\* it or not.
Values(loc, base) == [p \in Paths |-> ResolveValue(loc, base, p)]

\* The values m of the paths form a tree: the system containers are there, only
\* the container roots among them list anything; a container exists if and only
\* if it is listed; and what is listed has a value, except for the paths in
\* pending, whose values are still to be written.
Tree(m, pending) ==
    /\ \A p \in Paths : m[p] \in ValuesAt(p) \cup {Nil}
    /\ \A c \in SysPaths \cap Containers :
           m[c] # Nil /\ (c \notin ContainerRoots => m[c] = {})
    /\ \A c \in Containers \ SysPaths : m[c] # Nil <=> c \in m[Parent[c]]
    /\ \A c \in Containers : m[c] # Nil =>
           \A e \in m[c] : m[e] # Nil \/ e \in pending

\* The cells of a store over base: a cell says what base holds, and has that
\* value until it is written.
Faithful(loc, base) ==
    \A p \in Paths : loc[p] # NoCell =>
        /\ loc[p].committed <=> base[p] # Nil
        /\ ~loc[p].written => loc[p].val = base[p]

\* A store in order.
Level(loc, base, pending) ==
    /\ loc \in Caches
    /\ Faithful(loc, base)
    /\ Tree(Values(loc, base), pending)

\* The cell of p will be exported.
RecordedIn(loc, p) == loc[p] # NoCell /\ (loc[p].read \/ loc[p].written)

\* A committed value that was read is recorded by the main process, or by the
\* sub-process that runs and in a place where Insert will record it.
ReadsKept ==
    \A p \in found \ Containers :
        \/ RecordedIn(localCells["main"], p)
        \/ /\ running = "sub"
           /\ RecordedIn(localCells["sub"], p)
           /\ ReadCell(localCells["main"], committed)[p] # Nil

\* The committed values, the main store and the store of a sub-process are in
\* order, and reads are kept.
StoreInv ==
    /\ Tree(committed, {})
    /\ localCells = [s \in Stores |-> localCells[s]]
    /\ Level(localCells["main"], committed, {})
    /\ running \in Stores
    /\ running = "sub" =>
           Level(localCells["sub"], ReadCell(localCells["main"], committed), {})
    /\ running = "main" => localCells["sub"] = NoCells
    /\ panicked \in BOOLEAN
    /\ ignoreAddresses \subseteq {AccountOf[p] : p \in Paths}
    /\ found \subseteq Paths /\ missed \subseteq Paths /\ committedReads \subseteq Paths
    /\ ReadsKept

-----------------------------------------------------------------------------
(* Paths, cells and values *)

\* Where a path can be: a container is directly under a container root, and its
\* elements are neither containers nor system paths.
LEMMA Nesting ==
    /\ ContainerRoots \subseteq SysPaths /\ ContainerRoots \subseteq Containers
    /\ SysPaths \subseteq Paths /\ Containers \subseteq Paths
    /\ \A p \in Paths \ SysPaths : Parent[p] \in Containers /\ Parent[p] # p
    /\ \A c \in Containers \ SysPaths : Parent[c] \in ContainerRoots
    /\ \A c \in Containers \ SysPaths : \A p \in Paths :
           Parent[p] = c => p \notin SysPaths /\ p \notin Containers
    /\ \A p \in SysPaths : Parent[p] \notin ContainerRoots
    /\ \A p \in SysPaths \ Containers : Parent[p] \in SysPaths \cap Containers
BY PathAssumption, Zenon

\* A value is never Nil, and the value of a container is a set of its elements.
LEMMA ValueKinds ==
    ASSUME NEW p \in Paths, NEW v \in ValuesAt(p)
    PROVE  /\ v # Nil
           /\ p \in Containers => \A e \in v : e \in Paths /\ Parent[e] = p
           /\ p \notin Containers => v \in Vals
BY NilAssumption, Zenon DEF ValuesAt, ElementsOf

\* A set of elements of a container is a value of it.
LEMMA ContainerValue ==
    ASSUME NEW c \in Containers, NEW v, \A e \in v : e \in Paths /\ Parent[e] = c
    PROVE  v \in ValuesAt(c)
BY Zenon DEF ValuesAt, ElementsOf

\* A cache is a function on the paths, and what it holds of a path is a cell
\* of that path, with fields of their kinds.
LEMMA CacheType ==
    ASSUME NEW loc \in Caches
    PROVE  /\ loc = [p \in Paths |-> loc[p]] /\ DOMAIN loc = Paths
           /\ \A p \in Paths : loc[p] # NoCell =>
                /\ loc[p] \in Cell(p)
                /\ loc[p].val \in ValuesAt(p) \cup {Nil}
                /\ loc[p].read \in BOOLEAN /\ loc[p].written \in BOOLEAN
                /\ loc[p].committed \in BOOLEAN
<1>1. /\ loc = [p \in Paths |-> loc[p]] /\ DOMAIN loc = Paths
      /\ \A p \in Paths : loc[p] \in Cell(p) \cup {NoCell}
  BY DEF Caches
<1>2. \A p \in Paths : loc[p] # NoCell => loc[p] \in Cell(p)
  BY <1>1, Zenon
<1>3. ASSUME NEW p \in Paths, NEW x \in Cell(p)
      PROVE  /\ x.val \in ValuesAt(p) \cup {Nil}
             /\ x.read \in BOOLEAN /\ x.written \in BOOLEAN /\ x.committed \in BOOLEAN
  BY DEF Cell
<1> QED BY <1>1, <1>2, <1>3, Zenon

\* A function from paths to cells of theirs is a cache.
LEMMA CacheIntro ==
    ASSUME NEW loc, loc = [p \in Paths |-> loc[p]],
           \A p \in Paths : loc[p] \in Cell(p) \cup {NoCell}
    PROVE  loc \in Caches
<1>1. \A p \in Paths : loc[p] \in (UNION {Cell(q) : q \in Paths}) \cup {NoCell}
  OBVIOUS
<1>2. loc \in [Paths -> (UNION {Cell(q) : q \in Paths}) \cup {NoCell}]
  BY <1>1
<1> QED BY <1>2 DEF Caches

\* A record of fields of the right kinds is a cell.
LEMMA CellIntro ==
    ASSUME NEW p \in Paths, NEW v \in ValuesAt(p) \cup {Nil},
           NEW r \in BOOLEAN, NEW w \in BOOLEAN, NEW c \in BOOLEAN
    PROVE  [val |-> v, read |-> r, written |-> w, committed |-> c] \in Cell(p)
BY DEF Cell

\* A cell is told from "no cell".
LEMMA CellNotNoCell ==
    ASSUME NEW p \in Paths, NEW x \in Cell(p)
    PROVE  x # NoCell
BY NilAssumption

\* Setting the value of a cell.
LEMMA SetCellFields ==
    ASSUME NEW p \in Paths, NEW x \in Cell(p), NEW v \in ValuesAt(p) \cup {Nil}
    PROVE  /\ SetCell(x, v) \in Cell(p)
           /\ SetCell(x, v).val = v /\ SetCell(x, v).written
           /\ SetCell(x, v).committed = x.committed
BY DEF SetCell, Cell

\* Marking a cell as read.
MarkRead(x) == [x EXCEPT !.read = TRUE]

\* Marking a cell as read leaves its other fields alone.
LEMMA MarkReadFields ==
    ASSUME NEW p \in Paths, NEW x \in Cell(p)
    PROVE  /\ MarkRead(x) \in Cell(p)
           /\ MarkRead(x).val = x.val /\ MarkRead(x).read
           /\ MarkRead(x).written = x.written /\ MarkRead(x).committed = x.committed
BY DEF MarkRead, Cell

\* A path resolves to its cached cell, or to a new one with the value of base.
LEMMA Resolved ==
    ASSUME NEW loc \in Caches, NEW base, NEW p \in Paths,
           base[p] \in ValuesAt(p) \cup {Nil}, Faithful(loc, base)
    PROVE  LET cell == ResolveCell(loc, base, p)
           IN  /\ cell \in Cell(p) /\ cell # NoCell
               /\ cell.val = ResolveValue(loc, base, p)
               /\ cell.val \in ValuesAt(p) \cup {Nil}
               /\ cell.committed <=> base[p] # Nil
               /\ ~cell.written => cell.val = base[p]
               /\ loc[p] # NoCell => cell = loc[p]
               /\ loc[p] = NoCell => cell.val = base[p] /\ ~cell.read /\ ~cell.written
<1>1. CASE loc[p] # NoCell
  BY <1>1, CacheType, Zenon DEF ResolveCell, ResolveValue, Faithful
<1>2. CASE loc[p] = NoCell
  <2> DEFINE cell == [val |-> base[p], read |-> FALSE, written |-> FALSE,
                      committed |-> base[p] # Nil]
  <2>0. ResolveWildcardDeletion(p) = FALSE
    BY DEF ResolveWildcardDeletion, pendingWildcardDeletes
  <2>1. ResolveCell(loc, base, p) = cell /\ ResolveValue(loc, base, p) = base[p]
    BY <1>2, <2>0, Zenon DEF ResolveCell, ResolveValue
  <2>2. cell \in Cell(p)
    BY CellIntro
  <2>3. /\ cell.val = base[p] /\ cell.written = FALSE /\ cell.read = FALSE
        /\ cell.committed = (base[p] # Nil)
    OBVIOUS
  <2> QED BY <1>2, <2>1, <2>2, <2>3, CellNotNoCell, Zenon
<1> QED BY <1>1, <1>2, Zenon

-----------------------------------------------------------------------------
(* Looking up and reading *)

\* The cell of p was written.
WrittenIn(loc, p) == loc[p] # NoCell /\ loc[p].written

\* What a store can have behind it.
IsBase(base) == \A p \in Paths : base[p] \in ValuesAt(p) \cup {Nil}

\* The store new differs from loc at most in what it has looked up.
LooksUp(loc, new, base) ==
    /\ new \in Caches
    /\ Faithful(new, base)
    /\ \A q \in Paths :
           /\ ResolveValue(new, base, q) = ResolveValue(loc, base, q)
           /\ RecordedIn(loc, q) => RecordedIn(new, q)
           /\ WrittenIn(new, q) <=> WrittenIn(loc, q)

\* A cache with another cell at one path.
WithCell(loc, p, x) == [loc EXCEPT ![p] = x]

\* Replacing the cell of one path leaves the others alone.
LEMMA WithCellIs ==
    ASSUME NEW loc \in Caches, NEW p \in Paths, NEW x \in Cell(p)
    PROVE  /\ WithCell(loc, p, x) \in Caches
           /\ WithCell(loc, p, x)[p] = x
           /\ \A q \in Paths : q # p => WithCell(loc, p, x)[q] = loc[q]
<1> DEFINE new == WithCell(loc, p, x)
<1>1. /\ new = [q \in Paths |-> new[q]]
      /\ new[p] = x /\ \A q \in Paths : q # p => new[q] = loc[q]
  BY CacheType DEF WithCell
<1> HIDE DEF new
<1>2. \A q \in Paths : new[q] \in Cell(q) \cup {NoCell}
  BY <1>1, CacheType, Zenon
<1>3. new \in Caches
  BY <1>1, <1>2, CacheIntro, Zenon
<1> QED BY <1>1, <1>3, Zenon DEF new

\* The value a cached path resolves to is that of its cell.
LEMMA CachedValue ==
    ASSUME NEW loc, NEW base, NEW q
    PROVE  /\ loc[q] # NoCell => ResolveValue(loc, base, q) = loc[q].val
           /\ loc[q] = NoCell => ResolveValue(loc, base, q) = base[q]
<1>1. ~ResolveWildcardDeletion(q)
  BY DEF ResolveWildcardDeletion, pendingWildcardDeletes
<1> QED BY <1>1, Zenon DEF ResolveValue

\* A new cell with the value and the marks of the one the path resolves to,
\* except that it may be marked as read.
LEMMA LookedUp ==
    ASSUME NEW base, IsBase(base), NEW loc \in Caches, Faithful(loc, base),
           NEW p \in Paths, NEW x \in Cell(p),
           x.val = ResolveCell(loc, base, p).val,
           x.written = ResolveCell(loc, base, p).written,
           x.committed = ResolveCell(loc, base, p).committed,
           ResolveCell(loc, base, p).read => x.read
    PROVE  LooksUp(loc, WithCell(loc, p, x), base)
<1> DEFINE new == WithCell(loc, p, x)
           cell == ResolveCell(loc, base, p)
<1>1. new \in Caches /\ new[p] = x /\ \A q \in Paths : q # p => new[q] = loc[q]
  BY WithCellIs, Zenon
<1> HIDE DEF new
<1>2. x # NoCell
  BY CellNotNoCell, Zenon
<1>3. /\ cell.val = ResolveValue(loc, base, p)
      /\ cell.committed <=> base[p] # Nil
      /\ ~cell.written => cell.val = base[p]
      /\ loc[p] # NoCell => cell = loc[p]
      /\ loc[p] = NoCell => ~cell.read /\ ~cell.written
  <2>1. base[p] \in ValuesAt(p) \cup {Nil}
    BY DEF IsBase
  <2> QED BY <2>1, Resolved
<1>4. Faithful(new, base)
  BY <1>1, <1>2, <1>3, Zenon DEF Faithful
<1>5. ASSUME NEW q \in Paths
      PROVE  ResolveValue(new, base, q) = ResolveValue(loc, base, q)
  <2>1. CASE q # p
    BY <1>1, <2>1, CachedValue
  <2>2. CASE q = p
    BY <1>1, <1>2, <1>3, <2>2, CachedValue
  <2> QED BY <2>1, <2>2
<1>6. ASSUME NEW q \in Paths
      PROVE  /\ RecordedIn(loc, q) => RecordedIn(new, q)
             /\ WrittenIn(new, q) <=> WrittenIn(loc, q)
  BY <1>1, <1>2, <1>3, Zenon DEF RecordedIn, WrittenIn
<1> QED BY <1>1, <1>4, <1>5, <1>6, Zenon DEF LooksUp, new

\* Looking up is transitive.
LEMMA LooksUpTwice ==
    ASSUME NEW base, NEW a, NEW b, NEW c, LooksUp(a, b, base), LooksUp(b, c, base)
    PROVE  LooksUp(a, c, base)
BY Zenon DEF LooksUp

\* Entering a cell in the cache changes no value.
LEMMA CachedLooksUp ==
    ASSUME NEW base, IsBase(base), NEW loc \in Caches, Faithful(loc, base), NEW p \in Paths
    PROVE  LooksUp(loc, Cached(loc, base, p), base)
<1>1. ResolveCell(loc, base, p) \in Cell(p)
  BY Resolved, Zenon DEF IsBase
<1> QED BY <1>1, LookedUp, Zenon DEF Cached, WithCell

\* Whether a path exists in its parent is a matter of the values.
LEMMA ExistsByValues ==
    ASSUME NEW loc, NEW new, NEW base, NEW other, NEW p \in Paths,
           \A q \in Paths : ResolveValue(new, other, q) = ResolveValue(loc, base, q)
    PROVE  ExistsInParent(new, other, p) <=> ExistsInParent(loc, base, p)
<1>1. ~IsImmediateChildOfSysPath(p) => Parent[p] \in Paths
  BY Nesting, Zenon DEF IsImmediateChildOfSysPath
<1> QED BY <1>1, Zenon DEF ExistsInParent

\* Read changes no value, and it records a path that exists.
LEMMA AfterReadLooksUp ==
    ASSUME NEW base, IsBase(base), NEW loc \in Caches, Faithful(loc, base), NEW p \in Paths
    PROVE  /\ LooksUp(loc, AfterRead(loc, base, p), base)
           /\ ExistsInParent(loc, base, p) => RecordedIn(AfterRead(loc, base, p), p)
<1> DEFINE w == IF IsImmediateChildOfSysPath(p) THEN loc ELSE Cached(loc, base, Parent[p])
           cell == ResolveCell(w, base, p)
           x == MarkRead(cell)
           new == WithCell(w, p, x)
<1>1. ~IsImmediateChildOfSysPath(p) => Parent[p] \in Paths
  BY Nesting, Zenon DEF IsImmediateChildOfSysPath
<1>2. LooksUp(loc, loc, base)
  BY Zenon DEF LooksUp
<1>3. LooksUp(loc, w, base)
  BY <1>1, <1>2, CachedLooksUp, Zenon
<1>4. w \in Caches /\ Faithful(w, base)
  BY <1>3, Zenon DEF LooksUp
<1> HIDE DEF w
<1>5. cell \in Cell(p)
  BY <1>4, Resolved, Zenon DEF IsBase
<1>6. /\ x \in Cell(p) /\ x.val = cell.val /\ x.read
      /\ x.written = cell.written /\ x.committed = cell.committed
  BY <1>5, MarkReadFields, Zenon
<1>7. LooksUp(w, new, base)
  <2> HIDE DEF x
  <2> QED BY <1>4, <1>6, LookedUp, Zenon
<1>8. RecordedIn(new, p)
  <2>1. new[p] = x
    <3> HIDE DEF x
    <3> QED BY <1>4, <1>6, WithCellIs, Zenon
  <2>2. x # NoCell
    <3> HIDE DEF x
    <3> QED BY <1>6, CellNotNoCell, Zenon
  <2> QED BY <1>6, <2>1, <2>2, Zenon DEF RecordedIn
<1>9. [Cached(w, base, p) EXCEPT ![p].read = TRUE] = new
  BY <1>4, CacheType DEF Cached, WithCell, MarkRead
<1>10. LooksUp(loc, new, base)
  <2> HIDE DEF new
  <2> QED BY <1>3, <1>7, LooksUpTwice, Zenon
<1>11. AfterRead(loc, base, p) = IF ExistsInParent(loc, base, p) THEN new ELSE w
  <2> HIDE DEF new
  <2> QED BY <1>9, Zenon DEF AfterRead, w
<1> QED
  <2> HIDE DEF new
  <2> QED BY <1>3, <1>8, <1>10, <1>11, Zenon

\* Looking up keeps the values, so it keeps all that is said of them.
LEMMA LevelLooksUp ==
    ASSUME NEW base, NEW loc, NEW new, NEW pending,
           Level(loc, base, pending), LooksUp(loc, new, base)
    PROVE  Level(new, base, pending) /\ Values(new, base) = Values(loc, base)
<1>1. Values(new, base) = Values(loc, base)
  BY Zenon DEF LooksUp, Values
<1> QED BY <1>1, Zenon DEF Level, LooksUp

-----------------------------------------------------------------------------
(* What a process reads *)

\* The values of the paths that exist in their parents.
Exists(m, p) ==
    IsImmediateChildOfSysPath(p) \/ (m[Parent[p]] # Nil /\ p \in m[Parent[p]])

\* What is found of the values m of a store.
Seen(m) == [p \in Paths |-> IF Exists(m, p) THEN m[p] ELSE Nil]

\* What ReadCell returns is decided by the values.
LEMMA ReadCellSees ==
    ASSUME NEW loc, NEW base
    PROVE  /\ ReadCell(loc, base) = Seen(Values(loc, base))
           /\ \A p \in Paths : ExistsInParent(loc, base, p) <=> Exists(Values(loc, base), p)
           /\ \A p \in Paths : ResolveValue(loc, base, p) = Values(loc, base)[p]
<1>1. \A p \in Paths : ResolveValue(loc, base, p) = Values(loc, base)[p]
  BY Zenon DEF Values
<1>2. ASSUME NEW p \in Paths
      PROVE  ExistsInParent(loc, base, p) <=> Exists(Values(loc, base), p)
  <2>1. ~IsImmediateChildOfSysPath(p) => Parent[p] \in Paths
    BY Nesting, Zenon DEF IsImmediateChildOfSysPath
  <2> QED BY <1>1, <2>1, Zenon DEF ExistsInParent, Exists
<1>3. ReadCell(loc, base) = Seen(Values(loc, base))
  BY <1>1, <1>2, Zenon DEF ReadCell, Seen
<1> QED BY <1>1, <1>2, <1>3, Zenon

\* What a container lists is directly under it, and has a value or is pending.
LEMMA ListedBelow ==
    ASSUME NEW m, NEW pending, Tree(m, pending),
           NEW c \in Containers, m[c] # Nil, NEW e \in m[c]
    PROVE  e \in Paths /\ Parent[e] = c /\ (m[e] # Nil \/ e \in pending)
<1>1. c \in Paths /\ m[c] \in ValuesAt(c)
  BY Nesting, Zenon DEF Tree
<1>2. e \in Paths /\ Parent[e] = c
  BY <1>1, ValueKinds, Zenon
<1> QED BY <1>2, Zenon DEF Tree

\* In a tree with nothing pending, what a container lists has a value.
LEMMA ListedHere ==
    ASSUME NEW m, Tree(m, {}), NEW c \in Containers, m[c] # Nil, NEW e \in m[c]
    PROVE  e \in Paths /\ Parent[e] = c /\ m[e] # Nil
<1>1. e \in Paths /\ Parent[e] = c /\ (m[e] # Nil \/ e \in {})
  BY ListedBelow
<1> QED BY <1>1, Zenon

\* In a tree every container is seen, and so is everything that one lists.
LEMMA TreeSeen ==
    ASSUME NEW m, Tree(m, {})
    PROVE  /\ \A c \in Containers : Seen(m)[c] = m[c]
           /\ \A c \in Containers : m[c] # Nil =>
                  \A e \in m[c] : e \in Paths /\ Parent[e] = c /\ Seen(m)[e] = m[e] /\ m[e] # Nil
           /\ Tree(Seen(m), {})
           /\ Seen(Seen(m)) = Seen(m)
           /\ \A p \in Paths : Exists(Seen(m), p) <=> Exists(m, p)
<1>1. \A p \in Paths : Seen(m)[p] = IF Exists(m, p) THEN m[p] ELSE Nil
  BY Zenon DEF Seen
<1>2. ASSUME NEW c \in Containers
      PROVE  Seen(m)[c] = m[c]
  <2>1. CASE c \in SysPaths
    BY <1>1, <2>1, Nesting, Zenon DEF Exists, IsImmediateChildOfSysPath
  <2>2. CASE c \notin SysPaths
    <3>1. Parent[c] \in SysPaths \cap Containers
      BY <2>2, Nesting, Zenon
    <3>2. m[Parent[c]] # Nil /\ (m[c] # Nil <=> c \in m[Parent[c]])
      BY <2>2, <3>1, Zenon DEF Tree
    <3> QED BY <1>1, <3>2, Nesting, Zenon DEF Exists
  <2> QED BY <2>1, <2>2, Zenon
<1>3. ASSUME NEW c \in Containers, m[c] # Nil, NEW e \in m[c]
      PROVE  e \in Paths /\ Parent[e] = c /\ Seen(m)[e] = m[e] /\ m[e] # Nil
  <2>1. e \in Paths /\ Parent[e] = c /\ m[e] # Nil
    BY <1>3, ListedHere, Zenon
  <2> QED BY <1>1, <1>3, <2>1, Zenon DEF Exists
<1>4. Tree(Seen(m), {})
  <2>1. \A p \in Paths : Seen(m)[p] \in ValuesAt(p) \cup {Nil}
    BY <1>1, Zenon DEF Tree
  <2>2. \A c \in Containers \ SysPaths : Parent[c] \in Containers
    BY Nesting, Zenon
  <2> QED BY <1>2, <1>3, <2>1, <2>2, Zenon DEF Tree
<1>5. ASSUME NEW p \in Paths
      PROVE  Exists(Seen(m), p) <=> Exists(m, p)
  <2>1. ~IsImmediateChildOfSysPath(p) => Parent[p] \in Containers
    BY Nesting, Zenon DEF IsImmediateChildOfSysPath
  <2> QED BY <1>2, <2>1, Zenon DEF Exists
<1>6. Seen(Seen(m)) = Seen(m)
  <2>1. \A p \in Paths : Seen(Seen(m))[p] = IF Exists(Seen(m), p) THEN Seen(m)[p] ELSE Nil
    BY Zenon DEF Seen
  <2>2. \A p \in Paths : Seen(Seen(m))[p] = Seen(m)[p]
    BY <1>1, <1>5, <2>1, Zenon
  <2> QED BY <2>2, Zenon DEF Seen
<1> QED BY <1>2, <1>3, <1>4, <1>5, <1>6, Zenon

\* A tree is a store's base; an empty store over it has its values.
LEMMA EmptyLevel ==
    ASSUME NEW m, Tree(m, {})
    PROVE  /\ Level(NoCells, m, {})
           /\ IsBase(m)
           /\ \A p \in Paths : Values(NoCells, m)[p] = m[p]
<1>1. \A p \in Paths : NoCells[p] = NoCell
  BY Zenon DEF NoCells
<1>2. NoCells \in Caches
  <2>1. NoCells = [p \in Paths |-> NoCells[p]]
    BY Zenon DEF NoCells
  <2> HIDE DEF NoCells
  <2> QED BY <1>1, <2>1, CacheIntro, Zenon
<1>3. Faithful(NoCells, m)
  BY <1>1, Zenon DEF Faithful
<1>4. \A p \in Paths : Values(NoCells, m)[p] = m[p]
  BY <1>1, CachedValue DEF Values
<1>5. Tree(Values(NoCells, m), {})
  <2>1. \A c \in Containers \ SysPaths : Parent[c] \in Paths
    BY Nesting, Zenon
  <2>2. \A c \in Containers : m[c] # Nil => \A e \in m[c] : e \in Paths
    BY TreeSeen, Zenon
  <2> HIDE DEF Values
  <2> QED BY <1>4, <2>1, <2>2, Nesting, Zenon DEF Tree
<1> QED BY <1>2, <1>3, <1>4, <1>5, Zenon DEF Level, IsBase, Tree

-----------------------------------------------------------------------------
(* Writing *)

\* The store new differs from loc in the value v, written to p.
SetsOne(loc, new, base, p, v) ==
    /\ new \in Caches /\ Faithful(new, base)
    /\ ResolveValue(new, base, p) = v
    /\ WrittenIn(new, p) /\ RecordedIn(new, p)
    /\ \A q \in Paths : q # p =>
           /\ new[q] = loc[q]
           /\ ResolveValue(new, base, q) = ResolveValue(loc, base, q)

\* Setting the cell of one path gives it the value and marks it as written.
LEMMA SetOne ==
    ASSUME NEW base, NEW loc \in Caches, Faithful(loc, base), NEW p \in Paths,
           NEW x \in Cell(p), x.committed <=> base[p] # Nil,
           NEW v \in ValuesAt(p) \cup {Nil}
    PROVE  SetsOne(loc, WithCell(loc, p, SetCell(x, v)), base, p, v)
<1> DEFINE y == SetCell(x, v)
           new == WithCell(loc, p, y)
<1>1. y \in Cell(p) /\ y.val = v /\ y.written /\ y.committed = x.committed /\ y # NoCell
  BY SetCellFields, CellNotNoCell, Zenon
<1> HIDE DEF y
<1>2. new \in Caches /\ new[p] = y /\ \A q \in Paths : q # p => new[q] = loc[q]
  BY <1>1, WithCellIs, Zenon
<1> HIDE DEF new
<1>3. Faithful(new, base)
  BY <1>1, <1>2, Zenon DEF Faithful
<1>4. ResolveValue(new, base, p) = v
  BY <1>1, <1>2, CachedValue
<1>5. WrittenIn(new, p) /\ RecordedIn(new, p)
  BY <1>1, <1>2, Zenon DEF WrittenIn, RecordedIn
<1>6. ASSUME NEW q \in Paths, q # p
      PROVE  ResolveValue(new, base, q) = ResolveValue(loc, base, q)
  BY <1>2, <1>6, CachedValue
<1> QED BY <1>2, <1>3, <1>4, <1>5, <1>6, Zenon DEF SetsOne, new, y

\* The store new differs from loc in that the cached ones of the elements are
\* deleted.
DeletesMany(loc, new, base, elements) ==
    /\ new \in Caches /\ Faithful(new, base)
    /\ \A q \in Paths :
           IF q \in elements /\ loc[q] # NoCell
           THEN /\ ResolveValue(new, base, q) = Nil
                /\ WrittenIn(new, q) /\ RecordedIn(new, q)
           ELSE /\ new[q] = loc[q]
                /\ ResolveValue(new, base, q) = ResolveValue(loc, base, q)

\* Deleting what a container holds sets the cached elements to Nil.
LEMMA DeleteMany ==
    ASSUME NEW base, NEW loc \in Caches, Faithful(loc, base), NEW elements
    PROVE  DeletesMany(loc, DeleteCached(loc, elements), base, elements)
<1> DEFINE new == DeleteCached(loc, elements)
           Hit(q) == q \in elements /\ loc[q] # NoCell
<1>1. /\ new = [q \in Paths |-> new[q]]
      /\ \A q \in Paths : new[q] = IF Hit(q) THEN SetCell(loc[q], Nil) ELSE loc[q]
  BY Zenon DEF DeleteCached
<1> HIDE DEF new
<1>2. ASSUME NEW q \in Paths, Hit(q)
      PROVE  /\ new[q] \in Cell(q) /\ new[q].val = Nil /\ new[q].written
             /\ new[q].committed = loc[q].committed /\ new[q] # NoCell
  <2>1. loc[q] \in Cell(q)
    BY <1>2, CacheType, Zenon
  <2>2. new[q] = SetCell(loc[q], Nil)
    BY <1>1, <1>2, Zenon
  <2> DEFINE y == SetCell(loc[q], Nil)
  <2>3. y \in Cell(q) /\ y.val = Nil /\ y.written /\ y.committed = loc[q].committed
    <3>1. Nil \in ValuesAt(q) \cup {Nil}
      BY Zenon
    <3> QED BY <2>1, <3>1, SetCellFields, Zenon
  <2> HIDE DEF y
  <2>4. y # NoCell
    BY <2>3, CellNotNoCell, Zenon
  <2> QED BY <2>2, <2>3, <2>4, Zenon DEF y
<1>3. ASSUME NEW q \in Paths, ~Hit(q)
      PROVE  new[q] = loc[q]
  BY <1>1, <1>3, Zenon
<1> HIDE DEF Hit
<1>4. new \in Caches
  <2>1. \A q \in Paths : new[q] \in Cell(q) \cup {NoCell}
    BY <1>2, <1>3, CacheType, Zenon
  <2> QED BY <1>1, <2>1, CacheIntro, Zenon
<1>5. Faithful(new, base)
  <2> SUFFICES ASSUME NEW q \in Paths, new[q] # NoCell
               PROVE  /\ new[q].committed <=> base[q] # Nil
                      /\ ~new[q].written => new[q].val = base[q]
    BY Zenon DEF Faithful
  <2>1. CASE Hit(q)
    BY <1>2, <2>1, Zenon DEF Faithful, Hit
  <2>2. CASE ~Hit(q)
    BY <1>3, <2>2, Zenon DEF Faithful
  <2> QED BY <2>1, <2>2, Zenon
<1>6. ASSUME NEW q \in Paths, Hit(q)
      PROVE  ResolveValue(new, base, q) = Nil /\ WrittenIn(new, q) /\ RecordedIn(new, q)
  <2>1. ResolveValue(new, base, q) = Nil
    BY <1>2, <1>6, CachedValue
  <2> QED BY <1>2, <1>6, <2>1, Zenon DEF WrittenIn, RecordedIn
<1>7. ASSUME NEW q \in Paths, ~Hit(q)
      PROVE  new[q] = loc[q] /\ ResolveValue(new, base, q) = ResolveValue(loc, base, q)
  BY <1>3, <1>7, CachedValue
<1> QED BY <1>4, <1>5, <1>6, <1>7, Zenon DEF DeletesMany, new, Hit

\* The list of a container after v is written to its element p.
NewList(list, p, v) == IF v = Nil THEN list \ {p} ELSE list \cup {p}

\* The cached elements that go with a deleted container.
GoesToo(loc, m, p, v, q) ==
    p \in Containers /\ v = Nil /\ m[p] # Nil /\ q \in m[p] /\ loc[q] # NoCell

\* The values after v was written to p in a store with the values m.
AfterPut(loc, m, tx, p, v) ==
    [q \in Paths |->
        IF q = p THEN v
        ELSE IF Tracked(tx, Parent[p]) /\ q = Parent[p] THEN NewList(m[q], p, v)
        ELSE IF GoesToo(loc, m, p, v, q) THEN Nil ELSE m[q]]

\* What may be written: no system container, a container only with elements
\* that are still to be written, and by the system only what the account has or
\* what is directly under a container root.
MayPut(tx, p, v, pending) ==
    /\ v \in ValuesAt(p) \cup {Nil}
    /\ p \in SysPaths => p \notin Containers
    /\ p \in Containers /\ v # Nil => \A e \in v : e \in pending
    /\ tx = "SYSTEM" => p \in SysPaths \/ Parent[p] \in ContainerRoots

\* A parent that keeps a list of its children is an existing container.
LEMMA TrackedParent ==
    ASSUME NEW m, NEW pending, Tree(m, pending), NEW tx, NEW p \in Paths, NEW v,
           MayPut(tx, p, v, pending), m[Parent[p]] # Nil \/ tx = "SYSTEM"
    PROVE  /\ Tracked(tx, Parent[p]) =>
                /\ p \notin SysPaths /\ Parent[p] # p
                /\ Parent[p] \in Containers /\ m[Parent[p]] # Nil
                /\ m[Parent[p]] \in ValuesAt(Parent[p])
                /\ NewList(m[Parent[p]], p, v) \in ValuesAt(Parent[p])
                /\ Parent[p] \in SysPaths => Parent[p] \in ContainerRoots
           /\ ~Tracked(tx, Parent[p]) =>
                /\ Parent[p] \in SysPaths /\ Parent[p] \notin ContainerRoots
                /\ p \in Containers => FALSE
<1>1. CASE p \in SysPaths
  <2>1. Parent[p] \in SysPaths /\ Parent[p] \notin ContainerRoots /\ p \notin Containers
    BY <1>1, Nesting, Zenon DEF MayPut
  <2> QED BY <2>1, Zenon DEF Tracked
<1>2. CASE p \notin SysPaths
  <2>1. Parent[p] \in Containers /\ Parent[p] # p /\ Parent[p] \in Paths
    BY <1>2, Nesting, Zenon
  <2>2. p \in Containers => Parent[p] \in ContainerRoots
    BY <1>2, Nesting, Zenon
  <2>3. tx = "SYSTEM" => Parent[p] \in ContainerRoots
    BY <1>2, Zenon DEF MayPut
  <2>4. ASSUME Tracked(tx, Parent[p])
        PROVE  /\ m[Parent[p]] # Nil
               /\ m[Parent[p]] \in ValuesAt(Parent[p])
               /\ NewList(m[Parent[p]], p, v) \in ValuesAt(Parent[p])
    <3>1. m[Parent[p]] # Nil
      BY <2>1, <2>3, Nesting, Zenon DEF Tree
    <3>2. m[Parent[p]] \in ValuesAt(Parent[p])
      BY <2>1, <3>1, Zenon DEF Tree
    <3>3. \A e \in m[Parent[p]] : e \in Paths /\ Parent[e] = Parent[p]
      BY <2>1, <3>2, ValueKinds, Zenon
    <3>4. \A e \in NewList(m[Parent[p]], p, v) : e \in Paths /\ Parent[e] = Parent[p]
      BY <3>3, Zenon DEF NewList
    <3> QED BY <2>1, <3>1, <3>2, <3>4, ContainerValue, Zenon
  <2>5. ASSUME ~Tracked(tx, Parent[p])
        PROVE  /\ Parent[p] \in SysPaths /\ Parent[p] \notin ContainerRoots
               /\ p \notin Containers
    BY <2>2, <2>3, <2>5, Nesting, Zenon DEF Tracked
  <2>6. Tracked(tx, Parent[p]) /\ Parent[p] \in SysPaths => Parent[p] \in ContainerRoots
    BY Zenon DEF Tracked
  <2> QED BY <1>2, <2>1, <2>4, <2>5, <2>6, Zenon
<1> QED BY <1>1, <1>2, Zenon

\* Writing to a tree leaves a tree, in which the path itself is not pending.
LEMMA PutKeepsTree ==
    ASSUME NEW m, NEW pending, Tree(m, pending), NEW tx, NEW p \in Paths, NEW v, NEW loc,
           MayPut(tx, p, v, pending), m[Parent[p]] # Nil \/ tx = "SYSTEM"
    PROVE  Tree(AfterPut(loc, m, tx, p, v), pending \ {p})
<1> DEFINE n == AfterPut(loc, m, tx, p, v)
           par == Parent[p]
           tracked == Tracked(tx, par)
<1>1. /\ tracked => /\ p \notin SysPaths /\ par # p /\ par \in Containers /\ m[par] # Nil
                    /\ NewList(m[par], p, v) \in ValuesAt(par)
                    /\ par \in SysPaths => par \in ContainerRoots
      /\ ~tracked => par \in SysPaths /\ par \notin ContainerRoots /\ p \notin Containers
  BY TrackedParent, Zenon
<1> HIDE DEF tracked
<1>2. /\ n[p] = v
      /\ tracked => n[par] = NewList(m[par], p, v) /\ n[par] # Nil
      /\ \A q \in Paths : q # p /\ ~(tracked /\ q = par) =>
             n[q] = IF GoesToo(loc, m, p, v, q) THEN Nil ELSE m[q]
  <2>1. \A q \in Paths : n[q] =
            IF q = p THEN v
            ELSE IF tracked /\ q = par THEN NewList(m[q], p, v)
            ELSE IF GoesToo(loc, m, p, v, q) THEN Nil ELSE m[q]
    BY Zenon DEF AfterPut, tracked
  <2>2. tracked => par \in Paths /\ NewList(m[par], p, v) # Nil
    <3>1. tracked => par \in Paths
      BY <1>1, Nesting, Zenon
    <3> QED BY <1>1, <3>1, NilAssumption, Zenon
  <2> HIDE DEF n
  <2> QED BY <1>1, <2>1, <2>2, Zenon
<1> HIDE DEF n
<1>3. ASSUME NEW q \in Paths, GoesToo(loc, m, p, v, q)
      PROVE  /\ p \in Containers \ SysPaths /\ v = Nil
             /\ Parent[q] = p /\ q \notin SysPaths /\ q \notin Containers /\ q # p
  <2>1. p \in Containers \ SysPaths /\ v = Nil /\ m[p] \in ValuesAt(p) /\ q \in m[p]
    BY <1>3, Zenon DEF GoesToo, MayPut, Tree
  <2>2. Parent[q] = p
    BY <2>1, ValueKinds, Zenon
  <2> QED BY <2>1, <2>2, Nesting, Zenon
<1>4. ASSUME NEW c \in Containers, m[c] # Nil, NEW e \in m[c]
      PROVE  e \in Paths /\ Parent[e] = c /\ (m[e] # Nil \/ e \in pending)
  BY <1>4, ListedBelow, Zenon
<1>5. ASSUME NEW q \in Paths
      PROVE  n[q] \in ValuesAt(q) \cup {Nil}
  BY <1>1, <1>2, Zenon DEF Tree, MayPut
<1>6. ASSUME NEW c \in SysPaths \cap Containers
      PROVE  n[c] # Nil /\ (c \notin ContainerRoots => n[c] = {})
  <2>1. c \in Paths /\ c # p
    BY Nesting, Zenon DEF MayPut
  <2>2. CASE tracked /\ c = par
    BY <1>1, <1>2, <2>2, Zenon
  <2>3. CASE ~(tracked /\ c = par)
    BY <1>2, <1>3, <2>1, <2>3, Zenon DEF Tree
  <2> QED BY <2>2, <2>3, Zenon
<1>7. ASSUME NEW c \in Containers \ SysPaths
      PROVE  n[c] # Nil <=> c \in n[Parent[c]]
  <2>1. c \in Paths /\ Parent[c] \in ContainerRoots /\ Parent[c] \in SysPaths \cap Containers
        /\ Parent[c] \in Paths
    BY Nesting, Zenon
  <2>2. CASE c = p
    <3>1. tracked
      BY <1>1, <2>2, Zenon
    <3> QED BY <1>2, <2>2, <3>1, Zenon DEF NewList
  <2>3. CASE c # p
    <3>1. n[c] # Nil <=> m[c] # Nil
      BY <1>1, <1>2, <1>3, <2>1, <2>3, Zenon
    <3>2. c \in n[Parent[c]] <=> c \in m[Parent[c]]
      <4>1. Parent[c] # p
        BY <2>1, Zenon DEF MayPut
      <4>2. CASE tracked /\ Parent[c] = par
        <5>1. \A list : c \in NewList(list, p, v) <=> c \in list
          BY <2>3, Zenon DEF NewList
        <5>2. n[Parent[c]] = NewList(m[Parent[c]], p, v)
          BY <1>2, <4>2, Zenon
        <5> QED BY <5>1, <5>2, Zenon
      <4>3. CASE ~(tracked /\ Parent[c] = par)
        BY <1>2, <1>3, <2>1, <4>1, <4>3, Zenon
      <4> QED BY <4>2, <4>3, Zenon
    <3> QED BY <3>1, <3>2, Zenon DEF Tree
  <2> QED BY <2>2, <2>3, Zenon
<1>8. ASSUME NEW c \in Containers, n[c] # Nil, NEW e \in n[c]
      PROVE  n[e] # Nil \/ e \in pending \ {p}
  <2>1. c \in Paths
    BY Nesting, Zenon
  <2>2. CASE c = p
    <3>1. v \in ValuesAt(p) /\ e \in v /\ p \notin SysPaths
      BY <1>2, <1>8, <2>2, Zenon DEF MayPut
    <3>2. Parent[e] = p /\ Parent[p] # p
      BY <2>2, <3>1, ValueKinds, Nesting, Zenon
    <3> QED BY <1>2, <1>8, <2>2, <3>1, <3>2, Zenon DEF MayPut
  <2>3. CASE c # p /\ e = p
    <3>1. CASE tracked /\ c = par
      BY <1>2, <1>8, <2>3, <3>1, Zenon DEF NewList
    <3>2. CASE ~(tracked /\ c = par)
      <4>1. n[c] = m[c] /\ e \in m[c] /\ m[c] # Nil
        BY <1>2, <1>8, <2>1, <2>3, <3>2, Zenon
      <4>2. c = par
        BY <1>4, <2>3, <4>1, Zenon
      <4>3. m[c] = {}
        BY <1>1, <3>2, <4>2, Zenon DEF Tree
      <4> QED BY <4>1, <4>3, Zenon
    <3> QED BY <3>1, <3>2, Zenon
  <2>4. CASE c # p /\ e # p
    <3>1. e \in m[c] /\ m[c] # Nil
      <4>1. CASE tracked /\ c = par
        BY <1>1, <1>2, <1>8, <2>4, <4>1, Zenon DEF NewList
      <4>2. CASE ~(tracked /\ c = par)
        BY <1>2, <1>8, <2>1, <2>4, <4>2, Zenon
      <4> QED BY <4>1, <4>2, Zenon
    <3>2. e \in Paths /\ Parent[e] = c /\ (m[e] # Nil \/ e \in pending)
      BY <1>4, <3>1, Zenon
    <3>3. CASE tracked /\ e = par
      BY <1>2, <3>3, Zenon
    <3>4. CASE ~(tracked /\ e = par)
      BY <1>2, <1>3, <2>4, <3>2, <3>4, Zenon
    <3> QED BY <3>3, <3>4, Zenon
  <2> QED BY <2>2, <2>3, <2>4, Zenon
<1> QED BY <1>5, <1>6, <1>7, <1>8, Zenon DEF Tree, n

\* The cells new are those of loc after a write of v to p that was let through.
PutCells(loc, new, base, tx, p, v) ==
    LET m == Values(loc, base)
    IN  /\ new \in Caches /\ Faithful(new, base)
        /\ Values(new, base) = AfterPut(loc, m, tx, p, v)
        /\ WrittenIn(new, p)
        /\ \A q \in Paths : RecordedIn(loc, q) => RecordedIn(new, q)
        /\ \A q \in Paths :
               q # p /\ ~(Tracked(tx, Parent[p]) /\ q = Parent[p])
                     /\ ~GoesToo(loc, m, p, v, q) => new[q] = loc[q]

\* write on the cells: the values are those of AfterPut, the path is written,
\* and no record is lost.
LEMMA WriteEffect ==
    ASSUME NEW base, IsBase(base), NEW pending, NEW loc, Level(loc, base, pending),
           NEW has, NEW tx, NEW p \in Paths, NEW v, MayPut(tx, p, v, pending),
           HasIn(loc, has, Parent[p]) \/ tx = "SYSTEM",
           Values(loc, base)[Parent[p]] # Nil \/ tx = "SYSTEM"
    PROVE  PutCells(loc, AfterWrite(loc, base, has, tx, p, v), base, tx, p, v)
<1> DEFINE m == Values(loc, base)
           par == Parent[p]
           tracked == Tracked(tx, par)
           cell == ResolveCell(loc, base, p)
           gone == p \in Containers /\ v = Nil /\ cell.val # Nil
           loc1 == IF gone THEN DeleteCached(loc, cell.val) ELSE loc
           loc2 == WithCell(loc1, p, SetCell(cell, v))
           cell2 == ResolveCell(loc2, base, par)
           list == NewList(cell2.val, p, v)
           loc3 == WithCell(loc2, par, SetCell(cell2, list))
           new == AfterWrite(loc, base, has, tx, p, v)
<1>1. loc \in Caches /\ Faithful(loc, base) /\ Tree(m, pending)
  BY Zenon DEF Level
<1>2. v \in ValuesAt(p) \cup {Nil}
  BY Zenon DEF MayPut
<1>3. /\ tracked => /\ p \notin SysPaths /\ par # p /\ par \in Containers /\ m[par] # Nil
                    /\ m[par] \in ValuesAt(par)
                    /\ NewList(m[par], p, v) \in ValuesAt(par)
      /\ ~tracked => p \notin Containers
  BY <1>1, TrackedParent, Zenon
<1>4. \A q \in Paths : ResolveValue(loc, base, q) = m[q]
  BY Zenon DEF Values
<1>5. new = IF tracked THEN loc3 ELSE loc2
  BY Zenon DEF AfterWrite, Listed, WithCell, NewList
<1> HIDE DEF m, tracked, new
<1>6. /\ cell \in Cell(p) /\ cell.val = m[p]
      /\ cell.committed <=> base[p] # Nil
  <2>1. base[p] \in ValuesAt(p) \cup {Nil}
    BY Zenon DEF IsBase
  <2> QED BY <1>1, <1>4, <2>1, Resolved
<1> HIDE DEF cell
<1>7. ASSUME NEW q \in Paths
      PROVE  gone /\ q \in cell.val /\ loc[q] # NoCell <=> GoesToo(loc, m, p, v, q)
  BY <1>6, Zenon DEF GoesToo
<1>8. /\ loc1 \in Caches /\ Faithful(loc1, base)
      /\ \A q \in Paths :
             IF GoesToo(loc, m, p, v, q)
             THEN /\ ResolveValue(loc1, base, q) = Nil
                  /\ RecordedIn(loc1, q)
             ELSE /\ loc1[q] = loc[q]
                  /\ ResolveValue(loc1, base, q) = m[q]
  <2>1. CASE gone
    <3>1. loc1 = DeleteCached(loc, cell.val)
      BY <2>1, Zenon
    <3> HIDE DEF loc1, gone
    <3>2. DeletesMany(loc, loc1, base, cell.val)
      BY <1>1, <3>1, DeleteMany, Zenon
    <3> QED BY <1>4, <1>7, <2>1, <3>2, Zenon DEF DeletesMany
  <2>2. CASE ~gone
    <3>1. loc1 = loc
      BY <2>2, Zenon
    <3> HIDE DEF loc1, gone
    <3> QED BY <1>1, <1>4, <1>7, <2>2, <3>1, Zenon
  <2> QED BY <2>1, <2>2, Zenon
<1> HIDE DEF loc1, gone
<1>9. SetsOne(loc1, loc2, base, p, v)
  BY <1>2, <1>6, <1>8, SetOne, Zenon
<1> HIDE DEF loc2
<1>10. ASSUME NEW q \in Paths, GoesToo(loc, m, p, v, q)
       PROVE  q \notin Containers /\ q # p
  <2>1. p \in Containers \ SysPaths /\ m[p] \in ValuesAt(p) /\ q \in m[p]
    BY <1>1, <1>10, Zenon DEF GoesToo, MayPut, Tree
  <2>2. Parent[q] = p
    BY <2>1, ValueKinds, Zenon
  <2> QED BY <2>1, <2>2, Nesting, Zenon
<1>11. ASSUME tracked
       PROVE  /\ par \in Paths /\ par # p
              /\ loc3 \in Caches /\ Faithful(loc3, base)
              /\ ResolveValue(loc3, base, par) = NewList(m[par], p, v)
              /\ RecordedIn(loc3, par)
              /\ \A q \in Paths : q # par =>
                     /\ loc3[q] = loc2[q]
                     /\ ResolveValue(loc3, base, q) = ResolveValue(loc2, base, q)
  <2>1. par \in Paths /\ par # p /\ par \in Containers
    BY <1>3, <1>11, Nesting, Zenon
  <2>2. ResolveValue(loc2, base, par) = m[par]
    BY <1>8, <1>9, <1>10, <2>1, Zenon DEF SetsOne
  <2>3. base[par] \in ValuesAt(par) \cup {Nil}
    BY <2>1, Zenon DEF IsBase
  <2>4. cell2 \in Cell(par) /\ cell2.val = m[par] /\ (cell2.committed <=> base[par] # Nil)
    BY <1>9, <2>1, <2>2, <2>3, Resolved DEF SetsOne
  <2> HIDE DEF cell2
  <2>5. list = NewList(m[par], p, v) /\ list \in ValuesAt(par) \cup {Nil}
    BY <1>3, <1>11, <2>4, Zenon
  <2> HIDE DEF list
  <2>6. loc2 \in Caches /\ Faithful(loc2, base)
    BY <1>9, Zenon DEF SetsOne
  <2>7. SetsOne(loc2, loc3, base, par, list)
    BY <2>1, <2>4, <2>5, <2>6, SetOne, Zenon
  <2> QED BY <2>1, <2>5, <2>7, Zenon DEF SetsOne
<1> HIDE DEF loc3
<1>12. new \in Caches /\ Faithful(new, base)
  BY <1>5, <1>9, <1>11, Zenon DEF SetsOne
<1>13. ASSUME NEW q \in Paths
       PROVE  ResolveValue(new, base, q) =
                  IF q = p THEN v
                  ELSE IF tracked /\ q = par THEN NewList(m[q], p, v)
                  ELSE IF GoesToo(loc, m, p, v, q) THEN Nil ELSE m[q]
  <2>1. CASE q = p
    BY <1>5, <1>9, <1>11, <2>1, Zenon DEF SetsOne
  <2>2. CASE q # p /\ tracked /\ q = par
    BY <1>5, <1>11, <2>2, Zenon
  <2>3. CASE q # p /\ ~(tracked /\ q = par)
    <3>1. ResolveValue(new, base, q) = ResolveValue(loc1, base, q)
      BY <1>5, <1>9, <1>11, <2>3, Zenon DEF SetsOne
    <3> QED BY <1>8, <2>3, <3>1, Zenon
  <2> QED BY <2>1, <2>2, <2>3, Zenon
<1>14. Values(new, base) = AfterPut(loc, m, tx, p, v)
  BY <1>13, Zenon DEF Values, AfterPut, tracked
<1>15. WrittenIn(new, p)
  <2>1. new[p] = loc2[p]
    BY <1>5, <1>11, Zenon
  <2> QED BY <1>9, <2>1, Zenon DEF WrittenIn, SetsOne
<1>16. ASSUME NEW q \in Paths, q # p, ~(tracked /\ q = par)
       PROVE  new[q] = loc1[q]
  BY <1>5, <1>9, <1>11, <1>16, Zenon DEF SetsOne
<1>17. ASSUME NEW q \in Paths, RecordedIn(loc, q)
       PROVE  RecordedIn(new, q)
  <2>1. CASE q = p
    BY <1>15, <2>1, Zenon DEF WrittenIn, RecordedIn
  <2>2. CASE q # p /\ tracked /\ q = par
    BY <1>5, <1>11, <2>2, Zenon
  <2>3. CASE q # p /\ ~(tracked /\ q = par)
    <3>1. RecordedIn(loc1, q)
      BY <1>8, <1>17, Zenon DEF RecordedIn
    <3> QED BY <1>16, <2>3, <3>1, Zenon DEF RecordedIn
  <2> QED BY <2>1, <2>2, <2>3, Zenon
<1>18. ASSUME NEW q \in Paths, q # p, ~(tracked /\ q = par), ~GoesToo(loc, m, p, v, q)
       PROVE  new[q] = loc[q]
  BY <1>8, <1>16, <1>18, Zenon
<1> QED BY <1>12, <1>14, <1>15, <1>17, <1>18, Zenon DEF PutCells, new, m, tracked

\* The store behind knows which containers exist.
Knows(has, base) == \A c \in Containers : has[c] <=> base[c] # Nil

\* Has finds a container exactly if it has a value.
LEMMA HasByValue ==
    ASSUME NEW has, NEW base, Knows(has, base), NEW loc, NEW c \in Containers
    PROVE  HasIn(loc, has, c) <=> Values(loc, base)[c] # Nil
<1>1. c \in Paths
  BY Nesting, Zenon
<1>2. Values(loc, base)[c] = ResolveValue(loc, base, c)
  BY <1>1, Zenon DEF Values
<1>3. /\ loc[c] # NoCell => ResolveValue(loc, base, c) = loc[c].val
      /\ loc[c] = NoCell => ResolveValue(loc, base, c) = base[c]
  BY CachedValue
<1> QED BY <1>2, <1>3, Zenon DEF HasIn, Knows

\* The outcome new of writing v to p in the store loc.
Puts(loc, new, base, tx, p, v, pending) ==
    LET m == Values(loc, base)
    IN  /\ Level(new, base, pending \ {p})
        /\ \A q \in Paths : RecordedIn(loc, q) => RecordedIn(new, q)
        /\ IF m[Parent[p]] # Nil \/ tx = "SYSTEM"
           THEN /\ Values(new, base) = AfterPut(loc, m, tx, p, v)
                /\ WrittenIn(new, p)
                /\ \A q \in Paths :
                       q # p /\ ~(Tracked(tx, Parent[p]) /\ q = Parent[p])
                             /\ ~GoesToo(loc, m, p, v, q) => new[q] = loc[q]
           ELSE new = loc

\* write keeps a store in order.
LEMMA WriteKeeps ==
    ASSUME NEW base, IsBase(base), NEW has, Knows(has, base),
           NEW pending, NEW loc, Level(loc, base, pending),
           NEW tx, NEW p \in Paths, NEW v, MayPut(tx, p, v, pending)
    PROVE  Puts(loc, AfterWrite(loc, base, has, tx, p, v), base, tx, p, v, pending)
<1> DEFINE new == AfterWrite(loc, base, has, tx, p, v)
           m == Values(loc, base)
<1>1. Tree(m, pending)
  BY Zenon DEF Level
<1>2. Parent[p] \in Containers
  BY Nesting, Zenon DEF MayPut
<1>3. HasIn(loc, has, Parent[p]) <=> m[Parent[p]] # Nil
  BY <1>2, HasByValue, Zenon
<1>4. CASE m[Parent[p]] # Nil \/ tx = "SYSTEM"
  <2>1. PutCells(loc, new, base, tx, p, v)
    BY <1>3, <1>4, WriteEffect, Zenon
  <2>2. Tree(AfterPut(loc, m, tx, p, v), pending \ {p})
    BY <1>1, <1>4, PutKeepsTree, Zenon
  <2> QED BY <1>4, <2>1, <2>2, Zenon DEF Puts, PutCells, Level
<1>5. CASE m[Parent[p]] = Nil /\ tx # "SYSTEM"
  <2>1. new = loc
    BY <1>3, <1>5, Zenon DEF AfterWrite
  <2>2. ASSUME NEW c \in Containers, m[c] # Nil, NEW e \in m[c]
        PROVE  m[e] # Nil \/ e \in pending \ {p}
    <3> HIDE DEF m
    <3>1. Parent[e] = c /\ (m[e] # Nil \/ e \in pending)
      BY <1>1, <2>2, ListedBelow, Zenon
    <3> QED BY <1>5, <2>2, <3>1, Zenon
  <2>3. Tree(m, pending \ {p})
    <3> HIDE DEF m
    <3> QED BY <1>1, <2>2, Zenon DEF Tree
  <2> QED BY <1>5, <2>1, <2>3, Zenon DEF Puts, Level
<1> QED BY <1>4, <1>5, Zenon

\* The values after a write to "c*".
AfterClear(loc, m, c) ==
    [q \in Paths |-> IF q = c THEN {}
                     ELSE IF q \in m[c] /\ loc[q] # NoCell THEN Nil ELSE m[q]]

\* The cells new are those of loc after a write to "c*".
Clears(loc, new, base, c) ==
    LET m == Values(loc, base)
    IN  /\ Level(new, base, {})
        /\ \A q \in Paths : RecordedIn(loc, q) => RecordedIn(new, q)
        /\ \/ new = loc
           \/ m[c] # Nil /\ Values(new, base) = AfterClear(loc, m, c)

\* A write to "c*" keeps a store in order.
LEMMA WildcardKeeps ==
    ASSUME NEW base, IsBase(base), NEW has, NEW loc, Level(loc, base, {}),
           NEW tx, NEW c \in Containers \ SysPaths
    PROVE  Clears(loc, AfterWildcard(loc, base, has, tx, c), base, c)
<1> DEFINE m == Values(loc, base)
           cell == ResolveCell(loc, base, c)
           loc1 == DeleteCached(loc, cell.val)
           loc2 == WithCell(loc1, c, SetCell(cell, {}))
           new == AfterWildcard(loc, base, has, tx, c)
<1>1. loc \in Caches /\ Faithful(loc, base) /\ Tree(m, {}) /\ c \in Paths
  BY Nesting, Zenon DEF Level
<1>2. new = loc \/ (cell.val # Nil /\ new = loc2)
  BY Zenon DEF AfterWildcard, WithCell
<1>3. \A q \in Paths : ResolveValue(loc, base, q) = m[q]
  BY Zenon DEF Values
<1> HIDE DEF m, new
<1>4. CASE new = loc
  BY <1>4, Zenon DEF Clears, new
<1>5. CASE cell.val # Nil /\ new = loc2
  <2>1. cell \in Cell(c) /\ cell.val = m[c] /\ (cell.committed <=> base[c] # Nil)
    <3>1. base[c] \in ValuesAt(c) \cup {Nil}
      BY <1>1, Zenon DEF IsBase
    <3> QED BY <1>1, <1>3, <3>1, Resolved
  <2>2. DeletesMany(loc, loc1, base, m[c])
    BY <1>1, <2>1, DeleteMany, Zenon
  <2> HIDE DEF cell, loc1
  <2>3. {} \in ValuesAt(c) \cup {Nil} /\ {} # Nil
    <3>1. {} \in ValuesAt(c)
      BY ContainerValue, Zenon
    <3> QED BY <1>1, <3>1, NilAssumption, Zenon
  <2>4. SetsOne(loc1, loc2, base, c, {})
    <3>1. loc1 \in Caches /\ Faithful(loc1, base)
      BY <2>2, Zenon DEF DeletesMany
    <3> QED BY <1>1, <2>1, <2>3, <3>1, SetOne, Zenon
  <2> HIDE DEF loc2
  <2> DEFINE n == AfterClear(loc, m, c)
  <2>5. \A q \in Paths : n[q] = IF q = c THEN {}
                                ELSE IF q \in m[c] /\ loc[q] # NoCell THEN Nil ELSE m[q]
    BY Zenon DEF AfterClear
  <2>6. Values(new, base) = n
    <3>1. \A q \in Paths : ResolveValue(new, base, q) = n[q]
      <4> HIDE DEF n
      <4> QED BY <1>3, <1>5, <2>2, <2>4, <2>5, Zenon DEF DeletesMany, SetsOne
    <3> QED BY <3>1, Zenon DEF Values, AfterClear
  <2> HIDE DEF n
  <2>7. \A q \in Paths : RecordedIn(loc, q) => RecordedIn(new, q)
    BY <1>5, <2>2, <2>4, Zenon DEF DeletesMany, SetsOne, RecordedIn
  <2>8. m[c] # Nil /\ m[c] \in ValuesAt(c)
    BY <1>1, <1>5, <2>1, Zenon DEF Tree
  <2>9. \A q \in m[c] : q \in Paths /\ Parent[q] = c /\ q \notin SysPaths /\ q \notin Containers
    BY <1>1, <2>8, ValueKinds, Nesting, Zenon
  <2>10. Tree(n, {})
    <3>1. \A d \in Containers : d # c => n[d] = m[d]
      BY <2>5, <2>9, Nesting, Zenon
    <3>2. n[c] = {}
      BY <1>1, <2>5, Zenon
    <3>3. \A q \in Paths : n[q] \in ValuesAt(q) \cup {Nil}
      BY <1>1, <2>3, <2>5, Zenon DEF Tree
    <3>4. \A d \in SysPaths \cap Containers :
              n[d] # Nil /\ (d \notin ContainerRoots => n[d] = {})
      BY <1>1, <3>1, Zenon DEF Tree
    <3>5. ASSUME NEW d \in Containers \ SysPaths
          PROVE  n[d] # Nil <=> d \in n[Parent[d]]
      <4>1. Parent[d] \in Containers /\ Parent[d] # c
        BY Nesting, Zenon
      <4>2. n[d] # Nil <=> m[d] # Nil
        BY <2>3, <2>8, <3>1, <3>2, Zenon
      <4> QED BY <1>1, <3>1, <4>1, <4>2, Zenon DEF Tree
    <3>6. ASSUME NEW d \in Containers, n[d] # Nil, NEW e \in n[d]
          PROVE  n[e] # Nil
      <4>1. d # c /\ n[d] = m[d] /\ e \in m[d] /\ m[d] # Nil
        BY <3>1, <3>2, <3>6, Zenon
      <4>2. e \in Paths /\ Parent[e] = d /\ m[e] # Nil
        BY <1>1, <4>1, ListedHere, Zenon
      <4>3. e \notin m[c]
        BY <2>9, <4>1, <4>2, Zenon
      <4> QED BY <2>3, <2>5, <4>2, <4>3, Zenon
    <3> QED BY <3>3, <3>4, <3>5, <3>6, Zenon DEF Tree
  <2>11. new \in Caches /\ Faithful(new, base)
    BY <1>5, <2>4, Zenon DEF SetsOne
  <2> QED BY <2>6, <2>7, <2>8, <2>10, <2>11, Zenon DEF Clears, Level, n, new, m
<1> QED BY <1>2, <1>4, <1>5, Zenon

-----------------------------------------------------------------------------
(* The running process *)

\* The store of the running process is in order, over a base that is a tree and
\* knows which containers exist.
LEMMA RunningStore ==
    ASSUME StoreInv
    PROVE  /\ Tree(Base(running), {}) /\ IsBase(Base(running))
           /\ Knows(HasBase(running), Base(running))
           /\ Level(localCells[running], Base(running), {})
           /\ Visible = Seen(Values(localCells[running], Base(running)))
<1> DEFINE inDB == [p \in Paths |-> committed[p] # Nil]
           m == Values(localCells["main"], committed)
<1>1. \A c \in Containers : c \in Paths
  BY Nesting, Zenon
<1>2. Knows(inDB, committed)
  BY <1>1, Zenon DEF Knows
<1>3. Tree(m, {})
  BY Zenon DEF StoreInv, Level
<1>4. Visible = Seen(Values(localCells[running], Base(running)))
  BY ReadCellSees, Zenon DEF Visible
<1>5. CASE running = "main"
  <2>1. Base(running) = committed /\ HasBase(running) = inDB
    BY <1>5, Zenon DEF Base, HasBase
  <2> HIDE DEF inDB
  <2>2. Tree(committed, {}) /\ Level(localCells["main"], committed, {})
    BY Zenon DEF StoreInv
  <2>3. IsBase(committed)
    BY <2>2, EmptyLevel, Zenon
  <2> QED BY <1>2, <1>4, <1>5, <2>1, <2>2, <2>3, Zenon
<1>6. CASE running = "sub"
  <2> DEFINE base == ReadCell(localCells["main"], committed)
             has == [p \in Paths |-> HasIn(localCells["main"], inDB, p)]
  <2>1. Base(running) = base /\ HasBase(running) = has
    BY <1>6, Zenon DEF Base, HasBase
  <2>2. base = Seen(m)
    BY ReadCellSees, Zenon
  <2>3. \A c \in Containers : has[c] <=> m[c] # Nil
    <3> HIDE DEF inDB
    <3>1. \A c \in Containers : has[c] = HasIn(localCells["main"], inDB, c)
      BY <1>1, Zenon
    <3> QED BY <1>2, <3>1, HasByValue, Zenon
  <2> HIDE DEF has, m, inDB
  <2>4. Tree(Seen(m), {}) /\ \A c \in Containers : Seen(m)[c] = m[c]
    BY <1>3, TreeSeen, Zenon
  <2>5. Knows(has, base)
    BY <2>2, <2>3, <2>4, Zenon DEF Knows
  <2>6. Level(localCells["sub"], base, {})
    BY <1>6, Zenon DEF StoreInv
  <2>7. Tree(base, {}) /\ IsBase(base)
    BY <2>2, <2>4, EmptyLevel, Zenon
  <2> HIDE DEF base
  <2> QED BY <1>4, <1>6, <2>1, <2>5, <2>6, <2>7, Zenon
<1> QED BY <1>5, <1>6, Zenon DEF StoreInv, Stores

\* The paths that an operation adds to the reads of committed values.
NewlyFound(loc) ==
    /\ found' \subseteq Paths /\ missed' \subseteq Paths
    /\ \A p \in found' \ found : p \notin Containers =>
           RecordedIn(loc, p) /\ (running = "sub" => Base(running)[p] # Nil)

\* An operation that leaves the store of the running process in order, loses no
\* record and records what it finds keeps the invariant.
LEMMA BecomeKeeps ==
    ASSUME StoreInv, NEW loc, Become(loc), Level(loc, Base(running), {}),
           \A q \in Paths : RecordedIn(localCells[running], q) => RecordedIn(loc, q),
           NewlyFound(loc)
    PROVE  StoreInv'
<1>1. /\ UNCHANGED <<committed, running, panicked, ignoreAddresses, committedReads>>
      /\ localCells' = [localCells EXCEPT ![running] = loc]
      /\ localCells = [s \in Stores |-> localCells[s]] /\ running \in Stores
  BY Zenon DEF Become, StoreInv
<1>2. /\ localCells' = [s \in Stores |-> localCells'[s]]
      /\ localCells'[running] = loc
      /\ \A s \in Stores : s # running => localCells'[s] = localCells[s]
  BY <1>1
<1>3. "main" \in Stores /\ "sub" \in Stores /\ "main" # "sub"
  BY DEF Stores
<1>4. CASE running = "main"
  <2>1. localCells'["main"] = loc /\ localCells'["sub"] = NoCells
    BY <1>2, <1>3, <1>4, Zenon DEF StoreInv
  <2>2. Level(loc, committed, {})
    BY <1>4, Zenon DEF Base
  <2>3. ReadsKept'
    <3> SUFFICES ASSUME NEW p \in found' \ Containers
                 PROVE  RecordedIn(loc, p)
      BY <2>1, Zenon DEF ReadsKept
    <3>1. p \in Paths
      BY Zenon DEF NewlyFound
    <3>2. CASE p \in found
      BY <1>3, <1>4, <3>1, <3>2, Zenon DEF StoreInv, ReadsKept
    <3>3. CASE p \notin found
      BY <3>3, Zenon DEF NewlyFound
    <3> QED BY <3>2, <3>3, Zenon
  <2> QED BY <1>1, <1>2, <1>3, <1>4, <2>1, <2>2, <2>3, Zenon DEF StoreInv, NewlyFound
<1>5. CASE running = "sub"
  <2>1. localCells'["sub"] = loc /\ localCells'["main"] = localCells["main"]
    BY <1>2, <1>3, <1>5, Zenon DEF StoreInv
  <2>2. /\ Base(running) = ReadCell(localCells["main"], committed)
        /\ ReadCell(localCells["main"], committed)' = ReadCell(localCells["main"], committed)
    <3>1. Base(running) = ReadCell(localCells["main"], committed)
      BY <1>3, <1>5, Zenon DEF Base
    <3>2. ReadCell(localCells'["main"], committed') = ReadCell(localCells["main"], committed)
      BY <1>1, <2>1, Zenon
    <3>3. ReadCell(localCells["main"], committed)' = ReadCell(localCells'["main"], committed')
      BY Zenon DEF ReadCell, ExistsInParent, ResolveValue, ResolveWildcardDeletion,
                   pendingWildcardDeletes, IsImmediateChildOfSysPath
    <3> QED BY <3>1, <3>2, <3>3, Zenon
  <2>3. ReadsKept'
    <3> SUFFICES ASSUME NEW p \in found' \ Containers
                 PROVE  \/ RecordedIn(localCells["main"], p)
                        \/ RecordedIn(loc, p)
                           /\ ReadCell(localCells["main"], committed)[p] # Nil
      BY <1>1, <1>5, <2>1, <2>2, Zenon DEF ReadsKept
    <3>1. p \in Paths
      BY Zenon DEF NewlyFound
    <3>2. CASE p \in found
      BY <1>3, <1>5, <3>1, <3>2, Zenon DEF StoreInv, ReadsKept
    <3>3. CASE p \notin found
      BY <1>5, <2>2, <3>3, Zenon DEF NewlyFound
    <3> QED BY <3>2, <3>3, Zenon
  <2>4. Level(loc, ReadCell(localCells["main"], committed), {})
    BY <2>2, Zenon
  <2> QED BY <1>1, <1>2, <1>3, <1>5, <2>1, <2>2, <2>3, <2>4, Zenon DEF StoreInv, NewlyFound
<1> QED BY <1>1, <1>4, <1>5, Zenon DEF Stores

\* What Note adds was visible, and has a value in the store behind.
LEMMA NoteFinds ==
    ASSUME StoreInv, NEW paths \in SUBSET Paths, Note(paths),
           NEW loc, \A p \in paths \ Containers : Visible[p] # Nil => RecordedIn(loc, p)
    PROVE  NewlyFound(loc)
<1>1. found' \subseteq Paths /\ missed' \subseteq Paths
  BY Zenon DEF Note, StoreInv
<1>2. ASSUME NEW p \in found' \ found
      PROVE  p \in paths /\ Visible[p] # Nil /\ Unwritten(p)
  BY Zenon DEF Note
<1>3. ASSUME NEW p \in found' \ found, running = "sub"
      PROVE  Base(running)[p] # Nil
  <2>1. p \in Paths /\ Visible[p] # Nil /\ Unwritten(p)
    BY <1>2, Zenon
  <2> DEFINE loc0 == localCells["sub"]
             base == Base("sub")
  <2>2. Faithful(loc0, base) /\ Visible = ReadCell(loc0, base)
    BY <1>3, RunningStore, Zenon DEF Level, Visible
  <2>3. ResolveValue(loc0, base, p) # Nil
    BY <2>1, <2>2, Zenon DEF ReadCell
  <2>4. loc0[p] # NoCell => ~loc0[p].written
    BY <2>1, Zenon DEF Unwritten, Stores
  <2>5. loc0[p] # NoCell => loc0[p].val = base[p]
    BY <2>1, <2>2, <2>4, Zenon DEF Faithful
  <2>6. ResolveValue(loc0, base, p) = base[p]
    <3> HIDE DEF loc0, base
    <3> QED BY <2>5, CachedValue
  <2> QED BY <1>3, <2>3, <2>6, Zenon
<1> QED BY <1>1, <1>2, <1>3, Zenon DEF NewlyFound

-----------------------------------------------------------------------------
(* The operations of the running process keep the invariant *)

\* The outcome new of reading p in the store loc.
Reads(loc, new, base, p) ==
    /\ Level(new, base, {})
    /\ Values(new, base) = Values(loc, base)
    /\ \A q \in Paths : RecordedIn(loc, q) => RecordedIn(new, q)
    /\ \A q \in Paths : WrittenIn(new, q) <=> WrittenIn(loc, q)
    /\ Seen(Values(loc, base))[p] # Nil => RecordedIn(new, p)

\* Read keeps a store in order.
LEMMA ReadKeeps ==
    ASSUME NEW base, IsBase(base), NEW loc, Level(loc, base, {}), NEW p \in Paths
    PROVE  Reads(loc, AfterRead(loc, base, p), base, p)
<1> DEFINE new == AfterRead(loc, base, p)
<1>1. loc \in Caches /\ Faithful(loc, base)
  BY Zenon DEF Level
<1>2. LooksUp(loc, new, base) /\ (ExistsInParent(loc, base, p) => RecordedIn(new, p))
  BY <1>1, AfterReadLooksUp, Zenon
<1> HIDE DEF new
<1>3. Level(new, base, {}) /\ Values(new, base) = Values(loc, base)
  BY <1>2, LevelLooksUp, Zenon
<1>4. Seen(Values(loc, base))[p] # Nil => ExistsInParent(loc, base, p)
  BY ReadCellSees, Zenon DEF Seen
<1> QED BY <1>2, <1>3, <1>4, Zenon DEF Reads, LooksUp, new

\* If nothing is noted, nothing is newly found.
LEMMA NothingFound ==
    ASSUME StoreInv, UNCHANGED <<found, missed>>, NEW loc
    PROVE  NewlyFound(loc)
BY Zenon DEF NewlyFound, StoreInv

\* Read keeps the invariant.
LEMMA InvRead ==
    ASSUME StoreInv, NEW p \in Paths, Read(p)
    PROVE  StoreInv'
<1> DEFINE loc == localCells[running]
           base == Base(running)
           new == AfterRead(loc, base, p)
<1>1. IsBase(base) /\ Level(loc, base, {}) /\ Visible = Seen(Values(loc, base))
  BY RunningStore, Zenon
<1>2. Become(new) /\ Note({p})
  BY Zenon DEF Read
<1>3. Reads(loc, new, base, p)
  <2> HIDE DEF loc, base
  <2> QED BY <1>1, ReadKeeps, Zenon
<1> HIDE DEF new
<1>4. NewlyFound(new)
  <2>1. \A q \in {p} \ Containers : Visible[q] # Nil => RecordedIn(new, q)
    BY <1>1, <1>3, Zenon DEF Reads
  <2>2. {p} \in SUBSET Paths
    BY Zenon
  <2> QED BY <1>2, <2>1, <2>2, NoteFinds, Zenon
<1> QED BY <1>2, <1>3, <1>4, BecomeKeeps, Zenon DEF Reads

\* A step that leaves the stores and the reads alone keeps the invariant.
LEMMA InvOther ==
    ASSUME StoreInv, UNCHANGED <<committed, localCells, running, found>>,
           panicked' \in BOOLEAN, ignoreAddresses' \subseteq {AccountOf[p] : p \in Paths},
           missed' \subseteq Paths, committedReads' \subseteq Paths
    PROVE  StoreInv'
<1>1. ReadsKept'
  BY Zenon DEF StoreInv, ReadsKept, ReadCell, ExistsInParent, ResolveValue,
       ResolveWildcardDeletion, pendingWildcardDeletes, IsImmediateChildOfSysPath
<1>2. ReadCell(localCells["main"], committed)' = ReadCell(localCells["main"], committed)
  BY Zenon DEF ReadCell, ExistsInParent, ResolveValue, ResolveWildcardDeletion,
               pendingWildcardDeletes, IsImmediateChildOfSysPath
<1> QED BY <1>1, <1>2, Zenon DEF StoreInv

\* ReadCommitted drops the cell it makes, so it keeps the invariant.
LEMMA InvReadCommitted ==
    ASSUME StoreInv, NEW p \in Paths, ReadCommitted(p)
    PROVE  StoreInv'
BY InvOther, Zenon DEF StoreInv, ReadCommitted

\* The conditions on a write of the running process are those of write.
LEMMA WritesMayPut ==
    ASSUME NEW tx, NEW p \in Paths, NEW v, v \in ValuesAt(p) \cup {Nil}, Writes(tx, p, v)
    PROVE  MayPut(tx, p, v, {})
BY Zenon DEF Writes, MayPut

\* Write keeps the invariant: the parent lists the path if it got a value.
LEMMA InvWrite ==
    ASSUME StoreInv, NEW tx, NEW p \in Paths, NEW v, MayPut(tx, p, v, {}), Write(tx, p, v)
    PROVE  StoreInv'
<1> DEFINE loc == localCells[running]
           base == Base(running)
           new == AfterWrite(loc, base, HasBase(running), tx, p, v)
<1>1. IsBase(base) /\ Knows(HasBase(running), base) /\ Level(loc, base, {})
  BY RunningStore, Zenon
<1>2. Become(new) /\ UNCHANGED <<found, missed>>
  BY Zenon DEF Write
<1>3. Puts(loc, new, base, tx, p, v, {})
  <2> HIDE DEF loc, base
  <2> QED BY <1>1, WriteKeeps, Zenon
<1> HIDE DEF new
<1>4. NewlyFound(new)
  BY <1>2, NothingFound, Zenon
<1>5. Level(new, base, {})
  <2>1. {} \ {p} = {}
    BY Zenon
  <2>2. Level(new, base, {} \ {p})
    BY <1>3, Zenon DEF Puts
  <2> QED BY <2>1, <2>2, Zenon
<1>6. \A q \in Paths : RecordedIn(loc, q) => RecordedIn(new, q)
  BY <1>3, Zenon DEF Puts
<1> QED BY <1>2, <1>4, <1>5, <1>6, BecomeKeeps, Zenon

\* A write to "c*" keeps the invariant: the list and the cached elements go
\* together.
LEMMA InvWriteWildcard ==
    ASSUME StoreInv, NEW tx, NEW c \in Containers \ SysPaths, WriteWildcard(tx, c)
    PROVE  StoreInv'
<1> DEFINE loc == localCells[running]
           base == Base(running)
           new == AfterWildcard(loc, base, HasBase(running), tx, c)
<1>1. IsBase(base) /\ Level(loc, base, {})
  BY RunningStore, Zenon
<1>2. Become(new) /\ UNCHANGED <<found, missed>>
  BY Zenon DEF WriteWildcard
<1>3. Clears(loc, new, base, c)
  <2> HIDE DEF loc, base
  <2> QED BY <1>1, WildcardKeeps, Zenon
<1> HIDE DEF new
<1>4. NewlyFound(new)
  BY <1>2, NothingFound, Zenon
<1> QED BY <1>2, <1>3, <1>4, BecomeKeeps, Zenon DEF Clears

\* What a container shows is directly under it.
LEMMA VisibleElements ==
    ASSUME StoreInv, NEW c \in Containers, Visible[c] # Nil, NEW e \in Visible[c]
    PROVE  e \in Paths /\ Parent[e] = c /\ Visible[e] # Nil
<1>1. Tree(Visible, {})
  <2> DEFINE m == Values(localCells[running], Base(running))
  <2>1. Tree(m, {}) /\ Visible = Seen(m)
    BY RunningStore, Zenon DEF Level
  <2> HIDE DEF m
  <2>2. Tree(Seen(m), {})
    BY <2>1, TreeSeen, Zenon
  <2> QED BY <2>1, <2>2, Zenon
<1> QED BY <1>1, ListedHere, Zenon

\* The crash of an operation by index keeps the invariant.
LEMMA InvNoContainer ==
    ASSUME StoreInv, NEW c, NoContainer(c)
    PROVE  StoreInv'
BY InvOther, Zenon DEF StoreInv, NoContainer

\* So does an operation by index that reads the container only.
LEMMA InvOutOfRange ==
    ASSUME StoreInv, NEW c \in Paths, OutOfRange(c)
    PROVE  StoreInv'
BY InvRead, Zenon DEF OutOfRange, Read, WithContainerRead

\* The store after an operation by index has read the container, then the element.
LEMMA BothRead ==
    ASSUME StoreInv, NEW c \in Containers, Visible[c] # Nil, NEW e \in Visible[c]
    PROVE  LET loc == AfterRead(WithContainerRead(c), Base(running), e)
           IN  /\ Level(loc, Base(running), {})
               /\ Values(loc, Base(running)) = Values(localCells[running], Base(running))
               /\ \A q \in Paths : RecordedIn(localCells[running], q) => RecordedIn(loc, q)
               /\ RecordedIn(loc, e)
<1> DEFINE loc0 == localCells[running]
           base == Base(running)
           loc1 == WithContainerRead(c)
           loc2 == AfterRead(loc1, base, e)
<1>1. IsBase(base) /\ Level(loc0, base, {}) /\ Visible = Seen(Values(loc0, base))
  BY RunningStore, Zenon
<1>2. c \in Paths /\ e \in Paths /\ Visible[e] # Nil
  BY VisibleElements, Nesting, Zenon
<1>3. loc1 = AfterRead(loc0, base, c)
  BY Zenon DEF WithContainerRead
<1> HIDE DEF loc0, base, loc1
<1>4. Reads(loc0, loc1, base, c)
  BY <1>1, <1>2, <1>3, ReadKeeps, Zenon
<1>5. Level(loc1, base, {})
  BY <1>4, Zenon DEF Reads
<1>6. Reads(loc1, loc2, base, e)
  BY <1>1, <1>2, <1>5, ReadKeeps, Zenon
<1> HIDE DEF loc2
<1>7. /\ Level(loc2, base, {}) /\ Values(loc2, base) = Values(loc0, base)
      /\ \A q \in Paths : RecordedIn(loc0, q) => RecordedIn(loc2, q)
      /\ RecordedIn(loc2, e)
  BY <1>1, <1>2, <1>4, <1>6, Zenon DEF Reads
<1> QED BY <1>7, Zenon DEF loc0, base, loc1, loc2

\* ReadAt keeps the invariant: the element it takes exists and is recorded.
LEMMA InvReadAt ==
    ASSUME StoreInv, NEW c \in Containers, ReadAt(c)
    PROVE  StoreInv'
<1>1. c \in Paths
  BY Nesting, Zenon
<1>2. CASE NoContainer(c)
  BY <1>2, InvNoContainer, Zenon
<1>3. CASE OutOfRange(c)
  BY <1>1, <1>3, InvOutOfRange, Zenon
<1>4. ASSUME Visible[c] # Nil, NEW e \in Visible[c],
             Become(AfterRead(WithContainerRead(c), Base(running), e)), Note({c, e})
      PROVE  StoreInv'
  <2> DEFINE loc == AfterRead(WithContainerRead(c), Base(running), e)
  <2>1. /\ Level(loc, Base(running), {}) /\ RecordedIn(loc, e)
        /\ \A q \in Paths : RecordedIn(localCells[running], q) => RecordedIn(loc, q)
    BY <1>4, BothRead, Zenon
  <2>2. Become(loc)
    BY <1>4, Zenon
  <2> HIDE DEF loc
  <2>3. {c, e} \in SUBSET Paths
    BY <1>1, <1>4, VisibleElements, Zenon
  <2>4. NewlyFound(loc)
    BY <1>4, <2>1, <2>3, NoteFinds, Zenon
  <2> QED BY <2>1, <2>2, <2>4, BecomeKeeps, Zenon
<1> QED BY <1>2, <1>3, <1>4, Zenon DEF ReadAt

\* PopBack keeps the invariant: the read of the element that it then deletes
\* stays recorded.
LEMMA InvPopBack ==
    ASSUME StoreInv, NEW c \in Containers \ SysPaths, PopBack(c)
    PROVE  StoreInv'
<1>1. c \in Paths
  BY Nesting, Zenon
<1>2. CASE NoContainer(c)
  BY <1>2, InvNoContainer, Zenon
<1>3. CASE OutOfRange(c)
  BY <1>1, <1>3, InvOutOfRange, Zenon
<1> DEFINE base == Base(running)
           read(e) == AfterRead(WithContainerRead(c), base, e)
           popped(e) == AfterWrite(read(e), base, HasBase(running), "user", e, Nil)
<1>4. ASSUME Visible[c] # Nil, NEW e \in Visible[c],
             Become(IF Visible[e] = Nil THEN read(e) ELSE popped(e)), Note({c, e})
      PROVE  StoreInv'
  <2>1. e \in Paths /\ Parent[e] = c /\ Visible[e] # Nil
    BY <1>4, VisibleElements, Zenon
  <2> DEFINE loc1 == read(e)
             loc2 == popped(e)
  <2>2. Become(loc2)
    BY <1>4, <2>1, Zenon
  <2>3. /\ Level(loc1, base, {}) /\ RecordedIn(loc1, e)
        /\ \A q \in Paths : RecordedIn(localCells[running], q) => RecordedIn(loc1, q)
    BY <1>4, BothRead, Zenon
  <2>4. IsBase(base) /\ Knows(HasBase(running), base)
    BY RunningStore, Zenon
  <2>5. e \notin SysPaths /\ e \notin Containers
    BY <2>1, Nesting, Zenon
  <2>6. MayPut("user", e, Nil, {})
    <3>1. "user" # "SYSTEM"
      OBVIOUS
    <3> QED BY <2>5, <3>1, Zenon DEF MayPut
  <2> HIDE DEF loc1, base
  <2>7. Puts(loc1, loc2, base, "user", e, Nil, {})
    BY <2>1, <2>3, <2>4, <2>6, WriteKeeps, Zenon DEF loc1
  <2> HIDE DEF loc2
  <2>8. Level(loc2, base, {})
    <3>1. {} \ {e} = {}
      BY Zenon
    <3>2. Level(loc2, base, {} \ {e})
      BY <2>7, Zenon DEF Puts
    <3> QED BY <3>1, <3>2, Zenon
  <2>9. \A q \in Paths : RecordedIn(loc1, q) => RecordedIn(loc2, q)
    BY <2>7, Zenon DEF Puts
  <2>10. {c, e} \in SUBSET Paths
    BY <1>1, <2>1, Zenon
  <2>11. NewlyFound(loc2)
    BY <1>4, <2>1, <2>3, <2>9, <2>10, NoteFinds, Zenon
  <2> QED BY <2>2, <2>3, <2>8, <2>9, <2>11, BecomeKeeps, Zenon DEF base
<1> QED BY <1>2, <1>3, <1>4, Zenon DEF PopBack

\* WriteAt keeps the invariant.
LEMMA InvWriteAt ==
    ASSUME StoreInv, NEW c \in Containers \ SysPaths, NEW v \in Vals, WriteAt(c, v)
    PROVE  StoreInv'
<1>1. c \in Paths
  BY Nesting, Zenon
<1>2. CASE NoContainer(c)
  BY <1>2, InvNoContainer, Zenon
<1>3. CASE OutOfRange(c)
  BY <1>1, <1>3, InvOutOfRange, Zenon
<1> DEFINE base == Base(running)
           loc0 == localCells[running]
           loc1 == WithContainerRead(c)
<1>4. ASSUME Visible[c] # Nil, NEW e \in Visible[c],
             Become(AfterWrite(loc1, base, HasBase(running), "user", e, v)), Note({c})
      PROVE  StoreInv'
  <2> DEFINE loc2 == AfterWrite(loc1, base, HasBase(running), "user", e, v)
  <2>1. e \in Paths /\ Parent[e] = c /\ e \notin SysPaths /\ e \notin Containers
    BY <1>4, VisibleElements, Nesting, Zenon
  <2>2. Become(loc2)
    BY <1>4, Zenon
  <2>3. IsBase(base) /\ Knows(HasBase(running), base) /\ Level(loc0, base, {})
    BY RunningStore, Zenon
  <2>4. loc1 = AfterRead(loc0, base, c)
    BY Zenon DEF WithContainerRead
  <2>5. MayPut("user", e, v, {})
    <3>1. "user" # "SYSTEM"
      OBVIOUS
    <3>2. v \in ValuesAt(e)
      BY <2>1, Zenon DEF ValuesAt
    <3> QED BY <2>1, <3>1, <3>2, Zenon DEF MayPut
  <2> HIDE DEF loc0, loc1, base
  <2>6. Reads(loc0, loc1, base, c)
    BY <1>1, <2>3, <2>4, ReadKeeps, Zenon
  <2>7. Puts(loc1, loc2, base, "user", e, v, {})
    <3>1. Level(loc1, base, {})
      BY <2>6, Zenon DEF Reads
    <3> QED BY <2>1, <2>3, <2>5, <3>1, WriteKeeps, Zenon
  <2> HIDE DEF loc2
  <2>8. Level(loc2, base, {})
    <3>1. {} \ {e} = {}
      BY Zenon
    <3>2. Level(loc2, base, {} \ {e})
      BY <2>7, Zenon DEF Puts
    <3> QED BY <3>1, <3>2, Zenon
  <2>9. \A q \in Paths : RecordedIn(loc0, q) => RecordedIn(loc2, q)
    BY <2>6, <2>7, Zenon DEF Reads, Puts
  <2>10. NewlyFound(loc2)
    <3>1. {c} \in SUBSET Paths /\ \A q \in {c} \ Containers : FALSE
      BY <1>1, Zenon
    <3> QED BY <1>4, <3>1, NoteFinds, Zenon
  <2> QED BY <2>2, <2>8, <2>9, <2>10, BecomeKeeps, Zenon DEF base, loc0
<1> QED BY <1>2, <1>3, <1>4, Zenon DEF WriteAt

-----------------------------------------------------------------------------
(* Sub-processes *)

\* A sub-process starts with a store in order.
LEMMA InvSpawn ==
    ASSUME StoreInv, Spawn
    PROVE  StoreInv'
<1> DEFINE base == ReadCell(localCells["main"], committed)
           m == Values(localCells["main"], committed)
<1>1. /\ running = "main" /\ running' = "sub"
      /\ UNCHANGED <<committed, localCells, panicked, ignoreAddresses,
                     found, missed, committedReads>>
  BY Zenon DEF Spawn
<1>2. base' = base
  BY <1>1, Zenon DEF ReadCell, ExistsInParent, ResolveValue, ResolveWildcardDeletion,
                     pendingWildcardDeletes, IsImmediateChildOfSysPath
<1>3. base = Seen(m) /\ Tree(m, {})
  BY ReadCellSees, Zenon DEF StoreInv, Level
<1>4. Tree(Seen(m), {})
  <2> HIDE DEF m
  <2> QED BY <1>3, TreeSeen, Zenon
<1>5. Level(localCells["sub"], base, {})
  <2>1. localCells["sub"] = NoCells
    BY <1>1, Zenon DEF StoreInv
  <2>2. Tree(base, {})
    BY <1>3, <1>4, Zenon
  <2> HIDE DEF base
  <2> QED BY <2>1, <2>2, EmptyLevel, Zenon
<1>6. "main" # "sub" /\ "sub" \in Stores
  BY DEF Stores
<1>7. ReadsKept'
  BY <1>1, <1>6, Zenon DEF StoreInv, ReadsKept
<1> QED BY <1>1, <1>2, <1>5, <1>6, <1>7, Zenon DEF StoreInv

\* The main store l while Insert copies cells into it: the paths in pending are
\* still to be written, the reads of the paths in waiting still to be recorded.
Inserting(l, waiting, pending) ==
    /\ Level(l, committed, pending)
    /\ \A p \in found \ Containers :
           RecordedIn(l, p) \/ (p \in waiting /\ Exists(Values(l, committed), p))

\* Writing to another path takes no path out of its parent's list.
LEMMA PutKeepsOthers ==
    ASSUME NEW m, NEW pending, Tree(m, pending), NEW tx, NEW p \in Paths, NEW v, NEW loc,
           MayPut(tx, p, v, pending), m[Parent[p]] # Nil \/ tx = "SYSTEM",
           NEW q \in Paths, q # p, Parent[q] # p, Exists(m, q)
    PROVE  Exists(AfterPut(loc, m, tx, p, v), q)
<1> DEFINE n == AfterPut(loc, m, tx, p, v)
           c == Parent[q]
<1>1. CASE IsImmediateChildOfSysPath(q)
  BY <1>1, Zenon DEF Exists
<1>2. CASE ~IsImmediateChildOfSysPath(q)
  <2>1. c \in Containers /\ c \in Paths /\ m[c] # Nil /\ q \in m[c]
    BY <1>2, Nesting, Zenon DEF Exists, IsImmediateChildOfSysPath
  <2>2. n[c] = IF Tracked(tx, Parent[p]) /\ c = Parent[p] THEN NewList(m[c], p, v)
               ELSE IF GoesToo(loc, m, p, v, c) THEN Nil ELSE m[c]
    BY <2>1, Zenon DEF AfterPut
  <2>3. ~GoesToo(loc, m, p, v, c)
    <3> SUFFICES ASSUME GoesToo(loc, m, p, v, c) PROVE FALSE
      BY Zenon
    <3>1. p \in Containers \ SysPaths /\ m[p] # Nil /\ c \in m[p]
      BY Zenon DEF GoesToo, MayPut
    <3>2. Parent[c] = p
      BY <3>1, ListedBelow, Zenon
    <3> QED BY <2>1, <3>1, <3>2, Nesting, Zenon
  <2> HIDE DEF n
  <2>4. CASE Tracked(tx, Parent[p]) /\ c = Parent[p]
    <3>1. NewList(m[c], p, v) \in ValuesAt(c)
      BY <2>4, TrackedParent, Zenon
    <3>2. n[c] # Nil
      BY <2>1, <2>2, <2>4, <3>1, NilAssumption, Zenon
    <3>3. q \in NewList(m[c], p, v)
      BY <2>1, Zenon DEF NewList
    <3> QED BY <2>2, <2>4, <3>2, <3>3, Zenon DEF Exists, n
  <2>5. CASE ~(Tracked(tx, Parent[p]) /\ c = Parent[p])
    BY <2>1, <2>2, <2>3, <2>5, Zenon DEF Exists, n
  <2> QED BY <2>4, <2>5, Zenon
<1> QED BY <1>1, <1>2, Zenon

\* Copying one cell: its path is no longer pending, and its read recorded.
LEMMA CopyKeeps ==
    ASSUME StoreInv, NEW l, NEW waiting \in SUBSET Paths, NEW pending,
           Inserting(l, waiting, pending),
           NEW p \in Paths, NEW x,
           x.written => MayPut("user", p, x.val, pending),
           ~x.written => p \notin pending,
           \A q \in waiting : Parent[q] # p
    PROVE  Inserting(CopyTo(x, l, p), waiting \ {p}, pending \ {p})
<1> DEFINE inDB == [q \in Paths |-> committed[q] # Nil]
           m == Values(l, committed)
           new == CopyTo(x, l, p)
<1>1. Level(l, committed, pending) /\ Tree(m, pending) /\ l \in Caches /\ Faithful(l, committed)
  BY Zenon DEF Inserting, Level
<1>2. Tree(committed, {}) /\ IsBase(committed) /\ found \subseteq Paths
  BY Zenon DEF StoreInv, IsBase, Tree
<1>3. Knows(inDB, committed)
  BY Nesting, Zenon DEF Knows
<1>4. "user" # "SYSTEM"
  OBVIOUS
<1>5. CASE x.written
  <2>1. new = AfterWrite(l, committed, inDB, "user", p, x.val)
    BY <1>5, Zenon DEF CopyTo
  <2> HIDE DEF new, inDB
  <2>2. MayPut("user", p, x.val, pending)
    BY <1>5, Zenon
  <2>3. Puts(l, new, committed, "user", p, x.val, pending)
    BY <1>1, <1>2, <1>3, <2>1, <2>2, WriteKeeps, Zenon
  <2>4. /\ Level(new, committed, pending \ {p})
        /\ \A q \in Paths : RecordedIn(l, q) => RecordedIn(new, q)
    BY <2>3, Zenon DEF Puts
  <2> HIDE DEF m
  <2>5. CASE m[Parent[p]] # Nil
    <3>1. /\ Values(new, committed) = AfterPut(l, m, "user", p, x.val)
          /\ RecordedIn(new, p)
      BY <2>3, <2>5, Zenon DEF Puts, WrittenIn, RecordedIn, m
    <3> SUFFICES ASSUME NEW q \in found \ Containers, ~RecordedIn(new, q)
                 PROVE  q \in waiting \ {p} /\ Exists(Values(new, committed), q)
      BY <2>4, Zenon DEF Inserting, new
    <3>2. q \in Paths /\ q # p /\ q \in waiting /\ Exists(m, q) /\ Parent[q] # p
      BY <1>2, <2>4, <3>1, Zenon DEF Inserting, m
    <3>3. Exists(AfterPut(l, m, "user", p, x.val), q)
      BY <1>1, <2>2, <2>5, <3>2, PutKeepsOthers, Zenon
    <3> QED BY <3>1, <3>2, <3>3, Zenon
  <2>6. CASE m[Parent[p]] = Nil
    <3>1. new = l
      BY <1>4, <2>3, <2>6, Zenon DEF Puts, m
    <3> SUFFICES ASSUME NEW q \in found \ Containers, ~RecordedIn(l, q)
                 PROVE  q \in waiting \ {p} /\ Exists(m, q)
      BY <2>4, <3>1, Zenon DEF Inserting, new, m
    <3>2. q \in Paths /\ q \in waiting /\ Exists(m, q)
      BY <1>2, Zenon DEF Inserting, m
    <3>3. q # p
      <4> SUFFICES ASSUME q = p PROVE FALSE
        BY Zenon
      <4>1. Parent[p] \in Containers /\ (p \in SysPaths => Parent[p] \in SysPaths)
        BY Nesting, Zenon
      <4>2. Parent[p] \notin SysPaths
        BY <1>1, <2>6, <4>1, Zenon DEF Tree
      <4> QED BY <2>6, <3>2, <4>1, <4>2, Zenon DEF Exists, IsImmediateChildOfSysPath
    <3> QED BY <3>2, <3>3, Zenon
  <2> QED BY <2>5, <2>6, Zenon DEF new
<1>6. CASE ~x.written
  <2>1. new = AfterRead(l, committed, p)
    BY <1>6, Zenon DEF CopyTo
  <2> HIDE DEF new
  <2>2. LooksUp(l, new, committed) /\ (ExistsInParent(l, committed, p) => RecordedIn(new, p))
    BY <1>1, <1>2, <2>1, AfterReadLooksUp, Zenon
  <2>3. Level(new, committed, pending) /\ Values(new, committed) = m
    BY <1>1, <2>2, LevelLooksUp, Zenon
  <2>4. ExistsInParent(l, committed, p) <=> Exists(m, p)
    BY ReadCellSees, Zenon
  <2>5. pending \ {p} = pending
    BY <1>6
  <2> HIDE DEF m
  <2> SUFFICES ASSUME NEW q \in found \ Containers, ~RecordedIn(new, q)
               PROVE  q \in waiting \ {p} /\ Exists(m, q)
    BY <2>3, <2>5, Zenon DEF Inserting, new
  <2>6. q \in Paths /\ q \in waiting /\ Exists(m, q)
    BY <1>2, <2>2, Zenon DEF Inserting, LooksUp, m
  <2>7. q # p
    BY <2>2, <2>4, <2>6, Zenon
  <2> QED BY <2>6, <2>7, Zenon
<1> QED BY <1>5, <1>6, Zenon

\* What is said of the cells that Insert copies: the containers are new and
\* their elements are copied after them.
LEMMA Exported ==
    ASSUME StoreInv, running = "sub"
    PROVE  LET sub == localCells["sub"]
               base == ReadCell(localCells["main"], committed)
               creations == {p \in Export("sub") \cap Containers : ~sub[p].committed}
               rest == Export("sub") \ Containers
               pending == {p \in rest : sub[p].written /\ sub[p].val # Nil}
           IN  /\ creations \in SUBSET Paths /\ rest \in SUBSET Paths
               /\ IsFiniteSet(creations) /\ IsFiniteSet(rest)
               /\ \A p \in creations \cup rest :
                      /\ sub[p].written => MayPut("user", p, sub[p].val, pending)
                      /\ ~sub[p].written => p \notin pending
               /\ \A p \in creations : base[p] = Nil
<1> DEFINE sub == localCells["sub"]
           base == ReadCell(localCells["main"], committed)
           creations == {p \in Export("sub") \cap Containers : ~sub[p].committed}
           rest == Export("sub") \ Containers
           pending == {p \in rest : sub[p].written /\ sub[p].val # Nil}
           m == Values(sub, base)
<1>1. Level(sub, base, {}) /\ Tree(base, {}) /\ base = Base(running)
  BY RunningStore, Zenon DEF StoreInv, Base
<1>2. sub \in Caches /\ Faithful(sub, base) /\ Tree(m, {})
  BY <1>1, Zenon DEF Level
<1>3. \A p \in Export("sub") : p \in Paths /\ sub[p] # NoCell
  BY Zenon DEF Export
<1>4. creations \in SUBSET Paths /\ rest \in SUBSET Paths
  BY <1>3, Zenon
<1>5. IsFiniteSet(creations) /\ IsFiniteSet(rest)
  <2>1. IsFiniteSet(Paths)
    BY PathAssumption, Zenon
  <2> HIDE DEF creations, rest
  <2> QED BY <1>4, <2>1, FS_Subset, Zenon
<1>6. ASSUME NEW p \in creations
      PROVE  base[p] = Nil /\ p \in Containers \ SysPaths
  <2>1. p \in Paths /\ p \in Containers /\ sub[p] # NoCell /\ ~sub[p].committed
    BY <1>3, Zenon
  <2> HIDE DEF base, sub
  <2>2. base[p] = Nil
    BY <1>2, <2>1, Zenon DEF Faithful
  <2> QED BY <1>1, <2>1, <2>2, Zenon DEF Tree
<1>7. "user" # "SYSTEM"
  OBVIOUS
<1>8. \A p \in Export("sub") : sub[p].val \in ValuesAt(p) \cup {Nil}
  <2> HIDE DEF sub
  <2> QED BY <1>2, <1>3, CacheType, Zenon
<1>9. ASSUME NEW p \in creations, sub[p].val # Nil, NEW e \in sub[p].val
      PROVE  e \in pending
  <2>1. p \in Paths /\ p \in Containers \ SysPaths /\ sub[p] # NoCell /\ base[p] = Nil
    BY <1>3, <1>6, Zenon
  <2>2. m[p] = sub[p].val
    <3>1. m[p] = ResolveValue(sub, base, p)
      BY <2>1, Zenon DEF Values
    <3> HIDE DEF sub, base, m
    <3> QED BY <2>1, <3>1, CachedValue
  <2>3. e \in Paths /\ Parent[e] = p /\ m[e] # Nil
    <3> HIDE DEF m
    <3>1. p \in Containers /\ m[p] # Nil /\ e \in m[p]
      BY <1>9, <2>1, <2>2, Zenon
    <3>2. Tree(m, {})
      BY <1>2, Zenon
    <3> QED BY <3>1, <3>2, ListedHere, Zenon
  <2>4. e \notin SysPaths /\ e \notin Containers
    BY <2>1, <2>3, Nesting, Zenon
  <2>5. base[e] = Nil
    <3> DEFINE m0 == Values(localCells["main"], committed)
    <3>1. base = Seen(m0) /\ Tree(m0, {})
      BY ReadCellSees, Zenon DEF StoreInv, Level
    <3> HIDE DEF m0, base
    <3>2. Seen(m0)[p] = m0[p]
      BY <2>1, <3>1, TreeSeen, Zenon
    <3>3. ~Exists(m0, e)
      <4>1. ~IsImmediateChildOfSysPath(e)
        BY <2>1, <2>3, <2>4, Zenon DEF IsImmediateChildOfSysPath
      <4> QED BY <2>1, <2>3, <3>1, <3>2, <4>1, Zenon DEF Exists
    <3> QED BY <2>3, <3>1, <3>3, Zenon DEF Seen
  <2>6. m[e] = ResolveValue(sub, base, e)
    BY <2>3, Zenon DEF Values
  <2> HIDE DEF m, base
  <2>7. sub[e] # NoCell /\ sub[e].val # Nil
    <3> HIDE DEF sub
    <3> QED BY <2>3, <2>5, <2>6, CachedValue
  <2>8. sub[e].written
    <3> HIDE DEF sub
    <3> QED BY <1>2, <2>3, <2>5, <2>7, Zenon DEF Faithful
  <2>9. e \in Export("sub")
    BY <2>3, <2>7, <2>8, Zenon DEF Export
  <2> QED BY <2>4, <2>7, <2>8, <2>9, Zenon
<1>10. ASSUME NEW p \in creations \cup rest, sub[p].written
       PROVE  MayPut("user", p, sub[p].val, pending)
  <2>1. sub[p].val \in ValuesAt(p) \cup {Nil}
    BY <1>8, Zenon
  <2>2. p \in Containers => p \in creations
    BY Zenon
  <2>3. p \in Containers => p \notin SysPaths
    BY <1>6, <2>2, Zenon
  <2> HIDE DEF creations, pending, sub
  <2> QED BY <1>7, <1>9, <2>1, <2>2, <2>3, Zenon DEF MayPut
<1>11. \A p \in creations \cup rest : ~sub[p].written => p \notin pending
  BY Zenon
<1>12. \A p \in creations : base[p] = Nil
  BY <1>6, Zenon
<1> HIDE DEF creations, rest, pending, base
<1> QED BY <1>4, <1>5, <1>10, <1>11, <1>12, Zenon DEF creations, rest, pending, base

\* Insert leaves the main store in order, with every read recorded in it.
LEMMA InsertResult ==
    ASSUME StoreInv, running = "sub"
    PROVE  LET sub == localCells["sub"]
               creations == {p \in Export("sub") \cap Containers : ~sub[p].committed}
               rest == Export("sub") \ Containers
           IN  Inserting(Copied(sub, Copied(sub, localCells["main"], creations), rest), {}, {})
<1> DEFINE sub == localCells["sub"]
           main == localCells["main"]
           base == ReadCell(main, committed)
           creations == {p \in Export("sub") \cap Containers : ~sub[p].committed}
           rest == Export("sub") \ Containers
           pending == {p \in rest : sub[p].written /\ sub[p].val # Nil}
           waiting == {p \in rest : base[p] # Nil}
           m == Values(main, committed)
<1>1. /\ creations \in SUBSET Paths /\ rest \in SUBSET Paths
      /\ IsFiniteSet(creations) /\ IsFiniteSet(rest)
      /\ \A p \in creations \cup rest :
             /\ sub[p].written => MayPut("user", p, sub[p].val, pending)
             /\ ~sub[p].written => p \notin pending
      /\ \A p \in creations : base[p] = Nil
  BY Exported, Zenon
<1>2. base = Seen(m) /\ Tree(m, {})
  BY ReadCellSees, Zenon DEF StoreInv, Level
<1>3. \A p \in creations : p \in Containers
  BY Zenon
<1>4. \A p \in rest : p \notin Containers
  BY Zenon
<1>5. pending \subseteq rest /\ waiting \subseteq rest
  BY Zenon
<1>6. \A p \in waiting : base[p] # Nil
  BY Zenon
<1>7. Inserting(main, waiting, pending)
  <2>1. Level(main, committed, {})
    BY Zenon DEF StoreInv
  <2>2. Level(main, committed, pending)
    <3> HIDE DEF main, pending
    <3> QED BY <2>1, Zenon DEF Level, Tree
  <2>3. ASSUME NEW p \in found \ Containers, ~RecordedIn(main, p)
        PROVE  p \in waiting /\ Exists(m, p)
    <3>1. p \in Paths /\ RecordedIn(sub, p) /\ base[p] # Nil
      BY <2>3, Zenon DEF StoreInv, ReadsKept
    <3>2. p \in Export("sub")
      BY <3>1, Zenon DEF RecordedIn, Export
    <3>3. Exists(m, p)
      <4> HIDE DEF base, m
      <4> QED BY <1>2, <3>1, Zenon DEF Seen
    <3> QED BY <3>1, <3>2, <3>3, Zenon
  <2> HIDE DEF waiting, pending
  <2> QED BY <2>2, <2>3, Zenon DEF Inserting
<1> HIDE DEF pending, waiting, creations, rest
<1>8. ASSUME NEW q \in waiting, NEW p \in creations
      PROVE  Parent[q] # p
  <2> SUFFICES ASSUME Parent[q] = p PROVE FALSE
    BY Zenon
  <2> HIDE DEF base, m
  <2>1. q \in Paths /\ p \in Containers /\ p \in Paths
    BY <1>1, <1>3, <1>5, Zenon
  <2>2. m[p] = Nil
    <3>1. \A c \in Containers : Seen(m)[c] = m[c]
      BY <1>2, TreeSeen, Zenon
    <3>2. base[p] = Nil
      BY <1>1, Zenon
    <3> QED BY <1>2, <2>1, <3>1, <3>2, Zenon
  <2>3. p \notin SysPaths
    BY <1>2, <2>1, <2>2, Zenon DEF Tree
  <2>4. q \notin SysPaths
    BY <2>1, <2>3, Nesting, Zenon
  <2>5. ~Exists(m, q)
    BY <2>2, <2>3, <2>4, Zenon DEF Exists, IsImmediateChildOfSysPath
  <2>6. base[q] = Nil
    BY <1>2, <2>1, <2>5, Zenon DEF Seen
  <2> QED BY <1>6, <2>6, Zenon
<1>9. ASSUME NEW q \in waiting, NEW p \in rest
      PROVE  Parent[q] # p
  <2> SUFFICES ASSUME Parent[q] = p PROVE FALSE
    BY Zenon
  <2>1. q \in Paths /\ q \notin Containers /\ p \notin Containers
    BY <1>1, <1>4, <1>5, Zenon
  <2> QED BY <2>1, Nesting, Zenon
<1> DEFINE K1 == {l \in Caches : Inserting(l, waiting, pending)}
           Kept1 == [s \in SUBSET creations |-> K1]
           loc1 == Copied(sub, main, creations)
<1>10. loc1 \in K1
  <2>1. main \in Caches
    BY Zenon DEF StoreInv, Level
  <2>2. {} \in SUBSET creations /\ creations \in SUBSET creations
    BY Zenon
  <2>3. ASSUME NEW p \in creations, NEW l \in K1
        PROVE  CopyTo(sub[p], l, p) \in K1
    <3>1. p \notin waiting /\ p \notin pending /\ p \in Paths
      BY <1>1, <1>3, <1>4, <1>5, Zenon
    <3>2. waiting \ {p} = waiting /\ pending \ {p} = pending
      BY <3>1
    <3>3. waiting \in SUBSET Paths /\ Inserting(l, waiting, pending)
      BY <1>1, <1>5, Zenon
    <3> DEFINE x == sub[p]
    <3>4. /\ x.written => MayPut("user", p, x.val, pending)
          /\ ~x.written => p \notin pending
      BY <1>1, Zenon
    <3> HIDE DEF x
    <3>5. Inserting(CopyTo(x, l, p), waiting \ {p}, pending \ {p})
      BY <1>8, <3>1, <3>3, <3>4, CopyKeeps, Zenon
    <3>6. Inserting(CopyTo(x, l, p), waiting, pending)
      BY <3>2, <3>5, Zenon
    <3>7. CopyTo(x, l, p) \in Caches
      BY <3>6, Zenon DEF Inserting, Level
    <3> QED BY <3>6, <3>7, Zenon DEF x
  <2> HIDE DEF main, sub
  <2>4. main \in K1
    BY <1>7, <2>1, Zenon
  <2> HIDE DEF K1
  <2>5. \A s \in SUBSET creations : Kept1[s] = K1
    BY Zenon
  <2>6. \A s \in SUBSET creations : \A p \in creations \ s : \A l \in Kept1[s] :
            CopyTo(sub[p], l, p) \in Kept1[s \cup {p}]
    <3> SUFFICES ASSUME NEW s \in SUBSET creations, NEW p \in creations \ s, NEW l \in Kept1[s]
                 PROVE  CopyTo(sub[p], l, p) \in Kept1[s \cup {p}]
      BY Zenon
    <3>1. s \cup {p} \in SUBSET creations
      BY Zenon
    <3>2. l \in K1 /\ Kept1[s \cup {p}] = K1
      BY <2>5, <3>1, Zenon
    <3> QED BY <2>3, <3>2, Zenon
  <2>7. main \in Kept1[{}]
    BY <2>2, <2>4, <2>5, Zenon
  <2> HIDE DEF Kept1
  <2>8. Copied(sub, main, creations) \in Kept1[creations]
    BY <1>1, <2>6, <2>7, CopiedKeeps, Zenon
  <2> QED BY <2>2, <2>5, <2>8, Zenon
<1> HIDE DEF loc1
<1> DEFINE K2(s) == {l \in Caches : Inserting(l, waiting \ s, pending \ s)}
           Kept2 == [s \in SUBSET rest |-> K2(s)]
           loc2 == Copied(sub, loc1, rest)
<1>11. loc2 \in K2(rest)
  <2>1. loc1 \in K2({})
    <3>1. waiting \ {} = waiting /\ pending \ {} = pending
      OBVIOUS
    <3>2. loc1 \in Caches /\ Inserting(loc1, waiting, pending)
      BY <1>10, Zenon
    <3>3. Inserting(loc1, waiting \ {}, pending \ {})
      BY <3>1, <3>2, Zenon
    <3> QED BY <3>2, <3>3, Zenon
  <2>2. {} \in SUBSET rest /\ rest \in SUBSET rest
    BY Zenon
  <2>3. ASSUME NEW s \in SUBSET rest, NEW p \in rest \ s, NEW l \in K2(s)
        PROVE  CopyTo(sub[p], l, p) \in K2(s \cup {p})
    <3> DEFINE w == waiting \ s
               pen == pending \ s
               x == sub[p]
    <3>1. w \ {p} = waiting \ (s \cup {p}) /\ pen \ {p} = pending \ (s \cup {p})
      OBVIOUS
    <3>2. w \in SUBSET Paths /\ Inserting(l, w, pen) /\ p \in Paths
      BY <1>1, <1>5, Zenon
    <3>3. /\ x.written => MayPut("user", p, x.val, pen)
          /\ ~x.written => p \notin pen
      <4>1. /\ x.written => MayPut("user", p, x.val, pending)
            /\ ~x.written => p \notin pending
        BY <1>1, Zenon
      <4>2. p \notin Containers
        BY <1>4, Zenon
      <4> QED BY <4>1, <4>2, Zenon DEF MayPut
    <3>4. \A q \in w : Parent[q] # p
      BY <1>9, Zenon
    <3> HIDE DEF x, w, pen
    <3>5. Inserting(CopyTo(x, l, p), w \ {p}, pen \ {p})
      BY <3>2, <3>3, <3>4, CopyKeeps, Zenon
    <3>6. Inserting(CopyTo(x, l, p), waiting \ (s \cup {p}), pending \ (s \cup {p}))
      BY <3>1, <3>5, Zenon
    <3>7. CopyTo(x, l, p) \in Caches
      BY <3>6, Zenon DEF Inserting, Level
    <3> QED BY <3>6, <3>7, Zenon DEF x
  <2> HIDE DEF main, sub, K2
  <2>4. \A s \in SUBSET rest : Kept2[s] = K2(s)
    BY Zenon
  <2>5. \A s \in SUBSET rest : \A p \in rest \ s : \A l \in Kept2[s] :
            CopyTo(sub[p], l, p) \in Kept2[s \cup {p}]
    <3> SUFFICES ASSUME NEW s \in SUBSET rest, NEW p \in rest \ s, NEW l \in Kept2[s]
                 PROVE  CopyTo(sub[p], l, p) \in Kept2[s \cup {p}]
      BY Zenon
    <3>1. s \cup {p} \in SUBSET rest
      BY Zenon
    <3>2. l \in K2(s) /\ Kept2[s \cup {p}] = K2(s \cup {p})
      BY <2>4, <3>1, Zenon
    <3> QED BY <2>3, <3>2, Zenon
  <2>6. loc1 \in Kept2[{}]
    BY <2>1, <2>2, <2>4, Zenon
  <2> HIDE DEF Kept2
  <2>7. Copied(sub, loc1, rest) \in Kept2[rest]
    BY <1>1, <2>5, <2>6, CopiedKeeps, Zenon
  <2> QED BY <2>2, <2>4, <2>7, Zenon
<1>12. waiting \ rest = {} /\ pending \ rest = {}
  BY <1>5
<1>13. Inserting(loc2, waiting \ rest, pending \ rest)
  BY <1>11, Zenon
<1> HIDE DEF loc2
<1>14. Inserting(loc2, {}, {})
  BY <1>12, <1>13, Zenon
<1> QED BY <1>14, Zenon DEF loc2, loc1, creations, rest, main, sub

\* Insert keeps the invariant.
LEMMA InvInsert ==
    ASSUME StoreInv, Insert
    PROVE  StoreInv'
<1> DEFINE sub == localCells["sub"]
           creations == {p \in Export("sub") \cap Containers : ~sub[p].committed}
           new == Copied(sub, Copied(sub, localCells["main"], creations), Export("sub") \ Containers)
<1>1. /\ running = "sub" /\ running' = "main"
      /\ localCells' = [main |-> new, sub |-> NoCells]
      /\ UNCHANGED <<committed, panicked, ignoreAddresses, found, missed, committedReads>>
  BY Zenon DEF Insert
<1>2. Inserting(new, {}, {})
  BY <1>1, InsertResult, Zenon
<1> HIDE DEF new
<1>3. /\ localCells' = [s \in Stores |-> localCells'[s]]
      /\ localCells'["main"] = new /\ localCells'["sub"] = NoCells
      /\ "main" \in Stores /\ "main" # "sub"
  BY <1>1 DEF Stores
<1>4. Level(new, committed, {}) /\ \A p \in found \ Containers : RecordedIn(new, p)
  BY <1>2, Zenon DEF Inserting
<1>5. ReadsKept'
  BY <1>1, <1>3, <1>4, Zenon DEF ReadsKept
<1> QED BY <1>1, <1>3, <1>4, <1>5, Zenon DEF StoreInv

-----------------------------------------------------------------------------
(* Taking back accounts, and committing *)

\* The values m of the accounts in D, the values n of the others.
ByAccount(D, m, n) == [p \in Paths |-> IF AccountOf[p] \in D THEN m[p] ELSE n[p]]

\* Accounts are apart: a tree, with the paths of some accounts as in another
\* tree, is a tree.
LEMMA AccountsApart ==
    ASSUME NEW m, NEW n, Tree(m, {}), Tree(n, {}), NEW D
    PROVE  Tree(ByAccount(D, m, n), {})
<1> DEFINE k == ByAccount(D, m, n)
<1>1. \A p \in Paths : k[p] = IF AccountOf[p] \in D THEN m[p] ELSE n[p]
  BY Zenon DEF ByAccount
<1> HIDE DEF k
<1>2. \A p \in Paths \ SysPaths : AccountOf[p] = AccountOf[Parent[p]]
  BY PathAssumption, Zenon
<1>3. \A p \in Paths : k[p] \in ValuesAt(p) \cup {Nil}
  BY <1>1, Zenon DEF Tree
<1>4. \A c \in SysPaths \cap Containers : k[c] # Nil /\ (c \notin ContainerRoots => k[c] = {})
  BY <1>1, Nesting, Zenon DEF Tree
<1>5. ASSUME NEW c \in Containers \ SysPaths
      PROVE  k[c] # Nil <=> c \in k[Parent[c]]
  <2>1. c \in Paths /\ Parent[c] \in Paths /\ AccountOf[c] = AccountOf[Parent[c]]
    BY <1>2, Nesting, Zenon
  <2> QED BY <1>1, <2>1, Zenon DEF Tree
<1>6. ASSUME NEW c \in Containers, k[c] # Nil, NEW e \in k[c]
      PROVE  k[e] # Nil
  <2>1. c \in Paths
    BY Nesting, Zenon
  <2>2. e \in Paths /\ Parent[e] = c /\ (AccountOf[c] \in D => m[e] # Nil)
                    /\ (AccountOf[c] \notin D => n[e] # Nil)
    <3>1. CASE AccountOf[c] \in D
      <4>1. m[c] # Nil /\ e \in m[c]
        BY <1>1, <1>6, <2>1, <3>1, Zenon
      <4> QED BY <3>1, <4>1, ListedHere, Zenon
    <3>2. CASE AccountOf[c] \notin D
      <4>1. n[c] # Nil /\ e \in n[c]
        BY <1>1, <1>6, <2>1, <3>2, Zenon
      <4> QED BY <3>2, <4>1, ListedHere, Zenon
    <3> QED BY <3>1, <3>2, Zenon
  <2>3. e \notin SysPaths
    <3> SUFFICES ASSUME e \in SysPaths PROVE FALSE
      BY Zenon
    <3>1. c \notin ContainerRoots /\ c \in SysPaths
      BY <2>1, <2>2, Nesting, Zenon
    <3> QED BY <1>4, <1>6, <3>1, Zenon
  <2>4. AccountOf[e] = AccountOf[c]
    BY <1>2, <2>2, <2>3, Zenon
  <2> QED BY <1>1, <2>2, <2>4, Zenon
<1> QED BY <1>3, <1>4, <1>5, <1>6, Zenon DEF Tree, k

\* Dropping the cells of an account keeps the invariant.
LEMMA InvRemoveByAddress ==
    ASSUME StoreInv, NEW a, RemoveByAddress(a)
    PROVE  StoreInv'
<1> DEFINE main == localCells["main"]
           dropped == {p \in Paths : AccountOf[p] = a}
           new == [p \in Paths |-> IF p \in dropped THEN NoCell ELSE main[p]]
           m == Values(main, committed)
<1>1. /\ running = "main" /\ found' = found \ dropped /\ missed' = missed \ dropped
      /\ localCells' = [localCells EXCEPT !["main"] = new]
      /\ UNCHANGED <<committed, running, panicked, ignoreAddresses, committedReads>>
      /\ localCells = [s \in Stores |-> localCells[s]] /\ localCells["sub"] = NoCells
  BY Zenon DEF RemoveByAddress, StoreInv
<1>2. /\ new = [p \in Paths |-> new[p]]
      /\ \A p \in Paths : new[p] = IF AccountOf[p] = a THEN NoCell ELSE main[p]
  BY Zenon
<1>3. \A p \in Paths : p \in dropped <=> AccountOf[p] = a
  BY Zenon
<1> HIDE DEF new, dropped
<1>4. /\ localCells' = [s \in Stores |-> localCells'[s]]
      /\ localCells'["main"] = new /\ localCells'["sub"] = NoCells
      /\ "main" \in Stores /\ "main" # "sub"
  BY <1>1 DEF Stores
<1>5. main \in Caches /\ Faithful(main, committed) /\ Tree(m, {}) /\ Tree(committed, {})
  BY Zenon DEF StoreInv, Level
<1>6. Level(new, committed, {})
  <2> HIDE DEF main
  <2>1. new \in Caches
    <3>1. \A p \in Paths : new[p] \in Cell(p) \cup {NoCell}
      BY <1>2, <1>5, CacheType, Zenon
    <3> QED BY <1>2, <3>1, CacheIntro, Zenon
  <2>2. Faithful(new, committed)
    BY <1>2, <1>5, Zenon DEF Faithful
  <2>3. \A p \in Paths : ResolveValue(new, committed, p) =
                             IF AccountOf[p] \in {a} THEN committed[p] ELSE m[p]
    <3> SUFFICES ASSUME NEW p \in Paths
                 PROVE  ResolveValue(new, committed, p) =
                            IF AccountOf[p] \in {a} THEN committed[p] ELSE m[p]
      BY Zenon
    <3>1. m[p] = ResolveValue(main, committed, p)
      BY Zenon DEF Values
    <3> HIDE DEF m
    <3>2. CASE AccountOf[p] = a
      BY <1>2, <3>2, CachedValue
    <3>3. CASE AccountOf[p] # a
      BY <1>2, <3>1, <3>3, CachedValue
    <3> QED BY <3>2, <3>3, Zenon
  <2>4. Values(new, committed) = ByAccount({a}, committed, m)
    BY <2>3, Zenon DEF Values, ByAccount
  <2> HIDE DEF m
  <2>5. Tree(ByAccount({a}, committed, m), {})
    BY <1>5, AccountsApart, Zenon
  <2> QED BY <2>1, <2>2, <2>4, <2>5, Zenon DEF Level
<1>7. ReadsKept'
  <2> SUFFICES ASSUME NEW p \in found' \ Containers
               PROVE  RecordedIn(new, p)
    BY <1>4, Zenon DEF ReadsKept
  <2>1. p \in found \ Containers /\ p \notin dropped /\ p \in Paths
    BY <1>1, Zenon DEF StoreInv
  <2>2. RecordedIn(main, p)
    BY <1>1, <1>4, <2>1, Zenon DEF StoreInv, ReadsKept
  <2>3. new[p] = main[p]
    BY <1>2, <1>3, <2>1, Zenon
  <2> QED BY <2>2, <2>3, Zenon DEF RecordedIn
<1>8. found' \subseteq Paths /\ missed' \subseteq Paths
  BY <1>1, Zenon DEF StoreInv
<1> QED BY <1>1, <1>4, <1>6, <1>7, <1>8, Zenon DEF StoreInv

\* So does leaving an account out of what is exported.
LEMMA InvAddToAutoReversion ==
    ASSUME StoreInv, NEW p \in Paths, AddToAutoReversion(AccountOf[p])
    PROVE  StoreInv'
BY InvOther, Zenon DEF StoreInv, AddToAutoReversion

\* What is committed is, per account, what the main process has or what was
\* committed before.
LEMMA CommitResult ==
    ASSUME StoreInv, Commit
    PROVE  committed' = ByAccount(ignoreAddresses, committed,
                                  Values(localCells["main"], committed))
<1> DEFINE main == localCells["main"]
           m == Values(main, committed)
<1>1. committed' = [p \in Paths |->
          IF p \in filterByAddress(Export("main")) /\ main[p].written
          THEN main[p].val ELSE committed[p]]
  BY Zenon DEF Commit
<1>2. main \in Caches /\ Faithful(main, committed)
  BY Zenon DEF StoreInv, Level
<1>3. ASSUME NEW p \in Paths
      PROVE  (IF p \in filterByAddress(Export("main")) /\ main[p].written
              THEN main[p].val ELSE committed[p])
             = IF AccountOf[p] \in ignoreAddresses THEN committed[p] ELSE m[p]
  <2>1. p \in filterByAddress(Export("main")) <=>
            /\ AccountOf[p] \notin ignoreAddresses
            /\ main[p] # NoCell /\ (main[p].read \/ main[p].written)
    BY Zenon DEF filterByAddress, Export
  <2>2. m[p] = ResolveValue(main, committed, p)
    BY Zenon DEF Values
  <2> HIDE DEF m, main
  <2>3. CASE AccountOf[p] \in ignoreAddresses
    BY <2>1, <2>3, Zenon
  <2>4. CASE AccountOf[p] \notin ignoreAddresses /\ main[p] = NoCell
    <3>1. m[p] = committed[p]
      BY <2>2, <2>4, CachedValue
    <3> QED BY <2>1, <2>4, <3>1, Zenon
  <2>5. CASE AccountOf[p] \notin ignoreAddresses /\ main[p] # NoCell
    <3>1. m[p] = main[p].val
      BY <2>2, <2>5, CachedValue
    <3>2. ~main[p].written => main[p].val = committed[p]
      BY <1>2, <2>5, Zenon DEF Faithful
    <3> QED BY <2>1, <2>5, <3>1, <3>2, Zenon
  <2> QED BY <2>3, <2>4, <2>5, Zenon
<1> HIDE DEF m, main
<1> QED BY <1>1, <1>3, Zenon DEF ByAccount, m, main

\* Commit keeps the invariant, also if accounts are left out.
LEMMA InvCommit ==
    ASSUME StoreInv, Commit
    PROVE  StoreInv'
<1> DEFINE m == Values(localCells["main"], committed)
<1>1. /\ running = "main" /\ UNCHANGED <<running, panicked>>
      /\ localCells' = [localCells EXCEPT !["main"] = NoCells]
      /\ ignoreAddresses' = {} /\ found' = {} /\ missed' = {} /\ committedReads' = {}
      /\ localCells = [s \in Stores |-> localCells[s]] /\ localCells["sub"] = NoCells
  BY Zenon DEF Commit, StoreInv
<1>2. committed' = ByAccount(ignoreAddresses, committed, m)
  BY CommitResult, Zenon
<1>3. Tree(m, {}) /\ Tree(committed, {})
  BY Zenon DEF StoreInv, Level
<1>4. Tree(committed', {})
  <2> HIDE DEF m
  <2>1. Tree(ByAccount(ignoreAddresses, committed, m), {})
    BY <1>3, AccountsApart, Zenon
  <2> QED BY <1>2, <2>1, Zenon
<1>5. Level(NoCells, committed', {})
  BY <1>4, EmptyLevel, Zenon
<1>6. /\ localCells' = [s \in Stores |-> localCells'[s]]
      /\ localCells'["main"] = NoCells /\ localCells'["sub"] = NoCells
      /\ "main" \in Stores /\ "main" # "sub"
  BY <1>1 DEF Stores
<1>7. ReadsKept'
  BY <1>1, Zenon DEF ReadsKept
<1>8. Tree(committed, {})' /\ Level(localCells["main"], committed, {})'
  BY <1>4, <1>5, <1>6, Zenon
<1> QED BY <1>1, <1>6, <1>7, <1>8, Zenon DEF StoreInv

-----------------------------------------------------------------------------
(* The invariant, and the properties that it implies *)

\* The invariant holds at first.
LEMMA InvInit == Init => StoreInv
<1> SUFFICES ASSUME Init PROVE StoreInv
  BY Zenon
<1>1. \A p \in Paths : committed[p] \in
          (IF p \notin SysPaths THEN {Nil} ELSE IF p \in Containers THEN {{}} ELSE Vals)
  BY Zenon DEF Init
<1>2. \A p \in Containers : {} \in ValuesAt(p) /\ {} # Nil
  BY ContainerValue, Nesting, NilAssumption, Zenon
<1>3. Tree(committed, {})
  <2>1. \A p \in Paths : committed[p] \in ValuesAt(p) \cup {Nil}
    BY <1>1, <1>2, Zenon DEF ValuesAt
  <2>2. \A c \in SysPaths \cap Containers : committed[c] = {} /\ committed[c] # Nil
    BY <1>1, <1>2, Nesting, Zenon
  <2>3. \A c \in Containers \ SysPaths : committed[c] = Nil /\ c \notin committed[Parent[c]]
    BY <1>1, <2>2, Nesting, Zenon
  <2>4. \A c \in Containers : committed[c] # Nil => \A e \in committed[c] : FALSE
    BY <2>2, <2>3, Zenon
  <2> QED BY <2>1, <2>2, <2>3, <2>4, Zenon DEF Tree
<1>4. Level(NoCells, committed, {})
  BY <1>3, EmptyLevel, Zenon
<1>5. /\ localCells = [s \in Stores |-> localCells[s]]
      /\ localCells["main"] = NoCells /\ localCells["sub"] = NoCells
      /\ "main" \in Stores /\ "main" # "sub"
  BY DEF Init, Stores
<1>6. ReadsKept
  BY Zenon DEF Init, ReadsKept
<1> QED BY <1>3, <1>4, <1>5, <1>6, Zenon DEF Init, StoreInv

\* Every step keeps the invariant.
LEMMA InvNext ==
    ASSUME StoreInv, [Next]_vars
    PROVE  StoreInv'
<1>1. ASSUME NEW p \in Paths \ ContainerRoots, Read(p) PROVE StoreInv'
  BY <1>1, InvRead, Zenon
<1>2. ASSUME NEW p \in Paths \ ContainerRoots, ReadCommitted(p) PROVE StoreInv'
  BY <1>2, InvReadCommitted, Zenon
<1>3. ASSUME NEW tx, NEW p \in Paths, NEW v, v \in ValuesAt(p) \cup {Nil},
             Writes(tx, p, v), Write(tx, p, v)
      PROVE  StoreInv'
  BY <1>3, WritesMayPut, InvWrite, Zenon
<1>4. ASSUME NEW tx, NEW c \in Containers \ SysPaths, WriteWildcard(tx, c) PROVE StoreInv'
  BY <1>4, InvWriteWildcard, Zenon
<1>5. ASSUME NEW c \in Containers \ SysPaths, IndexOf(c) PROVE StoreInv'
  BY <1>5, InvRead, Nesting, Zenon DEF IndexOf
<1>6. ASSUME NEW c \in Containers \ SysPaths, ReadAt(c) PROVE StoreInv'
  BY <1>6, InvReadAt, Zenon
<1>7. ASSUME NEW c \in Containers \ SysPaths, PopBack(c) PROVE StoreInv'
  BY <1>7, InvPopBack, Zenon
<1>8. ASSUME NEW c \in Containers \ SysPaths, NEW v \in Vals, WriteAt(c, v) PROVE StoreInv'
  BY <1>8, InvWriteAt, Zenon
<1>9. ASSUME NEW p \in Paths, RemoveByAddress(AccountOf[p]) PROVE StoreInv'
  BY <1>9, InvRemoveByAddress, Zenon
<1>10. ASSUME NEW p \in Paths, AddToAutoReversion(AccountOf[p]) PROVE StoreInv'
  BY <1>10, InvAddToAutoReversion, Zenon
<1>11. CASE UNCHANGED vars
  BY <1>11, InvOther, Zenon DEF vars, StoreInv
<1>12. CASE Crashed
  BY <1>11, <1>12, Zenon DEF Crashed
<1> QED
  BY <1>1, <1>2, <1>3, <1>4, <1>5, <1>6, <1>7, <1>8, <1>9, <1>10, <1>11, <1>12,
     InvSpawn, InvInsert, InvCommit, Zenon DEF Next

\* The inductive invariant holds: at every moment the values of each store, and
\* the committed ones, form a tree, whatever a sub-process deletes and whichever
\* account is taken back.
THEOREM StoreInvariant == Spec => []StoreInv
<1>1. StoreInv /\ [Next]_vars => StoreInv'
  BY InvNext
<1> QED BY <1>1, InvInit, PTL DEF Spec

\* Every variable holds a value of its kind.
THEOREM StoreTypeCorrect == Spec => []TypeOK
<1>1. StoreInv => TypeOK
  <2> SUFFICES ASSUME StoreInv PROVE TypeOK
    BY Zenon
  <2>1. \A p \in Paths : committed[p] \in ValuesAt(p) \cup {Nil}
    BY Zenon DEF StoreInv, Tree
  <2>2. localCells["main"] \in Caches
    BY Zenon DEF StoreInv, Level
  <2>3. localCells["sub"] \in Caches
    <3>1. NoCells \in Caches
      BY EmptyLevel, Zenon DEF StoreInv, Level
    <3> QED BY <3>1, Zenon DEF StoreInv, Stores, Level
  <2>4. \A s \in Stores, p \in Paths : localCells[s][p] \in Cell(p) \cup {NoCell}
    BY <2>2, <2>3, Zenon DEF Stores, Caches
  <2> QED BY <2>1, <2>4, Zenon DEF TypeOK, StoreInv
<1> QED BY <1>1, StoreInvariant, PTL

\* An element that its container lists has a value, so ReadAt and PopBack find
\* one at every position.
THEOREM ListedElementsExist == Spec => []ListedHaveValues
<1>1. StoreInv => ListedHaveValues
  BY VisibleElements, Zenon DEF ListedHaveValues
<1> QED BY <1>1, StoreInvariant, PTL

\* What a committed container lists is committed, also after StateCacheFilter
\* took back an account and after a sub-process deleted containers.
THEOREM StoreCommitsTogether == Spec => []CommittedTogether
<1>1. StoreInv => CommittedTogether
  BY ListedHere, Zenon DEF CommittedTogether, StoreInv
<1> QED BY <1>1, StoreInvariant, PTL

\* A committed value that the execution has read is among the accesses that
\* Export hands to conflict detection.
THEOREM StoreRecordsReads == Spec => []ElementReadsRecorded
<1>1. StoreInv => ElementReadsRecorded
  <2>1. "main" \in Stores /\ "sub" \in Stores
    BY DEF Stores
  <2> QED BY <2>1, Zenon DEF ElementReadsRecorded, Recorded, StoreInv, ReadsKept, RecordedIn
<1> QED BY <1>1, StoreInvariant, PTL
=============================================================================
