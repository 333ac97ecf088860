--------------------------- MODULE SegmentProofs ---------------------------
(***************************************************************************)
(* Proofs about GetSegmentAt and about ShouldPersistToEth, which goes by   *)
(* segments, for paths of any length.                                      *)
(*                                                                         *)
(* What the fold of GetSegmentAt computes is stated for every beginning of *)
(* the path (ScannedTo), and holds because a beginning for which it did    *)
(* not, the shortest, would have one before it for which it did.           *)
(***************************************************************************)
EXTENDS PathProofs

-----------------------------------------------------------------------------
(* Scanning a path *)

\* The function on the sets in D of positions of q that gives the state of the
\* scan for the n-th segment after the tokens there.
ScanRecursion(iter, q, n, D) ==
    iter = [s \in D |-> IF s = {} THEN [seg |-> -1, current |-> "", found |-> ""]
                        ELSE Scan(iter[s \ {Max(s)}], q[Max(s)], n)]

\* The greatest of some positions.
LEMMA MaxIs ==
    ASSUME NEW N \in Nat, NEW s \in SUBSET (1..N), s # {}
    PROVE  Max(s) \in s /\ \A y \in s : Max(s) >= y
<1> DEFINE back == {N - x : x \in s}
<1>1. back \in SUBSET Nat /\ back # {}
  <2>1. \A x \in s : N - x \in Nat
    OBVIOUS
  <2> QED BY <2>1, Zenon
<1>2. PICK k \in back : \A j \in back : k <= j
  <2> HIDE DEF back
  <2> QED BY <1>1, LeastNumber, Zenon
<1>3. PICK x \in s : k = N - x
  BY <1>2
<1>4. \A y \in s : x >= y
  <2> SUFFICES ASSUME NEW y \in s PROVE x >= y
    BY Zenon
  <2>1. N - x <= N - y
    BY <1>2, <1>3, Zenon
  <2> QED BY <2>1
<1> QED BY <1>4, Zenon DEF Max

\* That function exists.
LEMMA ScanExists ==
    ASSUME NEW N \in Nat, NEW q, NEW n
    PROVE  \E iter : ScanRecursion(iter, q, n, SUBSET (1..N))
<1> DEFINE D(k) == SUBSET (1..k)
           Exists(k) == \E iter : ScanRecursion(iter, q, n, D(k))
           Bad == {k \in Nat : ~Exists(k)}
           start == [seg |-> -1, current |-> "", found |-> ""]
<1>1. \A k \in Nat : \A s \in D(k) : s # {} =>
          Max(s) \in s /\ \A y \in s : Max(s) >= y
  BY MaxIs, Zenon
<1>2. \A k \in Nat : \A s \in D(k + 1) : s # {} => s \ {Max(s)} \in D(k)
  <2> SUFFICES ASSUME NEW k \in Nat, NEW s \in D(k + 1), s # {}, NEW y \in s, y # Max(s)
               PROVE  y \in 1..k
    BY Zenon
  <2>1. k + 1 \in Nat
    OBVIOUS
  <2>2. Max(s) \in s /\ Max(s) >= y
    BY <1>1, <2>1, Zenon
  <2>3. Max(s) \in 1..(k + 1) /\ y \in 1..(k + 1)
    BY <2>2, Zenon
  <2> HIDE DEF D
  <2> QED BY <2>2, <2>3
<1>3. Exists(0)
  <2>1. \A s \in D(0) : s = {}
    OBVIOUS
  <2>2. ScanRecursion([s \in D(0) |-> start], q, n, D(0))
    <3> HIDE DEF D
    <3> QED BY <2>1, Zenon DEF ScanRecursion
  <2> QED BY <2>2, Zenon
<1>4. ASSUME NEW k \in Nat, Exists(k)
      PROVE  Exists(k + 1)
  <2>1. PICK f : ScanRecursion(f, q, n, D(k))
    BY <1>4, Zenon
  <2> DEFINE next(s) == Scan(f[s \ {Max(s)}], q[Max(s)], n)
             g == [s \in D(k + 1) |-> IF s = {} THEN start ELSE next(s)]
  <2>2. \A s \in D(k) : s \in D(k + 1)
    OBVIOUS
  <2>3. \A s \in D(k + 1) : s # {} => s \ {Max(s)} \in D(k)
    BY <1>2, Zenon
  <2> HIDE DEF start, D
  <2>4. \A s \in D(k) : g[s] = f[s]
    BY <2>1, <2>2, Zenon DEF ScanRecursion, start
  <2>5. \A s \in D(k + 1) : s # {} => g[s \ {Max(s)}] = f[s \ {Max(s)}]
    BY <2>3, <2>4, Zenon
  <2>6. ScanRecursion(g, q, n, D(k + 1))
    <3> DEFINE h == [s \in D(k + 1) |->
                       IF s = {} THEN start ELSE Scan(g[s \ {Max(s)}], q[Max(s)], n)]
    <3>1. \A s \in D(k + 1) : g[s] = h[s]
      BY <2>5, Zenon
    <3>2. g = h
      BY <3>1, Zenon
    <3> QED BY <3>2, Zenon DEF ScanRecursion, start
  <2> QED BY <2>6, Zenon
<1>5. Bad = {}
  <2> SUFFICES ASSUME Bad # {} PROVE FALSE
    BY Zenon
  <2>1. PICK k \in Bad : \A m \in Bad : k <= m
    <3>1. Bad \in SUBSET Nat
      BY Zenon
    <3> HIDE DEF Bad
    <3> QED BY <3>1, LeastNumber, Zenon
  <2> HIDE DEF Exists
  <2>2. k \in Nat /\ k # 0
    BY <1>3
  <2>3. k - 1 \in Nat /\ k - 1 \notin Bad
    BY <2>1, <2>2
  <2>4. Exists(k - 1)
    BY <2>3
  <2>5. Exists((k - 1) + 1)
    BY <1>4, <2>3, <2>4, Zenon
  <2> QED BY <2>2, <2>5
<1> QED BY <1>5, Zenon

\* The scan of q for the n-th segment, and its states one after the other.
ScanAll(q, n) ==
    LET step(s, token) == Scan(s, token, n)
    IN  FoldLeft(step, [seg |-> -1, current |-> "", found |-> ""], q)

ScanStates(st, q, n) ==
    /\ st[0] = [seg |-> -1, current |-> "", found |-> ""]
    /\ \A k \in 1..Len(q) : st[k] = Scan(st[k - 1], q[k], n)

\* The fold goes through these states.
LEMMA ScanAllIs ==
    ASSUME NEW q \in Seq(Tokens), NEW n
    PROVE  \E st : ScanStates(st, q, n) /\ ScanAll(q, n) = st[Len(q)]
<1> DEFINE N == Len(q)
           it == CHOOSE iter : ScanRecursion(iter, q, n, SUBSET (1..N))
           st == [k \in 0..N |-> it[1..k]]
<1>1. N \in Nat /\ DOMAIN q = 1..N
  BY LenProperties, Zenon
<1>2. ScanAll(q, n) = it[1..N]
  BY <1>1, Zenon DEF ScanAll, FoldLeft, MapThenFoldSet, ScanRecursion
<1>3. ScanRecursion(it, q, n, SUBSET (1..N))
  BY <1>1, ScanExists, Zenon
<1> HIDE DEF it
<1>4. st[0] = [seg |-> -1, current |-> "", found |-> ""]
  <2>1. 1..0 = {} /\ 0 \in 0..N
    BY <1>1
  <2>2. it[{}] = [seg |-> -1, current |-> "", found |-> ""]
    BY <1>3, Zenon DEF ScanRecursion
  <2> QED BY <2>1, <2>2, Zenon
<1>5. ASSUME NEW k \in 1..N
      PROVE  st[k] = Scan(st[k - 1], q[k], n)
  <2>1. /\ 1..k \in SUBSET (1..N) /\ k \in 1..k /\ 1..k # {} /\ k \in Nat
        /\ k \in 0..N /\ k - 1 \in 0..N
    BY <1>1
  <2>2. Max(1..k) = k
    <3>1. Max(1..k) \in 1..k /\ \A y \in 1..k : Max(1..k) >= y
      BY <2>1, <1>1, MaxIs, Zenon
    <3> QED BY <2>1, <3>1
  <2>3. (1..k) \ {k} = 1..(k - 1)
    BY <2>1
  <2>4. it[1..k] = Scan(it[(1..k) \ {Max(1..k)}], q[Max(1..k)], n)
    BY <1>3, <2>1, Zenon DEF ScanRecursion
  <2>5. it[1..k] = Scan(it[1..(k - 1)], q[k], n)
    BY <2>2, <2>3, <2>4, Zenon
  <2> QED BY <2>1, <2>5, Zenon
<1>6. st[N] = it[1..N]
  <2>1. N \in 0..N
    BY <1>1
  <2> QED BY <2>1, Zenon
<1> HIDE DEF st
<1>7. ScanStates(st, q, n)
  BY <1>4, <1>5, Zenon DEF ScanStates
<1> QED BY <1>2, <1>6, <1>7, Zenon

\* The names among the first k members of q.
NamesTo(q, k) == {j \in 1..k : q[j] # "/"}
Count(q, k) == Cardinality(NamesTo(q, k))

\* Each name counts one.
LEMMA Counting ==
    ASSUME NEW q, NEW k \in Nat
    PROVE  /\ Count(q, k) \in Nat
           /\ Count(q, 0) = 0
           /\ q[k + 1] # "/" => Count(q, k + 1) = Count(q, k) + 1
           /\ q[k + 1] = "/" => Count(q, k + 1) = Count(q, k)
           /\ \A i \in 0..k : Count(q, i) <= Count(q, k)
<1>1. IsFiniteSet(NamesTo(q, k))
  <2>1. IsFiniteSet(1..k)
    BY FS_Interval
  <2> QED BY <2>1, FS_Subset, Zenon DEF NamesTo
<1>2. Count(q, k) \in Nat
  BY <1>1, FS_CardinalityType, Zenon DEF Count
<1>3. Count(q, 0) = 0
  <2>1. NamesTo(q, 0) = {}
    BY DEF NamesTo
  <2> QED BY <2>1, FS_EmptySet, Zenon DEF Count
<1>4. ASSUME q[k + 1] # "/"
      PROVE  Count(q, k + 1) = Count(q, k) + 1
  <2>1. NamesTo(q, k + 1) = NamesTo(q, k) \cup {k + 1}
    BY <1>4 DEF NamesTo
  <2>2. k + 1 \notin NamesTo(q, k)
    BY DEF NamesTo
  <2>3. Cardinality(NamesTo(q, k) \cup {k + 1}) = Cardinality(NamesTo(q, k)) + 1
    BY <1>1, <2>2, FS_AddElement
  <2> QED BY <2>1, <2>3, Zenon DEF Count
<1>5. ASSUME q[k + 1] = "/"
      PROVE  Count(q, k + 1) = Count(q, k)
  <2>1. NamesTo(q, k + 1) = NamesTo(q, k)
    BY <1>5 DEF NamesTo
  <2> QED BY <2>1, Zenon DEF Count
<1>6. ASSUME NEW i \in 0..k
      PROVE  Count(q, i) <= Count(q, k)
  <2>1. NamesTo(q, i) \in SUBSET NamesTo(q, k)
    BY DEF NamesTo
  <2> QED BY <1>1, <2>1, FS_Subset DEF Count
<1> QED BY <1>2, <1>3, <1>4, <1>5, <1>6

\* A name counts one more than what is before it.
LEMMA CountAt ==
    ASSUME NEW q, NEW k \in Nat, NEW j \in 1..k
    PROVE  /\ Count(q, j - 1) \in Nat
           /\ q[j] # "/" => Count(q, j) = Count(q, j - 1) + 1
<1>1. j - 1 \in Nat /\ (j - 1) + 1 = j
  OBVIOUS
<1>2. /\ Count(q, j - 1) \in Nat
      /\ q[(j - 1) + 1] # "/" => Count(q, (j - 1) + 1) = Count(q, j - 1) + 1
  BY <1>1, Counting, Zenon
<1> QED BY <1>1, <1>2

\* A slash separates any two names.
Separated(q) == \A k \in 1..(Len(q) - 1) : q[k] = "/" \/ q[k + 1] = "/"

\* The state s of the scan of q for the n-th segment after k members: a name
\* that was just read is not ended yet, all others are counted, and the n-th is
\* found once it has ended.
ScannedTo(s, q, n, k) ==
    /\ s \in [seg : Int, current : Tokens \cup {""}, found : Tokens \cup {""}]
    /\ k > 0 /\ q[k] # "/" => s.current = q[k] /\ s.seg + 2 = Count(q, k)
    /\ ~(k > 0 /\ q[k] # "/") => s.current = "" /\ s.seg + 1 = Count(q, k)
    /\ n > s.seg => s.found = ""
    /\ n <= s.seg => \A j \in 1..k : q[j] # "/" /\ Count(q, j - 1) = n => s.found = q[j]

\* No name is empty.
LEMMA NamesNotEmpty == "" \notin Tokens
BY PathAssumption, Zenon DEF Tokens, Address

\* One more member is read.
LEMMA ScanStep ==
    ASSUME NEW q \in Seq(Tokens), Separated(q), NEW n \in Nat, NEW k \in Nat, k < Len(q),
           NEW s, ScannedTo(s, q, n, k)
    PROVE  ScannedTo(Scan(s, q[k + 1], n), q, n, k + 1)
<1> DEFINE t == q[k + 1]
           new == Scan(s, t, n)
           c == Count(q, k)
           d == Count(q, k + 1)
<1>1. Len(q) \in Nat /\ k + 1 \in 1..Len(q) /\ k + 1 \in Nat /\ k + 1 > 0
  BY LenProperties
<1>2. t \in Tokens
  BY <1>1, ElementOfSeq, Zenon
<1>3. /\ s \in [seg : Int, current : Tokens \cup {""}, found : Tokens \cup {""}]
      /\ k > 0 /\ q[k] # "/" => s.current = q[k] /\ s.seg + 2 = c
      /\ ~(k > 0 /\ q[k] # "/") => s.current = "" /\ s.seg + 1 = c
      /\ n > s.seg => s.found = ""
      /\ n <= s.seg => \A j \in 1..k : q[j] # "/" /\ Count(q, j - 1) = n => s.found = q[j]
  BY Zenon DEF ScannedTo
<1>4. c \in Nat /\ (t # "/" => d = c + 1) /\ (t = "/" => d = c)
  BY Counting, Zenon
<1>5. \A j \in 1..(k + 1) : j = k + 1 \/ j \in 1..k
  OBVIOUS
<1>6. (k + 1) - 1 = k
  OBVIOUS
<1>7. CASE t # "/"
  <2>1. ~(k > 0 /\ q[k] # "/")
    <3> SUFFICES ASSUME k > 0 PROVE q[k] = "/"
      BY Zenon
    <3>1. k \in 1..(Len(q) - 1)
      BY <1>1
    <3> QED BY <1>7, <3>1, Zenon DEF Separated
  <2>2. s.seg + 1 = c /\ s.seg \in Int
    BY <1>3, <2>1, Zenon
  <2>3. new = [s EXCEPT !.current = t]
    BY <1>7, Zenon DEF Scan
  <2>4. /\ new \in [seg : Int, current : Tokens \cup {""}, found : Tokens \cup {""}]
        /\ new.seg = s.seg /\ new.current = t /\ new.found = s.found
    <3> HIDE DEF new, t
    <3> QED BY <1>2, <1>3, <2>3, Zenon
  <2>5. new.seg + 2 = d
    <3>1. \A x \in Int, a \in Nat : x + 1 = a => x + 2 = a + 1
      OBVIOUS
    <3> HIDE DEF new, c, d
    <3> QED BY <1>4, <1>7, <2>2, <2>4, <3>1, Zenon
  <2>6. n <= new.seg => \A j \in 1..(k + 1) : q[j] # "/" /\ Count(q, j - 1) = n => new.found = q[j]
    <3> SUFFICES ASSUME n <= s.seg, NEW j \in 1..(k + 1), q[j] # "/", Count(q, j - 1) = n
                 PROVE  s.found = q[j]
      BY <2>4, Zenon
    <3>1. j # k + 1
      <4> SUFFICES ASSUME j = k + 1 PROVE FALSE
        BY Zenon
      <4>1. c = n
        BY <1>6, Zenon
      <4> HIDE DEF c
      <4> QED BY <2>2, <4>1
    <3> QED BY <1>3, <1>5, <3>1, Zenon
  <2> HIDE DEF new, d, c
  <2> QED BY <1>1, <1>3, <1>7, <2>4, <2>5, <2>6, Zenon DEF ScannedTo, t, new, d
<1>8. CASE t = "/" /\ ~(k > 0 /\ q[k] # "/")
  <2>1. s.current = "" /\ s.seg + 1 = c
    BY <1>3, <1>8, Zenon
  <2>2. new = s
    BY <1>8, <2>1, Zenon DEF Scan
  <2>3. n <= s.seg => \A j \in 1..(k + 1) : q[j] # "/" /\ Count(q, j - 1) = n => s.found = q[j]
    BY <1>3, <1>5, <1>8, Zenon
  <2>4. s.seg + 1 = d
    BY <1>4, <1>8, <2>1, Zenon
  <2> HIDE DEF new, c, d
  <2>5. ScannedTo(s, q, n, k + 1)
    BY <1>3, <1>8, <2>1, <2>3, <2>4, Zenon DEF ScannedTo, t, d
  <2> QED BY <2>2, <2>5, Zenon DEF new, t
<1>9. CASE t = "/" /\ k > 0 /\ q[k] # "/"
  <2>1. s.current = q[k] /\ s.seg + 2 = c /\ s.seg \in Int
    BY <1>3, <1>9, Zenon
  <2>2. q[k] \in Tokens /\ q[k] # ""
    <3>1. k \in 1..Len(q)
      BY <1>1, <1>9
    <3> QED BY <3>1, ElementOfSeq, NamesNotEmpty, Zenon
  <2> DEFINE f == IF s.seg + 1 = n THEN q[k] ELSE s.found
  <2>3. new = [seg |-> s.seg + 1, current |-> "", found |-> f]
    BY <1>9, <2>1, <2>2, Zenon DEF Scan
  <2>4. f \in Tokens \cup {""}
    BY <1>3, <2>2, Zenon
  <2> HIDE DEF f
  <2>5. /\ new \in [seg : Int, current : Tokens \cup {""}, found : Tokens \cup {""}]
        /\ new.seg = s.seg + 1 /\ new.current = "" /\ new.found = f
    <3> DEFINE x == s.seg + 1
    <3>1. x \in Int /\ new = [seg |-> x, current |-> "", found |-> f]
      <4>1. \A y \in Int : y + 1 \in Int
        OBVIOUS
      <4> QED BY <2>1, <2>3, <4>1, Zenon
    <3> HIDE DEF new, x
    <3>2. /\ new \in [seg : Int, current : Tokens \cup {""}, found : Tokens \cup {""}]
          /\ new.seg = x /\ new.current = "" /\ new.found = f
      BY <2>4, <3>1, Zenon
    <3> QED BY <3>2, Zenon DEF x
  <2>6. new.seg + 1 = d
    <3>1. \A x \in Int : (x + 1) + 1 = x + 2
      OBVIOUS
    <3> HIDE DEF new, c, d
    <3> QED BY <1>4, <1>9, <2>1, <2>5, <3>1, Zenon
  <2>7. n > new.seg => new.found = ""
    <3>1. n > new.seg => n > s.seg /\ s.seg + 1 # n
      <4>1. \A x \in Int : n > x + 1 => n > x /\ x + 1 # n
        OBVIOUS
      <4> HIDE DEF new
      <4> QED BY <2>1, <2>5, <4>1, Zenon
    <3> QED BY <1>3, <2>5, <3>1, Zenon DEF f
  <2>8. n <= new.seg => \A j \in 1..(k + 1) : q[j] # "/" /\ Count(q, j - 1) = n => new.found = q[j]
    <3> SUFFICES ASSUME n <= new.seg, NEW j \in 1..(k + 1), q[j] # "/", Count(q, j - 1) = n
                 PROVE  f = q[j]
      BY <2>5, Zenon
    <3>1. j \in 1..k
      BY <1>5, <1>9, Zenon
    <3>2. CASE n <= s.seg
      <4>1. s.seg + 1 # n
        BY <2>1, <3>2
      <4> QED BY <1>3, <3>1, <3>2, <4>1, Zenon DEF f
    <3>3. CASE n = s.seg + 1
      <4>1. j = k
        <5> SUFFICES ASSUME j # k PROVE FALSE
          BY Zenon
        <5>1. j \in 0..(k - 1) /\ k - 1 \in Nat
          BY <1>9, <3>1
        <5>2. Count(q, j) = n + 1
          BY <3>1, CountAt, Zenon
        <5>3. Count(q, k) = Count(q, k - 1) + 1 /\ Count(q, k - 1) \in Nat
          <6>1. k \in 1..k
            BY <1>9
          <6> QED BY <1>9, <6>1, CountAt, Zenon
        <5>4. Count(q, j) <= Count(q, k - 1)
          BY <5>1, Counting, Zenon
        <5> HIDE DEF c
        <5>5. c = Count(q, k)
          BY DEF c
        <5> QED BY <2>1, <3>3, <5>2, <5>3, <5>4, <5>5
      <4> QED BY <3>3, <4>1, Zenon DEF f
    <3>4. \A x \in Int : n <= x + 1 => n <= x \/ n = x + 1
      OBVIOUS
    <3> HIDE DEF new
    <3> QED BY <2>1, <2>5, <3>2, <3>3, <3>4, Zenon
  <2> HIDE DEF new, d, c
  <2> QED BY <1>1, <1>9, <2>5, <2>6, <2>7, <2>8, Zenon DEF ScannedTo, t, new, d
<1> QED BY <1>7, <1>8, <1>9, Zenon

\* All are read.
LEMMA ScanEnd ==
    ASSUME NEW q \in Seq(Tokens), Separated(q), NEW n \in Nat
    PROVE  ScannedTo(ScanAll(q, n), q, n, Len(q))
<1>1. PICK st : ScanStates(st, q, n) /\ ScanAll(q, n) = st[Len(q)]
  BY ScanAllIs, Zenon
<1> DEFINE Bad == {k \in 0..Len(q) : ~ScannedTo(st[k], q, n, k)}
<1>2. Len(q) \in Nat
  BY LenProperties
<1>3. ScannedTo(st[0], q, n, 0)
  <2> DEFINE start == [seg |-> -1, current |-> "", found |-> ""]
  <2>1. start \in [seg : Int, current : Tokens \cup {""}, found : Tokens \cup {""}]
    OBVIOUS
  <2>2. start.seg = -1 /\ start.current = "" /\ start.found = ""
    OBVIOUS
  <2>3. Count(q, 0) = 0 /\ -1 + 1 = 0 /\ ~(0 > 0) /\ ~(n <= -1)
    <3>1. 0 \in Nat
      OBVIOUS
    <3>2. Count(q, 0) = 0
      BY <3>1, Counting, Zenon
    <3> QED BY <3>2
  <2>4. st[0] = start
    BY <1>1, Zenon DEF ScanStates
  <2> HIDE DEF start
  <2>5. start.seg + 1 = Count(q, 0)
    BY <2>2, <2>3, Zenon
  <2>6. ~(n <= start.seg)
    BY <2>2, <2>3, Zenon
  <2>7. ScannedTo(start, q, n, 0)
    BY <2>1, <2>2, <2>3, <2>5, <2>6, Zenon DEF ScannedTo
  <2> QED BY <2>4, <2>7
<1>4. ASSUME NEW k \in Nat, k < Len(q), ScannedTo(st[k], q, n, k)
      PROVE  ScannedTo(st[k + 1], q, n, k + 1)
  <2>1. k + 1 \in 1..Len(q) /\ (k + 1) - 1 = k
    BY <1>2, <1>4
  <2>2. st[k + 1] = Scan(st[k], q[k + 1], n)
    <3>1. st[k + 1] = Scan(st[(k + 1) - 1], q[k + 1], n)
      BY <1>1, <2>1, Zenon DEF ScanStates
    <3> QED BY <2>1, <3>1
  <2>3. ScannedTo(Scan(st[k], q[k + 1], n), q, n, k + 1)
    BY <1>4, ScanStep, Zenon
  <2> QED BY <2>2, <2>3, Zenon
<1>5. Bad = {}
  <2> SUFFICES ASSUME Bad # {} PROVE FALSE
    BY Zenon
  <2>1. PICK k \in Bad : \A m \in Bad : k <= m
    <3>1. Bad \in SUBSET Nat
      BY <1>2
    <3> HIDE DEF Bad
    <3> QED BY <3>1, LeastNumber, Zenon
  <2>2. k \in 0..Len(q) /\ ~ScannedTo(st[k], q, n, k)
    BY Zenon
  <2>3. k # 0
    BY <1>3, <2>2, Zenon
  <2>4. k - 1 \in Nat /\ k - 1 < Len(q) /\ (k - 1) + 1 = k /\ k - 1 \in 0..Len(q) /\ ~(k <= k - 1)
    BY <1>2, <2>2, <2>3
  <2>5. ScannedTo(st[k - 1], q, n, k - 1)
    BY <2>1, <2>4, Zenon
  <2>6. ScannedTo(st[(k - 1) + 1], q, n, (k - 1) + 1)
    BY <1>4, <2>4, <2>5, Zenon
  <2> QED BY <2>2, <2>4, <2>6, Zenon
<1>6. Len(q) \in 0..Len(q)
  BY <1>2
<1> QED BY <1>1, <1>5, <1>6, Zenon

\* A name with a slash before it, or one after it.
LEMMA SlashesAround ==
    ASSUME NEW x
    PROVE  /\ <<>> \o <<x>> \o <<>> = <<x>>
           /\ <<>> \o <<x>> \o <<"/">> = <<x, "/">>
           /\ <<"/">> \o <<x>> \o <<>> = <<"/", x>>
<1> DEFINE S == {x, "/"}
<1>1. x \in S /\ "/" \in S
  OBVIOUS
<1> HIDE DEF S
<1>2. <<x>> \in Seq(S) /\ <<"/">> \in Seq(S) /\ <<"/", x>> \in Seq(S)
  BY <1>1
<1>3. \A t \in Seq(S) : t \o <<>> = t /\ <<>> \o t = t
  BY ConcatEmptySeq, Zenon
<1>4. ASSUME NEW a \in S, NEW b \in S
      PROVE  <<a>> \o <<b>> = <<a, b>>
  <2> DEFINE v == <<a>>
             w == <<b>>
             t == <<a, b>>
             u == v \o w
  <2>1. /\ v \in Seq(S) /\ Len(v) = 1 /\ v[1] = a
        /\ w \in Seq(S) /\ Len(w) = 1 /\ w[1] = b
    BY <1>4
  <2>2. t \in Seq(S) /\ Len(t) = 2 /\ t[1] = a /\ t[2] = b
    BY <1>4
  <2> HIDE DEF v, w, t
  <2>3. /\ v \o w \in Seq(S)
        /\ Len(v \o w) = Len(v) + Len(w)
        /\ \A i \in 1..Len(v) + Len(w) :
               (v \o w)[i] = IF i <= Len(v) THEN v[i] ELSE w[i - Len(v)]
    BY <2>1, ConcatProperties, Zenon
  <2> HIDE DEF u
  <2>4. /\ u \in Seq(S) /\ Len(u) = 1 + 1
        /\ \A i \in 1..(1 + 1) : u[i] = IF i <= 1 THEN v[i] ELSE w[i - 1]
    BY <2>1, <2>3, Zenon DEF u
  <2>5. Len(u) = Len(t) /\ \A i \in 1..Len(u) : u[i] = t[i]
    BY <2>1, <2>2, <2>4
  <2>6. u = t
    BY <2>2, <2>4, <2>5, SeqEqual, Zenon
  <2> QED BY <2>6, Zenon DEF t, u, v, w
<1> QED BY <1>1, <1>2, <1>3, <1>4, Zenon

\* GetSegmentAt gives the name that as many names come before, and nothing if
\* there are not as many.
LEMMA SegmentAt ==
    ASSUME NEW p \in Seq(Tokens), Separated(p), NEW n \in Nat
    PROVE  /\ \A k \in 1..Len(p) : p[k] # "/" /\ Count(p, k - 1) = n =>
                  /\ GetSegmentAt(p, n, FALSE, FALSE) = <<p[k]>>
                  /\ GetSegmentAt(p, n, FALSE, TRUE) = <<p[k], "/">>
                  /\ GetSegmentAt(p, n, TRUE, FALSE) = <<"/", p[k]>>
           /\ Count(p, Len(p)) <= n =>
                  /\ GetSegmentAt(p, n, FALSE, FALSE) = <<>>
                  /\ GetSegmentAt(p, n, FALSE, TRUE) = <<>>
<1> DEFINE q == Append(p, "/")
           s == ScanAll(q, n)
<1>1. Len(p) \in Nat /\ "/" \in Tokens
  BY LenProperties DEF Tokens
<1>2. /\ q \in Seq(Tokens) /\ Len(q) = Len(p) + 1 /\ q[Len(p) + 1] = "/"
      /\ \A i \in 1..Len(p) : q[i] = p[i]
  BY <1>1, AppendProperties
<1> HIDE DEF q
<1>3. Separated(q)
  <2> SUFFICES ASSUME NEW k \in 1..(Len(q) - 1) PROVE q[k] = "/" \/ q[k + 1] = "/"
    BY Zenon DEF Separated
  <2>1. CASE k = Len(p)
    BY <1>2, <2>1, Zenon
  <2>2. CASE k # Len(p)
    <3>1. k \in 1..(Len(p) - 1) /\ k \in 1..Len(p) /\ k + 1 \in 1..Len(p)
      BY <1>1, <1>2, <2>2
    <3> QED BY <1>2, <3>1, Zenon DEF Separated
  <2> QED BY <2>1, <2>2
<1>4. \A k \in 0..Len(p) : Count(q, k) = Count(p, k)
  <2> SUFFICES ASSUME NEW k \in 0..Len(p) PROVE NamesTo(q, k) = NamesTo(p, k)
    BY Zenon DEF Count
  <2>1. \A j \in 1..k : q[j] = p[j]
    BY <1>1, <1>2
  <2> QED BY <2>1, Zenon DEF NamesTo
<1>5. ScannedTo(s, q, n, Len(q))
  BY <1>2, <1>3, ScanEnd, Zenon
<1>6. \A a, b : GetSegmentAt(p, n, a, b) =
          IF s.found = "" THEN <<>>
          ELSE (IF a THEN <<"/">> ELSE <<>>) \o <<s.found>> \o (IF b THEN <<"/">> ELSE <<>>)
  BY Zenon DEF GetSegmentAt, ScanAll, q
<1> HIDE DEF s
<1>7. s.seg \in Int /\ s.seg + 1 = Count(q, Len(q)) /\ s.found \in Tokens \cup {""}
  <2>1. s \in [seg : Int, current : Tokens \cup {""}, found : Tokens \cup {""}]
    BY <1>5, Zenon DEF ScannedTo
  <2>2. s.seg + 1 = Count(q, Len(q))
    BY <1>2, <1>5, Zenon DEF ScannedTo
  <2> QED BY <2>1, <2>2, Zenon
<1>8. Count(q, Len(q)) = Count(p, Len(p)) /\ Count(p, Len(p)) \in Nat
  <2>1. Count(q, Len(p) + 1) = Count(q, Len(p))
    BY <1>1, <1>2, Counting, Zenon
  <2>2. Len(p) \in 0..Len(p)
    BY <1>1
  <2> QED BY <1>1, <1>2, <1>4, <2>1, <2>2, Counting, Zenon
<1>9. ASSUME NEW k \in 1..Len(p), p[k] # "/", Count(p, k - 1) = n
      PROVE  s.found = p[k] /\ p[k] # ""
  <2>1. k \in 1..Len(q) /\ k - 1 \in 0..Len(p) /\ k \in 0..Len(p)
    BY <1>1, <1>2
  <2>2. q[k] # "/" /\ q[k] = p[k] /\ Count(q, k - 1) = n
    BY <1>2, <1>4, <1>9, <2>1, Zenon
  <2>3. Count(p, k) = n + 1 /\ Count(p, k) <= Count(p, Len(p))
    BY <1>1, <1>9, <2>1, CountAt, Counting, Zenon
  <2>4. n <= s.seg
    <3>1. \A x \in Int, c \in Nat : x + 1 = c /\ n + 1 <= c => n <= x
      OBVIOUS
    <3> QED BY <1>7, <1>8, <2>3, <3>1, Zenon
  <2>5. s.found = q[k]
    BY <1>5, <2>1, <2>2, <2>4, Zenon DEF ScannedTo
  <2>6. p[k] \in Tokens
    BY <1>9, ElementOfSeq, Zenon
  <2> QED BY <2>2, <2>5, <2>6, NamesNotEmpty, Zenon
<1>10. ASSUME Count(p, Len(p)) <= n
       PROVE  s.found = ""
  <2>1. n > s.seg
    <3>1. \A x \in Int, c \in Nat : x + 1 = c /\ c <= n => n > x
      OBVIOUS
    <3> QED BY <1>7, <1>8, <1>10, <3>1, Zenon
  <2> QED BY <1>5, <2>1, Zenon DEF ScannedTo
<1>11. \A x : /\ <<>> \o <<x>> \o <<>> = <<x>>
              /\ <<>> \o <<x>> \o <<"/">> = <<x, "/">>
              /\ <<"/">> \o <<x>> \o <<>> = <<"/", x>>
  BY SlashesAround, Zenon
<1>12. \A x : s.found = x /\ x # "" =>
          /\ GetSegmentAt(p, n, FALSE, FALSE) = <<x>>
          /\ GetSegmentAt(p, n, FALSE, TRUE) = <<x, "/">>
          /\ GetSegmentAt(p, n, TRUE, FALSE) = <<"/", x>>
  BY <1>6, <1>11, Zenon
<1>13. s.found = "" => /\ GetSegmentAt(p, n, FALSE, FALSE) = <<>>
                       /\ GetSegmentAt(p, n, FALSE, TRUE) = <<>>
  BY <1>6, Zenon
<1> QED BY <1>9, <1>10, <1>12, <1>13, Zenon

-----------------------------------------------------------------------------
(* Theorems *)

\* What a full path begins with: four names.
LEMMA AccountNames ==
    ASSUME NEW sub \in Seq(Tokens)
    PROVE  /\ FullPath(sub)[1] # "/" /\ FullPath(sub)[2] = "/" /\ FullPath(sub)[3] = "/"
           /\ FullPath(sub)[4] # "/" /\ FullPath(sub)[5] = "/" /\ FullPath(sub)[6] # "/"
           /\ FullPath(sub)[7] = "/" /\ FullPath(sub)[8] # "/"
           /\ Count(FullPath(sub), 8) = 4
<1> DEFINE p == FullPath(sub)
<1>1. /\ ETH_ACCOUNT_PREFIX[1] # "/" /\ ETH_ACCOUNT_PREFIX[2] = "/" /\ ETH_ACCOUNT_PREFIX[3] = "/"
      /\ ETH_ACCOUNT_PREFIX[4] # "/" /\ ETH_ACCOUNT_PREFIX[5] = "/" /\ ETH_ACCOUNT_PREFIX[6] # "/"
      /\ ETH_ACCOUNT_PREFIX[7] = "/"
  BY DEF ETH_ACCOUNT_PREFIX
<1>2. Address # "/"
  BY DEF Address
<1>3. \A i \in 1..7 : p[i] = ETH_ACCOUNT_PREFIX[i]
  <2>1. \A i \in 1..7 : i \in 1..8
    OBVIOUS
  <2>2. \A i \in 1..8 : p[i] = Account[i]
    BY FullPaths, Zenon
  <2>3. \A i \in 1..7 : Account[i] = ETH_ACCOUNT_PREFIX[i]
    BY Fronts, Zenon
  <2> HIDE DEF p
  <2> QED BY <2>1, <2>2, <2>3, Zenon
<1>4. p[8] = Address
  BY FullPaths, Zenon
<1> HIDE DEF p
<1>5. /\ p[1] # "/" /\ p[2] = "/" /\ p[3] = "/" /\ p[4] # "/"
      /\ p[5] = "/" /\ p[6] # "/" /\ p[7] = "/" /\ p[8] # "/"
  BY <1>1, <1>2, <1>3, <1>4
<1>6. Count(p, 8) = 4
  <2>1. \A k \in Nat : /\ Count(p, 0) = 0
                       /\ p[k + 1] # "/" => Count(p, k + 1) = Count(p, k) + 1
                       /\ p[k + 1] = "/" => Count(p, k + 1) = Count(p, k)
    BY Counting, Zenon
  <2>2. Count(p, 1) = 1 /\ Count(p, 2) = 1 /\ Count(p, 3) = 1
    <3>1. Count(p, 0 + 1) = 0 + 1
      BY <1>5, <2>1
    <3>2. Count(p, 1 + 1) = Count(p, 1)
      BY <1>5, <2>1
    <3>3. Count(p, 2 + 1) = Count(p, 2)
      BY <1>5, <2>1
    <3> QED BY <3>1, <3>2, <3>3
  <2>3. Count(p, 4) = 2 /\ Count(p, 5) = 2
    <3>1. Count(p, 3 + 1) = 1 + 1
      BY <1>5, <2>1, <2>2
    <3>2. Count(p, 4 + 1) = Count(p, 4)
      BY <1>5, <2>1
    <3> QED BY <3>1, <3>2
  <2>4. Count(p, 6) = 3 /\ Count(p, 7) = 3
    <3>1. Count(p, 5 + 1) = 2 + 1
      BY <1>5, <2>1, <2>3
    <3>2. Count(p, 6 + 1) = Count(p, 6)
      BY <1>5, <2>1
    <3> QED BY <3>1, <3>2
  <2>5. Count(p, 7 + 1) = 3 + 1
    BY <1>5, <2>1, <2>4
  <2> QED BY <2>5
<1> QED BY <1>5, <1>6, Zenon DEF p

\* In a full path, slashes separate the names.
LEMMA FullPathSeparated ==
    ASSUME NEW sub \in Seq(Tokens), Shape(sub)
    PROVE  Separated(FullPath(sub))
<1> DEFINE p == FullPath(sub)
<1>1. /\ Len(p) = 8 + Len(sub) /\ Len(sub) \in Nat
      /\ \A i \in 1..Len(sub) : p[8 + i] = sub[i]
  BY FullPaths, Zenon
<1>2. p[2] = "/" /\ p[3] = "/" /\ p[5] = "/" /\ p[7] = "/"
  BY AccountNames, Zenon
<1> HIDE DEF p
<1>3. ASSUME NEW k \in 1..(Len(p) - 1)
      PROVE  p[k] = "/" \/ p[k + 1] = "/"
  <2>1. CASE k <= 7
    BY <1>2, <2>1
  <2>2. CASE k = 8
    <3>1. 1 \in 1..Len(sub) /\ 8 + 1 = k + 1
      BY <1>1, <2>2
    <3>2. sub # <<>>
      BY <3>1, EmptySeq
    <3> QED BY <1>1, <3>1, <3>2 DEF Shape
  <2>3. CASE k > 8
    <3> DEFINE i == k - 8
    <3>1. /\ i \in 1..(Len(sub) - 1) /\ i \in 1..Len(sub) /\ i + 1 \in 1..Len(sub)
          /\ 8 + i = k /\ 8 + (i + 1) = k + 1
      BY <1>1, <2>3
    <3> HIDE DEF i
    <3>2. p[8 + i] = sub[i] /\ p[8 + (i + 1)] = sub[i + 1]
      BY <1>1, <3>1, Zenon
    <3>3. p[k] = sub[i] /\ p[k + 1] = sub[i + 1]
      BY <3>1, <3>2
    <3> QED BY <3>1, <3>3, Zenon DEF Shape
  <2> QED BY <2>1, <2>2, <2>3
<1> QED BY <1>3, Zenon DEF Separated, p

\* GetSegmentAt finds every name of a path, by the number of names before it,
\* and none after the last, for paths of any length.
THEOREM SegmentsAlwaysFound == PathSpec => []SegmentsFound
<1>1. PathsInv => SegmentsFound
  <2> SUFFICES ASSUME PathsInv
               PROVE  SegmentsFound
    BY Zenon
  <2> DEFINE names == {k \in DOMAIN p1 : p1[k] # "/"}
             before(k) == Cardinality({j \in names : j < k})
  <2>1. p1 \in Seq(Tokens) /\ Separated(p1)
    BY FullPaths, FullPathSeparated, Zenon DEF p1, PathsInv
  <2>2. Len(p1) \in Nat /\ DOMAIN p1 = 1..Len(p1)
    BY <2>1, LenProperties
  <2>3. names = NamesTo(p1, Len(p1))
    BY <2>2, Zenon DEF NamesTo
  <2>4. ASSUME NEW k \in names
        PROVE  /\ GetSegmentAt(p1, before(k), FALSE, TRUE) = <<p1[k], "/">>
               /\ GetSegmentAt(p1, before(k), TRUE, FALSE) = <<"/", p1[k]>>
    <3>1. k \in 1..Len(p1) /\ p1[k] # "/" /\ k - 1 \in Nat
      BY <2>2
    <3>2. {j \in names : j < k} = NamesTo(p1, k - 1)
      <4>1. \A j : j \in 1..Len(p1) /\ j < k <=> j \in 1..(k - 1)
        BY <2>2, <3>1
      <4> QED BY <2>2, <4>1, Zenon DEF NamesTo
    <3>3. before(k) = Count(p1, k - 1)
      BY <3>2, Zenon DEF Count
    <3>4. Count(p1, k - 1) \in Nat
      BY <3>1, Counting, Zenon
    <3> QED BY <2>1, <3>1, <3>3, <3>4, SegmentAt, Zenon
  <2>5. GetSegmentAt(p1, Cardinality(names), FALSE, FALSE) = <<>>
    <3>1. Cardinality(names) = Count(p1, Len(p1))
      BY <2>3, Zenon DEF Count
    <3>2. Count(p1, Len(p1)) \in Nat
      BY <2>2, Counting, Zenon
    <3>3. Count(p1, Len(p1)) <= Count(p1, Len(p1))
      BY <3>2
    <3> QED BY <2>1, <3>1, <3>2, <3>3, SegmentAt, Zenon
  <2> QED BY <2>4, <2>5, Zenon DEF SegmentsFound
<1> QED BY <1>1, PathsStay, PTL

\* The slot of a path is what follows /storage/native/.
LEMMA SlotWhenUnder ==
    ASSUME NEW s \in Seq(Tokens)
    PROVE  Slot(FullPath(s)) # <<>> <=>
               /\ Len(s) > 5 /\ s[1] = "/" /\ s[2] = "storage" /\ s[3] = "/"
               /\ s[4] = "native" /\ s[5] = "/"
<1> DEFINE n == PATH_STORAGE_NATIVE
<1>1. /\ n \in Seq(Tokens) /\ Len(n) = 5
      /\ n[1] = "/" /\ n[2] = "storage" /\ n[3] = "/" /\ n[4] = "native" /\ n[5] = "/"
  BY DEF PATH_STORAGE_NATIVE, Tokens
<1>2. Len(s) \in Nat
  BY LenProperties
<1>3. Slot(FullPath(s)) = IF s # n /\ IsPrefix(n, s) THEN SubSeq(s, Len(n) + 1, Len(s)) ELSE <<>>
  BY Parsed, Zenon DEF Slot, GetPathUnder
<1> HIDE DEF n
<1>4. IsPrefix(n, s) <=> Len(n) <= Len(s) /\ SubSeq(n, 1, Len(n)) = SubSeq(s, 1, Len(n))
  BY Zenon DEF IsPrefix
<1>5. SubSeq(n, 1, Len(n)) = n
  BY <1>1, SubSeqFull
<1>6. ASSUME 5 <= Len(s)
      PROVE  /\ SubSeq(s, 1, 5) \in Seq(Tokens) /\ Len(SubSeq(s, 1, 5)) = 5
             /\ \A i \in 1..5 : SubSeq(s, 1, 5)[i] = s[i]
  <2>1. \A i \in 1..5 : s[i] \in Tokens
    BY <1>2, <1>6, ElementOfSeq
  <2>2. 1 \in Int /\ 5 \in Int
    OBVIOUS
  <2> QED BY <1>2, <1>6, <2>1, <2>2, SubSeqProperties
<1>7. IsPrefix(n, s) <=> /\ 5 <= Len(s) /\ s[1] = "/" /\ s[2] = "storage" /\ s[3] = "/"
                         /\ s[4] = "native" /\ s[5] = "/"
  <2>1. CASE 5 <= Len(s)
    <3> DEFINE b == SubSeq(s, 1, 5)
    <3>1. b \in Seq(Tokens) /\ Len(b) = 5 /\ \A i \in 1..5 : b[i] = s[i]
      BY <1>6, <2>1, Zenon
    <3>2. IsPrefix(n, s) <=> n = b
      BY <1>1, <1>4, <1>5, <2>1, Zenon
    <3> HIDE DEF b
    <3>3. n = b <=> \A i \in 1..5 : n[i] = b[i]
      BY <1>1, <3>1, SeqEqual, Zenon
    <3>4. (\A i \in 1..5 : n[i] = b[i]) <=>
              /\ s[1] = "/" /\ s[2] = "storage" /\ s[3] = "/" /\ s[4] = "native" /\ s[5] = "/"
      BY <1>1, <3>1
    <3> QED BY <2>1, <3>2, <3>3, <3>4, Zenon
  <2>2. CASE ~(5 <= Len(s))
    BY <1>1, <1>4, <2>2, Zenon
  <2> QED BY <2>1, <2>2
<1>8. ASSUME IsPrefix(n, s)
      PROVE  s # n <=> Len(s) > 5
  <2>1. 5 <= Len(s) /\ SubSeq(s, 1, 5) = n
    BY <1>1, <1>4, <1>5, <1>8, Zenon
  <2>2. Len(s) = 5 => s = n
    <3>1. SubSeq(s, 1, Len(s)) = s
      BY SubSeqFull, Zenon
    <3> QED BY <2>1, <3>1, Zenon
  <2>3. \A k \in Nat : 5 <= k => (k # 5 <=> k > 5)
    OBVIOUS
  <2>4. Len(s) # 5 => s # n
    BY <1>1, Zenon
  <2> QED BY <1>2, <2>1, <2>2, <2>3, <2>4, Zenon
<1>9. ASSUME Len(s) > 5
      PROVE  SubSeq(s, Len(n) + 1, Len(s)) # <<>>
  <2>1. \A i \in 6..Len(s) : s[i] \in Tokens
    BY <1>2, ElementOfSeq
  <2>2. 6 \in Int /\ Len(s) \in Int /\ Len(n) + 1 = 6
    BY <1>1, <1>2
  <2>3. Len(SubSeq(s, 6, Len(s))) = Len(s) - 5
    BY <1>2, <1>9, <2>1, <2>2, SubSeqProperties
  <2>4. Len(SubSeq(s, 6, Len(s))) # 0
    BY <1>2, <1>9, <2>3
  <2>5. Len(<<>>) = 0
    OBVIOUS
  <2> QED BY <2>2, <2>4, <2>5, Zenon
<1>10. Len(s) > 5 => 5 <= Len(s)
  BY <1>2
<1> QED BY <1>3, <1>7, <1>8, <1>9, <1>10, Zenon

\* The segments of a full path that come after the account are the second and
\* the fourth member of what comes after the address.
LEMMA SegmentsAfterAccount ==
    ASSUME NEW sub \in Seq(Tokens), Shape(sub)
    PROVE  /\ Len(sub) >= 2 => GetSegmentAt(FullPath(sub), 4, FALSE, FALSE) = <<sub[2]>>
           /\ Len(sub) >= 4 => GetSegmentAt(FullPath(sub), 5, FALSE, TRUE) = <<sub[4], "/">>
           /\ Len(sub) < 4 => GetSegmentAt(FullPath(sub), 5, FALSE, TRUE) = <<>>
<1> DEFINE p == FullPath(sub)
<1>1. /\ p \in Seq(Tokens) /\ Len(p) = 8 + Len(sub) /\ Len(sub) \in Nat
      /\ \A i \in 1..Len(sub) : p[8 + i] = sub[i]
  BY FullPaths, Zenon
<1>2. Separated(p)
  BY FullPathSeparated, Zenon
<1>3. Count(p, 8) = 4
  BY AccountNames, Zenon
<1> HIDE DEF p
<1>4. \A k \in Nat : /\ p[k + 1] # "/" => Count(p, k + 1) = Count(p, k) + 1
                     /\ p[k + 1] = "/" => Count(p, k + 1) = Count(p, k)
  BY Counting, Zenon
<1>5. ASSUME Len(sub) >= 1
      PROVE  p[9] = "/" /\ Count(p, 9) = 4
  <2>1. 1 \in 1..Len(sub) /\ sub # <<>>
    BY <1>1, <1>5, EmptySeq
  <2>2. p[8 + 1] = "/"
    BY <1>1, <2>1, Zenon DEF Shape
  <2>3. Count(p, 8 + 1) = Count(p, 8)
    BY <1>4, <2>2
  <2> QED BY <1>3, <2>2, <2>3
<1>6. ASSUME Len(sub) >= 2
      PROVE  p[10] = sub[2] /\ p[10] # "/" /\ Count(p, 10) = 5
  <2>1. /\ 1 \in 1..Len(sub) /\ 2 \in 1..Len(sub) /\ 1 \in 1..(Len(sub) - 1) /\ 1 + 1 = 2
        /\ 8 + 1 = 9 /\ 8 + 2 = 10 /\ 9 + 1 = 10
    BY <1>1, <1>6
  <2>2. p[9] = "/" /\ Count(p, 9) = 4
    BY <1>1, <1>5, <1>6
  <2>3. p[10] = sub[2] /\ p[9] = sub[1]
    BY <1>1, <2>1
  <2>4. sub[1] = "/" <=> sub[1 + 1] # "/"
    BY <2>1, Zenon DEF Shape
  <2>5. p[10] # "/"
    BY <2>1, <2>2, <2>3, <2>4
  <2>6. Count(p, 9 + 1) = Count(p, 9) + 1
    BY <1>4, <2>5
  <2> QED BY <2>2, <2>3, <2>5, <2>6
<1>7. ASSUME Len(sub) >= 3
      PROVE  p[11] = "/" /\ Count(p, 11) = 5
  <2>1. 2 \in 1..Len(sub) /\ 3 \in 1..Len(sub) /\ 2 \in 1..(Len(sub) - 1)
    BY <1>1, <1>7
  <2>2. p[10] = sub[2] /\ p[10] # "/" /\ Count(p, 10) = 5
    BY <1>1, <1>6, <1>7
  <2>3. p[8 + 3] = sub[3]
    BY <1>1, <2>1, Zenon
  <2>4. sub[2] = "/" <=> sub[2 + 1] # "/"
    BY <2>1, Zenon DEF Shape
  <2>5. p[11] = "/"
    BY <2>2, <2>3, <2>4
  <2>6. Count(p, 10 + 1) = Count(p, 10)
    BY <1>4, <2>5
  <2> QED BY <2>2, <2>5, <2>6
<1>8. ASSUME Len(sub) >= 4
      PROVE  p[12] = sub[4] /\ p[12] # "/"
  <2>1. 3 \in 1..Len(sub) /\ 4 \in 1..Len(sub) /\ 3 \in 1..(Len(sub) - 1)
    BY <1>1, <1>8
  <2>2. p[11] = "/"
    BY <1>1, <1>7, <1>8
  <2>3. p[8 + 3] = sub[3] /\ p[8 + 4] = sub[4]
    BY <1>1, <2>1, Zenon
  <2>4. sub[3] = "/" <=> sub[3 + 1] # "/"
    BY <2>1, Zenon DEF Shape
  <2> QED BY <2>2, <2>3, <2>4
<1>9. 4 \in Nat /\ 5 \in Nat
  OBVIOUS
<1>10. ASSUME Len(sub) >= 2
       PROVE  GetSegmentAt(p, 4, FALSE, FALSE) = <<sub[2]>>
  <2>1. 10 \in 1..Len(p) /\ 10 - 1 = 9
    BY <1>1, <1>10
  <2>2. Count(p, 10 - 1) = 4
    BY <1>1, <1>5, <1>10, <2>1
  <2>3. p[10] = sub[2] /\ p[10] # "/"
    BY <1>6, <1>10, Zenon
  <2>4. GetSegmentAt(p, 4, FALSE, FALSE) = <<p[10]>>
    BY <1>1, <1>2, <1>9, <2>1, <2>2, <2>3, SegmentAt, Zenon
  <2> QED BY <2>3, <2>4, Zenon
<1>11. ASSUME Len(sub) >= 4
       PROVE  GetSegmentAt(p, 5, FALSE, TRUE) = <<sub[4], "/">>
  <2>1. 12 \in 1..Len(p) /\ 12 - 1 = 11
    BY <1>1, <1>11
  <2>2. Count(p, 12 - 1) = 5
    BY <1>1, <1>7, <1>11, <2>1
  <2>3. p[12] = sub[4] /\ p[12] # "/"
    BY <1>8, <1>11, Zenon
  <2>4. GetSegmentAt(p, 5, FALSE, TRUE) = <<p[12], "/">>
    BY <1>1, <1>2, <1>9, <2>1, <2>2, <2>3, SegmentAt, Zenon
  <2> QED BY <2>3, <2>4, Zenon
<1>12. ASSUME Len(sub) < 4
       PROVE  GetSegmentAt(p, 5, FALSE, TRUE) = <<>>
  <2>1. Len(sub) = 0 \/ Len(sub) = 1 \/ Len(sub) = 2 \/ Len(sub) = 3
    <3>1. \A k \in Nat : k < 4 => k = 0 \/ k = 1 \/ k = 2 \/ k = 3
      OBVIOUS
    <3> QED BY <1>1, <1>12, <3>1, Zenon
  <2>2. Count(p, Len(p)) <= 5
    <3>1. CASE Len(sub) = 0
      <4>1. Len(p) = 8
        BY <1>1, <3>1
      <4> QED BY <1>3, <4>1
    <3>2. CASE Len(sub) = 1
      <4>1. Len(p) = 9 /\ Len(sub) >= 1
        BY <1>1, <3>2
      <4> QED BY <1>5, <4>1
    <3>3. CASE Len(sub) = 2
      <4>1. Len(p) = 10 /\ Len(sub) >= 2
        BY <1>1, <3>3
      <4> QED BY <1>6, <4>1
    <3>4. CASE Len(sub) = 3
      <4>1. Len(p) = 11 /\ Len(sub) >= 3
        BY <1>1, <3>4
      <4> QED BY <1>7, <4>1
    <3> QED BY <2>1, <3>1, <3>2, <3>3, <3>4, Zenon
  <2> QED BY <1>1, <1>2, <1>9, <2>2, SegmentAt, Zenon
<1> QED BY <1>10, <1>11, <1>12, Zenon DEF p

\* ShouldPersistToEth takes the fields and the paths that ToStorageKey finds a
\* slot in, for paths of any length in /storage/ that are not named like a field.
THEOREM EthPathsAlwaysAgree == PathSpec => []EthPathsAgree
<1>1. PathsInv => EthPathsAgree
  <2> SUFFICES ASSUME PathsInv, ~NamedLikeField(p1), path # <<"/", "storage", "/", "native">>,
                      path \in Fields \/ GetSegmentAt(p1, 4, FALSE, FALSE) \in {<<>>, <<"storage">>}
               PROVE  ShouldPersistToEth(p1) <=>
                          \/ path \in Fields
                          \/ Last(p1) # "/" /\ Slot(p1) # <<>>
    BY Zenon DEF EthPathsAgree, Slot
  <2>1. path \in Seq(Tokens) /\ Shape(path)
    BY Zenon DEF PathsInv
  <2>2. /\ p1 \in Seq(Tokens) /\ Len(p1) = 8 + Len(path) /\ Len(path) \in Nat
        /\ \A i \in 1..Len(path) : p1[8 + i] = path[i]
    BY <2>1, FullPaths, Zenon DEF p1
  <2>3. CASE path \in Fields
    <3>1. Len(path) = 2
      BY <2>3, FieldShape, Zenon
    <3>2. Len(p1) > ETH_ACCOUNT_FULL_LENGTH + 1
      BY <2>2, <3>1, Prefix
    <3>3. IsSuffix(path, p1)
      BY <2>3, FieldOfItself, Zenon DEF IsField, p1
    <3> QED BY <2>3, <3>2, <3>3, Zenon DEF ShouldPersistToEth
  <2>4. CASE path \notin Fields
    <3>1. \A f \in Fields : ~IsSuffix(f, p1)
      BY <2>1, <2>4, Parsed, Zenon DEF NamedLikeField, IsField, p1
    <3>2. Len(p1) > ETH_ACCOUNT_FULL_LENGTH + 1 <=> Len(path) > 1
      BY <2>2, Prefix
    <3>3. ShouldPersistToEth(p1) <=>
              Len(path) > 1 /\ Last(p1) # "/" /\ GetSegmentAt(p1, 5, FALSE, TRUE) = <<"native", "/">>
      BY <3>1, <3>2, Zenon DEF ShouldPersistToEth
    <3>4. Slot(p1) # <<>> <=>
              /\ Len(path) > 5 /\ path[1] = "/" /\ path[2] = "storage" /\ path[3] = "/"
              /\ path[4] = "native" /\ path[5] = "/"
      BY <2>1, SlotWhenUnder, Zenon DEF p1
    <3>5. ASSUME Slot(p1) # <<>>
          PROVE  Len(path) > 1 /\ GetSegmentAt(p1, 5, FALSE, TRUE) = <<"native", "/">>
      <4>1. Len(path) > 1 /\ Len(path) >= 4
        BY <2>2, <3>4, <3>5
      <4> QED BY <2>1, <3>4, <3>5, <4>1, SegmentsAfterAccount, Zenon DEF p1
    <3>6. ASSUME Last(p1) # "/", GetSegmentAt(p1, 5, FALSE, TRUE) = <<"native", "/">>
          PROVE  Slot(p1) # <<>>
      <4>1. /\ \A a, b : <<a>> = <<b>> => a = b
            /\ \A a, b : <<a, "/">> = <<b, "/">> => a = b
            /\ \A a, b : <<a, b>> # <<>> /\ <<a>> # <<>>
        <5>1. \A a, b : <<a>>[1] = a /\ <<a, b>>[1] = a
          OBVIOUS
        <5>2. \A a, b : Len(<<a, b>>) = 2 /\ Len(<<a>>) = 1 /\ Len(<<>>) = 0
          OBVIOUS
        <5>3. 2 # 0 /\ 1 # 0
          OBVIOUS
        <5> QED BY <5>1, <5>2, <5>3, Zenon
      <4>2. Len(path) >= 4
        <5>1. \A k \in Nat : k < 4 \/ k >= 4
          OBVIOUS
        <5>2. ~(Len(path) < 4)
          BY <2>1, <3>6, <4>1, SegmentsAfterAccount, Zenon DEF p1
        <5> QED BY <2>2, <5>1, <5>2, Zenon
      <4>3. path[4] = "native"
        BY <2>1, <3>6, <4>1, <4>2, SegmentsAfterAccount, Zenon DEF p1
      <4>4. path[2] = "storage"
        <5>1. Len(path) >= 2
          BY <2>2, <4>2
        <5>2. GetSegmentAt(p1, 4, FALSE, FALSE) = <<path[2]>>
          BY <2>1, <5>1, SegmentsAfterAccount, Zenon DEF p1
        <5> QED BY <2>4, <4>1, <5>2, Zenon
      <4>5. path[1] = "/" /\ path[3] = "/"
        <5>1. path # <<>> /\ 2 \in 1..(Len(path) - 1)
          BY <2>2, <4>2
        <5>2. path[2] = "/" <=> path[2 + 1] # "/"
          BY <2>1, <5>1, Zenon DEF Shape
        <5> QED BY <2>1, <4>4, <5>1, <5>2 DEF Shape
      <4>6. Len(path) # 4
        <5> SUFFICES ASSUME Len(path) = 4 PROVE FALSE
          BY Zenon
        <5> DEFINE n == <<"/", "storage", "/", "native">>
        <5>1. /\ n \in Seq(Tokens) /\ Len(n) = 4
              /\ n[1] = "/" /\ n[2] = "storage" /\ n[3] = "/" /\ n[4] = "native"
          BY DEF Tokens
        <5> HIDE DEF n
        <5>2. Len(path) = Len(n) /\ \A i \in 1..Len(path) : path[i] = n[i]
          BY <4>3, <4>4, <4>5, <5>1
        <5>3. path = n
          BY <2>1, <5>1, <5>2, SeqEqual, Zenon
        <5> QED BY <5>3, Zenon DEF n
      <4>7. path[5] = "/"
        <5>1. 4 \in 1..(Len(path) - 1)
          <6>1. \A k \in Nat : k >= 4 /\ k # 4 => 4 \in 1..(k - 1)
            OBVIOUS
          <6> QED BY <2>2, <4>2, <4>6, <6>1, Zenon
        <5>2. path[4] = "/" <=> path[4 + 1] # "/"
          BY <2>1, <5>1, Zenon DEF Shape
        <5> QED BY <4>3, <5>2
      <4>8. Len(path) # 5
        <5> SUFFICES ASSUME Len(path) = 5 PROVE FALSE
          BY Zenon
        <5>1. Len(p1) = 13 /\ 5 \in 1..Len(path) /\ 8 + 5 = 13
          BY <2>2
        <5>2. p1[Len(p1)] = path[5]
          BY <2>2, <5>1
        <5> QED BY <3>6, <4>7, <5>2, Zenon DEF Last
      <4>9. Len(path) > 5
        <5>1. \A k \in Nat : k >= 4 /\ k # 4 /\ k # 5 => k > 5
          OBVIOUS
        <5> QED BY <2>2, <4>2, <4>6, <4>8, <5>1, Zenon
      <4> QED BY <3>4, <4>3, <4>4, <4>5, <4>7, <4>9, Zenon
    <3> QED BY <2>4, <3>3, <3>5, <3>6, Zenon
  <2> QED BY <2>3, <2>4
<1> QED BY <1>1, PathsStay, PTL
=============================================================================
