----------------------------- MODULE PathProofs -----------------------------
(***************************************************************************)
(* Proofs about state paths of any length: where an account's paths are    *)
(* read and written, which of them their parents list, and what            *)
(* GetParentPath makes of them.                                            *)
(*                                                                         *)
(* The invariant is the shape of a path: sequences of names and slashes    *)
(* that begin with a slash and take turns.  Everything else is about a     *)
(* single path, or two, of that shape.                                     *)
(***************************************************************************)
EXTENDS StatePaths, SequenceTheorems, FiniteSetTheorems, TLAPS

\* A set of naturals that has a member has a least one.
LEMMA LeastNumber ==
    ASSUME NEW T \in SUBSET Nat, T # {}
    PROVE  \E x \in T : \A y \in T : x <= y
<1> DEFINE R == OpToRel(<, Nat)
<1>1. IsWellFoundedOn(R, Nat)
  BY NatLessThanWellFounded, Zenon
<1>2. PICK x \in T : \A y \in T : ~ (<<y, x>> \in R)
  <2> HIDE DEF R
  <2> QED BY <1>1, WFMin, Zenon
<1>3. \A y \in T : ~ (y < x)
  BY <1>2, Zenon DEF OpToRel
<1> QED BY <1>3

-----------------------------------------------------------------------------
(* Paths of an account *)

\* What paths are made of.
Tokens ==
    Names \cup {"/", "blcc:", "eth1.0", "account", Address, "nonce", "balance", "code",
                "profiles", "storage", "container", "native"}

\* The prefix of a full path and the address.
Account == ETH_ACCOUNT_PREFIX \o <<Address>>

\* The account prefix has seven members.
LEMMA Prefix ==
    /\ ETH_ACCOUNT_PREFIX \in Seq(Tokens) /\ Len(ETH_ACCOUNT_PREFIX) = 7
    /\ ETH_ACCOUNT_FULL_LENGTH = 8
    /\ ETH_ACCOUNT_PREFIX[5] = "/" /\ ETH_ACCOUNT_PREFIX[6] = "account" /\ ETH_ACCOUNT_PREFIX[7] = "/"
BY DEF ETH_ACCOUNT_PREFIX, ETH_ACCOUNT_FULL_LENGTH, Tokens

\* The address is the eighth member of a full path.
LEMMA Fronts ==
    /\ Account \in Seq(Tokens) /\ Len(Account) = 8
    /\ \A i \in 1..7 : Account[i] = ETH_ACCOUNT_PREFIX[i]
    /\ Account[6] = "account" /\ Account[7] = "/" /\ Account[8] = Address
<1>1. <<Address>> \in Seq(Tokens) /\ Len(<<Address>>) = 1 /\ <<Address>>[1] = Address
  BY DEF Tokens
<1>2. /\ Account \in Seq(Tokens) /\ Len(Account) = 7 + 1
      /\ \A i \in 1..(7 + 1) : Account[i] = IF i <= 7 THEN ETH_ACCOUNT_PREFIX[i]
                                         ELSE <<Address>>[i - 7]
  <2> DEFINE t == <<Address>>
  <2>1. t \in Seq(Tokens) /\ Len(t) = 1 /\ Account = ETH_ACCOUNT_PREFIX \o t
    BY <1>1 DEF Account
  <2> HIDE DEF t
  <2>2. /\ ETH_ACCOUNT_PREFIX \o t \in Seq(Tokens)
        /\ Len(ETH_ACCOUNT_PREFIX \o t) = Len(ETH_ACCOUNT_PREFIX) + Len(t)
        /\ \A i \in 1..Len(ETH_ACCOUNT_PREFIX) + Len(t) :
               (ETH_ACCOUNT_PREFIX \o t)[i] =
                   IF i <= Len(ETH_ACCOUNT_PREFIX) THEN ETH_ACCOUNT_PREFIX[i]
                   ELSE t[i - Len(ETH_ACCOUNT_PREFIX)]
    BY <2>1, Prefix, ConcatProperties, Zenon
  <2>3. /\ Account \in Seq(Tokens) /\ Len(Account) = 7 + 1
        /\ \A i \in 1..(7 + 1) : Account[i] = IF i <= 7 THEN ETH_ACCOUNT_PREFIX[i] ELSE t[i - 7]
    BY <2>1, <2>2, Prefix, Zenon
  <2> QED BY <2>3 DEF t
<1>3. /\ \A i \in 1..7 : Account[i] = ETH_ACCOUNT_PREFIX[i]
      /\ Account[8] = <<Address>>[1]
  BY <1>2
<1> QED BY <1>1, <1>2, <1>3, Prefix

\* The rest of a full path comes after the address.
LEMMA FullPaths ==
    ASSUME NEW sub \in Seq(Tokens)
    PROVE  /\ FullPath(sub) = Account \o sub
           /\ FullPath(sub) \in Seq(Tokens)
           /\ Len(FullPath(sub)) = 8 + Len(sub) /\ Len(sub) \in Nat
           /\ FullPath(sub)[6] = "account"
           /\ FullPath(sub)[7] = "/" /\ FullPath(sub)[8] = Address
           /\ \A i \in 1..Len(sub) : FullPath(sub)[8 + i] = sub[i]
           /\ \A i \in 1..8 : FullPath(sub)[i] = Account[i]
<1>1. sub \in Seq(Tokens) /\ Len(sub) \in Nat
  BY LenProperties
<1>2. FullPath(sub) = Account \o sub
  BY DEF FullPath, Account
<1>3. /\ Account \o sub \in Seq(Tokens)
      /\ Len(Account \o sub) = Len(Account) + Len(sub)
      /\ \A i \in 1..Len(Account) + Len(sub) :
             (Account \o sub)[i] = IF i <= Len(Account) THEN Account[i] ELSE sub[i - Len(Account)]
  BY <1>1, Fronts, ConcatProperties, Zenon
<1> QED BY <1>1, <1>2, <1>3, Fronts

\* What comes after the address is what was put there.
LEMMA Parsed ==
    ASSUME NEW sub \in Seq(Tokens)
    PROVE  ParseAccountAddr(FullPath(sub))[3] = sub
<1> DEFINE p == FullPath(sub)
<1>1. Len(p) = 8 + Len(sub) /\ Len(sub) \in Nat
  BY FullPaths
<1>2. ParseAccountAddr(p)[3] = SubSeq(p, 9, Len(p))
  BY <1>1, Prefix DEF ParseAccountAddr
<1>3. /\ SubSeq(p, 9, Len(p)) \in Seq(Tokens)
      /\ Len(SubSeq(p, 9, Len(p))) = Len(sub)
      /\ \A i \in 1..Len(sub) : SubSeq(p, 9, Len(p))[i] = p[8 + i]
  <2>1. \A i \in 9..Len(p) : p[i] \in Tokens
    BY FullPaths, ElementOfSeq
  <2> HIDE DEF p
  <2>2. 9 \in Int /\ Len(p) \in Int
    BY <1>1
  <2> QED BY <1>1, <2>1, <2>2, SubSeqProperties
<1>4. \A i \in 1..Len(sub) : SubSeq(p, 9, Len(p))[i] = sub[i]
  BY <1>3, FullPaths
<1> HIDE DEF p
<1> QED BY <1>2, <1>3, <1>4, SeqEqual DEF p

\* Distinct paths under the account are distinct.
LEMMA FullPathInjective ==
    ASSUME NEW s \in Seq(Tokens), NEW t \in Seq(Tokens), FullPath(s) = FullPath(t)
    PROVE  s = t
BY Parsed

-----------------------------------------------------------------------------
(* The ends of paths *)

\* The last members of p are those of f.
EndsWith(p, f) ==
    /\ Len(f) <= Len(p)
    /\ \A i \in 1..Len(f) : p[Len(p) - Len(f) + i] = f[i]

\* IsSuffix goes by the reversed sequences.
LEMMA SuffixAt ==
    ASSUME NEW S, NEW p \in Seq(S), NEW f \in Seq(S)
    PROVE  IsSuffix(f, p) <=> EndsWith(p, f)
<1> DEFINE r == [i \in 1..Len(p) |-> p[Len(p) - i + 1]]
           q == [i \in 1..Len(f) |-> f[Len(f) - i + 1]]
<1>1. /\ Len(p) \in Nat /\ Len(f) \in Nat
      /\ \A i \in 1..Len(p) : p[i] \in S
      /\ \A i \in 1..Len(f) : f[i] \in S
  BY LenProperties, ElementOfSeq
<1>2. r \in Seq(S) /\ Len(r) = Len(p) /\ q \in Seq(S) /\ Len(q) = Len(f)
  BY <1>1
<1>3. IsSuffix(f, p) <=> Len(q) <= Len(r) /\ SubSeq(q, 1, Len(q)) = SubSeq(r, 1, Len(q))
  BY DEF IsSuffix, IsPrefix, Reverse
<1>4. SubSeq(q, 1, Len(q)) = q
  <2> HIDE DEF q
  <2> QED BY <1>2, SubSeqFull
<1>5. ASSUME Len(f) <= Len(p)
      PROVE  /\ SubSeq(r, 1, Len(f)) \in Seq(S)
             /\ Len(SubSeq(r, 1, Len(f))) = Len(f)
             /\ \A i \in 1..Len(f) : SubSeq(r, 1, Len(f))[i] = r[i]
  <2>1. \A i \in 1..Len(f) : r[i] \in S
    BY <1>1, <1>5
  <2> HIDE DEF r
  <2>2. /\ SubSeq(r, 1, Len(f)) \in Seq(S)
        /\ Len(SubSeq(r, 1, Len(f))) = IF 1 <= Len(f) THEN Len(f) - 1 + 1 ELSE 0
        /\ \A i \in 1..(Len(f) - 1 + 1) : SubSeq(r, 1, Len(f))[i] = r[1 + i - 1]
    BY <1>1, <2>1, SubSeqProperties
  <2> QED BY <1>1, <2>2
<1>6. ASSUME Len(f) <= Len(p)
      PROVE  (q = SubSeq(r, 1, Len(f))) <=> \A i \in 1..Len(f) : q[i] = r[i]
  <2> HIDE DEF q, r
  <2> QED BY <1>2, <1>5, <1>6, SeqEqual
<1>7. ASSUME Len(f) <= Len(p)
      PROVE  (\A i \in 1..Len(f) : q[i] = r[i])
             <=> \A i \in 1..Len(f) : p[Len(p) - Len(f) + i] = f[i]
  <2>1. \A i \in 1..Len(f) : q[i] = f[Len(f) - i + 1] /\ r[i] = p[Len(p) - i + 1]
    BY <1>1, <1>7
  <2> HIDE DEF q, r
  <2>2. \A i \in 1..Len(f) : Len(f) - i + 1 \in 1..Len(f)
    BY <1>1
  <2>3. ASSUME \A i \in 1..Len(f) : q[i] = r[i], NEW i \in 1..Len(f)
        PROVE  p[Len(p) - Len(f) + i] = f[i]
    <3>1. q[Len(f) - i + 1] = r[Len(f) - i + 1]
      BY <2>2, <2>3
    <3>2. Len(f) - (Len(f) - i + 1) + 1 = i /\ Len(p) - (Len(f) - i + 1) + 1 = Len(p) - Len(f) + i
      BY <1>1
    <3> QED BY <2>1, <2>2, <3>1, <3>2
  <2>4. ASSUME \A i \in 1..Len(f) : p[Len(p) - Len(f) + i] = f[i], NEW i \in 1..Len(f)
        PROVE  q[i] = r[i]
    <3>1. p[Len(p) - Len(f) + (Len(f) - i + 1)] = f[Len(f) - i + 1]
      BY <2>2, <2>4
    <3>2. Len(p) - Len(f) + (Len(f) - i + 1) = Len(p) - i + 1
      BY <1>1
    <3> QED BY <2>1, <3>1, <3>2
  <2> QED BY <2>3, <2>4
<1> HIDE DEF q, r
<1> QED BY <1>2, <1>3, <1>4, <1>6, <1>7 DEF EndsWith

\* A field is a slash and a name.
LEMMA FieldShape ==
    ASSUME NEW f \in Fields
    PROVE  f \in Seq(Tokens) /\ Len(f) = 2 /\ f[1] = "/" /\ f = <<"/", f[2]>>
<1>1. \A a, b \in Tokens :
          <<a, b>> \in Seq(Tokens) /\ Len(<<a, b>>) = 2 /\ <<a, b>>[1] = a /\ <<a, b>>[2] = b
  OBVIOUS
<1>2. {"/", "nonce", "balance", "code"} \subseteq Tokens
  BY DEF Tokens
<1>3. PICK b \in Tokens : f = <<"/", b>>
  BY <1>2, Zenon DEF Fields, PATH_NONCE, PATH_BALANCE, PATH_CODE
<1> QED BY <1>1, <1>2, <1>3

\* A path ends like a field exactly if its last two members are those of the
\* field.
LEMMA FieldAtEnd ==
    ASSUME NEW p \in Seq(Tokens), NEW f \in Fields
    PROVE  IsField(f, p) <=> Len(p) >= 2 /\ p[Len(p) - 1] = "/" /\ p[Len(p)] = f[2]
<1>1. f \in Seq(Tokens) /\ Len(f) = 2 /\ f[1] = "/"
  BY FieldShape, Zenon
<1>2. Len(p) \in Nat
  BY LenProperties
<1>3. IsField(f, p) <=> 2 <= Len(p) /\ \A i \in 1..2 : p[Len(p) - 2 + i] = f[i]
  <2>1. IsSuffix(f, p) <=> EndsWith(p, f)
    BY <1>1, SuffixAt, Zenon
  <2> QED BY <1>1, <2>1, Zenon DEF IsField, EndsWith
<1>4. (\A i \in 1..2 : p[Len(p) - 2 + i] = f[i]) <=> p[Len(p) - 1] = f[1] /\ p[Len(p)] = f[2]
  <2>1. Len(p) - 2 + 1 = Len(p) - 1 /\ Len(p) - 2 + 2 = Len(p)
    BY <1>2
  <2> QED BY <2>1
<1> QED BY <1>1, <1>2, <1>3, <1>4

\* A path ends like one field at most.
LEMMA OneField ==
    ASSUME NEW p \in Seq(Tokens), NEW f \in Fields, NEW g \in Fields,
           IsField(f, p), IsField(g, p)
    PROVE  f = g
<1>1. f[2] = g[2]
  BY FieldAtEnd
<1> QED BY <1>1 DEF Fields, PATH_NONCE, PATH_BALANCE, PATH_CODE

\* A field is read and written as itself.
LEMMA FieldOfItself ==
    ASSUME NEW f \in Fields, NEW g \in Fields
    PROVE  /\ f \in Seq(Tokens)
           /\ IsField(g, FullPath(f)) <=> g = f
<1>1. f \in Seq(Tokens) /\ Len(f) = 2 /\ f[1] = "/"
  BY FieldShape, Zenon
<1>2. /\ FullPath(f) \in Seq(Tokens) /\ Len(FullPath(f)) = 10
      /\ FullPath(f)[9] = f[1] /\ FullPath(f)[10] = f[2]
  <2>1. /\ FullPath(f) \in Seq(Tokens) /\ Len(FullPath(f)) = 8 + 2
        /\ \A i \in 1..2 : FullPath(f)[8 + i] = f[i]
    BY <1>1, FullPaths, Zenon
  <2> QED BY <2>1
<1>3. IsField(f, FullPath(f))
  <2>1. Len(FullPath(f)) - 1 = 9
    BY <1>2
  <2>2. IsField(f, FullPath(f)) <=>
            /\ Len(FullPath(f)) >= 2
            /\ FullPath(f)[Len(FullPath(f)) - 1] = "/" /\ FullPath(f)[Len(FullPath(f))] = f[2]
    BY <1>2, FieldAtEnd, Zenon
  <2> QED BY <1>1, <1>2, <2>1, <2>2
<1> QED BY <1>1, <1>2, <1>3, OneField

-----------------------------------------------------------------------------
(* Where paths are kept *)

\* What follows /storage/native/ in a path.
Slot(p) == GetPathUnder(p, PATH_STORAGE_NATIVE)

\* A path with a slot is /storage/native/ and the slot.
LEMMA SlotOf ==
    ASSUME NEW s \in Seq(Tokens), Slot(FullPath(s)) # <<>>
    PROVE  /\ Slot(FullPath(s)) \in Seq(Tokens)
           /\ s = PATH_STORAGE_NATIVE \o Slot(FullPath(s))
<1> DEFINE n == PATH_STORAGE_NATIVE
           t == SubSeq(s, Len(n) + 1, Len(s))
<1>1. n \in Seq(Tokens) /\ Len(n) = 5
  BY DEF PATH_STORAGE_NATIVE, Tokens
<1>2. Len(s) \in Nat
  BY LenProperties
<1>3. IsPrefix(n, s) /\ Slot(FullPath(s)) = t
  BY Parsed, Zenon DEF Slot, GetPathUnder
<1> HIDE DEF n
<1>4. Len(n) <= Len(s) /\ SubSeq(n, 1, Len(n)) = SubSeq(s, 1, Len(n))
  BY <1>3, Zenon DEF IsPrefix
<1>5. SubSeq(n, 1, Len(n)) = n
  BY <1>1, SubSeqFull
<1>6. SubSeq(s, 1, Len(n)) \o t = SubSeq(s, 1, Len(s))
  <2>1. 1 \in 1..(Len(s) + 1) /\ Len(n) \in (1 - 1)..Len(s) /\ Len(s) \in Len(n)..Len(s)
    BY <1>1, <1>2, <1>4
  <2> QED BY <2>1, ConcatAdjacentSubSeq, Zenon
<1>7. SubSeq(s, 1, Len(s)) = s
  BY SubSeqFull
<1>8. t \in Seq(Tokens)
  <2>1. \A i \in (Len(n) + 1)..Len(s) : s[i] \in Tokens
    BY <1>1, <1>2, ElementOfSeq
  <2> QED BY <1>1, <1>2, <2>1, SubSeqProperties
<1> QED BY <1>3, <1>4, <1>5, <1>6, <1>7, <1>8, Zenon DEF n

\* The name of a slot decides the path.
LEMMA SlotDecides ==
    ASSUME NEW s \in Seq(Tokens), NEW t \in Seq(Tokens),
           Slot(FullPath(s)) # <<>>, ~Panics(FullPath(s)),
           Slot(FullPath(t)) # <<>>, ~Panics(FullPath(t)),
           Slot(FullPath(s))[1] = Slot(FullPath(t))[1]
    PROVE  s = t
<1> DEFINE a == Slot(FullPath(s))
           b == Slot(FullPath(t))
<1>1. a \in Seq(Tokens) /\ b \in Seq(Tokens)
  BY SlotOf, Zenon
<1>2. ~(Len(a) > 1) /\ ~(Len(b) > 1)
  BY Zenon DEF Panics, Slot
<1>3. a # <<>> /\ b # <<>> /\ a[1] = b[1]
  OBVIOUS
<1>4. s = PATH_STORAGE_NATIVE \o a /\ t = PATH_STORAGE_NATIVE \o b
  BY SlotOf, Zenon
<1> HIDE DEF a, b
<1>5. Len(a) = 1 /\ Len(b) = 1
  <2>1. \A q \in Seq(Tokens) : q # <<>> => Len(q) \in Nat \ {0}
    BY EmptySeq, Zenon
  <2>2. Len(a) \in Nat \ {0} /\ Len(b) \in Nat \ {0}
    BY <1>1, <1>3, <2>1, Zenon
  <2>3. \A k \in Nat \ {0} : ~(k > 1) => k = 1
    OBVIOUS
  <2> QED BY <1>2, <2>2, <2>3, Zenon
<1>6. a = b
  BY <1>1, <1>3, <1>5, SeqEqual
<1> QED BY <1>4, <1>6

\* The path ends like a field.
EndsLikeField(p) == \E f \in Fields : IsField(f, p)

\* Where a path is read: in a field, or in the storage trie, under the slot or
\* under the path itself.
LEMMA ReadFromIs ==
    ASSUME NEW p
    PROVE  /\ EndsLikeField(p) =>
                  \E f \in Fields : IsField(f, p) /\ ReadFrom(p) = [field |-> f]
           /\ ~EndsLikeField(p) /\ Slot(p) # <<>> =>
                  ReadFrom(p) = [hash |-> <<HexOf[Slot(p)[1]]>>]
           /\ ~EndsLikeField(p) /\ Slot(p) = <<>> => ReadFrom(p) = [hash |-> p]
           /\ ~EndsLikeField(p) => \E x : ReadFrom(p) = [hash |-> x]
BY Zenon DEF ReadFrom, ToStorageKey, Slot, EndsLikeField

\* Paths that are neither named like a field nor two spellings of one slot are
\* kept in different places.
LEMMA PlacesDiffer ==
    ASSUME NEW s \in Seq(Tokens), NEW t \in Seq(Tokens), s # t,
           ~Panics(FullPath(s)), ~Panics(FullPath(t)),
           ReadFrom(FullPath(s)) = ReadFrom(FullPath(t)),
           ~NamedLikeField(FullPath(s)), ~NamedLikeField(FullPath(t))
    PROVE  SpelledDifferently(FullPath(s), FullPath(t))
<1> DEFINE p == FullPath(s)
           q == FullPath(t)
<1>1. /\ p \in Seq(Tokens) /\ Len(p) = 8 + Len(s) /\ Len(s) \in Nat
      /\ q \in Seq(Tokens) /\ Len(q) = 8 + Len(t) /\ Len(t) \in Nat
  BY FullPaths, Zenon
<1>2. p # q
  BY FullPathInjective, Zenon
<1>3. (EndsLikeField(p) => s \in Fields) /\ (EndsLikeField(q) => t \in Fields)
  BY Parsed, Zenon DEF NamedLikeField, EndsLikeField
<1>4. \A f, x : [field |-> f] # [hash |-> x]
  <2> SUFFICES ASSUME NEW f, NEW x, [field |-> f] = [hash |-> x] PROVE FALSE
    BY Zenon
  <2>1. DOMAIN [field |-> f] = {"field"} /\ DOMAIN [hash |-> x] = {"hash"}
    OBVIOUS
  <2> QED BY <2>1, Zenon
<1>5. /\ \A f, g : [field |-> f] = [field |-> g] => f = g
      /\ \A x, y : [hash |-> x] = [hash |-> y] => x = y
  <2>1. \A x : [field |-> x].field = x /\ [hash |-> x].hash = x
    OBVIOUS
  <2> QED BY <2>1
<1>6. ~EndsLikeField(p)
  <2> SUFFICES ASSUME EndsLikeField(p) PROVE FALSE
    BY Zenon
  <2>1. PICK f \in Fields : IsField(f, p) /\ ReadFrom(p) = [field |-> f]
    BY ReadFromIs, Zenon
  <2>2. EndsLikeField(q)
    <3>1. ~EndsLikeField(q) => \E x : ReadFrom(q) = [hash |-> x]
      BY ReadFromIs, Zenon
    <3>2. ReadFrom(q) = [field |-> f]
      BY <2>1
    <3> QED BY <1>4, <3>1, <3>2, Zenon
  <2>3. PICK g \in Fields : IsField(g, q) /\ ReadFrom(q) = [field |-> g]
    BY <2>2, ReadFromIs, Zenon
  <2>4. f = s /\ g = t
    BY <1>3, <2>1, <2>2, <2>3, FieldOfItself, Zenon
  <2> QED BY <1>5, <2>1, <2>3, <2>4, Zenon
<1>7. ~EndsLikeField(q)
  <2>1. EndsLikeField(q) => \E f \in Fields : ReadFrom(q) = [field |-> f]
    BY ReadFromIs, Zenon
  <2>2. \E x : ReadFrom(p) = [hash |-> x]
    BY <1>6, ReadFromIs, Zenon
  <2>3. ReadFrom(p) = ReadFrom(q)
    OBVIOUS
  <2> QED BY <1>4, <2>1, <2>2, <2>3, Zenon
<1>8. \A x : <<x>> # p /\ <<x>> # q
  <2>1. \A x : Len(<<x>>) = 1
    OBVIOUS
  <2>2. Len(p) # 1 /\ Len(q) # 1
    BY <1>1
  <2> QED BY <2>1, <2>2, Zenon
<1> HIDE DEF p, q
<1>9. /\ Slot(p) # <<>> => ReadFrom(p) = [hash |-> <<HexOf[Slot(p)[1]]>>]
      /\ Slot(p) = <<>> => ReadFrom(p) = [hash |-> p]
  BY <1>6, ReadFromIs, Zenon
<1>10. /\ Slot(q) # <<>> => ReadFrom(q) = [hash |-> <<HexOf[Slot(q)[1]]>>]
       /\ Slot(q) = <<>> => ReadFrom(q) = [hash |-> q]
  BY <1>7, ReadFromIs, Zenon
<1>11. ReadFrom(p) = ReadFrom(q)
  BY DEF p, q
<1>12. Slot(p) # <<>> /\ Slot(q) # <<>>
  BY <1>2, <1>5, <1>8, <1>9, <1>10, <1>11
<1>13. HexOf[Slot(p)[1]] = HexOf[Slot(q)[1]]
  <2>1. <<HexOf[Slot(p)[1]]>> = <<HexOf[Slot(q)[1]]>>
    BY <1>5, <1>12, <1>9, <1>10, <1>11, Zenon
  <2> QED BY <2>1
<1>14. Slot(p)[1] # Slot(q)[1]
  BY <1>12, SlotDecides, Zenon DEF p, q
<1> QED BY <1>12, <1>13, <1>14, Zenon DEF SpelledDifferently, Slot, p, q

\* In a batch of two, a key that is not named like a field is written where it
\* is read.
LEMMA WrittenWhereRead ==
    ASSUME NEW s \in Seq(Tokens), NEW t \in Seq(Tokens), s # t,
           ~NamedLikeField(FullPath(s)), ~NamedLikeField(FullPath(t))
    PROVE  /\ Len(FullPath(s)) > ETH_ACCOUNT_FULL_LENGTH + 1 =>
                  WrittenTo(<<FullPath(s), FullPath(t)>>, 1) = ReadFrom(FullPath(s))
           /\ Len(FullPath(t)) > ETH_ACCOUNT_FULL_LENGTH + 1 =>
                  WrittenTo(<<FullPath(s), FullPath(t)>>, 2) = ReadFrom(FullPath(t))
<1> DEFINE p == FullPath(s)
           q == FullPath(t)
           batch == <<p, q>>
           free(k) == \E f \in Fields :
                          IsField(f, batch[k]) /\ \A j \in 1..(k - 1) : ~IsField(f, batch[j])
<1>1. (EndsLikeField(p) => s \in Fields) /\ (EndsLikeField(q) => t \in Fields)
  BY Parsed, Zenon DEF NamedLikeField, EndsLikeField
<1> HIDE DEF p, q
<1>2. batch[1] = p /\ batch[2] = q
  OBVIOUS
<1>3. 1..(1 - 1) = {} /\ 1..(2 - 1) = {1}
  OBVIOUS
<1>4. free(1) <=> EndsLikeField(p)
  <2> HIDE DEF batch
  <2> QED BY <1>2, <1>3, Zenon DEF EndsLikeField
<1>5. free(2) <=> EndsLikeField(q)
  <2>1. ASSUME NEW f \in Fields, IsField(f, q), IsField(f, p)
        PROVE  FALSE
    <3>1. s \in Fields /\ t \in Fields
      BY <1>1, <2>1, Zenon DEF EndsLikeField
    <3>2. f = s /\ f = t
      BY <2>1, <3>1, FieldOfItself, Zenon DEF p, q
    <3> QED BY <3>2
  <2> HIDE DEF batch
  <2> QED BY <1>2, <1>3, <2>1, Zenon DEF EndsLikeField
<1>6. \A r : Len(r) \in Nat /\ Len(r) > ETH_ACCOUNT_FULL_LENGTH + 1 => ~IsAccountRoot(r)
  <2>1. \A n \in Nat : n > ETH_ACCOUNT_FULL_LENGTH + 1 => n # ETH_ACCOUNT_FULL_LENGTH + 1
    BY Prefix
  <2> QED BY <2>1, Zenon DEF IsAccountRoot
<1>7. Len(p) \in Nat /\ Len(q) \in Nat
  BY FullPaths, LenProperties DEF p, q
<1> HIDE DEF batch
<1>8. ASSUME Len(p) > ETH_ACCOUNT_FULL_LENGTH + 1
      PROVE  WrittenTo(batch, 1) = ReadFrom(p)
  BY <1>2, <1>4, <1>6, <1>7, <1>8, Zenon DEF WrittenTo, ReadFrom, EndsLikeField
<1>9. ASSUME Len(q) > ETH_ACCOUNT_FULL_LENGTH + 1
      PROVE  WrittenTo(batch, 2) = ReadFrom(q)
  BY <1>2, <1>5, <1>6, <1>7, <1>9, Zenon DEF WrittenTo, ReadFrom, EndsLikeField
<1> QED BY <1>8, <1>9, Zenon DEF batch, p, q

-----------------------------------------------------------------------------
(* Parents *)

\* Of the slashes before the last member, i is the last.
LastSlash(p, i) ==
    /\ i \in 1..(Len(p) - 1) /\ p[i] = "/"
    /\ \A j \in 1..(Len(p) - 1) : p[j] = "/" => j <= i

\* A path is cut there.
LEMMA ParentAt ==
    ASSUME NEW p \in Seq(Tokens), Len(p) >= 8, NEW i, LastSlash(p, i)
    PROVE  /\ GetParentPath(p)[1] = SubSeq(p, 1, i)
           /\ GetParentPath(p)[2] = SubSeq(p, i + 1, Len(p))
<1> DEFINE slashes == {k \in 1..(Len(p) - 1) : p[k] = "/"}
           last == IF slashes = {} THEN 0 ELSE CHOOSE k \in slashes : \A j \in slashes : j <= k
<1>1. Len(p) \in Nat
  BY LenProperties
<1>2. p # <<>> /\ p # <<"/">>
  <2>1. Len(<<>>) = 0 /\ Len(<<"/">>) = 1
    OBVIOUS
  <2>2. Len(p) # 0 /\ Len(p) # 1
    <3>1. \A n \in Nat : n >= 8 => n # 0 /\ n # 1
      OBVIOUS
    <3> QED BY <1>1, <3>1, Zenon
  <2> QED BY <2>1, <2>2, Zenon
<1>3. i \in slashes /\ \A j \in slashes : j <= i
  BY DEF LastSlash
<1>4. \A k \in slashes : (\A j \in slashes : j <= k) => k = i
  BY <1>1, <1>3
<1>5. last = i
  <2> HIDE DEF slashes
  <2> QED BY <1>3, <1>4, Zenon
<1>6. GetParentPath(p) = <<SubSeq(p, 1, last), SubSeq(p, last + 1, Len(p))>>
  BY <1>2, Zenon DEF GetParentPath
<1> HIDE DEF last
<1> DEFINE a == SubSeq(p, 1, i)
           b == SubSeq(p, i + 1, Len(p))
<1>7. GetParentPath(p) = <<a, b>>
  BY <1>5, <1>6
<1> HIDE DEF a, b
<1>8. GetParentPath(p)[1] = a /\ GetParentPath(p)[2] = b
  BY <1>7
<1> QED BY <1>8 DEF a, b

\* A full path has one.
LEMMA LastSlashExists ==
    ASSUME NEW p \in Seq(Tokens), Len(p) >= 8, p[7] = "/"
    PROVE  \E i : LastSlash(p, i) /\ i >= 7
<1> DEFINE back == {k \in Nat : k >= 1 /\ k < Len(p) /\ p[Len(p) - k] = "/"}
<1>1. Len(p) \in Nat
  BY LenProperties
<1>2. Len(p) - 7 \in back
  <2>1. Len(p) - (Len(p) - 7) = 7
    BY <1>1
  <2> QED BY <1>1, <2>1
<1>3. PICK k \in back : \A j \in back : k <= j
  <2>1. back \in SUBSET Nat /\ back # {}
    BY <1>2
  <2> HIDE DEF back
  <2> QED BY <2>1, LeastNumber, Zenon
<1>4. Len(p) - k \in 1..(Len(p) - 1) /\ p[Len(p) - k] = "/" /\ Len(p) - k >= 7
  BY <1>1, <1>2, <1>3
<1>5. ASSUME NEW j \in 1..(Len(p) - 1), p[j] = "/"
      PROVE  j <= Len(p) - k
  <2>1. Len(p) - (Len(p) - j) = j
    BY <1>1
  <2>2. Len(p) - j \in back
    BY <1>1, <1>5, <2>1
  <2> QED BY <1>1, <1>3, <2>2
<1> QED BY <1>4, <1>5, Zenon DEF LastSlash

\* The beginning of a path up to its k-th member.
LEMMA Beginning ==
    ASSUME NEW p \in Seq(Tokens), NEW k \in 1..Len(p)
    PROVE  /\ SubSeq(p, 1, k) \in Seq(Tokens)
           /\ Len(SubSeq(p, 1, k)) = k
           /\ \A i \in 1..k : SubSeq(p, 1, k)[i] = p[i]
<1>1. Len(p) \in Nat /\ \A i \in 1..Len(p) : p[i] \in Tokens
  BY LenProperties, ElementOfSeq
<1>2. k \in Int /\ k >= 1 /\ \A i \in 1..k : p[i] \in Tokens
  BY <1>1
<1>3. /\ SubSeq(p, 1, k) \in Seq(Tokens)
      /\ Len(SubSeq(p, 1, k)) = IF 1 <= k THEN k - 1 + 1 ELSE 0
      /\ \A i \in 1..(k - 1 + 1) : SubSeq(p, 1, k)[i] = p[1 + i - 1]
  BY <1>2, SubSeqProperties
<1> QED BY <1>2, <1>3

\* A sequence that has the same members is that beginning.
LEMMA BeginningIs ==
    ASSUME NEW p \in Seq(Tokens), NEW t \in Seq(Tokens), Len(t) \in 1..Len(p),
           \A i \in 1..Len(t) : p[i] = t[i]
    PROVE  SubSeq(p, 1, Len(t)) = t
<1> DEFINE b == SubSeq(p, 1, Len(t))
<1>1. b \in Seq(Tokens) /\ Len(b) = Len(t) /\ \A i \in 1..Len(t) : b[i] = p[i]
  BY Beginning, Zenon
<1> HIDE DEF b
<1>2. b = t
  <2>1. \A i \in 1..Len(b) : b[i] = t[i]
    BY <1>1, Zenon
  <2> QED BY <1>1, <2>1, SeqEqual, Zenon
<1> QED BY <1>2 DEF b

\* The parent is the longest path that p is properly under.
LEMMA ParentOf ==
    ASSUME NEW s \in Seq(Tokens)
    PROVE  LET p == FullPath(s)
               parent == GetParentPath(p)[1]
           IN  /\ parent \o GetParentPath(p)[2] = p /\ parent # p
               /\ Last(parent) = "/"
               /\ \A k \in (Len(parent) + 1)..(Len(p) - 1) : Last(SubSeq(p, 1, k)) # "/"
<1> DEFINE p == FullPath(s)
           parent == GetParentPath(p)[1]
<1>1. p \in Seq(Tokens) /\ Len(p) \in Nat /\ Len(p) >= 8 /\ p[7] = "/"
  BY FullPaths
<1> HIDE DEF p
<1>2. PICK i : LastSlash(p, i) /\ i >= 7
  BY <1>1, LastSlashExists, Zenon
<1>3. parent = SubSeq(p, 1, i) /\ GetParentPath(p)[2] = SubSeq(p, i + 1, Len(p))
  BY <1>1, <1>2, ParentAt, Zenon
<1> HIDE DEF parent
<1>4. i \in 1..Len(p) /\ i \in 1..(Len(p) - 1) /\ p[i] = "/"
  BY <1>1, <1>2 DEF LastSlash
<1>5. parent \in Seq(Tokens) /\ Len(parent) = i /\ parent[i] = p[i]
  <2>1. i \in 1..i
    BY <1>4
  <2> QED BY <1>1, <1>3, <1>4, <2>1, Beginning, Zenon
<1>6. parent \o GetParentPath(p)[2] = p
  <2>1. 1 \in 1..(Len(p) + 1) /\ i \in (1 - 1)..Len(p) /\ Len(p) \in i..Len(p)
    BY <1>1, <1>4
  <2>2. SubSeq(p, 1, i) \o SubSeq(p, i + 1, Len(p)) = SubSeq(p, 1, Len(p))
    BY <1>1, <2>1, ConcatAdjacentSubSeq, Zenon
  <2>3. SubSeq(p, 1, Len(p)) = p
    BY <1>1, SubSeqFull
  <2> QED BY <1>3, <2>2, <2>3, Zenon
<1>7. parent # p
  <2>1. i # Len(p)
    BY <1>1, <1>4
  <2> QED BY <1>5, <2>1, Zenon
<1>8. Last(parent) = "/"
  BY <1>4, <1>5, Zenon DEF Last
<1>9. ASSUME NEW k \in (Len(parent) + 1)..(Len(p) - 1)
      PROVE  Last(SubSeq(p, 1, k)) # "/"
  <2>1. k \in 1..Len(p) /\ k \in 1..(Len(p) - 1) /\ k \in 1..k /\ ~(k <= i)
    BY <1>1, <1>4, <1>5, <1>9
  <2>2. Last(SubSeq(p, 1, k)) = p[k]
    BY <1>1, <2>1, Beginning, Zenon DEF Last
  <2> QED BY <1>2, <2>1, <2>2, Zenon DEF LastSlash
<1> QED BY <1>6, <1>7, <1>8, <1>9, Zenon DEF parent, p

\* Every path under the account has a parent with a slash in it.
LEMMA ParentHasSlash ==
    ASSUME NEW s \in Seq(Tokens)
    PROVE  Contains(GetParentPath(FullPath(s))[1], "/")
<1> DEFINE p == FullPath(s)
           parent == GetParentPath(p)[1]
<1>1. p \in Seq(Tokens) /\ Len(p) \in Nat /\ Len(p) >= 8 /\ p[7] = "/"
  BY FullPaths
<1> HIDE DEF p
<1>2. PICK i : LastSlash(p, i) /\ i >= 7
  BY <1>1, LastSlashExists, Zenon
<1>3. i \in 1..Len(p) /\ i \in 1..i /\ p[i] = "/"
  BY <1>1, <1>2 DEF LastSlash
<1>4. parent = SubSeq(p, 1, i)
  BY <1>1, <1>2, ParentAt, Zenon
<1> HIDE DEF parent
<1>5. Len(parent) = i /\ parent[i] = p[i]
  BY <1>1, <1>3, <1>4, Beginning, Zenon
<1> QED BY <1>3, <1>5, Zenon DEF Contains, parent, p

-----------------------------------------------------------------------------
(* Containers and their elements *)

\* A path whose last name is not "container" is no container path.
LEMMA NotContainerPath ==
    ASSUME NEW p \in Seq(Tokens), p[Len(p) - 1] # "container"
    PROVE  ~IsContainerPath(p)
<1> DEFINE c == <<"/", "container", "/">>
<1>1. c \in Seq(Tokens) /\ Len(c) = 3 /\ c[2] = "container"
  <2>1. "/" \in Tokens /\ "container" \in Tokens
    BY DEF Tokens
  <2> QED BY <2>1
<1>2. Len(p) \in Nat
  BY LenProperties
<1> HIDE DEF c
<1>3. IsSuffix(c, p) <=> EndsWith(p, c)
  BY <1>1, SuffixAt, Zenon
<1>4. EndsWith(p, c) => p[Len(p) - 3 + 2] = c[2]
  <2>1. 2 \in 1..3
    OBVIOUS
  <2> QED BY <1>1, <2>1, Zenon DEF EndsWith
<1>5. Len(p) - 3 + 2 = Len(p) - 1
  BY <1>2
<1> QED BY <1>1, <1>3, <1>4, <1>5, Zenon DEF IsContainerPath, c

\* A path under the account is cut at its last slash but the one at its end.
LEMMA CutAt ==
    ASSUME NEW s \in Seq(Tokens), NEW k \in 1..(Len(s) - 1), s[k] = "/",
           \A j \in (k + 1)..(Len(s) - 1) : s[j] # "/"
    PROVE  GetParentPath(FullPath(s))[1] = FullPath(SubSeq(s, 1, k))
<1> DEFINE p == FullPath(s)
           u == SubSeq(s, 1, k)
           q == FullPath(u)
<1>1. /\ p \in Seq(Tokens) /\ Len(p) = 8 + Len(s) /\ Len(s) \in Nat
      /\ \A i \in 1..Len(s) : p[8 + i] = s[i]
  BY FullPaths, Zenon
<1>2. k \in 1..Len(s)
  BY <1>1
<1>3. u \in Seq(Tokens) /\ Len(u) = k /\ \A i \in 1..k : u[i] = s[i]
  BY <1>2, Beginning, Zenon
<1>4. q \in Seq(Tokens) /\ Len(q) = 8 + k
  BY <1>3, FullPaths, Zenon
<1>5. LastSlash(p, 8 + k)
  <2>1. 8 + k \in 1..(Len(p) - 1) /\ p[8 + k] = "/"
    BY <1>1, <1>2
  <2>2. ASSUME NEW j \in 1..(Len(p) - 1), p[j] = "/", ~(j <= 8 + k)
        PROVE  FALSE
    <3>1. j - 8 \in 1..Len(s) /\ j - 8 \in (k + 1)..(Len(s) - 1) /\ 8 + (j - 8) = j
      <4> HIDE DEF p
      <4> QED BY <1>1, <2>2
    <3>2. p[8 + (j - 8)] = s[j - 8]
      BY <1>1, <3>1, Zenon
    <3>3. p[j] = s[j - 8]
      BY <3>1, <3>2
    <3> QED BY <2>2, <3>1, <3>3, Zenon
  <2> QED BY <2>1, <2>2, Zenon DEF LastSlash
<1>6. GetParentPath(p)[1] = SubSeq(p, 1, 8 + k)
  <2>1. Len(p) >= 8
    BY <1>1
  <2> QED BY <1>1, <1>5, <2>1, ParentAt, Zenon
<1>7. 8 + k \in 1..Len(p)
  BY <1>1
<1>8. \A i \in 1..(8 + k) : p[i] = q[i]
  <2>1. \A i \in 1..8 : p[i] = q[i]
    <3> HIDE DEF u
    <3>1. \A i \in 1..8 : p[i] = Account[i]
      BY FullPaths, Zenon
    <3>2. \A i \in 1..8 : q[i] = Account[i]
      BY <1>3, FullPaths, Zenon
    <3> QED BY <3>1, <3>2, Zenon
  <2>2. \A i \in 1..k : p[8 + i] = q[8 + i]
    <3>1. \A i \in 1..k : i \in 1..Len(s)
      BY <1>1
    <3>2. \A i \in 1..k : q[8 + i] = u[i]
      BY <1>3, FullPaths, Zenon
    <3> QED BY <1>1, <1>3, <3>1, <3>2, Zenon
  <2>3. \A i \in 1..(8 + k) : i \in 1..8 \/ (i - 8 \in 1..k /\ 8 + (i - 8) = i)
    BY <1>1
  <2> HIDE DEF p, q
  <2> QED BY <2>1, <2>2, <2>3, Zenon
<1>9. SubSeq(p, 1, 8 + k) = q
  <2> HIDE DEF p, q
  <2>1. SubSeq(p, 1, Len(q)) = q
    BY <1>1, <1>4, <1>7, <1>8, BeginningIs, Zenon
  <2> QED BY <1>4, <2>1, Zenon
<1> QED BY <1>6, <1>9

\* The parent of a default path is a system path, and the container root is none
\* of these parents.
LEMMA DefaultParents ==
    ASSUME NEW s \in DefaultPaths
    PROVE  /\ s \in Seq(Tokens)
           /\ IsSysPath(GetParentPath(FullPath(s))[1])
           /\ ~IsContainerPath(GetParentPath(FullPath(s))[1])
<1>1. {"/", "code", "nonce", "balance", "profiles", "storage", "container", "native"}
          \subseteq Tokens
  BY DEF Tokens
<1>2. \A a, b, c \in Tokens :
          <<a>> \in Seq(Tokens) /\ <<a, b>> \in Seq(Tokens) /\ <<a, b, c>> \in Seq(Tokens)
  OBVIOUS
<1>3. ASSUME NEW u \in {<<"/">>, <<"/", "storage", "/">>}
      PROVE  IsSysPath(FullPath(u)) /\ ~IsContainerPath(FullPath(u))
  <2>1. u \in Seq(Tokens)
    <3>1. "/" \in Tokens /\ "storage" \in Tokens
      BY <1>1
    <3> QED BY <1>2, <3>1, Zenon
  <2>2. IsSysPath(FullPath(u))
    BY <2>1, Parsed, Zenon DEF IsSysPath, DefaultPaths
  <2>3. FullPath(u)[Len(FullPath(u)) - 1] # "container"
    <3>1. CASE u = <<"/">>
      <4>1. Len(u) = 1
        BY <3>1
      <4>2. Len(FullPath(u)) = 8 + Len(u) /\ FullPath(u)[8] = Address
        BY <2>1, FullPaths, Zenon
      <4>3. Len(FullPath(u)) - 1 = 8
        BY <4>1, <4>2
      <4> QED BY <4>2, <4>3 DEF Address
    <3>2. CASE u = <<"/", "storage", "/">>
      <4>1. Len(u) = 3 /\ u[2] = "storage"
        BY <3>2
      <4>4. Len(FullPath(u)) = 8 + Len(u)
        BY <2>1, FullPaths, Zenon
      <4>2. Len(FullPath(u)) - 1 = 8 + 2 /\ 2 \in 1..Len(u)
        BY <4>1, <4>4
      <4>3. FullPath(u)[8 + 2] = u[2]
        BY <2>1, <4>2, FullPaths, Zenon
      <4> QED BY <4>1, <4>2, <4>3, Zenon
    <3> QED BY <3>1, <3>2
  <2>4. FullPath(u) \in Seq(Tokens)
    BY <2>1, FullPaths, Zenon
  <2> QED BY <2>2, <2>3, <2>4, NotContainerPath, Zenon
<1>4. CASE s = <<"/">>
  <2> DEFINE p == FullPath(s)
  <2>1. s \in Seq(Tokens) /\ Len(s) = 1
    BY <1>1, <1>4
  <2>2. p \in Seq(Tokens) /\ Len(p) = 9 /\ p[6] = "account" /\ p[7] = "/" /\ p[8] = Address
    <3>1. /\ p \in Seq(Tokens) /\ Len(p) = 8 + Len(s)
          /\ p[6] = "account" /\ p[7] = "/" /\ p[8] = Address
      BY <2>1, FullPaths, Zenon
    <3> HIDE DEF p
    <3> QED BY <2>1, <3>1
  <2> HIDE DEF p
  <2>3. LastSlash(p, 7)
    <3>1. 7 \in 1..(Len(p) - 1) /\ \A j \in 1..(Len(p) - 1) : j <= 7 \/ j = 8
      BY <2>2
    <3>2. Address # "/"
      BY DEF Address
    <3> QED BY <2>2, <3>1, <3>2, Zenon DEF LastSlash
  <2>4. GetParentPath(p)[1] = SubSeq(p, 1, 7)
    <3>1. Len(p) >= 8
      BY <2>2
    <3> QED BY <2>2, <2>3, <3>1, ParentAt, Zenon
  <2> DEFINE q == SubSeq(p, 1, 7)
  <2>5. q \in Seq(Tokens) /\ Len(q) = 7 /\ q[6] = "account"
    <3>1. 7 \in 1..Len(p) /\ 6 \in 1..7
      BY <2>2
    <3> QED BY <2>2, <3>1, Beginning, Zenon
  <2> HIDE DEF q
  <2>6. IsSysPath(q)
    BY <2>5, Prefix DEF IsSysPath
  <2>7. ~IsContainerPath(q)
    <3>1. Len(q) - 1 = 6
      BY <2>5
    <3>2. q[Len(q) - 1] # "container"
      BY <2>5, <3>1
    <3> QED BY <2>5, <3>2, NotContainerPath, Zenon
  <2> QED BY <2>1, <2>4, <2>6, <2>7, Zenon DEF p, q
<1>5. ASSUME NEW x \in Tokens \ {"/"}, s = <<"/", x>> \/ s = <<"/", x, "/">>
      PROVE  s \in Seq(Tokens) /\ GetParentPath(FullPath(s))[1] = FullPath(<<"/">>)
  <2>1. s \in Seq(Tokens)
    <3>1. "/" \in Tokens /\ x \in Tokens
      BY <1>1
    <3> QED BY <1>5, <1>2, <3>1, Zenon
  <2>2. 1 \in 1..(Len(s) - 1) /\ s[1] = "/" /\ \A j \in (1 + 1)..(Len(s) - 1) : s[j] # "/"
    <3>1. Len(s) \in {2, 3} /\ s[1] = "/" /\ s[2] # "/"
      BY <1>5
    <3>2. \A n \in {2, 3} : 1 \in 1..(n - 1) /\ \A j \in (1 + 1)..(n - 1) : j = 2
      OBVIOUS
    <3> QED BY <3>1, <3>2, Zenon
  <2>3. SubSeq(s, 1, 1) = <<"/">>
    <3> DEFINE t == <<"/">>
    <3>1. t \in Seq(Tokens) /\ Len(t) = 1 /\ t[1] = "/"
      BY <1>1
    <3>2. Len(t) \in 1..Len(s) /\ \A i \in 1..Len(t) : s[i] = t[i]
      BY <1>5
    <3> HIDE DEF t
    <3>3. SubSeq(s, 1, Len(t)) = t
      BY <2>1, <3>1, <3>2, BeginningIs, Zenon
    <3> QED BY <3>1, <3>3 DEF t
  <2>4. GetParentPath(FullPath(s))[1] = FullPath(SubSeq(s, 1, 1))
    BY <2>1, <2>2, CutAt, Zenon
  <2> QED BY <2>1, <2>3, <2>4, Zenon
<1>6. ASSUME NEW x \in Tokens \ {"/"}, s = <<"/", "storage", "/", x, "/">>
      PROVE  s \in Seq(Tokens) /\ GetParentPath(FullPath(s))[1] = FullPath(<<"/", "storage", "/">>)
  <2>1. s \in Seq(Tokens)
    BY <1>1, <1>6
  <2>2. 3 \in 1..(Len(s) - 1) /\ s[3] = "/" /\ \A j \in (3 + 1)..(Len(s) - 1) : s[j] # "/"
    BY <1>6
  <2>3. SubSeq(s, 1, 3) = <<"/", "storage", "/">>
    <3> DEFINE t == <<"/", "storage", "/">>
    <3>1. t \in Seq(Tokens) /\ Len(t) = 3
      BY <1>1
    <3>2. Len(t) \in 1..Len(s) /\ \A i \in 1..Len(t) : s[i] = t[i]
      BY <1>6
    <3> HIDE DEF t
    <3>3. SubSeq(s, 1, Len(t)) = t
      BY <2>1, <3>1, <3>2, BeginningIs, Zenon
    <3> QED BY <3>1, <3>3 DEF t
  <2>4. GetParentPath(FullPath(s))[1] = FullPath(SubSeq(s, 1, 3))
    BY <2>1, <2>2, CutAt, Zenon
  <2> QED BY <2>1, <2>3, <2>4, Zenon
<1>7. {"code", "nonce", "balance", "profiles", "storage", "container", "native"}
          \subseteq Tokens \ {"/"}
  BY DEF Tokens
<1>8. \/ s = <<"/">>
      \/ \E x \in Tokens \ {"/"} : s = <<"/", x>> \/ s = <<"/", x, "/">>
      \/ \E x \in Tokens \ {"/"} : s = <<"/", "storage", "/", x, "/">>
  BY <1>7, Zenon DEF DefaultPaths, PATH_CODE, PATH_NONCE, PATH_BALANCE, PATH_STORAGE_NATIVE
<1> QED BY <1>3, <1>4, <1>5, <1>6, <1>8, Zenon

\* A path is looked for in its parent if that is a container of a user or the
\* container root: IsImmediateChildOfSysPath without the cases that no path of
\* an account is in.
LEMMA LookedWhere ==
    ASSUME NEW s \in Seq(Tokens), Len(FullPath(s)) > ETH_ACCOUNT_FULL_LENGTH
    PROVE  LET parent == GetParentPath(FullPath(s))[1]
           IN  LooksInParent(FullPath(s)) <=> IsContainerPath(parent) \/ ~IsSysPath(parent)
<1> DEFINE p == FullPath(s)
           parent == GetParentPath(p)[1]
<1>1. IsSysPath(p) => s \in DefaultPaths
  <2>1. ~(Len(p) <= ETH_ACCOUNT_FULL_LENGTH)
    <3>1. Len(p) = 8 + Len(s) /\ Len(s) \in Nat
      BY FullPaths, Zenon
    <3> HIDE DEF p
    <3>2. Len(p) > ETH_ACCOUNT_FULL_LENGTH
      BY DEF p
    <3> QED BY <3>1, <3>2, Prefix
  <2> QED BY <2>1, Parsed, Zenon DEF IsSysPath
<1>2. IsSysPath(p) => IsSysPath(parent) /\ ~IsContainerPath(parent)
  BY <1>1, DefaultParents, Zenon
<1>3. Contains(parent, "/")
  BY ParentHasSlash, Zenon
<1> QED BY <1>2, <1>3, Zenon DEF LooksInParent, IsImmediateChildOfSysPath

\* Reader and writer agree on a path, unless the system writes it into a
\* container of a user; then they do not.
LEMMA ListedWhereLooked ==
    ASSUME NEW s \in Seq(Tokens), Len(FullPath(s)) > ETH_ACCOUNT_FULL_LENGTH, NEW tx
    PROVE  (LooksInParent(FullPath(s)) <=> ListsInParent(tx, FullPath(s)))
               <=> ~SystemInUserContainer(tx, FullPath(s))
BY LookedWhere, Zenon DEF ListsInParent, SystemInUserContainer

-----------------------------------------------------------------------------
(* Theorems *)

\* A path begins with a slash, and names and slashes take turns.
Shape(sub) ==
    /\ sub # <<>> => sub[1] = "/"
    /\ \A i \in 1..(Len(sub) - 1) : sub[i] = "/" <=> sub[i + 1] # "/"

\* Paths are sequences of names and slashes of that shape.
PathsInv ==
    /\ path \in Seq(Tokens) /\ other \in Seq(Tokens)
    /\ Shape(path) /\ Shape(other)

\* An extended path has the shape.
LEMMA ExtensionsShape ==
    ASSUME NEW sub \in Seq(Tokens), Shape(sub), NEW new \in Extensions(sub)
    PROVE  new \in Seq(Tokens) /\ Shape(new)
<1>1. \A t \in Names \cup {"/"} : t \in Tokens
  BY DEF Tokens
<1>2. CASE sub = <<>>
  <2>1. new = <<"/">>
    BY <1>2, Zenon DEF Extensions
  <2>2. <<"/">> \in Seq(Tokens) /\ <<"/">>[1] = "/" /\ Len(<<"/">>) = 1
    BY <1>1
  <2> DEFINE s == <<"/">>
  <2>3. s \in Seq(Tokens) /\ s[1] = "/" /\ Len(s) = 1
    BY <2>2, Zenon
  <2> HIDE DEF s
  <2>4. Shape(s)
    BY <2>3 DEF Shape
  <2> QED BY <2>1, <2>3, <2>4, Zenon DEF s
<1>3. CASE sub # <<>>
  <2>1. PICK t \in Names \cup {"/"} : new = Append(sub, t) /\ (sub[Len(sub)] = "/" <=> t # "/")
    <3>1. "/" \notin Names
      BY PathAssumption, Zenon
    <3>2. new \in {Append(sub, t) : t \in IF sub[Len(sub)] = "/" THEN Names ELSE {"/"}}
      BY <1>3, Zenon DEF Extensions, Last
    <3>3. PICK t \in IF sub[Len(sub)] = "/" THEN Names ELSE {"/"} : new = Append(sub, t)
      BY <3>2, Zenon
    <3> QED BY <3>1, <3>3, Zenon
  <2>2. Len(sub) \in Nat \ {0}
    BY <1>3, EmptySeq, LenProperties
  <2>3. t \in Tokens
    BY <1>1, <2>1, Zenon
  <2>4. /\ new \in Seq(Tokens) /\ Len(new) = Len(sub) + 1
        /\ \A i \in 1..Len(sub) : new[i] = sub[i]
        /\ new[Len(sub) + 1] = t
    BY <2>1, <2>3, AppendProperties
  <2>5. new[1] = "/"
    <3>1. 1 \in 1..Len(sub)
      BY <2>2
    <3> QED BY <1>3, <2>4, <3>1, Zenon DEF Shape
  <2>6. ASSUME NEW i \in 1..(Len(new) - 1)
        PROVE  new[i] = "/" <=> new[i + 1] # "/"
    <3>1. CASE i = Len(sub)
      <4>1. i \in 1..Len(sub)
        BY <2>2, <3>1
      <4> QED BY <2>1, <2>4, <3>1, <4>1, Zenon
    <3>2. CASE i # Len(sub)
      <4>1. i \in 1..(Len(sub) - 1) /\ i \in 1..Len(sub) /\ i + 1 \in 1..Len(sub)
        BY <2>2, <2>4, <3>2
      <4> QED BY <2>4, <4>1, Zenon DEF Shape
    <3> QED BY <3>1, <3>2
  <2> QED BY <2>4, <2>5, <2>6, Zenon DEF Shape
<1> QED BY <1>2, <1>3

\* However a path is extended.
LEMMA PathsStay == PathSpec => []PathsInv
<1>1. PathInit => PathsInv
  <2>1. <<>> \in Seq(Tokens) /\ Len(<<>>) = 0
    BY EmptySeq
  <2>2. Shape(<<>>)
    BY <2>1 DEF Shape
  <2> QED BY <2>1, <2>2, Zenon DEF PathInit, PathsInv
<1>2. PathsInv /\ [PathNext]_pathVars => PathsInv'
  <2> SUFFICES ASSUME PathsInv, [PathNext]_pathVars
               PROVE  PathsInv'
    BY Zenon
  <2>1. CASE CreateDefaultPaths
    BY <2>1, Zenon DEF CreateDefaultPaths, PathsInv, Shape
  <2>2. CASE ExtendPath
    <3>1. path' \in Seq(Tokens) /\ Shape(path')
      BY <2>2, ExtensionsShape, Zenon DEF ExtendPath, PathsInv
    <3> QED BY <2>2, <3>1, Zenon DEF ExtendPath, PathsInv, Shape
  <2>3. CASE ExtendOther
    <3>1. other' \in Seq(Tokens) /\ Shape(other')
      BY <2>3, ExtensionsShape, Zenon DEF ExtendOther, PathsInv
    <3> QED BY <2>3, <3>1, Zenon DEF ExtendOther, PathsInv, Shape
  <2>4. CASE UNCHANGED pathVars
    BY <2>4, Zenon DEF pathVars, PathsInv, Shape
  <2> QED BY <2>1, <2>2, <2>3, <2>4, Zenon DEF PathNext
<1> QED BY <1>1, <1>2, PTL DEF PathSpec

\* GetParentPath gives the longest path that a path is properly under, for
\* paths of any length.
THEOREM ParentsAreLongest == PathSpec => []ParentIsLongest
<1>1. PathsInv => ParentIsLongest
  BY ParentOf, Zenon DEF PathsInv, ParentIsLongest, p1
<1> QED BY <1>1, PathsStay, PTL

\* For paths of any length, ExistsInParent looks for a path in its parent exactly
\* if write lists it there, but for what the system writes into a container of a
\* user, which is looked for and not listed.
THEOREM MembershipAlwaysAgrees == PathSpec => []MembershipAgrees
<1>1. PathsInv => MembershipAgrees
  BY ListedWhereLooked, Zenon DEF PathsInv, MembershipAgrees, p1
<1> QED BY <1>1, PathsStay, PTL

\* What UpdateAccountStorageTrie writes Account.Get finds, for any two paths of
\* a batch that are not named like a field.
THEOREM AlwaysReadWhereWritten == PathSpec => []ReadWhereWritten
<1>1. PathsInv => ReadWhereWritten
  <2> SUFFICES ASSUME PathsInv, p1 # p2, ~NamedLikeField(p1), ~NamedLikeField(p2),
                      NEW k \in 1..2
               PROVE  \/ Len(<<p1, p2>>[k]) <= ETH_ACCOUNT_FULL_LENGTH + 1
                      \/ Panics(<<p1, p2>>[k])
                      \/ WrittenTo(<<p1, p2>>, k) = ReadFrom(<<p1, p2>>[k])
    BY Zenon DEF ReadWhereWritten
  <2>1. path \in Seq(Tokens) /\ other \in Seq(Tokens) /\ path # other
    BY Zenon DEF PathsInv, p1, p2
  <2>2. /\ Len(p1) > ETH_ACCOUNT_FULL_LENGTH + 1 => WrittenTo(<<p1, p2>>, 1) = ReadFrom(p1)
        /\ Len(p2) > ETH_ACCOUNT_FULL_LENGTH + 1 => WrittenTo(<<p1, p2>>, 2) = ReadFrom(p2)
    BY <2>1, WrittenWhereRead, Zenon DEF p1, p2
  <2>3. k = 1 \/ k = 2
    OBVIOUS
  <2>4. <<p1, p2>>[1] = p1 /\ <<p1, p2>>[2] = p2
    OBVIOUS
  <2>5. \A q \in {p1, p2} : Len(q) <= ETH_ACCOUNT_FULL_LENGTH + 1 \/ Len(q) > ETH_ACCOUNT_FULL_LENGTH + 1
    <3>1. Len(p1) \in Nat /\ Len(p2) \in Nat
      BY <2>1, FullPaths, LenProperties, Zenon DEF p1, p2
    <3>2. \A n \in Nat : n <= 8 + 1 \/ n > 8 + 1
      OBVIOUS
    <3> QED BY <3>1, <3>2, Prefix, Zenon
  <2> QED BY <2>2, <2>3, <2>4, <2>5, Zenon
<1> QED BY <1>1, PathsStay, PTL

\* No two paths of an account are kept in one place, but for two spellings of
\* one slot and for elements named like a field.
THEOREM PlacesNeverShared == PathSpec => []NoAlias
<1>1. PathsInv => NoAlias
  <2> SUFFICES ASSUME PathsInv, p1 # p2, ~Panics(p1), ~Panics(p2), ReadFrom(p1) = ReadFrom(p2),
                      ~NamedLikeField(p1), ~NamedLikeField(p2)
               PROVE  SpelledDifferently(p1, p2)
    BY Zenon DEF NoAlias
  <2>1. path \in Seq(Tokens) /\ other \in Seq(Tokens) /\ path # other
    BY Zenon DEF PathsInv, p1, p2
  <2> QED BY <2>1, PlacesDiffer, Zenon DEF p1, p2
<1> QED BY <1>1, PathsStay, PTL
=============================================================================
