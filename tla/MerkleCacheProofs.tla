-------------------------- MODULE MerkleCacheProofs --------------------------
(***************************************************************************)
(* The cache of Merkle trees stays within its bound, orders its trees by   *)
(* age and invents no visits: proved for any number of roots, clients,     *)
(* cached trees and calls.                                                 *)
(*                                                                         *)
(* Neither OlderCountedMore nor VisitsNotInvented is inductive.  A new     *)
(* tree has counted two calls when it is in the dictionary, so the others  *)
(* must have counted two before; a visit that is stored was loaded         *)
(* earlier, so what a client has loaded must be covered by the visits made *)
(* to the provider that it still holds.                                    *)
(***************************************************************************)
EXTENDS MerkleProofCache, FiniteSetTheorems, TLAPS

\* A cached tree has counted the call that created it, once when it was made
\* and once with the rest of the dictionary.
CountedTwice == \A i \in merkleDict : providers[i].totalVisits >= 2

\* A client in the middle of visits++ still holds its provider, and what it
\* has loaded was there.
LoadedCovered ==
    \A c \in Clients : loaded[c] # 0 =>
        held[c] # 0 /\ loaded[c] <= 1 + accesses[held[c]]

CacheInv ==
    /\ TypeOK
    /\ IsFiniteSet(merkleDict)
    /\ CacheBounded
    /\ OlderCountedMore
    /\ CountedTwice
    /\ VisitsNotInvented
    /\ LoadedCovered

-----------------------------------------------------------------------------
\* Providers are named by their position, and each is well formed.
LEMMA ProviderTypes ==
    ASSUME TypeOK
    PROVE  /\ Len(providers) \in Nat
           /\ DOMAIN providers = 1..Len(providers)
           /\ \A i \in DOMAIN providers :
                  /\ providers[i] \in ProofProvider
                  /\ accesses[i] \in Nat
BY DEF TypeOK

\* Counting a call changes the totalVisits of the cached providers, by one.
LEMMA CountedFacts ==
    ASSUME NEW ps \in Seq(ProofProvider), NEW dict
    PROVE  /\ Counted(ps, dict) \in Seq(ProofProvider)
           /\ Len(Counted(ps, dict)) = Len(ps)
           /\ DOMAIN Counted(ps, dict) = DOMAIN ps
           /\ \A i \in DOMAIN ps :
                  /\ Counted(ps, dict)[i].root = ps[i].root
                  /\ Counted(ps, dict)[i].visits = ps[i].visits
                  /\ Counted(ps, dict)[i].totalVisits =
                         IF i \in dict THEN ps[i].totalVisits + 1
                         ELSE ps[i].totalVisits
<1> DEFINE f == Counted(ps, dict)
<1>1. Len(ps) \in Nat /\ DOMAIN ps = 1..Len(ps)
  OBVIOUS
<1>2. f = [i \in 1..Len(ps) |-> IF i \in dict THEN [ps[i] EXCEPT !.totalVisits = @ + 1]
                                ELSE ps[i]]
  BY <1>1 DEF Counted
<1>3. ASSUME NEW i \in 1..Len(ps)
      PROVE  /\ f[i] \in ProofProvider
             /\ f[i].root = ps[i].root
             /\ f[i].visits = ps[i].visits
             /\ f[i].totalVisits = IF i \in dict THEN ps[i].totalVisits + 1
                                   ELSE ps[i].totalVisits
  <2>1. ps[i] \in ProofProvider
    OBVIOUS
  <2>2. f[i] = IF i \in dict THEN [ps[i] EXCEPT !.totalVisits = @ + 1] ELSE ps[i]
    BY <1>2
  <2> HIDE DEF f
  <2>3. CASE i \in dict
    <3>1. f[i] = [ps[i] EXCEPT !.totalVisits = @ + 1]
      BY <2>2, <2>3
    <3>2. ps[i].totalVisits + 1 \in Nat
      BY <2>1 DEF ProofProvider
    <3>3. f[i] \in ProofProvider
      BY <2>1, <3>1, <3>2 DEF ProofProvider
    <3>4. /\ f[i].root = ps[i].root /\ f[i].visits = ps[i].visits
          /\ f[i].totalVisits = ps[i].totalVisits + 1
      BY <2>1, <3>1 DEF ProofProvider
    <3> QED BY <2>3, <3>3, <3>4
  <2>4. CASE i \notin dict
    BY <2>1, <2>2, <2>4 DEF ProofProvider
  <2> QED BY <2>3, <2>4
<1>4. f \in [1..Len(ps) -> ProofProvider]
  BY <1>2, <1>3
<1> HIDE DEF f
<1>5. f \in Seq(ProofProvider) /\ Len(f) = Len(ps) /\ DOMAIN f = DOMAIN ps
  BY <1>1, <1>4
<1> QED BY <1>1, <1>3, <1>5 DEF f

\* An empty cache satisfies the invariant.
LEMMA CacheInit == Init => CacheInv
<1> SUFFICES ASSUME Init PROVE CacheInv
  OBVIOUS
<1>1. providers = <<>> /\ Len(providers) = 0 /\ DOMAIN providers = {}
      /\ DOMAIN accesses = {} /\ accesses = <<>>
  BY DEF Init
<1>2. TypeOK
  <2>1. accesses \in [DOMAIN providers -> Nat]
    BY <1>1
  <2>2. held \in [Clients -> 0..Len(providers)] /\ loaded \in [Clients -> Nat]
    BY <1>1 DEF Init
  <2> QED BY <1>1, <2>1, <2>2 DEF Init, TypeOK
<1>3. IsFiniteSet(merkleDict) /\ Cardinality(merkleDict) = 0
  BY FS_EmptySet DEF Init
<1>4. CacheBounded /\ OlderCountedMore /\ CountedTwice
  BY <1>3, CacheAssumption DEF Init, CacheBounded, OlderCountedMore, CountedTwice
<1>5. VisitsNotInvented /\ LoadedCovered
  BY <1>1 DEF Init, VisitsNotInvented, LoadedCovered
<1> QED BY <1>2, <1>3, <1>4, <1>5 DEF CacheInv

\* Counting a call in a dictionary keeps the ages in order and counts no visit.
LEMMA HitStep ==
    ASSUME CacheInv, NEW c \in Clients, NEW i \in merkleDict, Hit(c, i)
    PROVE  CacheInv'
<1>1. TypeOK /\ Len(providers) \in Nat /\ DOMAIN providers = 1..Len(providers)
  BY ProviderTypes DEF CacheInv
<1>2. /\ UNCHANGED <<merkleDict, accesses, loaded>>
      /\ calls' = calls + 1
      /\ loaded[c] = 0
      /\ held' = [held EXCEPT ![c] = i]
      /\ providers' = Counted(providers, merkleDict)
  BY DEF Hit, Give, Idle
<1>3. /\ providers' \in Seq(ProofProvider)
      /\ Len(providers') = Len(providers)
      /\ DOMAIN providers' = DOMAIN providers
      /\ \A j \in DOMAIN providers :
             /\ providers'[j].root = providers[j].root
             /\ providers'[j].visits = providers[j].visits
             /\ j \in merkleDict =>
                    providers'[j].totalVisits = providers[j].totalVisits + 1
  BY <1>1, <1>2, CountedFacts DEF TypeOK
<1>4. merkleDict \subseteq DOMAIN providers /\ i \in 0..Len(providers)
  BY <1>1 DEF TypeOK
<1>5. TypeOK'
  <2>1. held' \in [Clients -> 0..Len(providers)]
    BY <1>1, <1>2, <1>4 DEF TypeOK
  <2> QED BY <1>1, <1>2, <1>3, <2>1 DEF TypeOK
<1>6. ASSUME NEW j \in merkleDict
      PROVE  /\ providers'[j].root = providers[j].root
             /\ providers'[j].totalVisits = providers[j].totalVisits + 1
             /\ providers[j].totalVisits \in Nat
  BY <1>1, <1>3, <1>4, ProviderTypes DEF ProofProvider
<1>7. IsFiniteSet(merkleDict') /\ CacheBounded'
  BY <1>2, <1>6 DEF CacheInv, CacheBounded
<1>8. OlderCountedMore'
  BY <1>2, <1>6 DEF CacheInv, OlderCountedMore
<1>9. CountedTwice'
  BY <1>2, <1>6 DEF CacheInv, CountedTwice
<1>10. VisitsNotInvented'
  BY <1>2, <1>3 DEF CacheInv, VisitsNotInvented
<1>11. LoadedCovered'
  BY <1>1, <1>2 DEF CacheInv, LoadedCovered, TypeOK
<1> QED BY <1>5, <1>7, <1>8, <1>9, <1>10, <1>11 DEF CacheInv

\* The dictionary after the clean up is within its bound, although the new
\* provider entered it first.
LEMMA CleanUpBounds ==
    ASSUME NEW ps, NEW dict, NEW new, NEW after, IsFiniteSet(dict),
           Cardinality(dict) <= maxCached, CleanedUp(ps, dict \cup {new}, after)
    PROVE  /\ IsFiniteSet(after) /\ Cardinality(after) <= maxCached
           /\ after \subseteq dict \cup {new}
<1> DEFINE full == dict \cup {new}
<1>1. /\ IsFiniteSet(full)
      /\ Cardinality(full) = IF new \in dict THEN Cardinality(dict) ELSE Cardinality(dict) + 1
  BY FS_AddElement
<1>2. Cardinality(dict) \in Nat /\ maxCached \in Nat
  BY FS_CardinalityType, CacheAssumption
<1>3. CASE Cardinality(full) > maxCached
  <2>1. PICK i \in full : after = full \ {i}
    BY <1>3 DEF CleanedUp
  <2>2. IsFiniteSet(after) /\ Cardinality(after) = Cardinality(full) - 1
    <3> HIDE DEF full
    <3> QED BY <1>1, <2>1, FS_RemoveElement
  <2> QED BY <1>1, <1>2, <2>1, <2>2
<1>4. CASE ~(Cardinality(full) > maxCached)
  <2>1. after = full
    BY <1>4 DEF CleanedUp
  <2> QED BY <1>1, <1>2, <1>4, <2>1
<1> QED BY <1>3, <1>4

\* A new provider is the youngest, has no visits beyond the one it starts
\* with, and has a root that no cached one has.
LEMMA MissStep ==
    ASSUME CacheInv, NEW c \in Clients, NEW root \in StoredRoots,
           {i \in merkleDict : providers[i].root = root} = {}, Miss(c, root)
    PROVE  CacheInv'
<1> DEFINE n == Len(providers)
           first == [root |-> root, visits |-> 1, totalVisits |-> 1]
           created == Append(providers, first)
<1>1. TypeOK /\ n \in Nat /\ DOMAIN providers = 1..n /\ merkleDict \subseteq 1..n
  BY ProviderTypes DEF CacheInv, TypeOK
<1>2. /\ loaded[c] = 0 /\ UNCHANGED loaded
      /\ calls' = calls + 1
      /\ CleanedUp(created, merkleDict \cup {n + 1}, merkleDict')
      /\ providers' = Counted(created, merkleDict')
      /\ held' = [held EXCEPT ![c] = n + 1]
      /\ accesses' = Append(accesses, 0)
  BY DEF Miss, Give, Idle
<1>3. first \in ProofProvider
  BY CacheAssumption DEF ProofProvider
<1>4. /\ created \in Seq(ProofProvider) /\ Len(created) = n + 1
      /\ \A i \in 1..n : created[i] = providers[i]
      /\ created[n + 1] = first
      /\ DOMAIN created = 1..(n + 1)
  <2> HIDE DEF first
  <2> QED BY <1>1, <1>3 DEF TypeOK
<1>5. /\ providers' \in Seq(ProofProvider) /\ Len(providers') = n + 1
      /\ DOMAIN providers' = 1..(n + 1)
      /\ \A i \in 1..(n + 1) :
             /\ providers'[i].root = created[i].root
             /\ providers'[i].visits = created[i].visits
             /\ providers'[i].totalVisits = IF i \in merkleDict' THEN created[i].totalVisits + 1
                                            ELSE created[i].totalVisits
  <2> HIDE DEF created
  <2> QED BY <1>2, <1>4, CountedFacts
<1> HIDE DEF created
<1>6. /\ IsFiniteSet(merkleDict') /\ Cardinality(merkleDict') <= maxCached
      /\ merkleDict' \subseteq merkleDict \cup {n + 1}
  <2>1. IsFiniteSet(merkleDict) /\ Cardinality(merkleDict) <= maxCached
    BY DEF CacheInv, CacheBounded
  <2>2. CleanedUp(created, merkleDict \cup {n + 1}, merkleDict')
    BY <1>2
  <2>3. ASSUME NEW new, NEW after, CleanedUp(created, merkleDict \cup {new}, after)
        PROVE  /\ IsFiniteSet(after) /\ Cardinality(after) <= maxCached
               /\ after \subseteq merkleDict \cup {new}
    BY <2>1, <2>3, CleanUpBounds
  <2> HIDE DEF n
  <2> QED BY <2>2, <2>3, Zenon
<1>7. ASSUME NEW i \in merkleDict', i # n + 1
      PROVE  /\ i \in merkleDict /\ i \in 1..n
             /\ providers'[i].root = providers[i].root
             /\ providers'[i].totalVisits = providers[i].totalVisits + 1
             /\ providers[i].totalVisits \in Nat /\ providers[i].totalVisits >= 2
             /\ providers[i].root # root
  <2>1. i \in merkleDict /\ i \in 1..n
    BY <1>1, <1>6, <1>7
  <2>2. providers[i] \in ProofProvider
    BY <1>1, <2>1, ProviderTypes
  <2>3. i \in 1..(n + 1)
    BY <1>1, <2>1
  <2>4. providers[i].totalVisits >= 2
    BY <2>1 DEF CacheInv, CountedTwice
  <2> HIDE DEF n
  <2> QED BY <1>4, <1>5, <2>1, <2>2, <2>3, <2>4 DEF ProofProvider
<1>8. /\ n + 1 \in 1..(n + 1) /\ providers'[n + 1].root = root /\ providers'[n + 1].visits = 1
      /\ n + 1 \in merkleDict' => providers'[n + 1].totalVisits = 2
  <2>1. n + 1 \in 1..(n + 1)
    BY <1>1
  <2> HIDE DEF n
  <2> QED BY <1>4, <1>5, <2>1
<1>9. accesses' \in [1..(n + 1) -> Nat] /\ accesses'[n + 1] = 0
      /\ \A i \in 1..n : accesses'[i] = accesses[i]
  <2>1. accesses \in [1..n -> Nat]
    BY <1>1 DEF TypeOK
  <2>2. accesses \in Seq(Nat) /\ Len(accesses) = n
    BY <1>1, <2>1
  <2> HIDE DEF n
  <2>3. accesses' \in Seq(Nat) /\ Len(accesses') = n + 1
    BY <1>2, <2>2
  <2>4. accesses'[n + 1] = 0 /\ \A i \in 1..n : accesses'[i] = accesses[i]
    BY <1>1, <1>2, <2>2
  <2>5. accesses' \in [1..(n + 1) -> Nat]
    BY <1>1, <2>3
  <2> QED BY <2>4, <2>5
<1>10. held \in [Clients -> 0..n] /\ loaded \in [Clients -> Nat]
  BY <1>1 DEF TypeOK
<1> HIDE DEF n
<1>11. TypeOK'
  <2>1. held' \in [Clients -> 0..(n + 1)]
    <3>1. \A d \in Clients : held'[d] \in 0..(n + 1)
      BY <1>1, <1>2, <1>10
    <3> QED BY <1>2, <1>10, <3>1
  <2>2. merkleDict' \subseteq 1..(n + 1)
    BY <1>1, <1>6
  <2>3. calls' \in Nat
    BY <1>1, <1>2 DEF TypeOK
  <2> QED BY <1>2, <1>5, <1>9, <1>10, <2>1, <2>2, <2>3 DEF TypeOK
<1>12. CacheBounded'
  <2> SUFFICES ASSUME NEW i \in merkleDict', NEW j \in merkleDict',
                      providers'[i].root = providers'[j].root
               PROVE  i = j
    BY <1>6 DEF CacheBounded
  <2>1. CASE i = n + 1 /\ j # n + 1
    BY <1>7, <1>8, <2>1
  <2>2. CASE i # n + 1 /\ j = n + 1
    BY <1>7, <1>8, <2>2
  <2>3. CASE i # n + 1 /\ j # n + 1
    BY <1>7, <2>3 DEF CacheInv, CacheBounded
  <2> QED BY <2>1, <2>2, <2>3
<1>13. OlderCountedMore'
  <2> SUFFICES ASSUME NEW i \in merkleDict', NEW j \in merkleDict', i < j
               PROVE  providers'[i].totalVisits > providers'[j].totalVisits
    BY DEF OlderCountedMore
  <2>1. i # n + 1
    <3>1. i \in 1..(n + 1) /\ j \in 1..(n + 1)
      BY <1>1, <1>6
    <3> QED BY <1>1, <3>1
  <2>2. CASE j = n + 1
    BY <1>7, <1>8, <2>1, <2>2
  <2>3. CASE j # n + 1
    BY <1>7, <2>1, <2>3 DEF CacheInv, OlderCountedMore
  <2> QED BY <2>2, <2>3
<1>14. CountedTwice'
  BY <1>7, <1>8 DEF CountedTwice
<1>15. VisitsNotInvented'
  <2> SUFFICES ASSUME NEW i \in 1..(n + 1)
               PROVE  providers'[i].visits <= 1 + accesses'[i]
    BY <1>5 DEF VisitsNotInvented
  <2>1. CASE i = n + 1
    BY <1>8, <1>9, <2>1
  <2>2. CASE i # n + 1
    <3>1. i \in 1..n
      BY <1>1, <2>2
    <3>2. providers[i].visits <= 1 + accesses[i]
      BY <1>1, <3>1 DEF CacheInv, VisitsNotInvented
    <3> QED BY <1>4, <1>5, <1>9, <3>1, <3>2
  <2> QED BY <2>1, <2>2
<1>16. LoadedCovered'
  <2> SUFFICES ASSUME NEW d \in Clients, loaded'[d] # 0
               PROVE  held'[d] # 0 /\ loaded'[d] <= 1 + accesses'[held'[d]]
    BY DEF LoadedCovered
  <2>1. d # c /\ held'[d] = held[d] /\ loaded'[d] = loaded[d]
    BY <1>2, <1>10
  <2>2. held[d] # 0 /\ loaded[d] <= 1 + accesses[held[d]]
    BY <2>1 DEF CacheInv, LoadedCovered
  <2>3. held[d] \in 1..n
    BY <1>1, <1>10, <2>2
  <2> QED BY <1>9, <2>1, <2>2, <2>3
<1> QED BY <1>6, <1>11, <1>12, <1>13, <1>14, <1>15, <1>16 DEF CacheInv

\* A root that cannot be loaded takes the client's provider away, and a client
\* that asks for one is not in the middle of a visit.
LEMMA UnresolvedStep ==
    ASSUME CacheInv, NEW c \in Clients, Unresolved(c)
    PROVE  CacheInv'
<1>1. /\ loaded[c] = 0 /\ held' = [held EXCEPT ![c] = 0] /\ calls' = calls + 1
      /\ UNCHANGED <<providers, merkleDict, loaded, accesses>>
  BY DEF Unresolved, Idle
<1>2. TypeOK'
  BY <1>1 DEF CacheInv, TypeOK
<1>3. LoadedCovered'
  BY <1>1 DEF CacheInv, TypeOK, LoadedCovered
<1> QED BY <1>1, <1>2, <1>3 DEF CacheInv, CacheBounded, OlderCountedMore, CountedTwice,
                                VisitsNotInvented

\* What a client loads was there.
LEMMA LoadStep ==
    ASSUME CacheInv, NEW c \in Clients, LoadVisits(c)
    PROVE  CacheInv'
<1>1. /\ held[c] # 0 /\ loaded' = [loaded EXCEPT ![c] = providers[held[c]].visits]
      /\ UNCHANGED <<providers, merkleDict, held, calls, accesses>>
  BY DEF LoadVisits
<1>2. held[c] \in DOMAIN providers /\ TypeOK
  BY <1>1, ProviderTypes DEF CacheInv, TypeOK
<1>3. providers[held[c]].visits \in Nat /\ providers[held[c]].visits <= 1 + accesses[held[c]]
  BY <1>2, ProviderTypes DEF ProofProvider, CacheInv, VisitsNotInvented
<1>4. TypeOK'
  BY <1>1, <1>2, <1>3 DEF TypeOK
<1>5. LoadedCovered'
  BY <1>1, <1>2, <1>3 DEF CacheInv, TypeOK, LoadedCovered
<1> QED BY <1>1, <1>4, <1>5 DEF CacheInv, CacheBounded, OlderCountedMore, CountedTwice,
                                VisitsNotInvented

\* A visit is stored with its access, so a store that overwrites another one
\* may lose visits and never adds any.
LEMMA StoreStep ==
    ASSUME CacheInv, NEW c \in Clients, StoreVisits(c)
    PROVE  CacheInv'
<1> DEFINE h == held[c]
<1>1. /\ loaded[c] # 0
      /\ providers' = [providers EXCEPT ![h].visits = loaded[c] + 1]
      /\ loaded' = [loaded EXCEPT ![c] = 0]
      /\ accesses' = [accesses EXCEPT ![h] = @ + 1]
      /\ UNCHANGED <<merkleDict, held, calls>>
  BY DEF StoreVisits
<1>2. h # 0 /\ loaded[c] <= 1 + accesses[h]
  BY <1>1 DEF CacheInv, LoadedCovered
<1>3. /\ TypeOK /\ h \in DOMAIN providers /\ loaded[c] \in Nat
      /\ Len(providers) \in Nat /\ DOMAIN providers = 1..Len(providers)
      /\ accesses \in [DOMAIN providers -> Nat]
  BY <1>2, ProviderTypes DEF CacheInv, TypeOK
<1> HIDE DEF h
<1>4. /\ DOMAIN providers' = DOMAIN providers
      /\ \A i \in DOMAIN providers :
             /\ providers'[i] \in ProofProvider
             /\ providers'[i].root = providers[i].root
             /\ providers'[i].totalVisits = providers[i].totalVisits
             /\ providers'[i].visits = IF i = h THEN loaded[c] + 1 ELSE providers[i].visits
  <2>1. DOMAIN providers' = DOMAIN providers
    BY <1>1
  <2>2. ASSUME NEW i \in DOMAIN providers
        PROVE  /\ providers'[i] \in ProofProvider
               /\ providers'[i].root = providers[i].root
               /\ providers'[i].totalVisits = providers[i].totalVisits
               /\ providers'[i].visits = IF i = h THEN loaded[c] + 1 ELSE providers[i].visits
    <3>1. providers[i] \in ProofProvider
      BY <1>3, ProviderTypes
    <3>2. CASE i = h
      <4>1. providers'[i] = [providers[i] EXCEPT !.visits = loaded[c] + 1]
        BY <1>1, <1>3, <3>2
      <4> QED BY <1>3, <3>1, <3>2, <4>1 DEF ProofProvider
    <3>3. CASE i # h
      BY <1>1, <3>1, <3>3
    <3> QED BY <3>2, <3>3
  <2> QED BY <2>1, <2>2
<1>5. TypeOK'
  <2>1. providers' \in [1..Len(providers) -> ProofProvider]
    BY <1>1, <1>3, <1>4
  <2>2. providers' \in Seq(ProofProvider) /\ Len(providers') = Len(providers)
    BY <1>3, <2>1
  <2>3. accesses' \in [DOMAIN providers -> Nat]
    BY <1>1, <1>3
  <2>4. loaded' \in [Clients -> Nat]
    BY <1>1, <1>3 DEF TypeOK
  <2> QED BY <1>1, <1>3, <1>4, <2>2, <2>3, <2>4 DEF TypeOK
<1>6. merkleDict \subseteq DOMAIN providers
  BY <1>3 DEF TypeOK
<1>7. IsFiniteSet(merkleDict') /\ CacheBounded' /\ OlderCountedMore' /\ CountedTwice'
  BY <1>1, <1>4, <1>6 DEF CacheInv, CacheBounded, OlderCountedMore, CountedTwice
<1>8. \A i \in DOMAIN providers :
          accesses'[i] = IF i = h THEN accesses[i] + 1 ELSE accesses[i]
  BY <1>1, <1>3
<1>9. VisitsNotInvented'
  <2> SUFFICES ASSUME NEW i \in DOMAIN providers
               PROVE  providers'[i].visits <= 1 + accesses'[i]
    BY <1>4 DEF VisitsNotInvented
  <2>1. providers[i].visits <= 1 + accesses[i] /\ accesses[i] \in Nat
    BY <1>3 DEF CacheInv, VisitsNotInvented
  <2>2. CASE i = h
    BY <1>2, <1>3, <1>4, <1>8, <2>1, <2>2
  <2>3. CASE i # h
    BY <1>4, <1>8, <2>1, <2>3
  <2> QED BY <2>2, <2>3
<1>10. LoadedCovered'
  <2> SUFFICES ASSUME NEW d \in Clients, loaded'[d] # 0
               PROVE  held[d] # 0 /\ loaded'[d] <= 1 + accesses'[held[d]]
    BY <1>1 DEF LoadedCovered
  <2>1. loaded \in [Clients -> Nat] /\ held \in [Clients -> 0..Len(providers)]
    BY <1>3 DEF TypeOK
  <2>2. loaded'[d] = loaded[d]
    BY <1>1, <2>1
  <2>3. held[d] # 0 /\ loaded[d] <= 1 + accesses[held[d]]
    BY <2>2 DEF CacheInv, LoadedCovered
  <2>4. held[d] \in DOMAIN providers /\ accesses[held[d]] \in Nat /\ loaded[d] \in Nat
    BY <1>3, <2>1, <2>3
  <2>5. accesses'[held[d]] \in {accesses[held[d]], accesses[held[d]] + 1}
    BY <1>8, <2>4
  <2> QED BY <2>2, <2>3, <2>4, <2>5
<1> QED BY <1>5, <1>7, <1>9, <1>10 DEF CacheInv

\* Every step of a client keeps the cache's invariant.
LEMMA CacheNext == CacheInv /\ [Next]_vars => CacheInv'
<1> SUFFICES ASSUME CacheInv, [Next]_vars PROVE CacheInv'
  OBVIOUS
<1>1. ASSUME NEW c \in Clients, NEW root \in Roots, GetProofProvider(c, root)
      PROVE  CacheInv'
  BY <1>1, HitStep, MissStep, UnresolvedStep DEF GetProofProvider
<1>2. ASSUME NEW c \in Clients, LoadVisits(c)
      PROVE  CacheInv'
  BY <1>2, LoadStep
<1>3. ASSUME NEW c \in Clients, StoreVisits(c)
      PROVE  CacheInv'
  BY <1>3, StoreStep
<1>4. CASE UNCHANGED vars
  BY <1>4 DEF vars, CacheInv, TypeOK, CacheBounded, OlderCountedMore, CountedTwice,
              VisitsNotInvented, LoadedCovered
<1> QED BY <1>1, <1>2, <1>3, <1>4 DEF Next, Finished

\* The invariant holds in every state of the cache.
LEMMA CacheInvariant == Spec => []CacheInv
BY CacheInit, CacheNext, PTL DEF Spec

-----------------------------------------------------------------------------
\* Every client's provider, and every cached one, exists, whatever was evicted.
THEOREM CacheTypeCorrect == Spec => []TypeOK
<1>1. CacheInv => TypeOK
  BY DEF CacheInv
<1> QED BY <1>1, CacheInvariant, PTL

\* For any capacity, any number of clients and any interleaving of their visits:
\* the dictionary never holds more than maxCached trees nor two for one root.
THEOREM CacheStaysBounded == Spec => []CacheBounded
<1>1. CacheInv => CacheBounded
  BY DEF CacheInv
<1> QED BY <1>1, CacheInvariant, PTL

\* Whatever is evicted and loaded again, of two cached trees the older one has
\* counted more calls: totalVisits orders the trees by age.
THEOREM AgesInOrder == Spec => []OlderCountedMore
<1>1. CacheInv => OlderCountedMore
  BY DEF CacheInv
<1> QED BY <1>1, CacheInvariant, PTL

\* However the unlocked visits++ of any number of clients interleave, no tree
\* has more visits than were made to it.
THEOREM NoInventedVisits == Spec => []VisitsNotInvented
<1>1. CacheInv => VisitsNotInvented
  BY DEF CacheInv
<1> QED BY <1>1, CacheInvariant, PTL
=============================================================================
