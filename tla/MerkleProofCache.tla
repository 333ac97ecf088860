-------------------------- MODULE MerkleProofCache --------------------------
(***************************************************************************)
(* The cache of Merkle trees from which storage proofs are made            *)
(* (ethtrie_proof_cache.go, ethtrie_storage_proof.go).  Clients ask for    *)
(* the provider of a root, which is loaded if it is not cached, and then   *)
(* ask the provider for proofs.  The cache is under a lock, so             *)
(* GetProofProvider is one step.  A provider counts its visits without     *)
(* the lock: the counter is loaded in one step and stored in another, and  *)
(* an eviction in between reads it as it is.                               *)
(*                                                                         *)
(* Providers are named in the order they are created.  What a proof holds  *)
(* does not change the cache and is left out.                              *)
(***************************************************************************)
EXTENDS Integers, Sequences, FiniteSets

CONSTANTS
    Roots,          \* roots asked for
    StoredRoots,    \* those that the trie database resolves
    Clients,
    maxCached,
    MaxCalls        \* bound: calls of GetProofProvider and of a provider

ASSUME CacheAssumption ==
    StoredRoots \subseteq Roots /\ maxCached \in Nat /\ MaxCalls \in Nat

VARIABLES
    providers,      \* the ProofProvider objects
    merkleDict,     \* the cached ones
    held,           \* client -> provider it was given last, 0 if none
    loaded,         \* client -> visits it has loaded, 0 if it is not counting
    \* History, used by the bounds and the properties only:
    calls,          \* calls of GetProofProvider
    accesses        \* provider -> visits made to it

vars == <<providers, merkleDict, held, loaded, calls, accesses>>

ProofProvider == [root : Roots, visits : Nat, totalVisits : Nat]

Init ==
    /\ providers = <<>>
    /\ merkleDict = {}
    /\ held = [c \in Clients |-> 0]
    /\ loaded = [c \in Clients |-> 0]
    /\ calls = 0
    /\ accesses = <<>>

-----------------------------------------------------------------------------
(* GetProofProvider *)

\* i has a lower ratio of visits to totalVisits than j, or the same.
Colder(ps, i, j) ==
    ps[i].visits * ps[j].totalVisits <= ps[j].visits * ps[i].totalVisits

\* Mutant: one more provider is kept.
CleanedUpLate(ps, dict, after) ==
    IF Cardinality(dict) > maxCached + 1
    THEN \E i \in dict : after = dict \ {i} /\ \A j \in dict : Colder(ps, i, j)
    ELSE after = dict

\* The dictionary after clean up: one of the coldest is removed if it is full.
CleanedUp(ps, dict, after) ==
    IF Cardinality(dict) > maxCached
    THEN \E i \in dict : after = dict \ {i} /\ \A j \in dict : Colder(ps, i, j)
    ELSE after = dict

\* Mutant: only the provider returned counts the call.
CountedForOne(ps, dict) ==
    [i \in DOMAIN ps |-> IF dict # {} /\ i = Len(ps)
                         THEN [ps[i] EXCEPT !.totalVisits = @ + 1] ELSE ps[i]]

\* Mutant: totalVisits counts down.
CountedDown(ps, dict) ==
    [i \in DOMAIN ps |-> IF i \in dict THEN [ps[i] EXCEPT !.totalVisits = @ - 1]
                         ELSE ps[i]]

\* The call is counted in every cached provider.
Counted(ps, dict) ==
    [i \in DOMAIN ps |-> IF i \in dict THEN [ps[i] EXCEPT !.totalVisits = @ + 1]
                         ELSE ps[i]]

Give(c, i) ==
    /\ held' = [held EXCEPT ![c] = i]
    /\ calls' = calls + 1
    /\ UNCHANGED loaded

Idle(c) == loaded[c] = 0 /\ calls < MaxCalls

Hit(c, i) ==
    /\ Idle(c)
    /\ providers' = Counted(providers, merkleDict)
    /\ Give(c, i)
    /\ UNCHANGED <<merkleDict, accesses>>

\* The new provider enters the dictionary before the clean up.
Miss(c, root) ==
    LET new == Len(providers) + 1
        created == Append(providers, [root |-> root, visits |-> 1, totalVisits |-> 1])
    IN  /\ Idle(c)
        /\ CleanedUp(created, merkleDict \cup {new}, merkleDict')
        /\ providers' = Counted(created, merkleDict')
        /\ Give(c, new)
        /\ accesses' = Append(accesses, 0)

\* The root cannot be loaded: an error, and nothing is cached or counted.
Unresolved(c) ==
    /\ Idle(c)
    /\ held' = [held EXCEPT ![c] = 0]
    /\ calls' = calls + 1
    /\ UNCHANGED <<providers, merkleDict, loaded, accesses>>

GetProofProvider(c, root) ==
    LET cached == {i \in merkleDict : providers[i].root = root}
    IN  \/ \E i \in cached : Hit(c, i)
        \/ cached = {} /\ root \in StoredRoots /\ Miss(c, root)
        \/ cached = {} /\ root \notin StoredRoots /\ Unresolved(c)

-----------------------------------------------------------------------------
(* Root and GetProof of a provider: both begin with visits++ *)

LoadVisits(c) ==
    /\ held[c] # 0 /\ loaded[c] = 0
    /\ accesses[held[c]] < MaxCalls
    /\ loaded' = [loaded EXCEPT ![c] = providers[held[c]].visits]
    /\ UNCHANGED <<providers, merkleDict, held, calls, accesses>>

\* Mutant: the visit is counted twice.
StoreVisitsTwice(c) ==
    /\ loaded[c] # 0
    /\ providers' = [providers EXCEPT ![held[c]].visits = loaded[c] + 2]
    /\ loaded' = [loaded EXCEPT ![c] = 0]
    /\ accesses' = [accesses EXCEPT ![held[c]] = @ + 1]
    /\ UNCHANGED <<merkleDict, held, calls>>

StoreVisits(c) ==
    /\ loaded[c] # 0
    /\ providers' = [providers EXCEPT ![held[c]].visits = loaded[c] + 1]
    /\ loaded' = [loaded EXCEPT ![c] = 0]
    /\ accesses' = [accesses EXCEPT ![held[c]] = @ + 1]
    /\ UNCHANGED <<merkleDict, held, calls>>

\* The end of a behaviour that has used up the calls it may make.
Finished == calls = MaxCalls /\ UNCHANGED vars

Next ==
    \/ \E c \in Clients, root \in Roots : GetProofProvider(c, root)
    \/ \E c \in Clients : LoadVisits(c)
    \/ \E c \in Clients : StoreVisits(c)
    \/ Finished

Spec == Init /\ [][Next]_vars

-----------------------------------------------------------------------------
(* Properties *)

\* Every variable holds a value of its kind.
TypeOK ==
    /\ providers \in Seq(ProofProvider)
    /\ merkleDict \subseteq DOMAIN providers
    /\ held \in [Clients -> 0..Len(providers)]
    /\ loaded \in [Clients -> Nat]
    /\ calls \in Nat
    /\ accesses \in [DOMAIN providers -> Nat]

\* The dictionary holds at most maxCached trees, one for each root, although
\* a tree enters it before another is removed.
CacheBounded ==
    /\ Cardinality(merkleDict) <= maxCached
    /\ \A i, j \in merkleDict : providers[i].root = providers[j].root => i = j

\* Of two cached trees the older has counted more calls, so that totalVisits
\* does measure how long a tree has been cached.
OlderCountedMore ==
    \A i, j \in merkleDict :
        i < j => providers[i].totalVisits > providers[j].totalVisits

\* Visits that race with each other may be lost but are never invented: a
\* tree is not kept for visits that nobody made.
VisitsNotInvented ==
    \A i \in DOMAIN providers : providers[i].visits <= 1 + accesses[i]

-----------------------------------------------------------------------------
(* What comments say of the program, where it does not hold *)

\* ethtrie_storage_proof.go: visits is the number of accesses.
VisitsCounted ==
    \A i \in DOMAIN providers : providers[i].visits = 1 + accesses[i]

\* ethtrie_proof_cache.go: the most recently used trees are kept in memory, so
\* the tree that GetProofProvider has just returned is one of them.
MostRecentKept ==
    [][\A c \in Clients :
           held'[c] # held[c] /\ held'[c] # 0 => held'[c] \in merkleDict']_vars
=============================================================================
