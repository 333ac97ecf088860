-------------------------- MODULE EthStorageWriter --------------------------
(***************************************************************************)
(* The writer of the Ethereum storage (storage/ethstorage): accounts, each *)
(* with its fields (balance, nonce, code) and a storage trie, and the      *)
(* world trie over the encoded accounts.  The precommit updates the tries  *)
(* in memory, the commit moves them to the trie database.                  *)
(*                                                                         *)
(* The root hash of a trie is modelled by the contents of the trie.  An    *)
(* encoded account is its fields and its storage root: the contents of     *)
(* all its paths.  Once an account is in accountCache it stays there, and  *)
(* before that no other holder of it exists, so there is one Account       *)
(* object per address.                                                     *)
(***************************************************************************)
EXTENDS StateCells

CONSTANTS
    Accounts,
    AccountOf,      \* path -> account
    StoragePaths    \* the paths kept in storage tries; the rest are fields

ASSUME AccountAssumption ==
    /\ AccountOf \in [Paths -> Accounts]
    /\ StoragePaths \subseteq Paths
    /\ Accounts \cap Paths = {}

VARIABLES
    ethIndex,       \* EthIndexer: account -> cells imported for it
    ethAccounts,    \* contents of the Account objects: path -> value
    trieDirty,      \* Account.trieDirty
    worldTrie,      \* account -> encoded account, Nil if absent
    ethFiled,       \* number of indexers in EthStorageWriter.buffer
    ethDirty,       \* accounts of those indexers
    trieDB,         \* storage and world roots that the trie database resolves
    blockRoots      \* EthWorldState.blockRoots: version -> world root

ethVars == <<ethIndex, ethAccounts, trieDirty, worldTrie, ethFiled, ethDirty,
             trieDB, blockRoots>>

\* int64(-1) as uint64: the version of every indexer.
NoVersion == -1

PathsOf(a) == {p \in Paths : AccountOf[p] = a}

\* The encoded account with the contents c, and its storage root.
Encode(c, a) == [p \in PathsOf(a) |-> c[p]]

StorageRoot(acct) == [p \in DOMAIN acct \cap StoragePaths |-> acct[p]]

IsEmptyRoot(root) == \A p \in DOMAIN root : root[p] = Nil

\* Preload: an account that is not found is created empty.
EmptyAccounts == [p \in Paths |-> Nil]

EthInit ==
    /\ ethIndex = [a \in Accounts |-> {}]
    /\ ethAccounts = EmptyAccounts
    /\ trieDirty = [a \in Accounts |-> FALSE]
    /\ worldTrie = [a \in Accounts |-> Nil]
    /\ ethFiled = 0
    /\ ethDirty = {}
    /\ trieDB = {}
    /\ blockRoots = <<>>

EthTypeOK ==
    /\ ethIndex \in [Accounts -> SUBSET CellIds]
    /\ ethAccounts \in [Paths -> Value \cup {Nil}]
    /\ trieDirty \in [Accounts -> BOOLEAN]
    /\ DOMAIN worldTrie = Accounts
    /\ \A a \in Accounts :
           worldTrie[a] \in [PathsOf(a) -> Value \cup {Nil}] \cup {Nil}
    /\ ethFiled \in Nat
    /\ ethDirty \subseteq Accounts
    /\ DOMAIN blockRoots \subseteq Nat \cup {NoVersion}

\* The new cells are those of the heap as Import leaves it.
EthImport(new) ==
    /\ ethIndex' = [a \in Accounts |->
           ethIndex[a] \cup {i \in new : AccountOf[cells'[i].path] = a}]
    /\ UNCHANGED <<ethAccounts, trieDirty, worldTrie, ethFiled, ethDirty,
                   trieDB, blockRoots>>

\* UpdateAccountStorageTrie: a field takes the first transition to it, a
\* storage key the last.
EthWritten(live, p) ==
    IF p \in StoragePaths THEN Newest(At(live, p)) ELSE Oldest(At(live, p))

\* The world trie with the accounts written to it, their contents being c.
WriteWorldTrie(accts, c) ==
    [a \in Accounts |-> IF a \in accts THEN Encode(c, a) ELSE worldTrie[a]]

\* Mutant: the accounts are encoded before their transitions are applied.
EthPrecommitStaleEncoding ==
    LET touched == {a \in Accounts : ethIndex[a] # {}}
        live == UNION {Attached(ethIndex[a]) : a \in Accounts}
    IN  /\ ethAccounts' = [p \in Paths |->
               IF At(live, p) # {} THEN cells[EthWritten(live, p)].val
                                   ELSE ethAccounts[p]]
        /\ worldTrie' = WriteWorldTrie(touched, ethAccounts)
        /\ trieDirty' = [a \in Accounts |-> a \in touched]
        /\ ethFiled' = ethFiled + 1
        /\ ethDirty' = ethDirty \cup touched
        /\ ethIndex' = [a \in Accounts |-> {}]
        /\ UNCHANGED <<trieDB, blockRoots>>

\* An account with no transition left after the discarded cells are removed
\* is still cached, filed and written to the world trie.
EthPrecommit ==
    LET touched == {a \in Accounts : ethIndex[a] # {}}
        live == UNION {Attached(ethIndex[a]) : a \in Accounts}
        ofAccount(a) == {i \in live : AccountOf[cells[i].path] = a}
    IN  /\ ethAccounts' = [p \in Paths |->
               IF At(live, p) # {} THEN cells[EthWritten(live, p)].val
                                   ELSE ethAccounts[p]]
        /\ trieDirty' = [a \in Accounts |->
               IF ofAccount(a) # {}
               THEN \E i \in ofAccount(a) : cells[i].path \in StoragePaths
               ELSE trieDirty[a]]
        /\ worldTrie' = WriteWorldTrie(touched, ethAccounts')
        /\ ethFiled' = ethFiled + 1
        /\ ethDirty' = ethDirty \cup touched
        /\ ethIndex' = [a \in Accounts |-> {}]
        /\ UNCHANGED <<trieDB, blockRoots>>

\* Merge takes the highest version of the indexers filed, 0 if there is none.
MergedVersion == IF ethFiled = 0 THEN 0 ELSE NoVersion

\* EthShardTrieDB.Commit: the nodes of the tries are moved to the database.
Committed(tries) == trieDB \cup tries

\* Account.Commit: the storage tries of the accounts filed that are dirty.
CommittedStorage ==
    {StorageRoot(Encode(ethAccounts, a)) : a \in {b \in ethDirty : trieDirty[b]}}

\* Mutant: only the world trie is committed.
EthCommitWorldOnly(block) ==
    /\ blockRoots' = [v \in DOMAIN blockRoots \cup {MergedVersion} |->
           IF v = MergedVersion THEN worldTrie ELSE blockRoots[v]]
    /\ trieDB' = Committed({worldTrie})
    /\ ethFiled' = 0
    /\ ethDirty' = {}
    /\ UNCHANGED <<ethIndex, ethAccounts, trieDirty, worldTrie>>

\* Account.Commit of the accounts filed, then the world trie.  The block
\* number the committer passes is not used.
EthCommit(block) ==
    /\ blockRoots' = [v \in DOMAIN blockRoots \cup {MergedVersion} |->
           IF v = MergedVersion THEN worldTrie ELSE blockRoots[v]]
    /\ trieDB' = Committed(CommittedStorage \cup {worldTrie})
    /\ trieDirty' = [a \in Accounts |-> trieDirty[a] /\ a \notin ethDirty]
    /\ ethFiled' = 0
    /\ ethDirty' = {}
    /\ UNCHANGED <<ethIndex, ethAccounts, worldTrie>>

(* Reading a world trie w again from the database (LoadEthTrieByRoot) *)

\* An account is found if it is in the trie and its storage trie can be opened.
GetAccount(w, a) ==
    LET resolved == IsEmptyRoot(StorageRoot(w[a])) \/ StorageRoot(w[a]) \in trieDB
    IN  IF w[a] = Nil THEN Nil ELSE IF resolved THEN w[a] ELSE Nil

\* Fields come from the account, the rest from its storage trie: either way
\* the contents of the encoded account.
AccountGet(acct, p) == acct[p]

EthGet(w, p) ==
    LET acct == GetAccount(w, AccountOf[p])
    IN  IF acct = Nil THEN Nil ELSE AccountGet(acct, p)
=============================================================================
