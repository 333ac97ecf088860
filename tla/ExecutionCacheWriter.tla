------------------------ MODULE ExecutionCacheWriter ------------------------
(***************************************************************************)
(* The writer of the execution cache (state/cache/execution_store_*.go):   *)
(* the overlay in which the next generation of the same block finds what   *)
(* the previous generations wrote.                                         *)
(***************************************************************************)
EXTENDS StateCells

VARIABLES
    execBuffer,     \* ExecutionCacheIndexer.buffer, never emptied by Precommit
    localCells      \* ExecutionStateStore.localCells: path -> cell, Nil if none

execVars == <<execBuffer, localCells>>

ExecInit ==
    /\ execBuffer = {}
    /\ localCells = [p \in Paths |-> Nil]

ExecTypeOK ==
    /\ execBuffer \subseteq CellIds
    /\ localCells \in [Paths -> CellIds \cup {Nil}]

ExecImport(new) ==
    /\ execBuffer' = execBuffer \cup new
    /\ UNCHANGED localCells

\* Mutant: the buffer is entered from its end, so the oldest write stays.
ExecPrecommitReversed ==
    LET buffer == Attached(execBuffer)
    IN  /\ execBuffer' = buffer
        /\ localCells' = [p \in Paths |->
               IF At(buffer, p) # {} THEN Oldest(At(buffer, p)) ELSE localCells[p]]

\* Drop the discarded cells, then enter the whole buffer in the cache in order.
ExecPrecommit ==
    LET buffer == Attached(execBuffer)
    IN  /\ execBuffer' = buffer
        /\ localCells' = [p \in Paths |->
               IF At(buffer, p) # {} THEN Newest(At(buffer, p)) ELSE localCells[p]]

\* Mutant: the overlay is not cleared.
ExecCommitKeepsOverlay == execBuffer' = {} /\ UNCHANGED localCells

\* A new indexer, and the overlay is cleared for the next block.
ExecCommit ==
    /\ execBuffer' = {}
    /\ localCells' = [p \in Paths |-> Nil]
=============================================================================
