------------------------------ MODULE MCSerial ------------------------------
(***************************************************************************)
(* Scheduler implements SerialExecution: the validated prefix is the part  *)
(* of the block that has been executed.                                    *)
(***************************************************************************)
EXTENDS MCScheduler

Serial == INSTANCE SerialExecution WITH
    txs       <- block,
    count     <- Cardinality(Final),
    store     <- IF phase = "done" THEN parent
                 ELSE [k \in Keys |-> GetLatestBeforeIndex(mv, parent, Cardinality(Final), k)],
    responses <- [t \in Txs |-> IF t \in Final THEN resp[t] ELSE Absent],
    committed <- phase = "done"

\* The scheduler implements serial execution: block, store and responses move
\* exactly as if transactions had been delivered in order, and the parent
\* store ProcessAll leaves is the one the last transaction leaves.
ImplementsSerial == Serial!SerialSpec

\* Blocks of four with more conflicts than workers.
ConflictingPrograms == {"toggle", "branch", "chase"}
ConflictingBlocks == [Txs -> ConflictingPrograms]

=============================================================================
