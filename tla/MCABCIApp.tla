------------------------------ MODULE MCABCIApp ------------------------------
(***************************************************************************)
(* Small instances of a node: its application behind ABCI with the state   *)
(* store, and its process under cosmovisor through upgrades.  The two      *)
(* share no state, and each is explored by itself while the other rests.   *)
(***************************************************************************)
EXTENDS StateStore, Cosmovisor

CONSTANTS a1, a2

VARIABLE part       \* the one that is explored

\* One account sends two transactions in turn, of which the second one fails;
\* the other account has only its genesis.
SmallTxs == {[acc |-> a1, seq |-> 0, ok |-> TRUE], [acc |-> a1, seq |-> 1, ok |-> FALSE]}

MCInit ==
    /\ part \in {"abci", "upgrade"}
    /\ NodeInit
    /\ CosmovisorInit /\ (part = "abci" => minor = {})

MCNext ==
    /\ UNCHANGED part
    /\ \/ part = "abci" /\ NodeNext /\ UNCHANGED cosmovisorVars
       \/ part = "upgrade" /\ CosmovisorNext /\ UNCHANGED nodeVars

In(p, step) == part = p /\ step

MCSpec ==
    /\ MCInit /\ [][MCNext]_<<part, nodeVars, cosmovisorVars>>
    /\ WF_nodeVars(In("abci", ~refused /\ InitChain /\ UNCHANGED storeVars))
    /\ WF_nodeVars(In("abci", ~refused /\ NodeFinalize))
    /\ WF_nodeVars(In("abci", ~refused /\ NodeCommit))
    /\ WF_nodeVars(In("abci", ~refused /\ StateStoreCommit))
    /\ WF_cosmovisorVars(In("upgrade", SupervisorSteps))
    /\ WF_cosmovisorVars(In("upgrade", NodeRuns \/ NodeHalts))
    /\ WF_cosmovisorVars(In("upgrade", StartCosmovisor))
    /\ WF_cosmovisorVars(In("upgrade", ProvideBinary))

\* With finitely many crashes the chain reaches every height, and the state
\* store has every version, unless the store refuses to open.
NodeCatchesUp == <>(part = "upgrade" \/ committed.height = MaxHeight \/ refused) /\ HistoryCatchesUp

=============================================================================
