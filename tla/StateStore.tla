----------------------------- MODULE StateStore -----------------------------
(***************************************************************************)
(* The store of storev2 below BaseApp: every flush hands the changes of a  *)
(* version to a goroutine that applies them, store by store, to a state    *)
(* store for historical queries.  The goroutine lags behind the commits    *)
(* and its queue is lost with the process; at the next start the state     *)
(* store is caught up from the log of the commitment store.                *)
(*                                                                         *)
(* Each account of ABCIApp is in a store of its own.                       *)
(***************************************************************************)
EXTENDS ABCIApp

CONSTANTS
    Capacity        \* of pendingChanges

ASSUME StateStoreAssumption == Capacity \in Nat \ {0}

VARIABLES
    pending,    \* pendingChanges: [version, writes]
    inHand,     \* what StateStoreCommit is applying, likewise
    history,    \* the state store: the writes to each account, by version
    log,        \* the commitment store's changes of each version
    refused     \* NewStore has panicked

storeVars == <<pending, inHand, history, log, refused>>
nodeVars == <<vars, storeVars>>

NoWrites == [a \in {} |-> Absent]
Nothing == [version |-> 0, writes |-> NoWrites]

NodeInit ==
    /\ Init
    /\ pending = <<>>
    /\ inHand = Nothing
    /\ history = [a \in Accounts |-> [v \in {} |-> Absent]]
    /\ log = <<>>
    /\ refused = FALSE

-----------------------------------------------------------------------------
(* The handlers, with what they flush.                                     *)

Changes(old, new) == [a \in {b \in Accounts : old[b] # new[b]} |-> new[a]]

\* flush: the send waits while the channel is full.
Flush ==
    LET cs == Changes(working, working')
    IN IF cs = NoWrites THEN UNCHANGED pending
       ELSE /\ Len(pending) < Capacity
            /\ pending' = Append(pending, [version |-> committed.height + 1, writes |-> cs])

NodeFinalize == Finalize /\ Flush /\ UNCHANGED <<inHand, history, log, refused>>

NodeCommit ==
    /\ Commit /\ Flush
    /\ log' = Append(log, Changes(committed.data, committed'.data))
    /\ UNCHANGED <<inHand, history, refused>>

-----------------------------------------------------------------------------
(* StateStoreCommit.                                                       *)

\* Faulty variant: a set whose version is committed already stays in the queue.
TakeUncommitted ==
    /\ pending # <<>> /\ inHand = Nothing
    /\ Head(pending).version > committed.height
    /\ inHand' = Head(pending) /\ pending' = Tail(pending)
    /\ UNCHANGED <<vars, history, log, refused>>

TakePending ==
    /\ pending # <<>> /\ inHand = Nothing
    /\ inHand' = Head(pending) /\ pending' = Tail(pending)
    /\ UNCHANGED <<vars, history, log, refused>>

\* The versions of an account with one more.
Put(h, v, x) == [w \in DOMAIN h \cup {v} |-> IF w = v THEN x ELSE h[w]]

ApplyChangeset(a) ==
    /\ a \in DOMAIN inHand.writes
    /\ history' = [history EXCEPT ![a] = Put(@, inHand.version, inHand.writes[a])]
    /\ LET rest == [b \in DOMAIN inHand.writes \ {a} |-> inHand.writes[b]]
       IN inHand' = IF rest = NoWrites THEN Nothing ELSE [inHand EXCEPT !.writes = rest]
    /\ UNCHANGED <<vars, pending, log, refused>>

StateStoreCommit == TakePending \/ \E a \in Accounts : ApplyChangeset(a)

-----------------------------------------------------------------------------
(* NewStore.                                                               *)

\* The highest version that has been written to the state store.
LatestVersion == Max({0} \cup UNION {DOMAIN history[a] : a \in Accounts})

\* Faulty variant: the latest version is taken to be complete.
RecoverAfter ==
    [a \in Accounts |->
        LET vs == {v \in DOMAIN log : v > LatestVersion /\ a \in DOMAIN log[v]}
        IN [v \in DOMAIN history[a] \cup vs |-> IF v \in vs THEN log[v][a] ELSE history[a][v]]]

\* RecoverStateStore: the log is applied from the state store's latest version,
\* which may be there in part only.
RecoverStateStore ==
    [a \in Accounts |->
        LET vs == {v \in DOMAIN log : v >= LatestVersion /\ a \in DOMAIN log[v]}
        IN [v \in DOMAIN history[a] \cup vs |-> IF v \in vs THEN log[v][a] ELSE history[a][v]]]

\* The process starts again; a state store without any version beside a
\* commitment store with one is taken for one that was enabled later.
NodeRestart ==
    /\ Restart
    /\ pending' = <<>> /\ inHand' = Nothing
    /\ IF LatestVersion = 0 /\ committed.height > 0
       THEN refused' = TRUE /\ UNCHANGED history
       ELSE history' = RecoverStateStore /\ UNCHANGED refused
    /\ UNCHANGED log

NodeNext ==
    /\ ~refused
    /\ \/ InitChain /\ UNCHANGED storeVars
       \/ \E tx \in Txs : CheckTx(tx) /\ UNCHANGED storeVars
       \/ \E m \in {"prepare", "process"}, block \in Blocks, runs \in BOOLEAN :
              Proposal(m, block, runs) /\ UNCHANGED storeVars
       \/ NodeFinalize
       \/ NodeCommit
       \/ NodeRestart
       \/ StateStoreCommit

\* Consensus keeps calling the handlers that take the chain on, and the
\* goroutine goes on while it has something to apply.
NodeFairness ==
    /\ WF_nodeVars(~refused /\ InitChain /\ UNCHANGED storeVars)
    /\ WF_nodeVars(~refused /\ NodeFinalize)
    /\ WF_nodeVars(~refused /\ NodeCommit)
    /\ WF_nodeVars(~refused /\ StateStoreCommit)

NodeSpec == NodeInit /\ [][NodeNext]_nodeVars /\ NodeFairness

-----------------------------------------------------------------------------
(* Properties.                                                             *)

\* A read of the state store at a version: the last write up to it.
ReadAt(a, v) ==
    LET vs == {w \in DOMAIN history[a] : w <= v}
    IN IF vs = {} THEN Absent ELSE history[a][Max(vs)]

\* The latest version is read from the live tree, others from the state store.
CacheMultiStoreWithVersion(v) ==
    IF v = committed.height THEN working ELSE [a \in Accounts |-> ReadAt(a, v)]

\* Well-typedness; the queue is bounded and the log is as long as the chain.
StateStoreTypeOK ==
    /\ Len(pending) <= Capacity
    /\ \A i \in DOMAIN pending : pending[i].version \in 0 .. MaxHeight /\ pending[i].writes # NoWrites
    /\ inHand.version \in 0 .. MaxHeight
    /\ \A a \in Accounts : DOMAIN history[a] \subseteq 0 .. MaxHeight
    /\ Len(log) = committed.height
    /\ refused \in BOOLEAN

\* What the state store holds of a version is what the decided blocks up to it
\* made: changes are sent before the commit, and after a crash the block is
\* replayed and its changes are sent again.
HistoryIsDecided ==
    \A a \in Accounts : \A v \in DOMAIN history[a] :
        v <= Len(chain) /\ history[a][v] = Decided(v)[a]

\* A query below the latest height is answered with the state of its height as
\* soon as no change up to it waits to be applied, also after crashes that lost
\* the queue and the rest of a version that was applied in part.
NothingIsMissing ==
    \A v \in 1 .. committed.height - 1 :
        /\ ~refused
        /\ \A i \in DOMAIN pending : pending[i].version > v
        /\ inHand.version > v \/ inHand = Nothing
        => CacheMultiStoreWithVersion(v) = Decided(v)

\* What the state store holds of a version is what the decided blocks made, and
\* nothing is missing once no change waits to be applied.
HistoryIsExact == TypeOK /\ StateStoreTypeOK /\ HistoryIsDecided /\ NothingIsMissing

\* The state store gets every version that is committed, if the node may start.
HistoryCatchesUp ==
    committed.height = MaxHeight ~>
        \/ refused
        \/ /\ committed.height = MaxHeight
           /\ \A v \in 1 .. MaxHeight : \A a \in Accounts : ReadAt(a, v) = Decided(v)[a]

=============================================================================
