-------------------------- MODULE SerialExecution ---------------------------
(***************************************************************************)
(* What ProcessAll promises: the block is executed one transaction after   *)
(* the other, in index order.  A step executes the next few transactions   *)
(* (a validation can settle several at once); Commit hands the resulting   *)
(* store and the responses to the caller.                                  *)
(***************************************************************************)
EXTENDS Transactions

VARIABLES
    txs,        \* the transactions of the block
    store,      \* the store after the transactions executed so far
    count,      \* how many have been executed
    responses,  \* their responses, Absent for those not executed
    committed   \* the store has been handed over

svars == <<txs, store, count, responses, committed>>

\* Run a program to its end on a store.
RECURSIVE RunFrom(_, _, _)
RunFrom(p, s, st) ==
    IF Op(p, s.loc).type = "done" THEN s ELSE RunFrom(p, Step(p, s, st), st)

Overlay(st, ws) == [k \in Keys |-> IF ws[k] = Absent THEN st[k] ELSE ws[k]]

\* Store and responses after executing transactions c .. d - 1.
RECURSIVE Deliver(_, _, _, _)
Deliver(st, rsp, c, d) ==
    IF c = d THEN [store |-> st, responses |-> rsp]
    ELSE LET s == RunFrom(txs[c], Begin(txs[c]), st)
         IN  Deliver(Overlay(st, s.ws), [rsp EXCEPT ![c] = Op(txs[c], s.loc).resp], c + 1, d)

SerialInit ==
    /\ txs \in [Txs -> Programs]
    /\ store \in [Keys -> V]
    /\ count = 0
    /\ responses = [t \in Txs |-> Absent]
    /\ committed = FALSE

Execute ==
    /\ ~committed
    /\ \E d \in count + 1 .. N :
         /\ count' = d
         /\ LET r == Deliver(store, responses, count, d)
            IN  store' = r.store /\ responses' = r.responses
    /\ UNCHANGED <<txs, committed>>

Commit ==
    /\ ~committed /\ count = N
    /\ committed' = TRUE
    /\ UNCHANGED <<txs, store, count, responses>>

SerialNext == Execute \/ Commit

SerialSpec == SerialInit /\ [][SerialNext]_svars

=============================================================================
