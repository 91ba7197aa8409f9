----------------------------- MODULE Scheduler ------------------------------
(***************************************************************************)
(* The optimistic scheduler of tasks/scheduler.go: it executes the         *)
(* transactions of a block in parallel against a multi-version store,      *)
(* validates what they read, re-executes those that read something stale   *)
(* and finally writes the latest versions to the parent store.             *)
(*                                                                         *)
(* ProcessAll alternates two phases, each closed by a WaitGroup: execute   *)
(* (at most Workers tasks at a time) and validate (all tasks from the      *)
(* first one not validated).  Within a phase the tasks interleave; one     *)
(* step of a task is one access to state that other tasks can see.         *)
(***************************************************************************)
EXTENDS Transactions, FiniteSets

CONSTANTS
    Blocks,             \* the blocks considered, a subset of [Txs -> Programs]
    Parents,            \* the parent stores considered, a subset of [Keys -> V]
    Workers,            \* size of the execution worker pool
    MaximumIterations   \* passes before falling back to sequential execution

ASSUME SchedulerAssumption ==
    /\ Blocks \subseteq [Txs -> Programs]
    /\ Parents \subseteq [Keys -> V]
    /\ Workers \in Nat \ {0}
    /\ MaximumIterations \in Nat

VARIABLES
    block,          \* the transactions of the block, by index
    parent,         \* the parent store
    phase,          \* where ProcessAll is
    iterations,     \* completed passes
    synchronous,    \* the scheduler fell back to sequential execution
    toExecute,      \* tasks handed to executeAll and not started yet
    startIdx,       \* first task of the current validation pass
    status,         \* task.Status
    deps,           \* task.Dependencies
    resp,           \* task.Response, Absent for nil
    incarnation,    \* task.Incarnation
    mv,             \* multiVersionMap: key -> index -> item
    wkeys,          \* txWritesetKeys, {} for no entry
    rset,           \* txReadSets, NoSet for no entry
    pc,             \* what the goroutine working on a task does next
    rs,             \* readset of the task's VersionIndexedStore
    tr,             \* local states and writesets the transaction went through
    abort,          \* first index in the task's abort channel, or NoTx
    todo,           \* keys a loop of the task's goroutine still has to visit
    wait,           \* dependencies dependenciesValidated still has to visit
    valid,          \* result of findConflicts so far
    conflicts       \* conflicting indices found so far

loopVars == <<phase, iterations, synchronous, toExecute, startIdx>>
taskVars == <<status, deps, resp, incarnation>>
storeVars == <<mv, wkeys, rset>>
visVars == <<rs, tr, abort>>
checkVars == <<wait, valid, conflicts>>
vars == <<block, parent, loopVars, taskVars, storeVars, pc, visVars, todo, checkVars>>

Statuses == {"pending", "executed", "aborted", "validated", "waiting"}
ExecPcs == {"run", "publish"}
CheckPcs == {"check", "invalidate", "deps"}

TypeOK ==
    /\ block \in Blocks
    /\ parent \in [Keys -> V]
    /\ phase \in {"loop", "execute", "validate", "done"}
    /\ iterations \in Nat
    /\ synchronous \in BOOLEAN
    /\ toExecute \subseteq Txs
    /\ startIdx \in Txs
    /\ status \in [Txs -> Statuses]
    /\ deps \in [Txs -> SUBSET Txs]
    /\ resp \in [Txs -> V \cup {Absent}]
    /\ incarnation \in [Txs -> Nat]
    /\ mv \in [Keys -> [Txs -> Items]]
    /\ wkeys \in [Txs -> SUBSET Keys]
    /\ rset \in [Txs -> [Keys -> V \cup {Absent}]]
    /\ pc \in [Txs -> ExecPcs \cup CheckPcs \cup {"idle"}]
    /\ rs \in [Txs -> [Keys -> V \cup {Absent}]]
    /\ tr \in [Txs -> Seq([loc : Locs, ws : [Keys -> V \cup {Absent}]])]
    /\ abort \in [Txs -> Txs \cup {NoTx}]
    /\ todo \in [Txs -> SUBSET Keys]
    /\ wait \in [Txs -> SUBSET Txs]
    /\ valid \in [Txs -> BOOLEAN]
    /\ conflicts \in [Txs -> SUBSET Txs]

-----------------------------------------------------------------------------
(* Tasks *)

Last(s) == s[Len(s)]
Written(t) == {k \in Keys : Last(tr[t]).ws[k] # Absent}
AllValidated == \A t \in Txs : status[t] = "validated"
FirstNonValidated == CHOOSE t \in Txs : /\ status[t] # "validated"
                                        /\ \A u \in 0 .. t - 1 : status[u] = "validated"

\* deliverTxTask.Reset and Increment.
ResetAndIncrement(t) ==
    /\ status' = [status EXCEPT ![t] = "pending"]
    /\ resp' = [resp EXCEPT ![t] = Absent]
    /\ incarnation' = [incarnation EXCEPT ![t] = @ + 1]

Init ==
    /\ block \in Blocks
    /\ parent \in Parents
    /\ phase = "loop" /\ iterations = 0 /\ synchronous = FALSE
    /\ toExecute = Txs /\ startIdx = 0
    /\ status = [t \in Txs |-> "pending"]
    /\ deps = [t \in Txs |-> {}]
    /\ resp = [t \in Txs |-> Absent]
    /\ incarnation = [t \in Txs |-> 0]
    /\ mv = [k \in Keys |-> [t \in Txs |-> Absent]]
    /\ wkeys = [t \in Txs |-> {}]
    /\ rset = [t \in Txs |-> NoSet]
    /\ pc = [t \in Txs |-> "idle"]
    /\ rs = [t \in Txs |-> NoSet]
    /\ tr = [t \in Txs |-> << >>]
    /\ abort = [t \in Txs |-> NoTx]
    /\ todo = [t \in Txs |-> {}]
    /\ wait = [t \in Txs |-> {}]
    /\ valid = [t \in Txs |-> TRUE]
    /\ conflicts = [t \in Txs |-> {}]

-----------------------------------------------------------------------------
(* ProcessAll *)

\* Faulty variant: the fallback starts over with the whole block.
BeginExecute_StartsOver ==
    /\ phase = "loop" /\ ~AllValidated
    /\ phase' = "execute"
    /\ synchronous' = (synchronous \/ iterations >= MaximumIterations)
    /\ toExecute' = IF iterations >= MaximumIterations THEN Txs ELSE toExecute
    /\ UNCHANGED <<block, parent, iterations, startIdx, taskVars, storeVars, pc,
                   visVars, todo, checkVars>>

\* One turn of the loop: hand the tasks to re-execute to executeAll, or,
\* after MaximumIterations passes, everything from the first task that is
\* not validated.
BeginExecute ==
    /\ phase = "loop" /\ ~AllValidated
    /\ phase' = "execute"
    /\ synchronous' = (synchronous \/ iterations >= MaximumIterations)
    /\ toExecute' = IF iterations >= MaximumIterations
                    THEN FirstNonValidated .. N - 1 ELSE toExecute
    /\ UNCHANGED <<block, parent, iterations, startIdx, taskVars, storeVars, pc,
                   visVars, todo, checkVars>>

\* Faulty variant: a task once validated is not looked at again.
BeginValidate_SkipsValidated ==
    /\ phase = "execute" /\ toExecute = {} /\ \A t \in Txs : pc[t] = "idle"
    /\ phase' = "validate"
    /\ startIdx' = FirstNonValidated
    /\ pc' = [t \in Txs |-> IF status[t] # "validated" THEN "check" ELSE "idle"]
    /\ valid' = [t \in Txs |-> TRUE]
    /\ conflicts' = [t \in Txs |-> {}]
    /\ todo' = [t \in Txs |-> {k \in Keys : rset[t][k] # Absent}]
    /\ UNCHANGED <<block, parent, iterations, synchronous, toExecute, taskVars,
                   storeVars, visVars, wait>>

\* executeAll's WaitGroup is released and validateAll starts one goroutine
\* for every task from the first that is not validated.  There is one: no
\* task becomes validated while tasks execute.
BeginValidate ==
    /\ phase = "execute" /\ toExecute = {} /\ \A t \in Txs : pc[t] = "idle"
    /\ phase' = "validate"
    /\ startIdx' = FirstNonValidated
    /\ pc' = [t \in Txs |-> IF t >= FirstNonValidated THEN "check" ELSE "idle"]
    /\ valid' = [t \in Txs |-> TRUE]
    /\ conflicts' = [t \in Txs |-> {}]
    /\ todo' = [t \in Txs |-> {k \in Keys : rset[t][k] # Absent}]
    /\ UNCHANGED <<block, parent, iterations, synchronous, toExecute, taskVars,
                   storeVars, visVars, wait>>

EndValidate ==
    /\ phase = "validate" /\ \A t \in Txs : pc[t] = "idle"
    /\ phase' = "loop"
    /\ iterations' = iterations + 1
    /\ UNCHANGED <<block, parent, synchronous, toExecute, startIdx, taskVars,
                   storeVars, pc, visVars, todo, checkVars>>

\* WriteLatestToStore.
Finish ==
    /\ phase = "loop" /\ AllValidated
    /\ phase' = "done"
    /\ parent' = [k \in Keys |-> GetLatestNonEstimate(mv, parent, k)]
    /\ UNCHANGED <<block, iterations, synchronous, toExecute, startIdx, taskVars,
                   storeVars, pc, visVars, todo, checkVars>>

-----------------------------------------------------------------------------
(* executeTask *)

\* Faulty variant: the fallback still runs tasks side by side.
MayStart_AnyOrder(t) == Cardinality({u \in Txs : pc[u] \in ExecPcs}) < Workers

\* Whose turn it is: any task while a worker is free; in synchronous mode
\* the tasks run inline, one after the other.
MayStart(t) ==
    IF synchronous
    THEN (\A u \in Txs : pc[u] = "idle") /\ \A u \in toExecute : t <= u
    ELSE Cardinality({u \in Txs : pc[u] \in ExecPcs}) < Workers

\* invalidateTask, for a task no other goroutine runs beside.
InvalidateAtOnce(t) ==
    /\ mv' = [k \in Keys |-> IF k \in wkeys[t] THEN [mv[k] EXCEPT ![t] = Estimate]
                                               ELSE mv[k]]
    /\ rset' = [rset EXCEPT ![t] = NoSet]

\* The task is reset if it has to be, and gets a fresh VersionIndexedStore.
StartTask(t) ==
    /\ phase = "execute" /\ t \in toExecute /\ MayStart(t)
    /\ toExecute' = toExecute \ {t}
    /\ IF synchronous /\ status[t] = "validated"
       THEN InvalidateAtOnce(t) ELSE UNCHANGED <<mv, rset>>
    /\ IF synchronous /\ status[t] # "pending"
       THEN ResetAndIncrement(t) ELSE UNCHANGED <<status, resp, incarnation>>
    /\ rs' = [rs EXCEPT ![t] = NoSet]
    /\ tr' = [tr EXCEPT ![t] = <<Begin(block[t])>>]
    /\ abort' = [abort EXCEPT ![t] = NoTx]
    /\ pc' = [pc EXCEPT ![t] = "run"]
    /\ UNCHANGED <<block, parent, phase, iterations, synchronous, startIdx, deps,
                   wkeys, todo, checkVars>>

\* Faulty variant: a read that finds an estimate waits for the value.
StoreOp_WaitsForEstimate(t) ==
    /\ pc[t] = "run" /\ abort[t] = NoTx
    /\ LET s   == Last(tr[t])
           op  == Op(block[t], s.loc)
           got == GetLatestBeforeIndex(mv, parent, t, op.key)
       IN  /\ op.type # "done"
           /\ IF op.type = "get" /\ s.ws[op.key] = Absent /\ rs[t][op.key] = Absent
              THEN /\ rs' = IF got = Estimate THEN rs ELSE [rs EXCEPT ![t][op.key] = got]
                   /\ tr' = IF got = Estimate THEN tr
                            ELSE [tr EXCEPT ![t] = Append(@, Step(block[t], s, rs'[t]))]
              ELSE /\ tr' = [tr EXCEPT ![t] = Append(@, Step(block[t], s, rs[t]))]
                   /\ rs' = rs
    /\ UNCHANGED <<block, parent, loopVars, taskVars, storeVars, pc, abort, todo, checkVars>>

\* The transaction's next store access (VersionIndexedStore.Get, Set and
\* Delete).  A read that finds an estimate puts the abort in the channel
\* and panics, which ends the transaction.
StoreOp(t) ==
    /\ pc[t] = "run" /\ abort[t] = NoTx
    /\ LET s   == Last(tr[t])
           op  == Op(block[t], s.loc)
           got == GetLatestBeforeIndex(mv, parent, t, op.key)
       IN  /\ op.type # "done"
           /\ IF op.type = "get" /\ s.ws[op.key] = Absent /\ rs[t][op.key] = Absent
              THEN IF got = Estimate
                   THEN /\ abort' = [abort EXCEPT ![t] = LatestBefore(mv, t, op.key)]
                        /\ UNCHANGED <<rs, tr>>
                   ELSE /\ rs' = [rs EXCEPT ![t][op.key] = got]
                        /\ tr' = [tr EXCEPT ![t] = Append(@, Step(block[t], s, rs'[t]))]
                        /\ UNCHANGED abort
              ELSE /\ tr' = [tr EXCEPT ![t] = Append(@, Step(block[t], s, rs[t]))]
                   /\ UNCHANGED <<rs, abort>>
    /\ UNCHANGED <<block, parent, loopVars, taskVars, storeVars, pc, todo, checkVars>>

\* deliverTx returned: the task is executed, or aborted if the channel holds
\* an abort, and removeOldWriteset takes the keys of its previous writeset.
TxReturns(t) ==
    /\ pc[t] = "run"
    /\ IF abort[t] # NoTx
       THEN /\ status' = [status EXCEPT ![t] = "aborted"]
            /\ deps' = [deps EXCEPT ![t] = @ \cup {abort[t]}]
            /\ UNCHANGED resp
       ELSE LET op == Op(block[t], Last(tr[t]).loc)
            IN  /\ op.type = "done"
                /\ status' = [status EXCEPT ![t] = "executed"]
                /\ resp' = [resp EXCEPT ![t] = op.resp]
                /\ UNCHANGED deps
    /\ wkeys' = [wkeys EXCEPT ![t] = {}]
    /\ todo' = [todo EXCEPT ![t] = wkeys[t] \cup Written(t)]
    /\ pc' = [pc EXCEPT ![t] = "publish"]
    /\ UNCHANGED <<block, parent, loopVars, incarnation, mv, rset, visVars, checkVars>>

\* removeOldWriteset removes the item of a key that is not written again.
\* (The stores of a block are updated one after the other, so a removal in
\* one may follow a write in another.)
RemoveOldWriteset(t) ==
    /\ pc[t] = "publish"
    /\ \E k \in todo[t] \ Written(t) :
         /\ mv' = [mv EXCEPT ![k][t] = Absent]
         /\ todo' = [todo EXCEPT ![t] = @ \ {k}]
    /\ UNCHANGED <<block, parent, loopVars, taskVars, wkeys, rset, pc, visVars, checkVars>>

\* One key of SetWriteset, or of SetEstimatedWriteset for an aborted task.
SetWriteset(t) ==
    /\ pc[t] = "publish"
    /\ \E k \in todo[t] \cap Written(t) :
         /\ mv' = [mv EXCEPT ![k][t] = IF abort[t] # NoTx THEN Estimate
                                                          ELSE Last(tr[t]).ws[k]]
         /\ todo' = [todo EXCEPT ![t] = @ \ {k}]
    /\ UNCHANGED <<block, parent, loopVars, taskVars, wkeys, rset, pc, visVars, checkVars>>

\* The keys are stored last, then the readset unless the task aborted.
PublishDone(t) ==
    /\ pc[t] = "publish" /\ todo[t] = {}
    /\ wkeys' = [wkeys EXCEPT ![t] = Written(t)]
    /\ rset' = IF abort[t] # NoTx THEN rset ELSE [rset EXCEPT ![t] = rs[t]]
    /\ pc' = [pc EXCEPT ![t] = "idle"]
    /\ UNCHANGED <<block, parent, loopVars, taskVars, mv, visVars, todo, checkVars>>

-----------------------------------------------------------------------------
(* validateTask *)

\* In synchronous mode validations run inline too, in index order.
MayCheck(t) == synchronous => \A u \in 0 .. t - 1 : pc[u] = "idle"

\* One key of checkReadsetAtIndex.
CheckReadset(t) ==
    /\ pc[t] = "check" /\ status[t] \in {"executed", "validated"} /\ MayCheck(t)
    /\ \E k \in todo[t] :
         LET c == CheckRead(mv, parent, t, k, rset[t][k])
         IN  /\ valid' = [valid EXCEPT ![t] = @ /\ c.ok]
             /\ conflicts' = [conflicts EXCEPT ![t] = @ \cup c.conflicts]
             /\ todo' = [todo EXCEPT ![t] = @ \ {k}]
    /\ UNCHANGED <<block, parent, loopVars, taskVars, storeVars, pc, visVars, wait>>

\* findConflicts is done: the readset is stale (invalidate), or valid; then
\* the task is validated unless it met an estimate.
CheckDone(t) ==
    /\ pc[t] = "check" /\ status[t] \in {"executed", "validated"} /\ todo[t] = {}
    /\ MayCheck(t)
    /\ IF valid[t]
       THEN /\ status' = IF conflicts[t] = {} THEN [status EXCEPT ![t] = "validated"]
                                              ELSE status
            /\ pc' = [pc EXCEPT ![t] = "idle"]
            /\ UNCHANGED todo
       ELSE /\ pc' = [pc EXCEPT ![t] = "invalidate"]
            /\ todo' = [todo EXCEPT ![t] = wkeys[t]]
            /\ UNCHANGED status
    /\ UNCHANGED <<block, parent, loopVars, deps, resp, incarnation, storeVars,
                   visVars, checkVars>>

\* invalidateTask turns the task's items into estimates one by one and
\* forgets its readset; then the conflicts become dependencies.
Invalidate(t) ==
    /\ pc[t] = "invalidate"
    /\ IF todo[t] # {}
       THEN /\ \E k \in todo[t] : /\ mv' = [mv EXCEPT ![k][t] = Estimate]
                                  /\ todo' = [todo EXCEPT ![t] = @ \ {k}]
            /\ UNCHANGED <<rset, deps, pc, wait>>
       ELSE /\ rset' = [rset EXCEPT ![t] = NoSet]
            /\ deps' = [deps EXCEPT ![t] = @ \cup conflicts[t]]
            /\ wait' = [wait EXCEPT ![t] = deps'[t]]
            /\ pc' = [pc EXCEPT ![t] = "deps"]
            /\ UNCHANGED <<mv, todo>>
    /\ UNCHANGED <<block, parent, loopVars, status, resp, incarnation, wkeys,
                   visVars, valid, conflicts>>

\* A waiting task only looks at its dependencies.
CheckWaiting(t) ==
    /\ pc[t] = "check" /\ status[t] = "waiting" /\ MayCheck(t)
    /\ wait' = [wait EXCEPT ![t] = deps[t]]
    /\ pc' = [pc EXCEPT ![t] = "deps"]
    /\ UNCHANGED <<block, parent, loopVars, taskVars, storeVars, visVars, todo,
                   valid, conflicts>>

\* Faulty variant: the task is reset but not collected in validateAll's result.
Rerun_ForgetsTask(t) ==
    /\ ResetAndIncrement(t)
    /\ toExecute' = toExecute
    /\ pc' = [pc EXCEPT ![t] = "idle"]

\* shouldRerun answered yes.
Rerun(t) ==
    /\ ResetAndIncrement(t)
    /\ toExecute' = toExecute \cup {t}
    /\ pc' = [pc EXCEPT ![t] = "idle"]

\* One dependency of dependenciesValidated: the first that is not validated
\* makes the task wait, and when all are the task is run again.
DependenciesValidated(t) ==
    /\ pc[t] = "deps"
    /\ IF wait[t] = {}
       THEN Rerun(t) /\ UNCHANGED wait
       ELSE \E d \in wait[t] :
              /\ IF status[d] = "validated"
                 THEN /\ wait' = [wait EXCEPT ![t] = @ \ {d}]
                      /\ UNCHANGED <<status, pc>>
                 ELSE /\ status' = [status EXCEPT ![t] = "waiting"]
                      /\ pc' = [pc EXCEPT ![t] = "idle"]
                      /\ UNCHANGED wait
              /\ UNCHANGED <<resp, incarnation, toExecute>>
    /\ UNCHANGED <<block, parent, phase, iterations, synchronous, startIdx, deps,
                   storeVars, visVars, todo, valid, conflicts>>

\* An aborted task is always run again.
RerunAborted(t) ==
    /\ pc[t] = "check" /\ status[t] \in {"aborted", "pending"} /\ MayCheck(t)
    /\ Rerun(t)
    /\ UNCHANGED <<block, parent, phase, iterations, synchronous, startIdx, deps,
                   storeVars, visVars, todo, checkVars>>

-----------------------------------------------------------------------------
ExecuteTask(t) == \/ StartTask(t) \/ StoreOp(t) \/ TxReturns(t)
                  \/ RemoveOldWriteset(t) \/ SetWriteset(t) \/ PublishDone(t)

ValidateTask(t) == \/ CheckReadset(t) \/ CheckDone(t) \/ Invalidate(t)
                   \/ CheckWaiting(t) \/ DependenciesValidated(t) \/ RerunAborted(t)

ProcessAll == BeginExecute \/ BeginValidate \/ EndValidate \/ Finish

Terminated == phase = "done" /\ UNCHANGED vars

Next == \/ ProcessAll
        \/ \E t \in Txs : ExecuteTask(t) \/ ValidateTask(t)
        \/ Terminated

Spec == Init /\ [][Next]_vars

\* A transaction returns, and the Go scheduler runs every runnable goroutine
\* eventually; all that is needed of it is that it does not stop altogether.
FairSpec == Spec /\ WF_vars(Next)

-----------------------------------------------------------------------------
(* Properties *)

\* The store transaction t runs on: what lower indices left in mv, over the
\* parent.
View(t) == [k \in Keys |-> GetLatestBeforeIndex(mv, parent, t, k)]

\* Task t is validated for good: validated, and not due for another look in
\* the current pass.
Settled(t) == status[t] = "validated" /\ (phase = "validate" => pc[t] = "idle")
Final == {t \in Txs : \A u \in 0 .. t : Settled(u)}

\* The items and the response of t are those of running t alone on the state
\* its predecessors left.
RanSerially(t) ==
    /\ IsRun(block[t], tr[t], View(t))
    /\ resp[t] = Op(block[t], Last(tr[t]).loc).resp
    /\ \A k \in Keys : mv[k][t] = Last(tr[t]).ws[k]

\* Every task in the validated prefix has the writes and the response of
\* serial execution, whatever the interleaving of executions, validations
\* and invalidations was (shouldRerun, scheduler.go:339-375).
PrefixIsSerial == phase # "done" => \A t \in Final : RanSerially(t)

\* What ProcessAll writes to the parent store is the outcome of executing the
\* block serially: every transaction ran serially, and no estimate or stale
\* version hides a final one from WriteLatestToStore (scheduler.go:329-331).
CommitIsSerial ==
    [][phase # "done" /\ phase' = "done" =>
         /\ \A t \in Txs : RanSerially(t)
         /\ \A k \in Keys : parent'[k] = GetLatestBeforeIndex(mv, parent, N, k)]_vars

KeepsPrefix == \A t \in Final : /\ t \in Final'
                                /\ resp'[t] = resp[t]
                                /\ \A k \in Keys : mv'[k][t] = mv[k][t]

\* The validated prefix never shrinks, and its items and responses never
\* change again: neither a concurrent validation nor the synchronous rerun
\* of scheduler.go:302-310 touches it.
PrefixIsStable == [][KeepsPrefix]_vars

\* Tasks wait only for tasks of lower index, so waiting tasks never wait for
\* each other (Dependencies is never cleared, scheduler.go:62-68).
DependenciesBelow == \A t \in Txs : deps[t] \subseteq 0 .. t - 1

\* Between passes the first task that is not validated is about to be rerun,
\* or waits for tasks that are all validated: it is never left executed but
\* unvalidated because of a stale estimate (scheduler.go:367-368).
HeadIsNotStuck ==
    phase = "loop" /\ ~AllValidated =>
        LET f == FirstNonValidated
        IN  f \in toExecute \/ (status[f] = "waiting" /\ \A d \in deps[f] : status[d] = "validated")

\* The sequential fallback needs one pass: no task aborts in it, and all of
\* them validate (scheduler.go:301-310).
FallbackTakesOnePass == iterations <= MaximumIterations + 1

\* "we won't actually get to this step if a previous task has already been
\* determined to be invalid, since we choose to fail fast"
\* (scheduler.go:346-347): no readset is checked after a lower task failed its
\* own check in the same pass.
FailsFast ==
    [][\A t \in Txs : pc[t] = "check" /\ todo'[t] # todo[t] /\ pc'[t] = "check" =>
         \A u \in startIdx .. t - 1 : valid[u]]_vars

\* "check if the value is the same as the latest value relateive to txIndex in
\* the multiversion store" (store.go:344): what a task of the validated prefix
\* read is what it would read now.
ReadsAreLatest ==
    phase # "done" =>
        \A t \in Final : \A k \in Keys : rset[t][k] # Absent => rset[t][k] = View(t)[k]

\* ProcessAll returns (the loop of scheduler.go:300-327 ends).
Terminates == <>(phase = "done")

=============================================================================
