----------------------------- MODULE MVIterator -----------------------------
(***************************************************************************)
(* Iterators over the multi-version store: how a VersionIndexedStore walks *)
(* a range of keys while lower transactions publish theirs, what it keeps  *)
(* of the walk, and how validateIterator decides later whether the walk    *)
(* would still be the same.                                                *)
(*                                                                         *)
(* The transaction of the highest index, Me, reads a key, opens one        *)
(* iterator, walks it to the end or to an early stop, and may write a key  *)
(* afterwards.  What handlers write while they walk stays in the cache     *)
(* stores runTx puts above the VersionIndexedStore and reaches it when the *)
(* handlers have returned (baseapp.go:945-1016), hence after the walk.     *)
(* The lower transactions do what Scheduler lets them do to the store:     *)
(* publish a writeset or estimates while tasks execute, turn their items   *)
(* into estimates while tasks are validated.  Keys are the keys of the     *)
(* range that is iterated, in the order of the natural numbers.  Nobody    *)
(* reads what Me publishes, so its own items are left out; which           *)
(* dependencies a task waits for, and the sequential fallback, are         *)
(* Scheduler's.                                                            *)
(***************************************************************************)
EXTENDS MultiVersion, Sequences, SequencesExt

CONSTANTS
    WriteSets,      \* what lower transactions write, a subset of [Keys -> V \cup {Absent}]
    Parents,        \* the parent stores considered, a subset of [Keys -> V]
    Iterations,     \* the iterating transactions considered
    MaxPasses       \* bound on the passes of ProcessAll that are explored

NoKey == 0
Me == N - 1
Lower == 0 .. N - 2

\* An iterating transaction: its writes before the iterator is created, the
\* key it gets before that, the direction, after how many keys it stops,
\* whether it looks at values, and the key it writes after the iteration.  It
\* looks at one key at least, if there is one: gaskv asks an iterator for
\* Valid as soon as it is made (gaskv/store.go:150).
IterationType == [before : [Keys -> V \cup {Absent}], first : Keys \cup {NoKey},
                  ascending : BOOLEAN, limit : Nat \ {0}, values : BOOLEAN,
                  after : Keys \cup {NoKey}]

ASSUME IteratorAssumption ==
    /\ Keys \subseteq Nat \ {NoKey}
    /\ WriteSets \subseteq [Keys -> V \cup {Absent}]
    /\ Parents \subseteq [Keys -> V]
    /\ Iterations \subseteq IterationType
    /\ MaxPasses \in Nat

VARIABLES
    tx,         \* the iterating transaction
    parent,     \* the parent store
    phase,      \* "execute" or "validate", or "done"
    pass,       \* completed passes
    alone,      \* in this pass Me executes and no lower transaction does
    due,        \* tasks whose validation in this pass has not begun
    mv, wkeys,  \* multiVersionMap and txWritesetKeys
    status,     \* of the tasks
    lws,        \* what a lower transaction is publishing
    todo,       \* keys a lower transaction, or Me's readset check, has to visit
    pc,         \* what Me does next
    ws, rs,     \* writeset and readset of Me's VersionIndexedStore
    tracker,    \* iterationTracker
    upto,       \* next index CollectIteratorItems looks at
    cache, par, \* keys the memory iterator and the parent iterator have ahead
    seen,       \* what Me's transaction got to see
    walk,       \* validateIterator's goroutine
    valid,      \* what ValidateTransactionState found so far
    conflicts

lowerVars == <<mv, wkeys, lws>>
execVars == <<ws, rs, tracker, upto, cache, par, seen>>
checkVars == <<walk, valid, conflicts>>
vars == <<tx, parent, phase, pass, alone, due, lowerVars, status, todo, pc, execVars, checkVars>>

Written(w) == {k \in Keys : w[k] # Absent}
Present == {k \in Keys : parent[k] # Nil}

\* The key a merge iterator is at, given the keys its two halves have ahead.
First(S) == CHOOSE k \in S : \A l \in S : IF tx.ascending THEN k <= l ELSE k >= l

Trackers == [ws : [Keys -> V \cup {Absent}], keys : SUBSET Keys, stop : Keys \cup {NoKey}]
NoTracker == [ws |-> NoSet, keys |-> {}, stop |-> NoKey]

\* The goroutine of validateIterator: where it is, its copy of the tracker, the
\* keys its iterators have ahead, how many expected keys it found, how many
\* aborts and which verdict are in the two channels.
NoWalk == [pc |-> "none", of |-> NoTracker, cache |-> {}, par |-> {}, found |-> 0,
           aborts |-> 0, verdict |-> "none"]

MyStatuses == {"pending", "executed", "aborted", "validated", "waiting"}
\* What a lower task is doing to the store, if anything: SetWriteset,
\* SetEstimatedWriteset or InvalidateWriteset.
Publishing == {"publish", "estimate"}
LowerStatuses == MyStatuses \cup Publishing \cup {"invalidate"}

TypeOK ==
    /\ tx \in Iterations /\ parent \in Parents
    /\ phase \in {"execute", "validate", "done"} /\ pass \in 0 .. MaxPasses
    /\ alone \in BOOLEAN /\ due \subseteq Txs
    /\ mv \in [Keys -> [Txs -> Items]]
    /\ wkeys \in [Lower -> SUBSET Keys]
    /\ status \in [Txs -> LowerStatuses] /\ status[Me] \in MyStatuses
    /\ lws \in [Lower -> [Keys -> V \cup {Absent, Estimate}]]
    /\ todo \in [Txs -> SUBSET Keys]
    /\ pc \in {"idle", "get", "collect", "iterate", "after", "select", "readset"}
    /\ ws \in [Keys -> V \cup {Absent}] /\ rs \in [Keys -> V \cup {Absent}]
    /\ tracker \in Trackers
    /\ upto \in Txs /\ cache \subseteq Keys /\ par \subseteq Keys
    /\ seen \in Seq(Keys \X (V \cup {Absent}))
    /\ walk \in [pc : {"none", "walk", "panic", "end"}, of : Trackers, cache : SUBSET Keys,
                 par : SUBSET Keys, found : Nat, aborts : 0 .. 1,
                 verdict : {"none", "valid", "invalid"}]
    /\ valid \in BOOLEAN /\ conflicts \subseteq Lower

Init ==
    /\ tx \in Iterations /\ parent \in Parents
    /\ phase = "execute" /\ pass = 0 /\ alone = FALSE /\ due = {}
    /\ mv = [k \in Keys |-> [t \in Txs |-> Absent]]
    /\ wkeys = [t \in Lower |-> {}]
    /\ status = [t \in Txs |-> "pending"]
    /\ lws = [t \in Lower |-> NoSet]
    /\ todo = [t \in Txs |-> {}]
    /\ pc = "idle" /\ ws = NoSet /\ rs = NoSet /\ tracker = NoTracker
    /\ upto = 0 /\ cache = {} /\ par = {} /\ seen = << >>
    /\ walk = NoWalk /\ valid = TRUE /\ conflicts = {}

-----------------------------------------------------------------------------
(* The lower transactions, as Scheduler has them.  They are checked against *)
(* transactions below them that are not modelled, so any check may fail.    *)

\* The transaction returned, or aborted and leaves estimates.
Return(j) ==
    /\ phase = "execute" /\ pass < MaxPasses /\ status[j] = "pending"
    /\ \E w \in WriteSets, s \in Publishing :
         /\ lws' = [lws EXCEPT ![j] = [k \in Keys |-> IF s = "estimate" /\ w[k] # Absent
                                                      THEN Estimate ELSE w[k]]]
         /\ status' = [status EXCEPT ![j] = s]
    /\ wkeys' = [wkeys EXCEPT ![j] = {}]
    /\ todo' = [todo EXCEPT ![j] = wkeys[j] \cup Written(lws'[j])]
    /\ UNCHANGED <<tx, parent, phase, pass, alone, due, mv, pc, execVars, checkVars>>

\* One key of removeOldWriteset, SetWriteset or SetEstimatedWriteset, in any
\* order; the keys become known to iterators when all are done.
Publish(j) ==
    /\ status[j] \in Publishing
    /\ IF todo[j] # {}
       THEN /\ \E k \in todo[j] : /\ mv' = [mv EXCEPT ![k][j] = lws[j][k]]
                                  /\ todo' = [todo EXCEPT ![j] = @ \ {k}]
            /\ UNCHANGED <<wkeys, status>>
       ELSE /\ wkeys' = [wkeys EXCEPT ![j] = Written(lws[j])]
            /\ status' = [status EXCEPT ![j] = IF @ = "estimate" THEN "aborted" ELSE "executed"]
            /\ UNCHANGED <<mv, todo>>
    /\ UNCHANGED <<tx, parent, phase, pass, alone, due, lws, pc, execVars, checkVars>>

\* shouldRerun: the task is validated, or its items become estimates, or it
\* stays as it is, valid but with an estimate among its reads; a task that
\* waits may find its dependencies validated.
Check(j) ==
    /\ j \in due
    /\ due' = due \ {j}
    /\ \E s \in CASE status[j] = "aborted" -> {"pending"}
                 [] status[j] = "waiting" -> {"pending", "waiting"}
                 [] OTHER                 -> {"validated", "invalidate", status[j]} :
         /\ status' = [status EXCEPT ![j] = s]
         /\ todo' = [todo EXCEPT ![j] = IF s = "invalidate" THEN wkeys[j] ELSE {}]
    /\ UNCHANGED <<tx, parent, phase, pass, alone, lowerVars, pc, execVars, checkVars>>

\* InvalidateWriteset; then the task is run again or waits.
Invalidate(j) ==
    /\ status[j] = "invalidate"
    /\ IF todo[j] # {}
       THEN /\ \E k \in todo[j] : /\ mv' = [mv EXCEPT ![k][j] = Estimate]
                                  /\ todo' = [todo EXCEPT ![j] = @ \ {k}]
            /\ UNCHANGED status
       ELSE /\ \E s \in {"pending", "waiting"} : status' = [status EXCEPT ![j] = s]
            /\ UNCHANGED <<mv, todo>>
    /\ UNCHANGED <<tx, parent, phase, pass, alone, due, wkeys, lws, pc, execVars, checkVars>>
-----------------------------------------------------------------------------
(* Me executes. *)

\* A read by VersionIndexedStore.Get: the writeset, the readset, and only then
\* the multi-version store or the parent.
Own(k) == IF ws[k] # Absent THEN ws[k] ELSE rs[k]
Got(k) == IF Own(k) # Absent THEN Own(k) ELSE GetLatestBeforeIndex(mv, parent, Me, k)

\* A read found an estimate: the panic ends the transaction.
Abort ==
    /\ status' = [status EXCEPT ![Me] = "aborted"]
    /\ pc' = "idle"
    /\ UNCHANGED execVars

Start ==
    /\ phase = "execute" /\ pass < MaxPasses /\ status[Me] = "pending" /\ pc = "idle"
    /\ ws' = tx.before /\ rs' = NoSet /\ seen' = << >> /\ tracker' = NoTracker
    /\ upto' = 0 /\ cache' = {} /\ par' = {}
    /\ pc' = IF tx.first = NoKey THEN "collect" ELSE "get"
    /\ UNCHANGED <<tx, parent, phase, pass, alone, due, lowerVars, status, todo, checkVars>>

\* The transaction reads a key before it iterates.
Get ==
    /\ pc = "get"
    /\ IF Got(tx.first) = Estimate THEN Abort
       ELSE /\ rs' = IF ws[tx.first] # Absent THEN rs ELSE [rs EXCEPT ![tx.first] = Got(tx.first)]
            /\ seen' = <<<<tx.first, Got(tx.first)>>>>
            /\ pc' = "collect"
            /\ UNCHANGED <<ws, tracker, upto, cache, par, status>>
    /\ UNCHANGED <<tx, parent, phase, pass, alone, due, lowerVars, todo, checkVars>>

\* CollectIteratorItems, one writeset at a time; then the iterators are made.
Collect ==
    /\ pc = "collect"
    /\ IF upto < Me
       THEN /\ cache' = cache \cup wkeys[upto]
            /\ upto' = upto + 1
            /\ UNCHANGED <<par, tracker, pc>>
       ELSE /\ cache' = cache \cup Written(ws) \cup Written(rs)
            /\ par' = Present
            /\ tracker' = [NoTracker EXCEPT !.ws = ws]
            /\ pc' = "iterate"
            /\ UNCHANGED upto
    /\ UNCHANGED <<tx, parent, phase, pass, alone, due, lowerVars, status, todo, ws, rs, seen,
                   checkVars>>

\* The body of the transaction's loop: it sees key k, and stops there or goes on.
Visit(k, v) ==
    /\ tracker' = [tracker EXCEPT !.keys = @ \cup {k}, !.stop = k]
    /\ seen' = Append(seen, <<k, IF tx.values THEN v ELSE Absent>>)
    /\ IF Cardinality(tracker'.keys) = tx.limit
       THEN pc' = "after" /\ UNCHANGED <<cache, par>>
       ELSE pc' = pc /\ cache' = cache \ {k} /\ par' = par \ {k}

\* One turn of trackedIterator over mvsMergeIterator: the end of the range, a
\* key of the memory iterator (skipped if it has no value), or one that only
\* the parent has.  Asking for the value again finds it in the readset, so
\* one turn looks at the shared store once.
Iterate ==
    /\ pc = "iterate"
    /\ IF cache \cup par = {}
       THEN /\ tracker' = [tracker EXCEPT !.stop = NoKey]
            /\ pc' = "after"
            /\ UNCHANGED <<ws, rs, upto, cache, par, seen, status>>
       ELSE LET k == First(cache \cup par)
            IN  IF k \in cache
                THEN IF Got(k) = Estimate THEN Abort
                     ELSE /\ rs' = IF ws[k] # Absent THEN rs ELSE [rs EXCEPT ![k] = Got(k)]
                          /\ IF Got(k) = Nil
                             THEN /\ cache' = cache \ {k} /\ par' = par \ {k}
                                  /\ UNCHANGED <<tracker, seen, pc>>
                             ELSE Visit(k, Got(k))
                          /\ UNCHANGED <<ws, upto, status>>
                ELSE /\ rs' = IF tx.values THEN [rs EXCEPT ![k] = parent[k]] ELSE rs
                     /\ Visit(k, parent[k])
                     /\ UNCHANGED <<ws, upto, status>>
    /\ UNCHANGED <<tx, parent, phase, pass, alone, due, lowerVars, todo, checkVars>>

\* Faulty variant: the tracker keeps the map of the writeset, not a copy.
After_SharesWriteset ==
    /\ pc = "after"
    /\ ws' = IF tx.after = NoKey THEN ws ELSE [ws EXCEPT ![tx.after] = Nil]
    /\ tracker' = [tracker EXCEPT !.ws = ws']
    /\ status' = [status EXCEPT ![Me] = "executed"]
    /\ pc' = "idle"
    /\ UNCHANGED <<tx, parent, phase, pass, alone, due, lowerVars, todo, rs, upto, cache, par, seen,
                   checkVars>>

\* The transaction deletes a key it wants gone and returns.
After ==
    /\ pc = "after"
    /\ ws' = IF tx.after = NoKey THEN ws ELSE [ws EXCEPT ![tx.after] = Nil]
    /\ status' = [status EXCEPT ![Me] = "executed"]
    /\ pc' = "idle"
    /\ UNCHANGED <<tx, parent, phase, pass, alone, due, lowerVars, todo, rs, tracker, upto, cache,
                   par, seen, checkVars>>

-----------------------------------------------------------------------------
(* Me is validated. *)

\* An aborted task is run again, any other when its dependencies are validated.
RerunOrWait(s) ==
    \E t \in {"pending", "waiting"} :
        /\ t = "waiting" => s # "aborted" /\ \E j \in Lower : status[j] # "validated"
        /\ status' = [status EXCEPT ![Me] = t]

\* Faulty variant: only the keys of the next lower transaction are collected.
StartCheck_LastWriterOnly ==
    /\ Me \in due
    /\ due' = due \ {Me}
    /\ IF status[Me] \in {"aborted", "waiting"}
       THEN /\ RerunOrWait(status[Me])
            /\ UNCHANGED <<walk, pc>>
       ELSE /\ walk' = [NoWalk EXCEPT !.pc = "walk", !.of = tracker, !.par = Present,
                          !.cache = Written(tracker.ws) \cup wkeys[Me - 1]]
            /\ pc' = "select"
            /\ UNCHANGED status
    /\ UNCHANGED <<tx, parent, phase, pass, alone, lowerVars, todo, execVars, valid, conflicts>>

\* For a task that was executed checkIteratorAtIndex starts the goroutine of
\* validateIterator.  txWritesetKeys does not change in this phase.
StartCheck ==
    /\ Me \in due
    /\ due' = due \ {Me}
    /\ IF status[Me] \in {"aborted", "waiting"}
       THEN /\ RerunOrWait(status[Me])
            /\ UNCHANGED <<walk, pc>>
       ELSE /\ walk' = [NoWalk EXCEPT !.pc = "walk", !.of = tracker, !.par = Present,
                          !.cache = Written(tracker.ws) \cup UNION {wkeys[j] : j \in Lower}]
            /\ pc' = "select"
            /\ UNCHANGED status
    /\ UNCHANGED <<tx, parent, phase, pass, alone, lowerVars, todo, execVars, valid, conflicts>>

\* The goroutine sends its verdict and ends.
Verdict(ok) == walk' = [walk EXCEPT !.pc = "end", !.verdict = IF ok THEN "valid" ELSE "invalid"]

\* Faulty variant: a key that was not there before is passed over.
Expect_IgnoresNewKeys(k) ==
    LET n == walk.found + 1
    IN  IF k = walk.of.stop THEN Verdict(n >= Cardinality(walk.of.keys))
        ELSE walk' = [walk EXCEPT !.found = IF k \in walk.of.keys THEN n ELSE @,
                                  !.cache = @ \ {k}, !.par = @ \ {k}]

\* The loop of the goroutine, at a key that exists.
Expect(k) ==
    LET n == walk.found + 1
    IN  IF walk.found = Cardinality(walk.of.keys) \/ k \notin walk.of.keys THEN Verdict(FALSE)
        ELSE IF k = walk.of.stop THEN Verdict(n >= Cardinality(walk.of.keys))
        ELSE walk' = [walk EXCEPT !.found = n, !.cache = @ \ {k}, !.par = @ \ {k}]

\* The abort channel holds one element.
SendAbort(w) == w.aborts = 0 /\ walk' = [w EXCEPT !.aborts = 1]

\* One turn of the goroutine (until the next validation begins; what is left
\* of it then is not followed).  validationIterator.Value looks in the writeset
\* the transaction had when it began to iterate, then in the store; for an
\* estimate it sends an abort, waiting while the channel is full, and goes on
\* as if the key were deleted.
Walk ==
    /\ walk.pc = "walk"
    /\ IF walk.cache \cup walk.par = {}
       THEN Verdict(walk.found >= Cardinality(walk.of.keys))
       ELSE LET k    == First(walk.cache \cup walk.par)
                own  == walk.of.ws[k]
                none == own = Absent /\ LatestBefore(mv, Me, k) = NoTx
                item == IF own # Absent THEN own ELSE GetLatestBeforeIndex(mv, parent, Me, k)
                skip == [walk EXCEPT !.cache = @ \ {k}, !.par = @ \ {k}]
            IN  IF k \notin walk.cache THEN Expect(k)
                ELSE CASE none            -> walk' = [walk EXCEPT !.pc = "panic"]
                       [] item = Estimate -> SendAbort(skip)
                       [] item = Nil      -> walk' = skip
                       [] OTHER           -> Expect(k)
    /\ UNCHANGED <<tx, parent, phase, pass, alone, due, lowerVars, status, todo, pc, execVars, valid,
                   conflicts>>

\* Faulty variant: aborts are not listened for.
Select_WaitsForVerdict ==
    /\ pc = "select"
    /\ walk.verdict # "none" /\ valid' = (walk.verdict = "valid") /\ UNCHANGED walk
    /\ conflicts' = {}
    /\ todo' = [todo EXCEPT ![Me] = Written(rs)]
    /\ pc' = "readset"
    /\ UNCHANGED <<tx, parent, phase, pass, alone, due, lowerVars, status, execVars>>

\* The select of validateIterator: an abort or the verdict, either if both
\* are there.  Then the readset is checked.
Select ==
    /\ pc = "select"
    /\ \/ walk.aborts = 1 /\ valid' = FALSE /\ walk' = [walk EXCEPT !.aborts = 0]
       \/ walk.verdict # "none" /\ valid' = (walk.verdict = "valid") /\ UNCHANGED walk
    /\ conflicts' = {}
    /\ todo' = [todo EXCEPT ![Me] = Written(rs)]
    /\ pc' = "readset"
    /\ UNCHANGED <<tx, parent, phase, pass, alone, due, lowerVars, status, execVars>>

\* checkReadsetAtIndex, one key at a time, and what shouldRerun makes of it.
Readset ==
    /\ pc = "readset"
    /\ IF todo[Me] # {}
       THEN /\ \E k \in todo[Me] :
                 LET c == CheckRead(mv, parent, Me, k, rs[k])
                 IN  /\ valid' = (valid /\ c.ok)
                     /\ conflicts' = conflicts \cup c.conflicts
                     /\ todo' = [todo EXCEPT ![Me] = @ \ {k}]
            /\ UNCHANGED <<status, pc>>
       ELSE /\ CASE ~valid         -> RerunOrWait(status[Me])
                 [] conflicts = {} -> status' = [status EXCEPT ![Me] = "validated"]
                 [] OTHER          -> UNCHANGED status
            /\ pc' = "idle"
            /\ UNCHANGED <<todo, valid, conflicts>>
    /\ UNCHANGED <<tx, parent, phase, pass, alone, due, lowerVars, execVars, walk>>

-----------------------------------------------------------------------------
(* ProcessAll *)

FirstNonValidated == CHOOSE t \in Txs : /\ status[t] # "validated"
                                        /\ \A u \in 0 .. t - 1 : status[u] = "validated"

BeginValidate ==
    /\ phase = "execute" /\ pc = "idle"
    /\ \A t \in Txs : status[t] \notin {"pending"} \cup Publishing
    /\ \E t \in Txs : status[t] # "validated"
    /\ phase' = "validate"
    /\ due' = FirstNonValidated .. Me
    /\ UNCHANGED <<tx, parent, pass, alone, lowerVars, status, todo, pc, execVars, checkVars>>

\* The WaitGroup is released; nobody waits for validateIterator's goroutine.
EndValidate ==
    /\ phase = "validate" /\ due = {} /\ pc = "idle"
    /\ \A j \in Lower : status[j] # "invalidate"
    /\ pass < MaxPasses
    /\ pass' = pass + 1
    /\ phase' = IF \A t \in Txs : status[t] = "validated" THEN "done" ELSE "execute"
    /\ alone' = (status[Me] = "pending" /\ \A j \in Lower : status[j] = "validated")
    /\ UNCHANGED <<tx, parent, due, lowerVars, status, todo, pc, execVars, checkVars>>

\* A panic in validateIterator's goroutine is not recovered and ends the program.
Running == walk.pc # "panic"

LowerNext == \E j \in Lower : Return(j) \/ Publish(j) \/ Check(j) \/ Invalidate(j)
Execute == Start \/ Get \/ Collect \/ Iterate \/ After
Validate == Running /\ (StartCheck \/ Select \/ Readset)
ProcessAll == BeginValidate \/ EndValidate

Next == Running /\ (LowerNext \/ Execute \/ Validate \/ Walk \/ ProcessAll)

\* Every goroutine that can run does so eventually.
Spec == /\ Init /\ [][Next]_vars
        /\ WF_vars(Walk) /\ WF_vars(Validate)

-----------------------------------------------------------------------------
(* Properties *)

\* What Me's transaction would see if it ran now: the key it reads first,
\* then the keys of the range that have a value, in order.
View(k) == IF tx.before[k] # Absent THEN tx.before[k] ELSE GetLatestBeforeIndex(mv, parent, Me, k)

WouldSee ==
    LET there == SetToSortSeq({k \in Keys : View(k) # Nil},
                              LAMBDA k, l : IF tx.ascending THEN k < l ELSE k > l)
        n     == IF tx.limit < Len(there) THEN tx.limit ELSE Len(there)
    IN  (IF tx.first = NoKey THEN << >> ELSE <<<<tx.first, View(tx.first)>>>>)
          \o [i \in 1 .. n |-> <<there[i], IF tx.values THEN View(there[i]) ELSE Absent>>]

\* If Me is validated and no lower task has been invalidated in this pass, its
\* transaction saw what it would see now: no key was added to the part of the
\* range it walked, none removed and none changed
\* (ValidateTransactionState, store.go:388-397).
ValidatedWalkIsCurrent ==
    /\ phase = "validate" /\ Me \notin due /\ pc = "idle" /\ status[Me] = "validated"
    /\ \A j \in Lower : status[j] \in {"executed", "validated"}
    => seen = WouldSee

\* A walk is not found invalid without need: if Me was executed in this pass
\* while all lower tasks were validated, and none was invalidated since, Me is
\* validated; otherwise ProcessAll would run it again in every pass
\* (NewIterationTracker's copy of the writeset, mvkv.go:45-53).
UndisturbedIsValidated ==
    /\ phase = "validate" /\ alone /\ Me \notin due /\ pc = "idle"
    /\ \A j \in Lower : status[j] \in {"executed", "validated"}
    => status[Me] = "validated"

\* validateIterator returns, however many estimates its goroutine meets and
\* although the abort channel holds only one (store.go:268-316).
ValidationReturns == [](pc = "select" => <>(pc # "select"))

\* "this should prevent race conditions causing an iterator to become invalid
\* while being used" (memiterator.go:60): the validation iterator always finds
\* the items of the keys it was created with.
IteratorStaysValid == walk.pc # "panic"

=============================================================================
