-------------------------- MODULE SnapshotRestore --------------------------
(***************************************************************************)
(* State sync: Manager.Restore and RestoreChunk, the goroutine that feeds  *)
(* the chunks to the multistore, and the channels between them.            *)
(*                                                                         *)
(* OfferSnapshot and ApplySnapshotChunk come from one ABCI connection, one *)
(* call at a time.  RestoreChunk holds the manager's mutex from its first  *)
(* line to its last, also while it waits for a channel.  Other callers     *)
(* begin and end operations of their own.  A chunk with the wrong hash, a  *)
(* stream whose header cannot be read and a multistore that cannot be      *)
(* restored are the failures the code handles.                             *)
(*                                                                         *)
(* A node syncs before it executes blocks; then it takes and serves        *)
(* snapshots with the same manager, as SnapshotStore says.                 *)
(***************************************************************************)
EXTENDS SnapshotStore

CONSTANTS
    OfferedChunks,        \* chunks of the snapshot that is offered
    BufferSize,     \* chunkBufferSize
    MaxRestores,    \* bound on the restores that are begun
    HeaderFails     \* whether streams with an unreadable header are explored

ASSUME RestoreAssumption ==
    /\ OfferedChunks \in Nat \ {0}
    /\ BufferSize \in Nat \ {0}
    /\ MaxRestores \in Nat
    /\ HeaderFails \in BOOLEAN

VARIABLES
    syncing,    \* no block has been executed yet
    mtx,        \* who holds Manager.mtx
    abci,       \* what the ABCI connection is doing
    index,      \* restoreChunkIndex
    ch,         \* chRestore: chunks in its buffer
    open,       \* whether chRestore is open
    done,       \* what chRestoreDone holds
    begun,      \* restores begun
    worker,     \* the goroutine of each restore
    consumed,   \* chunks the current goroutine has taken
    answer      \* what the last call returned

restoreVars == <<op, mtx, abci, index, ch, open, done, begun, worker, consumed, answer>>

\* What the node's own snapshots change, apart from the operation.
ownVars == <<committed, crashes, pc, saving, db, files, exporter, count, prune, peer, stale>>

Workers == 1 .. MaxRestores
Running == {w \in Workers : worker[w] \in {"header", "decode", "restore", "drain"}}

NodeInit ==
    /\ Init
    /\ syncing = TRUE
    /\ mtx = "free"
    /\ abci = "idle"
    /\ index = 0
    /\ ch = 0
    /\ open = FALSE
    /\ done = "empty"
    /\ begun = 0
    /\ worker = [w \in Workers |-> "none"]
    /\ consumed = 0
    /\ answer = "none"

-----------------------------------------------------------------------------
(* The ABCI connection.                                                    *)

\* endLocked; the channel is closed if it is still open.
EndLocked ==
    /\ op' = "none"
    /\ open' = FALSE
    /\ done' = "empty"
    /\ index' = 0

\* A call returns and releases the mutex.
Return(a) ==
    /\ answer' = a
    /\ abci' = "idle"
    /\ mtx' = "free"

\* Restore: refused while an operation is in progress, otherwise the channels
\* are made and the goroutine is started.
OfferSnapshot ==
    /\ abci = "idle"
    /\ mtx = "free"
    /\ begun < MaxRestores
    /\ IF op # "none"
       THEN /\ answer' = "reject"
            /\ UNCHANGED <<op, index, ch, open, done, begun, worker, consumed>>
       ELSE /\ op' = "restore"
            /\ index' = 0
            /\ ch' = 0
            /\ open' = TRUE
            /\ done' = "empty"
            /\ begun' = begun + 1
            /\ worker' = [worker EXCEPT ![begun + 1] = "header"]
            /\ consumed' = 0
            /\ answer' = "accept"
    /\ UNCHANGED <<mtx, abci>>

\* RestoreChunk up to the send: no restore in progress, an error reported by
\* the goroutine, and a chunk with the wrong hash each end the call.
ApplyChunk ==
    /\ abci = "idle"
    /\ mtx = "free"
    /\ answer # "none"
    /\ \/ /\ op # "restore"
          /\ answer' = "abort"
          /\ UNCHANGED <<op, mtx, abci, index, open, done>>
       \/ /\ op = "restore"
          /\ done # "empty"
          /\ EndLocked
          /\ answer' = "abort"
          /\ UNCHANGED <<mtx, abci>>
       \/ /\ op = "restore"
          /\ done = "empty"
          /\ answer' = "retry"
          /\ UNCHANGED <<op, mtx, abci, index, open, done>>
       \/ /\ op = "restore"
          /\ done = "empty"
          /\ mtx' = "abci"
          /\ abci' = "send"
          /\ UNCHANGED <<op, index, open, done, answer>>
    /\ UNCHANGED <<ch, begun, worker, consumed>>

\* `m.chRestore <- chunk`; after the last chunk the channel is closed.
SendChunk ==
    /\ abci = "send"
    /\ ch < BufferSize
    /\ ch' = ch + 1
    /\ index' = index + 1
    /\ IF index + 1 >= OfferedChunks
       THEN open' = FALSE /\ abci' = "wait" /\ UNCHANGED <<mtx, answer>>
       ELSE Return("accept") /\ UNCHANGED open
    /\ UNCHANGED <<op, done, begun, worker, consumed>>

\* `done := <-m.chRestoreDone`.
AwaitDone ==
    /\ abci = "wait"
    /\ done # "empty"
    /\ EndLocked
    /\ Return(IF done = "ok" THEN "complete" ELSE "abort")
    /\ UNCHANGED <<ch, begun, worker, consumed>>

-----------------------------------------------------------------------------
(* The goroutine: restoreSnapshot and its report.                          *)

Take ==
    /\ ch > 0
    /\ ch' = ch - 1
    /\ consumed' = consumed + 1

Ended == ch = 0 /\ ~open

\* The result is put into chRestoreDone, which has room for one.
Report(w, r) ==
    /\ worker' = [worker EXCEPT ![w] = "done"]
    /\ done' = r

\* NewStreamReader waits for the first chunk and reads the header from it; if
\* it cannot be read restoreSnapshot returns without closing the reader.
AwaitHeader(w) ==
    /\ worker[w] = "header"
    /\ Take
    /\ worker' = [worker EXCEPT ![w] = "decode"]
    /\ UNCHANGED <<op, mtx, abci, index, open, done, begun, answer>>

ReadHeader(w) ==
    /\ worker[w] = "decode"
    /\ \/ worker' = [worker EXCEPT ![w] = "restore"] /\ UNCHANGED done
       \/ HeaderFails /\ Report(w, "err")
    /\ UNCHANGED <<ch, consumed>>
    /\ UNCHANGED <<op, mtx, abci, index, open, begun, answer>>

\* Faulty variant: an error of the multistore is not passed on.
RestoreStoreNoError(w) ==
    /\ worker[w] = "restore"
    /\ \/ Take /\ UNCHANGED <<worker, done>>
       \/ Report(w, "ok") /\ UNCHANGED <<ch, consumed>>
    /\ UNCHANGED <<op, mtx, abci, index, open, begun, answer>>

\* multistore.Restore and the extensions read on, until they have all of the
\* stream or fail; then the reader is closed.
RestoreStore(w) ==
    /\ worker[w] = "restore"
    /\ \/ Take /\ UNCHANGED <<worker, done>>
       \/ /\ worker' = [worker EXCEPT ![w] = "drain"]
          /\ UNCHANGED <<ch, consumed, done>>
       \/ /\ Ended
          /\ Report(w, IF consumed = OfferedChunks THEN "ok" ELSE "err")
          /\ UNCHANGED <<ch, consumed>>
    /\ UNCHANGED <<op, mtx, abci, index, open, begun, answer>>

\* Faulty variant: the remaining chunks are not taken.
DrainNoChunks(w) ==
    /\ worker[w] = "drain"
    /\ Ended
    /\ Report(w, "err")
    /\ UNCHANGED <<ch, consumed>>
    /\ UNCHANGED <<op, mtx, abci, index, open, begun, answer>>

\* After a failure: ChunkReader.Close takes chunks until the channel is
\* closed, and only then is the error reported.
DrainChunks(w) ==
    /\ worker[w] = "drain"
    /\ \/ Take /\ UNCHANGED <<worker, done>>
       \/ Ended /\ Report(w, "err") /\ UNCHANGED <<ch, consumed>>
    /\ UNCHANGED <<op, mtx, abci, index, open, begun, answer>>

-----------------------------------------------------------------------------
\* Create or Prune of another caller, which needs the mutex to begin and end.
OtherBegin ==
    /\ mtx = "free"
    /\ op = "none"
    /\ op' = "other"
    /\ UNCHANGED <<mtx, abci, index, ch, open, done, begun, worker, consumed, answer>>

OtherEnd ==
    /\ mtx = "free"
    /\ op = "other"
    /\ EndLocked
    /\ UNCHANGED <<mtx, abci, ch, begun, worker, consumed, answer>>

\* List and LoadChunk, which need neither the mutex nor the operation.
Serve == UNCHANGED restoreVars

WorkerSteps(w) == AwaitHeader(w) \/ ReadHeader(w) \/ RestoreStore(w) \/ DrainChunks(w)

RestoreNext ==
    \/ OfferSnapshot \/ ApplyChunk \/ SendChunk \/ AwaitDone
    \/ \E w \in Workers : WorkerSteps(w)
    \/ OtherBegin \/ OtherEnd
    \/ Serve

\* The node begins to execute blocks: from genesis, or when it is in sync.
StartChain ==
    /\ syncing /\ op = "none" /\ answer \in {"none", "complete"}
    /\ syncing' = FALSE
    /\ UNCHANGED <<vars, restoreVars>>

NodeNext ==
    \/ syncing /\ RestoreNext /\ UNCHANGED <<syncing, ownVars>>
    \/ StartChain
    \/ ~syncing /\ Next /\ UNCHANGED <<syncing, mtx, abci, index, ch, open, done, begun, worker, consumed, answer>>

\* A goroutine that can go on does, and a call that can return does.
RestoreFairness ==
    /\ \A w \in Workers : WF_restoreVars(WorkerSteps(w))
    /\ WF_restoreVars(SendChunk)
    /\ WF_restoreVars(AwaitDone)

NodeSpec == NodeInit /\ [][NodeNext]_<<syncing, vars, restoreVars>> /\ Fairness /\ RestoreFairness

-----------------------------------------------------------------------------
\* Well-typedness; the buffer never holds more than its size.
RestoreTypeOK ==
    /\ syncing \in BOOLEAN
    /\ syncing => op \in {"none", "restore", "other"}
    /\ mtx \in {"free", "abci"}
    /\ abci \in {"idle", "send", "wait"}
    /\ index \in 0 .. OfferedChunks
    /\ ch \in 0 .. BufferSize
    /\ open \in BOOLEAN
    /\ done \in {"empty", "ok", "err"}
    /\ begun \in 0 .. MaxRestores
    /\ worker \in [Workers -> {"none", "header", "decode", "restore", "drain", "done"}]
    /\ consumed \in 0 .. OfferedChunks
    /\ answer \in {"none", "accept", "reject", "retry", "abort", "complete"}

\* At most one goroutine restores the multistore: an operation that began a
\* restore ends only after its goroutine has reported, so the next restore
\* cannot run beside it.
OneRestorer ==
    /\ \A v, w \in Running : v = w
    /\ Running # {} => op = "restore"

\* "complete" is answered only for a restore that took every chunk and ended
\* without an error.
CompleteIsRestored ==
    [][answer' = "complete" /\ answer # "complete" =>
       consumed = OfferedChunks /\ ch = 0 /\ worker[begun] = "done" /\ done = "ok"]_restoreVars

\* A call of RestoreChunk returns: it is given chunks "until the restore is
\* complete, returning true, or a chunk errors", and while it waits for the
\* channel it holds the mutex that every other operation needs.
RestoreChunkReturns == abci # "idle" ~> abci = "idle"

=============================================================================
