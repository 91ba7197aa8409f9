--------------------------- MODULE SnapshotStore ---------------------------
(***************************************************************************)
(* State-sync snapshots as a node takes, prunes and serves them:           *)
(* BaseApp.Snapshot, Manager.Create and Prune, the stream of chunks from   *)
(* createSnapshot to Store.Save, and Store.Delete and LoadChunk.           *)
(*                                                                         *)
(* A snapshot is an entry of the metadata database and a file per chunk.   *)
(* Commit starts a goroutine for each snapshot height; several may be      *)
(* alive, and Manager lets one operation run at a time.  The goroutine     *)
(* that holds a "snapshot" operation shares a channel of chunks with the   *)
(* one that exports the multistore.  Peers list snapshots and load chunks  *)
(* at any time, and the process may stop and restart between any two       *)
(* steps.  Files are modelled, the directories that hold them are not.     *)
(***************************************************************************)
EXTENDS Naturals, FiniteSets, FiniteSetsExt

CONSTANTS
    MaxHeight,      \* bound on the snapshot heights that are committed
    NChunks,        \* number of chunks of an exported stream
    KeepRecent,     \* snapshotKeepRecent
    Peers,          \* nodes that fetch snapshots from this one
    MaxCrashes      \* bound on the restarts that are explored

Heights == 1 .. MaxHeight
Chunks == 1 .. NChunks

ASSUME SnapshotAssumption ==
    /\ MaxHeight \in Nat
    /\ NChunks \in Nat \ {0}
    /\ KeepRecent \in Nat \ {0}
    /\ MaxCrashes \in Nat

VARIABLES
    committed,  \* the last snapshot height that was committed
    crashes,
    op,         \* Manager.operation
    pc,         \* the goroutine of BaseApp.Snapshot for each height
    saving,     \* Store.saving
    db,         \* Store.db: the number of chunks of each snapshot it lists
    files,      \* the chunk files: absent, being written, or complete
    exporter,   \* createSnapshot's goroutine
    count,      \* Save's index: chunks received
    prune,      \* heights Prune has yet to delete
    peer,       \* what each peer has seen listed, and the chunk it got last
    stale       \* heights whose listed snapshot is of a state rolled back since

vars == <<committed, crashes, op, pc, saving, db, files, exporter, count, prune, peer, stale>>

NotListed == NChunks + 1
NoHeight == 0

Pcs == {"idle", "create", "latest", "recv", "copy", "drain", "record", "prune", "delete", "remove", "done"}

\* createSnapshot: the chunk its pipe belongs to (0 before there is one), and
\* whether it produces data, waits in `w.ch <- pr`, or has closed the channel;
\* a chunk that is offered with `failed` set only carries the error.
Exporters == [at : 0 .. NChunks, st : {"none", "write", "offer", "closed"}, failed : BOOLEAN]
NoExporter == [at |-> 0, st |-> "none", failed |-> FALSE]

Listed == {h \in Heights : db[h] # NotListed}
NoFiles == [c \in Chunks |-> "absent"]

Init ==
    /\ committed = 0
    /\ crashes = 0
    /\ op = "none"
    /\ pc = [h \in Heights |-> "idle"]
    /\ saving = {}
    /\ db = [h \in Heights |-> NotListed]
    /\ files = [h \in Heights |-> NoFiles]
    /\ exporter = NoExporter
    /\ count = 0
    /\ prune = {}
    /\ peer = [p \in Peers |-> [height |-> NoHeight, got |-> "absent"]]
    /\ stale = {}

-----------------------------------------------------------------------------
(* BaseApp.Commit and Snapshot, Manager.Create.                            *)

\* Commit of the next snapshot height starts `go app.Snapshot(height)`.
SnapshotIfApplicable ==
    /\ committed < MaxHeight
    /\ committed' = committed + 1
    /\ pc' = [pc EXCEPT ![committed + 1] = "create"]
    /\ UNCHANGED <<crashes, op, saving, db, files, exporter, count, prune, peer, stale>>

\* begin(opSnapshot), which fails while another operation is in progress.
CreateBegin(h) ==
    /\ pc[h] = "create"
    /\ IF op # "none"
       THEN pc' = [pc EXCEPT ![h] = "done"] /\ UNCHANGED op
       ELSE pc' = [pc EXCEPT ![h] = "latest"] /\ op' = "snapshot"
    /\ UNCHANGED <<committed, crashes, saving, db, files, exporter, count, prune, peer, stale>>

\* GetLatest; an older height is refused, otherwise the exporter is started
\* and Save marks the height and looks for an entry.
Create(h) ==
    /\ pc[h] = "latest"
    /\ IF \E k \in Listed : k >= h
       THEN /\ pc' = [pc EXCEPT ![h] = "done"]
            /\ op' = "none"
            /\ UNCHANGED <<saving, exporter, count>>
       ELSE /\ pc' = [pc EXCEPT ![h] = "recv"]
            /\ saving' = saving \cup {h}
            /\ exporter' = [NoExporter EXCEPT !.st = "write"]
            /\ count' = 0
            /\ UNCHANGED op
    /\ UNCHANGED <<committed, crashes, db, files, prune, peer, stale>>

-----------------------------------------------------------------------------
(* createSnapshot, StreamWriter and ChunkWriter.                           *)

\* A chunk is full, or the first data arrives: the pipe is closed and a new
\* one is offered on the channel.
ChunkWrite ==
    /\ exporter.st = "write"
    /\ exporter.at < NChunks
    /\ exporter' = [exporter EXCEPT !.at = @ + 1, !.st = "offer"]
    /\ UNCHANGED <<committed, crashes, op, pc, saving, db, files, count, prune, peer, stale>>

\* Close after the last data: closes the channel, then the pipe.
StreamClose ==
    /\ exporter.st = "write"
    /\ exporter.at = NChunks
    /\ exporter' = [exporter EXCEPT !.st = "closed"]
    /\ UNCHANGED <<committed, crashes, op, pc, saving, db, files, count, prune, peer, stale>>

\* Faulty variant: without a pipe there is nobody to pass the error to.
CloseWithoutDummy ==
    /\ exporter.st = "write"
    /\ exporter' = [exporter EXCEPT !.st = "closed", !.failed = TRUE]
    /\ UNCHANGED <<committed, crashes, op, pc, saving, db, files, count, prune, peer, stale>>

\* CloseWithError, when the export fails or the reader has gone: the error is
\* passed through the pipe, for which a dummy chunk is offered if none exists.
CloseWithError ==
    /\ exporter.st = "write"
    /\ IF exporter.at = 0
       THEN exporter' = [exporter EXCEPT !.at = 1, !.st = "offer", !.failed = TRUE]
       ELSE exporter' = [exporter EXCEPT !.st = "closed", !.failed = TRUE]
    /\ UNCHANGED <<committed, crashes, op, pc, saving, db, files, count, prune, peer, stale>>

\* The channel takes the offered chunk; a dummy one is closed with the error.
Taken == [exporter EXCEPT !.st = IF exporter.failed THEN "closed" ELSE "write"]

-----------------------------------------------------------------------------
(* Store.Save.                                                             *)

\* What the pipe of the chunk being copied has told its reader.
PipeClosed == exporter.st = "closed" \/ exporter.at > count + 1
PipeFailed == exporter.st = "closed" /\ exporter.failed /\ exporter.at = count + 1

\* Save returns: the deferred calls clear the mark and close the chunk's body,
\* then drain the channel.
SaveFails(h) ==
    /\ pc' = [pc EXCEPT ![h] = "drain"]
    /\ saving' = saving \ {h}

\* The next chunk arrives and its file is created, or creating it fails.
SaveChunk(h) ==
    /\ pc[h] = "recv"
    /\ exporter.st = "offer"
    /\ exporter' = Taken
    /\ \/ /\ pc' = [pc EXCEPT ![h] = "copy"]
          /\ files' = [files EXCEPT ![h][exporter.at] = "part"]
          /\ UNCHANGED saving
       \/ SaveFails(h) /\ UNCHANGED files
    /\ UNCHANGED <<committed, crashes, op, db, count, prune, peer, stale>>

\* io.Copy returns at the end of the chunk, or with an error of the pipe or of
\* the file; on an error the directory of the height is removed.
CopyChunk(h) ==
    /\ pc[h] = "copy"
    /\ \/ /\ PipeClosed /\ ~PipeFailed
          /\ files' = [files EXCEPT ![h][count + 1] = "full"]
          /\ count' = count + 1
          /\ pc' = [pc EXCEPT ![h] = "recv"]
          /\ UNCHANGED saving
       \/ /\ files' = [files EXCEPT ![h] = NoFiles]
          /\ SaveFails(h)
          /\ UNCHANGED count
    /\ UNCHANGED <<committed, crashes, op, db, exporter, prune, peer, stale>>

\* DrainChunks takes and closes chunks until the channel is closed; then
\* Create ends its operation.
Drain(h) ==
    /\ pc[h] = "drain"
    /\ \/ /\ exporter.st = "offer"
          /\ exporter' = Taken
          /\ UNCHANGED <<pc, op>>
       \/ /\ exporter.st = "closed"
          /\ exporter' = NoExporter
          /\ pc' = [pc EXCEPT ![h] = "done"]
          /\ op' = "none"
    /\ UNCHANGED <<committed, crashes, saving, db, files, count, prune, peer, stale>>

\* The channel is closed: the metadata is written last, or writing it fails.
SaveSnapshot(h) ==
    /\ pc[h] = "recv"
    /\ exporter.st = "closed"
    /\ \/ db' = [db EXCEPT ![h] = count] /\ pc' = [pc EXCEPT ![h] = "prune"]
       \/ UNCHANGED db /\ pc' = [pc EXCEPT ![h] = "done"]
    /\ saving' = saving \ {h}
    /\ exporter' = NoExporter
    /\ op' = "none"
    /\ stale' = stale \ {h}
    /\ UNCHANGED <<committed, crashes, files, count, prune, peer>>

-----------------------------------------------------------------------------
(* Manager.Prune, Store.Prune and Delete.                                  *)

\* Faulty variant: the height itself is counted.
RetainedOneLess == {h \in Listed : Cardinality({k \in Listed : k >= h}) < KeepRecent}

\* The KeepRecent most recent heights are kept.
Retained == {h \in Listed : Cardinality({k \in Listed : k > h}) < KeepRecent}

PruneBegin(h) ==
    /\ pc[h] = "prune"
    /\ IF op # "none"
       THEN pc' = [pc EXCEPT ![h] = "done"] /\ UNCHANGED <<op, prune>>
       ELSE /\ pc' = [pc EXCEPT ![h] = "delete"]
            /\ op' = "prune"
            /\ prune' = Listed \ Retained
    /\ UNCHANGED <<committed, crashes, saving, db, files, exporter, count, peer, stale>>

\* Delete of the next snapshot, newest first: the entry, unless the height is
\* being saved; or all are deleted and the operation ends.
DeleteEntry(h) ==
    /\ pc[h] = "delete"
    /\ IF prune = {} \/ Max(prune) \in saving
       THEN /\ pc' = [pc EXCEPT ![h] = "done"]
            /\ op' = "none"
            /\ UNCHANGED db
       ELSE /\ db' = [db EXCEPT ![Max(prune)] = NotListed]
            /\ pc' = [pc EXCEPT ![h] = "remove"]
            /\ UNCHANGED op
    /\ UNCHANGED <<committed, crashes, saving, files, exporter, count, prune, peer, stale>>

\* Then its chunk files, or removing them fails and Prune with it.
DeleteChunks(h) ==
    /\ pc[h] = "remove"
    /\ \/ /\ files' = [files EXCEPT ![Max(prune)] = NoFiles]
          /\ prune' = prune \ {Max(prune)}
          /\ pc' = [pc EXCEPT ![h] = "delete"]
          /\ UNCHANGED op
       \/ /\ pc' = [pc EXCEPT ![h] = "done"]
          /\ op' = "none"
          /\ UNCHANGED <<files, prune>>
    /\ UNCHANGED <<committed, crashes, saving, db, exporter, count, peer, stale>>

-----------------------------------------------------------------------------
(* Peers, and the process itself.                                          *)

\* ListSnapshots: a peer picks a snapshot.
List(p) ==
    /\ \E h \in Listed : peer' = [peer EXCEPT ![p] = [height |-> h, got |-> "absent"]]
    /\ UNCHANGED <<committed, crashes, op, pc, saving, db, files, exporter, count, prune, stale>>

\* LoadChunk of the snapshot a peer saw listed: whatever the file holds now.
LoadChunk(p) ==
    /\ peer[p].height # NoHeight
    /\ \E c \in Chunks : peer' = [peer EXCEPT ![p].got = files[peer[p].height][c]]
    /\ UNCHANGED <<committed, crashes, op, pc, saving, db, files, exporter, count, prune, stale>>

\* The process ends and starts again, with the state of height `target`: the
\* files and the database stay.
Restart(target) ==
    /\ crashes < MaxCrashes
    /\ crashes' = crashes + 1
    /\ committed' = target
    /\ op' = "none"
    /\ pc' = [h \in Heights |-> IF h <= target THEN "done" ELSE "idle"]
    /\ saving' = {}
    /\ exporter' = NoExporter
    /\ count' = 0
    /\ prune' = {}
    /\ stale' = stale \cup {h \in Listed : h > target}
    /\ UNCHANGED <<db, files, peer>>

Crash == Restart(committed)

\* The rollback command between two runs of the process.
Rollback == \E target \in 0 .. committed - 1 : Restart(target)

SnapshotSteps(h) ==
    \/ CreateBegin(h) \/ Create(h)
    \/ SaveChunk(h) \/ CopyChunk(h) \/ Drain(h) \/ SaveSnapshot(h)
    \/ PruneBegin(h) \/ DeleteEntry(h) \/ DeleteChunks(h)

ExporterSteps == ChunkWrite \/ StreamClose \/ CloseWithError

Next ==
    \/ SnapshotIfApplicable
    \/ \E h \in Heights : SnapshotSteps(h)
    \/ ExporterSteps
    \/ \E p \in Peers : List(p) \/ LoadChunk(p)
    \/ Crash
    \/ Rollback

\* Goroutines run when they can, and an export comes to an end.
Fairness ==
    /\ \A h \in Heights : WF_vars(SnapshotSteps(h))
    /\ WF_vars(ExporterSteps)

Spec == Init /\ [][Next]_vars /\ Fairness

-----------------------------------------------------------------------------
\* Well-typedness of the manager, the goroutines and the store.
TypeOK ==
    /\ committed \in 0 .. MaxHeight
    /\ crashes \in 0 .. MaxCrashes
    /\ op \in {"none", "snapshot", "prune", "restore", "other"}
    /\ pc \in [Heights -> Pcs]
    /\ saving \subseteq Heights
    /\ db \in [Heights -> 0 .. NChunks + 1]
    /\ files \in [Heights -> [Chunks -> {"absent", "part", "full"}]]
    /\ exporter \in Exporters
    /\ count \in 0 .. NChunks
    /\ prune \subseteq Heights
    /\ peer \in [Peers -> [height : 0 .. MaxHeight, got : {"absent", "part", "full"}]]
    /\ stale \subseteq Heights

\* A snapshot that the database lists holds the whole exported stream, every
\* chunk of it complete on disk: Save writes the metadata after the chunks, an
\* error of the export reaches it through the pipe, and Delete removes the
\* metadata first, so that no restart in between leaves a listed snapshot that
\* cannot be served.
ListedIsWhole ==
    \A h \in Listed : db[h] = NChunks /\ \A c \in Chunks : files[h][c] = "full"

\* A peer that saw a snapshot listed gets a whole chunk or none, however long
\* after it asks: a pruned height that is committed again after a rollback is
\* not written again, because Create refuses heights below the latest snapshot.
ServedIsWhole == \A p \in Peers : peer[p].got # "part"

\* Pruning removes a snapshot only when KeepRecent more recent ones are
\* listed; in particular the latest snapshot is never lost, not even by a
\* restart in the middle of taking or pruning one.
RecentStayListed ==
    [][\A h \in Listed \ Listed' : Cardinality({k \in Listed' : k > h}) >= KeepRecent]_vars

\* Every snapshot or prune operation that was begun ends, whatever fails in it: the channel is
\* drained after an error of Save, so neither side waits for the other.
OperationEnds == op \in {"snapshot", "prune"} ~> op = "none"

\* Once the snapshot goroutine of a height has run, the snapshot listed for it
\* is of the state the node has committed at that height, not of one that the
\* rollback command took back.
ListedIsOfThisChain == \A h \in Listed : pc[h] = "done" => h \notin stale

=============================================================================
