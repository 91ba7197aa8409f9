------------------------------ MODULE Retention ------------------------------
(***************************************************************************)
(* Which blocks and states a node keeps.  BaseApp.Commit, once the root    *)
(* multistore has committed, answers consensus with a retention height,    *)
(* below which it prunes its block store, and starts a goroutine that      *)
(* exports a state sync snapshot of a version that later commits may come  *)
(* to prune.  Crashes, rollbacks and the prune command end the process.    *)
(***************************************************************************)
EXTENDS RootMulti

CONSTANTS
    Params      \* configurations: [minRetain, maxAge, interval, keepRecent]

ASSUME RetentionAssumption ==
    \A q \in Params : {q.minRetain, q.maxAge, q.interval, q.keepRecent} \subseteq Nat

VARIABLES
    p,          \* the configuration of blocks and snapshots
    answer,     \* the height that consensus still has to be answered, or 0
    top,        \* the highest height that was answered
    base,       \* the lowest block of the block store
    snapshots,  \* heights of the available snapshots
    taking,     \* heights of the snapshots being taken: at most one
    late        \* a snapshot was lost, failed or outlived two more blocks

ownVars == <<p, answer, top, base, snapshots, taking, late>>
nodeVars == <<vars, ownVars>>

NodeInit ==
    /\ Init
    /\ p \in Params
    /\ answer = 0 /\ top = 0
    /\ base = InitialVersion
    /\ snapshots = {} /\ taking = {}
    /\ late = FALSE

Least(S) == CHOOSE x \in S : \A y \in S : x <= y

MinNonZero(x, y) ==
    IF x = 0 THEN y ELSE IF y = 0 THEN x ELSE IF x < y THEN x ELSE y

\* Faulty variant: blocks are pruned before any state is persisted.
RetentionBeforePersisted(h) ==
    LET age == IF p.maxAge > 0 THEN h - p.maxAge ELSE 0
        kept == IF KeepEvery > 0 /\ h > KeepEvery THEN MinNonZero(age, h - (h % KeepEvery)) ELSE age
        snap == IF p.interval > 0 /\ p.keepRecent > 0
                THEN MinNonZero(kept, h - p.interval * p.keepRecent) ELSE kept
        r == MinNonZero(snap, h - p.minRetain)
    IN IF p.minRetain = 0 \/ r <= 0 THEN 0 ELSE r

\* Faulty variant: blocks are kept for one snapshot only.
RetentionOneSnapshot(h) ==
    LET age == IF p.maxAge > 0 THEN h - p.maxAge ELSE 0
        kept == IF KeepEvery > 0 THEN MinNonZero(age, h - (h % KeepEvery)) ELSE age
        snap == IF p.interval > 0 /\ p.keepRecent > 0 THEN MinNonZero(kept, h - p.interval) ELSE kept
        r == MinNonZero(snap, h - p.minRetain)
    IN IF p.minRetain = 0 \/ (KeepEvery > 0 /\ h <= KeepEvery) \/ r <= 0 THEN 0 ELSE r

\* The smallest of the constraints that are set; 0 prunes nothing.
GetBlockRetentionHeight(h) ==
    LET age == IF p.maxAge > 0 THEN h - p.maxAge ELSE 0
        kept == IF KeepEvery > 0 THEN MinNonZero(age, h - (h % KeepEvery)) ELSE age
        snap == IF p.interval > 0 /\ p.keepRecent > 0
                THEN MinNonZero(kept, h - p.interval * p.keepRecent) ELSE kept
        r == MinNonZero(snap, h - p.minRetain)
    IN IF p.minRetain = 0 \/ (KeepEvery > 0 /\ h <= KeepEvery) \/ r <= 0 THEN 0 ELSE r

\* A snapshot of height h is due.
Due(h) == p.interval > 0 /\ h % p.interval = 0

\* The end of BaseApp.Commit: what consensus prunes, and the start of a
\* snapshot where one is due and none is under way.
Respond ==
    /\ pc = "idle" /\ answer # 0
    /\ answer' = 0
    /\ top' = IF answer > top THEN answer ELSE top
    /\ LET r == GetBlockRetentionHeight(answer)
       IN base' = IF r > base THEN r ELSE base
    /\ taking' = IF Due(answer) /\ taking = {} THEN {answer} ELSE taking
    /\ late' = (late \/ \E s \in taking : answer >= s + 2)
    /\ UNCHANGED <<vars, p, snapshots>>

\* The goroutine of Snapshot: the snapshot is there, the oldest ones are not.
Snapshot ==
    /\ taking # {}
    /\ LET all == snapshots \cup taking
       IN snapshots' = IF p.keepRecent = 0 THEN all
                       ELSE {s \in all : Cardinality({t \in all : t >= s}) <= p.keepRecent}
    /\ taking' = {}
    /\ UNCHANGED <<vars, p, answer, top, base, late>>

SnapshotFails ==
    /\ taking # {}
    /\ taking' = {}
    /\ late' = TRUE
    /\ UNCHANGED <<vars, p, answer, top, base, snapshots>>

-----------------------------------------------------------------------------
(* The node.                                                               *)

\* The answer and the goroutine die with the process.
Dies ==
    /\ answer' = 0
    /\ taking' = {}
    /\ late' = (late \/ taking # {} \/ (answer # 0 /\ Due(answer)))
    /\ UNCHANGED <<p, top, base, snapshots>>

\* BaseApp.Commit: the multistore's, then the answer.
NodeCommit ==
    \/ StartCommit /\ answer = 0 /\ UNCHANGED ownVars
    \/ \E s \in Stores : CommitStore(s) /\ IF pc' = "down" THEN Dies ELSE UNCHANGED ownVars
    \/ StoresCommitted /\ UNCHANGED ownVars
    \/ \E s \in Stores : PruneStore(s) /\ UNCHANGED ownVars
    \/ StoresPruned /\ UNCHANGED ownVars
    \/ FlushMetadata /\ answer' = version /\ UNCHANGED <<p, top, base, snapshots, taking, late>>
    \/ Respond

Start == LoadLatestVersion /\ UNCHANGED ownVars

NodeNext ==
    \/ Start
    \/ NodeCommit
    \/ Snapshot \/ SnapshotFails
    \/ (Crash \/ Rollback \/ PruneCommand) /\ Dies

\* The node is started again, and goes on with a commit once it has begun.
NodeSpec == NodeInit /\ [][NodeNext]_nodeVars /\ WF_nodeVars(Start) /\ WF_nodeVars(NodeCommit)

-----------------------------------------------------------------------------
(* Properties.                                                             *)

\* The block store still holds block h and all later ones.
Held(h) == base <= h \/ base = InitialVersion

\* Well-typedness; nothing is pruned that is not committed.
RetentionTypeOK ==
    /\ p \in Params
    /\ answer \in {0, latest} /\ top \in Nat
    /\ base \in InitialVersion .. (IF top < InitialVersion THEN InitialVersion ELSE top)
    /\ \A s \in snapshots \cup taking : s <= top
    /\ Cardinality(taking) <= 1
    /\ p.keepRecent > 0 => Cardinality(snapshots) <= p.keepRecent

\* The blocks whose evidence is still accepted can be audited, and those that
\* the operator asks for are there: GetBlockRetentionHeight takes the least of
\* its constraints.
EvidenceIsAuditable ==
    /\ p.maxAge > 0 => Held(top - p.maxAge)
    /\ Held(top - p.minRetain)

\* A node that is started again, after a crash at any point of Commit or after
\* a rollback, finds the blocks after the version on disk, and those after the
\* last version that is kept for good; as long as there is none, all of them.
ReplayIsPossible ==
    /\ Held(latest + 1)
    /\ KeepEvery > 0 =>
           Held(IF top > KeepEvery THEN top - (top % KeepEvery) + 1 ELSE InitialVersion)

\* A node that restores the oldest snapshot finds the blocks that follow it, as
\* long as snapshots succeed before the second block after their own.
SnapshotsCatchUp ==
    snapshots # {} /\ p.keepRecent > 0 /\ ~late => Held(Least(snapshots) + 1)

\* The version that a goroutine exports stays in every store, however many
\* commits and batches of pruning it outlives: snapshot intervals are multiples
\* of KeepEvery.
ExportedIsKept == \A h \in taking : Loadable(h)

=============================================================================
