------------------------------ MODULE RootMulti ------------------------------
(***************************************************************************)
(* The root multistore: every Commit saves a version of each IAVL store,   *)
(* prunes old versions in batches and flushes the commit info last, in one *)
(* batch.  The process may die between any two of these writes; rollback   *)
(* and the prune command work on the same files.                           *)
(***************************************************************************)
EXTENDS Integers, FiniteSets, Functions

LOCAL INSTANCE FiniteSetsExt

CONSTANTS
    Stores,
    InitialVersion,                     \* of the first commit
    KeepRecent, KeepEvery, Interval,    \* PruningOptions
    MaxVersion, MaxCrashes, MaxRollbacks

ASSUME RootMultiAssumption ==
    /\ IsFiniteSet(Stores) /\ Stores # {}
    /\ InitialVersion \in Nat \ {0}
    /\ {KeepRecent, KeepEvery, Interval, MaxVersion, MaxCrashes, MaxRollbacks} \subseteq Nat

VARIABLES
    trees,      \* on disk: the versions of each store, with their content
    latest,     \* on disk: latestVersionKey
    listed,     \* on disk: pruneHeightsKey
    pc,         \* "down", "idle", "commit", "prune", "flush"
    version,    \* lastCommitInfo's version
    heights,    \* pruneHeights
    earliest,   \* earliestVersion
    todo,       \* the stores a loop still has to visit
    fork,       \* rollbacks so far: what a block executes to after one differs
    asked,      \* the heights that the last prune command was to delete
    crashes

disk == <<trees, latest, listed>>
mem == <<pc, version, heights, earliest, todo>>
vars == <<disk, mem, fork, asked, crashes>>

NoVersions == [v \in {} |-> 0]

Init ==
    /\ trees = [s \in Stores |-> NoVersions]
    /\ latest = 0
    /\ listed = {}
    /\ pc = "down" /\ version = 0 /\ heights = {} /\ earliest = 0 /\ todo = {}
    /\ fork = 0 /\ asked = {} /\ crashes = 0

-----------------------------------------------------------------------------
(* Loading.                                                                *)

\* LoadVersion of every tree finds the version.
Loadable(v) == v = 0 \/ \A s \in Stores : v \in DOMAIN trees[s]

\* loadVersion: a store whose version is missing fails the start.
LoadLatestVersion ==
    /\ pc = "down"
    /\ IF Loadable(latest)
       THEN pc' = "idle" /\ version' = latest /\ heights' = listed /\ earliest' = 0 /\ UNCHANGED todo
       ELSE UNCHANGED mem
    /\ UNCHANGED <<disk, fork, asked, crashes>>

-----------------------------------------------------------------------------
(* Commit.                                                                 *)

\* The version that is being committed.
NextVersion == IF version = 0 THEN InitialVersion ELSE version + 1

\* Faulty variant: the metadata is flushed first.
StartCommitFlushes ==
    /\ pc = "idle" /\ NextVersion <= MaxVersion
    /\ pc' = "commit" /\ todo' = Stores
    /\ latest' = NextVersion
    /\ UNCHANGED <<trees, listed, version, heights, earliest, fork, asked, crashes>>

StartCommit ==
    /\ pc = "idle" /\ NextVersion <= MaxVersion
    /\ pc' = "commit" /\ todo' = Stores
    /\ UNCHANGED <<disk, version, heights, earliest, fork, asked, crashes>>

\* Faulty variant: a version that is already there is refused.
CommitStoreRefuses(s) ==
    /\ pc = "commit" /\ s \in todo
    /\ IF NextVersion \in DOMAIN trees[s]
       THEN pc' = "down" /\ todo' = {} /\ UNCHANGED trees
       ELSE /\ trees' = [trees EXCEPT ![s] = [v \in DOMAIN @ \cup {NextVersion} |->
                            IF v = NextVersion THEN fork ELSE @[v]]]
            /\ todo' = todo \ {s}
            /\ UNCHANGED pc
    /\ UNCHANGED <<latest, listed, version, heights, earliest, fork, asked, crashes>>

\* SaveVersion of one store.  A version that an earlier process has saved is
\* accepted if it has the same hash, otherwise the process panics.
CommitStore(s) ==
    /\ pc = "commit" /\ s \in todo
    /\ IF NextVersion \in DOMAIN trees[s] /\ trees[s][NextVersion] # fork
       THEN pc' = "down" /\ todo' = {} /\ UNCHANGED trees
       ELSE /\ trees' = [trees EXCEPT ![s] = [v \in DOMAIN @ \cup {NextVersion} |->
                            IF v = NextVersion THEN fork ELSE @[v]]]
            /\ todo' = todo \ {s}
            /\ UNCHANGED pc
    /\ UNCHANGED <<latest, listed, version, heights, earliest, fork, asked, crashes>>

\* The height that a commit adds to the ones to be pruned.
PruneHeights ==
    IF Interval > 0 /\ KeepRecent < version
          /\ (KeepEvery = 0 \/ (version - KeepRecent) % KeepEvery # 0)
    THEN {version - KeepRecent} ELSE {}

\* The commit info is set, and the batch is due or not; nothing is pruned if
\* the list is empty.
StoresCommitted ==
    /\ pc = "commit" /\ todo = {}
    /\ version' = NextVersion
    /\ heights' = heights \cup PruneHeights
    /\ IF Interval > 0 /\ NextVersion % Interval = 0 /\ heights' # {}
       THEN pc' = "prune" /\ todo' = Stores
       ELSE pc' = "flush" /\ todo' = {}
    /\ UNCHANGED <<disk, earliest, fork, asked, crashes>>

\* DeleteVersions; heights that the tree does not have do no harm.
DeleteVersions(tree, hs) == Restrict(tree, DOMAIN tree \ hs)

PruneStore(s) ==
    /\ pc = "prune" /\ s \in todo
    /\ trees' = [trees EXCEPT ![s] = DeleteVersions(@, heights)]
    /\ todo' = todo \ {s}
    /\ UNCHANGED <<latest, listed, pc, version, heights, earliest, fork, asked, crashes>>

StoresPruned ==
    /\ pc = "prune" /\ todo = {}
    /\ pc' = "flush" /\ heights' = {}
    /\ earliest' = Max(heights)
    /\ UNCHANGED <<disk, version, todo, fork, asked, crashes>>

\* flushMetadata: one batch, after everything else.
FlushMetadata ==
    /\ pc = "flush"
    /\ pc' = "idle"
    /\ latest' = version /\ listed' = heights
    /\ UNCHANGED <<trees, version, heights, todo, earliest, fork, asked, crashes>>

Crash ==
    /\ pc # "down" /\ crashes < MaxCrashes
    /\ crashes' = crashes + 1
    /\ pc' = "down" /\ todo' = {}
    /\ UNCHANGED <<disk, version, earliest, heights, fork, asked>>

-----------------------------------------------------------------------------
(* The offline commands.                                                   *)

\* The rollback command: RollbackToVersion by one height, with the metadata
\* flushed and the store loaded again.
Rollback ==
    /\ pc = "idle" /\ fork < MaxRollbacks
    /\ version > 1 /\ Loadable(version - 1)
    /\ trees' = [s \in Stores |-> Restrict(trees[s], {v \in DOMAIN trees[s] : v < version})]
    /\ latest' = version - 1 /\ version' = version - 1 /\ listed' = heights
    /\ fork' = fork + 1
    /\ UNCHANGED <<pc, heights, earliest, todo, asked, crashes>>

\* The prune command: PruneStores(false, heights), which returns early if the
\* store's own list is empty.
PruneCommand ==
    /\ pc = "idle" /\ latest > 0
    /\ LET hs == {h \in 1 .. latest : h < latest - KeepRecent}
       IN /\ asked' = hs
          /\ trees' = IF heights = {} THEN trees
                      ELSE [s \in Stores |-> DeleteVersions(trees[s], hs)]
    /\ UNCHANGED <<latest, listed, mem, fork, crashes>>

Commit ==
    \/ StartCommit
    \/ \E s \in Stores : CommitStore(s)
    \/ StoresCommitted
    \/ \E s \in Stores : PruneStore(s)
    \/ StoresPruned
    \/ FlushMetadata

Next == LoadLatestVersion \/ Commit \/ Crash \/ Rollback \/ PruneCommand

\* The node is started again, and goes on with a commit once it has begun.
Fairness == WF_vars(LoadLatestVersion) /\ WF_vars(Commit)

Spec == Init /\ [][Next]_vars /\ Fairness

-----------------------------------------------------------------------------
(* Properties.                                                             *)

Heights == 1 .. MaxVersion

\* Well-typedness; between commits memory and disk agree.
TypeOK ==
    /\ \A s \in Stores : DOMAIN trees[s] \subseteq Heights
    /\ latest \in Nat /\ version \in Nat
    /\ listed \subseteq Heights /\ heights \subseteq Heights
    /\ pc \in {"down", "idle", "commit", "prune", "flush"}
    /\ todo \subseteq Stores
    /\ pc = "idle" => version = latest /\ heights = listed

\* A node that starts after a crash at any point of Commit finds the version
\* of the last flush in every store.
LatestIsLoadable == Loadable(latest)

\* Versions that several stores hold come from the same execution, whatever a
\* crash left in some stores and a rollback took back.
StoresAgree ==
    \A s, t \in Stores : \A v \in DOMAIN trees[s] \cap DOMAIN trees[t] : trees[s][v] = trees[t][v]

\* Commit deletes only versions that are older than the recent ones and are not
\* to be kept.
PrunesOnlyOld ==
    [][\A s \in Stores : PruneStore(s) =>
           \A v \in DOMAIN trees[s] \ DOMAIN trees'[s] :
               v < version - KeepRecent /\ (KeepEvery > 0 => v % KeepEvery # 0)]_vars

\* Between commits every old version is deleted or listed to be: crashes that
\* lose the list in memory, or interrupt the batch, leak none.
NothingLeaks ==
    pc = "idle" /\ Interval > 0 =>
        \A s \in Stores : \A v \in DOMAIN trees[s] :
            v < version - KeepRecent /\ (KeepEvery = 0 \/ v % KeepEvery # 0) => v \in heights

\* After any crash the latest version can be loaded, the stores agree on what
\* they hold, and no version stays that pruning should have taken.
StoresAreSound == TypeOK /\ LatestIsLoadable /\ StoresAgree /\ NothingLeaks

\* With finitely many crashes and rollbacks every version is committed.
CommitsComplete == <>(latest = MaxVersion)

\* CacheMultiStoreWithVersion: a tree without the version is read as empty.
CacheMultiStoreWithVersion(v) ==
    [s \in Stores |-> IF v \in DOMAIN trees[s] THEN <<trees[s][v]>> ELSE <<>>]

\* A query at a height gets the stores of that height, or an error.
AnswersAreWhole ==
    pc = "idle" =>
        \A v \in 1 .. version : \A s \in Stores : CacheMultiStoreWithVersion(v)[s] # <<>>

\* The earliest version, where it is known, can be read in every store.
EarliestIsAvailable == earliest # 0 /\ pc = "idle" => Loadable(earliest)

\* The prune command deletes the heights it was given.
PruneCommandPrunes ==
    \A s \in Stores : DOMAIN trees[s] \cap asked = {}

=============================================================================
