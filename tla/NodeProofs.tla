----------------------------- MODULE NodeProofs -----------------------------
(***************************************************************************)
(* What a node keeps through crashes, rollbacks and upgrades: the root     *)
(* multistore's versions, for any stores, versions and number of crashes   *)
(* (StoresAreSound and PrunesOnlyOld), and the binary and the stores of an *)
(* upgrade, for any number of upgrades, blocks and failures                *)
(* (SwitchedExactly and StoresAreMigrated).                                *)
(***************************************************************************)
EXTENDS Retention, Cosmovisor, TLAPS

-----------------------------------------------------------------------------
(* The root multistore.                                                    *)

\* The pruning options and rollbacks the multistore can stand: if it prunes at
\* all it keeps at least one version besides the last, and is not rolled back
\* by more than it keeps.
RollbacksAreRecent == Interval > 0 => KeepRecent > 0 /\ MaxRollbacks <= KeepRecent

\* The version is not one of those that are kept for good.
Transient(v) == KeepEvery = 0 \/ v % KeepEvery # 0

\* The version after the one on disk.
Following == IF latest = 0 THEN InitialVersion ELSE latest + 1

\* What memory holds in each phase of Commit, and what the loops have done.
PhaseInv ==
    /\ DOMAIN trees = Stores
    /\ fork \in 0 .. MaxRollbacks
    /\ latest <= MaxVersion
    /\ latest = 0 => listed = {} /\ \A s \in Stores : DOMAIN trees[s] \subseteq {InitialVersion}
    /\ pc \in {"idle", "commit"} => version = latest /\ heights = listed
    /\ pc = "commit" => Following <= MaxVersion
    /\ pc = "commit" => \A s \in Stores \ todo : Following \in DOMAIN trees[s]
    /\ pc \in {"prune", "flush"} => version = Following /\ version <= MaxVersion
    /\ pc \in {"prune", "flush"} => \A s \in Stores : version \in DOMAIN trees[s]

\* What is saved and not flushed yet is of the current execution.
ForkInv == \A s \in Stores : \A v \in DOMAIN trees[s] : v > latest => trees[s][v] = fork

\* Only old versions are to be pruned, but for as much as rollbacks took back.
OldInv ==
    /\ \A h \in listed : Interval > 0 /\ Transient(h) /\ h <= latest - 1 - KeepRecent + fork
    /\ pc \in {"prune", "flush"} =>
           \A h \in heights : /\ Interval > 0 /\ Transient(h)
                              /\ h <= latest - KeepRecent \/ h <= latest - 1 - KeepRecent + fork

\* The old versions of store s are in hs, with `last` the last version.
Accounted(s, last, hs) ==
    \A v \in DOMAIN trees[s] : v < last - KeepRecent /\ Transient(v) => v \in hs

\* Versions to be pruned are listed, on disk for the version on disk and in
\* memory for the one that is being committed.
LeakInv ==
    Interval > 0 => \A s \in Stores :
        /\ Accounted(s, latest, listed)
        /\ pc = "prune" => Accounted(s, version, IF s \in todo THEN heights ELSE {})
        /\ pc = "flush" => Accounted(s, version, heights)

\* The inductive invariant.
RootInv == TypeOK /\ PhaseInv /\ LatestIsLoadable /\ StoresAgree /\ ForkInv /\ OldInv /\ LeakInv

-----------------------------------------------------------------------------
(* Facts about single definitions                                          *)

\* The height that a commit adds to the ones to be pruned.
LEMMA PruneHeightsIs ==
    ASSUME version \in Nat
    PROVE  \A h : h \in PruneHeights <=>
               Interval > 0 /\ KeepRecent < version /\ Transient(version - KeepRecent) /\ h = version - KeepRecent
  BY DEF PruneHeights, Transient

\* The heights to be pruned are below the version on disk: PruneStore takes
\* neither that version nor the one that is being committed.
LEMMA PrunedIsOlder ==
    ASSUME RollbacksAreRecent, RootInv, pc \in {"prune", "flush"}
    PROVE  \A h \in heights : h < latest /\ h < version
<1> SUFFICES ASSUME NEW h \in heights PROVE h < latest /\ h < version
  OBVIOUS
<1>1. KeepRecent > 0 /\ MaxRollbacks <= KeepRecent
  BY DEF RootInv, OldInv, RollbacksAreRecent
<1>2. fork \in Nat /\ fork <= KeepRecent /\ KeepRecent \in Nat /\ latest \in Nat /\ h \in Nat
  BY <1>1, RootMultiAssumption DEF RootInv, PhaseInv, TypeOK, Heights
<1>3. h <= latest - KeepRecent \/ h <= latest - 1 - KeepRecent + fork
  BY DEF RootInv, OldInv
<1>4. h < latest
  BY <1>1, <1>2, <1>3
<1>5. version = latest + 1
  BY <1>2, <1>4 DEF RootInv, PhaseInv, Following
<1>. QED
  BY <1>2, <1>4, <1>5

-----------------------------------------------------------------------------
(* The steps                                                               *)

\* A step that leaves the disk alone and ends the process, or finds nothing to
\* do, keeps what is said of the disk.
LEMMA DownStep ==
    ASSUME RootInv, UNCHANGED <<disk, fork, heights, version>>, pc' = "down", todo' = {}
    PROVE  RootInv'
  BY DEF RootInv, TypeOK, PhaseInv, LatestIsLoadable, Loadable, StoresAgree, ForkInv, OldInv,
         LeakInv, Accounted, Following, disk, Heights, Transient

\* A start finds the version of the last flush.
LEMMA LoadStep ==
    ASSUME RootInv, LoadLatestVersion
    PROVE  RootInv'
<1>1. /\ pc' = "idle" /\ version' = latest /\ heights' = listed /\ todo' = todo
      /\ UNCHANGED <<trees, latest, listed, fork>>
  BY DEF LoadLatestVersion, RootInv, LatestIsLoadable, disk
<1>. QED
  BY <1>1 DEF RootInv, TypeOK, PhaseInv, LatestIsLoadable, Loadable, StoresAgree, ForkInv, OldInv,
         LeakInv, Accounted, Following, Heights, Transient

\* Commit begins.
LEMMA StartStep ==
    ASSUME RootInv, StartCommit
    PROVE  RootInv'
<1>1. NextVersion = Following
  BY DEF StartCommit, RootInv, PhaseInv, NextVersion, Following
<1>. QED
  BY <1>1 DEF StartCommit, RootInv, TypeOK, PhaseInv, LatestIsLoadable, Loadable, StoresAgree, ForkInv, OldInv,
         LeakInv, Accounted, Following, disk, Heights, Transient

\* A store saves its version, which the current execution alone can have left
\* there before.
LEMMA SaveStep ==
    ASSUME RootInv, NEW s \in Stores, CommitStore(s)
    PROVE  RootInv'
<1>1. NextVersion = Following /\ Following \in Heights /\ Following > latest
  BY RootMultiAssumption DEF CommitStore, RootInv, TypeOK, PhaseInv, NextVersion, Following, Heights
<1>2. ~(NextVersion \in DOMAIN trees[s] /\ trees[s][NextVersion] # fork)
  BY <1>1 DEF RootInv, ForkInv
<1> DEFINE saved == [v \in DOMAIN trees[s] \cup {Following} |-> IF v = Following THEN fork ELSE trees[s][v]]
<1>3. /\ trees' = [trees EXCEPT ![s] = saved]
      /\ pc = "commit" /\ s \in todo
      /\ todo' = todo \ {s}
      /\ UNCHANGED <<pc, latest, listed, version, heights, fork>>
  BY <1>1, <1>2 DEF CommitStore
<1>4. /\ DOMAIN trees' = Stores
      /\ trees'[s] = saved
      /\ \A t \in Stores : t # s => trees'[t] = trees[t]
  BY <1>3 DEF RootInv, PhaseInv
<1>5. /\ DOMAIN trees'[s] = DOMAIN trees[s] \cup {Following}
      /\ trees'[s][Following] = fork
      /\ \A v \in DOMAIN trees[s] : v # Following => trees'[s][v] = trees[s][v]
  BY <1>4
<1> HIDE DEF saved
<1>6. TypeOK'
  BY <1>1, <1>3, <1>4, <1>5 DEF RootInv, TypeOK, Heights
<1>7. PhaseInv'
  BY <1>1, <1>3, <1>4, <1>5 DEF RootInv, TypeOK, PhaseInv, Following
<1>8. LatestIsLoadable'
  BY <1>3, <1>4, <1>5 DEF RootInv, LatestIsLoadable, Loadable
<1>9. ForkInv'
  BY <1>1, <1>3, <1>4, <1>5 DEF RootInv, ForkInv
<1>10. StoresAgree'
  <2>1. \A t \in Stores : \A v \in DOMAIN trees'[s] \cap DOMAIN trees'[t] : trees'[s][v] = trees'[t][v]
    BY <1>1, <1>3, <1>4, <1>5, <1>9 DEF RootInv, StoresAgree, ForkInv
  <2>. QED
    BY <2>1, <1>4 DEF RootInv, StoresAgree
<1>11. OldInv'
  BY <1>3 DEF RootInv, OldInv, Transient
<1>12. LeakInv'
  <2>1. ~(Following < latest - KeepRecent)
    BY <1>1, RootMultiAssumption DEF RootInv, TypeOK, Heights
  <2>. QED
    BY <2>1, <1>3, <1>4, <1>5 DEF RootInv, LeakInv, Accounted, Transient
<1>. QED
  BY <1>6, <1>7, <1>8, <1>9, <1>10, <1>11, <1>12 DEF RootInv

\* All stores have saved: the list in memory is that of the new version.
LEMMA CommittedStep ==
    ASSUME RootInv, StoresCommitted
    PROVE  RootInv'
<1>1. version = latest /\ heights = listed /\ version' = Following /\ Following <= MaxVersion /\ Following \in Nat
  BY RootMultiAssumption DEF StoresCommitted, RootInv, TypeOK, PhaseInv, NextVersion, Following
<1>2. /\ heights' = listed \cup PruneHeights
      /\ pc' \in {"prune", "flush"} /\ todo' \in {{}, Stores}
      /\ pc' = "prune" => todo' = Stores
      /\ pc = "commit" /\ todo = {}
      /\ UNCHANGED <<trees, latest, listed, fork>>
  BY <1>1 DEF StoresCommitted, disk
<1>3. \A h : h \in PruneHeights <=>
          Interval > 0 /\ KeepRecent < latest /\ Transient(latest - KeepRecent) /\ h = latest - KeepRecent
  BY <1>1, PruneHeightsIs DEF RootInv, TypeOK
<1>4. TypeOK'
  <2>1. PruneHeights \subseteq Heights
    BY <1>1, <1>3, RootMultiAssumption DEF RootInv, TypeOK, PhaseInv, Heights
  <2>. QED
    BY <2>1, <1>1, <1>2 DEF RootInv, TypeOK, Heights
<1>5. PhaseInv'
  BY <1>1, <1>2 DEF RootInv, PhaseInv, Following
<1>6. LatestIsLoadable' /\ StoresAgree' /\ ForkInv'
  BY <1>2 DEF RootInv, LatestIsLoadable, Loadable, StoresAgree, ForkInv
<1>7. OldInv'
  <2>1. \A h \in listed : Interval > 0 /\ Transient(h) /\ h <= latest - 1 - KeepRecent + fork
    BY DEF RootInv, OldInv
  <2>2. \A h \in PruneHeights : Interval > 0 /\ Transient(h) /\ h <= latest - KeepRecent
    BY <1>3, RootMultiAssumption DEF RootInv, TypeOK
  <2>. QED
    BY <2>1, <2>2, <1>2 DEF OldInv
<1>8. LeakInv'
  <2> SUFFICES ASSUME Interval > 0, NEW s \in Stores PROVE Accounted(s, version', heights')
    BY <1>2 DEF RootInv, LeakInv, Accounted, Transient
  <2> SUFFICES ASSUME NEW v \in DOMAIN trees[s], v < version' - KeepRecent, Transient(v)
               PROVE  v \in heights'
    BY <1>2 DEF Accounted
  <2>1. v \in Nat \ {0} /\ latest \in Nat /\ KeepRecent \in Nat
    BY RootMultiAssumption, SMTT(30) DEF RootInv, TypeOK, Heights
  <2>2. latest # 0
    BY <2>1, <1>1, RootMultiAssumption DEF RootInv, PhaseInv, Following
  <2>3. v < latest - KeepRecent \/ v = latest - KeepRecent
    BY <2>1, <2>2, <1>1, SMTT(30) DEF Following
  <2>4. CASE v < latest - KeepRecent
    BY <2>4, <1>2 DEF RootInv, LeakInv, Accounted
  <2>5. CASE v = latest - KeepRecent
    BY <2>5, <2>1, <1>2, <1>3
  <2>. QED
    BY <2>3, <2>4, <2>5
<1>. QED
  BY <1>4, <1>5, <1>6, <1>7, <1>8 DEF RootInv

\* A store is pruned: it keeps the version on disk and the new one.
LEMMA PruneStep ==
    ASSUME RollbacksAreRecent, RootInv, NEW s \in Stores, PruneStore(s)
    PROVE  RootInv'
<1>1. /\ trees' = [trees EXCEPT ![s] = DeleteVersions(trees[s], heights)]
      /\ pc = "prune" /\ s \in todo /\ todo' = todo \ {s}
      /\ UNCHANGED <<pc, latest, listed, version, heights, fork>>
  BY DEF PruneStore
<1>2. /\ DOMAIN trees' = Stores
      /\ \A t \in Stores : t # s => trees'[t] = trees[t]
      /\ DOMAIN trees'[s] = DOMAIN trees[s] \ heights
      /\ \A v \in DOMAIN trees'[s] : trees'[s][v] = trees[s][v]
  BY <1>1 DEF RootInv, PhaseInv, DeleteVersions, Restrict
<1>3. latest \notin heights /\ version \notin heights
  BY <1>1, PrunedIsOlder DEF RootInv, TypeOK
<1>4. TypeOK'
  BY <1>1, <1>2 DEF RootInv, TypeOK, Heights
<1>5. PhaseInv'
  BY <1>1, <1>2, <1>3 DEF RootInv, PhaseInv, Following
<1>6. LatestIsLoadable'
  BY <1>1, <1>2, <1>3 DEF RootInv, LatestIsLoadable, Loadable
<1>7. StoresAgree' /\ ForkInv'
  BY <1>1, <1>2 DEF RootInv, StoresAgree, ForkInv
<1>8. OldInv'
  BY <1>1 DEF RootInv, OldInv
<1>9. LeakInv'
  BY <1>1, <1>2, ZenonT(60) DEF RootInv, LeakInv, Accounted
<1>. QED
  BY <1>4, <1>5, <1>6, <1>7, <1>8, <1>9 DEF RootInv

\* All stores are pruned: the list in memory is emptied, the one on disk is not.
LEMMA PrunedStep ==
    ASSUME RootInv, StoresPruned
    PROVE  RootInv'
  BY DEF StoresPruned, RootInv, TypeOK, PhaseInv, LatestIsLoadable, Loadable, StoresAgree, ForkInv, OldInv,
         LeakInv, Accounted, Following, disk, Heights

\* The batch makes the new version and its list those on disk.
LEMMA FlushStep ==
    ASSUME RootInv, FlushMetadata
    PROVE  RootInv'
<1>1. /\ latest' = version /\ listed' = heights /\ pc = "flush" /\ pc' = "idle"
      /\ UNCHANGED <<trees, version, heights, todo, fork>>
  BY DEF FlushMetadata
<1>2. version = Following /\ version <= MaxVersion /\ version \in Nat \ {0} /\ version > latest
  BY <1>1, RootMultiAssumption DEF RootInv, TypeOK, PhaseInv, Following
<1>3. TypeOK' /\ PhaseInv'
  BY <1>1, <1>2 DEF RootInv, TypeOK, PhaseInv, Heights, Following
<1>4. LatestIsLoadable' /\ StoresAgree'
  BY <1>1 DEF RootInv, PhaseInv, LatestIsLoadable, Loadable, StoresAgree
<1>5. ForkInv'
  BY <1>1, <1>2 DEF RootInv, ForkInv, TypeOK, Heights
<1>6. OldInv'
  <2> SUFFICES ASSUME NEW h \in heights
               PROVE  Interval > 0 /\ Transient(h) /\ h <= version - 1 - KeepRecent + fork
    BY <1>1 DEF OldInv
  <2>1. /\ Interval > 0 /\ Transient(h)
        /\ h <= latest - KeepRecent \/ h <= latest - 1 - KeepRecent + fork
    BY <1>1 DEF RootInv, OldInv
  <2>2. h \in Nat /\ latest \in Nat /\ KeepRecent \in Nat /\ fork \in Nat
    BY RootMultiAssumption DEF RootInv, TypeOK, PhaseInv, Heights
  <2>. QED
    BY <2>1, <2>2, <1>2
<1>7. LeakInv'
  BY <1>1 DEF RootInv, LeakInv, Accounted
<1>. QED
  BY <1>3, <1>4, <1>5, <1>6, <1>7 DEF RootInv

\* A rollback leaves nothing of the execution that it takes back, neither the
\* last version nor what an interrupted commit saved after it.
LEMMA RollbackStep ==
    ASSUME RootInv, Rollback
    PROVE  RootInv'
<1>1. /\ version = latest /\ heights = listed /\ pc = "idle"
      /\ version > 1 /\ fork < MaxRollbacks
      /\ \A s \in Stores : version - 1 \in DOMAIN trees[s]
      /\ latest' = version - 1 /\ version' = version - 1 /\ listed' = heights /\ fork' = fork + 1
      /\ UNCHANGED <<pc, heights, todo>>
  BY DEF Rollback, RootInv, TypeOK, PhaseInv, Loadable
<1>2. /\ DOMAIN trees' = Stores
      /\ \A s \in Stores :
           /\ DOMAIN trees'[s] = {v \in DOMAIN trees[s] : v < latest}
           /\ \A v \in DOMAIN trees'[s] : trees'[s][v] = trees[s][v]
  BY <1>1 DEF Rollback, Restrict
<1>3. /\ latest \in Nat /\ fork \in Nat /\ KeepRecent \in Nat /\ MaxRollbacks \in Nat /\ MaxVersion \in Nat
      /\ \A s \in Stores : \A v \in DOMAIN trees[s] : v \in Nat
      /\ \A h \in listed : h \in Nat
  BY RootMultiAssumption DEF RootInv, TypeOK, PhaseInv, Heights
<1>4. TypeOK'
  BY <1>1, <1>2, <1>3 DEF RootInv, TypeOK, Heights
<1>5. PhaseInv'
  BY <1>1, <1>2, <1>3 DEF RootInv, PhaseInv
<1>6. LatestIsLoadable'
  BY <1>1, <1>2, <1>3 DEF LatestIsLoadable, Loadable
<1>7. StoresAgree'
  BY <1>2 DEF RootInv, StoresAgree
<1>8. ForkInv'
  BY <1>1, <1>2, <1>3 DEF ForkInv
<1>9. OldInv'
  <2>1. \A h \in listed : Interval > 0 /\ Transient(h) /\ h <= latest - 1 - KeepRecent + fork
    BY DEF RootInv, OldInv
  <2>. QED
    BY <2>1, <1>1, <1>3, SMTT(30) DEF OldInv
<1>10. LeakInv'
  BY <1>1, <1>2, <1>3 DEF RootInv, LeakInv, Accounted
<1>. QED
  BY <1>4, <1>5, <1>6, <1>7, <1>8, <1>9, <1>10, Zenon DEF RootInv

\* The prune command deletes only heights below the version on disk.
LEMMA PruneCommandStep ==
    ASSUME RootInv, PruneCommand
    PROVE  RootInv'
<1>1. pc = "idle" /\ latest > 0 /\ UNCHANGED <<latest, listed, pc, version, heights, todo, fork>>
  BY DEF PruneCommand, mem
<1>2. /\ DOMAIN trees' = Stores
      /\ \A s \in Stores :
           /\ DOMAIN trees'[s] \subseteq DOMAIN trees[s]
           /\ latest \in DOMAIN trees[s] => latest \in DOMAIN trees'[s]
           /\ \A v \in DOMAIN trees'[s] : trees'[s][v] = trees[s][v]
  <2> DEFINE hs == {h \in 1 .. latest : h < latest - KeepRecent}
  <2>1. latest \notin hs
    BY RootMultiAssumption DEF RootInv, TypeOK
  <2>2. trees' = trees \/ trees' = [s \in Stores |-> DeleteVersions(trees[s], hs)]
    BY DEF PruneCommand
  <2> HIDE DEF hs
  <2>3. CASE trees' = trees
    BY <2>3 DEF RootInv, PhaseInv
  <2>4. CASE trees' = [s \in Stores |-> DeleteVersions(trees[s], hs)]
    <3>1. DOMAIN trees' = Stores
      BY <2>4
    <3>2. ASSUME NEW s \in Stores
          PROVE  trees'[s] = [v \in DOMAIN trees[s] \ hs |-> trees[s][v]]
      BY <2>4 DEF DeleteVersions, Restrict
    <3>. QED
      BY <3>1, <3>2, <2>1, ZenonT(60)
  <2>. QED
    BY <2>2, <2>3, <2>4
<1>3. TypeOK'
  BY <1>1, <1>2 DEF RootInv, TypeOK, Heights
<1>4. PhaseInv'
  BY <1>1, <1>2 DEF RootInv, PhaseInv
<1>5. LatestIsLoadable' /\ StoresAgree' /\ ForkInv'
  BY <1>1, <1>2 DEF RootInv, LatestIsLoadable, Loadable, StoresAgree, ForkInv
<1>6. OldInv' /\ LeakInv'
  BY <1>1, <1>2 DEF RootInv, OldInv, LeakInv, Accounted
<1>. QED
  BY <1>3, <1>4, <1>5, <1>6 DEF RootInv

-----------------------------------------------------------------------------
(* The theorems                                                            *)

\* A step of anything but the multistore.
LEMMA StutterStep ==
    ASSUME RootInv, UNCHANGED vars
    PROVE  RootInv'
  BY DEF vars, mem, disk, RootInv, TypeOK, PhaseInv, LatestIsLoadable, Loadable, StoresAgree, ForkInv, OldInv,
         LeakInv, Accounted, Following, Heights

\* Every step of the multistore keeps the invariant.
LEMMA RootStep ==
    ASSUME RollbacksAreRecent, RootInv, [Next]_vars
    PROVE  RootInv'
<1>1. CASE Crash
  BY <1>1, DownStep DEF Crash, disk
<1>2. ASSUME Commit PROVE RootInv'
  BY <1>2, StartStep, SaveStep, CommittedStep, PruneStep, PrunedStep, FlushStep, ZenonT(60) DEF Commit
<1>. QED
  BY <1>1, <1>2, LoadStep, RollbackStep, PruneCommandStep, StutterStep DEF Next

\* A new node has nothing on disk.
LEMMA RootInit == Init => RootInv
  BY RootMultiAssumption DEF Init, NoVersions, RootInv, TypeOK, PhaseInv, LatestIsLoadable, Loadable, StoresAgree, ForkInv,
         OldInv, LeakInv, Accounted, Following, Heights

\* A step of the node is one of its multistore, or leaves it alone.
LEMMA NodeStep ==
    ASSUME [NodeNext]_nodeVars
    PROVE  [Next]_vars
  BY DEF NodeNext, NodeCommit, Start, Respond, Snapshot, SnapshotFails, Next, Commit, nodeVars

\* The invariant holds of every node, with any blocks and snapshots around it.
LEMMA RootInvHolds ==
    ASSUME RollbacksAreRecent
    PROVE  NodeSpec => []RootInv
<1>1. NodeInit => RootInv
  BY RootInit DEF NodeInit
<1>2. RootInv /\ [NodeNext]_nodeVars => RootInv'
  BY RootStep, NodeStep
<1>. QED
  BY <1>1, <1>2, PTL DEF NodeSpec

\* Commit saves, prunes and flushes in an order such that a crash anywhere, or
\* a rollback, leaves stores that agree, a version on disk that can be loaded
\* and no old version that is not listed to be pruned.
THEOREM CrashesAreSurvived ==
    ASSUME RollbacksAreRecent
    PROVE  NodeSpec => []StoresAreSound
<1>1. RootInv => StoresAreSound
  <2>1. RootInv => NothingLeaks
    BY DEF RootInv, TypeOK, LeakInv, Accounted, NothingLeaks, Transient
  <2>. QED
    BY <2>1, Zenon DEF RootInv, StoresAreSound
<1>. QED
  BY <1>1, RootInvHolds, PTL

\* What PruneStores deletes in Commit is older than KeepRecent versions and not
\* to be kept, as long as the node is rolled back at most once: the list that
\* was loaded from disk is never ahead of the options.
THEOREM RecentVersionsStay ==
    ASSUME RollbacksAreRecent, MaxRollbacks <= 1
    PROVE  NodeSpec => PrunesOnlyOld
<1> DEFINE Safe == \A s \in Stores : PruneStore(s) =>
                      \A v \in DOMAIN trees[s] \ DOMAIN trees'[s] :
                          v < version - KeepRecent /\ (KeepEvery > 0 => v % KeepEvery # 0)
<1>1. RootInv => Safe
  <2> SUFFICES ASSUME RootInv, NEW s \in Stores, PruneStore(s), NEW v \in DOMAIN trees[s] \ DOMAIN trees'[s]
               PROVE  v < version - KeepRecent /\ (KeepEvery > 0 => v % KeepEvery # 0)
    OBVIOUS
  <2>1. pc = "prune" /\ v \in heights
    BY DEF PruneStore, DeleteVersions, Restrict, RootInv, PhaseInv
  <2>2. /\ Transient(v)
        /\ v <= latest - KeepRecent \/ v <= latest - 1 - KeepRecent + fork
    BY <2>1, Zenon DEF RootInv, OldInv
  <2>3. v \in Nat /\ latest \in Nat /\ KeepRecent \in Nat /\ fork \in 0 .. 1
    BY <2>1, RootMultiAssumption, SMTT(30) DEF RootInv, TypeOK, PhaseInv, Heights
  <2>4. version = latest + 1
    BY <2>1, PrunedIsOlder, <2>3, SMTT(30) DEF RootInv, PhaseInv, Following
  <2>5. v < version - KeepRecent
    BY <2>2, <2>3, <2>4, SMTT(30)
  <2>. QED
    BY <2>2, <2>5, RootMultiAssumption DEF Transient
<1>2. RootInv /\ [NodeNext]_nodeVars => [Safe]_vars
  BY <1>1
<1>. QED
  BY <1>2, RootInvHolds, PTL DEF NodeSpec, PrunesOnlyOld

-----------------------------------------------------------------------------
(* Upgrades and cosmovisor.                                                *)

\* The types of the chain, the node and cosmovisor.
TypeInv ==
    /\ CosmovisorTypeOK
    /\ minor \subseteq Upgrades
    /\ proposed \in 0..MaxUpgrades
    /\ message \in 0..MaxUpgrades /\ found \in 0..MaxUpgrades
    /\ ran \in [1..MaxBlock -> Int]
    /\ cv \in {"switch", "relink"} => found # 0
    /\ cv # "wait" => node = "off"

\* What governance and BeginBlocker keep of the chain.  Upgrades are done in
\* the order of their names, and a plan names the latest one proposed.
ChainInv ==
    /\ plan # NoPlan => plan.name = proposed /\ done[plan.name] = 0 /\ tip < MaxBlock
    /\ \A i \in Upgrades : done[i] <= tip /\ (done[i] # 0 => i <= proposed)
    /\ \A i, j \in Upgrades : i < j /\ done[i] # 0 /\ done[j] # 0 => done[i] < done[j]
    /\ (\A i \in Upgrades : done[i] = 0) \/ \E i \in Upgrades : \A j \in Upgrades : done[j] <= done[i]

\* Upgrade i is due, the node has halted for it and left its file.
Ready(i) ==
    /\ plan.name = i /\ ShouldExecute /\ ~IsSkipHeight
    /\ dumped = [name |-> i, height |-> Height]

\* A major upgrade that may still be applied: from the message to the running
\* process, nothing leads to its binary before it is due, and no block was run
\* by it.
PendingInv ==
    \A i \in Upgrades \ minor : i = proposed /\ done[i] = 0 =>
        /\ link = i => Ready(i)
        /\ node # "off" /\ bin = i => Ready(i) /\ migrated = i
        /\ cv \in {"wait", "waited"} /\ message = i => Ready(i)
        /\ cv \in {"wait", "waited", "switch", "relink"} /\ found = i => Ready(i)
        /\ \A h \in 1..tip : ran[h] # i

\* No binary is newer than the latest upgrade proposed.
BinariesInv ==
    /\ link <= proposed /\ bin <= proposed /\ message <= proposed /\ found <= proposed
    /\ \A h \in 1..tip : ran[h] <= proposed

\* The inductive invariant.
UpgradeInv == TypeInv /\ ChainInv /\ PendingInv /\ BinariesInv /\ SwitchedExactly

----------------------------------------------------------------------------
(* The chain *)

\* The upgrade done last has the highest name of all that are done.
LEMMA LastIsHighest ==
    ASSUME TypeInv, ChainInv, NEW j \in Upgrades, done[j] # 0
    PROVE  /\ GetLastCompletedUpgrade \in Upgrades
           /\ j <= GetLastCompletedUpgrade
<1>1. PICK i \in Upgrades : \A k \in Upgrades : done[k] <= done[i]
  BY DEF ChainInv
<1>2. GetLastCompletedUpgrade = CHOOSE x \in Upgrades : \A k \in Upgrades : done[k] <= done[x]
  BY DEF GetLastCompletedUpgrade
<1>3. /\ GetLastCompletedUpgrade \in Upgrades
      /\ \A k \in Upgrades : done[k] <= done[GetLastCompletedUpgrade]
  BY <1>1, <1>2
<1>4. done[GetLastCompletedUpgrade] # 0
  BY <1>3 DEF TypeInv, CosmovisorTypeOK
<1>5. ~(GetLastCompletedUpgrade < j)
  BY <1>3, <1>4, UpgradeAssumption DEF ChainInv, TypeInv, CosmovisorTypeOK, Upgrades
<1> QED
  BY <1>3, <1>5, UpgradeAssumption DEF Upgrades

\* BeginBlocker lets a block run only in a binary that has all upgrades that
\* are done after it.
LEMMA BinaryIsRecent ==
    ASSUME UpgradeInv, ExecuteBlock, NEW j \in Upgrades, done'[j] # 0
    PROVE  bin >= j
<1>0. bin \in Int /\ j \in Int /\ plan.name \in Int
  BY UpgradeAssumption DEF UpgradeInv, TypeInv, CosmovisorTypeOK, Upgrades, NoPlan
<1>1. CASE ShouldExecute /\ ~IsSkipHeight
  <2>1. HasHandler(plan.name) /\ plan # NoPlan
    BY <1>1 DEF ExecuteBlock, UpgradeNeeded, ShouldExecute
  <2>2. bin >= plan.name /\ plan.name = proposed
    BY <1>0, <2>1 DEF HasHandler, UpgradeInv, ChainInv
  <2>3. j = plan.name \/ done[j] # 0
    BY <1>1 DEF ExecuteBlock, ApplyUpgrade, UpgradeInv, TypeInv, CosmovisorTypeOK
  <2>4. done[j] # 0 => j <= proposed
    BY DEF UpgradeInv, ChainInv
  <2> QED
    BY <1>0, <2>2, <2>3, <2>4
<1>2. CASE ~(ShouldExecute /\ ~IsSkipHeight)
  <2>1. done[j] # 0
    BY <1>2 DEF ExecuteBlock, ApplyUpgrade
  <2>2. GetLastCompletedUpgrade \in Upgrades /\ j <= GetLastCompletedUpgrade
    BY <2>1, LastIsHighest DEF UpgradeInv
  <2>3. HasHandler(GetLastCompletedUpgrade)
    BY <1>2, <2>2, UpgradeAssumption DEF ExecuteBlock, WrongVersion, Upgrades
  <2> QED
    BY <1>0, <2>2, <2>3, UpgradeAssumption DEF HasHandler, Upgrades
<1> QED
  BY <1>1, <1>2

\* The binary that applies an upgrade is the one named after it.
LEMMA AppliedByItsBinary ==
    ASSUME UpgradeInv, ExecuteBlock, ShouldExecute, ~IsSkipHeight
    PROVE  bin = plan.name /\ plan.name = proposed /\ plan.name \in Upgrades /\ done[plan.name] = 0
<1>1. plan # NoPlan /\ HasHandler(plan.name)
  BY DEF ExecuteBlock, UpgradeNeeded, ShouldExecute
<1>2. plan.name = proposed /\ done[plan.name] = 0 /\ plan.name \in Upgrades /\ bin <= proposed /\ bin \in Int
  BY <1>1, UpgradeAssumption DEF UpgradeInv, ChainInv, BinariesInv, TypeInv, CosmovisorTypeOK
<1> QED
  BY <1>1, <1>2, UpgradeAssumption DEF HasHandler, Upgrades

\* No block is run by the binary of a pending upgrade but the one that applies it.
LEMMA PendingDoesNotRun ==
    ASSUME UpgradeInv, ExecuteBlock, NEW i \in Upgrades \ minor, i = proposed, done[i] = 0, done'[i] = 0
    PROVE  bin # i /\ ~Ready(i)
<1>1. node # "off"
  BY DEF ExecuteBlock
<1>2. bin = i => Ready(i)
  BY <1>1 DEF UpgradeInv, PendingInv
<1>3. ~Ready(i)
  <2>1. SUFFICES ASSUME Ready(i) PROVE FALSE
    BY SMTT(30)
  <2>2. ShouldExecute /\ ~IsSkipHeight /\ plan.name = i
    BY <2>1 DEF Ready
  <2>3. done' = [done EXCEPT ![i] = Height]
    BY <2>2, Zenon DEF ExecuteBlock, ApplyUpgrade
  <2> QED
    BY <2>3, UpgradeAssumption DEF UpgradeInv, TypeInv, CosmovisorTypeOK, Height
<1> QED
  BY <1>2, <1>3

\* What a block leaves of the plan, and of what was ever proposed.
LEMMA PlanAfter ==
    ASSUME UpgradeInv, ExecuteBlock
    PROVE  /\ plan' \in [name : Upgrades, height : 1..MaxBlock] \cup {NoPlan}
           /\ proposed' \in 0..MaxUpgrades /\ proposed <= proposed'
           /\ plan' # NoPlan => plan'.name = proposed' /\ done'[plan'.name] = 0 /\ tip' < MaxBlock
<1> DEFINE kept == IF ShouldExecute THEN NoPlan ELSE plan
<1>1. /\ plan \in [name : Upgrades, height : 1..MaxBlock] \cup {NoPlan}
      /\ proposed \in 0..MaxUpgrades /\ tip \in 0..MaxBlock
      /\ plan # NoPlan => plan.name = proposed /\ done[plan.name] = 0
  BY DEF UpgradeInv, TypeInv, CosmovisorTypeOK, ChainInv
<1>2. plan' \in Decisions(kept, done')
  BY SMTT(30) DEF ExecuteBlock
<1>3. CASE plan' = NoPlan
  BY <1>1, <1>3, UpgradeAssumption, SMTT(30) DEF ExecuteBlock, NoPlan
<1>4. CASE plan' = plan /\ ~ShouldExecute /\ plan # NoPlan
  <2>1. tip' < plan.height /\ plan.height \in 1..MaxBlock /\ tip' = tip + 1
    BY <1>1, <1>4, UpgradeAssumption DEF ExecuteBlock, ShouldExecute, Height
  <2>2. tip' < MaxBlock
    BY <1>1, <2>1, UpgradeAssumption
  <2> QED
    BY <1>1, <1>4, <2>2, UpgradeAssumption, SMTT(30) DEF ExecuteBlock, ApplyUpgrade, Upgrades
<1>5. CASE /\ plan' \in [name : Upgrades, height : Height..MaxBlock] /\ Height < MaxBlock
           /\ plan'.name >= proposed /\ done'[plan'.name] = 0
  <2>1. plan' \in [name : Upgrades, height : 1..MaxBlock]
    BY <1>1, <1>5, UpgradeAssumption DEF Height
  <2>2. proposed' = plan'.name
    BY <1>1, <1>5, UpgradeAssumption DEF ExecuteBlock, Upgrades
  <2>3. tip' < MaxBlock
    BY <1>5, SMTT(30) DEF ExecuteBlock
  <2> QED
    BY <1>1, <1>5, <2>1, <2>2, <2>3, UpgradeAssumption DEF Upgrades
<1> QED
  BY <1>2, <1>3, <1>4, <1>5, Zenon DEF Decisions

\* A block that BeginBlocker lets run keeps the types.
LEMMA BlockTypes ==
    ASSUME UpgradeInv, NodeRuns
    PROVE  TypeInv'
<1>1. ExecuteBlock /\ UNCHANGED supervisorVars
  BY DEF NodeRuns
<1>2. tip \in 0..MaxBlock /\ tip < MaxBlock /\ tip' = tip + 1 /\ tip' \in 0..MaxBlock /\ Height \in 1..MaxBlock
  BY <1>1, UpgradeAssumption DEF ExecuteBlock, Height, UpgradeInv, TypeInv, CosmovisorTypeOK
<1>3. done' \in [Upgrades -> 0..MaxBlock]
  BY <1>1, <1>2, UpgradeAssumption, Zenon DEF ExecuteBlock, ApplyUpgrade, UpgradeInv, TypeInv, CosmovisorTypeOK
<1>4. ran' \in [1..MaxBlock -> Int]
  BY <1>1, <1>2, UpgradeAssumption DEF ExecuteBlock, UpgradeInv, TypeInv, CosmovisorTypeOK
<1>5. plan' \in [name : Upgrades, height : 1..MaxBlock] \cup {NoPlan} /\ proposed' \in 0..MaxUpgrades
  BY <1>1, PlanAfter
<1>6. UNCHANGED <<minor, skips, node, bin, link, cv, message, found>>
  BY <1>1 DEF ExecuteBlock, supervisorVars
<1> QED
  BY <1>2, <1>3, <1>4, <1>5, <1>6 DEF UpgradeInv, TypeInv, CosmovisorTypeOK

\* A block keeps the order of the upgrades and of the plan: ScheduleUpgrade
\* refuses a name that is done, and ApplyUpgrade clears the plan it applies.
LEMMA BlockChain ==
    ASSUME UpgradeInv, ExecuteBlock
    PROVE  ChainInv'
<1>1. /\ tip' = Height /\ Height = tip + 1 /\ tip \in Nat
      /\ done \in [Upgrades -> Nat] /\ proposed \in Int /\ proposed' \in Int /\ proposed <= proposed'
  BY PlanAfter, UpgradeAssumption DEF ExecuteBlock, Height, UpgradeInv, TypeInv, CosmovisorTypeOK
<1>2. /\ \A i \in Upgrades : done[i] <= tip /\ (done[i] # 0 => i <= proposed)
      /\ \A i, j \in Upgrades : i < j /\ done[i] # 0 /\ done[j] # 0 => done[i] < done[j]
      /\ (\A i \in Upgrades : done[i] = 0) \/ \E i \in Upgrades : \A j \in Upgrades : done[j] <= done[i]
  BY DEF UpgradeInv, ChainInv
<1>3. plan' # NoPlan => plan'.name = proposed' /\ done'[plan'.name] = 0 /\ tip' < MaxBlock
  BY PlanAfter
<1>4. CASE ~(ShouldExecute /\ ~IsSkipHeight)
  <2>1. done' = done
    BY <1>4 DEF ExecuteBlock, ApplyUpgrade
  <2>2. \A i \in Upgrades : done'[i] <= tip' /\ (done'[i] # 0 => i <= proposed')
    BY <1>1, <1>2, <2>1, UpgradeAssumption, SMTT(30) DEF Upgrades
  <2> QED
    BY <1>2, <1>3, <2>1, <2>2 DEF ChainInv
<1>5. CASE ShouldExecute /\ ~IsSkipHeight
  <2>1. plan.name = proposed /\ plan.name \in Upgrades /\ done[plan.name] = 0
    BY <1>5, AppliedByItsBinary
  <2>2. done' = [done EXCEPT ![plan.name] = Height]
    BY <1>5 DEF ExecuteBlock, ApplyUpgrade
  <2>3. \A i \in Upgrades : done'[i] <= tip' /\ (done'[i] # 0 => i <= proposed')
    BY <1>1, <1>2, <2>1, <2>2, UpgradeAssumption, SMTT(30) DEF Upgrades
  <2>4. \A i, j \in Upgrades : i < j /\ done'[i] # 0 /\ done'[j] # 0 => done'[i] < done'[j]
    BY <1>1, <1>2, <2>1, <2>2, UpgradeAssumption, SMTT(30) DEF Upgrades
  <2>5. \A j \in Upgrades : done'[j] <= done'[plan.name]
    BY <1>1, <1>2, <2>1, <2>2
  <2> QED
    BY <1>3, <2>1, <2>3, <2>4, <2>5, SMTT(30) DEF ChainInv
<1> QED
  BY <1>4, <1>5, Zenon

\* After a block nothing leads to the binary of an upgrade that is pending then.
LEMMA BlockPending ==
    ASSUME UpgradeInv, NodeRuns
    PROVE  PendingInv'
<1>1. ExecuteBlock /\ UNCHANGED <<cv, link, message, found, node, bin, migrated, minor>>
  BY Zenon DEF NodeRuns, ExecuteBlock, supervisorVars
<1>2. SUFFICES ASSUME NEW i \in Upgrades \ minor, i = proposed', done'[i] = 0
      PROVE  /\ link # i /\ bin # i
             /\ cv \in {"wait", "waited"} => message # i
             /\ cv \in {"wait", "waited", "switch", "relink"} => found # i
             /\ \A h \in 1..tip' : ran'[h] # i
  BY <1>1, Zenon DEF PendingInv
<1>3. /\ tip' = tip + 1 /\ tip \in Nat /\ tip < MaxBlock /\ ran' = [ran EXCEPT ![tip + 1] = bin]
      /\ proposed \in Int /\ proposed <= proposed' /\ ran \in [1..MaxBlock -> Int]
  BY <1>1, PlanAfter, UpgradeAssumption, SMTT(30) DEF ExecuteBlock, Height, UpgradeInv, TypeInv, CosmovisorTypeOK
<1>4. done[i] = 0
  <2>1. done \in [Upgrades -> Nat] /\ Height # 0
    BY <1>3, UpgradeAssumption DEF UpgradeInv, TypeInv, CosmovisorTypeOK, Height
  <2>2. done' = done \/ done' = [done EXCEPT ![plan.name] = Height]
    BY <1>1 DEF ExecuteBlock, ApplyUpgrade
  <2> QED
    BY <1>2, <2>1, <2>2
<1>5. /\ link <= proposed /\ bin <= proposed /\ message <= proposed /\ found <= proposed
      /\ \A h \in 1..tip : ran[h] <= proposed
      /\ link \in Int /\ bin \in Int /\ message \in Int /\ found \in Int /\ i \in Int
  BY UpgradeAssumption DEF UpgradeInv, BinariesInv, TypeInv, CosmovisorTypeOK, NoLink, Upgrades
<1>6. CASE proposed < i
  BY <1>3, <1>5, <1>6, UpgradeAssumption
<1>7. CASE proposed = i
  <2>1. bin # i /\ ~Ready(i)
    BY <1>1, <1>2, <1>7, <1>4, PendingDoesNotRun, ZenonT(60)
  <2>2. /\ link # i
        /\ cv \in {"wait", "waited"} => message # i
        /\ cv \in {"wait", "waited", "switch", "relink"} => found # i
        /\ \A h \in 1..tip : ran[h] # i
    BY <1>2, <1>4, <1>7, <2>1 DEF UpgradeInv, PendingInv
  <2> QED
    BY <1>3, <2>1, <2>2, UpgradeAssumption, SMTT(30)
<1> QED
  BY <1>2, <1>3, <1>5, <1>6, <1>7, SMTT(30)

\* A block, whether it applies an upgrade or not, is run by a binary that has
\* exactly the upgrades done by then.
LEMMA BlockSwitched ==
    ASSUME UpgradeInv, NodeRuns
    PROVE  BinariesInv' /\ SwitchedExactly'
<1>1. ExecuteBlock /\ UNCHANGED <<link, message, found, bin, minor>>
  BY ZenonT(60) DEF NodeRuns, ExecuteBlock, supervisorVars
<1>2. /\ tip' = tip + 1 /\ tip \in Nat /\ tip < MaxBlock /\ ran' = [ran EXCEPT ![tip + 1] = bin]
      /\ proposed \in Int /\ proposed' \in Int /\ proposed <= proposed' /\ ran \in [1..MaxBlock -> Int]
      /\ link \in Int /\ bin \in Int /\ message \in Int /\ found \in Int
      /\ done \in [Upgrades -> Nat]
  BY <1>1, PlanAfter, UpgradeAssumption
     DEF ExecuteBlock, Height, UpgradeInv, TypeInv, CosmovisorTypeOK, NoLink
<1>3. BinariesInv'
  BY <1>1, <1>2, UpgradeAssumption DEF UpgradeInv, BinariesInv
<1>4. ASSUME NEW i \in Upgrades, done'[i] # 0, NEW h \in 1..tip'
      PROVE  (h >= done'[i] => ran'[h] >= i) /\ (h < done'[i] /\ i \notin minor' => ran'[h] < i)
  <2>1. bin >= i
    BY <1>1, <1>4, BinaryIsRecent, Zenon
  <2>2. CASE done'[i] = done[i]
    <3>1. done[i] <= tip
      BY DEF UpgradeInv, ChainInv
    <3>2. h # tip + 1 => (h >= done[i] => ran[h] >= i) /\ (h < done[i] /\ i \notin minor => ran[h] < i)
      BY <1>2, <1>4, <2>2, SMTT(30) DEF UpgradeInv, SwitchedExactly
    <3> QED
      BY <1>1, <1>2, <1>4, <2>1, <2>2, <3>1, <3>2, UpgradeAssumption, SMTT(30)
  <2>3. CASE done'[i] # done[i]
    <3>1. ShouldExecute /\ ~IsSkipHeight /\ done' = [done EXCEPT ![plan.name] = Height]
      BY <1>1, <2>3, SMTT(30) DEF ExecuteBlock, ApplyUpgrade
    <3>2. plan.name = i /\ proposed = i /\ done[i] = 0 /\ done'[i] = tip + 1
      BY <1>1, <1>2, <2>3, <3>1, AppliedByItsBinary, Zenon DEF Height
    <3>3. i \notin minor => \A g \in 1..tip : ran[g] # i /\ ran[g] <= i
      BY <3>2 DEF UpgradeInv, PendingInv, BinariesInv
    <3> QED
      BY <1>1, <1>2, <1>4, <2>1, <3>2, <3>3, UpgradeAssumption, SMTT(30) DEF Upgrades
  <2> QED
    BY <2>2, <2>3
<1>5. CosmovisorTypeOK'
  BY BlockTypes DEF TypeInv
<1> QED
  BY <1>3, <1>4, <1>5, Zenon DEF SwitchedExactly

----------------------------------------------------------------------------
(* The node's process and its supervisor *)

\* A step after which the chain is what it was, upgrades that were ready are,
\* and each way to a binary comes from another that the invariant speaks of.
LEMMA SupervisorKeeps ==
    ASSUME UpgradeInv, TypeInv',
           UNCHANGED <<minor, tip, plan, done, proposed, ran>>,
           link' <= proposed, bin' <= proposed, message' <= proposed, found' <= proposed,
           ASSUME NEW i \in Upgrades \ minor, i = proposed, done[i] = 0
           PROVE  /\ link' = i => Ready(i)'
                  /\ node' # "off" /\ bin' = i => Ready(i)' /\ migrated' = i
                  /\ cv' \in {"wait", "waited"} /\ message' = i => Ready(i)'
                  /\ cv' \in {"wait", "waited", "switch", "relink"} /\ found' = i => Ready(i)'
    PROVE  UpgradeInv'
<1>1. ChainInv'
  BY Zenon DEF UpgradeInv, ChainInv
<1>2. PendingInv'
  BY DEF UpgradeInv, PendingInv
<1>3. BinariesInv'
  BY Zenon DEF UpgradeInv, BinariesInv
<1>4. SwitchedExactly'
  BY DEF UpgradeInv, SwitchedExactly, TypeInv
<1> QED
  BY <1>1, <1>2, <1>3, <1>4, Zenon DEF UpgradeInv

\* A step that leaves the node and its files alone.
LEMMA SupervisorStep ==
    ASSUME UpgradeInv, UNCHANGED upgradeVars, TypeInv',
           link' = link \/ link' <= 0 \/ link' \in minor \/ (cv = "relink" /\ link' = found), link' <= proposed,
           message' = message,
           found' = found \/ (cv \in {"wait", "waited"} /\ found' = message),
           cv' \in {"wait", "waited"} => cv \in {"wait", "waited"},
           cv' \in {"wait", "waited", "switch", "relink"} => cv \in {"wait", "waited", "switch", "relink"}
    PROVE  UpgradeInv'
<1>1. UNCHANGED <<minor, tip, plan, done, proposed, ran, bin, node, migrated, dumped, skips>>
  BY DEF upgradeVars
<1>2. bin' <= proposed /\ message' <= proposed /\ found' <= proposed
  BY <1>1, Zenon DEF UpgradeInv, BinariesInv
<1>3. ASSUME NEW i \in Upgrades \ minor, i = proposed, done[i] = 0
      PROVE  /\ link' = i => Ready(i)'
             /\ node' # "off" /\ bin' = i => Ready(i)' /\ migrated' = i
             /\ cv' \in {"wait", "waited"} /\ message' = i => Ready(i)'
             /\ cv' \in {"wait", "waited", "switch", "relink"} /\ found' = i => Ready(i)'
  <2>1. Ready(i)' <=> Ready(i)
    BY <1>1, Zenon DEF Ready, ShouldExecute, IsSkipHeight, Height
  <2>2. /\ link = i => Ready(i)
        /\ node # "off" /\ bin = i => Ready(i) /\ migrated = i
        /\ cv \in {"wait", "waited"} /\ message = i => Ready(i)
        /\ cv \in {"wait", "waited", "switch", "relink"} /\ found = i => Ready(i)
    BY <1>3, Zenon DEF UpgradeInv, PendingInv
  <2>3. ~(i <= 0)
    BY <1>3, UpgradeAssumption DEF Upgrades
  <2> QED
    BY <1>1, <1>3, <2>1, <2>2, <2>3, ZenonT(60)
<1> QED
  BY <1>1, <1>2, <1>3, SupervisorKeeps

\* A step after which the node is off.
LEMMA StopStep ==
    ASSUME UpgradeInv, StopNode, UNCHANGED <<link, dirs, message, found>>, cv' \in {cv, "down"}
    PROVE  UpgradeInv'
<1>1. UNCHANGED <<minor, tip, plan, done, proposed, ran, bin, migrated, dumped, skips>> /\ node' = "off"
  BY ZenonT(60) DEF StopNode
<1>2. TypeInv'
  BY <1>1 DEF UpgradeInv, TypeInv, CosmovisorTypeOK
<1>3. link' <= proposed /\ bin' <= proposed /\ message' <= proposed /\ found' <= proposed
  BY <1>1, Zenon DEF UpgradeInv, BinariesInv
<1>4. ASSUME NEW i \in Upgrades \ minor, i = proposed, done[i] = 0
      PROVE  /\ link' = i => Ready(i)'
             /\ node' # "off" /\ bin' = i => Ready(i)' /\ migrated' = i
             /\ cv' \in {"wait", "waited"} /\ message' = i => Ready(i)'
             /\ cv' \in {"wait", "waited", "switch", "relink"} /\ found' = i => Ready(i)'
  <2>1. Ready(i)' <=> Ready(i)
    BY <1>1 DEF Ready, ShouldExecute, IsSkipHeight, Height
  <2> QED
    BY <1>1, <1>4, <2>1, ZenonT(60) DEF UpgradeInv, PendingInv
<1> QED
  BY <1>1, <1>2, <1>3, <1>4, SupervisorKeeps

\* The process that starts has loaded the stores of an upgrade that is ready.
LEMMA LaunchStep ==
    ASSUME UpgradeInv, LaunchProcess
    PROVE  UpgradeInv'
<1>1. /\ UNCHANGED <<minor, tip, plan, done, proposed, ran, dumped, skips, dirs>>
      /\ link' = CurrentBin /\ bin' = CurrentBin /\ node' = "on" /\ cv' = "wait" /\ message' = 0 /\ found' = 0
  BY Zenon DEF LaunchProcess, StartNode
<1>2. CurrentBin \in 0..MaxUpgrades /\ CurrentBin <= proposed /\ proposed \in 0..MaxUpgrades
      /\ (CurrentBin # 0 => CurrentBin = link)
  BY UpgradeAssumption, SMTT(30) DEF CurrentBin, NoLink, UpgradeInv, BinariesInv, TypeInv, CosmovisorTypeOK
<1>3. TypeInv'
  BY <1>1, <1>2, UpgradeAssumption DEF UpgradeInv, TypeInv, CosmovisorTypeOK, NoLink
<1>4. link' <= proposed /\ bin' <= proposed /\ message' <= proposed /\ found' <= proposed
  BY <1>1, <1>2, UpgradeAssumption, SMTT(30)
<1>5. ASSUME NEW i \in Upgrades \ minor, i = proposed, done[i] = 0
      PROVE  /\ link' = i => Ready(i)'
             /\ node' # "off" /\ bin' = i => Ready(i)' /\ migrated' = i
             /\ cv' \in {"wait", "waited"} /\ message' = i => Ready(i)'
             /\ cv' \in {"wait", "waited", "switch", "relink"} /\ found' = i => Ready(i)'
  <2>1. Ready(i)' <=> Ready(i)
    BY <1>1 DEF Ready, ShouldExecute, IsSkipHeight, Height
  <2>2. i # 0
    BY UpgradeAssumption DEF Upgrades
  <2>3. CurrentBin = i => Ready(i)
    BY <1>2, <1>5, <2>2, Zenon DEF UpgradeInv, PendingInv
  <2>4. CurrentBin = i => migrated' = i
    BY <2>2, <2>3 DEF LaunchProcess, StartNode, Ready
  <2> QED
    BY <1>1, <2>1, <2>2, <2>3, <2>4, Zenon
<1> QED
  BY <1>1, <1>3, <1>4, <1>5, SupervisorKeeps, Zenon

\* The node halts: it has written the file before the message can be read.
LEMMA HaltStep ==
    ASSUME UpgradeInv, NodeHalts
    PROVE  UpgradeInv'
<1>1. UNCHANGED <<minor, tip, plan, done, proposed, ran, bin, migrated, skips, cv, link, found>>
  BY DEF NodeHalts, PanicUpgradeNeeded, PanicWrongBinary
<1>2. node' \in {"needed", "wrong"} /\ node = "on" /\ cv = "wait"
  BY Zenon DEF NodeHalts, PanicUpgradeNeeded, PanicWrongBinary
<1>3. \/ message' = message /\ dumped' = dumped
      \/ /\ UpgradeNeeded /\ message' = plan.name /\ plan.name = proposed /\ plan.name \in Upgrades
         /\ dumped' = [name |-> plan.name, height |-> Height]
  BY Zenon DEF NodeHalts, PanicUpgradeNeeded, PanicWrongBinary, DumpUpgradeInfo, UpgradeNeeded, ShouldExecute,
         UpgradeInv, ChainInv, TypeInv, CosmovisorTypeOK
<1>4. TypeInv'
  <2>1. message' \in 0..MaxUpgrades
    BY <1>3, UpgradeAssumption, Zenon DEF UpgradeInv, TypeInv, Upgrades
  <2> QED
    BY <1>1, <1>2, <2>1, Zenon DEF UpgradeInv, TypeInv, CosmovisorTypeOK
<1>5. link' <= proposed /\ bin' <= proposed /\ message' <= proposed /\ found' <= proposed
  BY <1>1, <1>3, UpgradeAssumption, SMTT(30) DEF UpgradeInv, BinariesInv, Upgrades
<1>6. ASSUME NEW i \in Upgrades \ minor, i = proposed, done[i] = 0
      PROVE  /\ link' = i => Ready(i)'
             /\ node' # "off" /\ bin' = i => Ready(i)' /\ migrated' = i
             /\ cv' \in {"wait", "waited"} /\ message' = i => Ready(i)'
             /\ cv' \in {"wait", "waited", "switch", "relink"} /\ found' = i => Ready(i)'
  <2>1. Ready(i) => Ready(i)'
    BY <1>1, <1>3 DEF Ready, ShouldExecute, IsSkipHeight, Height
  <2>2. message' = i => Ready(i)'
    <3>1. CASE message' = message
      BY <1>2, <1>6, <2>1, <3>1, Zenon DEF UpgradeInv, PendingInv
    <3>2. CASE message' # message
      BY <1>1, <1>3, <3>2 DEF Ready, UpgradeNeeded, ShouldExecute, IsSkipHeight, Height
    <3> QED
      BY <3>1, <3>2, Zenon
  <2> QED
    BY <1>1, <1>2, <1>6, <2>1, <2>2, ZenonT(60) DEF UpgradeInv, PendingInv
<1> QED
  BY <1>1, <1>4, <1>5, <1>6, SupervisorKeeps, Zenon

\* Nothing leads to the binary of an upgrade that is skipped.
LEMMA SkipStep ==
    ASSUME UpgradeInv, SkipUpgrade
    PROVE  UpgradeInv'
<1>1. /\ UNCHANGED <<minor, tip, plan, done, proposed, ran, bin, migrated, dumped, node, cv, link, message, found>>
      /\ cv = "down" /\ link # plan.name /\ ShouldExecute /\ skips' = skips \cup {Height}
  BY Zenon DEF SkipUpgrade, supervisorVars
<1>2. node = "off" /\ plan.name = proposed
  BY <1>1 DEF UpgradeInv, TypeInv, ChainInv, ShouldExecute
<1>3. Height \in 1..MaxBlock
  <2>1. tip \in 0..MaxBlock /\ tip < MaxBlock
    BY <1>1, ZenonT(60) DEF UpgradeInv, TypeInv, CosmovisorTypeOK, ChainInv, ShouldExecute
  <2> QED
    BY <2>1, UpgradeAssumption, SMTT(30) DEF Height
<1>4. TypeInv'
  BY <1>1, <1>3 DEF UpgradeInv, TypeInv, CosmovisorTypeOK
<1>5. link' <= proposed /\ bin' <= proposed /\ message' <= proposed /\ found' <= proposed
  BY <1>1, ZenonT(60) DEF UpgradeInv, BinariesInv
<1>6. ASSUME NEW i \in Upgrades \ minor, i = proposed, done[i] = 0
      PROVE  /\ link' = i => Ready(i)'
             /\ node' # "off" /\ bin' = i => Ready(i)' /\ migrated' = i
             /\ cv' \in {"wait", "waited"} /\ message' = i => Ready(i)'
             /\ cv' \in {"wait", "waited", "switch", "relink"} /\ found' = i => Ready(i)'
  BY <1>1, <1>2, <1>6, SMTT(30)
<1> QED
  BY <1>1, <1>4, <1>5, <1>6, SupervisorKeeps, Zenon

\* Every step keeps the invariant.
LEMMA StepInv ==
    ASSUME UpgradeInv, [CosmovisorNext]_cosmovisorVars
    PROVE  UpgradeInv'
<1> DEFINE Alone ==
       /\ UNCHANGED upgradeVars
       /\ link' = link \/ link' <= 0 \/ link' \in minor \/ (cv = "relink" /\ link' = found)
       /\ link' <= proposed
       /\ message' = message
       /\ found' = found \/ (cv \in {"wait", "waited"} /\ found' = message)
       /\ cv' \in {"wait", "waited"} => cv \in {"wait", "waited"}
       /\ cv' \in {"wait", "waited", "switch", "relink"} => cv \in {"wait", "waited", "switch", "relink"}
<1>1. Alone /\ TypeInv' => UpgradeInv'
  BY SupervisorStep, ZenonT(60)
<1>2. /\ link <= proposed /\ found <= proposed /\ plan.name <= proposed
      /\ message \in 0..MaxUpgrades /\ found \in 0..MaxUpgrades /\ link \in NoLink..MaxUpgrades
      /\ NoLink <= proposed /\ NoLink <= 0 /\ NoLink \in NoLink..MaxUpgrades /\ minor \subseteq Upgrades
  BY UpgradeAssumption, SMTT(30) DEF UpgradeInv, BinariesInv, ChainInv, TypeInv, CosmovisorTypeOK, NoLink, NoPlan
<1>3. ASSUME UNCHANGED <<link, message, found>>, UNCHANGED upgradeVars,
             cv' \in {"down", "launch", "waited", "switch"}, cv # "wait" \/ node = "off",
             cv' = "waited" => cv = "wait", cv' = "switch" => cv \in {"waited", "switch"} /\ found # 0
      PROVE  UpgradeInv'
  <2>1. TypeInv'
    BY <1>3 DEF UpgradeInv, TypeInv, CosmovisorTypeOK, upgradeVars
  <2> QED
    BY <1>1, <1>2, <1>3, <2>1, ZenonT(60)
<1>4. CASE LaunchProcess
  BY <1>4, LaunchStep, SMTT(30)
<1>5. CASE WaitForUpdate
  <2>1. TypeInv'
    BY <1>2, <1>5, Zenon DEF WaitForUpdate, UpgradeInv, TypeInv, CosmovisorTypeOK, upgradeVars
  <2> QED
    BY <1>1, <1>2, <1>5, <2>1, ZenonT(60) DEF WaitForUpdate
<1>6. CASE Kill \/ NodeExits \/ OperatorStops \/ MachineFails
  BY <1>6, StopStep, Zenon DEF Kill, NodeExits, OperatorStops, MachineFails
<1>7. CASE WaitForExit
  BY <1>3, <1>7 DEF WaitForExit
<1>8. CASE AsResult
  BY <1>3, <1>8 DEF AsResult
<1>9. CASE DownloadBinary
  <2>1. cv = "switch" /\ cv' \in {"switch", "down"} /\ UNCHANGED <<upgradeVars, link, message, found>>
    BY <1>9 DEF DownloadBinary
  <2>2. found # 0
    BY <2>1 DEF UpgradeInv, TypeInv
  <2> QED
    BY <1>3, <2>1, <2>2
<1>10. CASE WontOverwrite \/ StartCosmovisor
  BY <1>3, <1>10, SMTT(30) DEF WontOverwrite, StartCosmovisor
<1>11. CASE RemoveLink
  <2>1. TypeInv'
    BY <1>2, <1>11, Zenon DEF RemoveLink, UpgradeInv, TypeInv, CosmovisorTypeOK, upgradeVars
  <2> QED
    BY <1>1, <1>2, <1>11, <2>1, Zenon DEF RemoveLink
<1>12. CASE Symlink
  <2>1. TypeInv'
    BY <1>2, <1>12, UpgradeAssumption, SMTT(30) DEF Symlink, UpgradeInv, TypeInv, CosmovisorTypeOK, upgradeVars, NoLink
  <2> QED
    BY <1>1, <1>2, <1>12, <2>1, ZenonT(60) DEF Symlink
<1>13. CASE ProvideBinary
  <2>1. UNCHANGED <<upgradeVars, cv, link, message, found>>
    BY <1>13, ZenonT(60) DEF ProvideBinary
  <2>2. TypeInv'
    BY <2>1, SMTT(30) DEF UpgradeInv, TypeInv, CosmovisorTypeOK, upgradeVars
  <2> QED
    BY <1>1, <1>2, <2>1, <2>2
<1>14. CASE SwitchToMinor
  <2>1. UNCHANGED <<upgradeVars, cv, message, found>> /\ link' = plan.name /\ plan.name \in minor
    BY <1>14, ZenonT(60) DEF SwitchToMinor
  <2>2. minor \subseteq Upgrades
    BY <1>2, Zenon DEF UpgradeInv, TypeInv
  <2>3. link' \in Upgrades
    BY <2>1, <2>2, Zenon
  <2>4. link' \in NoLink..MaxUpgrades
    BY <2>3, UpgradeAssumption DEF NoLink, Upgrades
  <2>5. TypeInv'
    BY <2>1, <2>4, Zenon DEF UpgradeInv, TypeInv, CosmovisorTypeOK, upgradeVars
  <2> QED
    BY <1>1, <1>2, <2>1, <2>5, Zenon
<1>15. CASE SkipUpgrade
  BY <1>15, SkipStep
<1>16. CASE NodeRuns
  BY <1>16, BlockTypes, BlockChain, BlockPending, BlockSwitched DEF UpgradeInv, NodeRuns
<1>17. CASE NodeHalts
  BY <1>17, HaltStep
<1>18. CASE UNCHANGED cosmovisorVars
  <2>1. UNCHANGED <<upgradeVars, cv, link, message, found>>
    BY <1>18 DEF cosmovisorVars, supervisorVars
  <2>2. TypeInv'
    BY <2>1 DEF UpgradeInv, TypeInv, CosmovisorTypeOK, upgradeVars
  <2> QED
    BY <1>1, <1>2, <2>1, <2>2
<1> QED
  BY <1>4, <1>5, <1>6, <1>7, <1>8, <1>9, <1>10, <1>11, <1>12, <1>13, <1>14, <1>15, <1>16, <1>17, <1>18, Zenon
  DEF CosmovisorNext, SupervisorSteps

\* A new chain with the binary of genesis.
LEMMA InitInv ==
    ASSUME CosmovisorInit
    PROVE  UpgradeInv
<1>1. TypeInv
  <2>1. minor \subseteq Upgrades
    BY DEF CosmovisorInit, UpgradeInit
  <2>2. done \in [Upgrades -> 0..MaxBlock] /\ ran \in [1..MaxBlock -> Int]
    BY UpgradeAssumption DEF CosmovisorInit, UpgradeInit
  <2>3. tip \in 0..MaxBlock /\ bin \in 0..MaxUpgrades /\ link \in NoLink..MaxUpgrades /\ proposed \in 0..MaxUpgrades
    BY UpgradeAssumption, SMTT(30) DEF CosmovisorInit, UpgradeInit, NoLink
  <2> QED
    BY <2>1, <2>2, <2>3, UpgradeAssumption, Zenon DEF CosmovisorInit, UpgradeInit, TypeInv, CosmovisorTypeOK
<1>2. ChainInv
  BY UpgradeAssumption, SMTT(30) DEF CosmovisorInit, UpgradeInit, ChainInv, NoPlan, Upgrades
<1>3. PendingInv
  BY UpgradeAssumption DEF CosmovisorInit, UpgradeInit, PendingInv, Upgrades, NoLink
<1>4. BinariesInv
  BY UpgradeAssumption, SMTT(30) DEF CosmovisorInit, UpgradeInit, BinariesInv, NoLink
<1>5. SwitchedExactly
  BY <1>1 DEF CosmovisorInit, UpgradeInit, SwitchedExactly, TypeInv
<1> QED
  BY <1>1, <1>2, <1>3, <1>4, <1>5 DEF UpgradeInv

\* The invariant holds in every state of the chain and its supervisor.
LEMMA UpgradeInvHolds == CosmovisorSpec => []UpgradeInv
<1>1. CosmovisorInit => UpgradeInv
  BY InitInv
<1>2. UpgradeInv /\ [CosmovisorNext]_cosmovisorVars => UpgradeInv'
  BY StepInv
<1> QED
  BY <1>1, <1>2, PTL DEF CosmovisorSpec

\* BeginBlocker, with the file it leaves and cosmovisor around it, lets each
\* block be run only by binaries that have exactly the upgrades done by then,
\* for any number of upgrades, blocks, exits and failures.
THEOREM BinariesAreSwitched == CosmovisorSpec => []SwitchedExactly
<1>1. UpgradeInv => SwitchedExactly
  BY DEF UpgradeInv
<1> QED
  BY <1>1, UpgradeInvHolds, PTL

\* The process in which ApplyUpgrade runs the handler of a major upgrade is one
\* whose UpgradeStoreLoader has changed the stores for it.
THEOREM HandlersFindTheirStores == CosmovisorSpec => StoresAreMigrated
<1>1. ASSUME UpgradeInv, [CosmovisorNext]_cosmovisorVars
      PROVE  [\A i \in Upgrades \ minor : done'[i] # done[i] => migrated = i]_cosmovisorVars
  <2>1. SUFFICES ASSUME NEW i \in Upgrades \ minor, done'[i] # done[i]
        PROVE  migrated = i
    BY SMTT(30)
  <2>2. ExecuteBlock
    BY <1>1, <2>1, ZenonT(60) DEF CosmovisorNext, SupervisorSteps, cosmovisorVars, upgradeVars, LaunchProcess, StartNode,
       WaitForUpdate, Kill, StopNode, NodeExits, OperatorStops, MachineFails, WaitForExit, AsResult,
       DownloadBinary, WontOverwrite, StartCosmovisor, RemoveLink, Symlink, ProvideBinary, SwitchToMinor,
       SkipUpgrade, NodeRuns, NodeHalts, PanicUpgradeNeeded, PanicWrongBinary
  <2>3. ShouldExecute /\ ~IsSkipHeight /\ done' = [done EXCEPT ![plan.name] = Height]
    BY <2>1, <2>2, Zenon DEF ExecuteBlock, ApplyUpgrade
  <2>4. bin = plan.name /\ plan.name = proposed /\ done[plan.name] = 0 /\ plan.name = i
    BY <1>1, <2>1, <2>2, <2>3, AppliedByItsBinary, Zenon DEF UpgradeInv, TypeInv, CosmovisorTypeOK
  <2>5. node # "off"
    BY <2>2 DEF ExecuteBlock
  <2> QED
    BY <1>1, <2>1, <2>4, <2>5, Zenon DEF UpgradeInv, PendingInv
<1> QED
  BY <1>1, UpgradeInvHolds, PTL DEF CosmovisorSpec, StoresAreMigrated

=============================================================================
