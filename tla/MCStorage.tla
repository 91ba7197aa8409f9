------------------------------ MODULE MCStorage ------------------------------
\* The root multistore with the blocks and snapshots of the node around it.
\* The configurations leave out those in which a constraint on the blocks is
\* exactly zero above KeepEvery, which counts as not set.
EXTENDS Retention

CONSTANTS s1, s2

Configurations ==
    {q \in [minRetain : {1, 3}, maxAge : {0, 2, 3}, interval : {0, 3}, keepRecent : 0 .. 2] :
        /\ <<q.minRetain, q.maxAge>> \in {<<1, 0>>, <<1, 3>>, <<3, 2>>}
        /\ q.interval = 0 <=> q.keepRecent = 0
        /\ q.keepRecent = 2 => q.maxAge > 0}

\* Pruning takes only versions that are old enough, and never a block or a
\* version that evidence, the replay after a crash or an export needs.
PruningIsSafe == [](RetentionTypeOK /\ EvidenceIsAuditable /\ ReplayIsPossible /\ ExportedIsKept) /\ PrunesOnlyOld

=============================================================================
