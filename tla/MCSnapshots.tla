---------------------------- MODULE MCSnapshots -----------------------------
EXTENDS SnapshotRestore

\* The invariants of the restore and of the snapshot store as they are checked:
\* one goroutine restores at a time, and a snapshot that is listed, or that a
\* peer is served from, is whole and of its height.
SnapshotsAreWhole == TypeOK /\ RestoreTypeOK /\ OneRestorer /\ ListedIsWhole /\ ServedIsWhole

\* Every create, prune, restore and RestoreChunk comes to its end.
OperationsEnd == OperationEnds /\ RestoreChunkReturns

=============================================================================
