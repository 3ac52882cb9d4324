---------------------------- MODULE MC_Publication ----------------------------
(* Two runs of one job: a snapshot, the same in both, and a summary each.  *)
EXTENDS Publication

TwoRuns == {1, 2}
SixArtifacts == 1..6
RegularOf == <<{1, 2}, {4, 5}>>
RecordOf == <<3, 6>>
Contents == <<"snapshot", "summary1", "record1", "snapshot", "summary2", "record2">>
AllBlobs == {Contents[n] : n \in Artifacts}
OneJob == <<"job", "job">>

OnlySummaries == {2, 5}
BlobOf == [o \in Ops |-> Contents[o]]

=============================================================================
