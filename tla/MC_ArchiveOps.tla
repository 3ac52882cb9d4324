----------------------------- MODULE MC_ArchiveOps -----------------------------
(* Model values and symmetry for the runs of ArchiveOps.                   *)
EXTENDS ArchiveOps, TLC

TwoOps == {1, 2}

\* Artifacts of different contents.
EachItsOwn == [o \in Ops |-> o]

\* Agent is told apart by Fairness only, which Spec does without.
DrainerSymmetry == Permutations(Drainers)

=============================================================================
