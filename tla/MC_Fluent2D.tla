------------------------------ MODULE MC_Fluent2D ------------------------------
(* Runners and manifests are alike: no property names one of them.         *)
EXTENDS Fluent2DCase, TLC

Alike == Permutations(Runners) \cup Permutations(Manifests)

=============================================================================
