---------------------------- MODULE MC_MapdlSession ----------------------------
(* The calls are interchangeable.                                          *)
EXTENDS MapdlSession, TLC

CallerSymmetry == Permutations(Callers)

=============================================================================
