----------------------------- MODULE MC_HotFolder -----------------------------
(* Manifests for the runs of HotFolder: two of one submission, an invalid  *)
(* one, an empty one.                                                      *)
EXTENDS HotFolder

Ours == {"first", "changed", "invalid", "empty"}
OursValid == {"first", "changed"}
OursEmpty == {"empty"}
OurIds == [m \in Ours |-> IF m \in OursValid THEN "one" ELSE "other"]

=============================================================================
