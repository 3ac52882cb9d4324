--------------------------- MODULE MC_ResourceGate ---------------------------
(* A machine and requests for the run of ResourceGate.                     *)
EXTENDS ResourceGate, TLC

Ask(cpu, memory) == [k \in Host |-> IF k = "cpu" THEN cpu ELSE memory]
License(n) == [k \in {"solver"} |-> n]
Other(n) == [k \in {"other"} |-> n]

\* Two cpus, four units of memory, one solver license.
Machine == Ask(2, 4) @@ License(1)

\* Small, large, licensed and hopeless requests, and two that name a feature
\* nobody configured.
Mixed == {Ask(1, 1), Ask(2, 2), Ask(1, 2) @@ License(1), Ask(3, 1),
          Ask(1, 1) @@ License(1) @@ Other(0), Ask(1, 1) @@ Other(1)}

=============================================================================
