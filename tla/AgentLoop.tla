------------------------------ MODULE AgentLoop ------------------------------
(***************************************************************************)
(* The persistent agent (agent.py): processes that start, take the         *)
(* dispatcher lock, repeat the cycle and end at a signal or at the stop    *)
(* marker.  Marker and status are two files that all of them, the operator *)
(* and `health` share without any lock.                                    *)
(***************************************************************************)
EXTENDS Integers, FiniteSets

CONSTANTS
    Agents,         \* processes of the `agent` command
    StartBound,     \* bound of the model: starts
    StopBound,      \* bound of the model: stop requests, by marker or signal
    DeathBound,     \* bound of the model: deaths
    NoAgent

ASSUME AgentAssumption ==
    /\ NoAgent \notin Agents
    /\ {StartBound, StopBound, DeathBound} \subseteq Nat

VARIABLES
    at,         \* where each process is in AgentLoop.run
    pid,        \* its process id, a fresh one per start
    once,       \* started with --once
    signalled,  \* its stop_event
    lock,       \* who holds the dispatcher lock
    marker,     \* agent.stop.json exists
    status,     \* agent.status.json: a state and the process that wrote it
    alone,      \* no process was started beside another one so far
    starts, stops, deaths   \* counters for the bounds

files == <<marker, status>>
counters == <<starts, stops, deaths>>
vars == <<at, pid, once, signalled, lock, files, alone, counters>>

Places == {"off", "clear", "unlink", "starting", "lock", "running", "test",
           "cycle", "report", "wait", "unlock", "clean", "remove", "stopped"}
Looping == {"running", "test", "cycle", "report", "wait"}

Goes(a, place) == at' = [at EXCEPT ![a] = place]

Init ==
    /\ at = [a \in Agents |-> "off"]
    /\ pid = [a \in Agents |-> 0]
    /\ once \in [Agents -> BOOLEAN]
    /\ signalled = [a \in Agents |-> FALSE]
    /\ lock = NoAgent
    /\ marker \in BOOLEAN
    /\ status = [state |-> "absent", by |-> 0]
    /\ alone = TRUE
    /\ starts = 0 /\ stops = 0 /\ deaths = 0

-----------------------------------------------------------------------------
Start(a) ==
    /\ at[a] = "off" /\ starts < StartBound
    /\ starts' = starts + 1
    /\ pid' = [pid EXCEPT ![a] = starts + 1]
    /\ Goes(a, "clear")
    /\ alone' = (alone /\ \A b \in Agents : at[b] = "off")
    /\ UNCHANGED <<once, signalled, lock, files, stops, deaths>>

\* is_file and unlink are two calls; unlink raises when the file is gone.
Looks(a, from, found, absent) ==
    /\ at[a] = from
    /\ Goes(a, IF marker THEN found ELSE absent)
    /\ UNCHANGED <<pid, once, signalled, lock, files, alone, counters>>

\* What is left of a process that ended: nothing but the files.
Ends(a) ==
    /\ Goes(a, "off")
    /\ signalled' = [signalled EXCEPT ![a] = FALSE]

Unlinks(a, from, next) ==
    /\ at[a] = from
    /\ \/ /\ marker
          /\ marker' = FALSE
          /\ Goes(a, next)
          /\ UNCHANGED signalled
       \/ /\ ~marker
          /\ Ends(a)
          /\ UNCHANGED marker
    /\ UNCHANGED <<pid, once, lock, status, alone, counters>>

Writes(a, from, state, next) ==
    /\ at[a] = from
    /\ status' = [state |-> state, by |-> pid[a]]
    /\ Goes(a, next)
    /\ UNCHANGED <<pid, once, signalled, lock, marker, alone, counters>>

\* The agent that starts removes a marker that is left over.
ClearMarker(a) == Looks(a, "clear", "unlink", "starting")
UnlinkMarker(a) == Unlinks(a, "unlink", "starting")
WriteStarting(a) == Writes(a, "starting", "STARTING", "lock")

\* Seeded fault: the lock is not exclusive.
TakeLock_Shared(a) ==
    /\ at[a] = "lock"
    /\ lock' = a
    /\ Goes(a, "running")
    /\ UNCHANGED <<pid, once, signalled, files, alone, counters>>

TakeLock(a) ==
    /\ at[a] = "lock" /\ lock = NoAgent
    /\ lock' = a
    /\ Goes(a, "running")
    /\ UNCHANGED <<pid, once, signalled, files, alone, counters>>

\* ResourceUnavailable: another dispatcher owns the lock.
LockRefused(a) ==
    /\ at[a] = "lock" /\ lock # NoAgent
    /\ Ends(a)
    /\ UNCHANGED <<pid, once, lock, files, alone, counters>>

WriteRunning(a) == Writes(a, "running", "RUNNING", "test")

\* Seeded fault: only the event is looked at.
StopRequested_EventOnly(a) == signalled[a]

StopRequested(a) == signalled[a] \/ marker

Test(a) ==
    /\ at[a] = "test"
    /\ Goes(a, IF StopRequested(a) THEN "unlock" ELSE "cycle")
    /\ UNCHANGED <<pid, once, signalled, lock, files, alone, counters>>

\* The cycle returns or raises; both are reported and the loop goes on.
Cycle(a) ==
    /\ at[a] = "cycle"
    /\ Goes(a, "report")
    /\ UNCHANGED <<pid, once, signalled, lock, files, alone, counters>>

Report(a) == Writes(a, "report", "RUNNING", IF once[a] THEN "unlock" ELSE "wait")

\* The wait ends at the poll interval or at a stop request.
WaitEnds(a) ==
    /\ at[a] = "wait"
    /\ Goes(a, "test")
    /\ UNCHANGED <<pid, once, signalled, lock, files, alone, counters>>

ReleaseLock(a) ==
    /\ at[a] = "unlock"
    /\ lock' = NoAgent
    /\ Goes(a, "clean")
    /\ UNCHANGED <<pid, once, signalled, files, alone, counters>>

CleanMarker(a) == Looks(a, "clean", "remove", "stopped")
RemoveMarker(a) == Unlinks(a, "remove", "stopped")

WriteStopped(a) ==
    /\ at[a] = "stopped"
    /\ status' = [state |-> "STOPPED", by |-> pid[a]]
    /\ Ends(a)
    /\ UNCHANGED <<pid, once, lock, marker, alone, counters>>

-----------------------------------------------------------------------------
\* agent-stop writes the marker, whoever runs.
RequestStop ==
    /\ stops < StopBound
    /\ stops' = stops + 1
    /\ marker' = TRUE
    /\ UNCHANGED <<at, pid, once, signalled, lock, status, alone, starts, deaths>>

\* SIGINT or SIGTERM; the handler is installed before the loop begins.
Signal(a) ==
    /\ at[a] # "off" /\ stops < StopBound
    /\ stops' = stops + 1
    /\ signalled' = [signalled EXCEPT ![a] = TRUE]
    /\ UNCHANGED <<at, pid, once, lock, files, alone, starts, deaths>>

Dies(a) ==
    /\ at[a] # "off" /\ deaths < DeathBound
    /\ deaths' = deaths + 1
    /\ Ends(a)
    /\ lock' = IF lock = a THEN NoAgent ELSE lock
    /\ UNCHANGED <<pid, once, files, alone, starts, stops>>

Runs(a) ==
    \/ ClearMarker(a) \/ UnlinkMarker(a) \/ WriteStarting(a)
    \/ TakeLock(a) \/ LockRefused(a) \/ WriteRunning(a)
    \/ Test(a) \/ Cycle(a) \/ Report(a) \/ WaitEnds(a)
    \/ ReleaseLock(a) \/ CleanMarker(a) \/ RemoveMarker(a) \/ WriteStopped(a)

Next ==
    \/ \E a \in Agents : Start(a) \/ Runs(a) \/ Signal(a) \/ Dies(a)
    \/ RequestStop

Spec == Init /\ [][Next]_vars

\* A started process runs on; cycles and waits end.
FairSpec == Spec /\ \A a \in Agents : WF_vars(Runs(a))

-----------------------------------------------------------------------------
(* The type of every variable; requests die with the process they were     *)
(* made to, and every status was written by a process that started.        *)
TypeOK ==
    /\ at \in [Agents -> Places]
    /\ pid \in [Agents -> 0..StartBound]
    /\ once \in [Agents -> BOOLEAN] /\ signalled \in [Agents -> BOOLEAN]
    /\ lock \in Agents \cup {NoAgent}
    /\ marker \in BOOLEAN
    /\ status \in [state : {"absent", "STARTING", "RUNNING", "STOPPED"},
                   by : 0..StartBound]
    /\ alone \in BOOLEAN
    /\ starts \in 0..StartBound /\ stops \in 0..StopBound
    /\ deaths \in 0..DeathBound
    /\ \A a \in Agents : signalled[a] => at[a] # "off"
    /\ status.by <= starts /\ (status.by = 0 <=> status.state = "absent")

(* At most one process is in the dispatcher loop, whatever starts, dies    *)
(* and stops beside it.                                                    *)
SingleDispatcher == Cardinality({a \in Agents : at[a] \in Looping}) <= 1

\* Seeded fault: the pid of the status is not looked for.
HealthState_PidIgnored == IF status.state = "absent" THEN "STOPPED" ELSE status.state

\* What `health` reports: a RUNNING status whose process is gone is STALE.
Alive(p) == \E a \in Agents : at[a] # "off" /\ pid[a] = p

HealthState ==
    CASE status.state = "absent" -> "STOPPED"
      [] status.state = "RUNNING" /\ ~Alive(status.by) -> "STALE"
      [] OTHER -> status.state

(* With one agent at a time, health shows RUNNING from the first status of *)
(* its loop to the last of its process: never for a dead one, or for a new *)
(* one that has not taken the lock yet.                                    *)
HealthIsTruthful ==
    LET Reports(a) == at[a] \in Looping \ {"running"}
    IN  alone =>
          /\ (\E a \in Agents : Reports(a)) => HealthState = "RUNNING"
          /\ (\A a \in Agents : at[a] \in {"off", "clear", "unlink", "starting",
                                            "lock", "running"})
                => HealthState # "RUNNING"

(* A stop request is never lost and never overheard: once marker or signal *)
(* has reached an agent that loops alone, it stays until the loop is left, *)
(* and the cycle at hand, if there is one, is the last to be begun.        *)
StopIsKept ==
    [][\A a \in Agents : at[a] \in Looping /\ StopRequested(a) /\ alone' =>
          /\ StopRequested(a)' \/ at'[a] \notin Looping
          /\ at'[a] = "cycle" => at[a] = "cycle"]_vars

(* The marker ends an agent that loops, at whatever point of the loop it   *)
(* was written, unless a second agent was started beside the first.        *)
StopIsHonoured ==
    \A a \in Agents : marker /\ at[a] \in Looping ~> at[a] \notin Looping \/ ~alone

=============================================================================
