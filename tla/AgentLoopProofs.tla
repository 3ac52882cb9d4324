---------------------------- MODULE AgentLoopProofs ----------------------------
(* What AgentLoop promises for every set of processes and every number of  *)
(* starts, stops and deaths.                                               *)
EXTENDS AgentLoop, FiniteSetTheorems, TLAPS

\* A process that runs has an id of its own start.
PidsAreIssued == \A a \in Agents : at[a] # "off" => pid[a] \in 1..starts

\* The dispatcher lock is held from its acquisition to its release.
LockIsHeld == \A a \in Agents : at[a] \in Looping \cup {"unlock"} <=> lock = a

\* alone means what it says.
AloneIsAlone ==
    alone => \A a, b \in Agents : at[a] # "off" /\ at[b] # "off" => a = b

\* What the status file says while a process runs alone.
StatusFollows ==
    \A a \in Agents :
        /\ at[a] \in {"clear", "unlink", "starting"} /\ alone => status.by # pid[a]
        /\ at[a] \in {"lock", "running"} /\ alone => status.state = "STARTING"
        /\ at[a] \in (Looping \ {"running"}) \cup {"unlock", "clean", "remove", "stopped"}
              /\ alone => status = [state |-> "RUNNING", by |-> pid[a]]

AgentInv == TypeOK /\ PidsAreIssued /\ LockIsHeld /\ AloneIsAlone /\ StatusFollows

LEMMA AgentInit == Init => AgentInv
  BY AgentAssumption
     DEF AgentAssumption, Init, AgentInv, TypeOK, PidsAreIssued, LockIsHeld,
         AloneIsAlone, StatusFollows, Places, Looping

\* The actions of AgentLoop.run that only move the process on.
Moves(a) ==
    \/ ClearMarker(a) \/ Test(a) \/ Cycle(a) \/ WaitEnds(a) \/ CleanMarker(a)

LEMMA AgentStep == AgentInv /\ [Next]_vars => AgentInv'
  <1> SUFFICES ASSUME AgentInv, [Next]_vars PROVE AgentInv'
    OBVIOUS
  <1> USE AgentAssumption
      DEF AgentAssumption, AgentInv, TypeOK, PidsAreIssued, LockIsHeld,
          AloneIsAlone, StatusFollows, Places, Looping, files, counters
  <1>1. ASSUME NEW a \in Agents, Start(a) PROVE AgentInv'
    <2> DEFINE fresh == starts + 1
    <2>1. /\ at[a] = "off" /\ fresh \in 1..StartBound /\ starts' = fresh
          /\ pid' = [pid EXCEPT ![a] = fresh] /\ at' = [at EXCEPT ![a] = "clear"]
          /\ alone' = (alone /\ \A b \in Agents : at[b] = "off")
          /\ UNCHANGED <<once, signalled, lock, marker, status, stops, deaths>>
      BY <1>1 DEF Start, Goes
    <2>2. /\ at'[a] = "clear" /\ pid'[a] = fresh
          /\ \A b \in Agents : b # a => at'[b] = at[b] /\ pid'[b] = pid[b]
      BY <2>1
    <2>3. TypeOK'
      <3>1. /\ at' \in [Agents -> Places] /\ pid' \in [Agents -> 0..StartBound]
        BY <2>1
      <3>2. \A b \in Agents : signalled'[b] => at'[b] # "off"
        BY <2>1, <2>2
      <3>3. starts' \in 0..StartBound /\ status.by <= starts' /\ alone' \in BOOLEAN
        BY <2>1
      <3> QED
        BY <2>1, <3>1, <3>2, <3>3
    <2>4. PidsAreIssued'
      <3> SUFFICES ASSUME NEW b \in Agents, at'[b] # "off"
                   PROVE  pid'[b] \in 1..starts'
        OBVIOUS
      <3> QED
        BY <2>1, <2>2
    <2>5. LockIsHeld' /\ AloneIsAlone'
      BY <2>1, <2>2
    <2>6. StatusFollows'
      <3>1. status'.by # pid'[a]
        BY <2>1, <2>2
      <3>2. ASSUME NEW b \in Agents, b # a, alone' PROVE at'[b] = "off"
        BY <3>2, <2>1, <2>2
      <3> QED
        BY <2>2, <3>1, <3>2
    <2> QED
      BY <2>3, <2>4, <2>5, <2>6
  <1>2. ASSUME NEW a \in Agents, Moves(a) PROVE AgentInv'
    BY <1>2 DEF Moves, ClearMarker, Test, Cycle, WaitEnds, CleanMarker, Looks, Goes
  <1>3. ASSUME NEW a \in Agents, UnlinkMarker(a) \/ RemoveMarker(a) PROVE AgentInv'
    <2>1. PICK place \in {"starting", "stopped"} :
              /\ at[a] = (IF place = "starting" THEN "unlink" ELSE "remove")
              /\ Unlinks(a, at[a], place)
      BY <1>3 DEF UnlinkMarker, RemoveMarker, Unlinks
    <2>2. UNCHANGED <<pid, once, lock, status, alone, starts, stops, deaths>>
      BY <2>1 DEF Unlinks
    <2>3. CASE marker
      <3>1. /\ marker' = FALSE /\ UNCHANGED signalled
            /\ at' = [at EXCEPT ![a] = place]
        BY <2>1, <2>3 DEF Unlinks, Goes
      <3> QED
        BY <2>1, <2>2, <3>1
    <2>4. CASE ~marker
      <3>1. /\ UNCHANGED marker
            /\ at' = [at EXCEPT ![a] = "off"]
            /\ signalled' = [signalled EXCEPT ![a] = FALSE]
        BY <2>1, <2>4 DEF Unlinks, Goes, Ends
      <3> QED
        BY <2>1, <2>2, <3>1
    <2> QED
      BY <2>3, <2>4
  <1>4. ASSUME NEW a \in Agents, WriteStarting(a) PROVE AgentInv'
    BY <1>4 DEF WriteStarting, Writes, Goes
  <1>5. ASSUME NEW a \in Agents, WriteRunning(a) \/ Report(a) PROVE AgentInv'
    BY <1>5 DEF WriteRunning, Report, Writes, Goes
  <1>6. ASSUME NEW a \in Agents, TakeLock(a) PROVE AgentInv'
    BY <1>6 DEF TakeLock, Goes
  <1>7. ASSUME NEW a \in Agents, LockRefused(a) PROVE AgentInv'
    BY <1>7 DEF LockRefused, Goes, Ends
  <1>8. ASSUME NEW a \in Agents, ReleaseLock(a) PROVE AgentInv'
    BY <1>8 DEF ReleaseLock, Goes
  <1>9. ASSUME NEW a \in Agents, WriteStopped(a) PROVE AgentInv'
    BY <1>9 DEF WriteStopped, Goes, Ends
  <1>10. ASSUME NEW a \in Agents, Signal(a) PROVE AgentInv'
    <2>1. /\ at[a] # "off" /\ stops' \in 0..StopBound
          /\ signalled' = [signalled EXCEPT ![a] = TRUE]
          /\ UNCHANGED <<at, pid, once, lock, marker, status, alone, starts, deaths>>
      BY <1>10 DEF Signal
    <2>2. signalled' \in [Agents -> BOOLEAN]
      BY <2>1, Zenon
    <2>3. \A b \in Agents : signalled'[b] => at[b] # "off"
      BY <2>1
    <2> QED
      BY <2>1, <2>2, <2>3
  <1>11. ASSUME NEW a \in Agents, Dies(a) PROVE AgentInv'
    BY <1>11 DEF Dies, Goes, Ends
  <1>12. CASE RequestStop
    <2>1. /\ marker' \in BOOLEAN /\ stops' \in 0..StopBound
          /\ UNCHANGED <<at, pid, once, signalled, lock, status, alone, starts, deaths>>
      BY <1>12 DEF RequestStop
    <2> QED
      BY <2>1
  <1>13. CASE UNCHANGED vars
    BY <1>13 DEF vars
  <1> QED
    BY <1>1, <1>2, <1>3, <1>4, <1>5, <1>6, <1>7, <1>8, <1>9, <1>10, <1>11, <1>12,
       <1>13
       DEF Next, Runs, Moves

\* AgentInv is an invariant of the agents for every set of processes and every
\* number of starts, stops and deaths.
THEOREM AgentInvariant == Spec => []AgentInv
  BY AgentInit, AgentStep, PTL DEF Spec

\* The variables of AgentLoop.run keep their types, and a stop event never
\* outlives the process it was sent to.
THEOREM AgentTypeOK == Spec => []TypeOK
  <1>1. AgentInv => TypeOK
    BY DEF AgentInv
  <1> QED
    BY <1>1, AgentInvariant, PTL

\* However many agents are started, at most one is between the acquisition of
\* the dispatcher lock and its release.
THEOREM AgentSingleDispatcher == Spec => []SingleDispatcher
  <1>1. ASSUME AgentInv PROVE SingleDispatcher
    <2> DEFINE loops == {a \in Agents : at[a] \in Looping}
    <2>1. loops \subseteq {lock}
      BY <1>1 DEF AgentInv, LockIsHeld
    <2>2. IsFiniteSet({lock}) /\ Cardinality({lock}) = 1
      BY FS_Singleton
    <2>3. Cardinality(loops) <= 1
      BY <2>1, <2>2, FS_Subset
    <2> QED
      BY <2>3 DEF SingleDispatcher
  <1> QED
    BY <1>1, AgentInvariant, PTL

\* While no agent is started beside another, `health` shows RUNNING exactly
\* from the first report of the loop on, and never for a process that is gone.
THEOREM AgentHealthIsTruthful == Spec => []HealthIsTruthful
  <1>1. ASSUME AgentInv PROVE HealthIsTruthful
    <2> USE <1>1 DEF AgentInv
    <2>1. ASSUME alone, NEW a \in Agents, at[a] \in Looping \ {"running"}
          PROVE  HealthState = "RUNNING"
      <3>1. status = [state |-> "RUNNING", by |-> pid[a]]
        BY <2>1 DEF StatusFollows
      <3>2. Alive(status.by)
        BY <2>1, <3>1 DEF Alive, Looping
      <3> QED
        BY <3>1, <3>2 DEF HealthState
    <2>2. ASSUME alone,
                 \A a \in Agents : at[a] \in {"off", "clear", "unlink", "starting",
                                              "lock", "running"}
          PROVE  HealthState # "RUNNING"
      <3>1. ASSUME status.state = "RUNNING", NEW a \in Agents, at[a] # "off"
            PROVE  pid[a] # status.by
        BY <2>2, <3>1 DEF StatusFollows
      <3>2. status.state = "RUNNING" => ~Alive(status.by)
        BY <3>1 DEF Alive
      <3> QED
        BY <3>2 DEF HealthState
    <2> QED
      BY <2>1, <2>2 DEF HealthIsTruthful
  <1> QED
    BY <1>1, AgentInvariant, PTL

\* What becomes of a stop request: only an agent that starts or ends removes the
\* marker, and only the end of a process its event.
LEMMA RequestStays ==
  ASSUME AgentInv, [Next]_vars, NEW a \in Agents, at[a] \in Looping, alone',
         StopRequested(a)
  PROVE  StopRequested(a)' \/ at'[a] \notin Looping
  <1> USE DEF AgentInv, TypeOK, StopRequested, Looping, Places, files, counters
  <1>1. alone
    <2>1. ASSUME NEW b \in Agents, Start(b) PROVE alone
      BY <2>1 DEF Start
    <2>2. ASSUME NEW b \in Agents, Runs(b) \/ Signal(b) \/ Dies(b) PROVE UNCHANGED alone
      BY <2>2 DEF Runs, ClearMarker, UnlinkMarker, WriteStarting, TakeLock, LockRefused,
                  WriteRunning, Test, Cycle, Report, WaitEnds, ReleaseLock, CleanMarker,
                  RemoveMarker, WriteStopped, Looks, Unlinks, Writes, Signal, Dies
    <2>3. RequestStop \/ UNCHANGED vars => UNCHANGED alone
      BY DEF RequestStop, vars
    <2> QED
      BY <2>1, <2>2, <2>3 DEF Next
  <1>2. \A b \in Agents \ {a} : at[b] = "off"
    BY <1>1 DEF AloneIsAlone
  <1>3. ASSUME NEW b \in Agents, Start(b) PROVE FALSE
    BY <1>3 DEF Start
  <1>4. ASSUME NEW b \in Agents, Runs(b) \/ Dies(b) PROVE b = a
    BY <1>2, <1>4
       DEF Runs, ClearMarker, UnlinkMarker, WriteStarting, TakeLock, LockRefused,
           WriteRunning, Test, Cycle, Report, WaitEnds, ReleaseLock, CleanMarker,
           RemoveMarker, WriteStopped, Looks, Unlinks, Writes, Dies
  <1>5. Runs(a) => UNCHANGED <<marker, signalled>>
    BY DEF Runs, ClearMarker, UnlinkMarker, WriteStarting, TakeLock, LockRefused,
           WriteRunning, Test, Cycle, Report, WaitEnds, ReleaseLock, CleanMarker,
           RemoveMarker, WriteStopped, Looks, Unlinks, Writes
  <1>6. Dies(a) => at'[a] = "off"
    BY DEF Dies, Ends, Goes
  <1>7. ASSUME NEW b \in Agents, Signal(b) PROVE StopRequested(a)'
    BY <1>7 DEF Signal
  <1>8. CASE RequestStop
    BY <1>8 DEF RequestStop
  <1>9. CASE UNCHANGED vars
    <2>1. UNCHANGED <<marker, signalled>>
      BY <1>9 DEF vars
    <2> QED
      BY <2>1
  <1> QED
    BY <1>3, <1>4, <1>5, <1>6, <1>7, <1>8, <1>9 DEF Next

\* Only _stop_requested lets a cycle begin, and it sees marker and event.
LEMMA NoCycleBegins ==
  ASSUME AgentInv, [Next]_vars, NEW a \in Agents, at[a] \in Looping,
         StopRequested(a), at'[a] = "cycle"
  PROVE  at[a] = "cycle"
  <1> USE DEF AgentInv, TypeOK, Looping, Places, Goes
  <1>1. ASSUME NEW b \in Agents, Start(b) \/ Signal(b) \/ Dies(b) PROVE at[a] = "cycle"
    BY <1>1 DEF Start, Signal, Dies, Ends
  <1>2. ASSUME NEW b \in Agents, Test(b) PROVE at[a] = "cycle"
    BY <1>2 DEF Test
  <1>3. ASSUME NEW b \in Agents, Runs(b), ~Test(b) PROVE at[a] = "cycle"
    <2>1. \E place \in Places \ {"cycle"} : at' = [at EXCEPT ![b] = place]
      <3>1. CASE ClearMarker(b) \/ UnlinkMarker(b) \/ CleanMarker(b) \/ RemoveMarker(b)
        BY <3>1 DEF ClearMarker, UnlinkMarker, CleanMarker, RemoveMarker, Looks, Unlinks, Ends
      <3>2. CASE WriteStarting(b) \/ WriteRunning(b) \/ Report(b) \/ WriteStopped(b)
        BY <3>2 DEF WriteStarting, WriteRunning, Report, WriteStopped, Writes, Ends
      <3>3. CASE TakeLock(b) \/ LockRefused(b) \/ Cycle(b) \/ WaitEnds(b) \/ ReleaseLock(b)
        BY <3>3 DEF TakeLock, LockRefused, Cycle, WaitEnds, ReleaseLock, Ends
      <3> QED
        BY <1>3, <3>1, <3>2, <3>3 DEF Runs
    <2> QED
      BY <2>1
  <1>4. RequestStop \/ UNCHANGED vars => UNCHANGED at
    BY DEF RequestStop, vars
  <1> QED
    BY <1>1, <1>2, <1>3, <1>4 DEF Next

\* agent-stop and signals against AgentLoop.run: a stop request that reached an
\* agent running alone is kept until it leaves the loop, whoever writes or
\* unlinks the marker, and no further cycle begins under it.
THEOREM AgentKeepsStop == Spec => StopIsKept
  <1>1. AgentInv /\ [Next]_vars =>
          [\A a \in Agents : at[a] \in Looping /\ StopRequested(a) /\ alone' =>
              /\ StopRequested(a)' \/ at'[a] \notin Looping
              /\ at'[a] = "cycle" => at[a] = "cycle"]_vars
    BY RequestStays, NoCycleBegins
  <1> QED
    BY <1>1, AgentInvariant, PTL DEF Spec, StopIsKept

=============================================================================
