---------------------------- MODULE JobQueueProofs ----------------------------
(***************************************************************************)
(* Safety of the queue for every set of jobs and every bound.              *)
(***************************************************************************)
EXTENDS JobQueue, TLAPS, FiniteSetTheorems

\* A dispatcher inside run_one holds the newest attempt of its job, RUNNING.
HoldsNewest ==
    pc \in Running =>
        /\ curJob \in Jobs
        /\ curAttempt \in AttemptNos
        /\ curAttempt = lastAttempt[curJob]
        /\ attemptState[curJob][curAttempt] = "RUNNING"

\* The process result and the verdict made from it are where they are used.
OutcomeReady ==
    /\ pc = "evaluate" => outcome \in {"EXITED", "TIMED_OUT", "CANCELLED"}
    /\ pc \in {"publish", "finish"} => outcome \in Verdicts

WorkerInv == TypeOK /\ HoldsNewest /\ OutcomeReady

LEMMA WorkerInit == Init => WorkerInv
  <1> SUFFICES ASSUME Init PROVE WorkerInv
    OBVIOUS
  <1>1. /\ jobState \in [Jobs -> JobStates]
        /\ arrival \in [Jobs -> Nat]
        /\ lastAttempt \in [Jobs -> 0..AttemptBound]
        /\ retries \in [Jobs -> Nat]
        /\ crashes \in Nat
    BY QueueAssumption DEF QueueAssumption, Init, JobStates
  <1>2. /\ attemptState \in [Jobs -> [AttemptNos -> AttemptStates]]
        /\ pidKnown \in [Jobs -> [AttemptNos -> BOOLEAN]]
        /\ pidRow \in [Jobs -> [AttemptNos -> BOOLEAN]]
        /\ abandoned \subseteq Jobs \X AttemptNos
        /\ solver \in [Jobs -> [AttemptNos -> {"none", "alive", "dead"}]]
    BY DEF Init, AttemptStates
  <1>3. /\ evidence \in [Jobs -> [AttemptNos -> SUBSET Artifacts]]
        /\ intents \in [Jobs -> SUBSET AttemptNos]
    BY DEF Init
  <1>4. paused \in BOOLEAN
    BY DEF Init
  <1>5. /\ pc \in Running \cup Idle
        /\ curJob \in Jobs \cup {NoJob}
        /\ curAttempt \in 0..AttemptBound
        /\ outcome \in {"none", "EXITED"} \cup Verdicts
        /\ HoldsNewest
        /\ OutcomeReady
    BY QueueAssumption DEF QueueAssumption, Init, Running, Idle, HoldsNewest, OutcomeReady
  <1> QED
    BY <1>1, <1>2, <1>3, <1>4, <1>5 DEF WorkerInv, TypeOK

LEMMA WorkerStep == WorkerInv /\ [Next]_vars => WorkerInv'
  <1> SUFFICES ASSUME WorkerInv, [Next]_vars PROVE WorkerInv'
    OBVIOUS
  <1> USE QueueAssumption
      DEF QueueAssumption, WorkerInv, TypeOK, HoldsNewest, OutcomeReady, tables, worker
  <1>1. CASE StartDispatcher
    BY <1>1 DEF StartDispatcher, Running, Idle
  <1>2. CASE Cycle
    <2>1. CASE Reconcile
      BY <2>1 DEF Reconcile, ReconcileTarget, JobStates, AttemptStates, Ended,
                  AttemptNos, Running, Idle
    <2>2. CASE ReadPaused \/ ClaimNothing \/ EndCycle \/ CycleRaises
      BY <2>2 DEF ReadPaused, ClaimNothing, EndCycle, CycleRaises, Running, Idle
    <2>3. ASSUME NEW j \in Jobs, Claim(j)
          PROVE  WorkerInv'
      <3>1. lastAttempt[j] + 1 \in AttemptNos
        BY <2>3 DEF Claim, AttemptNos
      <3> QED
        BY <2>3, <3>1 DEF Claim, AttemptNos, JobStates, AttemptStates, Running, Idle
    <2> QED
      BY <1>2, <2>1, <2>2, <2>3 DEF Cycle
  <1>3. CASE RunOne
    <2>1. CASE \/ MakeWorkdir \/ Prepare \/ Gate \/ SpawnRaises
               \/ EvaluateRaises \/ FinishRefused
      BY <2>1 DEF MakeWorkdir, Prepare, Gate, SpawnRaises,
                  EvaluateRaises, FinishRefused, Goto, Running, Idle
    <2>2. CASE WorkdirRaises \/ CloseRefused \/ DeferRefused \/ DiagnosticRaises
      BY <2>2 DEF WorkdirRaises, CloseRefused, DeferRefused, DiagnosticRaises,
                  Leave, CycleAborted, Running, Idle
    <2>3. CASE Spawn
      BY <2>3 DEF Spawn, Goto, Running, Idle
    <2>4. CASE RecordPid
      BY <2>4 DEF RecordPid, Goto, Running, Idle
    <2>5. ASSUME NEW r \in {"EXITED", "TIMED_OUT", "CANCELLED"}, StopPolling(r)
          PROVE  WorkerInv'
      BY <2>5 DEF StopPolling, Running, Idle, Verdicts
    <2>6. CASE PollExited \/ PollCancelled \/ PollTimedOut
      BY <2>5, <2>6 DEF PollExited, PollCancelled, PollTimedOut
    <2>7. CASE Evaluate
      BY <2>7 DEF Evaluate, Running, Idle, Verdicts
    <2>8. CASE Publish \/ PublishRaises \/ RecordFailure
      <3>1. /\ curJob \in Jobs
            /\ curAttempt \in AttemptNos
        BY <2>8 DEF Publish, PublishRaises, RecordFailure, Goto, Running
      <3>2. ASSUME NEW A \in SUBSET Artifacts,
                   evidence' = [evidence EXCEPT ![curJob][curAttempt] = @ \cup A]
            PROVE  evidence' \in [Jobs -> [AttemptNos -> SUBSET Artifacts]]
        <4>1. evidence[curJob][curAttempt] \cup A \in SUBSET Artifacts
          BY <3>1
        <4> QED
          BY <3>1, <3>2, <4>1
      <3>3. /\ Reported(outcome) \in SUBSET Artifacts \/ RecordFailure
            /\ {"failure_record"} \in SUBSET Artifacts
        BY <2>8 DEF Reported, Artifacts, Publish, PublishRaises, Goto
      <3>4. evidence' \in [Jobs -> [AttemptNos -> SUBSET Artifacts]]
        BY <2>8, <3>2, <3>3 DEF Publish, PublishRaises, RecordFailure, Goto
      <3> QED
        BY <2>8, <3>4 DEF Publish, PublishRaises, RecordFailure, Goto, Running, Idle
    <2>9. CASE Finish \/ CloseFailed
      <3>1. PICK v \in Verdicts :
              /\ attemptState' = [attemptState EXCEPT ![curJob][curAttempt] = v]
              /\ jobState' = [jobState EXCEPT ![curJob] = v]
        BY <2>9 DEF Finish, CloseFailed, FinishCommit, Verdicts
      <3>2. /\ pidKnown' = [pidKnown EXCEPT ![curJob][curAttempt] = FALSE]
            /\ intents' \in {intents,
                             [intents EXCEPT ![curJob] = @ \cup {curAttempt}]}
            /\ Leave(Returned)
            /\ UNCHANGED <<arrival, lastAttempt, pidRow, solver, evidence, paused,
                           abandoned, retries, crashes>>
        BY <2>9 DEF Finish, CloseFailed, FinishCommit
      <3>3. curJob \in Jobs /\ curAttempt \in AttemptNos
        BY <2>9 DEF Finish, CloseFailed, Running
      <3>4. intents' \in [Jobs -> SUBSET AttemptNos]
        <4>1. intents[curJob] \cup {curAttempt} \in SUBSET AttemptNos
          BY <3>3
        <4> QED
          BY <3>2, <3>3, <4>1
      <3>5. jobState' \in [Jobs -> JobStates]
        BY <3>1, <3>3 DEF Verdicts, JobStates
      <3>6. attemptState' \in [Jobs -> [AttemptNos -> AttemptStates]]
        BY <3>1, <3>3 DEF Verdicts, Ended, AttemptStates
      <3>7. pidKnown' \in [Jobs -> [AttemptNos -> BOOLEAN]]
        BY <3>2, <3>3
      <3>8. pc' \in {"drain", "rest"} /\ curJob' = NoJob /\ curAttempt' = 0
              /\ outcome' = "none"
        BY <3>2 DEF Leave, Returned
      <3> QED
        BY <3>2, <3>4, <3>5, <3>6, <3>7, <3>8 DEF Running, Idle
    <2>10. CASE Defer
      BY <2>10 DEF Defer, Leave, Returned, JobStates, AttemptStates, Ended,
                   Running, Idle
    <2>11. CASE SupervisionRaises
      <3>1. <<curJob, curAttempt>> \in Jobs \X AttemptNos
        BY <2>11 DEF SupervisionRaises, Goto, Running
      <3>2. abandoned' \subseteq Jobs \X AttemptNos
        BY <2>11, <3>1 DEF SupervisionRaises
      <3> QED
        BY <2>11, <3>2 DEF SupervisionRaises, Goto, Running, Idle
    <2> HIDE DEF WorkerInv
    <2> QED
      BY <1>3, <2>1, <2>2, <2>3, <2>4, <2>6, <2>7, <2>8, <2>9, <2>10, <2>11
         DEF RunOne
  <1>4. CASE Operator
    <2>1. ASSUME NEW j \in Jobs, Submit(j)
          PROVE  WorkerInv'
      <3>1. Cardinality({k \in Jobs : arrival[k] # 0}) \in Nat
        BY FS_Subset, FS_CardinalityType
      <3> QED
        BY <2>1, <3>1 DEF Submit, JobStates
    <2>2. ASSUME NEW j \in Jobs, RequestCancel(j)
          PROVE  WorkerInv'
      BY <2>2 DEF RequestCancel, JobStates
    <2>3. ASSUME NEW j \in Jobs, Retry(j)
          PROVE  WorkerInv'
      BY <2>3 DEF Retry, JobStates
    <2>4. CASE SetPaused
      BY <2>4 DEF SetPaused
    <2> QED
      BY <1>4, <2>1, <2>2, <2>3, <2>4 DEF Operator
  <1>5. CASE Environment
    <2>1. ASSUME NEW j \in Jobs, NEW n \in AttemptNos, SolverExits(j, n)
          PROVE  WorkerInv'
      BY <2>1 DEF SolverExits
    <2>2. CASE DispatcherDies
      BY <2>2 DEF DispatcherDies, Leave, Running, Idle
    <2>3. CASE Reboot
      BY <2>3 DEF Reboot, Leave, Running, Idle
    <2> QED
      BY <1>5, <2>1, <2>2, <2>3 DEF Environment
  <1>6. CASE UNCHANGED vars
    BY <1>6 DEF vars
  <1> QED
    BY <1>1, <1>2, <1>3, <1>4, <1>5, <1>6 DEF Next

\* Every variable keeps its type, and a dispatcher inside run_one always holds
\* the newest, RUNNING attempt of its job (claim_next and finish_attempt).
THEOREM QueueTypeOK == Spec => []TypeOK
  <1>1. WorkerInv => TypeOK
    BY DEF WorkerInv
  <1> QED
    BY <1>1, WorkerInit, WorkerStep, PTL DEF Spec

-----------------------------------------------------------------------------
(* The tables of jobs and attempts.                                        *)

\* A step that leaves the tables alone and does not enter run_one.
Quiet ==
    /\ UNCHANGED <<jobState, lastAttempt, attemptState, intents, retries>>
    /\ pc' \in Running => pc \in Running /\ UNCHANGED <<curJob, curAttempt>>

\* The actions that write the tables of jobs, attempts and intents.
LEMMA TableSteps ==
  ASSUME [Next]_vars
  PROVE  \/ Reconcile \/ Finish \/ CloseFailed \/ Defer
         \/ \E j \in Jobs :
               Claim(j) \/ Submit(j) \/ RequestCancel(j) \/ Retry(j)
         \/ Quiet
  <1> USE DEF Quiet, tables, worker, Running, Goto, Leave
  <1>1. CASE StartDispatcher
    BY <1>1 DEF StartDispatcher
  <1>2. CASE Cycle
    BY <1>2 DEF Cycle, ReadPaused, ClaimNothing, EndCycle, CycleRaises
  <1>3. CASE RunOne
    <2>1. CASE \/ MakeWorkdir \/ WorkdirRaises \/ Prepare \/ Gate \/ Spawn
               \/ SpawnRaises \/ RecordPid \/ SupervisionRaises
      BY <2>1 DEF MakeWorkdir, WorkdirRaises, Prepare, Gate, Spawn, SpawnRaises,
                  RecordPid, SupervisionRaises, CycleAborted
    <2>2. CASE \/ PollExited \/ PollCancelled \/ PollTimedOut \/ Evaluate
               \/ EvaluateRaises \/ Publish \/ PublishRaises
      BY <2>2 DEF PollExited, PollCancelled, PollTimedOut, StopPolling, Evaluate,
                  EvaluateRaises, Publish, PublishRaises
    <2>3. CASE \/ FinishRefused \/ RecordFailure \/ CloseRefused \/ DeferRefused
               \/ DiagnosticRaises
      BY <2>3 DEF FinishRefused, RecordFailure, CloseRefused, DeferRefused,
                  DiagnosticRaises, CycleAborted
    <2> QED
      BY <1>3, <2>1, <2>2, <2>3 DEF RunOne
  <1>4. CASE Operator
    BY <1>4 DEF Operator, SetPaused
  <1>5. CASE Environment
    BY <1>5 DEF Environment, SolverExits, DispatcherDies, Reboot
  <1>6. CASE UNCHANGED vars
    BY <1>6 DEF vars
  <1> QED
    BY <1>1, <1>2, <1>3, <1>4, <1>5, <1>6 DEF Next

\* What the three concluding transactions write.
LEMMA Conclusion ==
  ASSUME WorkerInv, Finish \/ CloseFailed \/ Defer
  PROVE  /\ curJob \in Jobs
         /\ curAttempt \in AttemptNos
         /\ curAttempt = lastAttempt[curJob]
         /\ attemptState[curJob][curAttempt] = "RUNNING"
         /\ jobState[curJob] # "SUCCEEDED"
         /\ UNCHANGED <<lastAttempt, retries>>
         /\ \E v \in Ended :
              /\ attemptState' = [attemptState EXCEPT ![curJob][curAttempt] = v]
              /\ jobState' = [jobState EXCEPT ![curJob] =
                                IF v = "INTERRUPTED" THEN "WAITING_RESOURCE" ELSE v]
  <1> USE DEF WorkerInv, TypeOK, HoldsNewest
  <1>1. pc \in Running
    BY DEF Finish, CloseFailed, Defer, Running
  <1>2. jobState[curJob] # "SUCCEEDED"
    <2>1. \E to \in JobStates : JobMayMove(curJob, to)
      BY DEF Finish, CloseFailed, Defer, FinishAllowed, JobStates, OutcomeReady,
             Verdicts
    <2> QED
      BY <1>1, <2>1 DEF JobMayMove, JobTransitions, JobStates
  <1>3. CASE Finish
    BY <1>1, <1>2, <1>3 DEF Finish, FinishCommit, Ended, Verdicts, OutcomeReady
  <1>4. CASE CloseFailed
    BY <1>1, <1>2, <1>4 DEF CloseFailed, FinishCommit, Ended, Verdicts
  <1>5. CASE Defer
    BY <1>1, <1>2, <1>5 DEF Defer, Ended
  <1> QED
    BY <1>3, <1>4, <1>5

\* The same, read job by job.
LEMMA ConclusionByJob ==
  ASSUME WorkerInv, Finish \/ CloseFailed \/ Defer
  PROVE  /\ \A j \in Jobs \ {curJob} :
               jobState'[j] = jobState[j] /\ attemptState'[j] = attemptState[j]
         /\ \E v \in Ended :
              /\ jobState'[curJob] =
                    IF v = "INTERRUPTED" THEN "WAITING_RESOURCE" ELSE v
              /\ jobState'[curJob] \notin Active \cup {"NONE", "QUEUED"}
              /\ \A m \in AttemptNos : attemptState'[curJob][m] =
                    IF m = curAttempt THEN v ELSE attemptState[curJob][m]
  <1> USE DEF WorkerInv, TypeOK
  <1>1. PICK v \in Ended :
          /\ attemptState' = [attemptState EXCEPT ![curJob][curAttempt] = v]
          /\ jobState' = [jobState EXCEPT ![curJob] =
                            IF v = "INTERRUPTED" THEN "WAITING_RESOURCE" ELSE v]
    BY Conclusion
  <1>2. curJob \in Jobs /\ curAttempt \in AttemptNos
    BY Conclusion
  <1>3. \A j \in Jobs \ {curJob} :
           jobState'[j] = jobState[j] /\ attemptState'[j] = attemptState[j]
    BY <1>1
  <1>4. /\ jobState'[curJob] =
              IF v = "INTERRUPTED" THEN "WAITING_RESOURCE" ELSE v
        /\ attemptState'[curJob] = [attemptState[curJob] EXCEPT ![curAttempt] = v]
    BY <1>1, <1>2
  <1>5. jobState'[curJob] \notin Active \cup {"NONE", "QUEUED"}
    BY <1>4 DEF Active, Ended, Verdicts
  <1>6. \A m \in AttemptNos : attemptState'[curJob][m] =
           IF m = curAttempt THEN v ELSE attemptState[curJob][m]
    BY <1>2, <1>4
  <1> QED
    BY <1>3, <1>4, <1>5, <1>6

\* What reconcile_stale writes for one job.
Recovered(j, n) ==
    /\ jobState[j] \in Active
    /\ n \in StaleAttempts(j)
    /\ attemptState'[j] = [attemptState[j] EXCEPT ![n] = "INTERRUPTED"]
    /\ jobState'[j] \in {"CANCELLED", "QUEUED", "FAILED"}
    /\ jobState'[j] = "QUEUED" => n < MaxAttempts

LEMMA Recovery ==
  ASSUME WorkerInv, Reconcile, NEW j \in Jobs
  PROVE  \/ jobState'[j] = jobState[j] /\ attemptState'[j] = attemptState[j]
              /\ ~Recoverable(j)
         \/ \E n \in AttemptNos : Recovered(j, n)
  <1> USE QueueAssumption DEF QueueAssumption, WorkerInv, TypeOK, AttemptNos
  <1>1. PICK first \in [Jobs -> 0..AttemptBound] :
          /\ IF Recoverable(j) THEN first[j] \in StaleAttempts(j)
                               ELSE first[j] = 0
          /\ attemptState'[j] = [n \in AttemptNos |->
                IF n = first[j] THEN "INTERRUPTED" ELSE attemptState[j][n]]
          /\ jobState'[j] = IF Recoverable(j) THEN ReconcileTarget(j, first[j])
                                              ELSE jobState[j]
    BY DEF Reconcile
  <1>2. CASE Recoverable(j)
    <2>1. first[j] \in AttemptNos /\ first[j] \in StaleAttempts(j)
      BY <1>1, <1>2 DEF StaleAttempts
    <2>2. attemptState'[j] = [attemptState[j] EXCEPT ![first[j]] = "INTERRUPTED"]
      BY <1>1, <2>1
    <2>3. /\ jobState[j] \in Active
          /\ jobState'[j] \in {"CANCELLED", "QUEUED", "FAILED"}
          /\ jobState'[j] = "QUEUED" => first[j] < MaxAttempts
      BY <1>1, <1>2 DEF Recoverable, ReconcileTarget
    <2> QED
      BY <2>1, <2>2, <2>3 DEF Recovered
  <1>3. CASE ~Recoverable(j)
    <2>1. \A n \in AttemptNos : n # first[j]
      BY <1>1, <1>3
    <2>2. attemptState'[j] = attemptState[j]
      BY <1>1, <2>1
    <2> QED
      BY <1>1, <1>3, <2>2
  <1> QED
    BY <1>2, <1>3

ActiveInv == WorkerInv /\ ActiveJobHasAttempt /\ SuccessIsExclusive

LEMMA ActiveStep == ActiveInv /\ [Next]_vars => ActiveInv'
  <1> SUFFICES ASSUME ActiveInv, [Next]_vars
      PROVE (ActiveJobHasAttempt /\ SuccessIsExclusive)'
    BY WorkerStep DEF ActiveInv
  <1> USE QueueAssumption
      DEF QueueAssumption, ActiveInv, ActiveJobHasAttempt, SuccessIsExclusive,
          Active
  <1>1. CASE Reconcile
    <2>1. UNCHANGED lastAttempt
      BY <1>1 DEF Reconcile
    <2>2. ASSUME NEW j \in Jobs, NEW n \in AttemptNos, Recovered(j, n)
          PROVE  /\ jobState'[j] \notin Active \cup {"SUCCEEDED"}
                 /\ \A m \in AttemptNos : attemptState'[j][m] # "SUCCEEDED"
      BY <2>2 DEF Recovered, WorkerInv, TypeOK
    <2> QED
      BY <1>1, <2>1, <2>2, Recovery
  <1>2. CASE Finish \/ CloseFailed \/ Defer
    <2>1. PICK v \in Ended :
            /\ jobState'[curJob] =
                  IF v = "INTERRUPTED" THEN "WAITING_RESOURCE" ELSE v
            /\ jobState'[curJob] \notin Active
            /\ \A m \in AttemptNos : attemptState'[curJob][m] =
                  IF m = curAttempt THEN v ELSE attemptState[curJob][m]
      BY <1>2, ConclusionByJob
    <2>2. /\ curJob \in Jobs /\ curAttempt \in AttemptNos
          /\ curAttempt = lastAttempt[curJob]
          /\ jobState[curJob] # "SUCCEEDED"
          /\ UNCHANGED lastAttempt
      BY <1>2, Conclusion
    <2>3. ASSUME NEW j \in Jobs, j # curJob
          PROVE  jobState'[j] = jobState[j] /\ attemptState'[j] = attemptState[j]
      BY <1>2, <2>3, ConclusionByJob
    <2>4. (jobState'[curJob] = "SUCCEEDED") <=> (v = "SUCCEEDED")
      BY <2>1
    <2>5. \A m \in AttemptNos : attemptState[curJob][m] # "SUCCEEDED"
      BY <2>2
    <2> QED
      BY <2>1, <2>2, <2>3, <2>4, <2>5
  <1>3. ASSUME NEW j \in Jobs, Claim(j)
        PROVE  (ActiveJobHasAttempt /\ SuccessIsExclusive)'
    BY <1>3 DEF Claim, Oldest, WorkerInv, TypeOK, AttemptNos
  <1>4. ASSUME NEW j \in Jobs, Submit(j) \/ RequestCancel(j) \/ Retry(j)
        PROVE  (ActiveJobHasAttempt /\ SuccessIsExclusive)'
    BY <1>4 DEF Submit, RequestCancel, Retry, JobMayMove, JobTransitions,
                JobStates, WorkerInv, TypeOK
  <1>5. CASE Quiet
    BY <1>5 DEF Quiet
  <1> QED
    BY <1>1, <1>2, <1>3, <1>4, <1>5, TableSteps

LEMMA ActiveInit == Init => ActiveInv
  <1> SUFFICES ASSUME Init PROVE ActiveInv
    OBVIOUS
  <1> QED
    BY WorkerInit DEF Init, ActiveInv, ActiveJobHasAttempt, SuccessIsExclusive,
                      Active

\* finish_attempt, reconcile_stale and retry together: whatever operators retry
\* and whatever fails, an active job has a RUNNING newest attempt to end it.
THEOREM QueueActive == Spec => []ActiveJobHasAttempt
  <1> QED
    BY ActiveInit, ActiveStep, PTL DEF Spec, ActiveInv

\* A success is final and exclusive: no later attempt is ever opened for it.
THEOREM QueueSuccess == Spec => []SuccessIsExclusive
  <1> QED
    BY ActiveInit, ActiveStep, PTL DEF Spec, ActiveInv

-----------------------------------------------------------------------------
(* Operators who retry closed jobs only, as the manuals tell them.         *)

\* retry is issued for jobs whose attempt is over.
DisciplinedRetry == RetryFrom \cap Active = {}

\* A dispatcher inside run_one works for an active job.
WorksForActive == pc \in Running => jobState[curJob] \in Active

Unsubmitted == \A j \in Jobs : jobState[j] = "NONE" => lastAttempt[j] = 0

MatchInv ==
    ActiveInv /\ AttemptsMatchJobs /\ WorksForActive /\ Unsubmitted
              /\ AttemptBudget

LEMMA MatchInit == Init => MatchInv
  <1> SUFFICES ASSUME Init PROVE MatchInv
    OBVIOUS
  <1>1. ActiveInv
    BY ActiveInit
  <1> QED
    BY <1>1, QueueAssumption
       DEF QueueAssumption, Init, MatchInv, AttemptsMatchJobs, WorksForActive,
           Unsubmitted, AttemptBudget, Active, Running

LEMMA MatchStep == MatchInv /\ DisciplinedRetry /\ [Next]_vars => MatchInv'
  <1> SUFFICES ASSUME MatchInv, DisciplinedRetry, [Next]_vars
      PROVE (AttemptsMatchJobs /\ WorksForActive /\ Unsubmitted
               /\ AttemptBudget)'
    BY ActiveStep DEF MatchInv
  <1> DEFINE Goal == AttemptsMatchJobs /\ WorksForActive /\ Unsubmitted
                       /\ AttemptBudget
  <1> USE QueueAssumption DEF QueueAssumption, MatchInv, AttemptsMatchJobs,
                              WorksForActive, Unsubmitted, AttemptBudget
  <1>0. WorkerInv
    BY DEF ActiveInv
  <1>1. CASE Reconcile
    <2>1. UNCHANGED <<lastAttempt, retries>> /\ pc' \notin Running
      BY <1>1 DEF Reconcile, Running
    <2>2. ASSUME NEW j \in Jobs, NEW n \in AttemptNos, Recovered(j, n)
          PROVE  /\ n = lastAttempt[j]
                 /\ jobState'[j] \notin Active \cup {"NONE"}
                 /\ \A m \in AttemptNos : attemptState'[j][m] # "RUNNING"
                 /\ jobState'[j] = "QUEUED" => lastAttempt[j] < MaxAttempts
      <3>1. n = lastAttempt[j] /\ attemptState[j][n] = "RUNNING"
        BY <2>2 DEF Recovered, StaleAttempts
      <3>2. \A m \in AttemptNos : attemptState'[j][m] # "RUNNING"
        BY <1>0, <2>2, <3>1 DEF Recovered, WorkerInv, TypeOK
      <3> QED
        BY <2>2, <3>1, <3>2 DEF Recovered, Active
    <2>3. ASSUME NEW j \in Jobs, ~\E n \in AttemptNos : Recovered(j, n)
          PROVE  jobState'[j] = jobState[j] /\ attemptState'[j] = attemptState[j]
      BY ONLY <1>0, <1>1, <2>3, Recovery
    <2>4. AttemptsMatchJobs'
      <3> SUFFICES ASSUME NEW j \in Jobs
                   PROVE  /\ jobState'[j] \in Active =>
                                /\ lastAttempt[j] \in AttemptNos
                                /\ attemptState'[j][lastAttempt[j]] = "RUNNING"
                          /\ \A n \in AttemptNos : attemptState'[j][n] = "RUNNING" =>
                                jobState'[j] \in Active /\ n = lastAttempt[j]
        BY <2>1
      <3>1. CASE \E n \in AttemptNos : Recovered(j, n)
        BY ONLY <2>2, <3>1
      <3>2. CASE ~\E n \in AttemptNos : Recovered(j, n)
        BY ONLY <2>3, <3>2, MatchInv DEF MatchInv, AttemptsMatchJobs
      <3> QED
        BY ONLY <3>1, <3>2
    <2>5. WorksForActive'
      BY ONLY <2>1 DEF WorksForActive, Running
    <2>6. Unsubmitted'
      BY ONLY <2>1, <2>2, <2>3, MatchInv DEF MatchInv, Unsubmitted
    <2>7. AttemptBudget'
      <3> SUFFICES ASSUME NEW j \in Jobs
                   PROVE  lastAttempt[j] + (IF jobState'[j] = "QUEUED" THEN 1 ELSE 0)
                            <= MaxAttempts + retries[j]
        BY <2>1
      <3>0. lastAttempt[j] \in Nat /\ retries[j] \in Nat /\ MaxAttempts \in Nat
        BY ONLY <1>0, QueueAssumption DEF WorkerInv, TypeOK, QueueAssumption
      <3>1. CASE \E n \in AttemptNos : Recovered(j, n)
        <4>1. lastAttempt[j] <= MaxAttempts + retries[j]
          BY ONLY <3>0, MatchInv DEF MatchInv, AttemptBudget
        <4>2. jobState'[j] = "QUEUED" => lastAttempt[j] < MaxAttempts
          BY ONLY <2>2, <3>1
        <4> QED
          BY ONLY <3>0, <4>1, <4>2
      <3>2. CASE ~\E n \in AttemptNos : Recovered(j, n)
        BY ONLY <2>3, <3>2, MatchInv DEF MatchInv, AttemptBudget
      <3> QED
        BY ONLY <3>1, <3>2
    <2> QED
      BY ONLY <2>4, <2>5, <2>6, <2>7
  <1>2. CASE Finish \/ CloseFailed \/ Defer
    <2>1. PICK v \in Ended :
            /\ jobState'[curJob] \notin Active \cup {"NONE", "QUEUED"}
            /\ \A m \in AttemptNos : attemptState'[curJob][m] =
                  IF m = curAttempt THEN v ELSE attemptState[curJob][m]
      BY <1>0, <1>2, ConclusionByJob
    <2>2. /\ curJob \in Jobs /\ curAttempt \in AttemptNos
          /\ curAttempt = lastAttempt[curJob]
          /\ UNCHANGED <<lastAttempt, retries>>
      BY <1>0, <1>2, Conclusion
    <2>3. \A j \in Jobs \ {curJob} :
             jobState'[j] = jobState[j] /\ attemptState'[j] = attemptState[j]
      BY <1>0, <1>2, ConclusionByJob
    <2>4. pc' \notin Running
      BY <1>2 DEF Finish, CloseFailed, Defer, FinishCommit, Leave, Returned, Running
    <2>5. \A m \in AttemptNos : attemptState'[curJob][m] # "RUNNING"
      BY <2>1, <2>2 DEF Ended, Verdicts
    <2>6. AttemptsMatchJobs'
      BY <2>1, <2>2, <2>3, <2>5
    <2>7. Unsubmitted'
      BY <2>1, <2>2, <2>3
    <2>8. AttemptBudget'
      <3> SUFFICES ASSUME NEW j \in Jobs
          PROVE  lastAttempt[j] + (IF jobState'[j] = "QUEUED" THEN 1 ELSE 0)
                    <= MaxAttempts + retries[j]
        BY <2>2
      <3>1. lastAttempt[j] \in Nat /\ retries[j] \in Nat
        BY <1>0 DEF WorkerInv, TypeOK
      <3>2. jobState'[j] # "QUEUED" \/ jobState'[j] = jobState[j]
        BY <2>1, <2>3
      <3> QED
        BY <3>1, <3>2
    <2> QED
      BY <2>4, <2>6, <2>7, <2>8
  <1>3. ASSUME NEW j \in Jobs, Claim(j)
        PROVE  Goal'
    <2>1. \A m \in AttemptNos : attemptState[j][m] # "RUNNING"
      BY <1>3 DEF Claim, Oldest, Active
    <2> QED
      BY <1>0, <1>3, <2>1 DEF Claim, Oldest, WorkerInv, TypeOK, AttemptNos, Active
  <1>4. ASSUME NEW j \in Jobs, Submit(j)
        PROVE  Goal'
    <2>1. /\ jobState[j] = "NONE" /\ jobState' = [jobState EXCEPT ![j] = "QUEUED"]
          /\ UNCHANGED <<attemptState, lastAttempt, retries, pc, curJob>>
      BY <1>4 DEF Submit, worker
    <2>2. lastAttempt[j] = 0
      BY <2>1
    <2>3. WorksForActive'
      BY <1>0, <2>1 DEF WorkerInv, TypeOK, HoldsNewest, Active
    <2>4. (AttemptsMatchJobs /\ Unsubmitted)'
      BY <1>0, <2>1, <2>2 DEF WorkerInv, TypeOK, Active
    <2>5. AttemptBudget'
      BY <1>0, <2>1, <2>2 DEF WorkerInv, TypeOK
    <2> QED
      BY <2>3, <2>4, <2>5
  <1>5. ASSUME NEW j \in Jobs, RequestCancel(j)
        PROVE  Goal'
    <2>1. /\ \/ jobState[j] \notin Active \cup {"NONE"} /\ jobState'[j] = "CANCELLED"
             \/ jobState[j] = "RUNNING" /\ jobState'[j] = "CANCEL_REQUESTED"
          /\ \A k \in Jobs \ {j} : jobState'[k] = jobState[k]
          /\ UNCHANGED <<attemptState, lastAttempt, retries, pc, curJob>>
      BY <1>0, <1>5 DEF RequestCancel, worker, WorkerInv, TypeOK, Active
    <2>2. WorksForActive'
      BY <1>0, <2>1 DEF WorkerInv, HoldsNewest, Active
    <2>3. (AttemptsMatchJobs /\ Unsubmitted)'
      BY <2>1 DEF Active
    <2>4. AttemptBudget'
      <3> SUFFICES ASSUME NEW k \in Jobs
          PROVE  lastAttempt[k] + (IF jobState'[k] = "QUEUED" THEN 1 ELSE 0)
                    <= MaxAttempts + retries[k]
        BY <2>1
      <3>1. lastAttempt[k] \in Nat /\ retries[k] \in Nat
        BY <1>0 DEF WorkerInv, TypeOK
      <3>2. jobState'[k] # "QUEUED" \/ jobState'[k] = jobState[k]
        BY <2>1
      <3> QED
        BY <3>1, <3>2
    <2> QED
      BY <2>2, <2>3, <2>4
  <1>6. ASSUME NEW j \in Jobs, Retry(j)
        PROVE  Goal'
    BY <1>0, <1>6 DEF Retry, DisciplinedRetry, JobMayMove, JobTransitions,
                      JobStates, WorkerInv, TypeOK, Active, worker, HoldsNewest
  <1>7. CASE Quiet
    BY <1>0, <1>7 DEF Quiet, WorkerInv, HoldsNewest
  <1> QED
    BY <1>1, <1>2, <1>3, <1>4, <1>5, <1>6, <1>7, TableSteps

LEMMA MatchInvariant == DisciplinedRetry => (Spec => []MatchInv)
  <1> SUFFICES ASSUME DisciplinedRetry PROVE Spec => []MatchInv
    OBVIOUS
  <1>1. MatchInv /\ [Next]_vars => MatchInv'
    BY MatchStep
  <1> QED
    BY <1>1, MatchInit, PTL DEF Spec

\* claim_next, finish_attempt, defer_attempt_for_resources and reconcile_stale
\* keep the tables of jobs and of attempts in agreement.
THEOREM QueueAttemptsMatch == DisciplinedRetry => (Spec => []AttemptsMatchJobs)
  <1>1. MatchInv => AttemptsMatchJobs
    BY DEF MatchInv
  <1> QED
    BY <1>1, MatchInvariant, PTL

\* finish_attempt, record_attempt_pid and the exception path of run_one: when
\* operators retry closed jobs only, none of them is refused as illegal, whatever
\* cancels and deaths come between two steps; a deferral is, after a cancel.
THEOREM QueueEndsAreLegal == DisciplinedRetry => (Spec => []EndsAreLegal)
  <1>1. ASSUME MatchInv PROVE EndsAreLegal
    <2> USE DEF MatchInv, ActiveInv, WorkerInv
    <2>1. ASSUME pc \in Running
          PROVE  /\ attemptState[curJob][curAttempt] = "RUNNING"
                 /\ jobState[curJob] \in Active
      BY <1>1, <2>1 DEF HoldsNewest, WorksForActive
    <2>2. ASSUME NEW v \in Verdicts, pc \in Running PROVE FinishAllowed(v)
      BY <2>1, <2>2
         DEF FinishAllowed, JobMayMove, AttemptMayMove, JobTransitions,
             AttemptTransitions, JobStates, AttemptStates, Ended, Active, Verdicts
    <2>3. pc = "finish" => FinishAllowed(outcome)
      BY <1>1, <2>2 DEF OutcomeReady, Running
    <2>4. pc \in {"fail", "close"} => FinishAllowed("FAILED")
      BY <2>2 DEF Running, Verdicts
    <2>5. ASSUME pc \in {"record", "defer"}
          PROVE  /\ AttemptMayMove(curJob, curAttempt, "RUNNING")
                 /\ AttemptMayMove(curJob, curAttempt, "INTERRUPTED")
                 /\ JobMayMove(curJob, "WAITING_RESOURCE")
                       \/ jobState[curJob] = "CANCEL_REQUESTED"
      <3>1. pc \in Running
        BY <2>5 DEF Running
      <3> QED
        BY <2>1, <3>1
           DEF JobMayMove, AttemptMayMove, JobTransitions, AttemptTransitions,
               JobStates, AttemptStates, Ended, Active, Verdicts
    <2> QED
      BY <2>3, <2>4, <2>5 DEF EndsAreLegal
  <1> QED
    BY <1>1, MatchInvariant, PTL

\* Every attempt beyond max_attempts was paid for by an operator's retry.
THEOREM QueueAttemptBudget == DisciplinedRetry => (Spec => []AttemptBudget)
  <1>1. MatchInv => AttemptBudget
    BY DEF MatchInv
  <1> QED
    BY <1>1, MatchInvariant, PTL

\* reconcile_stale skips no attempt that a death left RUNNING.
THEOREM QueueReconcileComplete == DisciplinedRetry => (Spec => ReconcileIsComplete)
  <1>1. ASSUME MatchInv, [Next]_vars, pc = "scan", pc' = "drain",
               NEW j \in Jobs, NEW n \in AttemptNos, attemptState'[j][n] = "RUNNING"
        PROVE  pidKnown[j][n] /\ solver[j][n] = "alive"
    <2>0. WorkerInv
      BY <1>1 DEF MatchInv, ActiveInv
    <2>1. Reconcile
      BY <1>1 DEF Next, StartDispatcher, Cycle, ReadPaused, Claim, ClaimNothing,
        EndCycle, CycleRaises, RunOne, MakeWorkdir, WorkdirRaises, Prepare, Gate,
        Spawn, SpawnRaises, RecordPid, SupervisionRaises, PollExited,
        PollCancelled, PollTimedOut, StopPolling, Evaluate, EvaluateRaises,
        Publish, PublishRaises, Finish, FinishRefused, RecordFailure, CloseFailed,
        CloseRefused, Defer, DeferRefused, DiagnosticRaises, Goto, Operator,
        Submit, RequestCancel, Retry, SetPaused, Environment, SolverExits,
        DispatcherDies, Reboot, Leave, worker, vars
    <2>2. ~(\E m \in AttemptNos : Recovered(j, m))
      <3> SUFFICES ASSUME NEW m \in AttemptNos, Recovered(j, m) PROVE FALSE
        OBVIOUS
      <3>1. m = lastAttempt[j]
        BY <1>1 DEF Recovered, StaleAttempts, MatchInv, AttemptsMatchJobs
      <3>2. n # m /\ attemptState[j][n] = "RUNNING"
        BY <1>1, <2>0 DEF Recovered, WorkerInv, TypeOK
      <3> QED
        BY <1>1, <3>1, <3>2 DEF MatchInv, AttemptsMatchJobs
    <2>3. attemptState[j][n] = "RUNNING" /\ ~Recoverable(j)
      BY <1>1, <2>0, <2>1, <2>2, Recovery
    <2> QED
      BY <1>1, <2>3 DEF Recoverable, StaleAttempts, MatchInv, AttemptsMatchJobs
  <1>2. MatchInv /\ [Next]_vars =>
          [pc = "scan" /\ pc' = "drain" =>
             \A j \in Jobs, n \in AttemptNos :
                attemptState'[j][n] = "RUNNING" =>
                    pidKnown[j][n] /\ solver[j][n] = "alive"]_vars
    BY <1>1
  <1> QED
    BY <1>2, MatchInvariant, PTL DEF ReconcileIsComplete, Spec

-----------------------------------------------------------------------------
(* Recorded processes.                                                     *)

\* Pids are recorded of claimed attempts, and the latest row of an attempt that
\* is still RUNNING carries the pid that an earlier row of it carried.
PidsStay ==
    \A j \in Jobs, n \in AttemptNos : pidRow[j][n] =>
        /\ n <= lastAttempt[j]
        /\ attemptState[j][n] = "RUNNING" => pidKnown[j][n]

\* What run_one has in hand: no pid before it is recorded, no live process once
\* supervision returned, and in the exception handler a live process with a
\* recorded pid only if supervision raised.
InHand ==
    /\ pc \in {"workdir", "prepare", "gate", "spawn", "record", "defer"} =>
          ~ pidRow[curJob][curAttempt]
    /\ pc \in {"evaluate", "publish", "finish"} =>
          solver[curJob][curAttempt] # "alive"
    /\ pc \in {"fail", "close"} =>
          \/ ~ pidRow[curJob][curAttempt]
          \/ solver[curJob][curAttempt] # "alive"
          \/ <<curJob, curAttempt>> \in abandoned

ProcessInv == MatchInv /\ PidsStay /\ InHand /\ RecordedSolverOwnsJob

Dwindle ==
    /\ UNCHANGED <<pidKnown, pidRow>>
    /\ abandoned \subseteq abandoned'
    /\ \A j \in Jobs, n \in AttemptNos :
          solver'[j][n] = "alive" => solver[j][n] = "alive"

\* The actions that start a process or write a pid.
LEMMA ProcessSteps ==
  ASSUME WorkerInv, [Next]_vars
  PROVE  \/ Spawn \/ RecordPid \/ Finish \/ CloseFailed \/ Defer
         \/ \E j \in Jobs : Claim(j)
         \/ Dwindle
  <1> USE DEF Dwindle, tables
  <1>1. CASE StartDispatcher
    BY <1>1 DEF StartDispatcher
  <1>2. CASE Cycle
    BY <1>2 DEF Cycle, Reconcile, ReadPaused, ClaimNothing, EndCycle, CycleRaises
  <1>3. CASE RunOne
    <2>1. CASE \/ MakeWorkdir \/ WorkdirRaises \/ Prepare \/ Gate
               \/ SpawnRaises \/ SupervisionRaises
      BY <2>1 DEF MakeWorkdir, WorkdirRaises, Prepare, Gate, SpawnRaises,
                  SupervisionRaises
    <2>2. CASE PollExited \/ PollCancelled \/ PollTimedOut
      <3>1. /\ UNCHANGED <<pidKnown, pidRow, abandoned>>
            /\ solver' = [solver EXCEPT ![curJob][curAttempt] = "dead"]
        BY <2>2 DEF PollExited, PollCancelled, PollTimedOut, StopPolling
      <3>2. solver \in [Jobs -> [AttemptNos -> {"none", "alive", "dead"}]]
        BY DEF WorkerInv, TypeOK
      <3> QED
        BY <3>1, <3>2
    <2>3. CASE \/ Evaluate \/ EvaluateRaises \/ Publish \/ PublishRaises
               \/ FinishRefused \/ RecordFailure \/ CloseRefused \/ DeferRefused
               \/ DiagnosticRaises
      BY <2>3 DEF Evaluate, EvaluateRaises, Publish, PublishRaises, FinishRefused,
                  RecordFailure, CloseRefused, DeferRefused, DiagnosticRaises
    <2> QED
      BY <1>3, <2>1, <2>2, <2>3 DEF RunOne
  <1>4. CASE Operator
    BY <1>4 DEF Operator, Submit, RequestCancel, Retry, SetPaused
  <1>5. CASE Environment
    <2>1. ASSUME NEW j \in Jobs, NEW n \in AttemptNos, SolverExits(j, n)
          PROVE  Dwindle
      BY <2>1 DEF SolverExits, WorkerInv, TypeOK
    <2>2. CASE DispatcherDies
      BY <2>2 DEF DispatcherDies
    <2>3. CASE Reboot
      BY <2>3 DEF Reboot
    <2> QED
      BY <1>5, <2>1, <2>2, <2>3 DEF Environment
  <1>6. CASE UNCHANGED vars
    BY <1>6 DEF vars
  <1> QED
    BY <1>1, <1>2, <1>3, <1>4, <1>5, <1>6 DEF Next

\* Recovery spares an attempt that does not run, and one whose process does.
LEMMA RecoverySpares ==
  ASSUME WorkerInv, AttemptsMatchJobs, Reconcile, NEW j \in Jobs, NEW n \in AttemptNos,
         attemptState[j][n] = "RUNNING" => pidKnown[j][n] /\ solver[j][n] = "alive"
  PROVE  /\ attemptState'[j][n] = attemptState[j][n]
         /\ attemptState[j][n] = "RUNNING" => jobState'[j] = jobState[j]
  <1>1. CASE \E m \in AttemptNos : Recovered(j, m)
    <2>1. PICK m \in AttemptNos : Recovered(j, m)
      BY <1>1
    <2>2. m # n /\ attemptState[j][m] = "RUNNING"
      BY <2>1 DEF Recovered, StaleAttempts
    <2>3. attemptState[j][n] # "RUNNING"
      BY <2>2 DEF AttemptsMatchJobs
    <2> QED
      BY <2>1, <2>2, <2>3 DEF Recovered, WorkerInv, TypeOK
  <1> QED
    BY <1>1, Recovery

LEMMA PidsStep ==
  ASSUME WorkerInv, PidsStay, [Next]_vars
  PROVE  PidsStay'
  <1> USE DEF WorkerInv, TypeOK, PidsStay
  <1>1. CASE RecordPid
    <2>1. /\ curJob \in Jobs /\ curAttempt \in AttemptNos
          /\ curAttempt = lastAttempt[curJob]
          /\ UNCHANGED <<lastAttempt, attemptState>>
          /\ pidKnown' = [pidKnown EXCEPT ![curJob][curAttempt] = TRUE]
          /\ pidRow' = [pidRow EXCEPT ![curJob][curAttempt] = TRUE]
      BY <1>1 DEF RecordPid, HoldsNewest, Running
    <2>2. curAttempt <= lastAttempt[curJob]
      BY <2>1, QueueAssumption DEF QueueAssumption, AttemptNos
    <2>3. ASSUME NEW j \in Jobs, NEW n \in AttemptNos, pidRow'[j][n]
          PROVE  \/ j = curJob /\ n = curAttempt /\ pidKnown'[j][n]
                 \/ pidRow[j][n] /\ pidKnown'[j][n] = pidKnown[j][n]
      BY <2>1, <2>3
    <2> QED
      BY <2>1, <2>2, <2>3
  <1>2. CASE Finish \/ CloseFailed \/ Defer
    <2>1. /\ curJob \in Jobs /\ curAttempt \in AttemptNos
          /\ UNCHANGED <<lastAttempt, pidRow>>
          /\ pidKnown' = [pidKnown EXCEPT ![curJob][curAttempt] = FALSE]
      BY <1>2, Conclusion DEF Finish, CloseFailed, Defer, FinishCommit
    <2>2. /\ \A j \in Jobs \ {curJob} : attemptState'[j] = attemptState[j]
          /\ \E v \in Ended : \A m \in AttemptNos : attemptState'[curJob][m] =
                IF m = curAttempt THEN v ELSE attemptState[curJob][m]
      BY <1>2, ConclusionByJob
    <2>3. ASSUME NEW j \in Jobs, NEW n \in AttemptNos, attemptState'[j][n] = "RUNNING"
          PROVE  attemptState[j][n] = "RUNNING" /\ pidKnown'[j][n] = pidKnown[j][n]
      BY <2>1, <2>2, <2>3 DEF Ended, Verdicts
    <2> QED
      BY <2>1, <2>3
  <1>3. ASSUME NEW k \in Jobs, Claim(k)
        PROVE  PidsStay'
    <2>1. /\ lastAttempt[k] + 1 \in AttemptNos
          /\ \A n \in AttemptNos : n <= lastAttempt[k] =>
                n <= lastAttempt[k] + 1 /\ n # lastAttempt[k] + 1
      BY <1>3, QueueAssumption DEF QueueAssumption, Claim, AttemptNos
    <2>2. /\ lastAttempt' = [lastAttempt EXCEPT ![k] = lastAttempt[k] + 1]
          /\ attemptState' = [attemptState EXCEPT ![k][lastAttempt[k] + 1] = "RUNNING"]
          /\ pidKnown' = [pidKnown EXCEPT ![k][lastAttempt[k] + 1] = FALSE]
          /\ UNCHANGED pidRow
      BY <1>3 DEF Claim
    <2>3. ASSUME NEW j \in Jobs, NEW n \in AttemptNos, pidRow[j][n]
          PROVE  /\ n <= lastAttempt'[j]
                 /\ attemptState'[j][n] = attemptState[j][n]
                 /\ pidKnown'[j][n] = pidKnown[j][n]
      BY <2>1, <2>2, <2>3
    <2>4. ASSUME NEW j \in Jobs, NEW n \in AttemptNos, pidRow'[j][n]
          PROVE  /\ n <= lastAttempt'[j]
                 /\ attemptState'[j][n] = "RUNNING" => pidKnown'[j][n]
      <3>1. pidRow[j][n]
        BY <2>2, <2>4
      <3> QED
        BY <3>1, <2>3
    <2> QED
      BY <2>4
  <1>4. ASSUME UNCHANGED <<pidKnown, pidRow, lastAttempt>>,
               \A j \in Jobs, n \in AttemptNos :
                  attemptState'[j][n] = "RUNNING" => attemptState[j][n] = "RUNNING"
        PROVE  PidsStay'
    BY <1>4
  <1>5. CASE Reconcile
    <2>1. UNCHANGED <<pidKnown, pidRow, lastAttempt>>
      BY <1>5 DEF Reconcile
    <2>2. ASSUME NEW j \in Jobs, NEW n \in AttemptNos, attemptState'[j][n] = "RUNNING"
          PROVE  attemptState[j][n] = "RUNNING"
      <3>1. ASSUME NEW m \in AttemptNos, Recovered(j, m)
            PROVE  attemptState[j][n] = "RUNNING"
        BY <2>2, <3>1 DEF Recovered, StaleAttempts
      <3> QED
        BY <1>5, <2>2, <3>1, Recovery
    <2> QED
      BY <1>4, <2>1, <2>2
  <1>6. ASSUME NEW k \in Jobs, Submit(k) \/ RequestCancel(k) \/ Retry(k)
        PROVE  PidsStay'
    BY <1>6 DEF Submit, RequestCancel, Retry
  <1>7. CASE Dwindle /\ Quiet
    BY <1>7 DEF Dwindle, Quiet
  <1>8. CASE Spawn
    BY <1>8 DEF Spawn, tables
  <1> QED
    BY <1>1, <1>2, <1>3, <1>5, <1>6, <1>7, <1>8, ProcessSteps, TableSteps

LEMMA InHandStep ==
  ASSUME WorkerInv, PidsStay, InHand, [Next]_vars
  PROVE  InHand'
  <1> USE DEF InHand
  <1>0. /\ solver \in [Jobs -> [AttemptNos -> {"none", "alive", "dead"}]]
        /\ pidRow \in [Jobs -> [AttemptNos -> BOOLEAN]]
        /\ pc \in Running => curJob \in Jobs /\ curAttempt \in AttemptNos
    BY DEF WorkerInv, TypeOK, HoldsNewest
  <1>1. ASSUME NEW k \in Jobs, Claim(k)
        PROVE  InHand'
    <2>1. lastAttempt[k] + 1 \in AttemptNos /\ ~(lastAttempt[k] + 1 <= lastAttempt[k])
      BY <1>1, QueueAssumption DEF QueueAssumption, Claim, AttemptNos, WorkerInv, TypeOK
    <2>2. /\ pc' = "workdir" /\ curJob' = k /\ curAttempt' = lastAttempt[k] + 1
          /\ UNCHANGED pidRow
      BY <1>1 DEF Claim
    <2> QED
      BY <2>1, <2>2 DEF PidsStay
  <1>2. ASSUME pc' \in Idle
        PROVE  InHand'
    BY <1>2 DEF Idle
  <1>3. CASE StartDispatcher \/ Reconcile \/ ReadPaused \/ ClaimNothing \/ EndCycle
             \/ CycleRaises
    BY <1>2, <1>3 DEF StartDispatcher, Reconcile, ReadPaused, ClaimNothing, EndCycle,
                      CycleRaises, Idle
  <1>4. CASE \/ WorkdirRaises \/ Finish \/ CloseFailed \/ CloseRefused \/ Defer
             \/ DeferRefused \/ DiagnosticRaises \/ DispatcherDies \/ Reboot
    BY <1>2, <1>4 DEF WorkdirRaises, Finish, CloseFailed, CloseRefused, Defer, DeferRefused,
                      DiagnosticRaises, DispatcherDies, Reboot, FinishCommit, Leave, Returned,
                      CycleAborted, Idle
  <1>5. CASE MakeWorkdir \/ Prepare \/ Gate \/ SpawnRaises
    BY <1>5 DEF MakeWorkdir, Prepare, Gate, SpawnRaises, Goto, tables
  <1>6. CASE Spawn
    BY <1>6 DEF Spawn, Goto, tables
  <1>7. CASE RecordPid
    BY <1>7 DEF RecordPid, Goto
  <1>8. CASE SupervisionRaises
    BY <1>8 DEF SupervisionRaises, Goto
  <1>9. CASE PollExited \/ PollCancelled \/ PollTimedOut
    <2>1. /\ pc = "poll" /\ pc' = "evaluate" /\ UNCHANGED <<curJob, curAttempt>>
          /\ solver' = [solver EXCEPT ![curJob][curAttempt] = "dead"]
      BY <1>9 DEF PollExited, PollCancelled, PollTimedOut, StopPolling
    <2> QED
      BY <1>0, <2>1 DEF Running
  <1>10. CASE \/ Evaluate \/ EvaluateRaises \/ Publish \/ PublishRaises \/ FinishRefused
              \/ RecordFailure
    BY <1>10 DEF Evaluate, EvaluateRaises, Publish, PublishRaises, FinishRefused,
                 RecordFailure, Goto, tables
  <1>11. CASE Operator \/ UNCHANGED vars
    BY <1>11 DEF Operator, Submit, RequestCancel, Retry, SetPaused, tables, worker, vars
  <1>12. ASSUME NEW j \in Jobs, NEW n \in AttemptNos, SolverExits(j, n)
         PROVE  InHand'
    <2>1. UNCHANGED <<pc, curJob, curAttempt, pidRow, abandoned>>
          /\ solver' = [solver EXCEPT ![j][n] = "dead"]
      BY <1>12 DEF SolverExits, worker, tables
    <2>2. pc \in Running /\ solver'[curJob][curAttempt] = "alive" =>
             solver[curJob][curAttempt] = "alive"
      BY <1>0, <2>1
    <2> QED
      BY <2>1, <2>2 DEF Running
  <1> QED
    BY <1>1, <1>3, <1>4, <1>5, <1>6, <1>7, <1>8, <1>9, <1>10, <1>11, <1>12
       DEF Next, Cycle, RunOne, Environment

LEMMA RecordedStep ==
  ASSUME ProcessInv, DisciplinedRetry, [Next]_vars
  PROVE  RecordedSolverOwnsJob'
  <1> USE DEF ProcessInv, RecordedSolverOwnsJob
  <1>0. /\ WorkerInv
        /\ AttemptsMatchJobs
        /\ WorksForActive
    BY DEF MatchInv, ActiveInv
  <1>1. CASE Spawn \/ RecordPid
    <2>1. /\ curJob \in Jobs /\ curAttempt \in AttemptNos
          /\ curAttempt = lastAttempt[curJob]
          /\ attemptState[curJob][curAttempt] = "RUNNING"
          /\ jobState[curJob] \in Active
          /\ UNCHANGED <<jobState, attemptState, lastAttempt, abandoned>>
      BY <1>0, <1>1 DEF Spawn, RecordPid, WorkerInv, HoldsNewest, WorksForActive,
                        Running, tables, Goto
    <2>2. \A j \in Jobs, n \in AttemptNos :
             solver'[j][n] = "alive" /\ pidRow'[j][n] =>
                \/ solver[j][n] = "alive" /\ pidRow[j][n]
                \/ j = curJob /\ n = curAttempt
      BY <1>0, <1>1, <2>1 DEF Spawn, RecordPid, WorkerInv, TypeOK, tables
    <2> QED
      BY <2>1, <2>2
  <1>2. CASE Finish \/ CloseFailed \/ Defer
    <2>1. /\ curJob \in Jobs /\ curAttempt \in AttemptNos
          /\ UNCHANGED <<lastAttempt, solver, pidRow, abandoned>>
      BY <1>0, <1>2, Conclusion DEF Finish, CloseFailed, Defer, FinishCommit
    <2>2. \A j \in Jobs \ {curJob} :
             /\ jobState'[j] = jobState[j]
             /\ attemptState'[j] = attemptState[j]
      BY <1>0, <1>2, ConclusionByJob
    <2>3. \A m \in AttemptNos \ {curAttempt} :
             attemptState'[curJob][m] = attemptState[curJob][m]
      BY <1>0, <1>2, ConclusionByJob
    <2>4. solver[curJob][curAttempt] = "alive" /\ pidRow[curJob][curAttempt] =>
             /\ <<curJob, curAttempt>> \in abandoned
             /\ attemptState'[curJob][curAttempt] = "FAILED"
      BY <1>0, <1>2, <2>1 DEF Finish, CloseFailed, Defer, FinishCommit, InHand,
                              WorkerInv, TypeOK
    <2>5. ASSUME NEW m \in AttemptNos, m # curAttempt,
                 solver[curJob][m] = "alive", pidRow[curJob][m]
          PROVE  <<curJob, m>> \in abandoned /\ attemptState[curJob][m] = "FAILED"
      BY <1>0, <1>2, <2>1, <2>5, Conclusion
    <2> QED
      BY <2>1, <2>2, <2>3, <2>4, <2>5
  <1>3. ASSUME NEW j \in Jobs, Claim(j)
        PROVE  RecordedSolverOwnsJob'
    <2>1. /\ lastAttempt[j] + 1 \in AttemptNos
          /\ ~ pidRow[j][lastAttempt[j] + 1]
      BY <1>0, <1>3, QueueAssumption
         DEF QueueAssumption, Claim, AttemptNos, PidsStay, WorkerInv, TypeOK
    <2>2. /\ UNCHANGED <<solver, pidRow, abandoned>>
          /\ attemptState' = [attemptState EXCEPT ![j][lastAttempt[j] + 1] = "RUNNING"]
          /\ jobState' = [jobState EXCEPT ![j] = "RUNNING"]
          /\ lastAttempt' = [lastAttempt EXCEPT ![j] = lastAttempt[j] + 1]
          /\ jobState[j] \notin Active
      BY <1>3 DEF Claim, Oldest, Active
    <2>3. ASSUME NEW k \in Jobs, NEW n \in AttemptNos, pidRow[k][n]
          PROVE  /\ attemptState'[k][n] = attemptState[k][n]
                 /\ k # j => /\ jobState'[k] = jobState[k]
                             /\ lastAttempt'[k] = lastAttempt[k]
      BY <1>0, <2>1, <2>2, <2>3 DEF WorkerInv, TypeOK
    <2> QED
      BY <2>2, <2>3
  <1>4. ASSUME Dwindle,
               NEW j \in Jobs, NEW n \in AttemptNos,
               solver'[j][n] = "alive", pidRow'[j][n],
               ~(Finish \/ CloseFailed \/ Defer), ~(\E k \in Jobs : Claim(k))
        PROVE  \/ /\ n = lastAttempt'[j]
                  /\ attemptState'[j][n] = "RUNNING"
                  /\ jobState'[j] \in Active
               \/ /\ <<j, n>> \in abandoned'
                  /\ attemptState'[j][n] = "FAILED"
    <2>1. /\ solver[j][n] = "alive" /\ pidRow[j][n]
          /\ abandoned \subseteq abandoned'
      BY <1>4 DEF Dwindle
    <2>2. CASE Reconcile
      <3>1. /\ attemptState[j][n] = "RUNNING" => pidKnown[j][n] /\ solver[j][n] = "alive"
        BY <2>1 DEF PidsStay
      <3>2. /\ attemptState'[j][n] = attemptState[j][n]
            /\ attemptState[j][n] = "RUNNING" => jobState'[j] = jobState[j]
        BY <1>0, <2>2, <3>1, RecoverySpares
      <3> QED
        BY <2>1, <2>2, <3>2 DEF Reconcile
    <2>3. ASSUME NEW k \in Jobs, Submit(k) \/ RequestCancel(k) \/ Retry(k)
          PROVE  /\ UNCHANGED <<lastAttempt, attemptState>>
                 /\ jobState[j] \in Active => jobState'[j] \in Active
      BY <1>0, <2>3 DEF Submit, RequestCancel, Retry, DisciplinedRetry,
                        Active, WorkerInv, TypeOK
    <2>4. CASE Quiet
      BY <2>1, <2>4 DEF Quiet
    <2>5. ASSUME NEW k \in Jobs, Submit(k) \/ RequestCancel(k) \/ Retry(k)
          PROVE  \/ /\ n = lastAttempt'[j]
                    /\ attemptState'[j][n] = "RUNNING"
                    /\ jobState'[j] \in Active
                 \/ /\ <<j, n>> \in abandoned'
                    /\ attemptState'[j][n] = "FAILED"
      BY <2>1, <2>3, <2>5
    <2> QED
      BY <1>4, <2>2, <2>4, <2>5, TableSteps
  <1> QED
    BY <1>0, <1>1, <1>2, <1>3, <1>4, ProcessSteps

LEMMA ProcessStep == ProcessInv /\ DisciplinedRetry /\ [Next]_vars => ProcessInv'
  <1> SUFFICES ASSUME ProcessInv, DisciplinedRetry, [Next]_vars PROVE ProcessInv'
    OBVIOUS
  <1>1. WorkerInv
    BY DEF ProcessInv, MatchInv, ActiveInv
  <1> QED
    BY <1>1, MatchStep, PidsStep, InHandStep, RecordedStep DEF ProcessInv

\* A live process whose pid was ever recorded keeps its job active, also as the
\* orphan of a dead dispatcher: no second attempt is opened and no verdict is
\* given.  The exception is the one run_one makes: its handler reports FAILED
\* an attempt whose supervision raised.
THEOREM QueueRecordedSolver == DisciplinedRetry => (Spec => []RecordedSolverOwnsJob)
  <1> SUFFICES ASSUME DisciplinedRetry PROVE Spec => []RecordedSolverOwnsJob
    OBVIOUS
  <1>1. Init => ProcessInv
    BY MatchInit DEF ProcessInv, Init, RecordedSolverOwnsJob, PidsStay, InHand
  <1>2. ProcessInv /\ [Next]_vars => ProcessInv'
    BY ProcessStep
  <1>3. ProcessInv => RecordedSolverOwnsJob
    BY DEF ProcessInv
  <1> QED
    BY <1>1, <1>2, <1>3, PTL DEF Spec

-----------------------------------------------------------------------------
(* The queue implements the ledger, as long as operators do not retry      *)
(* active jobs.                                                            *)


LedgerStep == [Ledger!LedgerNext]_(Ledger!ledger)

\* The status of a job, read off its state.
LEMMA StatusCases ==
  ASSUME NEW s \in JobStates
  PROVE  /\ s = "NONE" <=> StatusOf(s) = "absent"
         /\ s = "QUEUED" <=> StatusOf(s) = "pending"
         /\ s \in Active <=> StatusOf(s) = "solving"
         /\ s = "WAITING_RESOURCE" <=> StatusOf(s) = "held"
         /\ s = "SUCCEEDED" <=> StatusOf(s) = "succeeded"
         /\ s \in {"FAILED", "TIMED_OUT", "CANCELLED"} <=> StatusOf(s) = "closed"
  BY DEF StatusOf, JobStates, Active

LEMMA FateCases ==
  /\ FateOf("NONE") = "none"
  /\ FateOf("RUNNING") = "open"
  /\ \A v \in Ended : FateOf(v) = v
  BY DEF FateOf, Ended, Verdicts

LEMMA LedgerInit == Init => Ledger!LedgerInit
  <1> SUFFICES ASSUME Init PROVE Ledger!LedgerInit
    OBVIOUS
  <1>1. StatusOf("NONE") = "absent"
    BY StatusCases DEF JobStates
  <1> QED
    BY <1>1, FateCases DEF Init, Ledger!LedgerInit, AttemptNos

\* A step that moves one job and no attempt.
LEMMA LedgerMove ==
  ASSUME TypeOK, TypeOK', NEW j \in Jobs,
         \A k \in Jobs \ {j} : jobState'[k] = jobState[k],
         UNCHANGED <<lastAttempt, attemptState>>,
         NEW from, NEW to,
         StatusOf(jobState[j]) \in from, StatusOf(jobState'[j]) = to
  PROVE  Ledger!Move(j, from, to)
  BY DEF Ledger!Move, TypeOK

LEMMA LedgerOperators ==
  ASSUME TypeOK, TypeOK', DisciplinedRetry, NEW j \in Jobs,
         Submit(j) \/ RequestCancel(j) \/ Retry(j)
  PROVE  LedgerStep
  <1>1. /\ \A k \in Jobs \ {j} : jobState'[k] = jobState[k]
        /\ UNCHANGED <<lastAttempt, attemptState>>
        /\ jobState[j] \in JobStates /\ jobState'[j] \in JobStates
    BY DEF Submit, RequestCancel, Retry, TypeOK
  <1>2. CASE Submit(j)
    <2>1. jobState[j] = "NONE" /\ jobState'[j] = "QUEUED"
      BY <1>2 DEF Submit, TypeOK
    <2>2. Ledger!Accept(j)
      BY <1>1, <2>1, StatusCases, LedgerMove DEF Ledger!Accept
    <2> QED
      BY <2>2 DEF LedgerStep, Ledger!LedgerNext
  <1>3. CASE RequestCancel(j) /\ jobState[j] # "RUNNING"
    <2>1. jobState[j] \in {"QUEUED", "WAITING_RESOURCE"} /\ jobState'[j] = "CANCELLED"
      BY <1>3 DEF RequestCancel, TypeOK
    <2>2. Ledger!Withdraw(j)
      BY <1>1, <2>1, StatusCases, LedgerMove DEF Ledger!Withdraw
    <2> QED
      BY <2>2 DEF LedgerStep, Ledger!LedgerNext
  <1>4. CASE RequestCancel(j) /\ jobState[j] = "RUNNING"
    <2>1. jobState'[j] = "CANCEL_REQUESTED"
      BY <1>4 DEF RequestCancel, TypeOK
    <2>2. StatusOf(jobState'[j]) = StatusOf(jobState[j])
      BY <1>1, <1>4, <2>1, StatusCases DEF Active
    <2>3. \A k \in Jobs : StatusOf(jobState'[k]) = StatusOf(jobState[k])
      BY <1>1, <2>2
    <2> QED
      BY <1>1, <2>3 DEF LedgerStep, Ledger!ledger
  <1>5. CASE Retry(j)
    <2>1. /\ jobState[j] \in {"WAITING_RESOURCE", "FAILED", "TIMED_OUT", "CANCELLED"}
          /\ jobState'[j] = "QUEUED"
      BY <1>5 DEF Retry, DisciplinedRetry, JobMayMove, JobTransitions, JobStates, Active,
                  Verdicts, TypeOK
    <2>2. Ledger!Reopen(j)
      BY <1>1, <2>1, StatusCases, LedgerMove DEF Ledger!Reopen
    <2> QED
      BY <2>2 DEF LedgerStep, Ledger!LedgerNext
  <1> QED
    BY <1>2, <1>3, <1>4, <1>5

LEMMA LedgerBegin ==
  ASSUME TypeOK, NEW j \in Jobs, Claim(j)
  PROVE  LedgerStep
  <1>1. /\ jobState[j] = "QUEUED" /\ lastAttempt[j] < AttemptBound
        /\ jobState' = [jobState EXCEPT ![j] = "RUNNING"]
        /\ lastAttempt' = [lastAttempt EXCEPT ![j] = lastAttempt[j] + 1]
        /\ attemptState' = [attemptState EXCEPT ![j][lastAttempt[j] + 1] = "RUNNING"]
    BY DEF Claim, Oldest
  <1>2. lastAttempt[j] + 1 \in 1..AttemptBound
    BY <1>1, QueueAssumption DEF QueueAssumption, TypeOK
  <1>3. StatusOf(jobState[j]) = "pending" /\ StatusOf("RUNNING") = "solving"
    BY <1>1, StatusCases DEF JobStates, Active
  <1>4. [k \in Jobs |-> StatusOf(jobState'[k])] =
            [[k \in Jobs |-> StatusOf(jobState[k])] EXCEPT ![j] = "solving"]
    BY <1>1, <1>3 DEF TypeOK
  <1>5. [k \in Jobs |-> [n \in AttemptNos |-> FateOf(attemptState'[k][n])]] =
            [[k \in Jobs |-> [n \in AttemptNos |-> FateOf(attemptState[k][n])]]
                EXCEPT ![j][lastAttempt[j] + 1] = "open"]
    BY <1>1, <1>2, FateCases DEF TypeOK, AttemptNos
  <1>6. Ledger!Begin(j)
    BY <1>1, <1>3, <1>4, <1>5 DEF Ledger!Begin
  <1> QED
    BY <1>6 DEF LedgerStep, Ledger!LedgerNext

LEMMA LedgerEnd ==
  ASSUME MatchInv, Finish \/ CloseFailed \/ Defer
  PROVE  LedgerStep
  <1>0. WorkerInv /\ TypeOK /\ jobState[curJob] \in Active
    BY DEF MatchInv, ActiveInv, WorkerInv, WorksForActive, Finish, CloseFailed, Defer,
           Running
  <1>1. PICK v \in Ended :
          /\ attemptState' = [attemptState EXCEPT ![curJob][curAttempt] = v]
          /\ jobState' = [jobState EXCEPT ![curJob] =
                            IF v = "INTERRUPTED" THEN "WAITING_RESOURCE" ELSE v]
    BY <1>0, Conclusion
  <1>2. /\ curJob \in Jobs /\ curAttempt \in AttemptNos
        /\ curAttempt = lastAttempt[curJob] /\ UNCHANGED lastAttempt
    BY <1>0, Conclusion
  <1> DEFINE to == IF v = "INTERRUPTED" THEN "held"
                   ELSE IF v = "SUCCEEDED" THEN "succeeded" ELSE "closed"
  <1>3. StatusOf(jobState[curJob]) = "solving"
    BY <1>0, <1>2, StatusCases DEF TypeOK
  <1>4. jobState'[curJob] = (IF v = "INTERRUPTED" THEN "WAITING_RESOURCE" ELSE v)
    BY <1>0, <1>1, <1>2 DEF TypeOK
  <1>5. StatusOf(jobState'[curJob]) = to
    BY <1>4, StatusCases DEF Ended, Verdicts, JobStates
  <1>6. [k \in Jobs |-> StatusOf(jobState'[k])] =
            [[k \in Jobs |-> StatusOf(jobState[k])] EXCEPT ![curJob] = to]
    BY <1>0, <1>1, <1>2, <1>5 DEF TypeOK
  <1>7. [k \in Jobs |-> [n \in AttemptNos |-> FateOf(attemptState'[k][n])]] =
            [[k \in Jobs |-> [n \in AttemptNos |-> FateOf(attemptState[k][n])]]
                EXCEPT ![curJob][lastAttempt[curJob]] = v]
    BY <1>0, <1>1, <1>2, FateCases DEF TypeOK
  <1>8. Ledger!End(curJob, v, to)
    BY <1>2, <1>3, <1>6, <1>7 DEF Ledger!End, AttemptNos
  <1>9. CASE v = "INTERRUPTED"
    BY <1>2, <1>8, <1>9 DEF Ledger!Hold, LedgerStep, Ledger!LedgerNext
  <1>10. CASE v # "INTERRUPTED"
    <2>1. v \in Ledger!Conclusions
      BY <1>10 DEF Ledger!Conclusions, Ended, Verdicts
    <2>2. Ledger!Conclude(curJob, v)
      BY <1>8, <1>10 DEF Ledger!Conclude
    <2> QED
      BY <1>2, <2>1, <2>2 DEF LedgerStep, Ledger!LedgerNext
  <1> QED
    BY <1>9, <1>10

LEMMA LedgerRecover ==
  ASSUME MatchInv, TypeOK', Reconcile
  PROVE  LedgerStep
  <1>0. WorkerInv /\ TypeOK /\ AttemptsMatchJobs /\ UNCHANGED lastAttempt
    BY DEF MatchInv, ActiveInv, WorkerInv, Reconcile
  <1> DEFINE S == {j \in Jobs : \E n \in AttemptNos : Recovered(j, n)}
             to == [j \in S |-> StatusOf(jobState'[j])]
  <1>1. ASSUME NEW j \in S
        PROVE  /\ StatusOf(jobState[j]) = "solving"
               /\ StatusOf(jobState'[j]) \in {"pending", "closed"}
               /\ lastAttempt[j] \in AttemptNos
               /\ attemptState'[j] =
                    [attemptState[j] EXCEPT ![lastAttempt[j]] = "INTERRUPTED"]
    <2>1. PICK n \in AttemptNos : Recovered(j, n)
      BY <1>1
    <2>2. n = lastAttempt[j]
      BY <1>0, <1>1, <2>1 DEF Recovered, StaleAttempts, AttemptsMatchJobs
    <2>3. StatusOf(jobState[j]) = "solving"
      BY <1>0, <1>1, <2>1, StatusCases DEF Recovered, TypeOK
    <2>4. StatusOf(jobState'[j]) \in {"pending", "closed"}
      BY <1>1, <2>1, StatusCases DEF Recovered, JobStates
    <2> QED
      BY <2>1, <2>2, <2>3, <2>4 DEF Recovered
  <1>2. ASSUME NEW j \in Jobs \ S
        PROVE  jobState'[j] = jobState[j] /\ attemptState'[j] = attemptState[j]
    BY <1>0, <1>2, Recovery
  <1>3. to \in [S -> {"pending", "closed"}]
    BY <1>1
  <1>4. [j \in Jobs |-> StatusOf(jobState'[j])] =
            [j \in Jobs |-> IF j \in S THEN to[j] ELSE StatusOf(jobState[j])]
    BY <1>2
  <1>5. ASSUME NEW j \in Jobs, NEW n \in AttemptNos
        PROVE  FateOf(attemptState'[j][n]) =
                   IF j \in S /\ n = lastAttempt[j] THEN "INTERRUPTED"
                                                    ELSE FateOf(attemptState[j][n])
    <2>1. FateOf("INTERRUPTED") = "INTERRUPTED"
      BY FateCases DEF Ended
    <2>2. CASE j \in S
      <3>1. attemptState'[j] =
              [attemptState[j] EXCEPT ![lastAttempt[j]] = "INTERRUPTED"]
        BY <1>1, <2>2
      <3>2. attemptState[j] \in [AttemptNos -> AttemptStates]
        BY <1>0 DEF TypeOK
      <3>3. attemptState'[j][n] =
              IF n = lastAttempt[j] THEN "INTERRUPTED" ELSE attemptState[j][n]
        BY ONLY <3>1, <3>2, n \in AttemptNos
      <3> QED
        BY ONLY <2>1, <2>2, <3>3
    <2>3. CASE j \notin S
      BY <1>2, <2>3
    <2> QED
      BY <2>2, <2>3
  <1> HIDE DEF S, to
  <1>6. S \in SUBSET Jobs
    BY DEF S
  <1>7. \A j \in S : StatusOf(jobState[j]) = "solving"
    BY <1>1
  <1>8. Ledger!Recover(S)
    BY <1>0, <1>3, <1>4, <1>5, <1>6, <1>7 DEF Ledger!Recover, AttemptNos
  <1> QED
    BY <1>6, <1>8 DEF LedgerStep, Ledger!LedgerNext

\* What claim_next, finish_attempt, defer_attempt_for_resources, reconcile_stale
\* and the operator commands write is always a step of AnalysisLedger, and all
\* other steps of dispatcher, solvers and operators leave the ledger unchanged.
THEOREM QueueImplementsLedger == DisciplinedRetry => (Spec => ImplementsLedger)
  <1> SUFFICES ASSUME DisciplinedRetry PROVE Spec => ImplementsLedger
    OBVIOUS
  <1>1. ASSUME MatchInv, TypeOK', [Next]_vars PROVE LedgerStep
    <2>1. TypeOK
      BY <1>1 DEF MatchInv, ActiveInv, WorkerInv
    <2>2. CASE Quiet
      BY <2>2 DEF Quiet, LedgerStep, Ledger!ledger
    <2> QED
      BY <1>1, <2>1, <2>2, TableSteps, LedgerOperators, LedgerBegin, LedgerEnd,
         LedgerRecover
  <1>2. MatchInv /\ MatchInv' /\ [Next]_vars => [Ledger!LedgerNext]_(Ledger!ledger)
    BY <1>1 DEF MatchInv, ActiveInv, WorkerInv, LedgerStep
  <1> QED
    BY <1>2, LedgerInit, MatchInvariant, PTL
       DEF Spec, ImplementsLedger, Ledger!LedgerSpec

-----------------------------------------------------------------------------
(* What verdicts and resource waits rest on, whatever operators retry.     *)


\* An attempt that was not claimed yet has left nothing anywhere.
UnclaimedIsFresh ==
    \A j \in Jobs, n \in AttemptNos : n > lastAttempt[j] =>
        /\ attemptState[j][n] = "NONE"
        /\ evidence[j][n] = {}
        /\ solver[j][n] = "none"

\* What run_one has published and started at each of its steps.
WorkIsClean ==
    /\ pc \in {"workdir", "prepare", "gate", "spawn", "defer"} =>
          evidence[curJob][curAttempt] = {} /\ solver[curJob][curAttempt] = "none"
    /\ pc \in {"record", "poll", "evaluate", "publish"} =>
          evidence[curJob][curAttempt] \cap Verdicts = {}
    /\ pc = "finish" => evidence[curJob][curAttempt] \cap Verdicts = {outcome}

EvidenceInv ==
    WorkerInv /\ UnclaimedIsFresh /\ WorkIsClean /\ VerdictHasReport
              /\ ResourceWaitIsClean

LEMMA EvidenceInit == Init => EvidenceInv
  BY WorkerInit DEF Init, EvidenceInv, UnclaimedIsFresh, WorkIsClean, VerdictHasReport,
                    ResourceWaitIsClean, Verdicts

\* A step of run_one that writes no table and touches neither files nor process.
LEMMA EvidenceOfControl ==
  ASSUME EvidenceInv, UNCHANGED <<tables, solver, evidence>>,
         \/ pc' \notin Running
         \/ pc' = pc /\ UNCHANGED <<curJob, curAttempt, outcome>>
         \/ \E from, to \in Running : Goto(from, to) /\ <<from, to>> \in
               {<<"workdir", "prepare">>, <<"prepare", "gate">>, <<"prepare", "fail">>,
                <<"gate", "spawn">>, <<"gate", "defer">>, <<"gate", "fail">>,
                <<"spawn", "fail">>, <<"record", "fail">>, <<"poll", "fail">>,
                <<"evaluate", "fail">>, <<"finish", "fail">>}
         \/ Evaluate
  PROVE  (UnclaimedIsFresh /\ WorkIsClean /\ VerdictHasReport /\ ResourceWaitIsClean)'
  <1>1. (UnclaimedIsFresh /\ VerdictHasReport /\ ResourceWaitIsClean)'
    BY DEF EvidenceInv, UnclaimedIsFresh, VerdictHasReport, ResourceWaitIsClean, tables
  <1>2. WorkIsClean'
    BY DEF EvidenceInv, WorkIsClean, Running, Goto, Evaluate
  <1> QED
    BY <1>1, <1>2

LEMMA EvidenceStep == EvidenceInv /\ [Next]_vars => EvidenceInv'
  <1> DEFINE Goal == UnclaimedIsFresh /\ WorkIsClean /\ VerdictHasReport
                     /\ ResourceWaitIsClean
  <1> SUFFICES ASSUME EvidenceInv, [Next]_vars PROVE Goal'
    BY WorkerStep DEF EvidenceInv
  <1>0. /\ WorkerInv /\ TypeOK
        /\ pc \in Running => /\ curJob \in Jobs /\ curAttempt \in AttemptNos
                             /\ curAttempt = lastAttempt[curJob]
                             /\ attemptState[curJob][curAttempt] = "RUNNING"
                             /\ curAttempt \notin intents[curJob]
    BY DEF EvidenceInv, WorkerInv, HoldsNewest, VerdictHasReport, Verdicts
  <1> USE DEF UnclaimedIsFresh, WorkIsClean, VerdictHasReport, ResourceWaitIsClean
  <1>1. CASE Cycle
    <2>1. CASE Reconcile
      <3>1. /\ UNCHANGED <<lastAttempt, intents, evidence, solver>>
            /\ pc' \notin Running
        BY <2>1 DEF Reconcile, Running
      <3>2. ASSUME NEW j \in Jobs, NEW n \in AttemptNos
            PROVE  \/ attemptState'[j][n] = attemptState[j][n]
                   \/ attemptState[j][n] = "RUNNING" /\ attemptState'[j][n] = "INTERRUPTED"
        <4>1. ASSUME NEW m \in AttemptNos, Recovered(j, m)
              PROVE  /\ attemptState[j][m] = "RUNNING"
                     /\ attemptState'[j][n] =
                          IF n = m THEN "INTERRUPTED" ELSE attemptState[j][n]
          BY <1>0, <4>1 DEF Recovered, StaleAttempts, TypeOK
        <4> QED
          BY <1>0, <2>1, <4>1, Recovery
      <3>3. ASSUME NEW j \in Jobs, jobState'[j] = "WAITING_RESOURCE"
            PROVE  jobState[j] = "WAITING_RESOURCE" /\ attemptState'[j] = attemptState[j]
        BY <1>0, <2>1, <3>3, Recovery DEF Recovered
      <3>4. VerdictHasReport'
        BY <3>1, <3>2 DEF EvidenceInv, Verdicts
      <3>5. ResourceWaitIsClean'
        BY <3>1, <3>3 DEF EvidenceInv
      <3>6. UnclaimedIsFresh'
        BY <3>1, <3>2 DEF EvidenceInv
      <3> QED
        BY <3>1, <3>4, <3>5, <3>6 DEF Running
    <2>2. CASE ReadPaused \/ ClaimNothing \/ EndCycle \/ CycleRaises
      <3>1. UNCHANGED <<tables, solver, evidence>> /\ pc' \notin Running
        BY <2>2 DEF ReadPaused, ClaimNothing, EndCycle, CycleRaises, Running
      <3> QED
        BY <3>1, EvidenceOfControl
    <2>3. ASSUME NEW j \in Jobs, Claim(j) PROVE Goal'
      <3> DEFINE n == lastAttempt[j] + 1
      <3>1. /\ n \in AttemptNos /\ n > lastAttempt[j]
            /\ jobState' = [jobState EXCEPT ![j] = "RUNNING"]
            /\ lastAttempt' = [lastAttempt EXCEPT ![j] = n]
            /\ attemptState' = [attemptState EXCEPT ![j][n] = "RUNNING"]
            /\ curJob' = j /\ curAttempt' = n /\ pc' = "workdir"
            /\ UNCHANGED <<intents, solver, evidence>>
        <4>1. lastAttempt[j] \in 0..AttemptBound /\ lastAttempt[j] < AttemptBound
          BY <1>0, <2>3 DEF Claim, TypeOK
        <4>2. n \in AttemptNos /\ n > lastAttempt[j]
          BY <4>1, QueueAssumption DEF QueueAssumption, AttemptNos
        <4> QED
          BY <2>3, <4>2 DEF Claim
      <3>2. /\ attemptState[j][n] = "NONE" /\ evidence[j][n] = {}
            /\ solver[j][n] = "none" /\ n \notin intents[j]
        <4> HIDE DEF n
        <4>1. /\ attemptState[j][n] = "NONE" /\ evidence[j][n] = {}
              /\ solver[j][n] = "none"
          BY <3>1 DEF EvidenceInv
        <4>2. n \in intents[j] => evidence[j][n] \cap Verdicts # {}
          BY <3>1 DEF EvidenceInv
        <4> QED
          BY <4>1, <4>2
      <3>3. \A k \in Jobs, m \in AttemptNos : ~(k = j /\ m = n) =>
               attemptState'[k][m] = attemptState[k][m]
        BY <1>0, <3>1 DEF TypeOK
      <3>4. attemptState'[j][n] = "RUNNING" /\ lastAttempt'[j] = n
            /\ jobState'[j] = "RUNNING"
        BY <1>0, <3>1 DEF TypeOK
      <3>5. \A k \in Jobs \ {j} :
               jobState'[k] = jobState[k] /\ lastAttempt'[k] = lastAttempt[k]
        BY <1>0, <3>1 DEF TypeOK
      <3> HIDE DEF n
      <3>6. VerdictHasReport'
        BY <3>1, <3>2, <3>3, <3>4 DEF EvidenceInv, Verdicts
      <3>7. ResourceWaitIsClean'
        BY <3>1, <3>3, <3>4, <3>5 DEF EvidenceInv
      <3>8. UnclaimedIsFresh'
        BY <1>0, <3>1, <3>3, <3>4, <3>5 DEF EvidenceInv, TypeOK, AttemptNos
      <3> QED
        BY <3>1, <3>2, <3>6, <3>7, <3>8
    <2> QED
      BY <1>1, <2>1, <2>2, <2>3 DEF Cycle
  <1>2. CASE RunOne
    <2>1. CASE \/ MakeWorkdir \/ WorkdirRaises \/ Prepare \/ Gate \/ SpawnRaises
               \/ SupervisionRaises \/ Evaluate \/ EvaluateRaises \/ FinishRefused
               \/ CloseRefused \/ DeferRefused \/ DiagnosticRaises
      <3>1. UNCHANGED <<tables, solver, evidence>>
        BY <2>1 DEF MakeWorkdir, WorkdirRaises, Prepare, Gate, SpawnRaises,
                    SupervisionRaises, Evaluate, EvaluateRaises, FinishRefused,
                    CloseRefused, DeferRefused, DiagnosticRaises
      <3>2. CASE WorkdirRaises \/ CloseRefused \/ DeferRefused \/ DiagnosticRaises
        <4>1. pc' \notin Running
          BY <3>2 DEF WorkdirRaises, CloseRefused, DeferRefused, DiagnosticRaises, Leave,
                      CycleAborted, Running
        <4> QED
          BY <3>1, <4>1, EvidenceOfControl
      <3>3. CASE Evaluate
        BY <3>1, <3>3, EvidenceOfControl
      <3>4. CASE \/ MakeWorkdir \/ Prepare \/ Gate \/ SpawnRaises
                 \/ SupervisionRaises \/ EvaluateRaises \/ FinishRefused
        BY <3>1, <3>4, EvidenceOfControl
           DEF MakeWorkdir, Prepare, Gate, SpawnRaises, SupervisionRaises, EvaluateRaises,
               FinishRefused, Goto, Running
      <3> QED
        BY <2>1, <3>2, <3>3, <3>4
    <2>2. CASE Spawn \/ RecordPid \/ PollExited \/ PollCancelled \/ PollTimedOut
      <3>1. /\ UNCHANGED <<jobState, lastAttempt, attemptState, intents, evidence,
                           curJob, curAttempt>>
            /\ pc \in {"spawn", "record", "poll"} /\ pc' \in {"record", "poll", "evaluate"}
        BY <2>2 DEF Spawn, RecordPid, PollExited, PollCancelled, PollTimedOut, StopPolling,
                    Goto, tables
      <3>2. \A j \in Jobs, n \in AttemptNos :
               solver'[j][n] = solver[j][n] \/ (j = curJob /\ n = curAttempt)
        BY <1>0, <2>2 DEF Spawn, RecordPid, PollExited, PollCancelled, PollTimedOut,
                          StopPolling, TypeOK
      <3>3. curJob \in Jobs /\ curAttempt = lastAttempt[curJob]
            /\ attemptState[curJob][curAttempt] = "RUNNING"
        BY <1>0, <3>1 DEF Running
      <3>4. VerdictHasReport'
        BY <3>1 DEF EvidenceInv
      <3>5. WorkIsClean'
        BY <3>1 DEF EvidenceInv
      <3>6. UnclaimedIsFresh'
        <4> SUFFICES ASSUME NEW j \in Jobs, NEW n \in AttemptNos, n > lastAttempt[j]
                     PROVE  /\ attemptState[j][n] = "NONE" /\ evidence[j][n] = {}
                            /\ solver'[j][n] = "none"
          BY <3>1
        <4>1. ~(j = curJob /\ n = curAttempt)
          BY <3>3 DEF EvidenceInv
        <4> QED
          BY <3>2, <4>1 DEF EvidenceInv
      <3>7. ResourceWaitIsClean'
        BY <3>1, <3>2, <3>3 DEF EvidenceInv
      <3> QED
        BY <3>4, <3>5, <3>6, <3>7
    <2>3. CASE Publish \/ PublishRaises \/ RecordFailure
      <3>1. /\ UNCHANGED <<jobState, lastAttempt, attemptState, intents, solver,
                           curJob, curAttempt, outcome>>
            /\ pc \in {"publish", "fail"} /\ pc' \in {"finish", "fail", "close"}
            /\ pc' = "finish" => Publish
        BY <2>3 DEF Publish, PublishRaises, RecordFailure, Goto, tables
      <3>2. /\ curJob \in Jobs /\ curAttempt \in AttemptNos
            /\ curAttempt = lastAttempt[curJob]
            /\ attemptState[curJob][curAttempt] = "RUNNING"
            /\ curAttempt \notin intents[curJob]
        BY <1>0, <3>1 DEF Running
      <3>3. \A j \in Jobs, n \in AttemptNos : ~(j = curJob /\ n = curAttempt) =>
               evidence'[j][n] = evidence[j][n]
        BY <1>0, <2>3, <3>2 DEF Publish, PublishRaises, RecordFailure, TypeOK
      <3>4. ASSUME Publish PROVE evidence'[curJob][curAttempt] \cap Verdicts = {outcome}
        <4>1. evidence'[curJob][curAttempt] =
                 evidence[curJob][curAttempt] \cup {outcome}
          BY <1>0, <3>2, <3>4 DEF Publish, Reported, TypeOK
        <4>2. evidence[curJob][curAttempt] \cap Verdicts = {} /\ outcome \in Verdicts
          BY <1>0, <3>4 DEF Publish, Goto, EvidenceInv, WorkerInv, OutcomeReady
        <4> QED
          BY <4>1, <4>2
      <3>5. VerdictHasReport'
        BY <3>1, <3>2, <3>3 DEF EvidenceInv, Verdicts
      <3>6. ResourceWaitIsClean'
        BY <3>1, <3>2, <3>3 DEF EvidenceInv
      <3>7. UnclaimedIsFresh'
        <4> SUFFICES ASSUME NEW j \in Jobs, NEW n \in AttemptNos, n > lastAttempt[j]
                     PROVE  /\ attemptState[j][n] = "NONE" /\ evidence'[j][n] = {}
                            /\ solver[j][n] = "none"
          BY <3>1
        <4>1. ~(j = curJob /\ n = curAttempt)
          BY <3>2 DEF EvidenceInv
        <4> QED
          BY <3>3, <4>1 DEF EvidenceInv
      <3>8. WorkIsClean'
        BY <3>1, <3>4
      <3> QED
        BY <3>5, <3>6, <3>7, <3>8
    <2>4. CASE Finish \/ CloseFailed \/ Defer
      <3>1. PICK v \in Ended :
              /\ jobState'[curJob] = IF v = "INTERRUPTED" THEN "WAITING_RESOURCE" ELSE v
              /\ \A m \in AttemptNos : attemptState'[curJob][m] =
                    IF m = curAttempt THEN v ELSE attemptState[curJob][m]
        BY <1>0, <2>4, ConclusionByJob
      <3>2. /\ curJob \in Jobs /\ curAttempt \in AttemptNos
            /\ curAttempt = lastAttempt[curJob]
            /\ UNCHANGED <<lastAttempt, evidence, solver>>
        BY <1>0, <2>4, Conclusion DEF Finish, CloseFailed, Defer, FinishCommit
      <3>3. \A j \in Jobs \ {curJob} :
               jobState'[j] = jobState[j] /\ attemptState'[j] = attemptState[j]
        BY <1>0, <2>4, ConclusionByJob
      <3>4. pc' \notin Running
        BY <2>4 DEF Finish, CloseFailed, Defer, FinishCommit, Leave, Returned, Running
      <3>5. \A j \in Jobs, n \in AttemptNos :
               n \in intents'[j] => n \in intents[j] \/ (j = curJob /\ n = curAttempt)
        BY <1>0, <2>4, <3>2 DEF Finish, CloseFailed, Defer, FinishCommit, TypeOK
      <3>6. /\ v \in Verdicts \ {"FAILED"} \/ curAttempt \in intents'[curJob] =>
                   evidence[curJob][curAttempt] \cap Verdicts = {v}
            /\ v = "INTERRUPTED" =>
                   evidence[curJob][curAttempt] = {} /\ solver[curJob][curAttempt] = "none"
        <4>1. curAttempt \notin intents[curJob]
          BY <1>0, <2>4 DEF Finish, CloseFailed, Defer, Running
        <4>2. attemptState'[curJob][curAttempt] = v
          BY <3>1, <3>2
        <4>3. CASE Finish
          <5>1. v = outcome /\ outcome \in Verdicts
            BY <1>0, <3>2, <4>2, <4>3
               DEF Finish, FinishCommit, TypeOK, WorkerInv, OutcomeReady
          <5> QED
            BY <4>3, <5>1 DEF Finish, EvidenceInv, Verdicts
        <4>4. CASE CloseFailed
          <5>1. v = "FAILED" /\ UNCHANGED intents
            BY <1>0, <3>2, <4>2, <4>4 DEF CloseFailed, FinishCommit, TypeOK
          <5> QED
            BY <4>1, <5>1
        <4>5. CASE Defer
          <5>1. v = "INTERRUPTED" /\ UNCHANGED intents
            BY <1>0, <3>2, <4>2, <4>5 DEF Defer, TypeOK
          <5> QED
            BY <4>1, <4>5, <5>1 DEF Defer, EvidenceInv, Verdicts
        <4> QED
          BY <2>4, <4>3, <4>4, <4>5
      <3>7. VerdictHasReport'
        BY <3>1, <3>2, <3>3, <3>5, <3>6 DEF EvidenceInv
      <3>8. ResourceWaitIsClean'
        BY <3>1, <3>2, <3>3, <3>6 DEF EvidenceInv, Ended, Verdicts
      <3>9. UnclaimedIsFresh'
        <4> SUFFICES ASSUME NEW j \in Jobs, NEW n \in AttemptNos, n > lastAttempt[j]
                     PROVE  /\ attemptState'[j][n] = "NONE" /\ evidence[j][n] = {}
                            /\ solver[j][n] = "none"
          BY <3>2
        <4>1. ~(j = curJob /\ n = curAttempt)
          BY <1>0, <2>4 DEF EvidenceInv, Finish, CloseFailed, Defer, Running
        <4>2. attemptState'[j][n] = attemptState[j][n]
          BY <3>1, <3>3, <4>1
        <4> QED
          BY <4>2 DEF EvidenceInv
      <3> QED
        BY <3>4, <3>7, <3>8, <3>9 DEF Running
    <2> QED
      BY <1>2, <2>1, <2>2, <2>3, <2>4 DEF RunOne
  <1>3. CASE Operator
    <2>1. ASSUME NEW j \in Jobs, Submit(j) \/ RequestCancel(j) \/ Retry(j) PROVE Goal'
      BY <1>0, <2>1 DEF Submit, RequestCancel, Retry, worker, EvidenceInv, TypeOK
    <2>2. CASE SetPaused
      BY <2>2, EvidenceOfControl DEF SetPaused, worker
    <2> QED
      BY <1>3, <2>1, <2>2 DEF Operator
  <1>4. CASE StartDispatcher \/ DispatcherDies
    <2>1. UNCHANGED <<tables, solver, evidence>> /\ pc' \notin Running
      BY <1>4 DEF StartDispatcher, DispatcherDies, Leave, Running
    <2> QED
      BY <2>1, EvidenceOfControl
  <1>5. ASSUME \/ Reboot
               \/ \E j \in Jobs, n \in AttemptNos : SolverExits(j, n)
        PROVE  Goal'
    <2>1. /\ UNCHANGED <<jobState, lastAttempt, attemptState, intents, evidence>>
          /\ pc' \notin Running \/ UNCHANGED <<pc, curJob, curAttempt, outcome>>
      BY <1>5 DEF Reboot, SolverExits, Leave, Running, tables, worker
    <2>2. \A j \in Jobs, n \in AttemptNos :
             solver[j][n] = "none" => solver'[j][n] = "none"
      <3>1. CASE Reboot
        BY <3>1 DEF Reboot
      <3>2. ASSUME NEW k \in Jobs, NEW m \in AttemptNos, SolverExits(k, m),
                   NEW j \in Jobs, NEW n \in AttemptNos, solver[j][n] = "none"
            PROVE  solver'[j][n] = "none"
        BY <1>0, <3>2 DEF SolverExits, TypeOK
      <3> QED
        BY <1>5, <3>1, <3>2
    <2> QED
      BY <1>0, <2>1, <2>2 DEF EvidenceInv, Running, TypeOK
  <1>6. CASE UNCHANGED vars
    BY <1>6, EvidenceOfControl DEF vars, worker
  <1> QED
    BY <1>1, <1>2, <1>3, <1>4, <1>5, <1>6 DEF Next, Environment

\* run_one publishes the report of a verdict before it commits the verdict: no
\* verdict but FAILED and no notification without it, for any retry and failure.
THEOREM QueueVerdictHasReport == Spec => []VerdictHasReport
  <1>1. EvidenceInv => VerdictHasReport
    BY DEF EvidenceInv
  <1> QED
    BY <1>1, EvidenceInit, EvidenceStep, PTL DEF Spec

\* defer_attempt_for_resources sends a job back to wait only when its attempt
\* started no solver and published nothing.
THEOREM QueueWaitIsClean == Spec => []ResourceWaitIsClean
  <1>1. EvidenceInv => ResourceWaitIsClean
    BY DEF EvidenceInv
  <1> QED
    BY <1>1, EvidenceInit, EvidenceStep, PTL DEF Spec

\* The actions that write artifact rows.
LEMMA EvidenceWrites ==
  ASSUME [Next]_vars
  PROVE  Publish \/ PublishRaises \/ RecordFailure \/ UNCHANGED evidence
  <1>1. CASE StartDispatcher \/ UNCHANGED vars
    BY <1>1 DEF StartDispatcher, vars
  <1>2. CASE Cycle
    BY <1>2 DEF Cycle, Reconcile, ReadPaused, Claim, ClaimNothing, EndCycle, CycleRaises
  <1>3. CASE RunOne
    BY <1>3 DEF RunOne, MakeWorkdir, WorkdirRaises, Prepare, Gate, Spawn, SpawnRaises,
                RecordPid, SupervisionRaises, PollExited, PollCancelled, PollTimedOut,
                StopPolling, Evaluate, EvaluateRaises, Finish, FinishRefused, CloseFailed,
                FinishCommit, CloseRefused, Defer, DeferRefused, DiagnosticRaises
  <1>4. CASE Operator \/ Environment
    BY <1>4 DEF Operator, Submit, RequestCancel, Retry, SetPaused, Environment,
                SolverExits, DispatcherDies, Reboot
  <1> QED
    BY <1>1, <1>2, <1>3, <1>4 DEF Next

\* Nothing that belongs to a job that succeeded changes any more: its row, its
\* attempts, their artifacts and notifications.
SuccessIsFinal ==
    [][\A j \in Jobs : jobState[j] = "SUCCEEDED" =>
          UNCHANGED <<jobState[j], lastAttempt[j], attemptState[j], evidence[j],
                      intents[j]>>]_vars

\* retry, cancel, reconcile_stale and a dispatcher that is left with an older
\* attempt all leave a job alone that finish_attempt recorded as SUCCEEDED,
\* whatever operators retry and whatever raises.
THEOREM QueueSuccessIsFinal == Spec => SuccessIsFinal
  <1> DEFINE Stays(j) == UNCHANGED <<jobState[j], lastAttempt[j], attemptState[j],
                                     evidence[j], intents[j]>>
  <1>1. ASSUME ActiveInv, [Next]_vars, NEW j \in Jobs, jobState[j] = "SUCCEEDED"
        PROVE  Stays(j)
    <2>1. WorkerInv /\ TypeOK
      BY <1>1 DEF ActiveInv, WorkerInv
    <2>2. pc \in Running => curJob \in Jobs \ {j}
      BY <1>1, <2>1 DEF ActiveInv, SuccessIsExclusive, WorkerInv, HoldsNewest
    <2>3. evidence'[j] = evidence[j]
      BY <1>1, <2>1, <2>2, EvidenceWrites
         DEF Publish, PublishRaises, RecordFailure, Goto, Running, TypeOK
    <2>4. CASE Reconcile
      BY <1>1, <2>1, <2>3, <2>4, Recovery DEF Reconcile, Recovered, Active
    <2>5. CASE Finish \/ CloseFailed \/ Defer
      <3>1. curJob \in Jobs \ {j}
        BY <2>2, <2>5 DEF Finish, CloseFailed, Defer, Running
      <3>2. jobState'[j] = jobState[j] /\ attemptState'[j] = attemptState[j]
        BY <2>1, <2>5, <3>1, ConclusionByJob
      <3>3. intents'[j] = intents[j] /\ UNCHANGED lastAttempt
        BY <2>1, <2>5, <3>1 DEF Finish, CloseFailed, Defer, FinishCommit, TypeOK
      <3> QED
        BY <2>3, <3>2, <3>3
    <2>6. ASSUME NEW k \in Jobs, Claim(k) \/ Submit(k) \/ RequestCancel(k) \/ Retry(k)
          PROVE  Stays(j)
      <3>1. j # k
        BY <1>1, <2>6 DEF Claim, Oldest, Submit, RequestCancel, Retry, JobMayMove,
                          JobTransitions, JobStates
      <3> QED
        BY <2>1, <2>3, <2>6, <3>1
           DEF Claim, Submit, RequestCancel, Retry, TypeOK
    <2>7. CASE Quiet
      BY <2>3, <2>7 DEF Quiet
    <2> QED
      BY <1>1, <2>4, <2>5, <2>6, <2>7, TableSteps
  <1>2. ActiveInv /\ [Next]_vars =>
           [\A j \in Jobs : jobState[j] = "SUCCEEDED" => Stays(j)]_vars
    BY <1>1
  <1> QED
    BY <1>2, ActiveInit, ActiveStep, PTL DEF Spec, SuccessIsFinal

\* An attempt that finish_attempt, defer_attempt_for_resources or reconcile_stale
\* has ended is final: its state, its artifacts and its notification stay.
THEOREM QueueEndedAreFrozen == Spec => EndedAttemptsAreFrozen
  <1> DEFINE Frozen(j, n) ==
                /\ attemptState'[j][n] = attemptState[j][n]
                /\ evidence'[j][n] = evidence[j][n]
                /\ n \in intents'[j] <=> n \in intents[j]
  <1>1. ASSUME EvidenceInv, [Next]_vars, NEW j \in Jobs, NEW n \in AttemptNos,
               attemptState[j][n] \in Ended
        PROVE  Frozen(j, n)
    <2>1. WorkerInv /\ TypeOK
      BY <1>1 DEF EvidenceInv, WorkerInv
    <2>2. attemptState[j][n] \notin {"NONE", "RUNNING"}
      BY <1>1 DEF Ended, Verdicts
    <2>3. pc \in Running => ~(j = curJob /\ n = curAttempt)
      BY <2>1, <2>2 DEF WorkerInv, HoldsNewest
    <2>4. evidence'[j][n] = evidence[j][n]
      <3>1. ASSUME Publish \/ PublishRaises \/ RecordFailure
            PROVE  evidence'[j][n] = evidence[j][n]
        BY <2>1, <2>3, <3>1
           DEF Publish, PublishRaises, RecordFailure, Goto, Running, TypeOK
      <3> QED
        BY <1>1, <3>1, EvidenceWrites
    <2>5. CASE Reconcile
      <3>1. UNCHANGED intents
        BY <2>5 DEF Reconcile
      <3>2. ASSUME NEW m \in AttemptNos, Recovered(j, m)
            PROVE  attemptState'[j][n] = attemptState[j][n]
        BY <2>1, <2>2, <3>2 DEF Recovered, StaleAttempts, TypeOK
      <3> QED
        BY <2>1, <2>4, <2>5, <3>1, <3>2, Recovery
    <2>6. CASE Finish \/ CloseFailed \/ Defer
      <3>1. ~(j = curJob /\ n = curAttempt)
        BY <2>3, <2>6 DEF Finish, CloseFailed, Defer, Running
      <3>2. attemptState'[j][n] = attemptState[j][n]
        BY <2>1, <2>6, <3>1, ConclusionByJob
      <3>3. n \in intents'[j] <=> n \in intents[j]
        <4>1. curJob \in Jobs /\ curAttempt \in AttemptNos
          BY <2>1, <2>6, Conclusion
        <4> QED
          BY <2>1, <2>6, <3>1, <4>1 DEF Finish, CloseFailed, Defer, FinishCommit, TypeOK
      <3> QED
        BY <2>4, <3>2, <3>3
    <2>7. ASSUME NEW k \in Jobs, Claim(k) PROVE Frozen(j, n)
      <3>1. lastAttempt[k] + 1 \in AttemptNos /\ lastAttempt[k] + 1 > lastAttempt[k]
        BY <2>1, <2>7, QueueAssumption DEF QueueAssumption, Claim, TypeOK, AttemptNos
      <3>2. ~(j = k /\ n = lastAttempt[k] + 1)
        BY <1>1, <2>2, <3>1 DEF EvidenceInv, UnclaimedIsFresh
      <3> QED
        BY <2>1, <2>4, <2>7, <3>1, <3>2 DEF Claim, TypeOK
    <2>8. ASSUME NEW k \in Jobs, Submit(k) \/ RequestCancel(k) \/ Retry(k)
          PROVE  Frozen(j, n)
      BY <2>4, <2>8 DEF Submit, RequestCancel, Retry
    <2>9. CASE Quiet
      BY <2>4, <2>9 DEF Quiet
    <2> QED
      BY <1>1, <2>5, <2>6, <2>7, <2>8, <2>9, TableSteps
  <1>2. EvidenceInv /\ [Next]_vars =>
          [\A j \in Jobs, n \in AttemptNos : attemptState[j][n] \in Ended =>
              /\ attemptState'[j][n] = attemptState[j][n]
              /\ evidence'[j][n] = evidence[j][n]
              /\ n \in intents'[j] <=> n \in intents[j]]_vars
    BY <1>1
  <1> QED
    BY <1>2, EvidenceInit, EvidenceStep, PTL DEF EndedAttemptsAreFrozen, Spec

-----------------------------------------------------------------------------
(* Solvers side by side: nothing here depends on what operators retry.     *)

Live == {a \in Jobs \X AttemptNos : solver[a[1]][a[2]] = "alive"}

\* The solver that the dispatcher is starting or polling.
Supervised(a) == pc \in {"record", "poll"} /\ a = <<curJob, curAttempt>>

Orphans == {a \in Live : ~Supervised(a)}

\* Orphans that a raising supervision did not leave behind.
Bereft == Orphans \ abandoned

OrphansAreFew == Cardinality(Bereft) <= crashes

ConcurrencyInv == WorkerInv /\ OrphansAreFew

LEMMA LiveFinite ==
  /\ IsFiniteSet(Jobs \X AttemptNos)
  /\ IsFiniteSet(Live) /\ IsFiniteSet(Bereft) /\ Cardinality(Bereft) \in Nat
  <1>1. IsFiniteSet(Jobs) /\ IsFiniteSet(AttemptNos)
    BY QueueAssumption, FS_Interval DEF QueueAssumption, AttemptNos
  <1>2. IsFiniteSet(Jobs \X AttemptNos)
    BY <1>1, FS_Product
  <1>3. Live \subseteq Jobs \X AttemptNos /\ Bereft \subseteq Live
    BY DEF Live, Orphans, Bereft
  <1> QED
    BY <1>2, <1>3, FS_Subset, FS_CardinalityType

LEMMA OneMore ==
  ASSUME NEW S, NEW x, IsFiniteSet(S)
  PROVE  /\ IsFiniteSet(S \cup {x}) /\ Cardinality(S \cup {x}) <= Cardinality(S) + 1
         /\ Cardinality(S \cup {x}) \in Nat
  <1>1. Cardinality(S) \in Nat
    BY FS_CardinalityType
  <1>2. /\ IsFiniteSet(S \cup {x})
        /\ Cardinality(S \cup {x}) = Cardinality(S) \/ Cardinality(S \cup {x}) = Cardinality(S) + 1
    BY FS_AddElement
  <1> QED
    BY <1>1, <1>2

\* No process appears, and the dispatcher lets go of none, or of a dead one, or
\* of one whose supervision raised.
LEMMA NoNewOrphans ==
  ASSUME OrphansAreFew, Bereft' \subseteq Bereft, UNCHANGED crashes, crashes \in Nat
  PROVE  OrphansAreFew'
  <1>1. /\ Cardinality(Bereft') <= Cardinality(Bereft)
        /\ Cardinality(Bereft) \in Nat /\ Cardinality(Bereft') \in Nat
    BY LiveFinite, FS_Subset, FS_CardinalityType
  <1> QED
    BY <1>1 DEF OrphansAreFew

\* The dispatcher is not, and does not come to be, at a solver of its own.
LEMMA Elsewhere ==
  ASSUME pc \notin {"record", "poll"},
         \A j \in Jobs, n \in AttemptNos : solver'[j][n] = "alive" => solver[j][n] = "alive",
         UNCHANGED abandoned
  PROVE  Bereft' \subseteq Bereft
  BY DEF Bereft, Orphans, Live, Supervised

LEMMA ConcurrencyStep == ConcurrencyInv /\ [Next]_vars => OrphansAreFew'
  <1> SUFFICES ASSUME ConcurrencyInv, [Next]_vars PROVE OrphansAreFew'
    OBVIOUS
  <1>0. /\ OrphansAreFew /\ WorkerInv /\ crashes \in Nat
        /\ solver \in [Jobs -> [AttemptNos -> {"none", "alive", "dead"}]]
        /\ pc \in {"spawn", "record", "poll"} => curJob \in Jobs /\ curAttempt \in AttemptNos
    BY DEF ConcurrencyInv, WorkerInv, TypeOK, HoldsNewest, Running
  <1>1. CASE Spawn
    <2>1. /\ pc' = "record" /\ UNCHANGED <<curJob, curAttempt, crashes, abandoned>>
          /\ solver' = [solver EXCEPT ![curJob][curAttempt] = "alive"] /\ pc = "spawn"
      BY <1>1 DEF Spawn, Goto
    <2>2. Bereft' \subseteq Bereft
      BY <1>0, <2>1 DEF Bereft, Orphans, Live, Supervised
    <2> QED
      BY <1>0, <2>1, <2>2, NoNewOrphans
  <1>2. CASE RecordPid
    <2>1. /\ pc = "record" /\ pc' = "poll"
          /\ UNCHANGED <<curJob, curAttempt, solver, crashes, abandoned>>
      BY <1>2 DEF RecordPid, Goto
    <2>2. Bereft' \subseteq Bereft
      BY <2>1 DEF Bereft, Orphans, Live, Supervised
    <2> QED
      BY <1>0, <2>1, <2>2, NoNewOrphans
  <1>3. CASE PollExited \/ PollCancelled \/ PollTimedOut
    <2>1. /\ pc = "poll" /\ pc' = "evaluate" /\ UNCHANGED <<curJob, curAttempt, crashes, abandoned>>
          /\ solver' = [solver EXCEPT ![curJob][curAttempt] = "dead"]
      BY <1>3 DEF PollExited, PollCancelled, PollTimedOut, StopPolling
    <2>2. Bereft' \subseteq Bereft
      BY <1>0, <2>1 DEF Bereft, Orphans, Live, Supervised
    <2> QED
      BY <1>0, <2>1, <2>2, NoNewOrphans
  <1>4. CASE SupervisionRaises
    <2>1. /\ abandoned' = abandoned \cup {<<curJob, curAttempt>>}
          /\ UNCHANGED <<curJob, curAttempt, solver, crashes>>
      BY <1>4 DEF SupervisionRaises, Goto
    <2>2. Bereft' \subseteq Bereft
      BY <2>1 DEF Bereft, Orphans, Live, Supervised
    <2> QED
      BY <1>0, <2>1, <2>2, NoNewOrphans
  <1>5. CASE DispatcherDies
    <2>1. UNCHANGED <<solver, abandoned>> /\ crashes' = crashes + 1
      BY <1>5 DEF DispatcherDies
    <2>2. Bereft' \subseteq Bereft \cup {<<curJob, curAttempt>>}
      BY <2>1 DEF Bereft, Orphans, Live, Supervised
    <2>3. /\ IsFiniteSet(Bereft \cup {<<curJob, curAttempt>>})
          /\ Cardinality(Bereft \cup {<<curJob, curAttempt>>}) <= Cardinality(Bereft) + 1
          /\ Cardinality(Bereft \cup {<<curJob, curAttempt>>}) \in Nat
      BY LiveFinite, OneMore
    <2>4. /\ Cardinality(Bereft') <= Cardinality(Bereft) + 1
          /\ Cardinality(Bereft') \in Nat /\ Cardinality(Bereft) \in Nat
      BY <2>2, <2>3, LiveFinite, FS_Subset, FS_CardinalityType
    <2>5. Cardinality(Bereft) <= crashes
      BY <1>0 DEF OrphansAreFew
    <2>6. Cardinality(Bereft') <= crashes'
      BY <1>0, <2>1, <2>4, <2>5
    <2> QED
      BY <2>6 DEF OrphansAreFew
  <1>6. CASE Reboot
    <2>1. /\ crashes' = crashes + 1
          /\ \A j \in Jobs, n \in AttemptNos : solver'[j][n] # "alive"
      BY <1>6 DEF Reboot
    <2>2. Bereft' = {}
      BY <2>1 DEF Bereft, Orphans, Live
    <2>3. Cardinality(Bereft') = 0
      BY <2>2, FS_EmptySet
    <2> QED
      BY <1>0, <2>1, <2>3 DEF OrphansAreFew
  <1>7. ASSUME UNCHANGED <<pc, curJob, curAttempt, crashes, abandoned>>,
               \A j \in Jobs, n \in AttemptNos :
                  solver'[j][n] = "alive" => solver[j][n] = "alive"
        PROVE  OrphansAreFew'
    <2>1. Bereft' \subseteq Bereft
      BY <1>7 DEF Bereft, Orphans, Live, Supervised
    <2> QED
      BY <1>0, <1>7, <2>1, NoNewOrphans
  <1>8. ASSUME pc \notin {"record", "poll"}, UNCHANGED <<solver, crashes, abandoned>>
        PROVE  OrphansAreFew'
    BY <1>0, <1>8, Elsewhere, NoNewOrphans
  <1>9. CASE StartDispatcher \/ Cycle
    <2>1. /\ pc \in {"off", "scan", "drain", "claim", "rest"}
          /\ UNCHANGED <<solver, crashes, abandoned>>
      BY <1>9 DEF StartDispatcher, Cycle, Reconcile, ReadPaused, Claim, ClaimNothing, EndCycle,
                  CycleRaises
    <2> QED
      BY <1>8, <2>1
  <1>10. ASSUME \/ MakeWorkdir \/ WorkdirRaises \/ Prepare \/ Gate \/ SpawnRaises
                \/ Evaluate \/ EvaluateRaises \/ Publish \/ PublishRaises
                \/ Finish \/ FinishRefused \/ RecordFailure \/ CloseFailed \/ CloseRefused
                \/ Defer \/ DeferRefused \/ DiagnosticRaises
         PROVE  OrphansAreFew'
    <2>1. pc \notin {"record", "poll"} /\ UNCHANGED <<solver, crashes, abandoned>>
      BY <1>10 DEF MakeWorkdir, WorkdirRaises, Prepare, Gate, SpawnRaises, Evaluate,
                   EvaluateRaises, Publish, PublishRaises, Finish, FinishRefused,
                   RecordFailure, CloseFailed, CloseRefused, Defer, DeferRefused,
                   DiagnosticRaises, FinishCommit, Goto
    <2> QED
      BY <1>8, <2>1
  <1>11. CASE Operator \/ UNCHANGED vars
    <2>1. UNCHANGED <<pc, curJob, curAttempt, crashes, solver, abandoned>>
      BY <1>11 DEF Operator, Submit, RequestCancel, Retry, SetPaused, worker, vars
    <2> QED
      BY <1>7, <2>1
  <1>12. ASSUME NEW j \in Jobs, NEW n \in AttemptNos, SolverExits(j, n)
         PROVE  OrphansAreFew'
    <2>1. /\ UNCHANGED <<pc, curJob, curAttempt, crashes, abandoned>>
          /\ solver' = [solver EXCEPT ![j][n] = "dead"]
      BY <1>12 DEF SolverExits, worker
    <2>2. \A k \in Jobs, m \in AttemptNos : solver'[k][m] = "alive" => solver[k][m] = "alive"
      BY <1>0, <2>1
    <2> QED
      BY <1>7, <2>1, <2>2
  <1> QED
    BY <1>1, <1>2, <1>3, <1>4, <1>5, <1>6, <1>9, <1>10, <1>11, <1>12
       DEF Next, RunOne, Environment

\* The dispatcher supervises one solver; each further one was left behind by a
\* death or by a call of supervisor.run that raised.
THEOREM QueueSolverConcurrency == Spec => []SolverConcurrency
  <1>1. Init => ConcurrencyInv
    <2> SUFFICES ASSUME Init PROVE OrphansAreFew
      BY WorkerInit DEF ConcurrencyInv
    <2>1. Bereft = {} /\ crashes = 0
      BY DEF Init, Bereft, Orphans, Live
    <2> QED
      BY <2>1, FS_EmptySet DEF OrphansAreFew
  <1>2. ConcurrencyInv /\ [Next]_vars => ConcurrencyInv'
    BY WorkerStep, ConcurrencyStep DEF ConcurrencyInv
  <1>3. ConcurrencyInv => SolverConcurrency
    <2> SUFFICES ASSUME ConcurrencyInv
                 PROVE  Cardinality(Live) <= 1 + crashes + Cardinality(abandoned)
      BY DEF SolverConcurrency, Live
    <2> DEFINE left == Bereft \cup abandoned
               all  == left \cup {<<curJob, curAttempt>>}
    <2>1. /\ IsFiniteSet(abandoned) /\ Cardinality(abandoned) \in Nat
      BY LiveFinite, FS_Subset, FS_CardinalityType DEF ConcurrencyInv, WorkerInv, TypeOK
    <2>2. /\ IsFiniteSet(left) /\ Cardinality(left) \in Nat
          /\ Cardinality(left) <= Cardinality(Bereft) + Cardinality(abandoned)
      <3>1. /\ IsFiniteSet(left)
            /\ Cardinality(left) = Cardinality(Bereft) + Cardinality(abandoned)
                                     - Cardinality(Bereft \cap abandoned)
        BY <2>1, LiveFinite, FS_Union
      <3>2. Cardinality(Bereft \cap abandoned) \in Nat
        BY LiveFinite, FS_Intersection, FS_CardinalityType
      <3>3. Cardinality(left) \in Nat
        BY <3>1, FS_CardinalityType
      <3> HIDE DEF left
      <3> QED
        BY <2>1, <3>1, <3>2, <3>3, LiveFinite
    <2> HIDE DEF left
    <2>3. /\ IsFiniteSet(all) /\ Cardinality(all) <= Cardinality(left) + 1
          /\ Cardinality(all) \in Nat
      BY <2>2, OneMore
    <2>4. Live \subseteq all
      BY DEF Bereft, Orphans, Supervised, left
    <2>5. Cardinality(Live) <= Cardinality(all) /\ Cardinality(Live) \in Nat
      BY <2>3, <2>4, LiveFinite, FS_Subset, FS_CardinalityType
    <2>6. Cardinality(Bereft) <= crashes /\ crashes \in Nat /\ Cardinality(Bereft) \in Nat
      BY LiveFinite DEF ConcurrencyInv, OrphansAreFew, WorkerInv, TypeOK
    <2> HIDE DEF all
    <2> QED
      BY <2>1, <2>2, <2>3, <2>5, <2>6
  <1> QED
    BY <1>1, <1>2, <1>3, PTL DEF Spec

=============================================================================
