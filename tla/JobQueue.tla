------------------------------- MODULE JobQueue -------------------------------
(***************************************************************************)
(* The analysis queue of mecar_automation: the SQLite tables of jobs and   *)
(* attempts (db.py), the dispatcher that drains them one job at a time     *)
(* (engine.py, cli.py), the solver process it supervises (supervisor.py)   *)
(* and the operator commands that write the same tables from other         *)
(* processes.  Every SQLite transaction is one step; the dispatcher may    *)
(* die between any two steps and its solver, started in a session of its   *)
(* own, survives it.                                                       *)
(***************************************************************************)
EXTENDS Integers, FiniteSets

CONSTANTS
    Jobs,               \* submission identifiers
    NoJob,              \* "the dispatcher holds no claimed job"
    Notified,           \* jobs whose manifest lists notification recipients
    MaxAttempts,        \* --max-attempts / agent.max_stale_attempts
    RetryFrom,          \* job states in which operators issue `retry`
    CallErrors,         \* TRUE: a database call or the reaping of a killed
                        \* process may raise (locked database, stuck process)
    AttemptBound,       \* bound of the model: attempts per job
    RetryBound,         \* bound of the model: `retry` commands per job
    CrashBound          \* bound of the model: dispatcher deaths and reboots

JobStates == {"NONE", "QUEUED", "RUNNING", "CANCEL_REQUESTED", "SUCCEEDED",
              "FAILED", "TIMED_OUT", "CANCELLED", "WAITING_RESOURCE"}

ASSUME QueueAssumption ==
    /\ IsFiniteSet(Jobs)
    /\ NoJob \notin Jobs
    /\ Notified \subseteq Jobs
    /\ MaxAttempts \in Nat \ {0}
    /\ RetryFrom \subseteq JobStates
    /\ CallErrors \in BOOLEAN
    /\ AttemptBound \in Nat \ {0}
    /\ RetryBound \in Nat
    /\ CrashBound \in Nat

VARIABLES
    jobState,       \* latest job_transitions row of each job
    arrival,        \* rank of created_at; 0 before submission
    lastAttempt,    \* MAX(attempt_no) of each job
    attemptState,   \* latest attempt_transitions row of each attempt
    pidKnown,       \* that row carries a pid
    pidRow,         \* some row of it does: attempt_transitions only grows
    solver,         \* the operating system process of each attempt
    evidence,       \* artifacts rows of each attempt that carry a judgement
    intents,        \* attempts with an outbox_messages row
    paused,         \* latest system_transitions row
    pc,             \* where the lock-holding dispatcher is; "off" without one
    curJob,         \* its ClaimedJob.job_id
    curAttempt,     \* its ClaimedJob.attempt_no
    outcome,        \* ProcessResult, then the verdict chosen from it
    abandoned,      \* <<job, attempt>> whose supervision has raised
    retries,        \* `retry` commands so far (bounded by RetryBound)
    crashes         \* deaths so far (bounded by CrashBound)

tables == <<jobState, arrival, lastAttempt, attemptState, pidKnown, pidRow, intents>>
worker == <<pc, curJob, curAttempt, outcome>>
vars == <<tables, solver, evidence, paused, worker, abandoned, retries, crashes>>

AttemptNos == 1..AttemptBound

Verdicts == {"SUCCEEDED", "FAILED", "TIMED_OUT", "CANCELLED"}
Active == {"RUNNING", "CANCEL_REQUESTED"}
Ended == Verdicts \cup {"INTERRUPTED"}
AttemptStates == {"NONE", "RUNNING"} \cup Ended

\* An artifact is a summary_report that states a verdict, or a failure_record.
Artifacts == Verdicts \cup {"failure_record"}

Running == {"workdir", "prepare", "gate", "spawn", "record", "poll",
            "evaluate", "publish", "finish", "defer", "fail", "close"}
Idle == {"off", "scan", "drain", "claim", "rest"}

-----------------------------------------------------------------------------
(* The transition tables.                                                  *)

\* Seeded faults: a requested cancel leaves room for no other verdict; a
\* succeeded job can be retried like a failed one.
JobTransitions_CancelWins ==
    [s \in JobStates |->
        CASE s = "NONE" -> {"QUEUED"}
          [] s = "QUEUED" -> {"RUNNING", "CANCELLED"}
          [] s = "RUNNING" -> Verdicts \cup
                {"CANCEL_REQUESTED", "QUEUED", "WAITING_RESOURCE"}
          [] s = "CANCEL_REQUESTED" -> {"CANCELLED"}
          [] s = "WAITING_RESOURCE" -> {"QUEUED", "CANCELLED"}
          [] s \in {"FAILED", "TIMED_OUT", "CANCELLED"} -> {"QUEUED"}
          [] s = "SUCCEEDED" -> {}]

JobTransitions_SucceededReopens ==
    [s \in JobStates |->
        CASE s = "NONE" -> {"QUEUED"}
          [] s = "QUEUED" -> {"RUNNING", "CANCELLED"}
          [] s = "RUNNING" -> Verdicts \cup
                {"CANCEL_REQUESTED", "QUEUED", "WAITING_RESOURCE"}
          [] s = "CANCEL_REQUESTED" -> Verdicts
          [] s = "WAITING_RESOURCE" -> {"QUEUED", "CANCELLED"}
          [] OTHER -> {"QUEUED"}]

JobTransitions ==
    [s \in JobStates |->
        CASE s = "NONE" -> {"QUEUED"}
          [] s = "QUEUED" -> {"RUNNING", "CANCELLED"}
          [] s = "RUNNING" -> Verdicts \cup
                {"CANCEL_REQUESTED", "QUEUED", "WAITING_RESOURCE"}
          [] s = "CANCEL_REQUESTED" -> Verdicts
          [] s = "WAITING_RESOURCE" -> {"QUEUED", "CANCELLED"}
          [] s \in {"FAILED", "TIMED_OUT", "CANCELLED"} -> {"QUEUED"}
          [] s = "SUCCEEDED" -> {}]

AttemptTransitions ==
    [s \in AttemptStates |->
        CASE s = "NONE" -> {"RUNNING"}
          [] s = "RUNNING" -> {"RUNNING"} \cup Ended
          [] s \in Ended -> {}]

\* _transition_job / _transition_attempt raise InvalidTransition when FALSE.
JobMayMove(j, to) == to \in JobTransitions[jobState[j]]
AttemptMayMove(j, n, to) == to \in AttemptTransitions[attemptState[j][n]]

-----------------------------------------------------------------------------
Init ==
    /\ jobState = [j \in Jobs |-> "NONE"]
    /\ arrival = [j \in Jobs |-> 0]
    /\ lastAttempt = [j \in Jobs |-> 0]
    /\ attemptState = [j \in Jobs |-> [n \in AttemptNos |-> "NONE"]]
    /\ pidKnown = [j \in Jobs |-> [n \in AttemptNos |-> FALSE]]
    /\ pidRow = [j \in Jobs |-> [n \in AttemptNos |-> FALSE]]
    /\ abandoned = {}
    /\ solver = [j \in Jobs |-> [n \in AttemptNos |-> "none"]]
    /\ evidence = [j \in Jobs |-> [n \in AttemptNos |-> {}]]
    /\ intents = [j \in Jobs |-> {}]
    /\ paused = FALSE
    /\ pc = "off"
    /\ curJob = NoJob
    /\ curAttempt = 0
    /\ outcome = "none"
    /\ retries = [j \in Jobs |-> 0]
    /\ crashes = 0

-----------------------------------------------------------------------------
(* Operator commands: transactions of other processes, at any moment.      *)

\* submit: a new submission id.  An identical resubmission is answered
\* DUPLICATE and a different one SUBMISSION_CONFLICT; neither writes a row.
Submit(j) ==
    /\ jobState[j] = "NONE"
    /\ jobState' = [jobState EXCEPT ![j] = "QUEUED"]
    /\ arrival' = [arrival EXCEPT
                     ![j] = Cardinality({k \in Jobs : arrival[k] # 0}) + 1]
    /\ UNCHANGED <<lastAttempt, attemptState, pidKnown, pidRow, intents,
                   solver, evidence, paused, worker, abandoned, retries,
                   crashes>>

\* Seeded fault: a running job is cancelled at once, like a queued one.
RequestCancel_NoHandshake(j) ==
    /\ jobState[j] \in {"QUEUED", "WAITING_RESOURCE", "RUNNING"}
    /\ jobState' = [jobState EXCEPT ![j] = "CANCELLED"]
    /\ UNCHANGED <<arrival, lastAttempt, attemptState, pidKnown, pidRow,
                   intents, solver, evidence, paused, worker, abandoned,
                   retries, crashes>>

\* cancel: immediate before the start, a request once an attempt runs.
RequestCancel(j) ==
    /\ \/ /\ jobState[j] \in {"QUEUED", "WAITING_RESOURCE"}
          /\ jobState' = [jobState EXCEPT ![j] = "CANCELLED"]
       \/ /\ jobState[j] = "RUNNING"
          /\ jobState' = [jobState EXCEPT ![j] = "CANCEL_REQUESTED"]
    /\ UNCHANGED <<arrival, lastAttempt, attemptState, pidKnown, pidRow,
                   intents, solver, evidence, paused, worker, abandoned,
                   retries, crashes>>

\* retry: whatever state the transition table lets return to QUEUED.
Retry(j) ==
    /\ jobState[j] \in RetryFrom
    /\ jobState[j] # "NONE"
    /\ JobMayMove(j, "QUEUED")
    /\ retries[j] < RetryBound
    /\ jobState' = [jobState EXCEPT ![j] = "QUEUED"]
    /\ retries' = [retries EXCEPT ![j] = @ + 1]
    /\ UNCHANGED <<arrival, lastAttempt, attemptState, pidKnown, pidRow,
                   intents, solver, evidence, paused, worker, abandoned,
                   crashes>>

\* pause and resume.
SetPaused ==
    /\ paused' = ~paused
    /\ UNCHANGED <<tables, solver, evidence, worker, abandoned, retries,
                   crashes>>

-----------------------------------------------------------------------------
(* The dispatcher's cycle.                                                 *)

\* `drain`, or an agent: takes the dispatcher lock and starts a cycle.
StartDispatcher ==
    /\ pc = "off"
    /\ pc' = "scan"
    /\ UNCHANGED <<tables, solver, evidence, paused, curJob, curAttempt,
                   outcome, abandoned, retries, crashes>>

\* RUNNING attempts whose latest row has no pid, or the pid of a dead process.
\* Seeded faults: the liveness of the pid is not asked; attempts without a pid
\* are left alone; the state of the attempt is not asked.
StaleAttempts_PidIgnored(j) ==
    {n \in AttemptNos : attemptState[j][n] = "RUNNING"}

StaleAttempts_NullPidSkipped(j) ==
    {n \in AttemptNos :
        /\ attemptState[j][n] = "RUNNING"
        /\ pidKnown[j][n] /\ solver[j][n] # "alive"}

StaleAttempts_StateIgnored(j) ==
    {n \in 1..lastAttempt[j] : ~(pidKnown[j][n] /\ solver[j][n] = "alive")}

StaleAttempts(j) ==
    {n \in AttemptNos :
        /\ attemptState[j][n] = "RUNNING"
        /\ ~(pidKnown[j][n] /\ solver[j][n] = "alive")}

\* Seeded fault: an attempt at the limit is requeued once more.
ReconcileTarget_LimitOffByOne(j, n) ==
    IF jobState[j] = "CANCEL_REQUESTED" THEN "CANCELLED"
    ELSE IF n <= MaxAttempts THEN "QUEUED" ELSE "FAILED"

ReconcileTarget(j, n) ==
    IF jobState[j] = "CANCEL_REQUESTED" THEN "CANCELLED"
    ELSE IF n < MaxAttempts THEN "QUEUED" ELSE "FAILED"

\* Seeded fault: only RUNNING jobs are recovered.
Recoverable_CancelForgotten(j) ==
    jobState[j] = "RUNNING" /\ StaleAttempts(j) # {}

\* A stale attempt is reconciled only while its job is active.  The first one
\* met takes the job out of Active, which skips the others; the query that
\* lists them has no ORDER BY, so any may come first.
Recoverable(j) == jobState[j] \in Active /\ StaleAttempts(j) # {}

\* reconcile_stale: one transaction over every job.
Reconcile ==
    /\ pc = "scan"
    /\ \E first \in [Jobs -> 0..AttemptBound] :
        /\ \A j \in Jobs : IF Recoverable(j) THEN first[j] \in StaleAttempts(j)
                                             ELSE first[j] = 0
        /\ attemptState' =
             [j \in Jobs |-> [n \in AttemptNos |->
                IF n = first[j] THEN "INTERRUPTED" ELSE attemptState[j][n]]]
        /\ jobState' =
             [j \in Jobs |-> IF Recoverable(j) THEN ReconcileTarget(j, first[j])
                                               ELSE jobState[j]]
    /\ pc' = "drain"
    /\ UNCHANGED <<arrival, lastAttempt, pidKnown, pidRow, intents, solver,
                   evidence, paused, curJob, curAttempt, outcome, abandoned,
                   retries, crashes>>

\* Seeded fault: the flag is read the wrong way round.
ReadPaused_Inverted ==
    /\ pc = "drain"
    /\ pc' = IF paused THEN "claim" ELSE "rest"
    /\ UNCHANGED <<tables, solver, evidence, paused, curJob, curAttempt,
                   outcome, abandoned, retries, crashes>>

\* claim_next reads `paused` before it opens its transaction.
ReadPaused ==
    /\ pc = "drain"
    /\ pc' = IF paused THEN "rest" ELSE "claim"
    /\ UNCHANGED <<tables, solver, evidence, paused, curJob, curAttempt,
                   outcome, abandoned, retries, crashes>>

Oldest(j) ==
    /\ jobState[j] = "QUEUED"
    /\ \A k \in Jobs : jobState[k] = "QUEUED" => arrival[j] <= arrival[k]

\* claim_next: the oldest QUEUED job gets a new RUNNING attempt without a pid.
Claim(j) ==
    /\ pc = "claim"
    /\ Oldest(j)
    /\ lastAttempt[j] < AttemptBound
    /\ LET n == lastAttempt[j] + 1 IN
        /\ lastAttempt' = [lastAttempt EXCEPT ![j] = n]
        /\ attemptState' = [attemptState EXCEPT ![j][n] = "RUNNING"]
        /\ pidKnown' = [pidKnown EXCEPT ![j][n] = FALSE]
        /\ curAttempt' = n
    /\ jobState' = [jobState EXCEPT ![j] = "RUNNING"]
    /\ curJob' = j
    /\ pc' = "workdir"
    /\ UNCHANGED <<arrival, pidRow, intents, solver, evidence, paused,
                   outcome, abandoned, retries, crashes>>

ClaimNothing ==
    /\ pc = "claim"
    /\ \A j \in Jobs : jobState[j] # "QUEUED"
    /\ pc' = "rest"
    /\ UNCHANGED <<tables, solver, evidence, paused, curJob, curAttempt,
                   outcome, abandoned, retries, crashes>>

\* Archive and outbox work, then the agent's next cycle or the end of `drain`.
EndCycle ==
    /\ pc = "rest"
    /\ pc' \in {"scan", "off"}
    /\ UNCHANGED <<tables, solver, evidence, paused, curJob, curAttempt,
                   outcome, abandoned, retries, crashes>>

\* A database call between two jobs raises: the transaction is rolled back.
CycleRaises ==
    /\ CallErrors
    /\ pc \in {"scan", "drain", "claim"}
    /\ pc' \in {"scan", "off"}
    /\ UNCHANGED <<tables, solver, evidence, paused, curJob, curAttempt,
                   outcome, abandoned, retries, crashes>>

-----------------------------------------------------------------------------
(* run_one: the life of one claimed attempt.                               *)

\* run_one is left: normally to the next job or (limit reached) the rest of
\* the cycle; by an exception to the agent's next cycle or out of `drain`.
Leave(next) ==
    /\ pc' \in next
    /\ curJob' = NoJob
    /\ curAttempt' = 0
    /\ outcome' = "none"

Returned == {"drain", "rest"}
CycleAborted == {"scan", "off"}

Goto(from, to) ==
    /\ pc = from
    /\ pc' = to
    /\ UNCHANGED <<curJob, curAttempt, outcome>>

\* The work directory and the manifest snapshot are written before the try
\* block: an OSError there leaves run_one and the cycle.
MakeWorkdir ==
    /\ Goto("workdir", "prepare")
    /\ UNCHANGED <<tables, solver, evidence, paused, abandoned, retries,
                   crashes>>

WorkdirRaises ==
    /\ pc = "workdir"
    /\ Leave(CycleAborted)
    /\ UNCHANGED <<tables, solver, evidence, paused, abandoned, retries,
                   crashes>>

\* Profile snapshot checks and adapter.prepare.
Prepare ==
    /\ Goto("prepare", "gate") \/ Goto("prepare", "fail")
    /\ UNCHANGED <<tables, solver, evidence, paused, abandoned, retries,
                   crashes>>

\* Disk reserve and resource gate: granted, refused, or (gate accounting
\* error, file error) an exception that is not ResourceUnavailable.
Gate ==
    /\ Goto("gate", "spawn") \/ Goto("gate", "defer") \/ Goto("gate", "fail")
    /\ UNCHANGED <<tables, solver, evidence, paused, abandoned, retries,
                   crashes>>

\* Popen in a new session or process group.
Spawn ==
    /\ Goto("spawn", "record")
    /\ solver' = [solver EXCEPT ![curJob][curAttempt] = "alive"]
    /\ UNCHANGED <<tables, evidence, paused, abandoned, retries, crashes>>

SpawnRaises ==
    /\ Goto("spawn", "fail")
    /\ UNCHANGED <<tables, solver, evidence, paused, abandoned, retries,
                   crashes>>

\* on_started -> record_attempt_pid.
RecordPid ==
    /\ pc = "record"
    /\ AttemptMayMove(curJob, curAttempt, "RUNNING")
    /\ Goto("record", "poll")
    /\ pidKnown' = [pidKnown EXCEPT ![curJob][curAttempt] = TRUE]
    /\ pidRow' = [pidRow EXCEPT ![curJob][curAttempt] = TRUE]
    /\ UNCHANGED <<jobState, arrival, lastAttempt, attemptState, intents,
                   solver, evidence, paused, abandoned, retries, crashes>>

\* record_attempt_pid or cancel_check raises (the database stays locked beyond
\* its timeout), or the killed process is not reaped within two seconds:
\* supervisor.run is left, the gate released, the process left alone.
SupervisionRaises ==
    /\ CallErrors
    /\ Goto("record", "fail") \/ Goto("poll", "fail")
    /\ abandoned' = abandoned \cup {<<curJob, curAttempt>>}
    /\ UNCHANGED <<tables, solver, evidence, paused, retries, crashes>>

\* Seeded fault: the loop is left without terminating the process tree.
StopPolling_NotTerminated(result) ==
    /\ pc = "poll"
    /\ pc' = "evaluate"
    /\ outcome' = result
    /\ UNCHANGED <<tables, solver, evidence, paused, curJob, curAttempt,
                   abandoned, retries, crashes>>

\* The polling loop ends with a ProcessResult and a process that is gone.
StopPolling(result) ==
    /\ pc = "poll"
    /\ pc' = "evaluate"
    /\ outcome' = result
    /\ solver' = [solver EXCEPT ![curJob][curAttempt] = "dead"]
    /\ UNCHANGED <<tables, evidence, paused, curJob, curAttempt, abandoned,
                   retries, crashes>>

PollExited ==
    /\ pc = "poll"
    /\ solver[curJob][curAttempt] = "dead"
    /\ StopPolling("EXITED")

PollCancelled ==
    /\ pc = "poll"
    /\ solver[curJob][curAttempt] = "alive"
    /\ jobState[curJob] = "CANCEL_REQUESTED"
    /\ StopPolling("CANCELLED")

PollTimedOut ==
    /\ pc = "poll"
    /\ solver[curJob][curAttempt] = "alive"
    /\ jobState[curJob] # "CANCEL_REQUESTED"
    /\ StopPolling("TIMED_OUT")

\* adapter.evaluate and the choice of the verdict.
Evaluate ==
    /\ pc = "evaluate"
    /\ pc' = "publish"
    /\ outcome' \in IF outcome = "EXITED" THEN {"SUCCEEDED", "FAILED"}
                                          ELSE {outcome}
    /\ UNCHANGED <<tables, solver, evidence, paused, curJob, curAttempt,
                   abandoned, retries, crashes>>

EvaluateRaises ==
    /\ Goto("evaluate", "fail")
    /\ UNCHANGED <<tables, solver, evidence, paused, abandoned, retries,
                   crashes>>

\* Seeded fault: the report is written only for successful runs.
Reported_SuccessOnly(result) == IF result = "SUCCEEDED" THEN {result} ELSE {}

Reported(result) == {result}

\* The artifacts in order, the summary_report last.
Publish ==
    /\ Goto("publish", "finish")
    /\ evidence' = [evidence EXCEPT
                      ![curJob][curAttempt] = @ \cup Reported(outcome)]
    /\ UNCHANGED <<tables, solver, paused, abandoned, retries, crashes>>

\* A publication fails; the summary's own row may already be committed (the
\* archive intent that follows it is a second transaction).
PublishRaises ==
    /\ Goto("publish", "fail")
    /\ \/ UNCHANGED evidence
       \/ evidence' = [evidence EXCEPT
                         ![curJob][curAttempt] = @ \cup Reported(outcome)]
    /\ UNCHANGED <<tables, solver, paused, abandoned, retries, crashes>>

-----------------------------------------------------------------------------
(* finish_attempt, from the normal path and from the exception handler.    *)

FinishAllowed(verdict) ==
    /\ AttemptMayMove(curJob, curAttempt, verdict)
    /\ JobMayMove(curJob, verdict)

\* Seeded fault: the attempt's transition is not written.
FinishCommit_AttemptForgotten(verdict, notify) ==
    /\ jobState' = [jobState EXCEPT ![curJob] = verdict]
    /\ intents' = IF notify THEN [intents EXCEPT ![curJob] = @ \cup {curAttempt}]
                            ELSE intents
    /\ Leave(Returned)
    /\ UNCHANGED <<attemptState, arrival, lastAttempt, pidKnown, pidRow,
                   solver, evidence, paused, abandoned, retries, crashes>>

\* Attempt transition, job transition and outbox intent in one transaction.
FinishCommit(verdict, notify) ==
    /\ attemptState' = [attemptState EXCEPT ![curJob][curAttempt] = verdict]
    /\ pidKnown' = [pidKnown EXCEPT ![curJob][curAttempt] = FALSE]
    /\ jobState' = [jobState EXCEPT ![curJob] = verdict]
    /\ intents' = IF notify THEN [intents EXCEPT ![curJob] = @ \cup {curAttempt}]
                            ELSE intents
    /\ Leave(Returned)
    /\ UNCHANGED <<arrival, lastAttempt, pidRow, solver, evidence, paused,
                   abandoned, retries, crashes>>

Finish ==
    /\ pc = "finish"
    /\ FinishAllowed(outcome)
    /\ FinishCommit(outcome, curJob \in Notified)

\* InvalidTransition is caught by run_one's `except Exception`.
FinishRefused ==
    /\ pc = "finish"
    /\ CallErrors \/ ~FinishAllowed(outcome)
    /\ Goto("finish", "fail")
    /\ UNCHANGED <<tables, solver, evidence, paused, abandoned, retries,
                   crashes>>

\* The exception handler publishes a failure_record, or fails to; its
\* finish_attempt runs either way.
RecordFailure ==
    /\ Goto("fail", "close")
    /\ \/ UNCHANGED evidence
       \/ evidence' = [evidence EXCEPT
                         ![curJob][curAttempt] = @ \cup {"failure_record"}]
    /\ UNCHANGED <<tables, solver, paused, abandoned, retries, crashes>>

CloseFailed ==
    /\ pc = "close"
    /\ FinishAllowed("FAILED")
    /\ FinishCommit("FAILED", FALSE)

\* The handlers of run_one write a diagnostic file first; when that raises
\* (a full disk) run_one and the cycle are left and nothing is committed.
DiagnosticRaises ==
    /\ pc \in {"fail", "defer"}
    /\ Leave(CycleAborted)
    /\ UNCHANGED <<tables, solver, evidence, paused, abandoned, retries,
                   crashes>>

\* A second InvalidTransition leaves run_one: nothing was committed.
CloseRefused ==
    /\ pc = "close"
    /\ CallErrors \/ ~FinishAllowed("FAILED")
    /\ Leave(CycleAborted)
    /\ UNCHANGED <<tables, solver, evidence, paused, abandoned, retries,
                   crashes>>

\* defer_attempt_for_resources.
Defer ==
    /\ pc = "defer"
    /\ AttemptMayMove(curJob, curAttempt, "INTERRUPTED")
    /\ JobMayMove(curJob, "WAITING_RESOURCE")
    /\ attemptState' = [attemptState EXCEPT ![curJob][curAttempt] = "INTERRUPTED"]
    /\ pidKnown' = [pidKnown EXCEPT ![curJob][curAttempt] = FALSE]
    /\ jobState' = [jobState EXCEPT ![curJob] = "WAITING_RESOURCE"]
    /\ Leave(Returned)
    /\ UNCHANGED <<arrival, lastAttempt, pidRow, intents, solver, evidence,
                   paused, abandoned, retries, crashes>>

\* A cancel (or retry) that came meanwhile makes the transition illegal; the
\* exception leaves the handler, run_one and the cycle.
DeferRefused ==
    /\ pc = "defer"
    /\ CallErrors \/ ~JobMayMove(curJob, "WAITING_RESOURCE")
    /\ Leave(CycleAborted)
    /\ UNCHANGED <<tables, solver, evidence, paused, abandoned, retries,
                   crashes>>

-----------------------------------------------------------------------------
(* The environment.                                                        *)

\* A solver process ends by itself.
SolverExits(j, n) ==
    /\ solver[j][n] = "alive"
    /\ solver' = [solver EXCEPT ![j][n] = "dead"]
    /\ UNCHANGED <<tables, evidence, paused, worker, abandoned, retries,
                   crashes>>

\* The dispatcher dies; the operating system releases its lock.
DispatcherDies ==
    /\ pc # "off"
    /\ crashes < CrashBound
    /\ crashes' = crashes + 1
    /\ Leave({"off"})
    /\ UNCHANGED <<tables, solver, evidence, paused, abandoned, retries>>

\* The machine restarts: every process is gone, the database stays.
Reboot ==
    /\ crashes < CrashBound
    /\ crashes' = crashes + 1
    /\ Leave({"off"})
    /\ solver' = [j \in Jobs |-> [n \in AttemptNos |->
                    IF solver[j][n] = "alive" THEN "dead" ELSE solver[j][n]]]
    /\ UNCHANGED <<tables, evidence, paused, abandoned, retries>>

-----------------------------------------------------------------------------
Cycle == Reconcile \/ ReadPaused \/ (\E j \in Jobs : Claim(j)) \/ ClaimNothing
            \/ EndCycle \/ CycleRaises

RunOne ==
    \/ MakeWorkdir \/ WorkdirRaises \/ Prepare \/ Gate \/ Spawn \/ SpawnRaises
    \/ RecordPid \/ SupervisionRaises
    \/ PollExited \/ PollCancelled \/ PollTimedOut
    \/ Evaluate \/ EvaluateRaises \/ Publish \/ PublishRaises
    \/ Finish \/ FinishRefused \/ RecordFailure \/ CloseFailed \/ CloseRefused
    \/ Defer \/ DeferRefused \/ DiagnosticRaises

Operator ==
    \/ \E j \in Jobs : Submit(j) \/ RequestCancel(j) \/ Retry(j)
    \/ SetPaused

Environment ==
    \/ \E j \in Jobs, n \in AttemptNos : SolverExits(j, n)
    \/ DispatcherDies
    \/ Reboot

Next == StartDispatcher \/ Cycle \/ RunOne \/ Operator \/ Environment

Spec == Init /\ [][Next]_vars

(* The dispatcher is restarted (Task Scheduler, operator) and, while it runs, *)
(* takes its steps; the polling loop ends at the latest by the timeout.       *)
(* Nothing is assumed of operators, of deaths or of solver processes.         *)
Fairness ==
    /\ WF_vars(StartDispatcher)
    /\ WF_vars(Cycle)
    /\ WF_vars(RunOne)

FairSpec == Spec /\ Fairness

-----------------------------------------------------------------------------
(* Properties.                                                             *)

\* Every variable has its type.
TypeOK ==
    /\ jobState \in [Jobs -> JobStates]
    /\ arrival \in [Jobs -> Nat]
    /\ lastAttempt \in [Jobs -> 0..AttemptBound]
    /\ attemptState \in [Jobs -> [AttemptNos -> AttemptStates]]
    /\ pidKnown \in [Jobs -> [AttemptNos -> BOOLEAN]]
    /\ pidRow \in [Jobs -> [AttemptNos -> BOOLEAN]]
    /\ abandoned \subseteq Jobs \X AttemptNos
    /\ solver \in [Jobs -> [AttemptNos -> {"none", "alive", "dead"}]]
    /\ evidence \in [Jobs -> [AttemptNos -> SUBSET Artifacts]]
    /\ intents \in [Jobs -> SUBSET AttemptNos]
    /\ paused \in BOOLEAN
    /\ pc \in Running \cup Idle
    /\ curJob \in Jobs \cup {NoJob}
    /\ curAttempt \in 0..AttemptBound
    /\ outcome \in {"none", "EXITED"} \cup Verdicts
    /\ retries \in [Jobs -> Nat]
    /\ crashes \in Nat

\* A job is RUNNING or CANCEL_REQUESTED exactly while its newest attempt is
\* RUNNING, and no older attempt is: the two tables are never torn apart by a
\* death, a refused transition or a command of another process.
AttemptsMatchJobs ==
    \A j \in Jobs :
        /\ jobState[j] \in Active =>
              /\ lastAttempt[j] \in AttemptNos
              /\ attemptState[j][lastAttempt[j]] = "RUNNING"
        /\ \A n \in AttemptNos : attemptState[j][n] = "RUNNING" =>
              jobState[j] \in Active /\ n = lastAttempt[j]

\* A live solver whose pid was ever recorded belongs to the newest attempt of
\* an active job: neither recovery after a death, nor a cancel, a timeout, a
\* deferral or a verdict queues or ends the job while that process runs.  The
\* one exception the code makes: a raising call of supervisor.run leaves the
\* process behind, and run_one's handler then reports that attempt FAILED
\* (after which an operator's `retry` starts a second solver beside it).
RecordedSolverOwnsJob ==
    \A j \in Jobs, n \in AttemptNos :
        solver[j][n] = "alive" /\ pidRow[j][n] =>
            \/ /\ n = lastAttempt[j]
               /\ attemptState[j][n] = "RUNNING"
               /\ jobState[j] \in Active
            \/ /\ <<j, n>> \in abandoned
               /\ attemptState[j][n] = "FAILED"

\* Every live solver beyond the supervised one was left behind by a death of
\* the dispatcher of its own or by a supervision of its own that raised.
SolverConcurrency ==
    Cardinality({a \in Jobs \X AttemptNos : solver[a[1]][a[2]] = "alive"})
        <= 1 + crashes + Cardinality(abandoned)

\* Whatever operators retry and whatever raises: a job is SUCCEEDED exactly
\* when one of its attempts is, it is the newest one, and it stays alone.
SuccessIsExclusive ==
    \A j \in Jobs :
        /\ jobState[j] = "SUCCEEDED" =>
              /\ lastAttempt[j] \in AttemptNos
              /\ attemptState[j][lastAttempt[j]] = "SUCCEEDED"
        /\ \A n \in AttemptNos : attemptState[j][n] = "SUCCEEDED" =>
              jobState[j] = "SUCCEEDED" /\ n = lastAttempt[j]

\* An active job always has an attempt that can still end it: its newest one
\* is RUNNING, even when `retry` was issued on a running job.
ActiveJobHasAttempt ==
    \A j \in Jobs : jobState[j] \in Active =>
        /\ lastAttempt[j] \in AttemptNos
        /\ attemptState[j][lastAttempt[j]] = "RUNNING"

\* A verdict other than FAILED, and every queued notification, rests on a
\* published summary_report that states the same verdict and no other.
VerdictHasReport ==
    \A j \in Jobs, n \in AttemptNos :
        attemptState[j][n] \in Verdicts \ {"FAILED"} \/ n \in intents[j] =>
            evidence[j][n] \cap Verdicts = {attemptState[j][n]}

\* A job waits for resources only when its attempt left nothing behind: no
\* solver of it runs and no verdict artifact was published for it.
ResourceWaitIsClean ==
    \A j \in Jobs : jobState[j] = "WAITING_RESOURCE" =>
        LET n == lastAttempt[j] IN
        /\ n \in AttemptNos
        /\ attemptState[j][n] = "INTERRUPTED"
        /\ evidence[j][n] = {}
        /\ solver[j][n] = "none"

\* Automatic recovery stops at max_attempts: every attempt beyond it was paid
\* for by an operator's `retry`, also across deaths and refused cycles.
AttemptBudget ==
    \A j \in Jobs :
        lastAttempt[j] + (IF jobState[j] = "QUEUED" THEN 1 ELSE 0)
            <= MaxAttempts + retries[j]

\* run_one never meets InvalidTransition on its own account: at whatever point
\* a cancel, another job or a death came in, the pid, the verdict and the
\* failure of the attempt in hand can still be committed, to both tables; only
\* a deferral is refused, and only to a job whose cancel was requested.
EndsAreLegal ==
    /\ pc = "record" => AttemptMayMove(curJob, curAttempt, "RUNNING")
    /\ pc = "finish" => FinishAllowed(outcome)
    /\ pc \in {"fail", "close"} => FinishAllowed("FAILED")
    /\ pc = "defer" =>
          /\ AttemptMayMove(curJob, curAttempt, "INTERRUPTED")
          /\ JobMayMove(curJob, "WAITING_RESOURCE")
                \/ jobState[curJob] = "CANCEL_REQUESTED"

\* An attempt that has ended never changes again: not its state, not the
\* artifacts published for it, not whether a notification was queued for it.
EndedAttemptsAreFrozen ==
    [][\A j \in Jobs, n \in AttemptNos :
          attemptState[j][n] \in Ended =>
            /\ attemptState'[j][n] = attemptState[j][n]
            /\ evidence'[j][n] = evidence[j][n]
            /\ n \in intents'[j] <=> n \in intents[j]]_vars

\* After a reconcile no attempt is left RUNNING without a live recorded
\* process: what a death left behind is never skipped.
ReconcileIsComplete ==
    [][pc = "scan" /\ pc' = "drain" =>
         \A j \in Jobs, n \in AttemptNos :
            attemptState'[j][n] = "RUNNING" =>
                pidKnown[j][n] /\ solver[j][n] = "alive"]_vars

\* The solver of a job's newest attempt outlived the dispatcher that started it.
Orphaned(j) ==
    /\ lastAttempt[j] \in AttemptNos
    /\ solver[j][lastAttempt[j]] = "alive"
    /\ curJob # j

\* A running attempt does not stay RUNNING for ever, unless (and only as long
\* as) its solver has outlived its dispatcher.  A requested cancel is not
\* forgotten either: the job leaves CANCEL_REQUESTED with its attempt.
AttemptsSettle ==
    \A j \in Jobs, n \in AttemptNos : attemptState[j][n] = "RUNNING" ~>
        attemptState[j][n] # "RUNNING" \/ Orphaned(j)

\* A queued job is claimed or withdrawn once the dispatcher stays resumed.
QueueDrains ==
    <>[]~paused => \A j \in Jobs : jobState[j] = "QUEUED" ~> jobState[j] # "QUEUED"

-----------------------------------------------------------------------------
(* The queue implements the ledger.                                        *)

StatusOf(s) ==
    CASE s = "NONE" -> "absent"
      [] s = "QUEUED" -> "pending"
      [] s \in Active -> "solving"
      [] s = "WAITING_RESOURCE" -> "held"
      [] s = "SUCCEEDED" -> "succeeded"
      [] s \in {"FAILED", "TIMED_OUT", "CANCELLED"} -> "closed"

FateOf(s) ==
    CASE s = "NONE" -> "none" [] s = "RUNNING" -> "open" [] s \in Ended -> s

Ledger == INSTANCE AnalysisLedger WITH
    status <- [j \in Jobs |-> StatusOf(jobState[j])],
    tries <- lastAttempt,
    fate <- [j \in Jobs |-> [n \in AttemptNos |-> FateOf(attemptState[j][n])]]

\* Every step of the queue is a step of the ledger or leaves it unchanged: one
\* attempt at a time, one fate each, success final, closed jobs reopened only
\* by `retry`.
ImplementsLedger == Ledger!LedgerSpec

-----------------------------------------------------------------------------
(* What the documentation says and the code does not keep.                 *)

\* ARCHITECTURE.md: no new solver is started while the PID is alive.
NoSecondSolver ==
    \A j \in Jobs, m, n \in AttemptNos :
        solver[j][m] = "alive" /\ solver[j][n] = "alive" => m = n

=============================================================================
