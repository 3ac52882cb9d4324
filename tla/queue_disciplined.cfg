\* One job, two deaths, one retry of a closed job.
CONSTANTS
    j1 = j1
    NoJob = NoJob
    Jobs = {j1}
    Notified = {j1}
    MaxAttempts = 2
    RetryFrom <- ClosedStates
    CallErrors = TRUE
    AttemptBound = 3
    RetryBound = 1
    CrashBound = 2
SPECIFICATION Spec
CHECK_DEADLOCK FALSE
INVARIANTS
    EndsAreLegal
    AttemptsMatchJobs
    RecordedSolverOwnsJob
    SolverConcurrency
    AttemptBudget
    SuccessIsExclusive
    VerdictHasReport
PROPERTIES
    ReconcileIsComplete
    EndedAttemptsAreFrozen
    ImplementsLedger
