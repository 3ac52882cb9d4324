\* Two jobs, the dispatcher fair, two deaths.
CONSTANTS
    j1 = j1
    j2 = j2
    NoJob = NoJob
    Jobs = {j1, j2}
    Notified = {j1, j2}
    MaxAttempts = 1
    RetryFrom <- ClosedStates
    CallErrors = FALSE
    AttemptBound = 1
    RetryBound = 0
    CrashBound = 2
SPECIFICATION FairSpec
CHECK_DEADLOCK FALSE
INVARIANTS
    SolverConcurrency
PROPERTIES
    AttemptsSettle
    QueueDrains
