\* The dispatcher dies between Popen and the recording of the pid.
CONSTANTS
    j1 = j1
    NoJob = NoJob
    Jobs = {j1}
    Notified = {j1}
    MaxAttempts = 2
    RetryFrom <- ClosedStates
    CallErrors = FALSE
    AttemptBound = 2
    RetryBound = 0
    CrashBound = 1
SPECIFICATION Spec
CHECK_DEADLOCK FALSE
INVARIANTS
    NoSecondSolver
