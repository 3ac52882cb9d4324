\* Violation: what the except clauses of send make of transient faults.
CONSTANTS
    Messages = {1}
    Limit = 1
    FaultBound = 1
    CrashBound = 0
SPECIFICATION Spec
INVARIANTS
    TransientFaultsRetry
