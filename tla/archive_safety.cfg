\* A batch of two operations, the agent beside one archive command.
CONSTANTS
    agent = agent
    cli = cli
    Ops <- TwoOps
    Blobs <- TwoOps
    Blob <- EachItsOwn
    Drainers = {agent, cli}
    Agent = agent
    Limit = 2
    MaxAttempts = 2
    SlowBound = 1
    RetryBound = 1
    CrashBound = 1
    DamageBound = 2
SPECIFICATION Spec
SYMMETRY DrainerSymmetry
CHECK_DEADLOCK FALSE
INVARIANTS
    ArchivedIsVerified
    ArchiveAttemptBudget
    LeaseConcurrency
