\* Two runs of a job, one fault in publication; the agent beside one archive command.
CONSTANTS
    agent = agent
    cli = cli
    Runs <- TwoRuns
    Artifacts <- SixArtifacts
    Of <- RegularOf
    FailureRecord <- RecordOf
    Content <- Contents
    JobOf <- OneJob
    FaultBound = 1
    Ops <- OnlySummaries
    Blobs <- AllBlobs
    Blob <- BlobOf
    Drainers = {agent, cli}
    Agent = agent
    Limit = 2
    MaxAttempts = 1
    SlowBound = 0
    RetryBound = 0
    CrashBound = 1
    DamageBound = 1
SPECIFICATION FairPublicationSpec
CHECK_DEADLOCK FALSE
INVARIANTS
    RowsAreBacked
    PublishedIsReadOnly
    CompleteIsArchived
PROPERTIES
    ImplementsArchive
    ArchiveSettles
