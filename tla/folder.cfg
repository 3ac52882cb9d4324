\* Two names, three drops, failing calls and deaths.
CONSTANTS
    NoManifest = NoManifest
    Names = {1, 2}
    Manifests <- Ours
    Valid <- OursValid
    Empty <- OursEmpty
    Submission <- OurIds
    DropBound = 3
    FaultBound = 2
    CrashBound = 1
SPECIFICATION FairSpec
CHECK_DEADLOCK FALSE
INVARIANTS
    NothingIsLost
PROPERTIES
    ImplementsIntake
    DropIsConsumed
