\* Three messages in batches of two, a fault and a death.
CONSTANTS
    Messages = {1, 2, 3}
    Limit = 2
    FaultBound = 1
    CrashBound = 1
SPECIFICATION FairSpec
INVARIANTS
    CopiesAreAccountedFor
PROPERTIES
    ImplementsMailbox
    IntentSettles
