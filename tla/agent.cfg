\* Two processes: starts one after the other and side by side.
CONSTANTS
    a1 = a1
    a2 = a2
    NoAgent = NoAgent
    Agents = {a1, a2}
    StartBound = 3
    StopBound = 2
    DeathBound = 1
SPECIFICATION FairSpec
CHECK_DEADLOCK FALSE
INVARIANTS
    SingleDispatcher
    HealthIsTruthful
PROPERTIES
    StopIsHonoured
