\* Three threads on a small machine.
CONSTANTS
    t1 = t1
    t2 = t2
    t3 = t3
    Threads = {t1, t2, t3}
    Features = {"solver"}
    Unconfigured = {"other"}
    Capacity <- Machine
    Requests <- Mixed
SPECIFICATION FairSpec
INVARIANTS
    TypeOK
    Conservation
PROPERTIES
    WaitEnds
