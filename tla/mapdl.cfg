\* Two calls at once, two sessions, one death of the server.
CONSTANTS
    c1 = c1
    c2 = c2
    Callers = {c1, c2}
    Analyses = {"STATIC", "MODAL"}
    AllowRaw = TRUE
    AllowScripts = TRUE
    LaunchBound = 2
    DeathBound = 1
    BenchBound = 2
SPECIFICATION Spec
SYMMETRY CallerSymmetry
CHECK_DEADLOCK FALSE
INVARIANTS
    ScalarsAreOfSession
    ProcessesAreAccounted
PROPERTIES
    ScalarsAreGeneric
