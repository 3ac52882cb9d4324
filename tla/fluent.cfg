\* Two runners, three calls, a death.
CONSTANTS
    r1 = r1
    r2 = r2
    m1 = m1
    m2 = m2
    Runners = {r1, r2}
    Manifests = {m1, m2}
    Images = {image}
    Data = {data}
    image = image
    data = data
    Requested = 2
    Chunk = 2
    HardMaximum = 5
    AutoExtend = TRUE
    Nobody = Nobody
    Stale = Stale
    NoFile = NoFile
    NoJob = NoJob
    CallBound = 3
    CrashBound = 1
SPECIFICATION Spec
SYMMETRY Alike
CHECK_DEADLOCK FALSE
INVARIANTS
    EvidenceIsOwn
    OneSolver
PROPERTIES
    ImplementsDossier
    CompletedIsSkipped
