SPECIFICATION FairSpec
CONSTANTS
    w1 = w1
    w2 = w2
    w3 = w3
    j1 = j1
    j2 = j2
    Worker = {w1, w2}
    Job = {j1, j2}
    MaxJobs = 1
    MaxTries = 1
    Crashes = 1
    Lapses = 2
    None = None
INVARIANTS
    TypeOK
    StartedOnce
    KeepsLock
    OnlyAbandonedFail
PROPERTIES
    BackInTime
    TurnsEnd
CHECK_DEADLOCK FALSE
