SPECIFICATION FairSpec
CONSTANTS
    t1 = t1
    t2 = t2
    Tool = {t1, t2}
    Rounds = 2
    Disturbances = {"engine_error"}
INVARIANTS
    TypeOK
    SingleEngine
PROPERTIES
    TurnEndsUnlessClaimIsStale
CHECK_DEADLOCK FALSE
