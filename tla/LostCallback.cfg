SPECIFICATION FairSpec
CONSTANTS
    t1 = t1
    t2 = t2
    Tool = {t1}
    Rounds = 1
    Disturbances = {"crash_callback"}
PROPERTIES
    PauseEnds
CHECK_DEADLOCK FALSE
