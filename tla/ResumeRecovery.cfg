SPECIFICATION FairSpec
CONSTANTS
    t1 = t1
    t2 = t2
    Tool = {t1}
    Rounds = 1
    Disturbances = {"crash_job", "stall", "send_error", "arm_error", "crash_callback"}
INVARIANTS
    OneErrorEvent
PROPERTIES
    StreamEnds
CHECK_DEADLOCK FALSE
