SPECIFICATION FairSpec
CONSTANTS
    t1 = t1
    t2 = t2
    Tool = {t1, t2}
    Rounds = 2
    Disturbances = {}
PROPERTIES
    AnsweredPauseResumes
CHECK_DEADLOCK FALSE
