SPECIFICATION Spec
CONSTANTS
    t1 = t1
    t2 = t2
    Tool = {t1, t2}
    Rounds = 1
    Disturbances = {"cancel", "send_error", "arm_error"}
SYMMETRY ToolSymmetry
INVARIANTS
    ResumedWithAllResults
    NothingLeftBehind
    CancelStopsTools
PROPERTIES
    NoResurrection
    NoLateResult
    ImplementsTurn
CHECK_DEADLOCK FALSE
