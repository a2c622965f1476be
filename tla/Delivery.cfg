SPECIFICATION FairSpec
CONSTANTS
    Events = 3
    Rounds = 1
    PopLimit = 2
    Error = Error
    Finished = Finished
    Faults = {"engine_error", "publish_error", "finish_error", "cancel", "crash", "stall", "leave"}
INVARIANTS
    TypeOK
    NoHole
    ErrorLast
    CompletedMeansHeard
PROPERTIES
    StreamEndsUnlessRaised
CHECK_DEADLOCK FALSE
