SPECIFICATION FairSpec
CONSTANTS
    Events = 2
    Rounds = 1
    PopLimit = 2
    Error = Error
    Finished = Finished
    Faults = {"publish_error"}
PROPERTIES
    StreamEnds
CHECK_DEADLOCK FALSE
