SPECIFICATION FairSpec
CONSTANTS
    c1 = c1
    c2 = c2
    Events = 3
    Faults = 1
    MaxLen = 3
    Caller = {c1}
    Remote = {}
    Error = Error
    None = None
PROPERTIES
    ObserverEnds
CHECK_DEADLOCK FALSE
