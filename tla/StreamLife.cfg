SPECIFICATION FairSpec
CONSTANTS
    c1 = c1
    c2 = c2
    Events = 3
    Faults = 2
    MaxLen = 3
    Caller = {c1, c2}
    Remote = {c2}
    Error = Error
    None = None
INVARIANTS
    TypeOK
    NoHole
    StatusNotAhead
    HeardAsSeen
PROPERTIES
    QuietAfterCancel
    StaysDeleted
    ObserverEndsUnlessDeleted
CHECK_DEADLOCK FALSE
