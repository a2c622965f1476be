SPECIFICATION FairSpec
CONSTANTS
    s1 = s1
    s2 = s2
    c1 = c1
    c2 = c2
    c3 = c3
    Stream = {s1, s2}
    Consumer = {c1, c2, c3}
    Threshold = 1
    Events <- EventsOf
    Called = {s1}
    None = None
INVARIANTS
    TypeOK
    NobodyLeftBehind
    StopsWhenDrained
    EndedMeansHeard
PROPERTIES
    ConsumersEnd
CHECK_DEADLOCK FALSE
