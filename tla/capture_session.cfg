CONSTANTS
    MaxCaptures = 2
    Points = {mic}
    Formats = {f, g}
    Slots = 1
    MaxCalls = 2
    MaxSessions = 1
    None = None
SPECIFICATION FairSpec
CHECK_DEADLOCK FALSE
INVARIANTS
    TypeOK
    QueueHeldInTime
    OneStream
    GapsDeclared
    Released
PROPERTIES
    Ends
