CONSTANTS
    MaxCaptures = 2
    Points = {mic}
    Formats = {f}
    Slots = 1
    MaxCalls = 1
    MaxSessions = 0
    None = None
SPECIFICATION Spec
CHECK_DEADLOCK FALSE
INVARIANTS
    QueueOutlivesUse
