CONSTANTS
    Tokens = {m1}
    MaxListeners = 1
    MaxGeneration = 4
    Calls = {"start", "stop"}
    Automations = {}
    Faults = {}
    Recoveries = FALSE
SPECIFICATION Spec
CHECK_DEADLOCK FALSE
INVARIANT OnStartFindsHardware
