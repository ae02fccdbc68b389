CONSTANTS
    Tokens = {m1}
    MaxListeners = 1
    MaxGeneration = 3
    Calls = {"start", "stop"}
    Automations <- RestartOnIdle
    Faults = {"open", "release", "io", "desync", "setup"}
    Recoveries = FALSE
SPECIFICATION FairSpec
CHECK_DEADLOCK FALSE
PROPERTIES
    StartSettles
    StopCleansUp
