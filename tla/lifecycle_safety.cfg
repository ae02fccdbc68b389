CONSTANTS
    Tokens = {m1}
    MaxListeners = 1
    MaxGeneration = 3
    Calls = {"stop", "start_speaker", "stop_speaker"}
    Automations <- RestartOnIdle
    Faults = {"open", "release", "respec"}
    Recoveries = TRUE
SPECIFICATION Spec
CHECK_DEADLOCK FALSE
INVARIANTS
    ReadyIsOpen
    AmplifierFollows
    IdleMeansReleased
    CommitIsCurrent
PROPERTIES
    PathContract
