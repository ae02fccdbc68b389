CONSTANTS
    Tokens = {m1, m2}
    MaxListeners = 2
    MaxGeneration = 3
    Calls = {"register", "unregister", "start_speaker", "stop_speaker"}
    Automations = {}
    Faults = {}
    Recoveries = FALSE
SPECIFICATION FairSpec
CHECK_DEADLOCK FALSE
PROPERTIES
    ConsumersServed
    UnwantedIsClosed
INVARIANTS
    RuntimeStateFresh
    ProcessorMatches
