CONSTANTS
    StagingBlocks = 2
    Descriptors = 2
    Quantum = 2
    RingSize = 1
    MaxStreams = 1
    MaxChunks = 2
    MaxAlone = 2
    MaxCloses = 1
    Inputs = {"stop", "stack", "fault"}
    Microphones = {TRUE, FALSE}
SPECIFICATION Spec
CHECK_DEADLOCK FALSE
INVARIANTS
    PendingExact
    BlocksConserved
