CONSTANTS
    StagingBlocks = 2
    Descriptors = 2
    Quantum = 2
    RingSize = 2
    MaxStreams = 2
    MaxChunks = 3
    MaxAlone = 5
    MaxCloses = 0
    Inputs = {"stop"}
    Microphones = {TRUE}
SPECIFICATION Spec
CHECK_DEADLOCK FALSE
INVARIANTS
    TypeOK
    CreditsFollowDma
    PlayedInOrder
PROPERTIES
    OverflowOnlyDry
