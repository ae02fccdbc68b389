CONSTANTS
    StagingBlocks = 2
    Descriptors = 2
    Quantum = 2
    RingSize = 1
    MaxStreams = 1
    MaxChunks = 2
    MaxAlone = 2
    MaxCloses = 0
    Inputs = {"finish", "pause"}
    Microphones = {TRUE, FALSE}
SPECIFICATION FairSpec
CHECK_DEADLOCK FALSE
PROPERTIES
    FinishEnds
    ResetServed
