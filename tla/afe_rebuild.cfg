CONSTANTS
    m1 = m1
    m2 = m2
    Modes = {m1, m2}
    First = m1
    Boots = {{}, {"vad"}}
    Switches = {"vad", "ns", "aec"}
    Dual = FALSE
    MaxEpoch = 1
    MaxChanges = 1
    MaxFaults = 1
SPECIFICATION Spec
CHECK_DEADLOCK FALSE
INVARIANTS
    TypeOK
    FrameKeepsInstance
    FreshFrames
    FreshVoice
    IdleIsSettled
    ParkedIsIdle
