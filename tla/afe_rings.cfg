CONSTANTS
    m1 = m1
    Modes = {m1}
    First = m1
    Boots = {{"aec"}}
    Switches = {"aec"}
    Dual = FALSE
    MaxEpoch = 0
    MaxChanges = 2
    MaxFaults = 0
SPECIFICATION Spec
CHECK_DEADLOCK FALSE
INVARIANTS
    CompleteInstance
