SPECIFICATION Spec
CONSTANTS
    MaxSamples = 7
    MaxInbox = 1
    BatchMax = 2
    HardCap = 3
    MaxFaults = 1
    MinRows = 1
    JumpPct = 20
    Profile <- MCProfile
    Ohm <- MCOhm
INVARIANT
    OrderDoesNotMatter
CHECK_DEADLOCK FALSE
