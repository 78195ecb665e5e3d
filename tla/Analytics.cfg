SPECIFICATION FairSpec
CONSTANTS
    MaxSamples = 6
    MaxInbox = 1
    BatchMax = 2
    HardCap = 3
    MaxFaults = 2
    MinRows = 1
    JumpPct = 20
    Profile <- MCProfile
    Ohm <- MCOhm
INVARIANTS
    TypeOK
    RowsStoredOnce
    BaselineIsNearest
    AlertsMatchFeatures
PROPERTY
    LatestCycleHandled
CHECK_DEADLOCK FALSE
