SPECIFICATION FairSpec
CONSTANTS
    Chambers = {"A", "B"}
    MaxGap = 1
    Band = 0
    Duration = 3
    Grace = 1
    CheckPeriod = 1
    Lag = 1
    MaxSetpoints = 3
    MaxSessions = 2
INVARIANTS
    TypeOK
    SweepSurvives
PROPERTIES
    OneAlertPerBreach
    BreachReported
CHECK_DEADLOCK FALSE
