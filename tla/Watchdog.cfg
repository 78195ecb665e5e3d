SPECIFICATION FairSpec
CONSTANTS
    GracePolls = 1
    RetryCap = 1
    MaxAlerts = 7
    MaxChanges = 3
    MaxDbErrors = 2
    MaxSessions = 2
CHECK_DEADLOCK FALSE
INVARIANTS TypeOK AlertsAccounted
PROPERTIES SilenceReported TripReported
