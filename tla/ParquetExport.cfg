SPECIFICATION FairSpec
CONSTANTS
    Exporters = {"periodic", "now"}
    AgeHours = 1
    MaxHour = 3
    Batches = 2
    MaxLate = 1
    MaxErrors = 1
    MaxKills = 1
CHECK_DEADLOCK FALSE
INVARIANTS TypeOK LedgerMatchesArchive RowsKept
PROPERTIES EveryHourArchived
