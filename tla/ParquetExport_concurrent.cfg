SPECIFICATION Spec
CONSTANTS
    Exporters = {"periodic", "now"}
    AgeHours = 1
    MaxHour = 2
    Batches = 2
    MaxLate = 0
    MaxErrors = 1
    MaxKills = 0
CHECK_DEADLOCK FALSE
INVARIANTS ConcurrentExportSafe
