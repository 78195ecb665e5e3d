SPECIFICATION Spec
CONSTANTS
    NMC = NMC
    LCO = LCO
    Typo = Typo
    c1 = c1
    Channels = {c1}
    ActiveModes = {"cc"}
    Setpoints = {0}
    ZeroSetpoint = 0
    VLevels = {0, 1}
    TLevels = {0}
    BootTMax = 0
    Chemistries = {NMC, LCO}
    UnknownChem = Typo
    ChemVMax <- MCChemVMax
    CycleTags = {0}
    Threshold = 1
    SafetyPeriod = 1
    WatchdogPeriod = 1
    Lag = 1
    AgeCap = 4
INVARIANTS TypeOK LatchedIsIdle DeadManBound OrphanBound BreachBound RunawayLatched
PROPERTIES LatchKept
