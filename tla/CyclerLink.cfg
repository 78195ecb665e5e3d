SPECIFICATION LinkSpec
CONSTANTS
    NMC = NMC
    LCO = LCO
    Typo = Typo
    c1 = c1
    Channels = {c1}
    ActiveModes = {"cc"}
    Setpoints = {"zero", "charge", "discharge"}
    ZeroSetpoint = "zero"
    VLevels = {0, 1}
    TLevels = {0}
    BootTMax = 0
    Chemistries = {NMC, LCO}
    UnknownChem = Typo
    ChemVMax <- MCChemVMax
    CycleTags = {0}
    Threshold = 0
    SafetyPeriod = 1
    WatchdogPeriod = 1
    Lag = 0
    AgeCap = 2
    Commands <- MCCommands
    CommandVMax = 1
    CommandTMax = 0
    OrchChems = {NMC, LCO, Typo}
SYMMETRY MCChemSymmetry
INVARIANTS LinkTypeOK CommandLands ReadbackVerifies
PROPERTIES ActivatesWithCommand
