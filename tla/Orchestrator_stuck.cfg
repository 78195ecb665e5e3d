SPECIFICATION FairSpec
CONSTANTS
    e1 = e1
    e2 = e2
    Exps = {e1}
    BadExps = {}
    NSteps = 2
    Repeat = 2
    ModeOf <- MCModes
    ChemOf <- MCUniform
    MaxCrashes = 1
    MaxIoErrors = 1
    MaxDbErrors = 0
    MaxStops = 0
    BootChem = "LCO"
    MaxTag = 1
    MaxRewrites = 0
    MaxRestarts = 0
PROPERTIES NotStuckRunning
