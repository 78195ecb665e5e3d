SPECIFICATION Spec
CONSTANTS
    e1 = e1
    e2 = e2
    Exps = {e1, e2}
    BadExps = {}
    NSteps = 1
    Repeat = 3
    ModeOf <- MCModes
    ChemOf <- MCMixed
    MaxCrashes = 2
    MaxIoErrors = 0
    MaxDbErrors = 0
    MaxStops = 0
    BootChem = "LCO"
    MaxTag = 1
    MaxRewrites = 0
    MaxRestarts = 1
INVARIANTS TypeOK RunsAsScheduled
PROPERTIES ImplementsLifecycle
