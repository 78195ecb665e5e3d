SPECIFICATION FairSpec
CONSTANTS
    e1 = e1
    e2 = e2
    Exps = {e1, e2}
    BadExps = {e2}
    NSteps = 2
    Repeat = 2
    ModeOf <- MCModes
    ChemOf <- MCUniform
    MaxCrashes = 1
    MaxIoErrors = 1
    MaxDbErrors = 1
    MaxStops = 1
    BootChem = "LCO"
    MaxTag = 1
    MaxRewrites = 1
    MaxRestarts = 0
INVARIANTS LedgerSound EventOncePerCycle RunsAsScheduled
PROPERTIES FinalStatusStays EveryExperimentEnds
