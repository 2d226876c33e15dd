SPECIFICATION Spec
CONSTANTS
    Specs <- MCSpecs
    Shells = {"powershell", "curl"}
    Alike <- MCAlike
    MaxRuns = 2
    MaxFaults = 2
INVARIANTS
    InSync
    DoneMeansWired
    ClusterLast
PROPERTY NothingTwice
CHECK_DEADLOCK FALSE
