SPECIFICATION Spec
CONSTANTS
    Procs = {1, 2}
    MaxCalls = 2
    MaxFaults = 1
INVARIANTS
    StoredIsWhole
    CapsAgree
    DeployedIsWhole
    ImportFallsBack
CHECK_DEADLOCK FALSE
