CONSTANTS
    Job = {j1, j2, j3}
    MaxConcurrent = 1
    KeepChoices = {1, 2}
    StoreFaults = "one"
    MaxRestarts = 1
SPECIFICATION Spec
SYMMETRY Symmetry
INVARIANTS
    TypeOK
    SlotsBalance
    ActiveIsOwned
    ConfigKept
    RowTracksJob
    DoneMeansComplete
PROPERTIES
    DurableVerdict
    ImplementsLifecycle
