SPECIFICATION FairSpec
CONSTANTS
    MaxDeploy = 1
    Nodes <- TwoNodes
    Plans <- MixedPlans
    KeepChoices = {1}
    StoreFaults = "one"
    Impatient = {1}
    Deaf <- ProxmoxDeaf
    MaxRestarts = 1
INVARIANTS
    VMsAccounted
    RowTracksRecord
PROPERTIES
    ImplementsLifecycle
    EveryStopTakesEffect
    EveryRemoveReturns
