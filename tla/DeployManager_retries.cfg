SPECIFICATION Spec
CONSTANTS
    MaxDeploy = 2
    Nodes <- OneNode
    Plans <- OnePlan
    KeepChoices = {1}
    StoreFaults = "none"
    Impatient = {}
    Deaf = {}
    MaxRestarts = 0
INVARIANTS
    WiredWithIPs
    FinishedBounded
