CONSTANTS
    Job = {j1, j2, j3}
    MaxConcurrent = 1
    KeepChoices = {1}
    StoreFaults = "none"
    MaxRestarts = 0
SPECIFICATION FairSpec
PROPERTIES
    EveryJobFinishes
