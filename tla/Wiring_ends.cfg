SPECIFICATION FairSpec
CONSTANTS
    N = 3
    HRs = {1, 2}
    HA = TRUE
    S3 = TRUE
    Backups = {1, 2}
    MaxParallel = 2
    MaxComponentAttempts = 2
    MaxS3Attempts = 2
    MaxRuns = 1
CHECK_DEADLOCK FALSE
PROPERTIES
    FailureEndsWiring
