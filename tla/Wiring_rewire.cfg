SPECIFICATION Spec
CONSTANTS
    N = 3
    HRs = {1, 2}
    HA = TRUE
    S3 = FALSE
    Backups = {1, 2}
    MaxParallel = 2
    MaxComponentAttempts = 1
    MaxS3Attempts = 2
    MaxRuns = 2
CHECK_DEADLOCK FALSE
INVARIANTS
    NoDuplicates
    WiredUnlessStopped
    ClusterPrerequisites
    ConfigBackupHasRepo
