SPECIFICATION Spec
CONSTANTS
    Jobs <- MCJobs
    Instances <- MCInstances
    InstanceOf <- MCInstanceOf
    HasLock = {"db", "api"}
    HasUnlock = {"db", "api"}
    HasBackup = {"db", "blobs"}
    HasRestore = {"db"}
    LockBefore <- MCLockBefore
    Level <- MCLevel
    MaxRuns = 2
    MaxOrphans = 1
INVARIANTS
    BackupWhileLocked
    LockNesting
    LeftoversAreReported
    SuccessMeansComplete
    CleanupRestores
PROPERTY FollowsWorkflow
CHECK_DEADLOCK FALSE
