SPECIFICATION MCSpec
CONSTANTS
    Jobs <- MCJobs
    Instances <- MCInstances
    InstanceOf <- MCInstanceOf
    HasLock = {"db"}
    HasUnlock = {"db"}
    HasRestore = {"db", "api", "blobs"}
    HasBackup = {"db"}
    LockBefore <- MCLockBefore
    Level <- MCLevel
    Director = FALSE
    MaxRuns = 2
    MaxOrphans = 1
INVARIANTS
    RestoreWhileLocked
    AllVerifiedFirst
    SuccessMeansRestored
    AtMostOneInstanceMixed
    RestoreCleanupRestores
PROPERTY FollowsWorkflow
CHECK_DEADLOCK FALSE
