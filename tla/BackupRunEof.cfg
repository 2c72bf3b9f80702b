SPECIFICATION Spec
CONSTANTS
    Jobs <- MCJobs
    Instances <- MCInstances
    InstanceOf <- MCInstanceOf
    HasLock = {"db", "api"}
    HasUnlock = {"db", "api"}
    HasBackup = {"db", "blobs"}
    HasRestore = {"db"}
    LockBefore <- MCLockBefore
    Level <- MCLevel
    MaxRuns = 1
    MaxOrphans = 1
INVARIANT EofIsOkay
CHECK_DEADLOCK FALSE
