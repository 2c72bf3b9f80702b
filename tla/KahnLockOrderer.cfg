SPECIFICATION Spec
CONSTANTS
    Jobs <- MCJobs
    Name <- MCName
    Release <- MCRelease
    InstanceIdentifier <- MCInstance
    Specifiers <- MCSpecifiers
INVARIANTS
    DependenciesRespected
    CyclicMeansUnorderable
PROPERTY
    OrderReturns
CHECK_DEADLOCK FALSE
