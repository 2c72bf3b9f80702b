SPECIFICATION Spec
CONSTANTS
    BatchSizes <- MCBatchSizes
    MaxInFlight = 2
PROPERTIES
    ImplementsBatchRun
    RunTerminates
CHECK_DEADLOCK FALSE
