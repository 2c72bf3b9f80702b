SPECIFICATION DSpec
CONSTANTS
    N = 3
    MaxInFlight = 2
    MaxErrors = 3
INVARIANTS
    ResultsAreTold
    LeftoversAreAdvised
    ExitCodeTells
PROPERTY CommandExits
CHECK_DEADLOCK FALSE
