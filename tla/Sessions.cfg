SPECIFICATION Spec
CONSTANTS
    Cut = Cut
    Tasks = {"down", "up", "host"}
    KindOf <- MCKindOf
    FileCount = 2
    FileBytes = 700
    Blocks = {0, 1, 4}
    HostKinds <- MCHostKinds
INVARIANTS
    VerifiedMeansWhole
    InspectionIsTrue
    CrashHasCause
PROPERTY SessionsEnd
CHECK_DEADLOCK FALSE
