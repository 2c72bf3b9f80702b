SPECIFICATION Spec
CONSTANTS
    Absent = Absent
    Garbled = Garbled
    ConfigFiles <- MCConfigFiles
    VersionedConfig <- MCVersionedConfig
    UnversionedConfig <- MCUnversionedConfig
    Store <- MCStore
    InitialObjects <- MCInitialObjects
    NewObjects = {2}
    PageSize = 1
INVARIANTS
    VerdictIsTrue
    ReportIsComplete
CHECK_DEADLOCK FALSE
