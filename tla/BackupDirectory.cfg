SPECIFICATION Spec
CONSTANTS
    Artifacts = {"db", "api", "blobs"}
    Files = {"db-0-db.tar", "api-0-api.tar", "blobs-cf-backup-one-restore-all.tar",
             "db-0-d.tar"}
    FileOf <- MCFileOf
    NoOne = "no one"
INVARIANTS
    ValidAtAnyTime
    NoChecksumLost
    OneWholeCopy
PROPERTY DrainEnds
CHECK_DEADLOCK FALSE
