SPECIFICATION PSpec
CONSTANTS
    Commands = {"backup", "backup-cleanup", "pre-backup-check", "restore", "restore-cleanup"}
    MaxSignals = 2
INVARIANTS
    LogIsKept
    AdviceUndoes
PROPERTIES
    QuestionStandsAlone
    RunEndsCleanly
CHECK_DEADLOCK FALSE
