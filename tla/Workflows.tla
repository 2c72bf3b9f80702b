------------------------------ MODULE Workflows ------------------------------
(***************************************************************************)
(* The workflow graphs that the orchestrator's constructors build: for     *)
(* each step, the step that follows its success and the step that follows  *)
(* its failure.  A step added without OnSuccess or OnFailure has none, and *)
(* the workflow ends there.                                                *)
(***************************************************************************)

Workflows == {"backup", "backup-cleanup", "pre-backup-check", "restore", "restore-cleanup"}

StepsOf(w) ==
    CASE w = "backup"           -> {"find", "backupable", "createArtifact", "lock", "backup",
                                    "unlockAfterSuccessfulBackup", "unlockAfterFailedBackup",
                                    "drain", "cleanup", "addFinishTime"}
      [] w = "backup-cleanup"   -> {"find", "postBackupUnlock", "cleanupPrevious"}
      [] w = "pre-backup-check" -> {"find", "backupable", "cleanup"}
      [] w = "restore"          -> {"validateArtifact", "find", "restorable", "copyToRemote",
                                    "preRestoreLock", "restore", "postRestoreUnlock", "cleanup"}
      [] w = "restore-cleanup"  -> {"find", "postRestoreUnlock", "cleanupPrevious"}

Steps == UNION {StepsOf(w) : w \in Workflows}

StartingNode(w) == IF w = "restore" THEN "validateArtifact" ELSE "find"

-----------------------------------------------------------------------------

BackuperOnSuccess(n) ==
    CASE n = "find" -> "backupable"
      [] n = "backupable" -> "createArtifact"
      [] n = "createArtifact" -> "lock"
      [] n = "lock" -> "backup"
      [] n = "backup" -> "unlockAfterSuccessfulBackup"
      [] n = "unlockAfterSuccessfulBackup" -> "drain"
      [] n = "unlockAfterFailedBackup" -> "cleanup"
      [] n = "drain" -> "cleanup"
      [] n = "cleanup" -> "addFinishTime"
      [] n = "addFinishTime" -> "end"

\* Plausible bugs in NewBackuper: a failed lock is not undone ...
BackuperOnFailureForgetsUnlock(n) ==
    CASE n = "find" -> "end"
      [] n \in {"backupable", "createArtifact", "lock"} -> "cleanup"
      [] n = "backup" -> "unlockAfterFailedBackup"
      [] OTHER -> BackuperOnSuccess(n)
\* ... or does not stop the backup.
BackuperOnFailureIgnoresLock(n) ==
    CASE n = "find" -> "end"
      [] n \in {"backupable", "createArtifact"} -> "cleanup"
      [] n = "backup" -> "unlockAfterFailedBackup"
      [] OTHER -> BackuperOnSuccess(n)

BackuperOnFailure(n) ==
    CASE n = "find" -> "end"
      [] n \in {"backupable", "createArtifact"} -> "cleanup"
      [] n \in {"lock", "backup"} -> "unlockAfterFailedBackup"
      [] n = "unlockAfterSuccessfulBackup" -> "drain"
      [] n = "unlockAfterFailedBackup" -> "cleanup"
      [] n = "drain" -> "cleanup"
      [] n = "cleanup" -> "addFinishTime"
      [] n = "addFinishTime" -> "end"

BackupCleanerOnSuccess(n) ==
    CASE n = "find" -> "postBackupUnlock"
      [] n = "postBackupUnlock" -> "cleanupPrevious"
      [] n = "cleanupPrevious" -> "end"

BackupCleanerOnFailure(n) ==
    CASE n = "find" -> "end"
      [] n = "postBackupUnlock" -> "cleanupPrevious"
      [] n = "cleanupPrevious" -> "end"

BackupCheckerOnSuccess(n) ==
    CASE n = "find" -> "backupable"
      [] n = "backupable" -> "cleanup"
      [] n = "cleanup" -> "end"

BackupCheckerOnFailure(n) ==
    CASE n = "find" -> "end"
      [] n = "backupable" -> "cleanup"
      [] n = "cleanup" -> "end"

RestorerOnSuccess(n) ==
    CASE n = "validateArtifact" -> "find"
      [] n = "find" -> "restorable"
      [] n = "restorable" -> "copyToRemote"
      [] n = "copyToRemote" -> "preRestoreLock"
      [] n = "preRestoreLock" -> "restore"
      [] n = "restore" -> "postRestoreUnlock"
      [] n = "postRestoreUnlock" -> "cleanup"
      [] n = "cleanup" -> "end"

\* A plausible bug in NewRestorer: a failed lock does not stop the restore.
RestorerOnFailureIgnoresLock(n) ==
    CASE n \in {"validateArtifact", "find"} -> "end"
      [] n \in {"restorable", "copyToRemote"} -> "cleanup"
      [] OTHER -> RestorerOnSuccess(n)

RestorerOnFailure(n) ==
    CASE n \in {"validateArtifact", "find"} -> "end"
      [] n \in {"restorable", "copyToRemote"} -> "cleanup"
      [] n \in {"preRestoreLock", "restore"} -> "postRestoreUnlock"
      [] n = "postRestoreUnlock" -> "cleanup"
      [] n = "cleanup" -> "end"

RestoreCleanerOnSuccess(n) ==
    CASE n = "find" -> "postRestoreUnlock"
      [] n = "postRestoreUnlock" -> "cleanupPrevious"
      [] n = "cleanupPrevious" -> "end"

RestoreCleanerOnFailure(n) ==
    CASE n = "find" -> "end"
      [] n = "postRestoreUnlock" -> "cleanupPrevious"
      [] n = "cleanupPrevious" -> "end"

-----------------------------------------------------------------------------

\* Workflow.Run and findNode: where the workflow goes after step n.
NextNode(w, n, ok) ==
    CASE w = "backup"           -> IF ok THEN BackuperOnSuccess(n) ELSE BackuperOnFailure(n)
      [] w = "backup-cleanup"   -> IF ok THEN BackupCleanerOnSuccess(n) ELSE BackupCleanerOnFailure(n)
      [] w = "pre-backup-check" -> IF ok THEN BackupCheckerOnSuccess(n) ELSE BackupCheckerOnFailure(n)
      [] w = "restore"          -> IF ok THEN RestorerOnSuccess(n) ELSE RestorerOnFailure(n)
      [] w = "restore-cleanup"  -> IF ok THEN RestoreCleanerOnSuccess(n) ELSE RestoreCleanerOnFailure(n)

=============================================================================
