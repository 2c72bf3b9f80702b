----------------------------- MODULE MCBackupRun -----------------------------
(***************************************************************************)
(* A database that is locked, backed up and unlocked; an api on an         *)
(* instance of its own that must be locked before it and has nothing to    *)
(* back up; and a blobstore that is backed up without a lock.              *)
(***************************************************************************)
EXTENDS BackupRun

MCJobs == {"db", "api", "blobs"}
MCInstances == {"vm1", "vm2"}
MCInstanceOf == [j \in MCJobs |-> IF j = "api" THEN "vm2" ELSE "vm1"]
MCLevel == [j \in MCJobs |-> IF j = "db" THEN 2 ELSE 1]
MCLockBefore == {<<"api", "db">>}

=============================================================================
