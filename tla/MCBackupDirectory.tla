-------------------------- MODULE MCBackupDirectory --------------------------
(***************************************************************************)
(* Three artifacts downloaded at once; "db-0-d" is a name cut short.       *)
(***************************************************************************)
EXTENDS BackupDirectory

MCFileOf == [a \in {"db", "api", "blobs"} |->
                CASE a = "db" -> "db-0-db.tar" [] a = "api" -> "api-0-api.tar"
                  [] OTHER -> "blobs-cf-backup-one-restore-all.tar"]

=============================================================================
