----------------------------- MODULE MCRestoreRun -----------------------------
(***************************************************************************)
(* A database restored under a lock, beside a blobstore restored without   *)
(* one on the same instance; and an api on an instance of its own, also    *)
(* restored.  Its metadata has it locked before the database, but it has   *)
(* no lock script.                                                         *)
(***************************************************************************)
EXTENDS RestoreRun

MCJobs == {"db", "api", "blobs"}
MCInstances == {"vm1", "vm2"}
MCInstanceOf == [j \in MCJobs |-> IF j = "api" THEN "vm2" ELSE "vm1"]
MCLevel == [j \in MCJobs |-> IF j = "db" THEN 2 ELSE 1]
MCLockBefore == {<<"api", "db">>}

\* The artifact of the blobstore is in order; those of the others are as they may be.
MCInit == Init /\ local["blobs"] = "recorded"
MCSpec == MCInit /\ [][Next]_vars /\ WF_vars(Step)

\* A director: one instance, with one job.
DirectorInstanceOf == [j \in {"db"} |-> "bosh"]
DirectorLevel == [j \in {"db"} |-> 1]

=============================================================================
