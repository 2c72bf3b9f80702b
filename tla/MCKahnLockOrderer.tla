-------------------------- MODULE MCKahnLockOrderer --------------------------
(***************************************************************************)
(* Four jobs: one job on two instances (one specifier names both), and two *)
(* jobs of one name from different releases (a specifier names only one).  *)
(* One specifier matches no deployed job.  Every assignment of specifiers  *)
(* to jobs is an initial state, so that every dependency graph four such   *)
(* jobs can have is ordered.                                               *)
(***************************************************************************)
EXTENDS KahnLockOrderer

MCJobs == {"api1", "api2", "db1", "db2"}
MCName == [j \in MCJobs |-> IF j \in {"api1", "api2"} THEN "api" ELSE "db"]
MCRelease == [j \in MCJobs |-> IF j = "db2" THEN "uaa-release" ELSE "cf-release"]
MCInstance == [j \in MCJobs |-> IF j \in {"api1", "db1"} THEN "vm1" ELSE "vm2"]
MCSpecifiers == {"api", "db"} \X {"cf-release", "uaa-release"}

=============================================================================
