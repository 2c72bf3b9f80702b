------------------------------ MODULE RestoreRun ------------------------------
(***************************************************************************)
(* bbr restore and restore-cleanup, of a deployment or of a director: the  *)
(* steps of the two workflows, the uploads and scripts they run and what   *)
(* they leave behind.  As in module BackupRun, commands are run one after  *)
(* the other, the process may exit at any point, and a script whose        *)
(* connection or process is gone may be running still (an orphan).         *)
(*                                                                         *)
(* Uploads are run in parallel, the lock and unlock scripts serially batch *)
(* after batch (both as module BatchRun promises), the restore scripts in  *)
(* a loop of their own that stops at the first instance that fails.        *)
(***************************************************************************)
EXTENDS Workflows, Naturals, FiniteSets

CONSTANTS
    Instances,    \* the instances found
    Jobs,         \* their jobs
    InstanceOf,   \* job -> its instance
    HasLock,      \* jobs with a pre-restore-lock script
    HasUnlock,    \* jobs with a post-restore-unlock script
    HasRestore,   \* jobs with a restore script
    HasBackup,    \* jobs with a backup script
    LockBefore,   \* the dependencies <<k, j>>: k is to be locked before j
    Level,        \* job -> its batch in the order KahnLockOrderer returns
    Director,     \* is it a director, reached without ssh users of bbr's own?
    MaxRuns,      \* bound: the number of commands run
    MaxOrphans    \* bound: no further connection is lost with so many orphans

\* Level as in module BackupRun; a standalone director is one instance.
ASSUME DeploymentAssumption ==
    /\ InstanceOf \in [Jobs -> Instances]
    /\ HasLock \subseteq Jobs
    /\ HasUnlock \subseteq Jobs
    /\ HasRestore \subseteq Jobs
    /\ HasBackup \subseteq Jobs
    /\ LockBefore \subseteq Jobs \X Jobs
    /\ Level \in [Jobs -> Nat]
    /\ \A d \in LockBefore : Level[d[1]] < Level[d[2]]
    /\ Director \in BOOLEAN
    /\ Director => \E i \in Instances : Instances = {i}
    /\ MaxRuns \in Nat /\ MaxOrphans \in Nat

VARIABLES
    \* the bbr process
    cmd,       \* the command
    node,      \* the current step of its workflow
    errs,      \* the steps whose errors were collected
    pending,   \* jobs (or instances) the current step has not come to yet
    running,   \* jobs whose upload or script the current step is running
    failed,    \* has anything failed in the current step?
    created,   \* instances marked artifactDirCreated
    \* the local backup
    local,     \* job -> its artifact: "absent", "unrecorded" (no checksum of it in
               \* the metadata), "recorded" or "corrupt" (not as recorded)
    \* the deployment
    cyclic,    \* is its lock dependency graph cyclic?
    locked,    \* jobs locked by their lock script
    dir,       \* instances with an artifact directory
    remote,    \* job -> what is uploaded: "none", "partial" or "whole", as recorded
    users,     \* instances with the ssh user of the current command
    orphans,   \* <<kind, job>>: scripts running without bbr waiting for them
    data,      \* job -> its data: "old", as before the command, "mixed" or "new"
    \* history, for the properties and the bound
    quiet,     \* since the command began, has no orphan been running, and no ssh
               \* session ended in io.EOF, which runInSession takes for success?
    fresh,     \* was no job locked when it began?
    found,     \* the instances that had an artifact directory when it began
    runs       \* commands begun

session == <<cmd, errs, created>>
work == <<pending, running, failed>>
deployment == <<cyclic, locked, dir, remote, users, orphans, data>>
history == <<quiet, fresh, found, runs>>
vars == <<session, node, work, local, deployment, history>>

-----------------------------------------------------------------------------

RestoreCommands == {"restore", "restore-cleanup"}
Idle == {"none", "end", "exited"}

AllRestoreable == {InstanceOf[j] : j \in HasRestore}
BackupableOrRestorable == {InstanceOf[j] : j \in HasBackup \cup HasRestore}

Kind(n) ==
    CASE n = "preRestoreLock" -> "lock" [] n = "restore" -> "restore" [] OTHER -> "unlock"
Kinds == {"lock", "restore", "unlock"}
ScriptSteps == {"preRestoreLock", "restore", "postRestoreUnlock"}
LoopSteps == ScriptSteps \cup {"copyToRemote", "cleanup", "cleanupPrevious"}

\* The step orders the jobs, and so fails at once on a cyclic graph.
Ordered(n) == n \in {"preRestoreLock", "postRestoreUnlock"}

\* What the deployment gives its executor, or the loop over its instances: every
\* job whose script it is to run, if they can be ordered, ...
newJobExecutables(jobs) == IF cyclic THEN {} ELSE jobs
PreRestoreLock == newJobExecutables(HasLock)
PostRestoreUnlock == newJobExecutables(HasUnlock)
\* ... the artifacts of the restorable instances, and their jobs, ...
UploadBackupToDeployment == {j \in HasRestore : InstanceOf[j] \in AllRestoreable}
Restore == {j \in HasRestore : InstanceOf[j] \in AllRestoreable}
\* ... or instances.
Cleanup == Instances
CleanupPrevious == BackupableOrRestorable

\* What a step has to do, one executable or instance at a time.
Work(n) ==
    CASE n = "copyToRemote"      -> UploadBackupToDeployment
      [] n = "preRestoreLock"    -> PreRestoreLock
      [] n = "restore"           -> Restore
      [] n = "postRestoreUnlock" -> PostRestoreUnlock
      [] n = "cleanup"           -> Cleanup
      [] n = "cleanupPrevious"   -> CleanupPrevious
      [] OTHER                   -> {}

Enter(n) ==
    /\ node' = n
    /\ pending' = Work(n)
    /\ running' = {}
    /\ failed' = (Ordered(n) /\ cyclic)

\* The current step returns nil, or an error.
Succeed == Enter(NextNode(cmd, node, TRUE)) /\ UNCHANGED errs
Fail == Enter(NextNode(cmd, node, FALSE)) /\ errs' = errs \cup {node}

-----------------------------------------------------------------------------

\* A backup may have left its directories.
Init ==
    /\ cmd = "restore" /\ node = "none" /\ errs = {}
    /\ pending = {} /\ running = {} /\ failed = FALSE /\ created = {}
    /\ local \in [HasRestore -> {"absent", "unrecorded", "recorded", "corrupt"}]
    /\ cyclic \in BOOLEAN
    /\ locked = {} /\ dir \in {{}, {InstanceOf[j] : j \in HasBackup}}
    /\ remote = [j \in HasRestore |-> "none"]
    /\ users = {} /\ orphans = {}
    /\ data = [j \in HasRestore |-> "old"]
    /\ quiet = TRUE /\ fresh = TRUE /\ found = {} /\ runs = 0

\* An operator runs a command: a new process, session and set of ssh users.
Begin(c) ==
    /\ node \in Idle
    /\ runs < MaxRuns
    /\ cmd' = c /\ errs' = {} /\ created' = {}
    /\ node' = StartingNode(c)
    /\ pending' = {} /\ running' = {} /\ failed' = FALSE
    /\ users' = {}
    /\ data' = [j \in HasRestore |-> "old"]
    /\ quiet' = (orphans = {}) /\ fresh' = (locked = {}) /\ found' = dir
    /\ runs' = runs + 1
    /\ UNCHANGED <<local, cyclic, locked, dir, remote, orphans>>

\* ValidateArtifactStep: the backup cannot be opened or read, or Valid finds that
\* an artifact is not as the metadata records it.  What is not recorded passes.
ValidateArtifact ==
    /\ node = "validateArtifact"
    /\ \/ Succeed /\ \A j \in HasRestore : local[j] # "corrupt"
       \/ Fail
    /\ UNCHANGED <<cmd, created, local, deployment, history>>

\* DeploymentManager.Find: when it fails the ssh users made so far are cleaned up,
\* and an error of that clean-up is dropped.  For a director no user is made.
FindDeployment(ok) ==
    users' \in IF Director THEN {{}} ELSE IF ok THEN {Instances} ELSE SUBSET Instances

\* FindDeploymentStep.
Find ==
    /\ node = "find"
    /\ \/ Succeed /\ FindDeployment(TRUE)
       \/ Fail /\ FindDeployment(FALSE)
    /\ UNCHANGED <<cmd, created, local, cyclic, locked, dir, remote, orphans, data, history>>

IsRestorable == AllRestoreable # {}
ValidateLockingDependencies == ~cyclic

\* RestorableStep: discontinued names, no scripts, a backup of another structure,
\* a directory or an instance that cannot be asked for one, a cycle.
Restorable ==
    /\ node = "restorable"
    /\ \/ Succeed /\ IsRestorable /\ dir = {} /\ ValidateLockingDependencies
       \/ Fail
    /\ UNCHANGED <<cmd, created, local, deployment, history>>

-----------------------------------------------------------------------------

\* BackupUploadExecutable.Execute: the artifact is opened and StreamToRemote makes
\* the directory ...
StartUpload(j) ==
    /\ node = "copyToRemote"
    /\ j \in pending
    /\ local[j] # "absent"
    /\ pending' = pending \ {j}
    /\ running' = running \cup {j}
    /\ dir' = dir \cup {InstanceOf[j]}
    /\ remote' = [remote EXCEPT ![j] = "partial"]
    /\ UNCHANGED <<session, node, failed, local, cyclic, locked, users, orphans, data, history>>

\* ... or one of the two fails, the directory being made or not.
StartUploadFails(j) ==
    /\ node = "copyToRemote"
    /\ j \in pending
    /\ pending' = pending \ {j}
    /\ failed' = TRUE
    /\ dir' \in {dir, dir \cup {InstanceOf[j]}}
    /\ UNCHANGED <<session, node, running, local, cyclic, locked, remote, users, orphans,
                   data, history>>

\* The stream breaks: the instance is not marked.
StreamFails(j) ==
    /\ node = "copyToRemote"
    /\ j \in running
    /\ running' = running \ {j}
    /\ failed' = TRUE
    /\ UNCHANGED <<session, node, pending, local, deployment, history>>

\* A plausible bug: an artifact without a checksum is not compared.
ChecksumsMatchIfAny(j, eof) == local[j] = "unrecorded" \/ (~eof /\ remote'[j] = "whole")

\* FetchChecksum returns nil for an artifact that is not recorded, which matches
\* only the empty output of a session that ended in io.EOF.
ChecksumsMatch(j, eof) == IF eof THEN local[j] = "unrecorded" ELSE remote'[j] = "whole"

\* The stream ends, with all of the artifact or, its session ended by io.EOF, not;
\* the instance is marked and the checksums are compared, if they can be had.
EndUpload(j) ==
    /\ node = "copyToRemote"
    /\ j \in running
    /\ running' = running \ {j}
    /\ created' = created \cup {InstanceOf[j]}
    /\ \/ UNCHANGED remote
       \/ local[j] = "recorded" /\ remote' = [remote EXCEPT ![j] = "whole"]
    /\ \E eof \in BOOLEAN :
          /\ failed' \in {failed \/ ~ChecksumsMatch(j, eof), TRUE}
          /\ quiet' = (quiet /\ ~eof)
    /\ UNCHANGED <<cmd, errs, node, pending, local, cyclic, locked, dir, users, orphans,
                   data, fresh, found, runs>>

-----------------------------------------------------------------------------

\* Must k's script end before j's begins?  Batches in order for locking, in
\* reverse order for unlocking.
Earlier(k, j) ==
    \/ node = "preRestoreLock" /\ Level[k] < Level[j]
    \/ node = "postRestoreUnlock" /\ Level[k] > Level[j]

\* The instance whose restore scripts are being run, if there is one.
Current == {InstanceOf[j] : j \in HasRestore \ pending} \cap {InstanceOf[j] : j \in pending}

\* A plausible bug: a failing instance does not stop the loop.
RestoreMayRunAlways(j) == Current \subseteq {InstanceOf[j]}

\* instances.Restore and DeployedInstance.Restore: instance after instance, all of
\* the jobs of one, and no further instance after one that failed.
RestoreMayRun(j) == Current \subseteq {InstanceOf[j]} /\ (failed => Current # {})

\* The serial executor, or the loop of the restore step, runs the script of j.
StartScript(j) ==
    /\ node \in ScriptSteps
    /\ running = {}
    /\ j \in pending
    /\ \A k \in pending : ~Earlier(k, j)
    /\ node = "restore" => RestoreMayRun(j)
    /\ pending' = pending \ {j}
    /\ running' = {j}
    /\ data' = IF node = "restore" THEN [data EXCEPT ![j] = "mixed"] ELSE data
    /\ UNCHANGED <<session, node, failed, local, cyclic, locked, dir, remote, users, orphans, history>>

\* What a script of a kind does to its job when it runs to its end.
Effect(kind, j) ==
    CASE kind = "lock"    -> locked' = locked \cup {j} /\ UNCHANGED data
      [] kind = "unlock"  -> locked' = locked \ {j} /\ UNCHANGED data
      [] kind = "restore" -> data' = [data EXCEPT ![j] = "new"] /\ UNCHANGED locked
NoEffect == UNCHANGED <<locked, data>>

\* The script of j ends: in success, or in failure with or without its effect.
EndScript(j) ==
    /\ node \in ScriptSteps
    /\ j \in running
    /\ running' = running \ {j}
    /\ \/ Effect(Kind(node), j) /\ UNCHANGED failed
       \/ (Effect(Kind(node), j) \/ NoEffect) /\ failed' = TRUE
    /\ UNCHANGED <<session, node, pending, local, cyclic, dir, remote, users, orphans, history>>

\* The connection is lost and the script runs on: an error for bbr, unless the
\* session ended in io.EOF.
LoseScript(j) ==
    /\ node \in ScriptSteps
    /\ j \in running
    /\ Cardinality(orphans) < MaxOrphans
    /\ running' = running \ {j}
    /\ failed' \in {failed, TRUE}
    /\ orphans' = orphans \cup {<<Kind(node), j>>}
    /\ quiet' = FALSE
    /\ UNCHANGED <<session, node, pending, local, cyclic, locked, dir, remote, users,
                   data, fresh, found, runs>>

\* A script nobody waits for ends.
EndOrphan(kind, j) ==
    /\ <<kind, j>> \in orphans
    /\ orphans' = orphans \ {<<kind, j>>}
    /\ Effect(kind, j) \/ NoEffect
    /\ UNCHANGED <<session, node, work, local, cyclic, dir, remote, users, history>>

-----------------------------------------------------------------------------

\* A plausible bug: restore-cleanup, too, removes only what its own session made.
RemovesOnlyCreated(i) == i \in created

\* cleanup removes what this session marked; cleanupPrevious whatever is there.
Removes(i) == node = "cleanupPrevious" \/ i \in created

\* RemoveArtifactDir of instance i, done or not.
RemoveArtifactDir(i, removed) ==
    /\ dir' = IF removed THEN dir \ {i} ELSE dir
    /\ remote' = [j \in HasRestore |-> IF removed /\ InstanceOf[j] = i THEN "none" ELSE remote[j]]

\* Cleanup and CleanupPrevious of an instance: the artifact directory, then, unless
\* it is a director, the ssh user.  What was done may still be answered by an
\* error, and what was not, by io.EOF, passes for done.
CleanInstance(i) ==
    /\ node \in {"cleanup", "cleanupPrevious"}
    /\ i \in pending
    /\ pending' = pending \ {i}
    /\ \E removed, eof, loggedOut \in BOOLEAN :
          /\ removed \/ eof => Removes(i)
          /\ RemoveArtifactDir(i, removed)
          /\ Director => loggedOut
          /\ users' = IF loggedOut THEN users \ {i} ELSE users
          /\ failed' \in {failed \/ (Removes(i) /\ ~removed /\ ~eof) \/ ~loggedOut} \cup
                         (IF Director /\ ~Removes(i) THEN {} ELSE {TRUE})
          /\ quiet' = (quiet /\ ~eof)
    /\ UNCHANGED <<session, node, running, local, cyclic, locked, orphans, data,
                   fresh, found, runs>>

\* A plausible bug: the errors of a step are dropped on the way to the workflow.
ReturnErrorsNot == Enter(NextNode(cmd, node, ~failed)) /\ UNCHANGED errs

\* ConvertErrors: what failed in the step becomes its error, nothing becomes nil.
ReturnErrors == IF failed THEN Fail ELSE Succeed

\* The executor, or the loop over the instances, is done and the step returns; the
\* restore step may do so with instances not come to.
CopyToRemoteStep == node = "copyToRemote" /\ pending = {} /\ ReturnErrors
PreRestoreLockStep == node = "preRestoreLock" /\ pending = {} /\ ReturnErrors
RestoreStep == node = "restore" /\ (pending = {} \/ (failed /\ Current = {})) /\ ReturnErrors
PostRestoreUnlockStep == node = "postRestoreUnlock" /\ pending = {} /\ ReturnErrors
CleanupStep == node = "cleanup" /\ pending = {} /\ ReturnErrors
CleanupPreviousStep == node = "cleanupPrevious" /\ pending = {} /\ ReturnErrors

FinishStep ==
    /\ running = {}
    /\ \/ CopyToRemoteStep \/ PreRestoreLockStep \/ RestoreStep \/ PostRestoreUnlockStep
       \/ CleanupStep \/ CleanupPreviousStep
    /\ UNCHANGED <<cmd, created, local, deployment, history>>

\* os.Exit in trapSigint, or the process is killed.  An upload ends with it.
Exit ==
    /\ node \in StepsOf(cmd)
    /\ node' = "exited"
    /\ pending' = {} /\ running' = {}
    /\ IF node \in ScriptSteps
       THEN /\ orphans' = orphans \cup {<<Kind(node), j>> : j \in running}
            /\ quiet' = (quiet /\ running = {})
       ELSE UNCHANGED <<orphans, quiet>>
    /\ UNCHANGED <<session, failed, local, cyclic, locked, dir, remote, users, data,
                   fresh, found, runs>>

Step ==
    \/ ValidateArtifact \/ Find \/ Restorable \/ FinishStep
    \/ \E j \in HasRestore :
           StartUpload(j) \/ StartUploadFails(j) \/ StreamFails(j) \/ EndUpload(j)
    \/ \E j \in Jobs : StartScript(j) \/ EndScript(j) \/ LoseScript(j)
    \/ \E i \in Instances : CleanInstance(i)

Next ==
    \/ Step
    \/ \E c \in RestoreCommands : Begin(c)
    \/ \E kind \in Kinds, j \in Jobs : EndOrphan(kind, j)
    \/ Exit

\* Assumed: every remote command returns, with an answer or an error.
Spec == Init /\ [][Next]_vars /\ WF_vars(Step)

-----------------------------------------------------------------------------

\* Every variable has its type; the work of a step is of the step's kind.
TypeOK ==
    /\ cmd \in RestoreCommands
    /\ node \in StepsOf(cmd) \cup Idle
    /\ errs \in SUBSET StepsOf(cmd)
    /\ pending \in SUBSET Jobs \/ pending \in SUBSET Instances
    /\ running \in SUBSET Jobs /\ failed \in BOOLEAN
    /\ running # {} => node \in ScriptSteps \cup {"copyToRemote"}
    /\ created \in SUBSET Instances
    /\ local \in [HasRestore -> {"absent", "unrecorded", "recorded", "corrupt"}]
    /\ cyclic \in BOOLEAN
    /\ locked \in SUBSET Jobs /\ dir \in SUBSET Instances
    /\ remote \in [HasRestore -> {"none", "partial", "whole"}]
    /\ users \in SUBSET Instances
    /\ orphans \in SUBSET (Kinds \X Jobs)
    /\ data \in [HasRestore -> {"old", "mixed", "new"}]
    /\ quiet \in BOOLEAN /\ fresh \in BOOLEAN /\ found \in SUBSET Instances
    /\ runs \in Nat

\* A restore script, which overwrites its job's data, runs only while every lock
\* script of the deployment is done.  Only an orphan can undo that.
RestoreWhileLocked ==
    node = "restore" /\ running # {} /\ quiet => HasLock \subseteq locked

\* Before the first lock or restore script runs, every artifact of the restore is
\* on its instance, equal to what the backup's metadata records of it: one that is
\* not recorded, not there or damaged on the way keeps all of them from running.
AllVerifiedFirst ==
    node \in {"preRestoreLock", "restore"} /\ quiet =>
        \A j \in HasRestore : local[j] = "recorded" /\ remote[j] = "whole"

\* A restore that ends without an error has restored every job and left nothing
\* behind, if no session ended in io.EOF.
SuccessMeansRestored ==
    cmd = "restore" /\ node = "end" /\ errs = {} =>
        /\ users = {}
        /\ quiet => dir = {} /\ \A j \in HasRestore : data[j] = "new"
        /\ quiet /\ fresh => locked \cap HasUnlock = {}

\* However a restore ends, killed included, the data of one instance at most are in
\* between: once a script failed, no other instance is begun with.
AtMostOneInstanceMixed ==
    quiet => \A j, k \in HasRestore :
        data[j] = "mixed" /\ data[k] = "mixed" => InstanceOf[j] = InstanceOf[k]

\* A directory left by an earlier command is never removed by restore.
LeftoverDirectoriesKept == cmd = "restore" => found \subseteq dir

\* Wherever an earlier command was interrupted, a restore-cleanup that ends without
\* an error leaves every job unlocked that can be and no directory, orphans apart.
RestoreCleanupRestores ==
    cmd = "restore-cleanup" /\ node = "end" /\ errs = {} /\ quiet =>
        locked \cap HasUnlock = {} /\ dir = {}


Engine == INSTANCE WorkflowRun WITH workflow <- cmd, Commands <- RestoreCommands

\* The two commands go through their steps as Workflow.Run does, and each step
\* returns, whatever uploads and scripts fail in it.
FollowsWorkflow == Engine!Spec

=============================================================================
