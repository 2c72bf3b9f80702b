------------------------------ MODULE BackupRun ------------------------------
(***************************************************************************)
(* bbr backup, backup-cleanup and pre-backup-check against one deployment: *)
(* the steps of the three workflows, the scripts they run on the           *)
(* deployment's jobs, the artifact directories and ssh users they leave on *)
(* its instances and the local backup they make.  Commands are run one     *)
(* after the other; the process may be made to exit at any point, and a    *)
(* script whose connection or whose bbr process is gone may still be       *)
(* running on its instance (an orphan).                                    *)
(*                                                                         *)
(* The batches of a step are run as module BatchRun promises: the jobs of  *)
(* one batch in any interleaving, the next batch when they are done, a     *)
(* failure stopping nothing.  A job without the script of a step is done   *)
(* at once and is left out of the step's work.                             *)
(***************************************************************************)
EXTENDS Workflows, Naturals, FiniteSets

CONSTANTS
    Instances,    \* the instances FindInstances returns
    Jobs,         \* their jobs
    InstanceOf,   \* job -> its instance
    HasLock,      \* jobs with a pre-backup-lock script
    HasUnlock,    \* jobs with a post-backup-unlock script
    HasBackup,    \* jobs with a backup script
    HasRestore,   \* jobs with a restore script
    LockBefore,   \* the dependencies <<k, j>>: k is to be locked before j
    Level,        \* job -> its batch in the order KahnLockOrderer returns
    MaxRuns,      \* bound: the number of commands run
    MaxOrphans    \* bound: no further connection is lost with so many orphans

\* Level comes from KahnLockOrderer, of which module KahnLockOrdererProofs proves
\* that it orders every dependency (OrderIsSound).
ASSUME DeploymentAssumption ==
    /\ InstanceOf \in [Jobs -> Instances]
    /\ HasLock \subseteq Jobs
    /\ HasUnlock \subseteq Jobs
    /\ HasBackup \subseteq Jobs
    /\ HasRestore \subseteq Jobs
    /\ LockBefore \subseteq Jobs \X Jobs
    /\ Level \in [Jobs -> Nat]
    /\ \A d \in LockBefore : Level[d[1]] < Level[d[2]]
    /\ MaxRuns \in Nat /\ MaxOrphans \in Nat

VARIABLES
    \* the bbr process
    cmd,       \* the command
    unsafe,    \* was it given --unsafe-lock-free?
    node,      \* the current step of its workflow
    errs,      \* the errors collected, by step; "artifactDir" for an ArtifactDirError
    pending,   \* jobs (or instances) the current step has not come to yet
    running,   \* jobs whose script the current step is running
    failed,    \* has anything failed in the current step?
    created,   \* instances marked artifactDirCreated
    artifact,  \* does the session have a local artifact?
    \* the deployment
    cyclic,    \* is its lock dependency graph cyclic?
    locked,    \* jobs locked by their lock script
    dir,       \* instances with an artifact directory
    remote,    \* job -> the artifact in that directory: "none", "partial" or "whole"
    users,     \* instances with the ssh user of the current command
    orphans,   \* <<kind, job>>: scripts running without bbr waiting for them
    \* the local backup
    metadata,  \* "none", "started" or "finished"
    local,     \* job -> its artifact, once its checksum is in the metadata
    \* history, for the properties and the bound
    quiet,     \* since the command began, has no orphan been running, and no ssh
               \* session ended in io.EOF, which runInSession takes for success?
    fresh,     \* was no job locked when it began?
    found,     \* the instances that had an artifact directory when it began
    runs       \* commands begun

session == <<cmd, unsafe, errs, created, artifact>>
work == <<pending, running, failed>>
deployment == <<cyclic, locked, dir, remote, users, orphans>>
backup == <<metadata, local>>
history == <<quiet, fresh, found, runs>>
vars == <<session, node, work, deployment, backup, history>>

-----------------------------------------------------------------------------

BackupCommands == {"backup", "backup-cleanup", "pre-backup-check"}
Idle == {"none", "end", "exited"}
UnlockSteps == {"unlockAfterSuccessfulBackup", "unlockAfterFailedBackup", "postBackupUnlock"}

BackupableInstances == {InstanceOf[j] : j \in HasBackup}
BackupableOrRestorable == {InstanceOf[j] : j \in HasBackup \cup HasRestore}

\* The scripts a step runs, and the kind an orphan of it is.
Kind(n) == IF n \in UnlockSteps THEN "unlock" ELSE n
Kinds == {"lock", "backup", "unlock"}
ScriptSteps == {"lock", "backup"} \cup UnlockSteps

\* The step orders the jobs, and so fails at once on a cyclic graph.
Ordered(n) == ~unsafe /\ n \in {"lock"} \cup UnlockSteps

\* What the deployment gives its executor, or the loop over its instances: every
\* job whose script it is to run, if they can be ordered, ...
newJobExecutables(jobs) == IF cyclic THEN {} ELSE jobs
PreBackupLock == newJobExecutables(HasLock)
PostBackupUnlock == newJobExecutables(HasUnlock)
\* ... the jobs of the backupable instances and their artifacts, in one batch, ...
Backup == {j \in HasBackup : InstanceOf[j] \in BackupableInstances}
DownloadBackupFromDeployment == {j \in HasBackup : InstanceOf[j] \in BackupableInstances}
\* ... or instances.
Cleanup == Instances
CleanupPrevious == BackupableOrRestorable

\* With --unsafe-lock-free the steps that lock and unlock do nothing.
SkipStep == {}

\* What a step has to do, one executable or instance at a time.
Work(n) ==
    CASE n = "lock"            -> IF unsafe THEN SkipStep ELSE PreBackupLock
      [] n \in UnlockSteps     -> IF unsafe THEN SkipStep ELSE PostBackupUnlock
      [] n = "backup"          -> Backup
      [] n = "drain"           -> DownloadBackupFromDeployment
      [] n = "cleanup"         -> Cleanup
      [] n = "cleanupPrevious" -> CleanupPrevious
      [] OTHER                 -> {}

LoopSteps == ScriptSteps \cup {"drain", "cleanup", "cleanupPrevious"}

\* deployment.Backup marks its instances before it runs a script.
MarkArtifactDirCreated(n) ==
    IF n = "backup" THEN created \cup BackupableInstances ELSE created

Enter(n) ==
    /\ node' = n
    /\ pending' = Work(n)
    /\ running' = {}
    /\ failed' = (Ordered(n) /\ cyclic)
    /\ created' = MarkArtifactDirCreated(n)

\* The current step returns nil, or the error e.
Succeed == Enter(NextNode(cmd, node, TRUE)) /\ UNCHANGED errs
Fail(e) == Enter(NextNode(cmd, node, FALSE)) /\ errs' = errs \cup {e}

-----------------------------------------------------------------------------

Init ==
    /\ cmd = "backup" /\ unsafe = FALSE /\ node = "none" /\ errs = {}
    /\ pending = {} /\ running = {} /\ failed = FALSE
    /\ created = {} /\ artifact = FALSE
    /\ cyclic \in BOOLEAN
    /\ locked = {} /\ dir = {} /\ remote = [j \in Jobs |-> "none"]
    /\ users = {} /\ orphans = {}
    /\ metadata = "none" /\ local = [j \in Jobs |-> "none"]
    /\ quiet = TRUE /\ fresh = TRUE /\ found = {} /\ runs = 0

\* An operator runs a command: a new process, session and set of ssh users.
Begin(c, lockFree) ==
    /\ node \in Idle
    /\ runs < MaxRuns
    /\ lockFree => c = "backup"
    /\ cmd' = c /\ unsafe' = lockFree /\ errs' = {}
    /\ node' = StartingNode(c)
    /\ pending' = {} /\ running' = {} /\ failed' = FALSE
    /\ created' = {} /\ artifact' = FALSE
    /\ users' = {}
    /\ metadata' = "none" /\ local' = [j \in Jobs |-> "none"]
    /\ quiet' = (orphans = {}) /\ fresh' = (locked = {}) /\ found' = dir
    /\ runs' = runs + 1
    /\ UNCHANGED <<cyclic, locked, dir, remote, orphans>>

\* DeploymentManager.Find: when it fails the ssh users made so far are cleaned up,
\* and an error of that clean-up is dropped.
FindDeployment(ok) == users' \in IF ok THEN {Instances} ELSE SUBSET Instances

\* FindDeploymentStep.
Find ==
    /\ node = "find"
    /\ \/ Succeed /\ FindDeployment(TRUE)
       \/ Fail("find") /\ FindDeployment(FALSE)
    /\ UNCHANGED <<cmd, unsafe, artifact, cyclic, locked, dir, remote, orphans, backup, history>>

IsBackupable == BackupableInstances # {}
ValidateLockingDependencies == ~cyclic

\* The answers of an instance asked for its directory: an error, or a session ended
\* by io.EOF, counts as one that is there.
ArtifactDirExists(i) == {i \in dir} \cup {TRUE}

\* May the deployment pass, may it fail?
CheckArtifactDir == {passes \in BOOLEAN : passes => \A i \in Instances : FALSE \in ArtifactDirExists(i)}

\* BackupableStep: the scripts, the directories, the lock dependencies.
Backupable ==
    /\ node = "backupable"
    /\ \/ ~IsBackupable /\ Fail("backupable")
       \/ IsBackupable /\ FALSE \in CheckArtifactDir /\ Fail("artifactDir")
       \/ /\ IsBackupable /\ TRUE \in CheckArtifactDir
          /\ IF ValidateLockingDependencies THEN Succeed ELSE Fail("backupable")
    /\ UNCHANGED <<cmd, unsafe, artifact, deployment, backup, history>>

\* The manifest is asked of the director and written; either may fail.
SaveManifest == Succeed \/ Fail("createArtifact")

\* CreateArtifactStep: Create may fail; once it has not, an error writing the
\* metadata file is ignored and an error saving the manifest is not.
CreateArtifact ==
    /\ node = "createArtifact"
    /\ \/ Fail("createArtifact") /\ UNCHANGED <<artifact, metadata>>
       \/ artifact' = TRUE /\ metadata' \in {"none", "started"} /\ SaveManifest
    /\ UNCHANGED <<cmd, unsafe, deployment, local, history>>

-----------------------------------------------------------------------------

\* A plausible bug: the unlock scripts run in the order of the lock scripts.
EarlierUnreversed(k, j) == node \in {"lock"} \cup UnlockSteps /\ Level[k] < Level[j]

\* Must k's script end before j's begins?  Batches in order for locking, in
\* reverse order for unlocking; the backup scripts are one batch.
Earlier(k, j) ==
    \/ node = "lock" /\ Level[k] < Level[j]
    \/ node \in UnlockSteps /\ Level[k] > Level[j]

\* The executor runs the script of j.  A backup script gets its directory first.
StartScript(j) ==
    /\ node \in ScriptSteps
    /\ j \in pending
    /\ \A k \in pending \cup running : ~Earlier(k, j)
    /\ pending' = pending \ {j}
    /\ running' = running \cup {j}
    /\ IF node = "backup"
       THEN /\ dir' = dir \cup {InstanceOf[j]}
            /\ remote' = [remote EXCEPT ![j] = "partial"]
       ELSE UNCHANGED <<dir, remote>>
    /\ UNCHANGED <<session, node, failed, cyclic, locked, users, orphans, backup, history>>

\* Job.Backup returns early when the directory cannot be made, or when the
\* answer is lost.
CreateDirectoryFails(j) ==
    /\ node = "backup"
    /\ j \in pending
    /\ pending' = pending \ {j}
    /\ failed' = TRUE
    /\ dir' \in {dir, dir \cup {InstanceOf[j]}}
    /\ UNCHANGED <<session, node, running, cyclic, locked, remote, users, orphans, backup, history>>

\* What a script of a kind does to its job when it runs to its end.
Effect(kind, j) ==
    CASE kind = "lock"   -> locked' = locked \cup {j} /\ UNCHANGED remote
      [] kind = "unlock" -> locked' = locked \ {j} /\ UNCHANGED remote
      [] kind = "backup" -> remote' = [remote EXCEPT ![j] = "whole"] /\ UNCHANGED locked
NoEffect == UNCHANGED <<locked, remote>>

\* The script of j ends: in success, or in failure with or without its effect.
EndScript(j) ==
    /\ j \in running
    /\ running' = running \ {j}
    /\ \/ Effect(Kind(node), j) /\ UNCHANGED failed
       \/ (Effect(Kind(node), j) \/ NoEffect) /\ failed' = TRUE
    /\ UNCHANGED <<session, node, pending, cyclic, dir, users, orphans, backup, history>>

\* The connection is lost and the script runs on: an error for bbr, unless the
\* session ended in io.EOF.
LoseScript(j) ==
    /\ j \in running
    /\ Cardinality(orphans) < MaxOrphans
    /\ running' = running \ {j}
    /\ failed' \in {failed, TRUE}
    /\ orphans' = orphans \cup {<<Kind(node), j>>}
    /\ quiet' = FALSE
    /\ UNCHANGED <<session, node, pending, cyclic, locked, dir, remote, users, backup,
                   fresh, found, runs>>

\* A script nobody waits for ends; one of backup may make its directory again.
EndOrphan(kind, j) ==
    /\ <<kind, j>> \in orphans
    /\ orphans' = orphans \ {<<kind, j>>}
    /\ \/ NoEffect /\ UNCHANGED dir
       \/ /\ Effect(kind, j)
          /\ dir' = IF kind = "backup" THEN dir \cup {InstanceOf[j]} ELSE dir
    /\ UNCHANGED <<session, node, work, cyclic, users, backup, history>>

-----------------------------------------------------------------------------

\* The metadata file is not read, or metadata.save fails: the file is as it was, or cut
\* short, and has lost some of its records or is not even readable.
SaveFails ==
    \/ UNCHANGED <<metadata, local>>
    \/ /\ metadata # "none"
       /\ \/ metadata' = "none" /\ local' = [j \in Jobs |-> "none"]
          \/ /\ metadata' = "started"
             /\ local' \in {[j \in Jobs |-> IF j \in kept THEN local[j] ELSE "none"] :
                              kept \in SUBSET Jobs}

\* A plausible bug: an error of the download or of the comparison is dropped.
DrainArtifactUnreported(j) ==
    /\ node = "drain"
    /\ j \in pending
    /\ pending' = pending \ {j}
    /\ \/ UNCHANGED <<local, remote>>
       \/ /\ metadata # "none" /\ InstanceOf[j] \in dir /\ remote[j] # "none"
          /\ local' = [local EXCEPT ![j] = remote[j]]
          /\ remote' = [remote EXCEPT ![j] = "none"]
    /\ UNCHANGED <<session, node, running, failed, cyclic, locked, dir, users, orphans,
                   metadata, history>>

\* BackupDownloadExecutable.Execute: download, compare checksums, record the
\* checksum, delete the remote artifact.  What is copied is what is there; the
\* answer to the deletion says little of what it did.
DrainArtifact(j) ==
    /\ node = "drain"
    /\ j \in pending
    /\ pending' = pending \ {j}
    /\ \/ failed' = TRUE /\ SaveFails /\ UNCHANGED remote
       \/ /\ metadata # "none" /\ InstanceOf[j] \in dir /\ remote[j] # "none"
          /\ local' = [local EXCEPT ![j] = remote[j]]
          /\ remote' \in {remote, [remote EXCEPT ![j] = "none"]}
          /\ failed' \in {failed, TRUE}
          /\ UNCHANGED metadata
    /\ UNCHANGED <<session, node, running, cyclic, locked, dir, users, orphans, history>>

\* A plausible bug: backup-cleanup, too, removes only what its own session made.
RemovesOnlyCreated(i) == i \in created

\* cleanup removes what this session made; cleanupPrevious whatever is there.
Removes(i) == node = "cleanupPrevious" \/ i \in created

\* RemoveArtifactDir and cleanupSSHConnections of instance i, done or not.
RemoveArtifactDir(i, removed) ==
    /\ dir' = IF removed THEN dir \ {i} ELSE dir
    /\ remote' = [j \in Jobs |-> IF removed /\ InstanceOf[j] = i THEN "none" ELSE remote[j]]
cleanupSSHConnections(i, done) == users' = IF done THEN users \ {i} ELSE users

\* A plausible bug: the error of RemoveArtifactDir is dropped.
CleanupFailedSilently(i, removed, eof, loggedOut) == ~loggedOut

\* Has either call failed?
CleanupFailed(i, removed, eof, loggedOut) == (Removes(i) /\ ~removed /\ ~eof) \/ ~loggedOut

\* BoshDeployedInstance.Cleanup and CleanupPrevious: the artifact directory, then
\* the ssh user, whatever the directory did.  What was done may still be answered
\* by an error, and what was not, by io.EOF, passes for done.
CleanInstance(i) ==
    /\ node \in {"cleanup", "cleanupPrevious"}
    /\ i \in pending
    /\ pending' = pending \ {i}
    /\ \E removed, eof, loggedOut \in BOOLEAN :
          /\ removed \/ eof => Removes(i)
          /\ RemoveArtifactDir(i, removed)
          /\ cleanupSSHConnections(i, loggedOut)
          /\ failed' \in {failed \/ CleanupFailed(i, removed, eof, loggedOut), TRUE}
          /\ quiet' = (quiet /\ ~eof)
    /\ UNCHANGED <<session, node, running, cyclic, locked, orphans, backup, fresh, found, runs>>

\* A plausible bug: the errors of a step are dropped on the way to the workflow.
ReturnErrorsNot == Enter(NextNode(cmd, node, ~failed)) /\ UNCHANGED errs

\* ConvertErrors: what failed in the step becomes its error, nothing becomes nil.
ReturnErrors == IF failed THEN Fail(node) ELSE Succeed

\* The executor, or the loop over the instances, is done and the step returns.
LockStep == node = "lock" /\ ReturnErrors
BackupStep == node = "backup" /\ ReturnErrors
PostBackupUnlockStep == node \in UnlockSteps /\ ReturnErrors
DrainStep == node = "drain" /\ ReturnErrors
CleanupStep == node = "cleanup" /\ ReturnErrors
CleanupPreviousStep == node = "cleanupPrevious" /\ ReturnErrors

FinishStep ==
    /\ pending = {} /\ running = {}
    /\ \/ LockStep \/ BackupStep \/ PostBackupUnlockStep \/ DrainStep
       \/ CleanupStep \/ CleanupPreviousStep
    /\ UNCHANGED <<cmd, unsafe, artifact, deployment, backup, history>>

\* AddFinishTimeStep: nothing without an artifact; an error when the metadata
\* cannot be read; an error of the save is ignored.
AddFinishTime ==
    /\ node = "addFinishTime"
    /\ \/ ~artifact /\ Succeed /\ UNCHANGED backup
       \/ artifact /\ Fail("addFinishTime") /\ UNCHANGED backup
       \/ /\ artifact /\ metadata # "none"
          /\ (metadata' = "finished" /\ UNCHANGED local) \/ SaveFails
          /\ Succeed
    /\ UNCHANGED <<cmd, unsafe, artifact, deployment, history>>

\* os.Exit in trapSigint, or the process is killed.
Exit ==
    /\ node \in StepsOf(cmd)
    /\ node' = "exited"
    /\ pending' = {} /\ running' = {}
    /\ orphans' = orphans \cup {<<Kind(node), j>> : j \in running}
    /\ quiet' = (quiet /\ running = {})
    /\ UNCHANGED <<session, failed, cyclic, locked, dir, remote, users, backup,
                   fresh, found, runs>>

Step ==
    \/ Find \/ Backupable \/ CreateArtifact \/ FinishStep \/ AddFinishTime
    \/ \E j \in Jobs :
           StartScript(j) \/ CreateDirectoryFails(j) \/ EndScript(j) \/ LoseScript(j)
               \/ DrainArtifact(j)
    \/ \E i \in Instances : CleanInstance(i)

Next ==
    \/ Step
    \/ \E c \in BackupCommands, lockFree \in BOOLEAN : Begin(c, lockFree)
    \/ \E kind \in Kinds, j \in Jobs : EndOrphan(kind, j)
    \/ Exit

\* Assumed: every remote command returns, with an answer or an error.  An operator
\* need not run a command or interrupt one, and an orphan need not end.
Spec == Init /\ [][Next]_vars /\ WF_vars(Step)

-----------------------------------------------------------------------------

\* Every variable has its type; the work of a step is of the step's kind.
TypeOK ==
    /\ cmd \in BackupCommands /\ unsafe \in BOOLEAN
    /\ node \in StepsOf(cmd) \cup Idle
    /\ errs \in SUBSET (StepsOf(cmd) \cup {"artifactDir"})
    /\ pending \in SUBSET Jobs \/ pending \in SUBSET Instances
    /\ running \in SUBSET Jobs /\ failed \in BOOLEAN
    /\ running # {} => node \in ScriptSteps
    /\ created \in SUBSET Instances /\ artifact \in BOOLEAN
    /\ cyclic \in BOOLEAN
    /\ locked \in SUBSET Jobs /\ dir \in SUBSET Instances
    /\ remote \in [Jobs -> {"none", "partial", "whole"}]
    /\ users \in SUBSET Instances
    /\ orphans \in SUBSET (Kinds \X Jobs)
    /\ metadata \in {"none", "started", "finished"}
    /\ local \in [Jobs -> {"none", "partial", "whole"}]
    /\ quiet \in BOOLEAN /\ fresh \in BOOLEAN /\ found \in SUBSET Instances
    /\ runs \in Nat

\* Each backup script runs with every lock script of the deployment done: no job's
\* data is copied while another part of the deployment still changes.  Only an
\* orphan of an unlock script, still running from before, can undo that.
BackupWhileLocked ==
    node = "backup" /\ running # {} /\ ~unsafe /\ quiet => HasLock \subseteq locked

\* Between a job's lock script and its unlock script the jobs it must be locked
\* after are locked too, and stay so until its unlock script is done: locking in
\* order and unlocking in reverse order nest, until the first failure.  A script
\* under way may or may not have had its effect.
LockNesting ==
    cmd = "backup" /\ quiet /\ fresh /\ errs = {} /\ ~failed =>
        \A d \in LockBefore :
            LET maybeLocked == d[2] \in locked \/ (node = "lock" /\ d[2] \in running)
                surelyLocked == d[1] \in locked /\ ~(node \in UnlockSteps /\ d[1] \in running)
            IN  maybeLocked /\ d[1] \in HasLock /\ d[2] \in HasUnlock => surelyLocked

\* ContainsUnlockOrCleanupOrArtifactDirExists: is the operator told to run
\* backup-cleanup?
AdvisesCleanup == errs \cap (UnlockSteps \cup {"cleanup", "artifactDir", "drain"}) # {}

\* Whatever a backup leaves on the deployment, a locked job, an artifact directory
\* or an ssh user, is told: the command then ends with the notice that
\* backup-cleanup should be run.
LeftoversAreReported ==
    cmd = "backup" /\ node = "end" /\ quiet /\ fresh /\ found = {} /\ "find" \notin errs =>
        (locked \cap HasUnlock # {} \/ dir # {} \/ users # {} => AdvisesCleanup)

\* A backup that ends without an error has left nothing behind on the deployment
\* and, once its finish time is saved, has every artifact, whole, verified and with
\* its checksum recorded, if no session ended in io.EOF.  (AddFinishTime drops the
\* error of that save, so that the records can be lost without an error.)
SuccessMeansComplete ==
    cmd = "backup" /\ node = "end" /\ errs = {} =>
        /\ users = {}
        /\ quiet => dir = {}
        /\ quiet /\ metadata = "finished" => \A j \in HasBackup : local[j] = "whole"
        /\ quiet /\ fresh => locked \cap HasUnlock = {}

\* That io.EOF at the end of a session "is okay", as runInSession has it: a backup
\* that ends without an error, and whose finish time is saved, is whole, however
\* its sessions ended.
EofIsOkay ==
    cmd = "backup" /\ node = "end" /\ errs = {} /\ metadata = "finished" =>
        \A j \in HasBackup : local[j] = "whole"

\* A directory left by an earlier command, which may hold its artifacts, is never
\* removed by backup or pre-backup-check: only backup-cleanup does that.
LeftoverDirectoriesKept == cmd # "backup-cleanup" => found \subseteq dir

\* Wherever an earlier command was interrupted, a backup-cleanup that ends without
\* an error leaves every job unlocked that can be and no directory that would make
\* the next backup's pre-check refuse, orphans apart.
CleanupRestores ==
    cmd = "backup-cleanup" /\ node = "end" /\ errs = {} /\ quiet =>
        locked \cap HasUnlock = {} /\ dir = {}

Engine == INSTANCE WorkflowRun WITH
    workflow <- cmd,
    errs <- {IF e = "artifactDir" THEN "backupable" ELSE e : e \in errs},
    Commands <- BackupCommands

\* The three commands go through their steps as Workflow.Run does: each step
\* decides by its error alone where the run goes, and each step returns, so that
\* what WorkflowRun shows of a run (that it ends, that it unlocks and cleans up) is
\* true of the commands.
FollowsWorkflow == Engine!Spec

=============================================================================
