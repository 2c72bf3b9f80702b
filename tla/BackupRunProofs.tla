--------------------------- MODULE BackupRunProofs ---------------------------
(***************************************************************************)
(* Proofs about module BackupRun, for every deployment: any instances and  *)
(* jobs, any set of scripts, any lock order KahnLockOrderer may return and *)
(* any number of commands and interruptions.                               *)
(***************************************************************************)
EXTENDS BackupRun, TLAPS

\* A step of a workflow leads to a step of the same workflow, or ends it.
LEMMA NextNodeType ==
    ASSUME NEW c \in BackupCommands, NEW n \in StepsOf(c), NEW ok \in BOOLEAN
    PROVE  NextNode(c, n, ok) \in StepsOf(c) \cup {"end"}
  <1>1. CASE c = "backup"
    BY <1>1 DEF NextNode, StepsOf, BackuperOnSuccess, BackuperOnFailure
  <1>2. CASE c = "backup-cleanup"
    BY <1>2 DEF NextNode, StepsOf, BackupCleanerOnSuccess, BackupCleanerOnFailure
  <1>3. CASE c = "pre-backup-check"
    BY <1>3 DEF NextNode, StepsOf, BackupCheckerOnSuccess, BackupCheckerOnFailure
  <1> QED
    BY <1>1, <1>2, <1>3 DEF BackupCommands

\* The work of a step is a set of jobs or of instances.
LEMMA WorkType ==
    ASSUME NEW n
    PROVE  Work(n) \in SUBSET Jobs \/ Work(n) \in SUBSET Instances
  BY DeploymentAssumption DEF Work, BackupableOrRestorable, PreBackupLock, PostBackupUnlock,
     newJobExecutables, Backup, DownloadBackupFromDeployment, Cleanup, CleanupPrevious, SkipStep

\* The names a workflow's steps go by.
LEMMA StepNames ==
    ASSUME NEW c \in BackupCommands
    PROVE  /\ "none" \notin StepsOf(c) /\ "end" \notin StepsOf(c) /\ "exited" \notin StepsOf(c)
           /\ StartingNode(c) \in StepsOf(c)
           /\ "find" \in StepsOf(c)
           /\ StartingNode(c) = "find"
  BY DEF BackupCommands, StepsOf, StartingNode

\* The initial states are well typed.
LEMMA InitType == Init => TypeOK
  <1> SUFFICES ASSUME Init PROVE TypeOK
    OBVIOUS
  <1>1. /\ cmd \in BackupCommands /\ unsafe \in BOOLEAN
        /\ node \in StepsOf(cmd) \cup Idle
        /\ running \in SUBSET Jobs /\ running = {} /\ failed \in BOOLEAN
    BY DEF Init, BackupCommands, Idle
  <1>2. /\ errs \in SUBSET (StepsOf(cmd) \cup {"artifactDir"})
        /\ pending \in SUBSET Jobs
        /\ created \in SUBSET Instances /\ locked \in SUBSET Jobs /\ dir \in SUBSET Instances
        /\ users \in SUBSET Instances /\ orphans \in SUBSET (Kinds \X Jobs)
        /\ found \in SUBSET Instances
    BY DEF Init
  <1>3. /\ artifact \in BOOLEAN /\ cyclic \in BOOLEAN
        /\ quiet \in BOOLEAN /\ fresh \in BOOLEAN /\ runs \in Nat
        /\ metadata \in {"none", "started", "finished"}
    BY DEF Init
  <1>4. /\ remote \in [Jobs -> {"none", "partial", "whole"}]
        /\ local \in [Jobs -> {"none", "partial", "whole"}]
    BY DEF Init
  <1> QED
    BY <1>1, <1>2, <1>3, <1>4 DEF TypeOK

\* Entering a step preserves the types of what it sets.
LEMMA EnterType ==
    ASSUME TypeOK, NEW n, n \in StepsOf(cmd) \cup Idle, Enter(n)
    PROVE  /\ node' \in StepsOf(cmd) \cup Idle
           /\ pending' \in SUBSET Jobs \/ pending' \in SUBSET Instances
           /\ running' = {}
           /\ failed' \in BOOLEAN
           /\ created' \in SUBSET Instances
  BY WorkType, DeploymentAssumption
     DEF TypeOK, Enter, MarkArtifactDirCreated, BackupableInstances

\* So does the return of a step, with or without an error.
LEMMA ReturnType ==
    ASSUME TypeOK, node \in StepsOf(cmd),
           \/ Succeed
           \/ \E e \in StepsOf(cmd) \cup {"artifactDir"} : Fail(e)
    PROVE  /\ node' \in StepsOf(cmd) \cup Idle
           /\ pending' \in SUBSET Jobs \/ pending' \in SUBSET Instances
           /\ running' = {}
           /\ failed' \in BOOLEAN
           /\ created' \in SUBSET Instances
           /\ errs' \in SUBSET (StepsOf(cmd) \cup {"artifactDir"})
  <1>1. \A ok \in BOOLEAN : NextNode(cmd, node, ok) \in StepsOf(cmd) \cup Idle
    BY NextNodeType DEF TypeOK, Idle
  <1>2. CASE Succeed
    BY <1>1, <1>2, EnterType DEF Succeed, TypeOK
  <1>3. CASE \E e \in StepsOf(cmd) \cup {"artifactDir"} : Fail(e)
    BY <1>1, <1>3, EnterType DEF Fail, TypeOK
  <1> QED
    BY <1>2, <1>3

\* What a script does to a job keeps the types of the deployment.
LEMMA EffectType ==
    ASSUME TypeOK, NEW kind \in Kinds, NEW j \in Jobs, Effect(kind, j) \/ NoEffect
    PROVE  /\ locked' \in SUBSET Jobs
           /\ remote' \in [Jobs -> {"none", "partial", "whole"}]
  <1>1. CASE NoEffect
    BY <1>1 DEF NoEffect, TypeOK
  <1>2. CASE Effect(kind, j)
    BY <1>2 DEF Effect, Kinds, TypeOK
  <1> QED
    BY <1>1, <1>2

\* A step with a loop returns when the loop is done, by its errors.
LEMMA FinishStepReturns ==
    ASSUME TypeOK, FinishStep
    PROVE  /\ node \in StepsOf(cmd) /\ node \in LoopSteps
           /\ pending = {} /\ running = {}
           /\ IF failed THEN Fail(node) ELSE Succeed
           /\ UNCHANGED <<cmd, unsafe, artifact, deployment, backup, history>>
  <1>1. node \in LoopSteps /\ ReturnErrors
    BY DEF FinishStep, LockStep, BackupStep, PostBackupUnlockStep, DrainStep, CleanupStep,
           CleanupPreviousStep, LoopSteps, ScriptSteps
  <1>2. node \in StepsOf(cmd)
    BY <1>1 DEF TypeOK, Idle, LoopSteps, ScriptSteps, UnlockSteps
  <1> QED
    BY <1>1, <1>2 DEF FinishStep, ReturnErrors

\* Every step of every command keeps the types.
LEMMA NextType == TypeOK /\ [Next]_vars => TypeOK'
  <1> SUFFICES ASSUME TypeOK, [Next]_vars
               PROVE  TypeOK'
    OBVIOUS
  <1> USE DeploymentAssumption DEF session, work, deployment, backup, history
  <1>0. CASE UNCHANGED vars
    BY <1>0 DEF TypeOK, vars
  <1>1. CASE Find
    <2>1. /\ node \in StepsOf(cmd)
          /\ Succeed \/ \E e \in StepsOf(cmd) \cup {"artifactDir"} : Fail(e)
      BY <1>1, StepNames DEF Find, TypeOK
    <2> QED
      BY <1>1, <2>1, ReturnType DEF Find, FindDeployment, TypeOK
  <1>2. CASE Backupable
    <2>1. /\ node \in StepsOf(cmd)
          /\ Succeed \/ \E e \in StepsOf(cmd) \cup {"artifactDir"} : Fail(e)
      BY <1>2 DEF Backupable, TypeOK, Idle
    <2> QED
      BY <1>2, <2>1, ReturnType DEF Backupable, TypeOK
  <1>3. CASE CreateArtifact
    <2>1. /\ node \in StepsOf(cmd)
          /\ Succeed \/ \E e \in StepsOf(cmd) \cup {"artifactDir"} : Fail(e)
      BY <1>3 DEF CreateArtifact, SaveManifest, TypeOK, Idle
    <2> QED
      BY <1>3, <2>1, ReturnType DEF CreateArtifact, TypeOK
  <1>4. CASE FinishStep
    <2>1. /\ node \in StepsOf(cmd)
          /\ Succeed \/ \E e \in StepsOf(cmd) \cup {"artifactDir"} : Fail(e)
      BY <1>4, FinishStepReturns
    <2> QED
      BY <1>4, <2>1, ReturnType DEF FinishStep, TypeOK
  <1>5. CASE AddFinishTime
    <2>1. /\ node \in StepsOf(cmd)
          /\ Succeed \/ \E e \in StepsOf(cmd) \cup {"artifactDir"} : Fail(e)
      BY <1>5 DEF AddFinishTime, TypeOK, Idle
    <2>2. /\ metadata' \in {"none", "started", "finished"}
          /\ local' \in [Jobs -> {"none", "partial", "whole"}]
      BY <1>5 DEF AddFinishTime, SaveFails, TypeOK
    <2> QED
      BY <1>5, <2>1, <2>2, ReturnType DEF AddFinishTime, TypeOK
  <1>6. ASSUME NEW j \in Jobs, StartScript(j)
        PROVE  TypeOK'
    BY <1>6 DEF StartScript, TypeOK
  <1>7. ASSUME NEW j \in Jobs, CreateDirectoryFails(j)
        PROVE  TypeOK'
    BY <1>7 DEF CreateDirectoryFails, TypeOK
  <1>8. ASSUME NEW j \in Jobs, EndScript(j)
        PROVE  TypeOK'
    <2>1. Kind(node) \in Kinds
      BY <1>8 DEF EndScript, TypeOK, Kind, Kinds, ScriptSteps
    <2>2. /\ locked' \in SUBSET Jobs
          /\ remote' \in [Jobs -> {"none", "partial", "whole"}]
      BY <1>8, <2>1, EffectType DEF EndScript
    <2> QED
      BY <1>8, <2>2 DEF EndScript, TypeOK
  <1>9. ASSUME NEW j \in Jobs, LoseScript(j)
        PROVE  TypeOK'
    <2>1. Kind(node) \in Kinds
      BY <1>9 DEF LoseScript, TypeOK, Kind, Kinds, ScriptSteps
    <2>2. orphans' \in SUBSET (Kinds \X Jobs)
      BY <1>9, <2>1 DEF LoseScript, TypeOK
    <2>3. running' \in SUBSET Jobs /\ (running' # {} => node \in ScriptSteps)
      BY <1>9 DEF LoseScript, TypeOK
    <2> QED
      BY <1>9, <2>2, <2>3 DEF LoseScript, TypeOK
  <1>10. ASSUME NEW j \in Jobs, DrainArtifact(j)
         PROVE  TypeOK'
    <2>1. /\ metadata' \in {"none", "started", "finished"}
          /\ local' \in [Jobs -> {"none", "partial", "whole"}]
          /\ remote' \in [Jobs -> {"none", "partial", "whole"}]
          /\ failed' \in BOOLEAN
      BY <1>10 DEF DrainArtifact, SaveFails, TypeOK
    <2> QED
      BY <1>10, <2>1 DEF DrainArtifact, TypeOK
  <1>11. ASSUME NEW i \in Instances, CleanInstance(i)
         PROVE  TypeOK'
    <2>1. /\ dir' \in SUBSET Instances /\ users' \in SUBSET Instances
          /\ remote' \in [Jobs -> {"none", "partial", "whole"}]
          /\ failed' \in BOOLEAN
      BY <1>11 DEF CleanInstance, RemoveArtifactDir, cleanupSSHConnections, CleanupFailed, TypeOK
    <2> QED
      BY <1>11, <2>1 DEF CleanInstance, RemoveArtifactDir, cleanupSSHConnections, CleanupFailed, TypeOK
  <1>12. ASSUME NEW c \in BackupCommands, NEW lockFree \in BOOLEAN, Begin(c, lockFree)
         PROVE  TypeOK'
    <2>1. /\ cmd' \in BackupCommands /\ unsafe' \in BOOLEAN
          /\ node' \in StepsOf(cmd') \cup Idle
          /\ errs' \in SUBSET (StepsOf(cmd') \cup {"artifactDir"})
      BY <1>12, StepNames DEF Begin
    <2>2. /\ quiet' \in BOOLEAN /\ fresh' \in BOOLEAN /\ found' \in SUBSET Instances
          /\ runs' \in Nat
      BY <1>12 DEF Begin, TypeOK
    <2>3. /\ local' \in [Jobs -> {"none", "partial", "whole"}]
          /\ metadata' \in {"none", "started", "finished"}
      BY <1>12 DEF Begin
    <2> QED
      BY <1>12, <2>1, <2>2, <2>3 DEF Begin, TypeOK
  <1>13. ASSUME NEW kind \in Kinds, NEW j \in Jobs, EndOrphan(kind, j)
         PROVE  TypeOK'
    <2>1. /\ locked' \in SUBSET Jobs
          /\ remote' \in [Jobs -> {"none", "partial", "whole"}]
      BY <1>13, EffectType DEF EndOrphan
    <2> QED
      BY <1>13, <2>1 DEF EndOrphan, TypeOK
  <1>14. CASE Exit
    <2>1. running # {} => Kind(node) \in Kinds
      BY DEF TypeOK, Kind, Kinds, ScriptSteps
    <2>2. orphans' \in SUBSET (Kinds \X Jobs)
      BY <1>14, <2>1 DEF Exit, TypeOK
    <2> QED
      BY <1>14, <2>2 DEF Exit, TypeOK, Idle
  <1> QED
    BY <1>0, <1>1, <1>2, <1>3, <1>4, <1>5, <1>6, <1>7, <1>8, <1>9, <1>10, <1>11, <1>12,
       <1>13, <1>14 DEF Next, Step

\* Every variable keeps its type in every run of the commands, on every deployment.
THEOREM TypeCorrect == Spec => []TypeOK
  BY InitType, NextType, PTL DEF Spec

-----------------------------------------------------------------------------

\* What comes before each step: the edges of the three workflows, read backwards.
LEMMA Predecessors ==
    ASSUME NEW c \in BackupCommands, NEW n \in StepsOf(c), NEW ok \in BOOLEAN,
           NEW m, m = NextNode(c, n, ok)
    PROVE  /\ m = "backupable" => n = "find" /\ ok
           /\ m = "createArtifact" => n = "backupable" /\ ok
           /\ m = "lock" => n = "createArtifact"
           /\ m = "backup" => n = "lock" /\ ok
           /\ m = "unlockAfterSuccessfulBackup" => n = "backup" /\ ok
           /\ m = "unlockAfterFailedBackup" => n \in {"lock", "backup"} /\ ~ok
           /\ m = "drain" => n = "unlockAfterSuccessfulBackup"
           /\ m = "cleanup" /\ c = "backup" =>
                  \/ n \in {"unlockAfterFailedBackup", "drain"}
                  \/ n \in {"backupable", "createArtifact"} /\ ~ok
           /\ m = "addFinishTime" => n = "cleanup"
           /\ m = "postBackupUnlock" => c = "backup-cleanup"
           /\ m = "cleanupPrevious" => c = "backup-cleanup" /\ n = "postBackupUnlock"
           /\ m = "end" /\ c = "backup" => (n = "find" /\ ~ok) \/ n = "addFinishTime"
           /\ m = "end" /\ c = "backup-cleanup" =>
                  (n = "find" /\ ~ok) \/ n = "cleanupPrevious"
           /\ m # "find"
  <1>1. CASE c = "backup"
    BY <1>1 DEF NextNode, StepsOf, BackuperOnSuccess, BackuperOnFailure
  <1>2. CASE c = "backup-cleanup"
    BY <1>2 DEF NextNode, StepsOf, BackupCleanerOnSuccess, BackupCleanerOnFailure
  <1>3. CASE c = "pre-backup-check"
    BY <1>3 DEF NextNode, StepsOf, BackupCheckerOnSuccess, BackupCheckerOnFailure
  <1> QED
    BY <1>1, <1>2, <1>3 DEF BackupCommands

\* The actions in which a step of the workflow returns.
Returns == Find \/ Backupable \/ CreateArtifact \/ FinishStep \/ AddFinishTime

\* A return enters the successor of the step and leaves the deployment alone, ssh
\* users apart; it collects an error, the step's own or an ArtifactDirError, exactly
\* when it is not a success, and a loop returns one exactly when something failed.
LEMMA ReturnEnters ==
    ASSUME TypeOK, Returns
    PROVE  /\ node \in StepsOf(cmd)
           /\ \E ok \in BOOLEAN :
                 /\ Enter(NextNode(cmd, node, ok))
                 /\ ok => errs' = errs
                 /\ ~ok => \/ errs' = errs \cup {node}
                           \/ node = "backupable" /\ errs' = errs \cup {"artifactDir"}
                 /\ ~ok => errs' # {}
                 /\ node \in LoopSteps => ok = ~failed
                 /\ node = "backupable" /\ ok => dir = {}
           /\ UNCHANGED <<cmd, unsafe, cyclic, locked, dir, remote, orphans, history>>
           /\ node # "find" => UNCHANGED users
           /\ node \notin {"createArtifact", "addFinishTime"} => UNCHANGED backup
           /\ node = "addFinishTime" => local' = local \/ metadata' # "finished"
           /\ node \in LoopSteps => pending = {} /\ running = {}
  <1> USE DEF Succeed, Fail, deployment
  <1>1. CASE Find
    BY <1>1 DEF Find, TypeOK, Idle, LoopSteps, ScriptSteps, UnlockSteps
  <1>2. CASE Backupable
    <2>1. TRUE \in CheckArtifactDir => dir = {}
      BY DEF CheckArtifactDir, ArtifactDirExists, TypeOK
    <2>2. node = "backupable" /\ UNCHANGED <<cmd, unsafe, artifact, deployment, backup, history>>
      BY <1>2 DEF Backupable
    <2>3. CASE Succeed /\ TRUE \in CheckArtifactDir
      BY <2>1, <2>2, <2>3 DEF TypeOK, Idle, LoopSteps, ScriptSteps, UnlockSteps
    <2>4. CASE Fail("backupable") \/ Fail("artifactDir")
      BY <2>2, <2>4 DEF TypeOK, Idle, LoopSteps, ScriptSteps, UnlockSteps
    <2> QED
      BY <1>2, <2>3, <2>4 DEF Backupable
  <1>3. CASE CreateArtifact
    BY <1>3 DEF CreateArtifact, SaveManifest, TypeOK, Idle, LoopSteps, ScriptSteps, UnlockSteps
  <1>4. CASE FinishStep
    <2>1. node # "backupable"
      BY <1>4, FinishStepReturns DEF LoopSteps, ScriptSteps, UnlockSteps
    <2> QED
      BY <1>4, <2>1, FinishStepReturns DEF TypeOK, backup
  <1>5. CASE AddFinishTime
    BY <1>5 DEF AddFinishTime, SaveFails, backup, TypeOK, Idle, LoopSteps, ScriptSteps,
                UnlockSteps
  <1> QED
    BY <1>1, <1>2, <1>3, <1>4, <1>5 DEF Returns

-----------------------------------------------------------------------------

\* While no orphan is about: during locking every job with a lock script is locked
\* or still to be locked, unless a script failed; from there to the end of the
\* backup scripts all of them are.
LockedInv ==
    /\ quiet => orphans = {}
    /\ node = "lock" /\ quiet /\ ~unsafe /\ ~failed =>
           HasLock \subseteq pending \cup running \cup locked
    /\ node = "backup" /\ quiet /\ ~unsafe => HasLock \subseteq locked

\* Every step keeps LockedInv: a failed lock script never leads to the backup step,
\* and no script but an unlock script unlocks.
LEMMA NextLockedInv == TypeOK /\ LockedInv /\ [Next]_vars => LockedInv'
  <1> SUFFICES ASSUME TypeOK, LockedInv, [Next]_vars
               PROVE  LockedInv'
    OBVIOUS
  <1> USE DEF session, work, deployment, backup, history
  <1>0. CASE UNCHANGED vars
    BY <1>0 DEF LockedInv, vars
  <1>1. CASE Returns
    <2>1. PICK ok \in BOOLEAN :
             /\ Enter(NextNode(cmd, node, ok))
             /\ node \in LoopSteps => ok = ~failed
      BY <1>1, ReturnEnters
    <2>2. /\ node' = "backup" => node = "lock" /\ ~failed
          /\ node \in StepsOf(cmd)
          /\ UNCHANGED <<cmd, unsafe, cyclic, locked, dir, orphans, quiet>>
          /\ node = "lock" => pending = {} /\ running = {}
      BY <1>1, <2>1, ReturnEnters, Predecessors
         DEF Enter, TypeOK, LoopSteps, ScriptSteps
    <2>3. node' = "lock" /\ ~failed' /\ ~unsafe => pending' = HasLock
      BY <2>1, <2>2 DEF Enter, Work, Ordered, UnlockSteps, PreBackupLock, newJobExecutables
    <2> QED
      BY <2>2, <2>3 DEF LockedInv
  <1>2. ASSUME NEW j \in Jobs, StartScript(j)
        PROVE  LockedInv'
    BY <1>2 DEF StartScript, LockedInv
  <1>3. ASSUME NEW j \in Jobs, CreateDirectoryFails(j)
        PROVE  LockedInv'
    BY <1>3 DEF CreateDirectoryFails, LockedInv
  <1>4. ASSUME NEW j \in Jobs, EndScript(j)
        PROVE  LockedInv'
    <2>1. CASE node = "lock"
      BY <1>4, <2>1 DEF EndScript, Effect, NoEffect, Kind, UnlockSteps, LockedInv
    <2>2. CASE node = "backup"
      BY <1>4, <2>2 DEF EndScript, Effect, NoEffect, Kind, UnlockSteps, LockedInv
    <2>3. CASE node \notin {"lock", "backup"}
      BY <1>4, <2>3 DEF EndScript, LockedInv
    <2> QED
      BY <2>1, <2>2, <2>3
  <1>5. ASSUME NEW j \in Jobs, LoseScript(j)
        PROVE  LockedInv'
    BY <1>5 DEF LoseScript, LockedInv
  <1>6. ASSUME NEW j \in Jobs, DrainArtifact(j)
        PROVE  LockedInv'
    BY <1>6 DEF DrainArtifact, LockedInv
  <1>7. ASSUME NEW i \in Instances, CleanInstance(i)
        PROVE  LockedInv'
    BY <1>7 DEF CleanInstance, RemoveArtifactDir, cleanupSSHConnections, CleanupFailed, LockedInv
  <1>8. ASSUME NEW c \in BackupCommands, NEW lockFree \in BOOLEAN, Begin(c, lockFree)
        PROVE  LockedInv'
    BY <1>8, StepNames DEF Begin, LockedInv
  <1>9. ASSUME NEW kind \in Kinds, NEW j \in Jobs, EndOrphan(kind, j)
        PROVE  LockedInv'
    BY <1>9 DEF EndOrphan, LockedInv
  <1>10. CASE Exit
    BY <1>10 DEF Exit, LockedInv
  <1> QED
    BY <1>0, <1>1, <1>2, <1>3, <1>4, <1>5, <1>6, <1>7, <1>8, <1>9, <1>10
       DEF Next, Step, Returns

\* On every deployment, and whatever was interrupted or failed before: a backup
\* script runs only while every job with a lock script is locked.
THEOREM BackupOnlyWhileLocked == Spec => []BackupWhileLocked
  <1>1. Init => LockedInv
    BY DEF Init, LockedInv
  <1>2. LockedInv => BackupWhileLocked
    BY DEF LockedInv, BackupWhileLocked
  <1> QED
    BY <1>1, <1>2, NextLockedInv, TypeCorrect, PTL DEF Spec

-----------------------------------------------------------------------------

\* backup and pre-backup-check keep the directories they found; a session goes past
\* its pre-check, or marks a directory as its own, only when it found none.
KeptInv ==
    /\ cmd # "backup-cleanup" => found \subseteq dir
    /\ cmd # "backup-cleanup" /\ created # {} => found = {}
    /\ node \in {"createArtifact", "lock", "backup", "unlockAfterSuccessfulBackup",
                 "unlockAfterFailedBackup", "drain"} => found = {}

\* Every step keeps KeptInv.
LEMMA NextKeptInv == TypeOK /\ KeptInv /\ [Next]_vars => KeptInv'
  <1> SUFFICES ASSUME TypeOK, KeptInv, [Next]_vars
               PROVE  KeptInv'
    OBVIOUS
  <1> USE DEF session, work, deployment, backup, history
  <1>0. CASE UNCHANGED vars
    BY <1>0 DEF KeptInv, vars
  <1>1. CASE Returns
    <2>1. PICK ok \in BOOLEAN :
             /\ Enter(NextNode(cmd, node, ok))
             /\ node = "backupable" /\ ok => dir = {}
      BY <1>1, ReturnEnters
    <2>2. node \in StepsOf(cmd) /\ UNCHANGED <<cmd, dir, found>>
      BY <1>1, ReturnEnters DEF history
    <2>3. node = "backupable" => cmd # "backup-cleanup"
      BY <2>2 DEF StepsOf
    <2>4. node' \in {"createArtifact", "lock", "backup", "unlockAfterSuccessfulBackup",
                     "unlockAfterFailedBackup", "drain"} => found = {}
      BY <2>1, <2>2, <2>3, Predecessors DEF Enter, KeptInv, TypeOK
    <2>5. created' = created \/ node' = "backup"
      BY <2>1 DEF Enter, MarkArtifactDirCreated
    <2> QED
      BY <2>2, <2>4, <2>5 DEF KeptInv
  <1>2. ASSUME NEW j \in Jobs, StartScript(j)
        PROVE  KeptInv'
    BY <1>2 DEF StartScript, KeptInv
  <1>3. ASSUME NEW j \in Jobs, CreateDirectoryFails(j)
        PROVE  KeptInv'
    BY <1>3 DEF CreateDirectoryFails, KeptInv
  <1>4. ASSUME NEW j \in Jobs, EndScript(j)
        PROVE  KeptInv'
    BY <1>4 DEF EndScript, KeptInv
  <1>5. ASSUME NEW j \in Jobs, LoseScript(j)
        PROVE  KeptInv'
    BY <1>5 DEF LoseScript, KeptInv
  <1>6. ASSUME NEW j \in Jobs, DrainArtifact(j)
        PROVE  KeptInv'
    BY <1>6 DEF DrainArtifact, KeptInv
  <1>7. ASSUME NEW i \in Instances, CleanInstance(i)
        PROVE  KeptInv'
    <2>1. node = "cleanupPrevious" => cmd = "backup-cleanup"
      BY DEF TypeOK, BackupCommands, StepsOf, Idle
    <2>2. dir' = dir \/ (dir' = dir \ {i} /\ Removes(i))
      BY <1>7 DEF CleanInstance, RemoveArtifactDir, cleanupSSHConnections, CleanupFailed
    <2>3. cmd # "backup-cleanup" => dir' = dir \/ created # {}
      BY <2>1, <2>2 DEF Removes
    <2>4. UNCHANGED <<cmd, node, created, found>>
      BY <1>7 DEF CleanInstance, RemoveArtifactDir, cleanupSSHConnections, CleanupFailed
    <2> QED
      BY <2>3, <2>4 DEF KeptInv
  <1>8. ASSUME NEW c \in BackupCommands, NEW lockFree \in BOOLEAN, Begin(c, lockFree)
        PROVE  KeptInv'
    BY <1>8, StepNames DEF Begin, KeptInv
  <1>9. ASSUME NEW kind \in Kinds, NEW j \in Jobs, EndOrphan(kind, j)
        PROVE  KeptInv'
    BY <1>9 DEF EndOrphan, KeptInv
  <1>10. CASE Exit
    BY <1>10 DEF Exit, KeptInv
  <1> QED
    BY <1>0, <1>1, <1>2, <1>3, <1>4, <1>5, <1>6, <1>7, <1>8, <1>9, <1>10
       DEF Next, Step, Returns

\* On every deployment: whatever artifact directories an earlier command left,
\* backup and pre-backup-check remove none of them.
THEOREM LeftoversAreKept == Spec => []LeftoverDirectoriesKept
  <1>1. Init => KeptInv
    BY DEF Init, KeptInv
  <1>2. KeptInv => LeftoverDirectoriesKept
    BY DEF KeptInv, LeftoverDirectoriesKept
  <1> QED
    BY <1>1, <1>2, NextKeptInv, TypeCorrect, PTL DEF Spec

-----------------------------------------------------------------------------

\* Artifact directories are made by backup scripts only, a bbr process waiting for
\* them or not, and so only where backup-cleanup looks for them.
DirsInv ==
    /\ dir \subseteq BackupableInstances
    /\ node = "backup" => pending \cup running \subseteq HasBackup
    /\ \A j \in Jobs : <<"backup", j>> \in orphans => j \in HasBackup

\* While no orphan is about, a job that backup-cleanup has not come to yet is the
\* only one still locked, and an instance it has not come to the only one with a
\* directory, unless something failed.
RestoredInv ==
    /\ quiet => orphans = {}
    /\ unsafe => cmd = "backup"
    /\ node = "postBackupUnlock" /\ quiet /\ ~failed =>
           locked \cap HasUnlock \subseteq pending \cup running
    /\ cmd = "backup-cleanup" /\ node \in {"cleanupPrevious", "end"} /\ quiet /\ errs = {} =>
           locked \cap HasUnlock = {}
    /\ node = "cleanupPrevious" /\ quiet /\ ~failed => dir \subseteq pending
    /\ cmd = "backup-cleanup" /\ node = "end" /\ quiet /\ errs = {} => dir = {}

\* Every step keeps DirsInv.
LEMMA NextDirsInv == TypeOK /\ DirsInv /\ [Next]_vars => DirsInv'
  <1> SUFFICES ASSUME TypeOK, DirsInv, [Next]_vars
               PROVE  DirsInv'
    OBVIOUS
  <1> USE DEF session, work, deployment, backup, history
  <1>0. CASE UNCHANGED vars
    BY <1>0 DEF DirsInv, vars
  <1>1. CASE Returns
    <2>1. PICK ok \in BOOLEAN : Enter(NextNode(cmd, node, ok))
      BY <1>1, ReturnEnters
    <2>2. UNCHANGED <<dir, orphans>>
      BY <1>1, ReturnEnters
    <2>3. node' = "backup" => pending' \subseteq HasBackup /\ running' = {}
      BY <2>1 DEF Enter, Work, Backup, UnlockSteps
    <2> QED
      BY <2>2, <2>3 DEF DirsInv
  <1>2. ASSUME NEW j \in Jobs, StartScript(j)
        PROVE  DirsInv'
    BY <1>2 DEF StartScript, DirsInv, BackupableInstances
  <1>3. ASSUME NEW j \in Jobs, CreateDirectoryFails(j)
        PROVE  DirsInv'
    BY <1>3 DEF CreateDirectoryFails, DirsInv, BackupableInstances
  <1>4. ASSUME NEW j \in Jobs, EndScript(j)
        PROVE  DirsInv'
    BY <1>4 DEF EndScript, DirsInv
  <1>5. ASSUME NEW j \in Jobs, LoseScript(j)
        PROVE  DirsInv'
    <2>1. Kind(node) = "backup" => node = "backup"
      BY DEF Kind
    <2> QED
      BY <1>5, <2>1 DEF LoseScript, DirsInv
  <1>6. ASSUME NEW j \in Jobs, DrainArtifact(j)
        PROVE  DirsInv'
    BY <1>6 DEF DrainArtifact, DirsInv
  <1>7. ASSUME NEW i \in Instances, CleanInstance(i)
        PROVE  DirsInv'
    BY <1>7 DEF CleanInstance, RemoveArtifactDir, cleanupSSHConnections, CleanupFailed, DirsInv
  <1>8. ASSUME NEW c \in BackupCommands, NEW lockFree \in BOOLEAN, Begin(c, lockFree)
        PROVE  DirsInv'
    BY <1>8, StepNames DEF Begin, DirsInv
  <1>9. ASSUME NEW kind \in Kinds, NEW j \in Jobs, EndOrphan(kind, j)
        PROVE  DirsInv'
    BY <1>9 DEF EndOrphan, DirsInv, BackupableInstances
  <1>10. CASE Exit
    <2>1. Kind(node) = "backup" => node = "backup"
      BY DEF Kind
    <2> QED
      BY <1>10, <2>1 DEF Exit, DirsInv
  <1> QED
    BY <1>0, <1>1, <1>2, <1>3, <1>4, <1>5, <1>6, <1>7, <1>8, <1>9, <1>10
       DEF Next, Step, Returns

\* Every step keeps RestoredInv: the unlock step and the clean-up step of
\* backup-cleanup each go through all there is, and report what they could not do.
LEMMA NextRestoredInv == TypeOK /\ DirsInv /\ RestoredInv /\ [Next]_vars => RestoredInv'
  <1> SUFFICES ASSUME TypeOK, DirsInv, RestoredInv, [Next]_vars
               PROVE  RestoredInv'
    OBVIOUS
  <1> USE DEF session, work, deployment, backup, history
  <1>0. CASE UNCHANGED vars
    BY <1>0 DEF RestoredInv, vars
  <1>1. CASE Returns
    <2>1. PICK ok \in BOOLEAN :
             /\ Enter(NextNode(cmd, node, ok))
             /\ ok => errs' = errs
             /\ ~ok => errs' # {}
             /\ node \in LoopSteps => ok = ~failed
      BY <1>1, ReturnEnters
    <2>2. /\ node \in StepsOf(cmd)
          /\ UNCHANGED <<cmd, unsafe, cyclic, locked, dir, orphans, quiet>>
          /\ node \in LoopSteps => pending = {} /\ running = {}
      BY <1>1, ReturnEnters DEF history
    <2>3. /\ node' = "postBackupUnlock" => cmd = "backup-cleanup"
          /\ node' = "cleanupPrevious" =>
                 cmd = "backup-cleanup" /\ node = "postBackupUnlock"
          /\ node' = "end" /\ cmd = "backup-cleanup" =>
                 (node = "find" /\ ~ok) \/ node = "cleanupPrevious"
      BY <2>1, <2>2, Predecessors DEF Enter, TypeOK
    <2>4. node' = "postBackupUnlock" /\ ~failed' => pending' = HasUnlock
      BY <2>1, <2>2, <2>3 DEF Enter, Work, Ordered, UnlockSteps, RestoredInv, PostBackupUnlock,
           newJobExecutables
    <2>5. node' = "cleanupPrevious" => pending' = BackupableOrRestorable
      BY <2>1 DEF Enter, Work, CleanupPrevious, UnlockSteps
    <2>6. dir \subseteq BackupableOrRestorable
      BY DEF DirsInv, BackupableInstances, BackupableOrRestorable
    <2>7. {"postBackupUnlock", "cleanupPrevious"} \subseteq LoopSteps
      BY DEF LoopSteps, ScriptSteps, UnlockSteps
    <2>8. ASSUME cmd = "backup-cleanup", node' \in {"cleanupPrevious", "end"}, quiet, errs' = {}
          PROVE  locked \cap HasUnlock = {} /\ (node' = "end" => dir = {})
      BY <2>1, <2>2, <2>3, <2>7, <2>8 DEF RestoredInv
    <2> QED
      BY <2>2, <2>3, <2>4, <2>5, <2>6, <2>8 DEF RestoredInv
  <1>2. ASSUME NEW j \in Jobs, StartScript(j)
        PROVE  RestoredInv'
    BY <1>2 DEF StartScript, RestoredInv, ScriptSteps, UnlockSteps
  <1>3. ASSUME NEW j \in Jobs, CreateDirectoryFails(j)
        PROVE  RestoredInv'
    BY <1>3 DEF CreateDirectoryFails, RestoredInv
  <1>4. ASSUME NEW j \in Jobs, EndScript(j)
        PROVE  RestoredInv'
    <2>1. node \in ScriptSteps
      BY <1>4 DEF EndScript, TypeOK
    <2>2. CASE node = "postBackupUnlock"
      BY <1>4, <2>2 DEF EndScript, Effect, NoEffect, Kind, UnlockSteps, RestoredInv
    <2>3. CASE node # "postBackupUnlock"
      BY <1>4, <2>1, <2>3 DEF EndScript, RestoredInv, ScriptSteps, UnlockSteps
    <2> QED
      BY <2>2, <2>3
  <1>5. ASSUME NEW j \in Jobs, LoseScript(j)
        PROVE  RestoredInv'
    BY <1>5 DEF LoseScript, RestoredInv
  <1>6. ASSUME NEW j \in Jobs, DrainArtifact(j)
        PROVE  RestoredInv'
    BY <1>6 DEF DrainArtifact, RestoredInv
  <1>7. ASSUME NEW i \in Instances, CleanInstance(i)
        PROVE  RestoredInv'
    <2>1. UNCHANGED <<cmd, unsafe, node, errs, locked, orphans>> /\ (quiet' => quiet)
      BY <1>7 DEF CleanInstance, RemoveArtifactDir, cleanupSSHConnections, CleanupFailed
    <2>2. node = "cleanupPrevious" /\ ~failed' /\ quiet' => ~failed /\ dir' = dir \ {i}
      BY <1>7 DEF CleanInstance, RemoveArtifactDir, cleanupSSHConnections, CleanupFailed, Removes, TypeOK
    <2>3. node \in {"cleanup", "cleanupPrevious"} /\ pending' = pending \ {i}
      BY <1>7 DEF CleanInstance, RemoveArtifactDir, cleanupSSHConnections, CleanupFailed
    <2> QED
      BY <2>1, <2>2, <2>3 DEF RestoredInv
  <1>8. ASSUME NEW c \in BackupCommands, NEW lockFree \in BOOLEAN, Begin(c, lockFree)
        PROVE  RestoredInv'
    BY <1>8, StepNames DEF Begin, RestoredInv
  <1>9. ASSUME NEW kind \in Kinds, NEW j \in Jobs, EndOrphan(kind, j)
        PROVE  RestoredInv'
    BY <1>9 DEF EndOrphan, RestoredInv
  <1>10. CASE Exit
    BY <1>10 DEF Exit, RestoredInv
  <1> QED
    BY <1>0, <1>1, <1>2, <1>3, <1>4, <1>5, <1>6, <1>7, <1>8, <1>9, <1>10
       DEF Next, Step, Returns

\* On every deployment, and wherever earlier commands were interrupted: once
\* backup-cleanup has ended without an error no job that can be unlocked is locked,
\* and no artifact directory is left.
THEOREM CleanupDoesRestore == Spec => []CleanupRestores
  <1>1. Init => DirsInv /\ RestoredInv
    BY DEF Init, DirsInv, RestoredInv
  <1>2. RestoredInv => CleanupRestores
    BY DEF RestoredInv, CleanupRestores
  <1> QED
    BY <1>1, <1>2, NextDirsInv, NextRestoredInv, TypeCorrect, PTL DEF Spec

-----------------------------------------------------------------------------

\* While no orphan is about: nothing is locked before the lock step, or ever with
\* --unsafe-lock-free, if nothing was when the command began; during unlocking only
\* a job whose unlock script is to come, or under way, is locked, unless one failed.
SettledInv ==
    /\ quiet => orphans = {}
    /\ failed => node \in LoopSteps \cup {"exited"}
    /\ unsafe /\ node \in {"lock"} \cup UnlockSteps => pending = {} /\ running = {}
    /\ unsafe /\ fresh /\ quiet => locked = {}
    /\ node \in {"find", "backupable", "createArtifact"} /\ fresh /\ quiet => locked = {}
    /\ node \in UnlockSteps /\ quiet /\ ~failed /\ ~unsafe =>
           locked \cap HasUnlock \subseteq pending \cup running

\* Every step keeps SettledInv.
LEMMA NextSettledInv == TypeOK /\ SettledInv /\ [Next]_vars => SettledInv'
  <1> SUFFICES ASSUME TypeOK, SettledInv, [Next]_vars
               PROVE  SettledInv'
    OBVIOUS
  <1> USE DEF session, work, deployment, backup, history
  <1>0. CASE UNCHANGED vars
    BY <1>0 DEF SettledInv, vars
  <1>1. CASE Returns
    <2>1. PICK ok \in BOOLEAN : Enter(NextNode(cmd, node, ok))
      BY <1>1, ReturnEnters
    <2>2. /\ node \in StepsOf(cmd)
          /\ UNCHANGED <<cmd, unsafe, cyclic, locked, orphans, quiet, fresh>>
      BY <1>1, ReturnEnters DEF history
    <2>3. /\ node' \in {"find", "backupable", "createArtifact"} =>
                 node \in {"find", "backupable", "createArtifact"}
          /\ node' = NextNode(cmd, node, ok)
      BY <2>1, <2>2, Predecessors DEF Enter, TypeOK
    <2>4. /\ failed' => node' \in LoopSteps
          /\ unsafe /\ node' \in {"lock"} \cup UnlockSteps => pending' = {} /\ running' = {}
          /\ node' \in UnlockSteps /\ ~failed' /\ ~unsafe => pending' = HasUnlock
      BY <2>1, <2>2, <2>3 DEF Enter, Work, Ordered, UnlockSteps, LoopSteps, ScriptSteps, SkipStep,
           PostBackupUnlock, newJobExecutables
    <2> QED
      BY <2>2, <2>3, <2>4 DEF SettledInv
  <1>2. ASSUME NEW j \in Jobs, StartScript(j)
        PROVE  SettledInv'
    BY <1>2 DEF StartScript, SettledInv
  <1>3. ASSUME NEW j \in Jobs, CreateDirectoryFails(j)
        PROVE  SettledInv'
    BY <1>3 DEF CreateDirectoryFails, SettledInv, LoopSteps, ScriptSteps, UnlockSteps
  <1>4. ASSUME NEW j \in Jobs, EndScript(j)
        PROVE  SettledInv'
    <2>1. /\ node \in ScriptSteps
          /\ UNCHANGED <<unsafe, node, pending, orphans, quiet, fresh>>
          /\ running' = running \ {j} /\ (~failed' => ~failed)
      BY <1>4 DEF EndScript, TypeOK
    <2>2. node = "backup" => locked' = locked
      BY <1>4 DEF EndScript, Effect, NoEffect, Kind, UnlockSteps
    <2>3. node \in UnlockSteps => locked' \subseteq locked /\ (~failed' => locked' = locked \ {j})
      BY <1>4 DEF EndScript, Effect, NoEffect, Kind, TypeOK
    <2>4. unsafe => node = "backup"
      BY <1>4, <2>1 DEF EndScript, SettledInv, ScriptSteps
    <2>5. node \notin {"find", "backupable", "createArtifact"} /\ node \in LoopSteps
      BY <2>1 DEF ScriptSteps, UnlockSteps, LoopSteps
    <2> QED
      BY <2>1, <2>2, <2>3, <2>4, <2>5 DEF SettledInv
  <1>5. ASSUME NEW j \in Jobs, LoseScript(j)
        PROVE  SettledInv'
    <2>1. node \in LoopSteps /\ (unsafe => node \notin {"lock"} \cup UnlockSteps)
      BY <1>5 DEF LoseScript, TypeOK, SettledInv, LoopSteps
    <2> QED
      BY <1>5, <2>1 DEF LoseScript, SettledInv
  <1>6. ASSUME NEW j \in Jobs, DrainArtifact(j)
        PROVE  SettledInv'
    BY <1>6 DEF DrainArtifact, SettledInv, LoopSteps, UnlockSteps
  <1>7. ASSUME NEW i \in Instances, CleanInstance(i)
        PROVE  SettledInv'
    BY <1>7 DEF CleanInstance, SettledInv, LoopSteps, UnlockSteps
  <1>8. ASSUME NEW c \in BackupCommands, NEW lockFree \in BOOLEAN, Begin(c, lockFree)
        PROVE  SettledInv'
    BY <1>8, StepNames DEF Begin, SettledInv, UnlockSteps
  <1>9. ASSUME NEW kind \in Kinds, NEW j \in Jobs, EndOrphan(kind, j)
        PROVE  SettledInv'
    BY <1>9 DEF EndOrphan, SettledInv
  <1>10. CASE Exit
    BY <1>10 DEF Exit, SettledInv, UnlockSteps
  <1> QED
    BY <1>0, <1>1, <1>2, <1>3, <1>4, <1>5, <1>6, <1>7, <1>8, <1>9, <1>10
       DEF Next, Step, Returns

\* Every step keeps LockNesting: a lock script starts only when all that must be
\* locked before it are, an unlock script only when all that were locked after it
\* are unlocked.
LEMMA NextLockNesting ==
    TypeOK /\ LockedInv /\ SettledInv /\ LockNesting /\ [Next]_vars => LockNesting'
  <1> SUFFICES ASSUME TypeOK, LockedInv, SettledInv, LockNesting, [Next]_vars,
                      cmd' = "backup", quiet', fresh', errs' = {}, ~failed',
                      NEW k \in Jobs, NEW j \in Jobs, <<k, j>> \in LockBefore,
                      k \in HasLock, j \in HasUnlock,
                      j \in locked' \/ (node' = "lock" /\ j \in running')
               PROVE  k \in locked' /\ ~(node' \in UnlockSteps /\ k \in running')
    BY DeploymentAssumption DEF LockNesting
  <1> USE DEF session, work, deployment, backup, history
  <1> DEFINE maybeLocked == j \in locked \/ (node = "lock" /\ j \in running)
             surelyLocked == k \in locked /\ ~(node \in UnlockSteps /\ k \in running)
             holds == cmd = "backup" /\ quiet /\ fresh /\ errs = {} /\ ~failed
  <1>a. holds /\ maybeLocked => surelyLocked
    BY DEF LockNesting
  <1>b. Level[k] < Level[j] /\ ~(Level[k] < Level[k])
    BY DeploymentAssumption
  <1> HIDE DEF holds
  <1>0. CASE UNCHANGED vars
    BY <1>0, <1>a DEF vars, holds
  <1>1. CASE Returns
    <2>1. PICK ok \in BOOLEAN :
             /\ Enter(NextNode(cmd, node, ok))
             /\ ok => errs' = errs
             /\ ~ok => errs' # {}
             /\ node \in LoopSteps => ok = ~failed
      BY <1>1, ReturnEnters
    <2>2. /\ node \in StepsOf(cmd)
          /\ UNCHANGED <<cmd, locked, quiet, fresh>>
          /\ node \in LoopSteps => running = {}
      BY <1>1, ReturnEnters DEF history
    <2>3. holds
      BY <2>1, <2>2, StepNames DEF SettledInv, TypeOK, holds
    <2>4. running' = {}
      BY <2>1 DEF Enter
    <2> QED
      BY <1>a, <2>2, <2>3, <2>4
  <1>2. ASSUME NEW l \in Jobs, StartScript(l)
        PROVE  k \in locked' /\ ~(node' \in UnlockSteps /\ k \in running')
    <2>1. /\ holds /\ UNCHANGED <<node, locked>>
          /\ running' = running \cup {l} /\ l \in pending
          /\ \A m \in pending \cup running : ~Earlier(m, l)
      BY <1>2 DEF StartScript, holds
    <2>2. CASE node = "lock"
      <3>1. l = j => k \notin pending \cup running
        BY <1>b, <2>1, <2>2 DEF Earlier
      <3>2. l = j => k \in locked
        BY <2>1, <2>2, <3>1 DEF LockedInv, SettledInv, holds
      <3> QED
        BY <1>a, <2>1, <2>2, <3>2 DEF UnlockSteps
    <2>3. CASE node \in UnlockSteps
      <3>1. j \in locked /\ k \in locked /\ k \notin running
        BY <1>a, <2>1, <2>3 DEF UnlockSteps
      <3>2. j \in pending \cup running
        BY <2>1, <2>3, <3>1 DEF SettledInv, holds
      <3>3. l # k
        BY <1>b, <2>1, <2>3, <3>2, DeploymentAssumption DEF Earlier
      <3> QED
        BY <2>1, <3>1, <3>3
    <2>4. CASE node \notin {"lock"} \cup UnlockSteps
      BY <1>a, <2>1, <2>4
    <2> QED
      BY <2>2, <2>3, <2>4
  <1>3. ASSUME NEW l \in Jobs, CreateDirectoryFails(l)
        PROVE  FALSE
    BY <1>3 DEF CreateDirectoryFails
  <1>4. ASSUME NEW l \in Jobs, EndScript(l)
        PROVE  k \in locked' /\ ~(node' \in UnlockSteps /\ k \in running')
    <2>1. /\ holds /\ UNCHANGED node
          /\ running' = running \ {l} /\ l \in running /\ node \in ScriptSteps
      BY <1>4 DEF EndScript, TypeOK, holds
    <2>2. Effect(Kind(node), l)
      BY <1>4 DEF EndScript
    <2>3. CASE node = "lock"
      BY <1>a, <2>1, <2>2, <2>3 DEF Effect, Kind, UnlockSteps
    <2>4. CASE node \in UnlockSteps
      BY <1>a, <2>1, <2>2, <2>4 DEF Effect, Kind, UnlockSteps
    <2>5. CASE node = "backup"
      BY <1>a, <2>1, <2>2, <2>5 DEF Effect, Kind, UnlockSteps
    <2> QED
      BY <2>1, <2>3, <2>4, <2>5 DEF ScriptSteps
  <1>5. ASSUME NEW l \in Jobs, LoseScript(l)
        PROVE  FALSE
    BY <1>5 DEF LoseScript
  <1>6. ASSUME NEW l \in Jobs, DrainArtifact(l)
        PROVE  k \in locked' /\ ~(node' \in UnlockSteps /\ k \in running')
    <2>1. ~failed
      BY <1>6 DEF DrainArtifact
    <2>2. holds /\ UNCHANGED <<node, locked, running>>
      BY <1>6, <2>1 DEF DrainArtifact, holds
    <2> QED
      BY <1>a, <2>2
  <1>7. ASSUME NEW i \in Instances, CleanInstance(i)
        PROVE  k \in locked' /\ ~(node' \in UnlockSteps /\ k \in running')
    <2>1. holds /\ UNCHANGED <<node, locked, running>>
      BY <1>7 DEF CleanInstance, holds, TypeOK
    <2> QED
      BY <1>a, <2>1
  <1>8. ASSUME NEW c \in BackupCommands, NEW lockFree \in BOOLEAN, Begin(c, lockFree)
        PROVE  FALSE
    BY <1>8, StepNames DEF Begin
  <1>9. ASSUME NEW kind \in Kinds, NEW l \in Jobs, EndOrphan(kind, l)
        PROVE  FALSE
    BY <1>9 DEF EndOrphan, SettledInv
  <1>10. CASE Exit
    <2>1. holds /\ node' \notin UnlockSteps /\ j \in locked /\ locked' = locked
      BY <1>10 DEF Exit, holds, UnlockSteps, TypeOK
    <2> QED
      BY <1>a, <2>1
  <1> QED
    BY <1>0, <1>1, <1>2, <1>3, <1>4, <1>5, <1>6, <1>7, <1>8, <1>9, <1>10
       DEF Next, Step, Returns

\* On every deployment, for every acyclic lock order: from a job's lock script to
\* its unlock script all the jobs it must be locked after are locked.
THEOREM LocksNest == Spec => []LockNesting
  <1>1. Init => LockedInv /\ SettledInv /\ LockNesting
    BY DEF Init, LockedInv, SettledInv, LockNesting, UnlockSteps
  <1> QED
    BY <1>1, NextLockedInv, NextSettledInv, NextLockNesting, TypeCorrect, PTL DEF Spec

-----------------------------------------------------------------------------

\* What a backup leaves on the deployment, and which error tells of it: a job still
\* locked, the error of an unlock step; a directory of its own or an ssh user, the
\* error of the clean-up step.  While the clean-up goes on and nothing failed, what
\* is left is on the instances still to come.
ReportedInv ==
    cmd = "backup" =>
        /\ /\ node \in {"drain", "cleanup", "addFinishTime", "end"}
           /\ quiet /\ fresh /\ errs \cap UnlockSteps = {}
           => locked \cap HasUnlock = {}
        /\ node = "backup" => BackupableInstances \subseteq created
        /\ quiet => dir \subseteq found \cup created
        /\ node = "cleanup" /\ quiet /\ ~failed => dir \subseteq found \cup pending
        /\ node = "cleanup" /\ ~failed => users \subseteq pending
        /\ node \in {"addFinishTime", "end"} /\ {"find", "cleanup"} \cap errs = {} =>
               users = {} /\ (quiet => dir \subseteq found)

\* Every step keeps ReportedInv.
LEMMA NextReportedInv ==
    TypeOK /\ DirsInv /\ SettledInv /\ ReportedInv /\ [Next]_vars => ReportedInv'
  <1> SUFFICES ASSUME TypeOK, DirsInv, SettledInv, ReportedInv, [Next]_vars
               PROVE  ReportedInv'
    OBVIOUS
  <1> USE DEF session, work, deployment, backup, history
  <1>0. CASE UNCHANGED vars
    BY <1>0 DEF ReportedInv, vars
  <1>1. CASE Returns
    <2> SUFFICES ASSUME cmd = "backup"
                 PROVE  ReportedInv'
      BY <1>1, ReturnEnters DEF ReportedInv
    <2>1. PICK ok \in BOOLEAN :
             /\ Enter(NextNode(cmd, node, ok))
             /\ ok => errs' = errs
             /\ ~ok => \/ errs' = errs \cup {node}
                       \/ node = "backupable" /\ errs' = errs \cup {"artifactDir"}
             /\ node \in LoopSteps => ok = ~failed
      BY <1>1, ReturnEnters
    <2>2. /\ node \in StepsOf(cmd)
          /\ UNCHANGED <<cmd, unsafe, cyclic, locked, dir, orphans, quiet, fresh, found>>
          /\ node # "find" => UNCHANGED users
          /\ node \in LoopSteps => pending = {} /\ running = {}
      BY <1>1, ReturnEnters DEF history
    <2>3. /\ node' = "drain" => node = "unlockAfterSuccessfulBackup"
          /\ node' = "cleanup" =>
                  \/ node \in {"unlockAfterFailedBackup", "drain"}
                  \/ node \in {"backupable", "createArtifact"} /\ ~ok
          /\ node' = "addFinishTime" => node = "cleanup"
          /\ node' = "end" => (node = "find" /\ ~ok) \/ node = "addFinishTime"
      BY <2>1, <2>2, Predecessors DEF Enter, TypeOK
    <2>4. {"cleanup", "drain"} \cup UnlockSteps \subseteq LoopSteps /\ errs \subseteq errs'
      BY <2>1 DEF LoopSteps, ScriptSteps
    <2>5. ASSUME node' \in {"drain", "cleanup", "addFinishTime", "end"},
                 quiet, fresh, errs' \cap UnlockSteps = {}
          PROVE  locked \cap HasUnlock = {}
      <3>1. CASE node \in UnlockSteps
        <4>1. ok /\ ~failed /\ pending = {} /\ running = {}
          BY <2>1, <2>2, <2>4, <2>5, <3>1 DEF UnlockSteps
        <4> QED
          BY <2>5, <3>1, <4>1 DEF SettledInv, TypeOK
      <3>2. CASE node \in {"find", "backupable", "createArtifact"}
        BY <2>5, <3>2 DEF SettledInv
      <3>3. CASE node \in {"drain", "cleanup", "addFinishTime"}
        BY <2>4, <2>5, <3>3 DEF ReportedInv
      <3> QED
        BY <2>3, <2>5, <3>1, <3>2, <3>3 DEF UnlockSteps
    <2>6. /\ node' = "backup" => BackupableInstances \subseteq created'
          /\ created \subseteq created'
          /\ node' = "cleanup" => pending' = Instances
      BY <2>1 DEF Enter, MarkArtifactDirCreated, Work, Cleanup, UnlockSteps
    <2>7. quiet => dir \subseteq found \cup created'
      BY <2>6 DEF ReportedInv
    <2>8. node' = "cleanup" => users' \subseteq pending' /\ dir \subseteq found \cup pending'
      BY <2>2, <2>3, <2>6 DEF TypeOK
    <2>9. ASSUME node' \in {"addFinishTime", "end"}, {"find", "cleanup"} \cap errs' = {}
          PROVE  users' = {} /\ (quiet => dir \subseteq found)
      <3>1. CASE node = "cleanup"
        <4>1. ok /\ ~failed /\ pending = {}
          BY <2>1, <2>2, <2>4, <2>9, <3>1
        <4> QED
          BY <2>2, <3>1, <4>1 DEF ReportedInv
      <3>2. CASE node = "addFinishTime"
        BY <2>2, <2>4, <2>9, <3>2 DEF ReportedInv
      <3>3. CASE node = "find" /\ ~ok
        BY <2>1, <2>9, <3>3
      <3> QED
        BY <2>3, <2>9, <3>1, <3>2, <3>3
    <2> QED
      BY <2>2, <2>5, <2>6, <2>7, <2>8, <2>9 DEF ReportedInv
  <1>2. ASSUME NEW j \in Jobs, StartScript(j)
        PROVE  ReportedInv'
    <2>1. cmd = "backup" /\ node = "backup" => InstanceOf[j] \in created
      BY <1>2 DEF StartScript, DirsInv, ReportedInv, BackupableInstances
    <2>2. node \notin {"drain", "cleanup", "addFinishTime", "end"}
      BY <1>2 DEF StartScript, ScriptSteps, UnlockSteps
    <2> QED
      BY <1>2, <2>1, <2>2 DEF StartScript, ReportedInv
  <1>3. ASSUME NEW j \in Jobs, CreateDirectoryFails(j)
        PROVE  ReportedInv'
    <2>1. cmd = "backup" => InstanceOf[j] \in created
      BY <1>3 DEF CreateDirectoryFails, DirsInv, ReportedInv, BackupableInstances
    <2> QED
      BY <1>3, <2>1 DEF CreateDirectoryFails, ReportedInv
  <1>4. ASSUME NEW j \in Jobs, EndScript(j)
        PROVE  ReportedInv'
    <2>1. node \notin {"drain", "cleanup", "addFinishTime", "end"}
      BY <1>4 DEF EndScript, TypeOK, ScriptSteps, UnlockSteps
    <2> QED
      BY <1>4, <2>1 DEF EndScript, ReportedInv
  <1>5. ASSUME NEW j \in Jobs, LoseScript(j)
        PROVE  ReportedInv'
    <2>1. node \notin {"drain", "cleanup", "addFinishTime", "end"}
      BY <1>5 DEF LoseScript, TypeOK, ScriptSteps, UnlockSteps
    <2> QED
      BY <1>5, <2>1 DEF LoseScript, ReportedInv
  <1>6. ASSUME NEW j \in Jobs, DrainArtifact(j)
        PROVE  ReportedInv'
    BY <1>6 DEF DrainArtifact, ReportedInv
  <1>7. ASSUME NEW i \in Instances, CleanInstance(i)
        PROVE  ReportedInv'
    <2> SUFFICES ASSUME cmd = "backup"
                 PROVE  ReportedInv'
      BY <1>7 DEF CleanInstance, ReportedInv
    <2>1. /\ node = "cleanup" /\ UNCHANGED <<cmd, node, errs, created, locked, fresh, found>>
          /\ pending' = pending \ {i} /\ (quiet' => quiet)
      BY <1>7 DEF CleanInstance, TypeOK, StepsOf, Idle
    <2>2. /\ dir' \subseteq dir
          /\ ~failed' => ~failed /\ users' = users \ {i}
          /\ ~failed' /\ quiet' /\ i \in created => i \notin dir'
      BY <1>7 DEF CleanInstance, RemoveArtifactDir, cleanupSSHConnections, CleanupFailed, Removes, TypeOK
    <2> QED
      BY <2>1, <2>2 DEF ReportedInv
  <1>8. ASSUME NEW c \in BackupCommands, NEW lockFree \in BOOLEAN, Begin(c, lockFree)
        PROVE  ReportedInv'
    BY <1>8, StepNames DEF Begin, ReportedInv
  <1>9. ASSUME NEW kind \in Kinds, NEW j \in Jobs, EndOrphan(kind, j)
        PROVE  ReportedInv'
    BY <1>9 DEF EndOrphan, ReportedInv, SettledInv
  <1>10. CASE Exit
    BY <1>10 DEF Exit, ReportedInv
  <1> QED
    BY <1>0, <1>1, <1>2, <1>3, <1>4, <1>5, <1>6, <1>7, <1>8, <1>9, <1>10
       DEF Next, Step, Returns

\* On every deployment: whatever a backup that found none of it leaves behind, a
\* locked job, an artifact directory or an ssh user, it ends with the notice to run
\* backup-cleanup.
THEOREM LeftoversAreTold == Spec => []LeftoversAreReported
  <1>1. Init => DirsInv /\ SettledInv /\ ReportedInv
    BY DEF Init, DirsInv, SettledInv, ReportedInv, UnlockSteps
  <1>2. ReportedInv => LeftoversAreReported
    BY DEF ReportedInv, LeftoversAreReported, AdvisesCleanup
  <1> QED
    BY <1>1, <1>2, NextDirsInv, NextSettledInv, NextReportedInv, TypeCorrect, PTL DEF Spec

-----------------------------------------------------------------------------

\* While no orphan is about: what the backup scripts have done is whole on the
\* instances, then here, unless one failed; a backup without an error comes to its
\* end with all of it, from the one or the other.
WholeInv ==
    /\ node = "unlockAfterFailedBackup" => errs # {}
    /\ node = "backup" /\ quiet /\ ~failed =>
           \A j \in HasBackup : j \in pending \cup running \/ remote[j] = "whole"
    /\ node = "unlockAfterSuccessfulBackup" /\ quiet => \A j \in HasBackup : remote[j] = "whole"
    /\ node = "drain" /\ quiet /\ ~failed =>
           \A j \in HasBackup :
               IF j \in pending THEN remote[j] = "whole" ELSE local[j] = "whole"
    /\ cmd = "backup" /\ node \in {"cleanup", "addFinishTime"} /\ quiet /\ errs = {} =>
           \A j \in HasBackup : local[j] = "whole"
    /\ cmd = "backup" /\ node = "end" /\ quiet /\ errs = {} /\ metadata = "finished" =>
           \A j \in HasBackup : local[j] = "whole"
    /\ cmd = "backup" /\ node \in {"cleanup", "addFinishTime", "end"} /\ errs = {} => found = {}

\* Every step keeps WholeInv.
LEMMA NextWholeInv ==
    TypeOK /\ KeptInv /\ SettledInv /\ WholeInv /\ [Next]_vars => WholeInv'
  <1> SUFFICES ASSUME TypeOK, KeptInv, SettledInv, WholeInv, [Next]_vars
               PROVE  WholeInv'
    OBVIOUS
  <1> USE DEF session, work, deployment, backup, history
  <1>0. CASE UNCHANGED vars
    BY <1>0 DEF WholeInv, vars
  <1>1. CASE Returns
    <2>1. PICK ok \in BOOLEAN :
             /\ Enter(NextNode(cmd, node, ok))
             /\ ok => errs' = errs
             /\ ~ok => errs' # {}
             /\ node \in LoopSteps => ok = ~failed
      BY <1>1, ReturnEnters
    <2>2. /\ node \in StepsOf(cmd)
          /\ UNCHANGED <<cmd, remote, quiet, found>>
          /\ node \notin {"createArtifact", "addFinishTime"} => UNCHANGED <<metadata, local>>
          /\ node = "addFinishTime" => local' = local \/ metadata' # "finished"
          /\ node \in LoopSteps => pending = {} /\ running = {}
      BY <1>1, ReturnEnters DEF history
    <2>3. /\ node' = "unlockAfterSuccessfulBackup" => node = "backup" /\ ok
          /\ node' = "unlockAfterFailedBackup" => ~ok
          /\ node' = "drain" => node = "unlockAfterSuccessfulBackup"
          /\ node' = "cleanup" /\ cmd = "backup" =>
                 node \in {"unlockAfterFailedBackup", "drain"} \/ ~ok
          /\ node' = "addFinishTime" => node = "cleanup"
          /\ node' = "end" /\ cmd = "backup" => ~ok \/ node = "addFinishTime"
      BY <2>1, <2>2, Predecessors DEF Enter, TypeOK
    <2>4. {"backup", "cleanup", "drain"} \subseteq LoopSteps
      BY DEF LoopSteps, ScriptSteps
    <2>5. /\ node' \in {"backup", "drain"} => pending' = HasBackup
      BY <2>1 DEF Enter, Work, Backup, DownloadBackupFromDeployment, BackupableInstances,
           UnlockSteps
    <2>6. ASSUME node' = "unlockAfterSuccessfulBackup", quiet
          PROVE  \A j \in HasBackup : remote[j] = "whole"
      BY <2>1, <2>2, <2>3, <2>4, <2>6 DEF WholeInv
    <2>7. node' = "drain" /\ quiet => \A j \in HasBackup : remote[j] = "whole"
      BY <2>3 DEF WholeInv
    <2>8. ASSUME cmd = "backup", node' \in {"cleanup", "addFinishTime"}, errs' = {}
          PROVE  found = {} /\ (quiet => \A j \in HasBackup : local'[j] = "whole")
      <3>1. ok /\ errs = {}
        BY <2>1, <2>8
      <3>2. node \in {"drain", "cleanup"}
        BY <2>3, <2>8, <3>1 DEF WholeInv
      <3>3. ~failed /\ pending = {} /\ local' = local
        BY <2>1, <2>2, <2>4, <3>1, <3>2
      <3> QED
        BY <2>8, <3>1, <3>2, <3>3 DEF WholeInv, KeptInv
    <2>9. ASSUME cmd = "backup", node' = "end", errs' = {}
          PROVE  /\ found = {}
                 /\ quiet /\ metadata' = "finished" => \A j \in HasBackup : local'[j] = "whole"
      <3>1. ok /\ errs = {} /\ node = "addFinishTime"
        BY <2>1, <2>3, <2>9
      <3> QED
        BY <2>2, <2>9, <3>1 DEF WholeInv
    <2> QED
      BY <2>1, <2>2, <2>3, <2>5, <2>6, <2>7, <2>8, <2>9 DEF WholeInv
  <1>2. ASSUME NEW j \in Jobs, StartScript(j)
        PROVE  WholeInv'
    <2>1. /\ node \in ScriptSteps /\ UNCHANGED <<cmd, node, errs, quiet, failed>>
          /\ pending' \cup running' = pending \cup running /\ j \in running'
      BY <1>2 DEF StartScript
    <2>2. CASE node = "backup"
      <3>1. \A k \in HasBackup : k = j \/ remote'[k] = remote[k]
        BY <1>2, <2>2, DeploymentAssumption DEF StartScript, TypeOK
      <3> QED
        BY <2>1, <2>2, <3>1 DEF WholeInv
    <2>3. CASE node # "backup"
      BY <1>2, <2>1, <2>3 DEF StartScript, WholeInv, ScriptSteps, UnlockSteps
    <2> QED
      BY <2>2, <2>3
  <1>3. ASSUME NEW j \in Jobs, CreateDirectoryFails(j)
        PROVE  WholeInv'
    BY <1>3 DEF CreateDirectoryFails, WholeInv
  <1>4. ASSUME NEW j \in Jobs, EndScript(j)
        PROVE  WholeInv'
    <2>1. /\ node \in ScriptSteps /\ UNCHANGED <<cmd, node, errs, quiet, pending>>
          /\ running' = running \ {j} /\ (~failed' => ~failed)
      BY <1>4 DEF EndScript, TypeOK
    <2>2. CASE node = "backup"
      <3>1. ~failed' => remote' = [remote EXCEPT ![j] = "whole"]
        BY <1>4, <2>2 DEF EndScript, Effect, Kind, UnlockSteps
      <3>2. ~failed' => \A k \in HasBackup : remote'[k] = IF k = j THEN "whole" ELSE remote[k]
        BY <3>1, DeploymentAssumption DEF TypeOK
      <3> QED
        BY <2>1, <2>2, <3>2 DEF WholeInv
    <2>3. CASE node = "unlockAfterSuccessfulBackup"
      <3>1. remote' = remote
        BY <1>4, <2>3 DEF EndScript, Effect, NoEffect, Kind, UnlockSteps
      <3> QED
        BY <2>1, <2>3, <3>1 DEF WholeInv
    <2>4. CASE node \notin {"backup", "unlockAfterSuccessfulBackup"}
      BY <2>1, <2>4 DEF WholeInv, ScriptSteps, UnlockSteps
    <2> QED
      BY <2>2, <2>3, <2>4
  <1>5. ASSUME NEW j \in Jobs, LoseScript(j)
        PROVE  WholeInv'
    <2>1. node \notin {"cleanup", "addFinishTime", "end"}
      BY <1>5 DEF LoseScript, TypeOK, ScriptSteps, UnlockSteps
    <2> QED
      BY <1>5, <2>1 DEF LoseScript, WholeInv
  <1>6. ASSUME NEW j \in Jobs, DrainArtifact(j)
        PROVE  WholeInv'
    <2>1. /\ node = "drain" /\ j \in pending /\ UNCHANGED <<cmd, node, errs, quiet>>
          /\ pending' = pending \ {j}
      BY <1>6 DEF DrainArtifact
    <2>2. ~failed' => /\ ~failed
                      /\ local' = [local EXCEPT ![j] = remote[j]]
                      /\ remote' \in {remote, [remote EXCEPT ![j] = "none"]}
      BY <1>6 DEF DrainArtifact, TypeOK
    <2>3. ~failed' => \A k \in HasBackup :
                         /\ local'[k] = IF k = j THEN remote[j] ELSE local[k]
                         /\ k # j => remote'[k] = remote[k]
      BY <2>2, DeploymentAssumption DEF TypeOK
    <2> QED
      BY <2>1, <2>2, <2>3 DEF WholeInv
  <1>7. ASSUME NEW i \in Instances, CleanInstance(i)
        PROVE  WholeInv'
    <2>1. /\ node \in {"cleanup", "cleanupPrevious"} /\ (quiet' => quiet)
          /\ UNCHANGED <<cmd, node, errs, local, found>>
      BY <1>7 DEF CleanInstance, TypeOK
    <2> QED
      BY <2>1 DEF WholeInv
  <1>8. ASSUME NEW c \in BackupCommands, NEW lockFree \in BOOLEAN, Begin(c, lockFree)
        PROVE  WholeInv'
    BY <1>8, StepNames DEF Begin, WholeInv
  <1>9. ASSUME NEW kind \in Kinds, NEW j \in Jobs, EndOrphan(kind, j)
        PROVE  WholeInv'
    BY <1>9 DEF EndOrphan, WholeInv, SettledInv
  <1>10. CASE Exit
    BY <1>10 DEF Exit, WholeInv
  <1> QED
    BY <1>0, <1>1, <1>2, <1>3, <1>4, <1>5, <1>6, <1>7, <1>8, <1>9, <1>10
       DEF Next, Step, Returns

\* On every deployment: a backup that ends without an error leaves no directory, ssh
\* user or locked job, and has every artifact whole once its finish time is saved.
THEOREM SuccessIsComplete == Spec => []SuccessMeansComplete
  <1>1. Init => DirsInv /\ KeptInv /\ SettledInv /\ ReportedInv /\ WholeInv
    BY DEF Init, DirsInv, KeptInv, SettledInv, ReportedInv, WholeInv, UnlockSteps
  <1>2. ReportedInv /\ WholeInv => SuccessMeansComplete
    BY DEF ReportedInv, WholeInv, SuccessMeansComplete
  <1> QED
    BY <1>1, <1>2, NextDirsInv, NextKeptInv, NextSettledInv, NextReportedInv, NextWholeInv,
       TypeCorrect, PTL DEF Spec

-----------------------------------------------------------------------------

\* The errors as module WorkflowRun has them: by step, an ArtifactDirError being one
\* of the step "backupable".
engineErrs == {IF e = "artifactDir" THEN "backupable" ELSE e : e \in errs}

\* The graphs that module WorkflowRun walks are those of the commands.
LEMMA SameGraphs ==
    /\ \A w : Engine!StepsOf(w) = StepsOf(w) /\ Engine!StartingNode(w) = StartingNode(w)
    /\ \A w, n, ok : Engine!NextNode(w, n, ok) = NextNode(w, n, ok)
  <1>1. \A w : Engine!StepsOf(w) = StepsOf(w) /\ Engine!StartingNode(w) = StartingNode(w)
    BY DEF Engine!StepsOf, StepsOf, Engine!StartingNode, StartingNode
  <1>2. \A n : /\ Engine!BackuperOnSuccess(n) = BackuperOnSuccess(n)
               /\ Engine!BackuperOnFailure(n) = BackuperOnFailure(n)
    BY DEF Engine!BackuperOnSuccess, BackuperOnSuccess, Engine!BackuperOnFailure,
           BackuperOnFailure
  <1>3. \A n : /\ Engine!BackupCleanerOnSuccess(n) = BackupCleanerOnSuccess(n)
               /\ Engine!BackupCleanerOnFailure(n) = BackupCleanerOnFailure(n)
    BY DEF Engine!BackupCleanerOnSuccess, BackupCleanerOnSuccess,
           Engine!BackupCleanerOnFailure, BackupCleanerOnFailure
  <1>4. \A n : /\ Engine!BackupCheckerOnSuccess(n) = BackupCheckerOnSuccess(n)
               /\ Engine!BackupCheckerOnFailure(n) = BackupCheckerOnFailure(n)
    BY DEF Engine!BackupCheckerOnSuccess, BackupCheckerOnSuccess,
           Engine!BackupCheckerOnFailure, BackupCheckerOnFailure
  <1>5. \A n : /\ Engine!RestorerOnSuccess(n) = RestorerOnSuccess(n)
               /\ Engine!RestorerOnFailure(n) = RestorerOnFailure(n)
    BY DEF Engine!RestorerOnSuccess, RestorerOnSuccess, Engine!RestorerOnFailure,
           RestorerOnFailure
  <1>6. \A n : /\ Engine!RestoreCleanerOnSuccess(n) = RestoreCleanerOnSuccess(n)
               /\ Engine!RestoreCleanerOnFailure(n) = RestoreCleanerOnFailure(n)
    BY DEF Engine!RestoreCleanerOnSuccess, RestoreCleanerOnSuccess,
           Engine!RestoreCleanerOnFailure, RestoreCleanerOnFailure
  <1> QED
    BY <1>1, <1>2, <1>3, <1>4, <1>5, <1>6 DEF Engine!NextNode, NextNode

\* Every step of the three commands is an iteration of Workflow.Run's loop, the
\* start of a command, its exit, or changes nothing that loop has.
LEMMA StepFollowsWorkflow == TypeOK /\ [Next]_vars => [Engine!Next]_(Engine!vars)
  <1> SUFFICES ASSUME TypeOK, [Next]_vars
               PROVE  [Engine!Next]_(Engine!vars)
    OBVIOUS
  <1> USE DEF session, work, deployment, backup, history
  <1>1. CASE Returns
    <2>1. PICK ok \in BOOLEAN :
             /\ Enter(NextNode(cmd, node, ok))
             /\ ok => errs' = errs
             /\ ~ok => \/ errs' = errs \cup {node}
                       \/ node = "backupable" /\ errs' = errs \cup {"artifactDir"}
      BY <1>1, ReturnEnters
    <2>2. node \in StepsOf(cmd) /\ UNCHANGED cmd
      BY <1>1, ReturnEnters
    <2>3. node # "artifactDir"
      BY <2>2 DEF StepsOf, TypeOK, BackupCommands
    <2>4. engineErrs' = IF ok THEN engineErrs ELSE engineErrs \cup {node}
      <3>1. CASE ok
        BY <2>1, <3>1 DEF engineErrs
      <3>2. CASE ~ok
        BY <2>1, <2>3, <3>2 DEF engineErrs
      <3> QED
        BY <3>1, <3>2
    <2>5. node' = NextNode(cmd, node, ok)
      BY <2>1 DEF Enter
    <2>6. Engine!Step(ok)
      BY <2>2, <2>4, <2>5, SameGraphs DEF Engine!Step, engineErrs
    <2> QED
      BY <2>6 DEF Engine!Next, Engine!RunStep
  <1>2. CASE \E c \in BackupCommands, lockFree \in BOOLEAN : Begin(c, lockFree)
    <2>1. PICK c \in BackupCommands, lockFree \in BOOLEAN : Begin(c, lockFree)
      BY <1>2
    <2>2. engineErrs' = {}
      BY <2>1 DEF Begin, engineErrs
    <2>3. Engine!Start(c)
      BY <2>1, <2>2, SameGraphs DEF Begin, Engine!Start, Engine!Idle, Idle, engineErrs
    <2> QED
      BY <2>3 DEF Engine!Next
  <1>3. CASE Exit
    <2>1. Engine!Exit
      BY <1>3, SameGraphs DEF Exit, Engine!Exit
    <2> QED
      BY <2>1 DEF Engine!Next
  <1>4. CASE UNCHANGED <<cmd, node, errs>>
    BY <1>4 DEF Engine!vars
  <1>5. CASE UNCHANGED vars
    BY <1>4, <1>5 DEF vars
  <1>6. ASSUME NEW j \in Jobs,
               \/ StartScript(j) \/ CreateDirectoryFails(j) \/ EndScript(j) \/ LoseScript(j)
               \/ DrainArtifact(j)
        PROVE  UNCHANGED <<cmd, node, errs>>
    BY <1>6 DEF StartScript, CreateDirectoryFails, EndScript, LoseScript, DrainArtifact
  <1>7. ASSUME NEW i \in Instances, CleanInstance(i)
        PROVE  UNCHANGED <<cmd, node, errs>>
    BY <1>7 DEF CleanInstance
  <1>8. ASSUME NEW kind \in Kinds, NEW j \in Jobs, EndOrphan(kind, j)
        PROVE  UNCHANGED <<cmd, node, errs>>
    BY <1>8 DEF EndOrphan
  <1> QED
    BY <1>1, <1>2, <1>3, <1>4, <1>5, <1>6, <1>7, <1>8 DEF Next, Step, Returns

\* The commands of the three workflows implement the loop of Workflow.Run on every
\* deployment: the safety part of FollowsWorkflow.
THEOREM ImplementsWorkflowRun == Spec => Engine!Init /\ [][Engine!Next]_(Engine!vars)
  <1>1. Init => Engine!Init
    BY DEF Init, Engine!Init, BackupCommands
  <1> QED
    BY <1>1, StepFollowsWorkflow, TypeCorrect, PTL DEF Spec

=============================================================================
