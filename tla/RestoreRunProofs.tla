--------------------------- MODULE RestoreRunProofs ---------------------------
(***************************************************************************)
(* Proofs about module RestoreRun, for every deployment, director and      *)
(* local backup, and any number of commands and interruptions.             *)
(***************************************************************************)
EXTENDS RestoreRun, TLAPS

\* A step of a workflow leads to a step of the same workflow, or ends it.
LEMMA NextNodeType ==
    ASSUME NEW c \in RestoreCommands, NEW n \in StepsOf(c), NEW ok \in BOOLEAN
    PROVE  NextNode(c, n, ok) \in StepsOf(c) \cup {"end"}
  <1>1. CASE c = "restore"
    BY <1>1 DEF NextNode, StepsOf, RestorerOnSuccess, RestorerOnFailure
  <1>2. CASE c = "restore-cleanup"
    BY <1>2 DEF NextNode, StepsOf, RestoreCleanerOnSuccess, RestoreCleanerOnFailure
  <1> QED
    BY <1>1, <1>2 DEF RestoreCommands

\* The names a workflow's steps go by.
LEMMA StepNames ==
    ASSUME NEW c \in RestoreCommands
    PROVE  /\ "none" \notin StepsOf(c) /\ "end" \notin StepsOf(c) /\ "exited" \notin StepsOf(c)
           /\ StartingNode(c) \in StepsOf(c)
           /\ StartingNode(c) \in {"find", "validateArtifact"}
  BY DEF RestoreCommands, StepsOf, StartingNode

\* What comes before each step: the edges of the two workflows, read backwards.
LEMMA Predecessors ==
    ASSUME NEW c \in RestoreCommands, NEW n \in StepsOf(c), NEW ok \in BOOLEAN,
           NEW m, m = NextNode(c, n, ok)
    PROVE  /\ m = "copyToRemote" => n = "restorable" /\ ok
           /\ m = "preRestoreLock" => n = "copyToRemote" /\ ok
           /\ m = "restore" => n = "preRestoreLock" /\ ok
           /\ m = "postRestoreUnlock" /\ c = "restore" =>
                  (n = "preRestoreLock" /\ ~ok) \/ n = "restore"
           /\ m = "cleanup" =>
                  (n \in {"restorable", "copyToRemote"} /\ ~ok) \/ n = "postRestoreUnlock"
           /\ m = "end" /\ c = "restore" =>
                  (n \in {"validateArtifact", "find"} /\ ~ok) \/ n = "cleanup"
           /\ m = "restorable" => n = "find"
           /\ m = "find" => n = "validateArtifact"
           /\ m # "validateArtifact"
           /\ m = "cleanupPrevious" => c = "restore-cleanup" /\ n = "postRestoreUnlock"
           /\ m = "end" /\ c = "restore-cleanup" =>
                  (n = "find" /\ ~ok) \/ n = "cleanupPrevious"
  <1>1. CASE c = "restore"
    BY <1>1 DEF NextNode, StepsOf, RestorerOnSuccess, RestorerOnFailure
  <1>2. CASE c = "restore-cleanup"
    BY <1>2 DEF NextNode, StepsOf, RestoreCleanerOnSuccess, RestoreCleanerOnFailure
  <1> QED
    BY <1>1, <1>2 DEF RestoreCommands

\* The work of a step is a set of jobs or of instances.
LEMMA WorkType ==
    ASSUME NEW n
    PROVE  Work(n) \in SUBSET Jobs \/ Work(n) \in SUBSET Instances
  BY DeploymentAssumption DEF Work, BackupableOrRestorable, PreRestoreLock, PostRestoreUnlock,
     newJobExecutables, Restore, UploadBackupToDeployment, Cleanup, CleanupPrevious

\* The actions in which a step of the workflow returns.
Returns == ValidateArtifact \/ Find \/ Restorable \/ FinishStep

\* A return enters the successor of the step and leaves the deployment alone, ssh
\* users apart; a loop returns an error exactly when something failed in it, and
\* the restore step alone, when it failed, may leave work undone.
LEMMA ReturnEnters ==
    ASSUME TypeOK, Returns
    PROVE  /\ node \in StepsOf(cmd)
           /\ \E ok \in BOOLEAN :
                 /\ Enter(NextNode(cmd, node, ok))
                 /\ ok => errs' = errs
                 /\ ~ok => errs' = errs \cup {node}
                 /\ node \in LoopSteps => ok = ~failed
                 /\ node = "restorable" /\ ok => dir = {}
           /\ UNCHANGED <<cmd, created, local, cyclic, locked, dir, remote, orphans, data, history>>
           /\ node \in LoopSteps => running = {} /\ (pending = {} \/ (node = "restore" /\ failed))
           /\ node # "find" => UNCHANGED users
           /\ users' \in SUBSET Instances
  <1> USE DEF Succeed, Fail, deployment
  <1>1. CASE ValidateArtifact
    BY <1>1 DEF ValidateArtifact, TypeOK, Idle, LoopSteps, ScriptSteps
  <1>2. CASE Find
    <2>1. users' \in SUBSET Instances
      BY <1>2 DEF Find, FindDeployment
    <2> QED
      BY <1>2, <2>1 DEF Find, TypeOK, Idle, LoopSteps, ScriptSteps
  <1>3. CASE Restorable
    BY <1>3 DEF Restorable, TypeOK, Idle, LoopSteps, ScriptSteps
  <1>4. CASE FinishStep
    <2>1. /\ node \in LoopSteps /\ ReturnErrors
          /\ pending = {} \/ (node = "restore" /\ failed)
      BY <1>4 DEF FinishStep, CopyToRemoteStep, PreRestoreLockStep, RestoreStep,
                  PostRestoreUnlockStep, CleanupStep, CleanupPreviousStep, LoopSteps, ScriptSteps
    <2>2. node \in StepsOf(cmd) /\ node # "restorable"
      BY <2>1 DEF TypeOK, Idle, LoopSteps, ScriptSteps
    <2> QED
      BY <1>4, <2>1, <2>2 DEF FinishStep, ReturnErrors, TypeOK
  <1> QED
    BY <1>1, <1>2, <1>3, <1>4 DEF Returns

-----------------------------------------------------------------------------

\* The initial states are well typed.
LEMMA InitType == Init => TypeOK
  <1> SUFFICES ASSUME Init PROVE TypeOK
    OBVIOUS
  <1>1. /\ cmd \in RestoreCommands
        /\ node \in StepsOf(cmd) \cup Idle
        /\ errs \in SUBSET StepsOf(cmd)
        /\ pending \in SUBSET Jobs
        /\ running \in SUBSET Jobs /\ running = {} /\ failed \in BOOLEAN
    BY DEF Init, RestoreCommands, Idle
  <1>2. /\ created \in SUBSET Instances /\ locked \in SUBSET Jobs
        /\ users \in SUBSET Instances /\ orphans \in SUBSET (Kinds \X Jobs)
        /\ found \in SUBSET Instances
        /\ cyclic \in BOOLEAN /\ quiet \in BOOLEAN /\ fresh \in BOOLEAN /\ runs \in Nat
    BY DEF Init
  <1>3. dir \in SUBSET Instances
    BY DeploymentAssumption DEF Init
  <1>4. /\ local \in [HasRestore -> {"absent", "unrecorded", "recorded", "corrupt"}]
        /\ remote \in [HasRestore -> {"none", "partial", "whole"}]
        /\ data \in [HasRestore -> {"old", "mixed", "new"}]
    BY DEF Init
  <1> QED
    BY <1>1, <1>2, <1>3, <1>4 DEF TypeOK

\* What a script does to a job keeps the types of the deployment.
LEMMA EffectType ==
    ASSUME TypeOK, NEW kind \in Kinds, NEW j \in Jobs, Effect(kind, j) \/ NoEffect
    PROVE  /\ locked' \in SUBSET Jobs
           /\ data' \in [HasRestore -> {"old", "mixed", "new"}]
  <1>1. CASE NoEffect
    BY <1>1 DEF NoEffect, TypeOK
  <1>2. CASE Effect(kind, j)
    BY <1>2 DEF Effect, Kinds, TypeOK
  <1> QED
    BY <1>1, <1>2

\* Every step of every command keeps the types.
LEMMA NextType == TypeOK /\ [Next]_vars => TypeOK'
  <1> SUFFICES ASSUME TypeOK, [Next]_vars
               PROVE  TypeOK'
    OBVIOUS
  <1> USE DeploymentAssumption DEF session, work, deployment, history
  <1>0. CASE UNCHANGED vars
    BY <1>0 DEF TypeOK, vars
  <1>1. CASE Returns
    <2>1. PICK ok \in BOOLEAN :
             /\ Enter(NextNode(cmd, node, ok))
             /\ errs' \in {errs, errs \cup {node}}
      BY <1>1, ReturnEnters
    <2>2. /\ node \in StepsOf(cmd)
          /\ UNCHANGED <<cmd, created, local, cyclic, locked, dir, remote, orphans, data, history>>
          /\ users' \in SUBSET Instances
      BY <1>1, ReturnEnters
    <2>3. NextNode(cmd, node, ok) \in StepsOf(cmd) \cup Idle
      BY <2>2, NextNodeType DEF TypeOK, Idle
    <2>4. /\ node' \in StepsOf(cmd) \cup Idle
          /\ pending' \in SUBSET Jobs \/ pending' \in SUBSET Instances
          /\ running' = {} /\ failed' \in BOOLEAN
      BY <2>1, <2>3, WorkType DEF Enter, TypeOK
    <2>5. errs' \in SUBSET StepsOf(cmd)
      BY <2>1, <2>2 DEF TypeOK
    <2> QED
      BY <2>2, <2>4, <2>5 DEF TypeOK
  <1>2. ASSUME NEW j \in HasRestore, StartUpload(j)
        PROVE  TypeOK'
    BY <1>2 DEF StartUpload, TypeOK
  <1>3. ASSUME NEW j \in HasRestore, StartUploadFails(j)
        PROVE  TypeOK'
    BY <1>3 DEF StartUploadFails, TypeOK
  <1>4. ASSUME NEW j \in HasRestore, StreamFails(j)
        PROVE  TypeOK'
    BY <1>4 DEF StreamFails, TypeOK
  <1>5. ASSUME NEW j \in HasRestore, EndUpload(j)
        PROVE  TypeOK'
    <2>1. /\ remote' \in [HasRestore -> {"none", "partial", "whole"}]
          /\ created' \in SUBSET Instances
      BY <1>5 DEF EndUpload, TypeOK
    <2>2. failed' \in BOOLEAN /\ quiet' \in BOOLEAN
      BY <1>5 DEF EndUpload, ChecksumsMatch, TypeOK
    <2> QED
      BY <1>5, <2>1, <2>2 DEF EndUpload, TypeOK
  <1>6. ASSUME NEW j \in Jobs, StartScript(j)
        PROVE  TypeOK'
    <2>1. data' \in [HasRestore -> {"old", "mixed", "new"}]
      BY <1>6 DEF StartScript, TypeOK
    <2> QED
      BY <1>6, <2>1 DEF StartScript, TypeOK
  <1>7. ASSUME NEW j \in Jobs, EndScript(j)
        PROVE  TypeOK'
    <2>1. Kind(node) \in Kinds
      BY DEF Kind, Kinds
    <2>2. /\ locked' \in SUBSET Jobs
          /\ data' \in [HasRestore -> {"old", "mixed", "new"}]
      BY <1>7, <2>1, EffectType DEF EndScript
    <2> QED
      BY <1>7, <2>2 DEF EndScript, TypeOK
  <1>8. ASSUME NEW j \in Jobs, LoseScript(j)
        PROVE  TypeOK'
    <2>1. orphans' \in SUBSET (Kinds \X Jobs)
      BY <1>8 DEF LoseScript, TypeOK, Kind, Kinds
    <2>2. /\ running' \in SUBSET Jobs
          /\ running' # {} => node \in ScriptSteps \cup {"copyToRemote"}
      BY <1>8 DEF LoseScript, TypeOK
    <2> QED
      BY <1>8, <2>1, <2>2 DEF LoseScript, TypeOK
  <1>9. ASSUME NEW i \in Instances, CleanInstance(i)
        PROVE  TypeOK'
    <2>1. /\ dir' \in SUBSET Instances /\ users' \in SUBSET Instances
          /\ remote' \in [HasRestore -> {"none", "partial", "whole"}]
      BY <1>9 DEF CleanInstance, RemoveArtifactDir, TypeOK
    <2>2. failed' \in BOOLEAN /\ quiet' \in BOOLEAN
      BY <1>9 DEF CleanInstance, RemoveArtifactDir, Removes, TypeOK
    <2> QED
      BY <1>9, <2>1, <2>2 DEF CleanInstance, RemoveArtifactDir, TypeOK
  <1>10. ASSUME NEW c \in RestoreCommands, Begin(c)
         PROVE  TypeOK'
    <2>1. /\ cmd' \in RestoreCommands
          /\ node' \in StepsOf(cmd') \cup Idle
          /\ errs' \in SUBSET StepsOf(cmd')
      BY <1>10, StepNames DEF Begin
    <2>2. /\ quiet' \in BOOLEAN /\ fresh' \in BOOLEAN /\ found' \in SUBSET Instances
          /\ runs' \in Nat
      BY <1>10 DEF Begin, TypeOK
    <2>3. data' \in [HasRestore -> {"old", "mixed", "new"}]
      BY <1>10 DEF Begin
    <2> QED
      BY <1>10, <2>1, <2>2, <2>3 DEF Begin, TypeOK
  <1>11. ASSUME NEW kind \in Kinds, NEW j \in Jobs, EndOrphan(kind, j)
         PROVE  TypeOK'
    <2>1. /\ locked' \in SUBSET Jobs
          /\ data' \in [HasRestore -> {"old", "mixed", "new"}]
      BY <1>11, EffectType DEF EndOrphan
    <2> QED
      BY <1>11, <2>1 DEF EndOrphan, TypeOK
  <1>12. CASE Exit
    <2>1. Kind(node) \in Kinds
      BY DEF Kind, Kinds
    <2>2. orphans' \in SUBSET (Kinds \X Jobs)
      BY <1>12, <2>1 DEF Exit, TypeOK
    <2>3. quiet' \in BOOLEAN
      BY <1>12 DEF Exit, TypeOK
    <2> QED
      BY <1>12, <2>2, <2>3 DEF Exit, TypeOK, Idle
  <1> QED
    BY <1>0, <1>1, <1>2, <1>3, <1>4, <1>5, <1>6, <1>7, <1>8, <1>9, <1>10, <1>11, <1>12
       DEF Next, Step, Returns

\* Every variable keeps its type in every run of the commands, on every deployment.
THEOREM TypeCorrect == Spec => []TypeOK
  BY InitType, NextType, PTL DEF Spec

-----------------------------------------------------------------------------

\* While no orphan is about: during locking every job with a lock script is locked
\* or still to be locked, unless a script failed; during the restore all of them are.
LockedInv ==
    /\ quiet => orphans = {}
    /\ node = "preRestoreLock" /\ quiet /\ ~failed =>
           HasLock \subseteq pending \cup running \cup locked
    /\ node = "restore" /\ quiet => HasLock \subseteq locked

\* What equals the record of it is recorded.  During the uploads every artifact is
\* verified or still to come, unless one failed or a session ended in io.EOF; in
\* the steps after them all are.
Verified(j) == local[j] = "recorded" /\ remote[j] = "whole"
VerifiedInv ==
    /\ \A j \in HasRestore : remote[j] = "whole" => local[j] = "recorded"
    /\ node = "copyToRemote" /\ quiet /\ ~failed =>
           \A j \in HasRestore : j \in pending \cup running \/ Verified(j)
    /\ node \in {"preRestoreLock", "restore"} /\ quiet => \A j \in HasRestore : Verified(j)

\* restore keeps the directories it found; it uploads, and marks directories as its
\* own, only when it found none.
KeptInv ==
    /\ cmd = "restore" => found \subseteq dir
    /\ cmd = "restore" /\ created # {} => found = {}
    /\ node = "copyToRemote" => cmd = "restore" /\ found = {}

\* Directories are only where restore-cleanup looks for them.  While no orphan is
\* about, what is still locked, or still has a directory, restore-cleanup has not
\* come to yet, unless something failed.
RestoredInv ==
    /\ dir \subseteq BackupableOrRestorable
    /\ quiet => orphans = {}
    /\ node = "postRestoreUnlock" /\ quiet /\ ~failed =>
           locked \cap HasUnlock \subseteq pending \cup running
    /\ cmd = "restore-cleanup" /\ node \in {"cleanupPrevious", "end"} /\ quiet /\ errs = {} =>
           locked \cap HasUnlock = {}
    /\ node = "cleanupPrevious" /\ quiet /\ ~failed => dir \subseteq pending
    /\ cmd = "restore-cleanup" /\ node = "end" /\ quiet /\ errs = {} => dir = {}

-----------------------------------------------------------------------------

\* Every step keeps LockedInv: a failed lock script never leads to the restore step.
LEMMA NextLockedInv == TypeOK /\ LockedInv /\ [Next]_vars => LockedInv'
  <1> SUFFICES ASSUME TypeOK, LockedInv, [Next]_vars
               PROVE  LockedInv'
    OBVIOUS
  <1> USE DEF session, work, deployment, history
  <1>0. CASE UNCHANGED vars
    BY <1>0 DEF LockedInv, vars
  <1>1. CASE Returns
    <2>1. PICK ok \in BOOLEAN :
             /\ Enter(NextNode(cmd, node, ok))
             /\ node \in LoopSteps => ok = ~failed
      BY <1>1, ReturnEnters
    <2>2. /\ node' = "restore" => node = "preRestoreLock" /\ ~failed
          /\ UNCHANGED <<cyclic, locked, orphans, quiet>>
          /\ node = "preRestoreLock" => pending = {} /\ running = {}
      BY <1>1, <2>1, ReturnEnters, Predecessors
         DEF Enter, TypeOK, LoopSteps, ScriptSteps
    <2>3. node' = "preRestoreLock" /\ ~failed' => pending' = HasLock
      BY <2>1, <2>2 DEF Enter, Work, Ordered, PreRestoreLock, newJobExecutables
    <2> QED
      BY <2>2, <2>3 DEF LockedInv
  <1>2. ASSUME NEW j \in HasRestore, StartUpload(j)
        PROVE  LockedInv'
    BY <1>2 DEF StartUpload, LockedInv
  <1>3. ASSUME NEW j \in HasRestore, StartUploadFails(j)
        PROVE  LockedInv'
    BY <1>3 DEF StartUploadFails, LockedInv
  <1>4. ASSUME NEW j \in HasRestore, StreamFails(j)
        PROVE  LockedInv'
    BY <1>4 DEF StreamFails, LockedInv
  <1>5. ASSUME NEW j \in HasRestore, EndUpload(j)
        PROVE  LockedInv'
    BY <1>5 DEF EndUpload, LockedInv
  <1>6. ASSUME NEW j \in Jobs, StartScript(j)
        PROVE  LockedInv'
    BY <1>6 DEF StartScript, LockedInv
  <1>7. ASSUME NEW j \in Jobs, EndScript(j)
        PROVE  LockedInv'
    <2>1. CASE node = "preRestoreLock"
      BY <1>7, <2>1 DEF EndScript, Effect, NoEffect, Kind, LockedInv
    <2>2. CASE node = "restore"
      BY <1>7, <2>2 DEF EndScript, Effect, NoEffect, Kind, LockedInv
    <2>3. CASE node \notin {"preRestoreLock", "restore"}
      BY <1>7, <2>3 DEF EndScript, LockedInv
    <2> QED
      BY <2>1, <2>2, <2>3
  <1>8. ASSUME NEW j \in Jobs, LoseScript(j)
        PROVE  LockedInv'
    BY <1>8 DEF LoseScript, LockedInv
  <1>9. ASSUME NEW i \in Instances, CleanInstance(i)
        PROVE  LockedInv'
    BY <1>9 DEF CleanInstance, RemoveArtifactDir, LockedInv
  <1>10. ASSUME NEW c \in RestoreCommands, Begin(c)
        PROVE  LockedInv'
    BY <1>10, StepNames DEF Begin, LockedInv
  <1>11. ASSUME NEW kind \in Kinds, NEW j \in Jobs, EndOrphan(kind, j)
        PROVE  LockedInv'
    BY <1>11 DEF EndOrphan, LockedInv
  <1>12. CASE Exit
    BY <1>12 DEF Exit, LockedInv
  <1> QED
    BY <1>0, <1>1, <1>2, <1>3, <1>4, <1>5, <1>6, <1>7,
       <1>8, <1>9, <1>10, <1>11, <1>12
       DEF Next, Step, Returns

\* On every deployment, and whatever was interrupted or failed before: a restore
\* script runs only while every job with a lock script is locked.
THEOREM RestoreOnlyWhileLocked == Spec => []RestoreWhileLocked
  <1>1. Init => LockedInv
    BY DEF Init, LockedInv
  <1>2. LockedInv => RestoreWhileLocked
    BY DEF LockedInv, RestoreWhileLocked
  <1> QED
    BY <1>1, <1>2, NextLockedInv, TypeCorrect, PTL DEF Spec

-----------------------------------------------------------------------------

\* Every step keeps VerifiedInv: an upload ends without a failure only when the
\* checksums match, and a failed upload never leads to the lock step.
LEMMA NextVerifiedInv == TypeOK /\ VerifiedInv /\ [Next]_vars => VerifiedInv'
  <1> SUFFICES ASSUME TypeOK, VerifiedInv, [Next]_vars
               PROVE  VerifiedInv'
    OBVIOUS
  <1> USE DEF session, work, deployment, history
  <1>0. CASE UNCHANGED vars
    BY <1>0 DEF VerifiedInv, vars, Verified
  <1>1. CASE Returns
    <2>1. PICK ok \in BOOLEAN :
             /\ Enter(NextNode(cmd, node, ok))
             /\ node \in LoopSteps => ok = ~failed
      BY <1>1, ReturnEnters
    <2>2. /\ node' = "preRestoreLock" => node = "copyToRemote" /\ ~failed
          /\ node' = "restore" => node = "preRestoreLock"
          /\ UNCHANGED <<local, remote, quiet>>
          /\ node = "copyToRemote" => pending = {} /\ running = {}
      BY <1>1, <2>1, ReturnEnters, Predecessors
         DEF Enter, TypeOK, LoopSteps, ScriptSteps
    <2>3. node' = "copyToRemote" => pending' = HasRestore
      BY <2>1 DEF Enter, Work, UploadBackupToDeployment, AllRestoreable
    <2> QED
      BY <2>2, <2>3 DEF VerifiedInv, Verified
  <1>2. ASSUME NEW j \in HasRestore, StartUpload(j)
        PROVE  VerifiedInv'
    BY <1>2 DEF StartUpload, VerifiedInv, Verified, TypeOK
  <1>3. ASSUME NEW j \in HasRestore, StartUploadFails(j)
        PROVE  VerifiedInv'
    BY <1>3 DEF StartUploadFails, VerifiedInv, Verified
  <1>4. ASSUME NEW j \in HasRestore, StreamFails(j)
        PROVE  VerifiedInv'
    BY <1>4 DEF StreamFails, VerifiedInv, Verified
  <1>5. ASSUME NEW j \in HasRestore, EndUpload(j)
        PROVE  VerifiedInv'
    <2>1. /\ remote' = remote \/ (local[j] = "recorded" /\ remote' = [remote EXCEPT ![j] = "whole"])
          /\ UNCHANGED <<node, pending, local>> /\ running' = running \ {j}
          /\ node = "copyToRemote" /\ (quiet' => quiet) /\ (~failed' => ~failed)
      BY <1>5 DEF EndUpload, TypeOK
    <2>2. \A k \in HasRestore : remote'[k] = "whole" => local[k] = "recorded"
      BY <2>1 DEF VerifiedInv, TypeOK
    <2>3. quiet' /\ ~failed' => remote'[j] = "whole"
      BY <1>5 DEF EndUpload, ChecksumsMatch, TypeOK
    <2>4. \A k \in HasRestore : k # j => remote'[k] = remote[k]
      BY <2>1 DEF TypeOK
    <2>5. quiet' /\ ~failed' =>
             \A k \in HasRestore :
                 k \in pending \cup (running \ {j}) \/ (local[k] = "recorded" /\ remote'[k] = "whole")
      BY <2>1, <2>2, <2>3, <2>4 DEF VerifiedInv, Verified
    <2> QED
      BY <2>1, <2>2, <2>5 DEF VerifiedInv, Verified
  <1>6. ASSUME NEW j \in Jobs, StartScript(j)
        PROVE  VerifiedInv'
    BY <1>6 DEF StartScript, ScriptSteps, VerifiedInv, Verified
  <1>7. ASSUME NEW j \in Jobs, EndScript(j)
        PROVE  VerifiedInv'
    BY <1>7 DEF EndScript, ScriptSteps, VerifiedInv, Verified
  <1>8. ASSUME NEW j \in Jobs, LoseScript(j)
        PROVE  VerifiedInv'
    BY <1>8 DEF LoseScript, VerifiedInv, Verified
  <1>9. ASSUME NEW i \in Instances, CleanInstance(i)
        PROVE  VerifiedInv'
    <2>1. \A k \in HasRestore : remote'[k] \in {remote[k], "none"}
      BY <1>9 DEF CleanInstance, RemoveArtifactDir, TypeOK
    <2>2. /\ node' = node /\ node \in {"cleanup", "cleanupPrevious"}
          /\ local' = local
      BY <1>9 DEF CleanInstance, RemoveArtifactDir
    <2> QED
      BY <2>1, <2>2 DEF VerifiedInv, Verified
  <1>10. ASSUME NEW c \in RestoreCommands, Begin(c)
        PROVE  VerifiedInv'
    BY <1>10, StepNames DEF Begin, VerifiedInv, Verified
  <1>11. ASSUME NEW kind \in Kinds, NEW j \in Jobs, EndOrphan(kind, j)
        PROVE  VerifiedInv'
    BY <1>11 DEF EndOrphan, VerifiedInv, Verified
  <1>12. CASE Exit
    BY <1>12 DEF Exit, VerifiedInv, Verified
  <1> QED
    BY <1>0, <1>1, <1>2, <1>3, <1>4, <1>5, <1>6, <1>7,
       <1>8, <1>9, <1>10, <1>11, <1>12
       DEF Next, Step, Returns

\* For every deployment and every local backup: the first lock script runs only
\* when every artifact is on its instance as the backup's metadata records it.
THEOREM VerifiedBeforeLocking == Spec => []AllVerifiedFirst
  <1>1. Init => VerifiedInv
    BY DEF Init, VerifiedInv, Verified
  <1>2. VerifiedInv => AllVerifiedFirst
    BY DEF VerifiedInv, Verified, AllVerifiedFirst
  <1> QED
    BY <1>1, <1>2, NextVerifiedInv, TypeCorrect, PTL DEF Spec

-----------------------------------------------------------------------------

\* Every step keeps KeptInv.
LEMMA NextKeptInv == TypeOK /\ KeptInv /\ [Next]_vars => KeptInv'
  <1> SUFFICES ASSUME TypeOK, KeptInv, [Next]_vars
               PROVE  KeptInv'
    OBVIOUS
  <1> USE DEF session, work, deployment, history
  <1>0. CASE UNCHANGED vars
    BY <1>0 DEF KeptInv, vars
  <1>1. CASE Returns
    <2>1. PICK ok \in BOOLEAN :
             /\ Enter(NextNode(cmd, node, ok))
             /\ node = "restorable" /\ ok => dir = {}
      BY <1>1, ReturnEnters
    <2>2. node \in StepsOf(cmd) /\ UNCHANGED <<cmd, created, dir, found>>
      BY <1>1, ReturnEnters DEF history
    <2>3. node = "restorable" => cmd = "restore"
      BY <2>2 DEF StepsOf, TypeOK, RestoreCommands
    <2>4. node' = "copyToRemote" => cmd = "restore" /\ found = {}
      <3>1. node' = "copyToRemote" => node = "restorable" /\ ok
        BY <2>1, <2>2, Predecessors DEF Enter, TypeOK
      <3> QED
        BY <2>1, <2>3, <3>1 DEF KeptInv
    <2> QED
      BY <2>2, <2>4 DEF KeptInv
  <1>2. ASSUME NEW j \in HasRestore, StartUpload(j)
        PROVE  KeptInv'
    BY <1>2 DEF StartUpload, KeptInv
  <1>3. ASSUME NEW j \in HasRestore, StartUploadFails(j)
        PROVE  KeptInv'
    BY <1>3 DEF StartUploadFails, KeptInv
  <1>4. ASSUME NEW j \in HasRestore, StreamFails(j)
        PROVE  KeptInv'
    BY <1>4 DEF StreamFails, KeptInv
  <1>5. ASSUME NEW j \in HasRestore, EndUpload(j)
        PROVE  KeptInv'
    BY <1>5 DEF EndUpload, KeptInv
  <1>6. ASSUME NEW j \in Jobs, StartScript(j)
        PROVE  KeptInv'
    BY <1>6 DEF StartScript, KeptInv
  <1>7. ASSUME NEW j \in Jobs, EndScript(j)
        PROVE  KeptInv'
    BY <1>7 DEF EndScript, KeptInv
  <1>8. ASSUME NEW j \in Jobs, LoseScript(j)
        PROVE  KeptInv'
    BY <1>8 DEF LoseScript, KeptInv
  <1>9. ASSUME NEW i \in Instances, CleanInstance(i)
        PROVE  KeptInv'
    <2>1. node = "cleanupPrevious" => cmd = "restore-cleanup"
      BY DEF TypeOK, RestoreCommands, StepsOf, Idle
    <2>2. dir' = dir \/ (dir' = dir \ {i} /\ Removes(i))
      BY <1>9 DEF CleanInstance, RemoveArtifactDir
    <2>3. UNCHANGED <<cmd, node, created, found>>
      BY <1>9 DEF CleanInstance, RemoveArtifactDir
    <2> QED
      BY <2>1, <2>2, <2>3 DEF KeptInv, Removes
  <1>10. ASSUME NEW c \in RestoreCommands, Begin(c)
        PROVE  KeptInv'
    BY <1>10, StepNames DEF Begin, KeptInv
  <1>11. ASSUME NEW kind \in Kinds, NEW j \in Jobs, EndOrphan(kind, j)
        PROVE  KeptInv'
    BY <1>11 DEF EndOrphan, KeptInv
  <1>12. CASE Exit
    BY <1>12 DEF Exit, KeptInv
  <1> QED
    BY <1>0, <1>1, <1>2, <1>3, <1>4, <1>5, <1>6, <1>7,
       <1>8, <1>9, <1>10, <1>11, <1>12
       DEF Next, Step, Returns

\* For every deployment: whatever artifact directories an earlier command left,
\* restore removes none of them.
THEOREM LeftoversAreKept == Spec => []LeftoverDirectoriesKept
  <1>1. Init => KeptInv
    BY DEF Init, KeptInv
  <1>2. KeptInv => LeftoverDirectoriesKept
    BY DEF KeptInv, LeftoverDirectoriesKept
  <1> QED
    BY <1>1, <1>2, NextKeptInv, TypeCorrect, PTL DEF Spec

-----------------------------------------------------------------------------

\* Every step keeps RestoredInv: the unlock step and the clean-up step of
\* restore-cleanup each go through all there is, and report what they could not do.
LEMMA NextRestoredInv == TypeOK /\ RestoredInv /\ [Next]_vars => RestoredInv'
  <1> SUFFICES ASSUME TypeOK, RestoredInv, [Next]_vars
               PROVE  RestoredInv'
    OBVIOUS
  <1> USE DEF session, work, deployment, history
  <1>0. CASE UNCHANGED vars
    BY <1>0 DEF RestoredInv, vars
  <1>1. CASE Returns
    <2>1. PICK ok \in BOOLEAN :
             /\ Enter(NextNode(cmd, node, ok))
             /\ ok => errs' = errs
             /\ ~ok => errs' # {}
             /\ node \in LoopSteps => ok = ~failed
      BY <1>1, ReturnEnters
    <2>2. /\ node \in StepsOf(cmd)
          /\ UNCHANGED <<cmd, cyclic, locked, dir, orphans, quiet>>
          /\ node \in LoopSteps => running = {} /\ (pending = {} \/ node = "restore")
      BY <1>1, ReturnEnters DEF history
    <2>3. /\ node' = "cleanupPrevious" =>
                 cmd = "restore-cleanup" /\ node = "postRestoreUnlock"
          /\ node' = "end" /\ cmd = "restore-cleanup" =>
                 (node = "find" /\ ~ok) \/ node = "cleanupPrevious"
      BY <2>1, <2>2, Predecessors DEF Enter, TypeOK
    <2>4. node' = "postRestoreUnlock" /\ ~failed' => pending' = HasUnlock
      BY <2>1, <2>2 DEF Enter, Work, Ordered, PostRestoreUnlock, newJobExecutables
    <2>5. node' = "cleanupPrevious" => pending' = BackupableOrRestorable
      BY <2>1 DEF Enter, Work, CleanupPrevious
    <2>6. {"postRestoreUnlock", "cleanupPrevious"} \subseteq LoopSteps
      BY DEF LoopSteps, ScriptSteps
    <2>7. ASSUME cmd = "restore-cleanup", node' \in {"cleanupPrevious", "end"}, quiet, errs' = {}
          PROVE  locked \cap HasUnlock = {} /\ (node' = "end" => dir = {})
      BY <2>1, <2>2, <2>3, <2>6, <2>7 DEF RestoredInv
    <2> QED
      BY <2>2, <2>4, <2>5, <2>7 DEF RestoredInv
  <1>2. ASSUME NEW j \in HasRestore, StartUpload(j)
        PROVE  RestoredInv'
    BY <1>2, DeploymentAssumption DEF StartUpload, RestoredInv, BackupableOrRestorable
  <1>3. ASSUME NEW j \in HasRestore, StartUploadFails(j)
        PROVE  RestoredInv'
    BY <1>3, DeploymentAssumption DEF StartUploadFails, RestoredInv, BackupableOrRestorable
  <1>4. ASSUME NEW j \in HasRestore, StreamFails(j)
        PROVE  RestoredInv'
    BY <1>4 DEF StreamFails, RestoredInv
  <1>5. ASSUME NEW j \in HasRestore, EndUpload(j)
        PROVE  RestoredInv'
    BY <1>5 DEF EndUpload, RestoredInv
  <1>6. ASSUME NEW j \in Jobs, StartScript(j)
        PROVE  RestoredInv'
    BY <1>6 DEF StartScript, RestoredInv, ScriptSteps
  <1>7. ASSUME NEW j \in Jobs, EndScript(j)
        PROVE  RestoredInv'
    <2>1. node \in ScriptSteps
      BY <1>7 DEF EndScript
    <2>2. CASE node = "postRestoreUnlock"
      BY <1>7, <2>2 DEF EndScript, Effect, NoEffect, Kind, RestoredInv
    <2>3. CASE node # "postRestoreUnlock"
      BY <1>7, <2>1, <2>3 DEF EndScript, RestoredInv, ScriptSteps
    <2> QED
      BY <2>2, <2>3
  <1>8. ASSUME NEW j \in Jobs, LoseScript(j)
        PROVE  RestoredInv'
    BY <1>8 DEF LoseScript, RestoredInv
  <1>9. ASSUME NEW i \in Instances, CleanInstance(i)
        PROVE  RestoredInv'
    <2>1. UNCHANGED <<cmd, node, errs, locked, orphans>> /\ (quiet' => quiet)
      BY <1>9 DEF CleanInstance, RemoveArtifactDir
    <2>2. node = "cleanupPrevious" /\ ~failed' /\ quiet' => ~failed /\ dir' = dir \ {i}
      BY <1>9 DEF CleanInstance, RemoveArtifactDir, Removes, TypeOK
    <2>3. /\ node \in {"cleanup", "cleanupPrevious"} /\ pending' = pending \ {i}
          /\ dir' \subseteq dir
      BY <1>9 DEF CleanInstance, RemoveArtifactDir
    <2> QED
      BY <2>1, <2>2, <2>3 DEF RestoredInv
  <1>10. ASSUME NEW c \in RestoreCommands, Begin(c)
        PROVE  RestoredInv'
    BY <1>10, StepNames DEF Begin, RestoredInv
  <1>11. ASSUME NEW kind \in Kinds, NEW j \in Jobs, EndOrphan(kind, j)
        PROVE  RestoredInv'
    BY <1>11 DEF EndOrphan, RestoredInv
  <1>12. CASE Exit
    BY <1>12 DEF Exit, RestoredInv
  <1> QED
    BY <1>0, <1>1, <1>2, <1>3, <1>4, <1>5, <1>6, <1>7,
       <1>8, <1>9, <1>10, <1>11, <1>12
       DEF Next, Step, Returns

\* For every deployment, and wherever earlier commands were interrupted: once
\* restore-cleanup has ended without an error no job that can be unlocked is locked,
\* and no artifact directory is left.
THEOREM CleanupDoesRestore == Spec => []RestoreCleanupRestores
  <1>1. Init => RestoredInv
    BY DEF Init, RestoredInv, BackupableOrRestorable
  <1>2. RestoredInv => RestoreCleanupRestores
    BY DEF RestoredInv, RestoreCleanupRestores
  <1> QED
    BY <1>1, <1>2, NextRestoredInv, TypeCorrect, PTL DEF Spec

-----------------------------------------------------------------------------

\* What a restore without an error has done so far: every directory it made is
\* marked as its own, once its upload ended; while no orphan is about, every job is
\* restored or still to be restored, then all of them are, none that can be unlocked
\* stays locked, and what the clean-up has left is on the instances still to come.
DoneInv ==
    cmd = "restore" =>
        /\ node = "copyToRemote" /\ ~failed =>
               dir \subseteq created \cup {InstanceOf[j] : j \in running}
        /\ node \in {"preRestoreLock", "restore"} => dir \subseteq created
        /\ node \in {"postRestoreUnlock", "cleanup"} /\ errs = {} => dir \subseteq created
        /\ node = "restore" /\ quiet /\ ~failed =>
               \A j \in HasRestore : j \in pending \cup running \/ data[j] = "new"
        /\ node \in {"postRestoreUnlock", "cleanup", "end"} /\ quiet /\ errs = {} =>
               \A j \in HasRestore : data[j] = "new"
        /\ node \in {"cleanup", "end"} /\ quiet /\ errs = {} => locked \cap HasUnlock = {}
        /\ node = "cleanup" /\ ~failed =>
               users \subseteq pending /\ (quiet /\ errs = {} => dir \subseteq pending)
        /\ node = "end" /\ errs = {} => users = {} /\ (quiet => dir = {})

\* Every step keeps DoneInv.
LEMMA NextDoneInv == TypeOK /\ RestoredInv /\ DoneInv /\ [Next]_vars => DoneInv'
  <1> SUFFICES ASSUME TypeOK, RestoredInv, DoneInv, [Next]_vars
               PROVE  DoneInv'
    OBVIOUS
  <1> USE DEF session, work, deployment, history
  <1>0. CASE UNCHANGED vars
    BY <1>0 DEF DoneInv, vars
  <1>1. CASE Returns
    <2> SUFFICES ASSUME cmd = "restore"
                 PROVE  DoneInv'
      BY <1>1, ReturnEnters DEF DoneInv
    <2>1. PICK ok \in BOOLEAN :
             /\ Enter(NextNode(cmd, node, ok))
             /\ ok => errs' = errs
             /\ ~ok => errs' = errs \cup {node}
             /\ node \in LoopSteps => ok = ~failed
             /\ node = "restorable" /\ ok => dir = {}
      BY <1>1, ReturnEnters
    <2>2. /\ node \in StepsOf(cmd)
          /\ UNCHANGED <<cmd, created, locked, dir, data, quiet>>
          /\ node # "find" => UNCHANGED users
          /\ node \in LoopSteps => running = {} /\ (pending = {} \/ (node = "restore" /\ failed))
      BY <1>1, ReturnEnters DEF history
    <2>3. /\ node' = "copyToRemote" => node = "restorable" /\ ok
          /\ node' = "preRestoreLock" => node = "copyToRemote" /\ ok
          /\ node' = "restore" => node = "preRestoreLock" /\ ok
          /\ node' = "postRestoreUnlock" =>
                 (node = "preRestoreLock" /\ ~ok) \/ node = "restore"
          /\ node' = "cleanup" =>
                 (node \in {"restorable", "copyToRemote"} /\ ~ok) \/ node = "postRestoreUnlock"
          /\ node' = "end" => (node \in {"validateArtifact", "find"} /\ ~ok) \/ node = "cleanup"
      BY <2>1, <2>2, Predecessors DEF Enter, TypeOK
    <2>4. {"copyToRemote", "restore", "postRestoreUnlock", "cleanup"} \subseteq LoopSteps
      BY DEF LoopSteps, ScriptSteps
    <2>5. /\ node' = "cleanup" => pending' = Instances
          /\ node' = "restore" => pending' = HasRestore
      BY <2>1 DEF Enter, Work, Cleanup, Restore, AllRestoreable
    <2>6. node' = "copyToRemote" => dir = {}
      BY <2>1, <2>3
    <2>7. node' \in {"preRestoreLock", "restore"} => dir \subseteq created
      BY <2>1, <2>2, <2>3, <2>4 DEF DoneInv
    <2>8. ASSUME errs' = {}, node' \in {"postRestoreUnlock", "cleanup", "end"}
          PROVE  /\ ok /\ errs = {} /\ ~failed /\ pending = {} /\ running = {}
                 /\ node \in {"restore", "postRestoreUnlock", "cleanup"}
                 /\ quiet => \A j \in HasRestore : data[j] = "new"
                 /\ node' \in {"postRestoreUnlock", "cleanup"} => dir \subseteq created
      <3>1. ok /\ errs = {} /\ node \in {"restore", "postRestoreUnlock", "cleanup"}
        BY <2>1, <2>3, <2>8
      <3>2. ~failed /\ pending = {} /\ running = {}
        BY <2>1, <2>2, <2>4, <3>1
      <3>3. quiet => \A j \in HasRestore : data[j] = "new"
        BY <3>1, <3>2 DEF DoneInv
      <3>4. node' \in {"postRestoreUnlock", "cleanup"} => dir \subseteq created
        BY <2>3, <2>8, <3>1 DEF DoneInv
      <3> QED
        BY <3>1, <3>2, <3>3, <3>4
    <2>9. ASSUME errs' = {}, node' \in {"cleanup", "end"}, quiet
          PROVE  locked \cap HasUnlock = {}
      <3>1. node \in {"postRestoreUnlock", "cleanup"}
        BY <2>3, <2>8, <2>9
      <3> QED
        BY <2>8, <2>9, <3>1 DEF DoneInv, RestoredInv
    <2>10. node' = "cleanup" => users' \subseteq pending' /\ dir \subseteq pending'
      BY <2>2, <2>3, <2>5 DEF TypeOK
    <2>11. ASSUME errs' = {}, node' = "end"
           PROVE  users' = {} /\ (quiet => dir = {})
      <3>1. node = "cleanup"
        BY <2>3, <2>8, <2>11
      <3> QED
        BY <2>2, <2>8, <2>11, <3>1 DEF DoneInv
    <2> QED
      BY <2>2, <2>5, <2>6, <2>7, <2>8, <2>9, <2>10, <2>11 DEF DoneInv
  <1>2. ASSUME NEW j \in HasRestore, StartUpload(j)
        PROVE  DoneInv'
    BY <1>2 DEF StartUpload, DoneInv
  <1>3. ASSUME NEW j \in HasRestore, StartUploadFails(j)
        PROVE  DoneInv'
    BY <1>3 DEF StartUploadFails, DoneInv
  <1>4. ASSUME NEW j \in HasRestore, StreamFails(j)
        PROVE  DoneInv'
    BY <1>4 DEF StreamFails, DoneInv
  <1>5. ASSUME NEW j \in HasRestore, EndUpload(j)
        PROVE  DoneInv'
    <2>1. /\ node = "copyToRemote" /\ UNCHANGED <<cmd, node, dir>>
          /\ running' = running \ {j} /\ created' = created \cup {InstanceOf[j]}
          /\ ~failed' => ~failed
      BY <1>5 DEF EndUpload, TypeOK
    <2> QED
      BY <2>1 DEF DoneInv
  <1>6. ASSUME NEW j \in Jobs, StartScript(j)
        PROVE  DoneInv'
    <2>1. /\ node \in ScriptSteps /\ UNCHANGED <<cmd, node, errs, created, dir, quiet, failed>>
          /\ pending \subseteq pending' \cup running' /\ running = {} /\ j \in running'
      BY <1>6 DEF StartScript
    <2>2. CASE node = "restore"
      <3>1. \A k \in HasRestore : k = j \/ data'[k] = data[k]
        BY <1>6, <2>2 DEF StartScript, TypeOK
      <3> QED
        BY <2>1, <2>2, <3>1 DEF DoneInv
    <2>3. CASE node # "restore"
      BY <1>6, <2>1, <2>3 DEF StartScript, DoneInv, ScriptSteps
    <2> QED
      BY <2>2, <2>3
  <1>7. ASSUME NEW j \in Jobs, EndScript(j)
        PROVE  DoneInv'
    <2>1. /\ node \in ScriptSteps /\ UNCHANGED <<cmd, node, errs, created, dir, quiet, pending>>
          /\ running' = running \ {j} /\ (~failed' => ~failed)
      BY <1>7 DEF EndScript, TypeOK
    <2>2. CASE node = "restore"
      <3>1. ~failed' => data' = [data EXCEPT ![j] = "new"]
        BY <1>7, <2>2 DEF EndScript, Effect, Kind
      <3>2. ~failed' => \A k \in HasRestore : data'[k] = IF k = j THEN "new" ELSE data[k]
        BY <3>1 DEF TypeOK
      <3> QED
        BY <2>1, <2>2, <3>2 DEF DoneInv
    <2>3. CASE node # "restore"
      <3>1. data' = data
        BY <1>7, <2>3 DEF EndScript, Effect, NoEffect, Kind, ScriptSteps
      <3> QED
        BY <2>1, <2>3, <3>1 DEF DoneInv, ScriptSteps
    <2> QED
      BY <2>2, <2>3
  <1>8. ASSUME NEW j \in Jobs, LoseScript(j)
        PROVE  DoneInv'
    BY <1>8 DEF LoseScript, ScriptSteps, DoneInv
  <1>9. ASSUME NEW i \in Instances, CleanInstance(i)
        PROVE  DoneInv'
    <2> SUFFICES ASSUME cmd = "restore"
                 PROVE  DoneInv'
      BY <1>9 DEF CleanInstance, DoneInv
    <2>1. /\ node = "cleanup" /\ UNCHANGED <<cmd, node, errs, created, locked, data>>
          /\ pending' = pending \ {i} /\ (quiet' => quiet)
      BY <1>9 DEF CleanInstance, TypeOK, StepsOf, Idle
    <2>2. /\ dir' \subseteq dir
          /\ ~failed' => ~failed /\ users' = users \ {i}
          /\ ~failed' /\ quiet' /\ i \in created => i \notin dir'
      BY <1>9 DEF CleanInstance, RemoveArtifactDir, Removes, TypeOK
    <2> QED
      BY <2>1, <2>2 DEF DoneInv
  <1>10. ASSUME NEW c \in RestoreCommands, Begin(c)
        PROVE  DoneInv'
    BY <1>10, StepNames DEF Begin, DoneInv
  <1>11. ASSUME NEW kind \in Kinds, NEW j \in Jobs, EndOrphan(kind, j)
        PROVE  DoneInv'
    BY <1>11 DEF EndOrphan, RestoredInv, DoneInv
  <1>12. CASE Exit
    BY <1>12 DEF Exit, DoneInv
  <1> QED
    BY <1>0, <1>1, <1>2, <1>3, <1>4, <1>5, <1>6, <1>7,
       <1>8, <1>9, <1>10, <1>11, <1>12
       DEF Next, Step, Returns

\* For every deployment and director: a restore that ends without an error has
\* restored every job and leaves no directory, ssh user or locked job behind.
THEOREM SuccessIsRestored == Spec => []SuccessMeansRestored
  <1>1. Init => RestoredInv /\ DoneInv
    BY DEF Init, RestoredInv, DoneInv, BackupableOrRestorable
  <1>2. DoneInv => SuccessMeansRestored
    BY DEF DoneInv, SuccessMeansRestored
  <1> QED
    BY <1>1, <1>2, NextRestoredInv, NextDoneInv, TypeCorrect, PTL DEF Spec

-----------------------------------------------------------------------------

\* Nothing is overwritten before the restore step.  While no orphan is about, a job
\* whose data is in between is on the one instance that is begun and not done with,
\* if there is such an instance; and it is the job being restored, unless a script
\* failed.
MixedInv ==
    /\ AtMostOneInstanceMixed
    /\ node \in {"validateArtifact", "find", "restorable", "copyToRemote", "preRestoreLock"}
           /\ quiet => \A j \in HasRestore : data[j] = "old"
    /\ node = "restore" => pending \subseteq HasRestore /\ \A j, k \in running : j = k
    /\ node = "restore" /\ quiet =>
           \A j \in HasRestore : data[j] = "mixed" =>
               Current \subseteq {InstanceOf[j]} /\ (failed \/ j \in running)

\* Every step keeps MixedInv: once a script failed only the jobs of its instance are
\* still restored.
LEMMA NextMixedInv == TypeOK /\ RestoredInv /\ MixedInv /\ [Next]_vars => MixedInv'
  <1> SUFFICES ASSUME TypeOK, RestoredInv, MixedInv, [Next]_vars
               PROVE  MixedInv'
    OBVIOUS
  <1> USE DEF session, work, deployment, history
  <1>0. CASE UNCHANGED vars
    BY <1>0 DEF MixedInv, AtMostOneInstanceMixed, Current, vars
  <1>1. CASE Returns
    <2>1. PICK ok \in BOOLEAN : Enter(NextNode(cmd, node, ok))
      BY <1>1, ReturnEnters
    <2>2. node \in StepsOf(cmd) /\ UNCHANGED <<cmd, data, quiet>>
      BY <1>1, ReturnEnters DEF history
    <2>3. /\ node' \in {"validateArtifact", "find", "restorable", "copyToRemote",
                        "preRestoreLock", "restore"} =>
                 node \in {"validateArtifact", "find", "restorable", "copyToRemote",
                           "preRestoreLock"}
      BY <2>1, <2>2, Predecessors DEF Enter, TypeOK
    <2>4. node' = "restore" => pending' \subseteq HasRestore /\ running' = {}
      BY <2>1 DEF Enter, Work, Restore
    <2>5. AtMostOneInstanceMixed'
      BY <2>2 DEF MixedInv, AtMostOneInstanceMixed
    <2> QED
      BY <2>2, <2>3, <2>4, <2>5 DEF MixedInv
  <1>2. ASSUME NEW j \in HasRestore, StartUpload(j)
        PROVE  MixedInv'
    BY <1>2 DEF StartUpload, MixedInv, AtMostOneInstanceMixed
  <1>3. ASSUME NEW j \in HasRestore, StartUploadFails(j)
        PROVE  MixedInv'
    BY <1>3 DEF StartUploadFails, MixedInv, AtMostOneInstanceMixed
  <1>4. ASSUME NEW j \in HasRestore, StreamFails(j)
        PROVE  MixedInv'
    BY <1>4 DEF StreamFails, MixedInv, AtMostOneInstanceMixed
  <1>5. ASSUME NEW j \in HasRestore, EndUpload(j)
        PROVE  MixedInv'
    <2>1. node = "copyToRemote" /\ UNCHANGED <<node, data>> /\ (quiet' => quiet)
      BY <1>5 DEF EndUpload
    <2> QED
      BY <2>1 DEF MixedInv, AtMostOneInstanceMixed
  <1>6. ASSUME NEW j \in Jobs, StartScript(j)
        PROVE  MixedInv'
    <2>1. /\ node \in ScriptSteps /\ UNCHANGED <<node, quiet, failed>>
          /\ j \in pending /\ pending' = pending \ {j} /\ running = {} /\ running' = {j}
      BY <1>6 DEF StartScript
    <2>2. CASE node # "restore"
      BY <1>6, <2>1, <2>2 DEF StartScript, MixedInv, AtMostOneInstanceMixed
    <2>3. CASE node = "restore"
      <3>1. j \in HasRestore /\ pending' \subseteq HasRestore
        BY <2>1, <2>3 DEF MixedInv
      <3>2. RestoreMayRun(j) /\ data' = [data EXCEPT ![j] = "mixed"]
        BY <1>6, <2>3 DEF StartScript
      <3>3. \A k \in HasRestore : k = j \/ data'[k] = data[k]
        BY <3>2 DEF TypeOK
      <3>4. ASSUME quiet, NEW k \in HasRestore, data'[k] = "mixed"
            PROVE  InstanceOf[k] = InstanceOf[j] /\ (failed \/ k = j)
        <4>1. CASE k = j
          BY <4>1
        <4>2. CASE k # j
          <5>1. data[k] = "mixed"
            BY <3>3, <3>4, <4>2
          <5>2. failed /\ Current \subseteq {InstanceOf[k]}
            BY <2>1, <2>3, <3>4, <5>1 DEF MixedInv
          <5> QED
            BY <3>2, <5>2 DEF RestoreMayRun
        <4> QED
          BY <4>1, <4>2
      <3>5. Current' \subseteq {InstanceOf[j]}
        <4>1. Current' \subseteq Current \cup {InstanceOf[j]}
          BY <2>1 DEF Current
        <4> QED
          BY <3>2, <4>1 DEF RestoreMayRun
      <3>6. AtMostOneInstanceMixed'
        BY <2>1, <3>4 DEF AtMostOneInstanceMixed
      <3> QED
        BY <2>1, <2>3, <3>1, <3>4, <3>5, <3>6 DEF MixedInv
    <2> QED
      BY <2>2, <2>3
  <1>7. ASSUME NEW j \in Jobs, EndScript(j)
        PROVE  MixedInv'
    <2>1. /\ node \in ScriptSteps /\ UNCHANGED <<node, quiet, pending>>
          /\ running' = running \ {j} /\ (failed => failed')
      BY <1>7 DEF EndScript, TypeOK
    <2>2. CASE node # "restore"
      <3>1. data' = data
        BY <1>7, <2>1, <2>2 DEF EndScript, Effect, NoEffect, Kind, ScriptSteps
      <3> QED
        BY <2>1, <2>2, <3>1 DEF MixedInv, AtMostOneInstanceMixed
    <2>3. CASE node = "restore"
      <3>1. data' = [data EXCEPT ![j] = "new"] \/ (data' = data /\ failed')
        BY <1>7, <2>3 DEF EndScript, Effect, NoEffect, Kind
      <3>2. \A k \in HasRestore :
               data'[k] = "mixed" => data[k] = "mixed" /\ (failed' \/ k # j)
        BY <3>1 DEF TypeOK
      <3>3. Current' = Current
        BY <2>1 DEF Current
      <3>4. AtMostOneInstanceMixed'
        BY <2>1, <3>2 DEF MixedInv, AtMostOneInstanceMixed
      <3>5. quiet => \A k \in HasRestore : data'[k] = "mixed" =>
                         Current \subseteq {InstanceOf[k]} /\ (failed' \/ k \in running')
        BY <2>1, <2>3, <3>2 DEF MixedInv
      <3> QED
        BY <2>1, <2>3, <3>3, <3>4, <3>5 DEF MixedInv
    <2> QED
      BY <2>2, <2>3
  <1>8. ASSUME NEW j \in Jobs, LoseScript(j)
        PROVE  MixedInv'
    BY <1>8 DEF LoseScript, MixedInv, AtMostOneInstanceMixed
  <1>9. ASSUME NEW i \in Instances, CleanInstance(i)
        PROVE  MixedInv'
    <2>1. /\ node \in {"cleanup", "cleanupPrevious"} /\ UNCHANGED <<node, data>>
          /\ quiet' => quiet
      BY <1>9 DEF CleanInstance
    <2> QED
      BY <2>1 DEF MixedInv, AtMostOneInstanceMixed
  <1>10. ASSUME NEW c \in RestoreCommands, Begin(c)
        PROVE  MixedInv'
    BY <1>10, StepNames DEF Begin, MixedInv, AtMostOneInstanceMixed
  <1>11. ASSUME NEW kind \in Kinds, NEW j \in Jobs, EndOrphan(kind, j)
        PROVE  MixedInv'
    <2>1. ~quiet' /\ UNCHANGED <<node, pending, running>>
      BY <1>11 DEF EndOrphan, RestoredInv
    <2> QED
      BY <2>1 DEF MixedInv, AtMostOneInstanceMixed
  <1>12. CASE Exit
    <2>1. node' = "exited" /\ (quiet' => quiet) /\ UNCHANGED data
      BY <1>12 DEF Exit
    <2> QED
      BY <2>1 DEF MixedInv, AtMostOneInstanceMixed
  <1> QED
    BY <1>0, <1>1, <1>2, <1>3, <1>4, <1>5, <1>6, <1>7,
       <1>8, <1>9, <1>10, <1>11, <1>12
       DEF Next, Step, Returns

\* For every deployment: wherever a restore fails or is killed, the data of one
\* instance at most are neither the old nor the restored ones.
THEOREM OneInstanceMixedAtMost == Spec => []AtMostOneInstanceMixed
  <1>1. Init => RestoredInv /\ MixedInv
    BY DEF Init, RestoredInv, MixedInv, AtMostOneInstanceMixed, BackupableOrRestorable
  <1>2. MixedInv => AtMostOneInstanceMixed
    BY DEF MixedInv
  <1> QED
    BY <1>1, <1>2, NextRestoredInv, NextMixedInv, TypeCorrect, PTL DEF Spec

-----------------------------------------------------------------------------

\* The graphs that module WorkflowRun walks are those of the commands.
LEMMA SameGraphs ==
    ASSUME NEW w \in RestoreCommands
    PROVE  /\ Engine!StepsOf(w) = StepsOf(w) /\ Engine!StartingNode(w) = StartingNode(w)
           /\ \A n, ok : Engine!NextNode(w, n, ok) = NextNode(w, n, ok)
  <1>1. Engine!StepsOf(w) = StepsOf(w) /\ Engine!StartingNode(w) = StartingNode(w)
    BY DEF Engine!StepsOf, StepsOf, Engine!StartingNode, StartingNode
  <1>2. \A n : /\ Engine!RestorerOnSuccess(n) = RestorerOnSuccess(n)
               /\ Engine!RestorerOnFailure(n) = RestorerOnFailure(n)
    BY DEF Engine!RestorerOnSuccess, RestorerOnSuccess, Engine!RestorerOnFailure,
           RestorerOnFailure
  <1>3. \A n : /\ Engine!RestoreCleanerOnSuccess(n) = RestoreCleanerOnSuccess(n)
               /\ Engine!RestoreCleanerOnFailure(n) = RestoreCleanerOnFailure(n)
    BY DEF Engine!RestoreCleanerOnSuccess, RestoreCleanerOnSuccess,
           Engine!RestoreCleanerOnFailure, RestoreCleanerOnFailure
  <1> QED
    BY <1>1, <1>2, <1>3 DEF RestoreCommands, Engine!NextNode, NextNode

\* Every step of the two commands is an iteration of Workflow.Run's loop, the start
\* of a command, its exit, or changes nothing that loop has.
LEMMA StepFollowsWorkflow == TypeOK /\ [Next]_vars => [Engine!Next]_(Engine!vars)
  <1> SUFFICES ASSUME TypeOK, [Next]_vars
               PROVE  [Engine!Next]_(Engine!vars)
    OBVIOUS
  <1> USE DEF session, work, deployment, history
  <1>1. CASE Returns
    <2>1. PICK ok \in BOOLEAN :
             /\ Enter(NextNode(cmd, node, ok))
             /\ ok => errs' = errs
             /\ ~ok => errs' = errs \cup {node}
      BY <1>1, ReturnEnters
    <2>2. node \in StepsOf(cmd) /\ UNCHANGED cmd /\ cmd \in RestoreCommands
      BY <1>1, ReturnEnters DEF TypeOK
    <2>3. Engine!Step(ok)
      BY <2>1, <2>2, SameGraphs DEF Engine!Step, Enter
    <2> QED
      BY <2>3 DEF Engine!Next, Engine!RunStep
  <1>2. CASE \E c \in RestoreCommands : Begin(c)
    <2>1. PICK c \in RestoreCommands : Begin(c)
      BY <1>2
    <2>2. Engine!Start(c)
      BY <2>1, SameGraphs DEF Begin, Engine!Start, Engine!Idle, Idle
    <2> QED
      BY <2>2 DEF Engine!Next
  <1>3. CASE Exit
    <2>1. Engine!Exit
      BY <1>3, SameGraphs DEF Exit, Engine!Exit, TypeOK
    <2> QED
      BY <2>1 DEF Engine!Next
  <1>4. CASE UNCHANGED <<cmd, node, errs>>
    BY <1>4 DEF Engine!vars
  <1>5. CASE UNCHANGED vars
    BY <1>4, <1>5 DEF vars
  <1>6. ASSUME NEW j \in HasRestore,
               StartUpload(j) \/ StartUploadFails(j) \/ StreamFails(j) \/ EndUpload(j)
        PROVE  UNCHANGED <<cmd, node, errs>>
    BY <1>6 DEF StartUpload, StartUploadFails, StreamFails, EndUpload
  <1>7. ASSUME NEW j \in Jobs, StartScript(j) \/ EndScript(j) \/ LoseScript(j)
        PROVE  UNCHANGED <<cmd, node, errs>>
    BY <1>7 DEF StartScript, EndScript, LoseScript
  <1>8. ASSUME NEW i \in Instances, CleanInstance(i)
        PROVE  UNCHANGED <<cmd, node, errs>>
    BY <1>8 DEF CleanInstance
  <1>9. ASSUME NEW kind \in Kinds, NEW j \in Jobs, EndOrphan(kind, j)
        PROVE  UNCHANGED <<cmd, node, errs>>
    BY <1>9 DEF EndOrphan
  <1> QED
    BY <1>1, <1>2, <1>3, <1>4, <1>5, <1>6, <1>7, <1>8, <1>9 DEF Next, Step, Returns

\* The two commands implement the loop of Workflow.Run on every deployment and
\* director: the safety part of FollowsWorkflow.
THEOREM ImplementsWorkflowRun == Spec => Engine!Init /\ [][Engine!Next]_(Engine!vars)
  <1>1. Init => Engine!Init
    BY DEF Init, Engine!Init, RestoreCommands
  <1> QED
    BY <1>1, StepFollowsWorkflow, TypeCorrect, PTL DEF Spec

=============================================================================
