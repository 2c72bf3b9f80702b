--------------------------- MODULE AllDeployments ---------------------------
(***************************************************************************)
(* What a bbr command makes of the errors of its workflow: exit code and   *)
(* advice to the operator.  With --all-deployments the workflow is run for *)
(* every deployment of the director, by an executor of its own             *)
(* (executor/deployment/parallel.go: one list, a guard channel and a       *)
(* channel of results), and the errors are put together.                   *)
(*                                                                         *)
(* What the workflows do to a deployment is the subject of modules         *)
(* BackupRun and RestoreRun, interruptions included; here a workflow is    *)
(* the list of errors it returns.                                          *)
(***************************************************************************)
EXTENDS Workflows, Naturals, FiniteSets, FiniteSetsExt, SequencesExt

CONSTANTS
    N,             \* the number of deployments the director lists
    MaxInFlight,   \* 10 in the code
    MaxErrors      \* bound: errors of all deployments together

ASSUME ListAssumption ==
    N \in Nat \ {0} /\ MaxInFlight \in Nat \ {0} /\ MaxErrors \in Nat

Deployments == 1 .. N

VARIABLES
    cmd,         \* the command
    stage,       \* "start", "running", "collected", "exited"
    dispatched,  \* deployments whose goroutine was started: 1 .. dispatched
    pc,          \* deployment -> where its goroutine is
    outcome,     \* deployment -> the errors its action returned, once it has
    guard,       \* tokens in the guard channel
    results,     \* the channel of results
    received,    \* results received
    failures,    \* the deployments whose errors were kept
    succeeded,   \* the deployments printed as successful
    footer,      \* is a clean-up advised?
    exitCode     \* of the process; 255 while it runs

executor == <<dispatched, pc, outcome, guard, results, received, failures>>
deploymentVars == <<cmd, stage, executor, succeeded, footer, exitCode>>

-----------------------------------------------------------------------------

\* The errors of a step: its name stands for the error, but the check for artifact
\* directories in BackupableStep has a class of its own.
Errors(n) == IF n = "backupable" THEN {"backupable", "artifactDir"} ELSE {n}
AllErrors == Steps \cup {"artifactDir", "setup"}

\* Workflow.Run appends the errors of its steps to one list.
OneThen(es, lists) == UNION {{<<e>> \o rest : rest \in lists} : e \in es}

\* The lists of errors that Workflow.Run returns from step n on.
Returns(w) ==
    LET from[n \in StepsOf(w) \cup {"end"}] ==
            IF n = "end" THEN {<<>>}
            ELSE from[NextNode(w, n, TRUE)] \cup OneThen(Errors(n), from[NextNode(w, n, FALSE)])
    IN  from[StartingNode(w)]

\* The error types of orchestrator/error.go, by the step that makes them; a step
\* that returns an error as it is, or wraps it, has none of them.
Class(e) ==
    CASE e = "lock" -> "LockError"
      [] e = "backup" -> "BackupError"
      [] e \in {"unlockAfterSuccessfulBackup", "unlockAfterFailedBackup",
                "postBackupUnlock", "postRestoreUnlock"} -> "UnlockError"
      [] e = "drain" -> "DrainError"
      [] e = "cleanup" -> "CleanupError"
      [] e = "artifactDir" -> "ArtifactDirError"
      [] OTHER -> "error"

Bit(e) ==
    CASE Class(e) = "LockError" -> 4 [] Class(e) = "UnlockError" -> 8
      [] Class(e) = "CleanupError" -> 16 [] OTHER -> 1

\* A plausible bug: the bits are added instead of or-ed.
BuildExitCodeAdded(errs) == FoldLeft(LAMBDA code, e : code + Bit(e), 0, errs)

\* The bits of all errors, or-ed.
BuildExitCode(errs) == SumSet({Bit(e) : e \in ToSet(errs)})

ContainsUnlockOrCleanupOrArtifactDirExists(errs) ==
    \E e \in ToSet(errs) :
        Class(e) \in {"UnlockError", "CleanupError", "ArtifactDirError", "DrainError"}

\* The loop returns in its first iteration.
ContainsArtifactDirError(errs) == errs # <<>> /\ Class(Head(errs)) = "ArtifactDirError"

\* The errors of one deployment, or of a director: does the command advise a clean-up?
backupSingleDeployment(errs) == ContainsUnlockOrCleanupOrArtifactDirExists(errs)
backupableCheck(errs) == errs # <<>> /\ ContainsArtifactDirError(errs)
Advised(errs) ==
    CASE cmd = "backup" -> backupSingleDeployment(errs)
      [] cmd = "pre-backup-check" -> backupableCheck(errs)
      [] OTHER -> FALSE

ContainsUnlockOrCleanup(ds) ==
    \E d \in ds : ContainsUnlockOrCleanupOrArtifactDirExists(outcome[d])
ContainsArtifactDir(ds) == \E d \in ds : ContainsArtifactDirError(outcome[d])

\* The command's errorHandler: does it advise one on those of all that failed?
ErrorHandlerAdvises(ds) ==
    CASE cmd = "backup" -> ContainsUnlockOrCleanup(ds)
      [] cmd = "pre-backup-check" -> ContainsArtifactDir(ds)
      [] cmd = "backup-cleanup" -> FALSE

\* processErrorWithFooter: the process ends.
ProcessError(errs, advice) ==
    /\ stage' = "exited"
    /\ exitCode' = BuildExitCode(errs)
    /\ footer' = advice

\* The action of a deployment opens the log file and makes the clients of its own
\* before it runs the workflow; either may fail.
createLogger == {<<"setup">>}
backupAction == createLogger \cup Returns("backup")
cleanupAction == createLogger \cup Returns("backup-cleanup")
\* There is one checker for all deployments, made before they are listed.
backupCheckerAction == Returns("pre-backup-check")

ActionReturns ==
    CASE cmd = "backup" -> backupAction
      [] cmd = "backup-cleanup" -> cleanupAction
      [] cmd = "pre-backup-check" -> backupCheckerAction

-----------------------------------------------------------------------------

DInit ==
    /\ cmd \in Workflows
    /\ stage = "start"
    /\ dispatched = 0 /\ received = 0 /\ guard = 0 /\ results = <<>> /\ failures = {}
    /\ pc = [d \in Deployments |-> "unborn"]
    /\ outcome = [d \in Deployments |-> <<>>]
    /\ succeeded = {} /\ footer = FALSE /\ exitCode = 255

\* The command for one deployment, or for a director: it cannot be set up, or its
\* workflow is run and the errors decide.
Single ==
    /\ stage = "start"
    /\ pc' = [pc EXCEPT ![1] = "single"]
    /\ \E errs \in Returns(cmd) \cup {<<"setup">>} :
          /\ outcome' = [outcome EXCEPT ![1] = errs]
          /\ ProcessError(errs, Advised(errs))
    /\ UNCHANGED <<cmd, dispatched, guard, results, received, failures, succeeded>>

\* Restore is for one deployment.  The director's list of deployments is had ...
ListDeployments ==
    /\ stage = "start"
    /\ cmd \in {"backup", "backup-cleanup", "pre-backup-check"}
    /\ stage' = "running"
    /\ UNCHANGED <<cmd, executor, succeeded, footer, exitCode>>

\* ... or not, or is empty, or the flags do not go together.
ListFails ==
    /\ stage = "start"
    /\ cmd \in {"backup", "backup-cleanup", "pre-backup-check"}
    /\ ProcessError(<<"setup">>, FALSE)
    /\ UNCHANGED <<cmd, executor, succeeded>>

\* guard <- true; go func...
Dispatch ==
    /\ stage = "running"
    /\ dispatched < N
    /\ guard < MaxInFlight
    /\ guard' = guard + 1
    /\ dispatched' = dispatched + 1
    /\ pc' = [pc EXCEPT ![dispatched + 1] = "executing"]
    /\ UNCHANGED <<cmd, stage, outcome, results, received, failures, succeeded, footer, exitCode>>

\* The action of a deployment returns.
Execute(d) ==
    /\ pc[d] = "executing"
    /\ pc' = [pc EXCEPT ![d] = "reporting"]
    /\ \E errs \in ActionReturns :
          /\ Len(errs) + MapThenSumSet(LAMBDA k : Len(outcome[k]), Deployments) <= MaxErrors
          /\ outcome' = [outcome EXCEPT ![d] = errs]
    /\ UNCHANGED <<cmd, stage, dispatched, guard, results, received, failures,
                   succeeded, footer, exitCode>>

\* errs <- ...: the channel has room for all.
Report(d) ==
    /\ pc[d] = "reporting"
    /\ Len(results) < N
    /\ results' = Append(results, d)
    /\ pc' = [pc EXCEPT ![d] = "releasing"]
    /\ UNCHANGED <<cmd, stage, dispatched, outcome, guard, received, failures,
                   succeeded, footer, exitCode>>

\* A plausible bug: a deployment that fails keeps its token.
ReleaseOnSuccess(d) ==
    /\ pc[d] = "releasing"
    /\ guard > 0
    /\ guard' = IF outcome[d] = <<>> THEN guard - 1 ELSE guard
    /\ pc' = [pc EXCEPT ![d] = "ended"]
    /\ UNCHANGED <<cmd, stage, dispatched, outcome, results, received, failures,
                   succeeded, footer, exitCode>>

\* <-guard
Release(d) ==
    /\ pc[d] = "releasing"
    /\ guard > 0
    /\ guard' = guard - 1
    /\ pc' = [pc EXCEPT ![d] = "ended"]
    /\ UNCHANGED <<cmd, stage, dispatched, outcome, results, received, failures,
                   succeeded, footer, exitCode>>

\* A plausible bug: what failed before its workflow began is not kept.
ReceiveWorkflowErrors ==
    /\ stage = "running" /\ dispatched = N /\ received < N
    /\ results # <<>>
    /\ results' = Tail(results)
    /\ received' = received + 1
    /\ failures' = IF ToSet(outcome[Head(results)]) \subseteq {"setup"} THEN failures
                   ELSE failures \cup {Head(results)}
    /\ UNCHANGED <<cmd, stage, dispatched, pc, outcome, guard, succeeded, footer, exitCode>>

\* err := <-errs: kept if its Errs are not nil.
Receive ==
    /\ stage = "running" /\ dispatched = N /\ received < N
    /\ results # <<>>
    /\ results' = Tail(results)
    /\ received' = received + 1
    /\ failures' = IF outcome[Head(results)] = <<>> THEN failures
                   ELSE failures \cup {Head(results)}
    /\ UNCHANGED <<cmd, stage, dispatched, pc, outcome, guard, succeeded, footer, exitCode>>

RunReturns ==
    /\ stage = "running" /\ received = N
    /\ stage' = "collected"
    /\ UNCHANGED <<cmd, executor, succeeded, footer, exitCode>>

\* The deployments that are printed as successful: all but those that failed.
getDeploymentStates(failed) == Deployments \ failed

\* AllDeploymentsError.ProcessWithFooter: one exit code for whatever failed.
ProcessWithFooter(advice) == exitCode' = 1 /\ footer' = advice

\* A plausible bug: advice on the first deployment that failed only.
runForAllDeploymentsFirst ==
    /\ stage = "collected"
    /\ stage' = "exited"
    /\ succeeded' = getDeploymentStates(failures)
    /\ \/ failures # {} /\ ProcessWithFooter(Advised(outcome[Min(failures)]))
       \/ failures = {} /\ exitCode' = 0 /\ UNCHANGED footer
    /\ UNCHANGED <<cmd, executor>>

\* What is left of runForAllDeployments when the executor has returned.
runForAllDeployments ==
    /\ stage = "collected"
    /\ stage' = "exited"
    /\ succeeded' = getDeploymentStates(failures)
    /\ \/ failures # {} /\ ProcessWithFooter(ErrorHandlerAdvises(failures))
       \/ failures = {} /\ exitCode' = 0 /\ UNCHANGED footer
    /\ UNCHANGED <<cmd, executor>>

Caller == Single \/ ListDeployments \/ ListFails \/ Dispatch \/ Receive \/ RunReturns \/ runForAllDeployments
Goroutine(d) == Execute(d) \/ Report(d) \/ Release(d)

DNext == Caller \/ \E d \in Deployments : Goroutine(d)

\* Assumed: an action returns.
DSpec ==
    /\ DInit /\ [][DNext]_deploymentVars
    /\ WF_deploymentVars(Caller)
    /\ \A d \in Deployments : WF_deploymentVars(Goroutine(d))

-----------------------------------------------------------------------------

Ran(d) == pc[d] \notin {"unborn", "executing"}

\* When it exits, every deployment whose action was run to its end without an error
\* is named as successful and no other, none is forgotten, and the exit code is 0
\* only if none failed: results that come in any order are put to the right names.
ResultsAreTold ==
    stage = "exited" /\ dispatched > 0 =>
        /\ \A d \in Deployments : Ran(d)
        /\ succeeded = {d \in Deployments : outcome[d] = <<>>}
        /\ exitCode = 0 <=> succeeded = Deployments

\* Whatever else fails in a deployment and in the others, a check or backup that
\* found an artifact directory advises to clean up, and a backup that failed to
\* unlock, to download or to clean up.
LeftoversAreAdvised ==
    stage = "exited" /\ cmd \in {"backup", "pre-backup-check"} =>
        (footer <=>
            \E d \in Deployments, e \in AllErrors :
                /\ e \in ToSet(outcome[d])
                /\ \/ e = "artifactDir"
                   \/ cmd = "backup" /\ Class(e) \in {"UnlockError", "DrainError", "CleanupError"})

\* The exit code of a single command tells what failed, whatever failed with it: a
\* lock of backup, an unlock or the clean-up each by its bit, all else by the lowest.
ExitCodeTells ==
    stage = "exited" /\ pc[1] = "single" =>
        LET errs == ToSet(outcome[1])
            told(bit, classes) ==
                (exitCode \div bit) % 2 = 1 <=> \E e \in errs : Class(e) \in classes
        IN  /\ exitCode < 32 /\ (exitCode \div 2) % 2 = 0
            /\ told(4, {"LockError"}) /\ told(8, {"UnlockError"}) /\ told(16, {"CleanupError"})
            /\ told(1, {"BackupError", "DrainError", "ArtifactDirError", "error"})

\* The command exits: with more deployments than may be in flight, and whichever
\* fail, nobody is left waiting for a channel.
CommandExits == <>(stage = "exited" /\ guard = 0)

=============================================================================
