------------------------------ MODULE BbrProcess ------------------------------
(***************************************************************************)
(* A bbr process from its command line to its exit: main and the checks of *)
(* the flags, the Action of each command, what the factories wire together *)
(* for it, the client of the director, and the workflow, which logs as it  *)
(* goes; beside it the goroutine of trapSigint, which asks a question on   *)
(* every SIGINT and holds the log back, with a PausableWriter, until it is *)
(* answered.  What bbr prints past that writer, straight to the terminal,  *)
(* is not held back: errors and results before it exits, and, for all      *)
(* deployments, when the action of one begins and ends.                    *)
(*                                                                         *)
(* With --all-deployments the workflow of one deployment, any one, is      *)
(* followed; module AllDeployments has them all.  The writer for stderr is *)
(* paused and resumed with the one for stdout, and nothing writes to it.   *)
(* What a socks proxy logs (ssh/connection.go:145) is left out.            *)
(***************************************************************************)
EXTENDS WorkflowRun, Naturals, Sequences

CONSTANT MaxSignals    \* bound: the SIGINTs sent

ASSUME SignalsAssumption == MaxSignals \in Nat

VARIABLES
    line,      \* the command line: [target, cmd, flags]
    phase,     \* of main: "before", "action", "client", "list", "setup", "begin", "running",
               \* "told" (the action of a deployment has returned), "exited"
    trap,      \* the messages of the SIGINT handler: "backup", "restore"; "none" without one
    pending,   \* the signals in sigintChan
    handler,   \* "waiting", "paused", "reading", "answered"
    paused,    \* PausableWriter.paused
    buffered,  \* PausableWriter.bufferedOutput
    out,       \* the lines of the log that are on the terminal
    logged,    \* the number of lines logged
    own,       \* for all deployments: the lines in the buffer of the deployment's logger
    notices,   \* what was printed past the log, apart from the handler's own words
    advised,   \* the clean-up the handler has advised: "none" without
    signals    \* the SIGINTs sent

process == <<line, phase, trap, notices>>
console == <<paused, buffered, out, logged, own>>
sigint == <<pending, handler, advised, signals>>
allVars == <<vars, process, console, sigint>>

-----------------------------------------------------------------------------
(* The factories: the lock orderer, the executor of lock and unlock        *)
(* scripts, that of the copying of artifacts, whose deployment manager.    *)

BuildDeploymentBackuper ==
    [orderer |-> "backup", executor |-> "parallel", copier |-> "parallel", manager |-> "bosh"]
BuildDeploymentBackupCleanuper ==
    [orderer |-> "backup", executor |-> "parallel", copier |-> "none", manager |-> "bosh"]
BuildDeploymentBackupChecker ==
    [orderer |-> "backup", executor |-> "none", copier |-> "none", manager |-> "bosh"]
BuildDeploymentRestorer ==
    [orderer |-> "restore", executor |-> "serial", copier |-> "parallel", manager |-> "bosh"]

\* A plausible bug: the cleaner is put together like that of a backup.
BuildDeploymentRestoreCleanuperInParallel == BuildDeploymentBackupCleanuper

BuildDeploymentRestoreCleanuper ==
    [orderer |-> "restore", executor |-> "serial", copier |-> "none", manager |-> "bosh"]

BuildDirectorBackuper ==
    [orderer |-> "backup", executor |-> "parallel", copier |-> "parallel", manager |-> "standalone"]
BuildDirectorBackupCleaner ==
    [orderer |-> "backup", executor |-> "parallel", copier |-> "none", manager |-> "standalone"]
BuildDirectorBackupChecker ==
    [orderer |-> "backup", executor |-> "none", copier |-> "none", manager |-> "standalone"]
BuildDirectorRestorer ==
    [orderer |-> "restore", executor |-> "serial", copier |-> "parallel", manager |-> "standalone"]
BuildDirectorRestoreCleaner ==
    [orderer |-> "restore", executor |-> "serial", copier |-> "none", manager |-> "standalone"]

-----------------------------------------------------------------------------
(* The commands: their own flags, those they require, the messages of      *)
(* trapSigint, whether they can be run for all deployments, and what they  *)
(* build.                                                                  *)

DeploymentBackup ==
    [flags |-> {"artifact-path", "unsafe-lock-free"}, requires |-> {}, trap |-> "backup",
     all |-> TRUE, builds |-> BuildDeploymentBackuper]
DeploymentBackupCleanup ==
    [flags |-> {}, requires |-> {}, trap |-> "backup", all |-> TRUE,
     builds |-> BuildDeploymentBackupCleanuper]
DeploymentPreBackupCheck ==
    [flags |-> {}, requires |-> {}, trap |-> "none", all |-> TRUE,
     builds |-> BuildDeploymentBackupChecker]
DeploymentRestore ==
    [flags |-> {"artifact-path"}, requires |-> {"artifact-path"}, trap |-> "restore",
     all |-> FALSE, builds |-> BuildDeploymentRestorer]
DeploymentRestoreCleanup ==
    [flags |-> {}, requires |-> {}, trap |-> "backup", all |-> FALSE,
     builds |-> BuildDeploymentRestoreCleanuper]

DirectorBackup ==
    [flags |-> {"artifact-path"}, requires |-> {}, trap |-> "backup", all |-> FALSE,
     builds |-> BuildDirectorBackuper]
DirectorBackupCleanup ==
    [flags |-> {}, requires |-> {}, trap |-> "backup", all |-> FALSE,
     builds |-> BuildDirectorBackupCleaner]
DirectorPreBackupCheck ==
    [flags |-> {}, requires |-> {}, trap |-> "none", all |-> FALSE,
     builds |-> BuildDirectorBackupChecker]
DirectorRestore ==
    [flags |-> {"artifact-path"}, requires |-> {"artifact-path"}, trap |-> "restore",
     all |-> FALSE, builds |-> BuildDirectorRestorer]
DirectorRestoreCleanup ==
    [flags |-> {}, requires |-> {}, trap |-> "backup", all |-> FALSE,
     builds |-> BuildDirectorRestoreCleaner]

Command(target, c) ==
    IF target = "deployment"
    THEN CASE c = "backup" -> DeploymentBackup
           [] c = "backup-cleanup" -> DeploymentBackupCleanup
           [] c = "pre-backup-check" -> DeploymentPreBackupCheck
           [] c = "restore" -> DeploymentRestore
           [] c = "restore-cleanup" -> DeploymentRestoreCleanup
    ELSE CASE c = "backup" -> DirectorBackup
           [] c = "backup-cleanup" -> DirectorBackupCleanup
           [] c = "pre-backup-check" -> DirectorPreBackupCheck
           [] c = "restore" -> DirectorRestore
           [] c = "restore-cleanup" -> DirectorRestoreCleanup

availableDeploymentFlags == {"target", "username", "password", "deployment", "all-deployments"}
availableDirectorFlags == {"host", "username", "private-key-path"}

\* The command lines that the flag parser lets pass.
CommandLines ==
    LET of(target, available) ==
            UNION {[target : {target}, cmd : {c},
                    flags : SUBSET (available \cup Command(target, c).flags \cup {"help"})] :
                       c \in Workflows}
    IN  of("deployment", availableDeploymentFlags) \cup of("director", availableDirectorFlags)
        \cup [target : {"bbr"}, cmd : {"help", "version", "unknown"}, flags : {{}}]

-----------------------------------------------------------------------------
(* The checks of the flags *)

Validate(requiredFlags, flags) == "help" \in flags \/ requiredFlags \subseteq flags

ValidateDeployment(flags) == "deployment" \in flags <=> "all-deployments" \notin flags

validateDeploymentFlags(flags) ==
    Validate({"target", "username", "password"}, flags) /\ ValidateDeployment(flags)

validateDirectorFlags(flags) == Validate({"host", "username", "private-key-path"}, flags)

ForAll ==
    /\ line.target = "deployment" /\ "all-deployments" \in line.flags
    /\ Command(line.target, line.cmd).all

\* The commands that print when the action of a deployment begins, and its log when it fails.
PrintsLog == line.cmd \in {"backup", "backup-cleanup"}

-----------------------------------------------------------------------------
(* readwriter.PausableWriter *)

Write(n) ==
    /\ IF paused THEN buffered' = buffered \o n /\ UNCHANGED out
       ELSE out' = out \o n /\ UNCHANGED buffered
    /\ UNCHANGED paused

Pause == paused' = TRUE /\ UNCHANGED <<buffered, out, logged, own>>

\* A plausible bug: the buffer is not emptied.
ResumeAgain ==
    /\ paused' = FALSE
    /\ out' = out \o buffered
    /\ UNCHANGED <<buffered, logged, own>>

Resume ==
    /\ paused' = FALSE
    /\ out' = out \o buffered
    /\ buffered' = <<>>
    /\ UNCHANGED <<logged, own>>

\* The next line of the logger: to the terminal, or for all deployments to a buffer, by a
\* writer that is never paused.
Log ==
    /\ logged' = logged + 1
    /\ IF ForAll THEN own' = own \o <<logged + 1>> /\ UNCHANGED <<paused, buffered, out>>
       ELSE Write(<<logged + 1>>) /\ UNCHANGED own

-----------------------------------------------------------------------------

PInit ==
    /\ line \in CommandLines
    /\ Init /\ workflow = (IF line.target = "bbr" THEN "backup" ELSE line.cmd)
    /\ phase = "before" /\ trap = "none"
    /\ pending = 0 /\ handler = "waiting" /\ advised = "none" /\ signals = 0
    /\ paused = FALSE /\ buffered = <<>> /\ out = <<>> /\ logged = 0
    /\ own = <<>> /\ notices = 0

\* On to the next phase, with something printed or not.
GoOn(p, prints) ==
    /\ phase' = p /\ notices' = IF prints THEN notices + 1 ELSE notices
    /\ UNCHANGED <<line, trap>>

\* main: help, version, and a command that is not found.
Show ==
    /\ phase = "before" /\ line.target = "bbr"
    /\ GoOn("exited", TRUE)
    /\ UNCHANGED <<vars, console, sigint>>

\* The Before of a command: an error ends bbr, and --help shows help.
Before ==
    /\ phase = "before" /\ line.target # "bbr"
    /\ LET passes == /\ "help" \notin line.flags
                     /\ IF line.target = "deployment" THEN validateDeploymentFlags(line.flags)
                        ELSE validateDirectorFlags(line.flags)
       IN  GoOn(IF passes THEN "action" ELSE "exited", ~passes)
    /\ UNCHANGED <<vars, console, sigint>>

\* The beginning of the command's Action: trapSigint, then what is wrong with the flags.
Action ==
    /\ phase = "action"
    /\ LET c == Command(line.target, line.cmd)
           fails == \/ ~Validate(c.requires, line.flags)
                    \/ ForAll /\ "unsafe-lock-free" \in line.flags
       IN  /\ trap' = c.trap
           /\ phase' = IF fails THEN "exited"
                       ELSE IF c.builds.manager = "bosh" THEN "client" ELSE "begin"
           /\ notices' = IF fails \/ (ForAll /\ line.cmd = "backup") THEN notices + 1 ELSE notices
    /\ UNCHANGED <<vars, line, console, sigint>>

\* bosh.BuildClient: the URL, the director's info, uaa or not, the director.
BuildClient(ok) ==
    GoOn(IF ok THEN (IF ForAll THEN "list" ELSE "begin") ELSE "exited",
         ok => ForAll /\ line.cmd = "backup-cleanup")

\* BuildBoshClient: the certificate is read, or not; then bosh.BuildClient.
BuildBoshClient ==
    /\ phase = "client"
    /\ GoOn("exited", TRUE) \/ \E ok \in BOOLEAN : BuildClient(ok)
    /\ UNCHANGED <<vars, console, sigint>>

\* getAllDeployments and printPending.
ListAll ==
    /\ phase = "list"
    /\ GoOn("setup", TRUE) \/ GoOn("exited", TRUE)
    /\ UNCHANGED <<vars, console, sigint>>

\* The action of the deployment: its log file and a client of its own; a check has
\* them already.
SetUp ==
    /\ phase = "setup"
    /\ GoOn("begin", FALSE) \/ (PrintsLog /\ GoOn("told", FALSE))
    /\ UNCHANGED <<vars, console, sigint>>

Begin ==
    /\ phase = "begin"
    /\ Start(line.cmd)
    /\ GoOn("running", ForAll /\ PrintsLog)
    /\ UNCHANGED <<console, sigint>>

\* A step of the workflow, which logs.
Work ==
    /\ phase = "running"
    /\ RunStep
    /\ Log
    /\ UNCHANGED <<process, sigint>>

\* The action of the deployment prints how it ended and, if that was a failure, all its
\* log (fmt.Println of the buffer), be a question open or not.
TellEnd ==
    /\ phase = "running" /\ node = "end" /\ ForAll
    /\ GoOn("told", TRUE)
    /\ out' = IF errs # {} /\ PrintsLog THEN out \o own ELSE out
    /\ UNCHANGED <<vars, paused, buffered, logged, own, sigint>>

\* The command returns, its error is processed, the summary for all deployments printed,
\* and the process exits, be a question open or not.
Return ==
    /\ IF ForAll THEN phase = "told" ELSE phase = "running" /\ node = "end"
    /\ GoOn("exited", ForAll \/ errs # {} \/ line.cmd = "pre-backup-check")
    /\ UNCHANGED <<vars, console, sigint>>

-----------------------------------------------------------------------------
(* SIGINT *)

Alive == phase # "exited"

\* The process is gone, and with it the handler and what is in its writer.
Die(notice) ==
    /\ phase' = "exited" /\ advised' = notice
    /\ \/ Exit
       \/ node \notin StepsOf(workflow) /\ UNCHANGED vars
    /\ UNCHANGED <<line, trap, notices>>

\* Without a handler the signal kills bbr; with one it is put into sigintChan, if
\* there is room.
Interrupt ==
    /\ Alive /\ signals < MaxSignals
    /\ signals' = signals + 1
    /\ \/ trap = "none" /\ Die("none") /\ UNCHANGED pending
       \/ trap # "none" /\ pending' = 1 /\ UNCHANGED <<vars, process, advised>>
    /\ UNCHANGED <<console, handler>>

\* for range sigintChan: both writers are paused.
TakeSignal ==
    /\ Alive /\ handler = "waiting" /\ pending = 1
    /\ pending' = 0 /\ handler' = "paused"
    /\ Pause
    /\ UNCHANGED <<vars, process, advised, signals>>

\* A plausible bug: the log goes on as soon as the question is asked.
AskResumed ==
    /\ Alive /\ handler = "paused"
    /\ handler' = "reading"
    /\ Resume
    /\ UNCHANGED <<vars, process, pending, advised, signals>>

Ask ==
    /\ Alive /\ handler = "paused"
    /\ handler' = "reading"
    /\ UNCHANGED <<vars, process, console, pending, advised, signals>>

\* "yes": the notice of the handler's messages, and os.Exit.
Confirm ==
    /\ Alive /\ handler = "reading"
    /\ Die(IF trap = "backup" THEN "backup-cleanup" ELSE "restore-cleanup")
    /\ UNCHANGED <<console, pending, handler, signals>>

\* Anything else, or an error from stdin.
Decline ==
    /\ Alive /\ handler = "reading"
    /\ handler' = "answered"
    /\ UNCHANGED <<vars, process, console, pending, advised, signals>>

ResumeLog ==
    /\ Alive /\ handler = "answered"
    /\ handler' = "waiting"
    /\ Resume
    /\ UNCHANGED <<vars, process, pending, advised, signals>>

-----------------------------------------------------------------------------

Main ==
    \/ Show \/ Before \/ Action \/ BuildBoshClient \/ ListAll \/ SetUp
    \/ Begin \/ Work \/ TellEnd \/ Return

trapSigint == TakeSignal \/ Ask \/ Confirm \/ Decline \/ ResumeLog

PNext == Main \/ Interrupt \/ trapSigint

\* bbr's own code does not stop; nobody need answer a question.
PSpec == PInit /\ [][PNext]_allVars /\ WF_allVars(Main)

-----------------------------------------------------------------------------

\* Whatever was logged when, a line is on the terminal or in the buffer, once and in
\* the order of the log; with no question open none is held back.  For all deployments
\* the log is in the deployment's own buffer, and on the terminal, all of it, if that
\* deployment has failed.
LogIsKept ==
    LET lines == [n \in 1 .. logged |-> n]
    IN  IF ForAll
        THEN /\ own = lines /\ buffered = <<>>
             /\ out # <<>> => out = lines /\ errs # {}
             /\ phase = "told" /\ errs # {} /\ PrintsLog => out = lines
        ELSE /\ out \o buffered = lines
             /\ Alive /\ handler = "waiting" => buffered = <<>>

\* From the question to its answer no step of a workflow that goes on meanwhile writes to
\* the terminal.  What is printed past the log writer does get there: before the process
\* exits, and for all deployments where the action of one begins or ends, when that may
\* be the whole log of one that failed.
QuestionStandsAlone ==
    [][handler = "reading" =>
          /\ out' = out \/ (ForAll /\ phase = "running" /\ phase' = "told" /\ errs # {})
          /\ notices' = notices \/ (phase' # phase /\ (ForAll \/ phase' = "exited"))]_allVars

\* The process exits whatever fails, and an unanswered question does not keep it.
\* Unless it is made to exit, locking leads to unlocking, and once a deployment was
\* found, and with it its ssh users made, the run goes on to a clean-up step.
RunEndsCleanly ==
    /\ <>(phase = "exited")
    /\ node = "lock" ~>
           node \in {"unlockAfterSuccessfulBackup", "unlockAfterFailedBackup", "exited"}
    /\ node = "preRestoreLock" ~> node \in {"postRestoreUnlock", "exited"}
    /\ node \in {"backupable", "restorable", "postBackupUnlock", "postRestoreUnlock"} ~>
           node \in {"cleanup", "cleanupPrevious", "exited"}

\* Whoever confirms an interruption is told of a command that undoes what was locked:
\* it has the unlock step of its kind, the same order of locks, the same executor.
\* (Not of an interrupted restore-cleanup, whose handler speaks of a backup.)
AdviceUndoes ==
    advised # "none" /\ line.cmd # "restore-cleanup" =>
        LET did   == Command(line.target, line.cmd).builds
            undo  == Command(line.target, advised).builds
        IN  /\ did.orderer = undo.orderer /\ did.executor = undo.executor
            /\ did.manager = undo.manager
            /\ (IF line.cmd = "restore" THEN "postRestoreUnlock" ELSE "postBackupUnlock")
                  \in StepsOf(advised)

=============================================================================
