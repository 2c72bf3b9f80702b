---------------------------- MODULE CommandProofs ----------------------------
(***************************************************************************)
(* Proofs about the commands of bbr.                                       *)
(*                                                                         *)
(* About module BbrProcess, for every set of commands and any number of    *)
(* signals: the log is kept, a question stands alone on the terminal, the  *)
(* advice of the SIGINT handler undoes what was locked, and the process    *)
(* does nothing with its workflow that Workflow.Run does not.              *)
(*                                                                         *)
(* About module AllDeployments, for any number of deployments: the results *)
(* are told, the exit code and the advice are those that the errors call   *)
(* for, and the executor of deployments keeps the promise of BatchRun.     *)
(***************************************************************************)
EXTENDS BbrProcess, AllDeployments, SequenceTheorems, FiniteSetTheorems, TLAPS

\* The command lines: of bbr itself, or a command for a target.
LEMMA CommandLineType ==
    ASSUME NEW l \in CommandLines
    PROVE  /\ l.target \in {"deployment", "director", "bbr"}
           /\ l.target # "bbr" => l.cmd \in Workflows
  BY DEF CommandLines

-----------------------------------------------------------------------------
(* The log *)

Lines(k) == [n \in 1 .. k |-> n]

\* A line after the first k is line k + 1.
LEMMA LinesGrow ==
    ASSUME NEW k \in Nat
    PROVE  Lines(k) \in Seq(Nat) /\ Lines(k) \o <<k + 1>> = Lines(k + 1)
  <1>1. Lines(k) \in Seq(Nat) /\ Lines(k + 1) \in Seq(Nat) /\ <<k + 1>> \in Seq(Nat)
    BY DEF Lines
  <1>2. Len(Lines(k)) = k /\ Len(Lines(k + 1)) = k + 1 /\ Len(<<k + 1>>) = 1
    BY DEF Lines
  <1>3. /\ Lines(k) \o <<k + 1>> \in Seq(Nat)
        /\ Len(Lines(k) \o <<k + 1>>) = k + 1
        /\ \A i \in 1 .. k + 1 :
              (Lines(k) \o <<k + 1>>)[i] = IF i <= k THEN Lines(k)[i] ELSE <<k + 1>>[i - k]
    BY <1>1, <1>2, ConcatProperties
  <1>4. \A i \in 1 .. k + 1 : (Lines(k) \o <<k + 1>>)[i] = Lines(k + 1)[i]
    <2> SUFFICES ASSUME NEW i \in 1 .. k + 1
                 PROVE  (Lines(k) \o <<k + 1>>)[i] = Lines(k + 1)[i]
      OBVIOUS
    <2>1. CASE i <= k
      BY <1>3, <2>1 DEF Lines
    <2>2. CASE i = k + 1
      BY <1>3, <2>2 DEF Lines
    <2>3. i <= k \/ i = k + 1
      OBVIOUS
    <2> QED
      BY <2>1, <2>2, <2>3
  <1>5. Lines(k) \o <<k + 1>> = Lines(k + 1)
    BY <1>1, <1>2, <1>3, <1>4, SeqEqual
  <1> QED
    BY <1>1, <1>5

\* What the writer holds and what it has written, beside the handler that pauses it.
\* That it holds nothing unless it is paused is what makes a write keep the order.
WriterInv ==
    /\ out \in Seq(Nat) /\ buffered \in Seq(Nat) /\ logged \in Nat /\ own \in Seq(Nat)
    /\ paused \in BOOLEAN
    /\ handler \in {"waiting", "paused", "reading", "answered"}
    /\ ~paused => buffered = <<>>
    /\ Alive => (paused <=> handler # "waiting")

\* Where the lines are.  For all deployments none is on the terminal before the action of
\* the deployment returns.
LinesInv ==
    /\ ~ForAll => out \o buffered = Lines(logged)
    /\ ForAll => /\ own = Lines(logged) /\ buffered = <<>>
                 /\ phase \notin {"told", "exited"} => out = <<>>
                 /\ out # <<>> => out = own /\ errs # {}
                 /\ phase = "told" /\ errs # {} /\ PrintsLog => out = own

\* Only a command for all deployments lists them, and no error is collected before the
\* workflow runs.
PhaseInv ==
    /\ phase \in {"list", "setup"} => ForAll
    /\ phase \notin {"running", "told", "exited"} => errs = {}

LogInv == WriterInv /\ LinesInv /\ PhaseInv

LEMMA NextPhaseInv ==
    ASSUME PhaseInv, [PNext]_allVars
    PROVE  PhaseInv' /\ line' = line /\ (ForAll' <=> ForAll) /\ (PrintsLog' <=> PrintsLog)
  <1>1. line' = line
    <2>1. CASE Main
      BY <2>1 DEF Main, Show, Before, Action, BuildBoshClient, BuildClient, ListAll, SetUp, Begin,
         Work, TellEnd, Return, GoOn, process
    <2>2. CASE Interrupt \/ trapSigint
      BY <2>2 DEF Interrupt, trapSigint, TakeSignal, Ask, Confirm, Decline, ResumeLog, Die, process
    <2> QED
      BY <2>1, <2>2 DEF PNext, allVars, process
  <1>2. (ForAll' <=> ForAll) /\ (PrintsLog' <=> PrintsLog)
    BY <1>1 DEF ForAll, PrintsLog
  <1>3. phase' \in {"list", "setup"} => ForAll
    <2>1. CASE Main
      BY <2>1 DEF Main, Show, Before, Action, BuildBoshClient, BuildClient, ListAll, SetUp, Begin,
         Work, TellEnd, Return, GoOn, process, PhaseInv
    <2>2. CASE Interrupt \/ trapSigint
      BY <2>2 DEF Interrupt, trapSigint, TakeSignal, Ask, Confirm, Decline, ResumeLog, Die, process,
         PhaseInv
    <2> QED
      BY <2>1, <2>2 DEF PNext, allVars, process, PhaseInv
  <1>4. phase' \notin {"running", "told", "exited"} => errs' = {}
    <2>1. CASE Main
      BY <2>1 DEF Main, Show, Before, Action, BuildBoshClient, BuildClient, ListAll, SetUp, Begin,
         Work, TellEnd, Return, GoOn, process, vars, PhaseInv
    <2>2. CASE Interrupt \/ trapSigint
      BY <2>2 DEF Interrupt, trapSigint, TakeSignal, Ask, Confirm, Decline, ResumeLog, Die, process,
         vars, PhaseInv
    <2> QED
      BY <2>1, <2>2 DEF PNext, allVars, process, vars, PhaseInv
  <1> QED
    BY <1>1, <1>2, <1>3, <1>4 DEF PhaseInv

\* A line that is logged, wherever to, keeps the log.
LEMMA LogKeeps ==
    ASSUME LogInv, Log, line' = line, phase' = "running", phase = "running"
    PROVE  /\ out' \in Seq(Nat) /\ buffered' \in Seq(Nat) /\ logged' \in Nat /\ own' \in Seq(Nat)
           /\ paused' = paused
           /\ LinesInv'
           /\ ~paused => buffered' = <<>>
           /\ paused => out' = out
  <1> USE DEF LogInv
  <1> DEFINE next == <<logged + 1>>
  <1>1. next \in Seq(Nat) /\ logged \in Nat /\ logged' = logged + 1
        /\ out \in Seq(Nat) /\ buffered \in Seq(Nat) /\ own \in Seq(Nat)
    BY DEF WriterInv, Log
  <1>2. Lines(logged) \o next = Lines(logged') /\ (ForAll' <=> ForAll)
    BY <1>1, LinesGrow DEF ForAll
  <1>3. CASE ForAll
    <2>1. own' = own \o next /\ UNCHANGED <<paused, buffered, out>>
      BY <1>3 DEF Log
    <2>2. own' \in Seq(Nat) /\ own' = Lines(logged')
      BY <1>1, <1>2, <1>3, <2>1, ConcatProperties DEF LinesInv
    <2>3. buffered = <<>> /\ out = <<>>
      BY <1>3 DEF LinesInv
    <2>4. LinesInv'
      BY <1>2, <1>3, <2>1, <2>2, <2>3 DEF LinesInv, Lines
    <2> QED
      BY <1>1, <2>1, <2>2, <2>4 DEF WriterInv
  <1>4. CASE ~ForAll
    <2>1. Write(next) /\ own' = own
      BY <1>4 DEF Log
    <2>2. out \o buffered = Lines(logged)
      BY <1>4 DEF LinesInv
    <2> HIDE DEF next
    <2>3. CASE paused
      <3>1. buffered' = buffered \o next /\ out' = out /\ paused' = paused
        BY <2>1, <2>3 DEF Write
      <3>2. buffered' \in Seq(Nat)
        BY <1>1, <3>1, ConcatProperties
      <3>3. (out \o buffered) \o next = out \o (buffered \o next)
        BY <1>1, ConcatAssociative, SMTT(30)
      <3>4. out' \o buffered' = Lines(logged')
        BY <1>2, <2>2, <3>1, <3>3
      <3>5. LinesInv'
        BY <1>2, <1>4, <3>4 DEF LinesInv, Lines
      <3> QED
        BY <1>1, <2>1, <2>3, <3>1, <3>2, <3>5
    <2>4. CASE ~paused
      <3>1. out' = out \o next /\ buffered' = <<>> /\ buffered = <<>> /\ paused' = paused
        BY <2>1, <2>4 DEF Write, WriterInv
      <3>2. out' \in Seq(Nat)
        BY <1>1, <3>1, ConcatProperties
      <3>3. out \o buffered = out /\ out' \o buffered' = out' /\ buffered' \in Seq(Nat)
        BY <1>1, <3>1, <3>2, ConcatEmptySeq
      <3>4. out' \o buffered' = Lines(logged')
        BY <1>2, <2>2, <3>1, <3>3
      <3>5. LinesInv'
        BY <1>2, <1>4, <3>4 DEF LinesInv, Lines
      <3> QED
        BY <1>1, <2>1, <2>4, <3>1, <3>2, <3>3, <3>5
    <2> QED
      BY <2>3, <2>4 DEF WriterInv
  <1> QED
    BY <1>3, <1>4

\* What was held back follows what is on the terminal.
LEMMA ResumeKeeps ==
    ASSUME LogInv, Resume, UNCHANGED <<line, phase, errs>>
    PROVE  /\ out' \in Seq(Nat) /\ buffered' = <<>> /\ buffered' \in Seq(Nat)
           /\ logged' = logged /\ own' = own /\ paused' = FALSE
           /\ LinesInv'
  <1>1. /\ out' = out \o buffered /\ buffered' = <<>> /\ logged' = logged /\ own' = own
        /\ paused' = FALSE
    BY DEF Resume
  <1>2. out \in Seq(Nat) /\ buffered \in Seq(Nat)
    BY DEF LogInv, WriterInv
  <1>3. out' \in Seq(Nat) /\ <<>> \in Seq(Nat)
    BY <1>1, <1>2, ConcatProperties
  <1>4. out' \o <<>> = out' /\ out \o <<>> = out
    BY <1>2, <1>3, ConcatEmptySeq
  <1>5. (ForAll' <=> ForAll) /\ (PrintsLog' <=> PrintsLog)
    BY DEF ForAll, PrintsLog
  <1>6. CASE ForAll
    <2>1. buffered = <<>> /\ out' = out
      BY <1>1, <1>4, <1>6 DEF LogInv, LinesInv
    <2>2. Lines(logged)' = Lines(logged)
      BY <1>1 DEF Lines
    <2> QED
      BY <1>1, <1>3, <1>5, <1>6, <2>1, <2>2 DEF LogInv, LinesInv
  <1>7. CASE ~ForAll
    <2>1. out' \o buffered' = Lines(logged)
      BY <1>1, <1>4, <1>7 DEF LogInv, LinesInv
    <2>2. Lines(logged)' = Lines(logged)
      BY <1>1 DEF Lines
    <2> QED
      BY <1>1, <1>3, <1>5, <1>7, <2>1, <2>2 DEF LinesInv
  <1> QED
    BY <1>1, <1>3, <1>6, <1>7

\* The log of a deployment that failed is printed whole.
LEMMA TellEndKeeps ==
    ASSUME LogInv, TellEnd
    PROVE  out' \in Seq(Nat) /\ LinesInv' /\ (out' = out \/ errs # {})
  <1>1. /\ ForAll /\ out = <<>> /\ own = Lines(logged) /\ own \in Seq(Nat) /\ buffered = <<>>
        /\ out' = IF errs # {} /\ PrintsLog THEN out \o own ELSE out
        /\ UNCHANGED <<errs, line, paused, buffered, logged, own>> /\ phase' = "told"
    BY DEF LogInv, WriterInv, LinesInv, TellEnd, GoOn, vars
  <1>2. <<>> \o own = own /\ <<>> \in Seq(Nat)
    BY <1>1, ConcatEmptySeq
  <1>3. (ForAll' <=> ForAll) /\ (PrintsLog' <=> PrintsLog)
    BY <1>1 DEF ForAll, PrintsLog
  <1> QED
    BY <1>1, <1>2, <1>3 DEF LinesInv, Lines

LEMMA InitLogInv == PInit => LogInv
  <1> SUFFICES ASSUME PInit PROVE LogInv
    OBVIOUS
  <1>1. /\ out = <<>> /\ buffered = <<>> /\ logged = 0 /\ own = <<>>
        /\ paused = FALSE /\ handler = "waiting" /\ phase = "before"
    BY DEF PInit
  <1>2. <<>> \in Seq(Nat) /\ <<>> \o <<>> = <<>> /\ Lines(0) = <<>>
    <2>1. <<>> \in Seq(Nat)
      OBVIOUS
    <2>2. Lines(0) \in Seq(Nat) /\ Len(Lines(0)) = 0
      BY DEF Lines
    <2>3. Lines(0) = <<>>
      BY <2>2, EmptySeq
    <2> QED
      BY <2>1, <2>3, ConcatEmptySeq
  <1> QED
    <2>1. errs = {}
      BY DEF PInit, Init
    <2>2. PhaseInv
      BY <1>1, <2>1 DEF PhaseInv
    <2>3. WriterInv
      BY <1>1, <1>2 DEF WriterInv, Alive
    <2>4. LinesInv
      BY <1>1, <1>2, Zenon DEF LinesInv
    <2> QED
      BY <2>2, <2>3, <2>4 DEF LogInv

\* Every step keeps the log.
LEMMA NextLogInv == LogInv /\ [PNext]_allVars => LogInv'
  <1> SUFFICES ASSUME LogInv, [PNext]_allVars PROVE WriterInv' /\ LinesInv'
    BY NextPhaseInv DEF LogInv
  <1> USE DEF Alive
  <1>1. (ForAll' <=> ForAll) /\ (PrintsLog' <=> PrintsLog) /\ line' = line
    BY NextPhaseInv DEF LogInv
  <1>2. ASSUME UNCHANGED <<buffered, out, logged, own>>,
               \/ phase' \notin {"told", "exited"} /\ phase \notin {"told", "exited"}
               \/ UNCHANGED errs /\ (phase' = phase \/ phase' = "exited")
               \/ phase \notin {"told", "exited"} /\ phase' = "told" /\ errs' = {}
        PROVE  LinesInv'
    <2>1. Lines(logged)' = Lines(logged)
      BY <1>2 DEF Lines
    <2> QED
      BY <1>1, <1>2, <2>1 DEF LogInv, LinesInv
  <1>3. ASSUME UNCHANGED <<console, handler>>, phase' # "exited" => phase # "exited"
        PROVE  WriterInv'
    BY <1>3 DEF LogInv, WriterInv, console
  <1>4. CASE Show \/ Before \/ BuildBoshClient \/ ListAll \/ Begin \/ Return
    BY <1>2, <1>3, <1>4 DEF Show, Before, BuildBoshClient, BuildClient, ListAll, Begin, Return, GoOn,
       console, sigint, vars
  <1>5. CASE Action
    BY <1>2, <1>3, <1>5 DEF Action, console, sigint, vars
  <1>6. CASE SetUp
    BY <1>2, <1>3, <1>6 DEF SetUp, GoOn, console, sigint, vars, LogInv, PhaseInv
  <1>7. CASE Work
    <2>1. Log /\ phase = "running" /\ phase' = "running" /\ handler' = handler
      BY <1>7 DEF Work, process, sigint
    <2> QED
      BY <1>1, <2>1, LogKeeps DEF LogInv, WriterInv
  <1>8. CASE TellEnd
    BY <1>8, TellEndKeeps DEF TellEnd, GoOn, sigint, LogInv, WriterInv
  <1>9. CASE Interrupt
    <2>1. UNCHANGED <<console, handler, errs>> /\ (phase' = phase \/ phase' = "exited")
      BY <1>9 DEF Interrupt, Die, Exit, process, vars
    <2> QED
      BY <1>2, <1>3, <2>1 DEF console
  <1>10. CASE TakeSignal
    <2>1. LinesInv'
      BY <1>2, <1>10 DEF TakeSignal, Pause, process, vars
    <2> QED
      BY <1>10, <2>1 DEF TakeSignal, Pause, process, LogInv, WriterInv
  <1>11. CASE Ask \/ Decline
    <2>1. LinesInv'
      BY <1>2, <1>11 DEF Ask, Decline, console, process, vars
    <2> QED
      BY <1>11, <2>1 DEF Ask, Decline, console, process, LogInv, WriterInv
  <1>12. CASE Confirm
    <2>1. UNCHANGED <<console, handler, errs>> /\ phase' = "exited"
      BY <1>12 DEF Confirm, Die, Exit, vars
    <2> QED
      BY <1>2, <1>3, <2>1 DEF console
  <1>13. CASE ResumeLog
    <2>1. UNCHANGED <<line, phase, errs>> /\ Resume /\ handler' = "waiting"
      BY <1>13 DEF ResumeLog, process, vars
    <2> QED
      BY <2>1, ResumeKeeps DEF LogInv, WriterInv
  <1>14. CASE UNCHANGED allVars
    BY <1>2, <1>3, <1>14 DEF allVars, console, sigint, process, vars
  <1> QED
    BY <1>4, <1>5, <1>6, <1>7, <1>8, <1>9, <1>10, <1>11, <1>12, <1>13, <1>14
       DEF PNext, Main, trapSigint

\* The PausableWriter and trapSigint together lose, repeat and reorder no line of the
\* log, whenever the signals come, and hold none back with no question open; for all
\* deployments the log of one that failed is printed whole.
THEOREM LogKept == PSpec => []LogIsKept
  <1>1. LogInv => LogIsKept
    BY DEF LogInv, WriterInv, LinesInv, LogIsKept, Lines
  <1> QED
    BY <1>1, InitLogInv, NextLogInv, PTL DEF PSpec

\* While the handler reads the answer, nothing a step of the workflow logs gets to the
\* terminal: between the pause of the writers and their resumption out is left alone, but
\* for the log of a deployment that failed, one of all, when its action ends.  Nothing
\* else is printed either, unless the command is run for all deployments or exits.
THEOREM QuestionAlone == PSpec => QuestionStandsAlone
  <1> DEFINE quietly ==
        /\ out' = out \/ (ForAll /\ phase = "running" /\ phase' = "told" /\ errs # {})
        /\ notices' = notices \/ (phase' # phase /\ (ForAll \/ phase' = "exited"))
  <1>1. ASSUME LogInv, [PNext]_allVars, handler = "reading" PROVE quietly
    <2>1. CASE Work
      <3>1. paused
        BY <1>1, <2>1 DEF Work, LogInv, WriterInv, Alive
      <3>2. out' = out
        BY <1>1, <2>1, <3>1, LogKeeps DEF Work, process
      <3> QED
        BY <2>1, <3>2 DEF Work, process
    <2>2. CASE TellEnd
      BY <1>1, <2>2, TellEndKeeps DEF TellEnd, GoOn
    <2>3. CASE Action
      BY <2>3 DEF Action, console
    <2>4. CASE Show \/ Before \/ BuildBoshClient \/ ListAll \/ SetUp \/ Begin \/ Return
      <3>1. CASE ListAll
        BY <1>1, <3>1 DEF ListAll, GoOn, console, LogInv, PhaseInv
      <3> QED
        BY <2>4, <3>1 DEF Show, Before, BuildBoshClient, BuildClient, SetUp, Begin, Return, GoOn,
           console
    <2>5. CASE Interrupt
      BY <2>5 DEF Interrupt, Die, process, console
    <2>6. CASE trapSigint
      BY <1>1, <2>6 DEF trapSigint, TakeSignal, Ask, Confirm, Decline, ResumeLog, Die, process, console
    <2>7. CASE UNCHANGED allVars
      BY <2>7 DEF allVars, process, console
    <2> QED
      BY <1>1, <2>1, <2>2, <2>3, <2>4, <2>5, <2>6, <2>7 DEF PNext, Main
  <1>2. LogInv /\ [PNext]_allVars => [handler = "reading" => quietly]_allVars
    BY <1>1
  <1> QED
    BY <1>2, InitLogInv, NextLogInv, PTL DEF PSpec, QuestionStandsAlone

-----------------------------------------------------------------------------
(* The advice *)

\* A process that gets past its flags is that of a command, its workflow is one that
\* may be run, its handler, once there is one, has the command's messages, and nothing
\* is asked or advised without a handler.
AdviceInv ==
    /\ line.target \in {"deployment", "director", "bbr"}
    /\ line.target # "bbr" => line.cmd \in Workflows /\ line.cmd \in Commands
    /\ phase \notin {"before", "exited"} => line.target # "bbr"
    /\ trap # "none" => line.target # "bbr" /\ trap = Command(line.target, line.cmd).trap
    /\ handler # "waiting" \/ pending = 1 => trap # "none"
    /\ advised # "none" =>
          /\ trap # "none"
          /\ advised = IF trap = "backup" THEN "backup-cleanup" ELSE "restore-cleanup"

LEMMA InitAdviceInv == PInit => AdviceInv
  <1> SUFFICES ASSUME PInit PROVE AdviceInv
    OBVIOUS
  <1>1. /\ line.target \in {"deployment", "director", "bbr"}
        /\ line.target # "bbr" => line.cmd \in Workflows
    BY CommandLineType DEF PInit
  <1>2. line.target # "bbr" => line.cmd \in Commands
    BY DEF PInit, Init
  <1>3. phase = "before" /\ trap = "none" /\ handler = "waiting" /\ pending = 0 /\ advised = "none"
    BY DEF PInit
  <1> QED
    BY <1>1, <1>2, <1>3 DEF AdviceInv

\* Every step keeps the handler in line with the command.
LEMMA NextAdviceInv == AdviceInv /\ [PNext]_allVars => AdviceInv'
  <1> SUFFICES ASSUME AdviceInv, [PNext]_allVars PROVE AdviceInv'
    OBVIOUS
  <1> USE DEF AdviceInv
  <1>1. ASSUME UNCHANGED <<line, trap, pending, handler, advised>>,
               phase' \notin {"before", "exited"} => line.target # "bbr"
        PROVE  AdviceInv'
    BY <1>1
  <1>2. CASE Show \/ Before
    BY <1>1, <1>2 DEF Show, Before, GoOn, sigint
  <1>3. CASE BuildBoshClient \/ ListAll \/ SetUp \/ Begin \/ TellEnd \/ Return
    <2>1. UNCHANGED <<line, trap, pending, handler, advised>> /\ line.target # "bbr"
      BY <1>3 DEF BuildBoshClient, BuildClient, ListAll, SetUp, Begin, TellEnd, Return, GoOn, sigint
    <2> QED
      BY <1>1, <2>1
  <1>4. CASE Action
    <2>1. /\ line' = line /\ trap' = Command(line.target, line.cmd).trap /\ line.target # "bbr"
          /\ UNCHANGED <<pending, handler, advised>>
      BY <1>4 DEF Action, sigint
    <2>2. trap # "none" => trap' = trap
      BY <2>1
    <2> QED
      BY <2>1, <2>2
  <1>5. CASE Work
    BY <1>1, <1>5 DEF Work, process, sigint
  <1>6. CASE Interrupt
    <2>1. CASE trap = "none" /\ Die("none") /\ UNCHANGED pending
      BY <1>6, <2>1 DEF Interrupt, Die
    <2>2. CASE trap # "none" /\ pending' = 1 /\ UNCHANGED <<vars, process, advised>>
      BY <1>6, <2>2 DEF Interrupt, process
    <2> QED
      BY <1>6, <2>1, <2>2 DEF Interrupt
  <1>7. CASE TakeSignal \/ Ask \/ Decline \/ ResumeLog
    BY <1>7 DEF TakeSignal, Ask, Decline, ResumeLog, process
  <1>8. CASE Confirm
    BY <1>8 DEF Confirm, Die
  <1>9. CASE UNCHANGED allVars
    BY <1>1, <1>9 DEF allVars, process, sigint
  <1> QED
    BY <1>2, <1>3, <1>4, <1>5, <1>6, <1>7, <1>8, <1>9 DEF PNext, Main, trapSigint

\* The clean-up that a command's handler advises is built like the command itself, and
\* its workflow has the unlock step of the command's kind.
LEMMA CleanupUndoes ==
    ASSUME NEW target \in {"deployment", "director"}, NEW c \in Workflows, c # "restore-cleanup",
           NEW t, t = Command(target, c).trap, t # "none",
           NEW undo, undo = IF t = "backup" THEN "backup-cleanup" ELSE "restore-cleanup"
    PROVE  /\ Command(target, c).builds.orderer = Command(target, undo).builds.orderer
           /\ Command(target, c).builds.executor = Command(target, undo).builds.executor
           /\ Command(target, c).builds.manager = Command(target, undo).builds.manager
           /\ (IF c = "restore" THEN "postRestoreUnlock" ELSE "postBackupUnlock") \in StepsOf(undo)
  <1> USE DEF Command, DeploymentBackup, DeploymentBackupCleanup, DeploymentPreBackupCheck,
              DeploymentRestore, DeploymentRestoreCleanup, DirectorBackup, DirectorBackupCleanup,
              DirectorPreBackupCheck, DirectorRestore, DirectorRestoreCleanup
  <1>1. CASE c = "backup" \/ c = "backup-cleanup"
    <2>1. undo = "backup-cleanup"
      BY <1>1
    <2> QED
      BY <1>1, <2>1 DEF StepsOf, BuildDeploymentBackuper, BuildDeploymentBackupCleanuper,
         BuildDirectorBackuper, BuildDirectorBackupCleaner
  <1>2. CASE c = "restore"
    <2>1. undo = "restore-cleanup"
      BY <1>2
    <2> QED
      BY <1>2, <2>1 DEF StepsOf, BuildDeploymentRestorer, BuildDeploymentRestoreCleanuper,
         BuildDirectorRestorer, BuildDirectorRestoreCleaner
  <1>3. c # "pre-backup-check"
    OBVIOUS
  <1> QED
    BY <1>1, <1>2, <1>3 DEF Workflows

\* Whoever confirms an interruption is told of the command that undoes what was locked,
\* whichever the target, the command and its flags.
THEOREM AdviceIsSound == PSpec => []AdviceUndoes
  <1>1. AdviceInv => AdviceUndoes
    BY CleanupUndoes DEF AdviceInv, AdviceUndoes
  <1> QED
    BY <1>1, InitAdviceInv, NextAdviceInv, PTL DEF PSpec

-----------------------------------------------------------------------------
(* The workflow *)

\* What a bbr process does with its workflow, between its flags, its client, its log
\* and its signals, is what Workflow.Run does with one, or nothing.
THEOREM ProcessRunsWorkflow == PSpec => Init /\ [][Next]_vars
  <1>1. PInit => Init
    BY DEF PInit
  <1>2. ASSUME AdviceInv, [PNext]_allVars PROVE [Next]_vars
    <2>1. CASE Begin
      <3>1. line.cmd \in Commands /\ Start(line.cmd)
        BY <1>2, <2>1 DEF Begin, AdviceInv
      <3> QED
        BY <3>1 DEF Next
    <2>2. CASE Work
      BY <2>2 DEF Work, Next
    <2>3. CASE Main /\ ~Begin /\ ~Work
      BY <2>3 DEF Main, Show, Before, Action, BuildBoshClient, ListAll, SetUp, TellEnd,
         Return
    <2>4. CASE Interrupt
      BY <2>4 DEF Interrupt, Die, Next
    <2>5. CASE trapSigint
      BY <2>5 DEF trapSigint, TakeSignal, Ask, Confirm, Decline, ResumeLog, Die, Next
    <2>6. CASE UNCHANGED allVars
      BY <2>6 DEF allVars
    <2> QED
      BY <1>2, <2>1, <2>2, <2>3, <2>4, <2>5, <2>6 DEF PNext
  <1> QED
    BY <1>1, <1>2, InitAdviceInv, NextAdviceInv, PTL DEF PSpec

-----------------------------------------------------------------------------
(* The executor of deployments *)

Places == {"unborn", "single", "executing", "reporting", "releasing", "ended"}

\* The deployments whose result was sent, and those whose goroutine holds a token.
Reported == {d \in Deployments : pc[d] \in {"releasing", "ended"}}
InFlight == {d \in Deployments : pc[d] \in {"executing", "reporting", "releasing"}}

ListTypeInv ==
    /\ cmd \in Workflows /\ stage \in {"start", "running", "collected", "exited"}
    /\ dispatched \in Nat /\ received \in Nat /\ guard \in Nat
    /\ pc \in [Deployments -> Places]
    /\ outcome = [d \in Deployments |-> outcome[d]]
    /\ results \in Seq(Deployments)
    /\ failures \in SUBSET Deployments

\* Where the caller is tells where the goroutines are.  One that is not done has no
\* result, and of a command that lists no deployments at most the first has one.
ListOrderInv ==
    /\ dispatched <= N /\ received <= N
    /\ stage = "start" => dispatched = 0
    /\ stage \in {"running", "collected"} \/ dispatched > 0 =>
           cmd \in {"backup", "backup-cleanup", "pre-backup-check"}
    /\ received > 0 => dispatched = N
    /\ stage = "collected" \/ (stage = "exited" /\ dispatched > 0) => received = N
    /\ \A d \in Deployments :
          /\ d > dispatched <=> pc[d] \in {"unborn", "single"}
          /\ pc[d] = "single" => d = 1 /\ stage = "exited"
          /\ pc[d] \in {"unborn", "executing"} => outcome[d] = <<>>
          /\ pc[d] \in {"reporting", "releasing", "ended"} => outcome[d] \in ActionReturns

\* The channels hold what was sent and not yet received.
ListCountInv ==
    /\ guard = Cardinality(InFlight) /\ guard <= MaxInFlight
    /\ Len(results) + received = Cardinality(Reported)

\* A result that was sent is in the caller's list or in the channel, if it is one of a
\* deployment that failed, and nothing else is in the list.
ListFailureInv ==
    /\ \A d \in failures : d \in Reported /\ outcome[d] # <<>>
    /\ \A i \in 1 .. Len(results) : results[i] \in Reported
    /\ \A d \in Reported : outcome[d] # <<>> =>
           d \in failures \/ \E i \in 1 .. Len(results) : results[i] = d

\* What the process told when it ended: for one deployment, for none, or for all.
ToldInv ==
    /\ stage # "exited" => footer = FALSE
    /\ stage = "exited" /\ dispatched = 0 =>
           IF pc[1] = "single"
           THEN /\ outcome[1] \in Returns(cmd) \cup {<<"setup">>}
                /\ exitCode = BuildExitCode(outcome[1]) /\ footer = Advised(outcome[1])
           ELSE footer = FALSE
    /\ stage = "exited" /\ dispatched > 0 =>
           /\ succeeded = Deployments \ failures
           /\ IF failures = {} THEN exitCode = 0 /\ footer = FALSE
              ELSE exitCode = 1 /\ footer = ErrorHandlerAdvises(failures)

\* Any deployments are finitely many, and as many as all of them only if they are all.
LEMMA CountOfDeployments ==
    /\ \A S \in SUBSET Deployments :
          /\ IsFiniteSet(S) /\ Cardinality(S) \in Nat /\ Cardinality(S) <= N
          /\ Cardinality(S) = N => S = Deployments
    /\ IsFiniteSet(Reported) /\ Cardinality(Reported) \in Nat /\ Cardinality(Reported) <= N
    /\ IsFiniteSet(InFlight) /\ Cardinality(InFlight) \in Nat
    /\ N \in Nat /\ N > 0 /\ 1 \in Deployments
  <1>1. N \in Nat /\ N > 0 /\ 1 \in Deployments
    BY ListAssumption DEF Deployments
  <1>2. IsFiniteSet(Deployments) /\ Cardinality(Deployments) = N
    BY <1>1, FS_Interval, SMTT(30) DEF Deployments
  <1>3. ASSUME NEW S \in SUBSET Deployments
        PROVE  /\ IsFiniteSet(S) /\ Cardinality(S) \in Nat /\ Cardinality(S) <= N
               /\ Cardinality(S) = N => S = Deployments
    <2>1. /\ IsFiniteSet(S) /\ Cardinality(S) <= Cardinality(Deployments)
          /\ Cardinality(S) = Cardinality(Deployments) => S = Deployments
      BY <1>2, FS_Subset
    <2>2. Cardinality(S) \in Nat
      BY <2>1, FS_CardinalityType
    <2> QED
      BY <1>2, <2>1, <2>2
  <1>4. Reported \in SUBSET Deployments /\ InFlight \in SUBSET Deployments
    BY DEF Reported, InFlight
  <1> QED
    BY <1>1, <1>3, <1>4

\* A goroutine that goes on leaves the others where they are.
LEMMA OneGoesOn ==
    ASSUME ListTypeInv, NEW d \in Deployments, NEW p \in Places, pc' = [pc EXCEPT ![d] = p]
    PROVE  /\ pc' \in [Deployments -> Places]
           /\ pc'[d] = p /\ \A u \in Deployments \ {d} : pc'[u] = pc[u]
  BY DEF ListTypeInv

LEMMA InitListInv ==
    DInit => ListTypeInv /\ ListOrderInv /\ ListCountInv /\ ListFailureInv /\ ToldInv
  <1> SUFFICES ASSUME DInit
               PROVE  ListTypeInv /\ ListOrderInv /\ ListCountInv /\ ListFailureInv /\ ToldInv
    OBVIOUS
  <1>1. /\ stage = "start" /\ dispatched = 0 /\ received = 0 /\ guard = 0
        /\ results = <<>> /\ failures = {} /\ footer = FALSE /\ cmd \in Workflows
        /\ pc = [d \in Deployments |-> "unborn"] /\ outcome = [d \in Deployments |-> <<>>]
    BY DEF DInit
  <1>2. \A d \in Deployments : pc[d] = "unborn" /\ outcome[d] = <<>> /\ d > 0
    BY <1>1 DEF Deployments
  <1>3. ListTypeInv
    BY <1>1 DEF ListTypeInv, Places
  <1>4. ListOrderInv
    BY <1>1, <1>2, ListAssumption DEF ListOrderInv
  <1>5. Reported = {} /\ InFlight = {}
    BY <1>2 DEF Reported, InFlight
  <1>6. Cardinality(Reported) = 0 /\ Cardinality(InFlight) = 0
    BY <1>5, FS_EmptySet
  <1>7. ListCountInv
    BY <1>1, <1>6, ListAssumption DEF ListCountInv
  <1>8. ListFailureInv /\ ToldInv
    BY <1>1, <1>5 DEF ListFailureInv, ToldInv
  <1> QED
    BY <1>3, <1>4, <1>7, <1>8

LEMMA NextListTypeInv == ListTypeInv /\ ListOrderInv /\ [DNext]_deploymentVars => ListTypeInv'
  <1> SUFFICES ASSUME ListTypeInv, ListOrderInv, [DNext]_deploymentVars PROVE ListTypeInv'
    OBVIOUS
  <1> USE DEF ListTypeInv
  <1>1. CASE Single
    <2>1. pc' = [pc EXCEPT ![1] = "single"] /\ "single" \in Places
      BY <1>1 DEF Single, Places
    <2>2. pc' \in [Deployments -> Places]
      BY <2>1, CountOfDeployments, OneGoesOn
    <2>3. PICK es : outcome' = [outcome EXCEPT ![1] = es] /\ stage' = "exited"
      BY <1>1 DEF Single, ProcessError
    <2>4. outcome' = [d \in Deployments |-> outcome'[d]]
      BY <2>3
    <2> QED
      BY <1>1, <2>2, <2>3, <2>4 DEF Single
  <1>2. CASE ListDeployments
    BY <1>2 DEF ListDeployments, executor
  <1>3. CASE ListFails
    BY <1>3 DEF ListFails, executor, ProcessError
  <1>4. CASE Dispatch
    <2>1. dispatched + 1 \in Deployments /\ "executing" \in Places
      BY <1>4, CountOfDeployments DEF Dispatch, Deployments, Places
    <2>2. pc' \in [Deployments -> Places]
      BY <1>4, <2>1, OneGoesOn DEF Dispatch
    <2> QED
      BY <1>4, <2>2 DEF Dispatch
  <1>5. CASE Receive
    <2>1. results # <<>> /\ Head(results) \in Deployments /\ Tail(results) \in Seq(Deployments)
      BY <1>5 DEF Receive
    <2> QED
      BY <1>5, <2>1 DEF Receive
  <1>6. CASE RunReturns
    BY <1>6 DEF RunReturns, executor
  <1>7. CASE runForAllDeployments
    BY <1>7 DEF runForAllDeployments, executor
  <1>8. ASSUME NEW d \in Deployments, Execute(d) PROVE ListTypeInv'
    <2>1. pc' = [pc EXCEPT ![d] = "reporting"] /\ "reporting" \in Places
      BY <1>8 DEF Execute, Places
    <2>2. pc' \in [Deployments -> Places]
      BY <2>1, OneGoesOn
    <2>3. outcome' = [u \in Deployments |-> outcome'[u]]
      BY <1>8 DEF Execute
    <2> QED
      BY <1>8, <2>2, <2>3 DEF Execute
  <1>9. ASSUME NEW d \in Deployments, Report(d) PROVE ListTypeInv'
    <2>1. pc' = [pc EXCEPT ![d] = "releasing"] /\ "releasing" \in Places
      BY <1>9 DEF Report, Places
    <2>2. pc' \in [Deployments -> Places]
      BY <2>1, OneGoesOn
    <2> QED
      BY <1>9, <2>2 DEF Report
  <1>10. ASSUME NEW d \in Deployments, Release(d) PROVE ListTypeInv'
    <2>1. pc' = [pc EXCEPT ![d] = "ended"] /\ "ended" \in Places
      BY <1>10 DEF Release, Places
    <2>2. pc' \in [Deployments -> Places]
      BY <2>1, OneGoesOn
    <2> QED
      BY <1>10, <2>2 DEF Release
  <1>11. CASE UNCHANGED deploymentVars
    BY <1>11 DEF deploymentVars, executor
  <1> QED
    BY <1>1, <1>2, <1>3, <1>4, <1>5, <1>6, <1>7, <1>8, <1>9, <1>10, <1>11
       DEF DNext, Caller, Goroutine

LEMMA NextListOrderInv == ListTypeInv /\ ListOrderInv /\ [DNext]_deploymentVars => ListOrderInv'
  <1> SUFFICES ASSUME ListTypeInv, ListOrderInv, [DNext]_deploymentVars PROVE ListOrderInv'
    OBVIOUS
  <1>0. N \in Nat /\ N > 0 /\ 1 \in Deployments /\ \A d \in Deployments : d \in Nat /\ d > 0 /\ d <= N
    BY CountOfDeployments DEF Deployments
  <1>1. CASE Single
    <2>1. pc' = [pc EXCEPT ![1] = "single"] /\ "single" \in Places
      BY <1>1 DEF Single, Places
    <2>2. pc'[1] = "single" /\ \A u \in Deployments \ {1} : pc'[u] = pc[u]
      BY <1>0, <2>1, OneGoesOn
    <2>3. /\ stage = "start" /\ stage' = "exited" /\ dispatched' = dispatched /\ received' = received
          /\ cmd' = cmd /\ \A u \in Deployments \ {1} : outcome'[u] = outcome[u]
      BY <1>1 DEF Single, ProcessError, ListTypeInv
    <2>4. dispatched = 0 /\ received = 0 /\ \A u \in Deployments : pc[u] \in {"unborn", "single"}
      BY <1>0, <2>3 DEF ListOrderInv, ListTypeInv
    <2>5. \A d \in Deployments :
             /\ d > dispatched' <=> pc'[d] \in {"unborn", "single"}
             /\ pc'[d] = "single" => d = 1 /\ stage' = "exited"
             /\ pc'[d] \in {"unborn", "executing"} => outcome'[d] = <<>>
             /\ pc'[d] \in {"reporting", "releasing", "ended"} => outcome'[d] \in ActionReturns'
      BY <1>0, <2>2, <2>3, <2>4 DEF ListOrderInv
    <2> QED
      BY <2>3, <2>4, <2>5 DEF ListOrderInv
  <1>2. CASE ListDeployments
    BY <1>2 DEF ListDeployments, executor, ListOrderInv, ActionReturns
  <1>3. CASE ListFails
    BY <1>3 DEF ListFails, executor, ProcessError, ListOrderInv, ActionReturns
  <1>4. CASE Dispatch
    <2>1. /\ stage = "running" /\ dispatched < N /\ dispatched' = dispatched + 1
          /\ pc' = [pc EXCEPT ![dispatched + 1] = "executing"] /\ dispatched \in Nat
          /\ UNCHANGED <<cmd, stage, outcome, received>>
      BY <1>4 DEF Dispatch, ListTypeInv
    <2> DEFINE e == dispatched + 1
    <2>2. e \in Deployments /\ "executing" \in Places
      BY <1>0, <2>1 DEF Deployments, Places
    <2>3. pc'[e] = "executing" /\ \A u \in Deployments \ {e} : pc'[u] = pc[u]
      BY <2>1, <2>2, OneGoesOn
    <2>4. pc[e] \in {"unborn", "single"} /\ pc[e] # "single"
      BY <1>0, <2>1, <2>2 DEF ListOrderInv
    <2>5. ActionReturns' = ActionReturns
      BY <2>1 DEF ActionReturns
    <2>6. \A d \in Deployments :
             /\ d > dispatched' <=> pc'[d] \in {"unborn", "single"}
             /\ pc'[d] = "single" => d = 1 /\ stage' = "exited"
             /\ pc'[d] \in {"unborn", "executing"} => outcome'[d] = <<>>
             /\ pc'[d] \in {"reporting", "releasing", "ended"} => outcome'[d] \in ActionReturns'
      BY <1>0, <2>1, <2>3, <2>4, <2>5 DEF ListOrderInv
    <2>7. /\ dispatched' <= N /\ received' <= N
          /\ cmd' \in {"backup", "backup-cleanup", "pre-backup-check"}
          /\ received' > 0 => dispatched' = N
      BY <1>0, <2>1 DEF ListOrderInv, ListTypeInv
    <2> QED
      BY <2>1, <2>6, <2>7 DEF ListOrderInv
  <1>5. CASE Receive
    BY <1>5, <1>0 DEF Receive, ListOrderInv, ListTypeInv, ActionReturns
  <1>6. CASE RunReturns
    BY <1>6, <1>0 DEF RunReturns, executor, ListOrderInv, ListTypeInv, ActionReturns
  <1>7. CASE runForAllDeployments
    BY <1>7, <1>0 DEF runForAllDeployments, executor, ListOrderInv, ListTypeInv, ActionReturns
  <1>8. ASSUME NEW d \in Deployments, Execute(d) PROVE ListOrderInv'
    <2>1. /\ pc[d] = "executing" /\ pc' = [pc EXCEPT ![d] = "reporting"] /\ "reporting" \in Places
          /\ UNCHANGED <<cmd, stage, dispatched, received>>
      BY <1>8 DEF Execute, Places
    <2>2. pc'[d] = "reporting" /\ \A u \in Deployments \ {d} : pc'[u] = pc[u]
      BY <2>1, OneGoesOn
    <2>3. outcome'[d] \in ActionReturns /\ \A u \in Deployments \ {d} : outcome'[u] = outcome[u]
      BY <1>8 DEF Execute, ListTypeInv
    <2>4. ActionReturns' = ActionReturns
      BY <2>1 DEF ActionReturns
    <2>5. \A u \in Deployments :
             /\ u > dispatched' <=> pc'[u] \in {"unborn", "single"}
             /\ pc'[u] = "single" => u = 1 /\ stage' = "exited"
             /\ pc'[u] \in {"unborn", "executing"} => outcome'[u] = <<>>
             /\ pc'[u] \in {"reporting", "releasing", "ended"} => outcome'[u] \in ActionReturns'
      BY <2>1, <2>2, <2>3, <2>4 DEF ListOrderInv
    <2> QED
      BY <2>1, <2>5 DEF ListOrderInv
  <1>9. ASSUME NEW d \in Deployments, NEW p \in {"releasing", "ended"},
               pc[d] \in {"reporting", "releasing"}, pc' = [pc EXCEPT ![d] = p],
               UNCHANGED <<cmd, stage, dispatched, received, outcome>>
        PROVE  ListOrderInv'
    <2>1. pc'[d] = p /\ \A u \in Deployments \ {d} : pc'[u] = pc[u]
      BY <1>9, OneGoesOn DEF Places
    <2>2. ActionReturns' = ActionReturns
      BY <1>9 DEF ActionReturns
    <2>3. \A u \in Deployments :
             /\ u > dispatched' <=> pc'[u] \in {"unborn", "single"}
             /\ pc'[u] = "single" => u = 1 /\ stage' = "exited"
             /\ pc'[u] \in {"unborn", "executing"} => outcome'[u] = <<>>
             /\ pc'[u] \in {"reporting", "releasing", "ended"} => outcome'[u] \in ActionReturns'
      BY <1>9, <2>1, <2>2 DEF ListOrderInv
    <2> QED
      BY <1>9, <2>3 DEF ListOrderInv
  <1>10. ASSUME NEW d \in Deployments, Report(d) PROVE ListOrderInv'
    BY <1>9, <1>10 DEF Report
  <1>11. ASSUME NEW d \in Deployments, Release(d) PROVE ListOrderInv'
    BY <1>9, <1>11 DEF Release
  <1>12. CASE UNCHANGED deploymentVars
    BY <1>12 DEF deploymentVars, executor, ListOrderInv, ActionReturns
  <1> QED
    BY <1>1, <1>2, <1>3, <1>4, <1>5, <1>6, <1>7, <1>8, <1>10, <1>11, <1>12
       DEF DNext, Caller, Goroutine

LEMMA NextListCountInv ==
    ListTypeInv /\ ListOrderInv /\ ListCountInv /\ [DNext]_deploymentVars => ListCountInv'
  <1> SUFFICES ASSUME ListTypeInv, ListOrderInv, ListCountInv, [DNext]_deploymentVars
               PROVE  ListCountInv'
    OBVIOUS
  <1>0. /\ N \in Nat /\ 1 \in Deployments /\ MaxInFlight \in Nat
        /\ guard \in Nat /\ received \in Nat /\ Len(results) \in Nat
        /\ IsFiniteSet(Reported) /\ Cardinality(Reported) \in Nat
        /\ IsFiniteSet(InFlight) /\ Cardinality(InFlight) \in Nat
    BY CountOfDeployments, ListAssumption DEF ListTypeInv
  <1>1. CASE Single
    <2>1. /\ pc' = [pc EXCEPT ![1] = "single"] /\ "single" \in Places /\ stage = "start"
          /\ UNCHANGED <<guard, results, received>>
      BY <1>1 DEF Single, Places
    <2>2. pc'[1] = "single" /\ \A u \in Deployments \ {1} : pc'[u] = pc[u]
      BY <1>0, <2>1, OneGoesOn
    <2>3. pc[1] \in {"unborn", "single"}
      BY <1>0, <2>1 DEF ListOrderInv, Deployments
    <2>4. Reported' = Reported /\ InFlight' = InFlight
      BY <2>2, <2>3 DEF Reported, InFlight
    <2> QED
      BY <2>1, <2>4 DEF ListCountInv
  <1>2. ASSUME UNCHANGED <<pc, guard, results, received>> PROVE ListCountInv'
    BY <1>2 DEF ListCountInv, Reported, InFlight
  <1>3. CASE Dispatch
    <2> DEFINE e == dispatched + 1
    <2>1. /\ dispatched < N /\ dispatched \in Nat /\ guard < MaxInFlight /\ guard' = guard + 1
          /\ pc' = [pc EXCEPT ![e] = "executing"]
          /\ UNCHANGED <<results, received>>
      BY <1>3 DEF Dispatch, ListTypeInv
    <2>2. e \in Deployments /\ e > dispatched /\ "executing" \in Places
      BY <1>0, <2>1 DEF Deployments, Places
    <2>3. pc'[e] = "executing" /\ \A u \in Deployments \ {e} : pc'[u] = pc[u]
      BY <2>1, <2>2, OneGoesOn
    <2>4. pc[e] \in {"unborn", "single"}
      BY <2>2 DEF ListOrderInv
    <2>5. Reported' = Reported /\ InFlight' = InFlight \cup {e} /\ e \notin InFlight
      BY <2>2, <2>3, <2>4 DEF Reported, InFlight
    <2>6. Cardinality(InFlight') = Cardinality(InFlight) + 1
      BY <1>0, <2>5, FS_AddElement
    <2>7. guard' = Cardinality(InFlight') /\ guard' <= MaxInFlight
      BY <1>0, <2>1, <2>6 DEF ListCountInv
    <2> QED
      BY <2>1, <2>5, <2>7 DEF ListCountInv
  <1>4. CASE Receive
    <2>1. /\ results # <<>> /\ results' = Tail(results) /\ received' = received + 1
          /\ UNCHANGED <<pc, guard>> /\ results \in Seq(Deployments)
      BY <1>4 DEF Receive, ListTypeInv
    <2>2. Len(results') = Len(results) - 1
      BY <2>1
    <2>3. Reported' = Reported /\ InFlight' = InFlight
      BY <2>1 DEF Reported, InFlight
    <2>4. Len(results') + received' = Len(results) + received
      BY <1>0, <2>1, <2>2
    <2> QED
      BY <2>1, <2>3, <2>4 DEF ListCountInv
  <1>5. ASSUME NEW d \in Deployments, Execute(d) PROVE ListCountInv'
    <2>1. /\ pc[d] = "executing" /\ pc' = [pc EXCEPT ![d] = "reporting"] /\ "reporting" \in Places
          /\ UNCHANGED <<guard, results, received>>
      BY <1>5 DEF Execute, Places
    <2>2. pc'[d] = "reporting" /\ \A u \in Deployments \ {d} : pc'[u] = pc[u]
      BY <2>1, OneGoesOn
    <2>3. Reported' = Reported /\ InFlight' = InFlight
      BY <2>1, <2>2 DEF Reported, InFlight
    <2> QED
      BY <2>1, <2>3 DEF ListCountInv
  <1>6. ASSUME NEW d \in Deployments, Report(d) PROVE ListCountInv'
    <2>1. /\ pc[d] = "reporting" /\ pc' = [pc EXCEPT ![d] = "releasing"] /\ "releasing" \in Places
          /\ results' = Append(results, d) /\ results \in Seq(Deployments)
          /\ UNCHANGED <<guard, received>>
      BY <1>6 DEF Report, Places, ListTypeInv
    <2>2. pc'[d] = "releasing" /\ \A u \in Deployments \ {d} : pc'[u] = pc[u]
      BY <2>1, OneGoesOn
    <2>3. Reported' = Reported \cup {d} /\ d \notin Reported /\ InFlight' = InFlight
      BY <2>1, <2>2 DEF Reported, InFlight
    <2>4. Cardinality(Reported') = Cardinality(Reported) + 1
      BY <1>0, <2>3, FS_AddElement
    <2>5. Len(results') = Len(results) + 1
      BY <2>1
    <2>6. Len(results') + received' = Cardinality(Reported')
      BY <1>0, <2>1, <2>4, <2>5 DEF ListCountInv
    <2> QED
      BY <2>1, <2>3, <2>6 DEF ListCountInv
  <1>7. ASSUME NEW d \in Deployments, Release(d) PROVE ListCountInv'
    <2>1. /\ pc[d] = "releasing" /\ pc' = [pc EXCEPT ![d] = "ended"] /\ "ended" \in Places
          /\ guard > 0 /\ guard' = guard - 1
          /\ UNCHANGED <<results, received>>
      BY <1>7 DEF Release, Places
    <2>2. pc'[d] = "ended" /\ \A u \in Deployments \ {d} : pc'[u] = pc[u]
      BY <2>1, OneGoesOn
    <2>3. Reported' = Reported /\ InFlight' = InFlight \ {d} /\ d \in InFlight
      BY <2>1, <2>2 DEF Reported, InFlight
    <2>4. Cardinality(InFlight') = Cardinality(InFlight) - 1
      BY <1>0, <2>3, FS_RemoveElement
    <2>5. guard' = Cardinality(InFlight') /\ guard' <= MaxInFlight
      BY <1>0, <2>1, <2>4 DEF ListCountInv
    <2> QED
      BY <2>1, <2>3, <2>5 DEF ListCountInv
  <1>8. CASE ListDeployments \/ ListFails \/ RunReturns \/ runForAllDeployments
    BY <1>2, <1>8 DEF ListDeployments, ListFails, RunReturns, runForAllDeployments, executor
  <1>9. CASE UNCHANGED deploymentVars
    BY <1>2, <1>9 DEF deploymentVars, executor
  <1> QED
    BY <1>1, <1>3, <1>4, <1>5, <1>6, <1>7, <1>8, <1>9 DEF DNext, Caller, Goroutine

LEMMA NextListFailureInv ==
    ListTypeInv /\ ListOrderInv /\ ListFailureInv /\ [DNext]_deploymentVars => ListFailureInv'
  <1> SUFFICES ASSUME ListTypeInv, ListOrderInv, ListFailureInv, [DNext]_deploymentVars
               PROVE  ListFailureInv'
    OBVIOUS
  <1>0. /\ results \in Seq(Deployments) /\ Len(results) \in Nat /\ 1 \in Deployments
        /\ Reported \in SUBSET Deployments /\ failures \in SUBSET Deployments
    BY CountOfDeployments DEF ListTypeInv, Reported
  <1>1. ASSUME UNCHANGED <<failures, results>>, Reported' = Reported,
               \A u \in Reported : outcome'[u] = outcome[u]
        PROVE  ListFailureInv'
    BY <1>0, <1>1 DEF ListFailureInv
  <1>2. ASSUME UNCHANGED <<pc, outcome, failures, results>> PROVE ListFailureInv'
    BY <1>1, <1>2 DEF Reported
  <1>3. CASE Single
    <2>1. /\ pc' = [pc EXCEPT ![1] = "single"] /\ "single" \in Places /\ stage = "start"
          /\ UNCHANGED <<failures, results>>
          /\ \E es \in Returns(cmd) \cup {<<"setup">>} : outcome' = [outcome EXCEPT ![1] = es]
      BY <1>3 DEF Single, Places
    <2>2. pc'[1] = "single" /\ \A u \in Deployments \ {1} : pc'[u] = pc[u]
      BY <1>0, <2>1, OneGoesOn
    <2>3. pc[1] \in {"unborn", "single"}
      BY <1>0, <2>1 DEF ListOrderInv, Deployments
    <2>4. Reported' = Reported /\ 1 \notin Reported
      BY <2>2, <2>3 DEF Reported
    <2>5. \A u \in Reported : outcome'[u] = outcome[u]
      BY <1>0, <2>1, <2>4 DEF ListTypeInv
    <2> QED
      BY <1>1, <2>1, <2>4, <2>5
  <1>4. CASE Dispatch
    <2> DEFINE e == dispatched + 1
    <2>1. /\ dispatched < N /\ dispatched \in Nat
          /\ pc' = [pc EXCEPT ![e] = "executing"]
          /\ UNCHANGED <<outcome, failures, results>>
      BY <1>4 DEF Dispatch, ListTypeInv
    <2>2. e \in Deployments /\ e > dispatched /\ "executing" \in Places
      BY CountOfDeployments, <2>1 DEF Deployments, Places
    <2>3. pc'[e] = "executing" /\ \A u \in Deployments \ {e} : pc'[u] = pc[u]
      BY <2>1, <2>2, OneGoesOn
    <2>4. pc[e] \in {"unborn", "single"}
      BY <2>2 DEF ListOrderInv
    <2>5. Reported' = Reported
      BY <2>2, <2>3, <2>4 DEF Reported
    <2> QED
      BY <1>1, <2>1, <2>5
  <1>5. CASE Receive
    <2> DEFINE h == Head(results)
    <2>1. /\ results # <<>> /\ results' = Tail(results) /\ UNCHANGED <<pc, outcome>>
          /\ failures' = IF outcome[h] = <<>> THEN failures ELSE failures \cup {h}
      BY <1>5 DEF Receive
    <2>2. /\ Len(Tail(results)) = Len(results) - 1
          /\ \A i \in 1 .. Len(Tail(results)) : Tail(results)[i] = results[i + 1]
      BY <1>0, <2>1, HeadTailProperties
    <2>3. h = results[1] /\ Len(results) >= 1
      BY <1>0, <2>1, EmptySeq
    <2>4. h \in Reported
      BY <1>0, <2>1, <2>3 DEF ListFailureInv
    <2>5. Reported' = Reported
      BY <2>1 DEF Reported
    <2> HIDE DEF h
    <2>6. \A d \in failures' : d \in Reported' /\ outcome'[d] # <<>>
      BY <2>1, <2>4, <2>5 DEF ListFailureInv
    <2>7. \A i \in 1 .. Len(results') : results'[i] \in Reported'
      <3>1. \A i \in 1 .. Len(Tail(results)) :
               i + 1 \in 1 .. Len(results) /\ Tail(results)[i] = results[i + 1]
        BY <1>0, <2>1, <2>2
      <3> QED
        BY <2>1, <2>5, <3>1 DEF ListFailureInv
    <2>8. ASSUME NEW d \in Reported, outcome[d] # <<>>, d \notin failures'
          PROVE  \E i \in 1 .. Len(results') : results'[i] = d
      <3>1. d \notin failures /\ d # h
        BY <2>1, <2>8
      <3>2. PICK i \in 1 .. Len(results) : results[i] = d
        BY <2>8, <3>1 DEF ListFailureInv
      <3>3. i # 1
        BY <2>3, <3>1, <3>2
      <3>4. i - 1 \in 1 .. Len(Tail(results)) /\ Tail(results)[i - 1] = results[i]
        BY <1>0, <2>1, <2>2, <3>2, <3>3
      <3> QED
        BY <2>1, <3>2, <3>4
    <2> QED
      BY <2>1, <2>5, <2>6, <2>7, <2>8 DEF ListFailureInv
  <1>6. ASSUME NEW d \in Deployments, Execute(d) PROVE ListFailureInv'
    <2>1. /\ pc[d] = "executing" /\ pc' = [pc EXCEPT ![d] = "reporting"] /\ "reporting" \in Places
          /\ UNCHANGED <<failures, results>>
          /\ \E es \in ActionReturns : outcome' = [outcome EXCEPT ![d] = es]
      BY <1>6 DEF Execute, Places
    <2>2. pc'[d] = "reporting" /\ \A u \in Deployments \ {d} : pc'[u] = pc[u]
      BY <2>1, OneGoesOn
    <2>3. Reported' = Reported /\ d \notin Reported
      BY <2>1, <2>2 DEF Reported
    <2>4. \A u \in Reported : outcome'[u] = outcome[u]
      BY <1>0, <2>1, <2>3 DEF ListTypeInv
    <2> QED
      BY <1>1, <2>1, <2>3, <2>4
  <1>7. ASSUME NEW d \in Deployments, Report(d) PROVE ListFailureInv'
    <2>1. /\ pc[d] = "reporting" /\ pc' = [pc EXCEPT ![d] = "releasing"] /\ "releasing" \in Places
          /\ results' = Append(results, d) /\ UNCHANGED <<failures, outcome>>
      BY <1>7 DEF Report, Places
    <2>2. pc'[d] = "releasing" /\ \A u \in Deployments \ {d} : pc'[u] = pc[u]
      BY <2>1, OneGoesOn
    <2>3. Reported' = Reported \cup {d}
      BY <2>1, <2>2 DEF Reported
    <2>4. /\ Len(results') = Len(results) + 1
          /\ \A i \in 1 .. Len(results) : results'[i] = results[i]
          /\ results'[Len(results) + 1] = d
      BY <1>0, <2>1, AppendProperties
    <2>5. \A i \in 1 .. Len(results') : results'[i] \in Reported'
      <3> SUFFICES ASSUME NEW i \in 1 .. Len(results') PROVE results'[i] \in Reported'
        OBVIOUS
      <3>1. i \in 1 .. Len(results) \/ i = Len(results) + 1
        BY <1>0, <2>4
      <3> QED
        BY <2>3, <2>4, <3>1 DEF ListFailureInv
    <2>6. ASSUME NEW u \in Reported', outcome[u] # <<>>, u \notin failures
          PROVE  \E i \in 1 .. Len(results') : results'[i] = u
      <3>1. CASE u = d
        <4>1. Len(results) + 1 \in 1 .. Len(results')
          BY <1>0, <2>4
        <4> QED
          BY <2>4, <3>1, <4>1
      <3>2. CASE u # d
        <4>1. PICK i \in 1 .. Len(results) : results[i] = u
          BY <2>3, <2>6, <3>2 DEF ListFailureInv
        <4>2. i \in 1 .. Len(results')
          BY <1>0, <2>4
        <4> QED
          BY <2>4, <4>1, <4>2
      <3> QED
        BY <3>1, <3>2
    <2>7. \A u \in failures' : u \in Reported' /\ outcome'[u] # <<>>
      BY <2>1, <2>3 DEF ListFailureInv
    <2> QED
      BY <2>1, <2>5, <2>6, <2>7 DEF ListFailureInv
  <1>8. ASSUME NEW d \in Deployments, Release(d) PROVE ListFailureInv'
    <2>1. /\ pc[d] = "releasing" /\ pc' = [pc EXCEPT ![d] = "ended"] /\ "ended" \in Places
          /\ UNCHANGED <<outcome, failures, results>>
      BY <1>8 DEF Release, Places
    <2>2. pc'[d] = "ended" /\ \A u \in Deployments \ {d} : pc'[u] = pc[u]
      BY <2>1, OneGoesOn
    <2>3. Reported' = Reported
      BY <2>1, <2>2 DEF Reported
    <2> QED
      BY <1>1, <2>1, <2>3
  <1>9. CASE ListDeployments \/ ListFails \/ RunReturns \/ runForAllDeployments
    BY <1>2, <1>9 DEF ListDeployments, ListFails, RunReturns, runForAllDeployments, executor
  <1>10. CASE UNCHANGED deploymentVars
    BY <1>2, <1>10 DEF deploymentVars, executor
  <1> QED
    BY <1>3, <1>4, <1>5, <1>6, <1>7, <1>8, <1>9, <1>10 DEF DNext, Caller, Goroutine

LEMMA NextToldInv ==
    ListTypeInv /\ ListOrderInv /\ ListFailureInv /\ ToldInv /\ [DNext]_deploymentVars => ToldInv'
  <1> SUFFICES ASSUME ListTypeInv, ListOrderInv, ListFailureInv, ToldInv, [DNext]_deploymentVars
               PROVE  ToldInv'
    OBVIOUS
  <1>0. 1 \in Deployments /\ \A d \in Deployments : d \in Nat /\ d > 0
    BY CountOfDeployments DEF Deployments
  <1>1. CASE Single
    <2>1. /\ pc' = [pc EXCEPT ![1] = "single"] /\ "single" \in Places /\ stage = "start"
          /\ stage' = "exited" /\ cmd' = cmd /\ dispatched' = dispatched
      BY <1>1 DEF Single, ProcessError, Places
    <2>2. PICK es \in Returns(cmd) \cup {<<"setup">>} :
             /\ outcome' = [outcome EXCEPT ![1] = es]
             /\ exitCode' = BuildExitCode(es) /\ footer' = Advised(es)
      BY <1>1 DEF Single, ProcessError
    <2>3. pc'[1] = "single" /\ outcome'[1] = es
      BY <1>0, <2>1, <2>2, OneGoesOn DEF ListTypeInv
    <2>4. /\ outcome'[1] \in Returns(cmd') \cup {<<"setup">>}
          /\ exitCode' = BuildExitCode(outcome'[1]) /\ footer' = Advised(outcome[1])'
      BY <2>1, <2>2, <2>3 DEF Advised
    <2>5. dispatched' = 0
      BY <2>1 DEF ListOrderInv
    <2> QED
      BY <2>1, <2>3, <2>4, <2>5 DEF ToldInv
  <1>2. CASE ListDeployments
    BY <1>2 DEF ListDeployments, ToldInv
  <1>3. CASE ListFails
    <2>1. /\ stage = "start" /\ stage' = "exited" /\ footer' = FALSE /\ UNCHANGED <<pc, dispatched>>
      BY <1>3 DEF ListFails, ProcessError, executor
    <2>2. dispatched' = 0 /\ pc'[1] # "single"
      BY <1>0, <2>1 DEF ListOrderInv
    <2> QED
      BY <2>1, <2>2 DEF ToldInv
  <1>4. CASE Dispatch \/ Receive \/ RunReturns
    BY <1>4 DEF Dispatch, Receive, RunReturns, ToldInv
  <1>5. CASE runForAllDeployments
    <2>1. /\ stage = "collected" /\ stage' = "exited" /\ succeeded' = Deployments \ failures
          /\ UNCHANGED <<cmd, failures, outcome, dispatched>>
          /\ \/ failures # {} /\ exitCode' = 1 /\ footer' = ErrorHandlerAdvises(failures)
             \/ failures = {} /\ exitCode' = 0 /\ footer' = footer
      BY <1>5 DEF runForAllDeployments, getDeploymentStates, ProcessWithFooter, executor
    <2>2. dispatched' # 0
      BY <2>1, CountOfDeployments DEF ListOrderInv, ListTypeInv
    <2>3. ErrorHandlerAdvises(failures)' = ErrorHandlerAdvises(failures)
      BY <2>1 DEF ErrorHandlerAdvises, ContainsUnlockOrCleanup, ContainsArtifactDir
    <2> QED
      BY <2>1, <2>2, <2>3 DEF ToldInv
  <1>6. ASSUME NEW d \in Deployments, Execute(d) \/ Report(d) \/ Release(d) PROVE ToldInv'
    <2>1. /\ pc[d] \in {"executing", "reporting", "releasing"}
          /\ UNCHANGED <<cmd, stage, dispatched, failures, succeeded, footer, exitCode>>
      BY <1>6 DEF Execute, Report, Release
    <2>2. dispatched # 0
      BY <1>0, <2>1 DEF ListOrderInv
    <2>3. \A f \in failures : outcome'[f] = outcome[f]
      <3>1. CASE Execute(d)
        <4>1. d \notin failures
          BY <3>1 DEF Execute, ListFailureInv, Reported
        <4> QED
          BY <3>1, <4>1 DEF Execute, ListTypeInv
      <3> QED
        BY <1>6, <3>1 DEF Report, Release
    <2>4. ErrorHandlerAdvises(failures)' = ErrorHandlerAdvises(failures)
      BY <2>1, <2>3 DEF ErrorHandlerAdvises, ContainsUnlockOrCleanup, ContainsArtifactDir
    <2> QED
      BY <2>1, <2>2, <2>4 DEF ToldInv
  <1>7. CASE UNCHANGED deploymentVars
    BY <1>7 DEF deploymentVars, executor, ToldInv, Advised, ErrorHandlerAdvises,
                ContainsUnlockOrCleanup, ContainsArtifactDir
  <1> QED
    BY <1>1, <1>2, <1>3, <1>4, <1>5, <1>6, <1>7 DEF DNext, Caller, Goroutine

ListInv == ListTypeInv /\ ListOrderInv /\ ListCountInv /\ ListFailureInv /\ ToldInv

LEMMA ListInvHolds == DSpec => []ListInv
  <1>1. DInit => ListInv
    BY InitListInv DEF ListInv
  <1>2. ListInv /\ [DNext]_deploymentVars => ListInv'
    BY NextListTypeInv, NextListOrderInv, NextListCountInv, NextListFailureInv, NextToldInv
       DEF ListInv
  <1> QED
    BY <1>1, <1>2, PTL DEF DSpec

-----------------------------------------------------------------------------
(* What the executor of deployments promises *)

\* When all results are received, every deployment's was and the list has each that
\* failed.
LEMMA AllReceived ==
    ListInv /\ received = N =>
        Reported = Deployments /\ failures = {d \in Deployments : outcome[d] # <<>>}
  <1> SUFFICES ASSUME ListInv, received = N
               PROVE  Reported = Deployments /\ failures = {d \in Deployments : outcome[d] # <<>>}
    OBVIOUS
  <1>1. Len(results) \in Nat /\ Cardinality(Reported) \in Nat /\ Cardinality(Reported) <= N /\ N \in Nat
    BY CountOfDeployments DEF ListInv, ListTypeInv
  <1>2. Len(results) + N = Cardinality(Reported)
    BY DEF ListInv, ListCountInv
  <1>3. Len(results) = 0 /\ Cardinality(Reported) = N
    BY <1>1, <1>2
  <1>4. Reported = Deployments
    <2>1. Reported \in SUBSET Deployments
      BY DEF Reported
    <2> QED
      BY <1>3, <2>1, CountOfDeployments
  <1>5. ~ \E i \in 1 .. Len(results) : TRUE
    BY <1>3
  <1>6. \A d \in Deployments : d \in failures <=> outcome[d] # <<>>
    BY <1>4, <1>5 DEF ListInv, ListFailureInv
  <1> QED
    BY <1>4, <1>6 DEF ListInv, ListTypeInv

\* runForAllDeployments with its executor puts the results to the right names: when
\* the process exits, each deployment was run to the end of its action, those without
\* an error are the ones printed as successful, and the exit code is 0 iff all are.
THEOREM ResultsToldHolds == DSpec => []ResultsAreTold
  <1>1. ListInv => ResultsAreTold
    <2> SUFFICES ASSUME ListInv, stage = "exited", dispatched > 0
                 PROVE  /\ \A d \in Deployments : Ran(d)
                        /\ succeeded = {d \in Deployments : outcome[d] = <<>>}
                        /\ exitCode = 0 <=> succeeded = Deployments
      BY DEF ResultsAreTold
    <2>1. received = N
      BY DEF ListInv, ListOrderInv
    <2>2. Reported = Deployments /\ failures = {d \in Deployments : outcome[d] # <<>>}
      BY <2>1, AllReceived
    <2>3. /\ succeeded = Deployments \ failures
          /\ failures = {} => exitCode = 0
          /\ failures # {} => exitCode = 1
      BY DEF ListInv, ToldInv
    <2>4. \A d \in Deployments : Ran(d)
      BY <2>2 DEF Reported, Ran
    <2>5. succeeded = {d \in Deployments : outcome[d] = <<>>}
      BY <2>2, <2>3
    <2>6. failures = {} <=> succeeded = Deployments
      BY <2>2, <2>3
    <2> QED
      BY <2>3, <2>4, <2>5, <2>6
  <1> QED
    BY <1>1, ListInvHolds, PTL

\* A goroutine that has its result can send it at once, and one that has sent it can
\* take a token back: the channel of results never is full and the guard never empty.
NoOneWaits ==
    \A d \in Deployments :
        /\ pc[d] = "reporting" => Len(results) < N
        /\ pc[d] = "releasing" => guard > 0

\* No goroutine of the executor of deployments blocks on a channel, so none is left
\* behind when the command exits.
THEOREM NoDeploymentBlocks == DSpec => []NoOneWaits
  <1>1. ListInv => NoOneWaits
    <2> SUFFICES ASSUME ListInv, NEW d \in Deployments
                 PROVE  /\ pc[d] = "reporting" => Len(results) < N
                        /\ pc[d] = "releasing" => guard > 0
      BY DEF NoOneWaits
    <2>1. /\ Len(results) \in Nat /\ received \in Nat /\ guard \in Nat /\ N \in Nat
          /\ Cardinality(Reported) \in Nat /\ Cardinality(Reported) <= N
      BY CountOfDeployments DEF ListInv, ListTypeInv
    <2>2. ASSUME pc[d] = "reporting" PROVE Len(results) < N
      <3>1. Reported \in SUBSET Deployments /\ Reported # Deployments
        BY <2>2 DEF Reported
      <3>2. Cardinality(Reported) # N
        BY <3>1, CountOfDeployments
      <3>3. Len(results) + received = Cardinality(Reported)
        BY DEF ListInv, ListCountInv
      <3> QED
        BY <2>1, <3>2, <3>3
    <2>3. ASSUME pc[d] = "releasing" PROVE guard > 0
      <3>1. d \in InFlight
        BY <2>3 DEF InFlight
      <3>2. Cardinality(InFlight) # 0
        BY <3>1, CountOfDeployments, FS_EmptySet
      <3>3. guard = Cardinality(InFlight)
        BY DEF ListInv, ListCountInv
      <3> QED
        BY <2>1, <3>2, <3>3
    <2> QED
      BY <2>2, <2>3
  <1> QED
    BY <1>1, ListInvHolds, PTL

\* Never more deployments under way than maxInFlight: Dispatch waits for a token and a
\* deployment keeps its own until it has reported.
THEOREM DeploymentsInFlightAreBounded ==
    DSpec => []( /\ IsFiniteSet({d \in Deployments : pc[d] = "executing"})
                 /\ Cardinality({d \in Deployments : pc[d] = "executing"}) <= MaxInFlight )
  <1> DEFINE UnderWay == {d \in Deployments : pc[d] = "executing"}
  <1>1. ListInv => IsFiniteSet(UnderWay) /\ Cardinality(UnderWay) <= MaxInFlight
    <2> SUFFICES ASSUME ListInv PROVE IsFiniteSet(UnderWay) /\ Cardinality(UnderWay) <= MaxInFlight
      OBVIOUS
    <2>1. UnderWay \in SUBSET InFlight
      BY DEF InFlight
    <2>2. IsFiniteSet(InFlight) /\ Cardinality(InFlight) \in Nat
      BY CountOfDeployments
    <2>3. IsFiniteSet(UnderWay) /\ Cardinality(UnderWay) <= Cardinality(InFlight)
      BY <2>1, <2>2, FS_Subset
    <2>4. Cardinality(InFlight) <= MaxInFlight
      BY DEF ListInv, ListCountInv
    <2>5. Cardinality(UnderWay) \in Nat /\ MaxInFlight \in Nat
      BY <2>3, FS_CardinalityType, ListAssumption
    <2> QED
      BY <2>2, <2>3, <2>4, <2>5
  <1> QED
    BY <1>1, ListInvHolds, PTL

\* A deployment as an executable of the one batch that the executor is given; the
\* place of a deployment that was not reached is the same in a command for one.
StatusOf(d) ==
    CASE pc[d] \in {"unborn", "single"} -> "waiting"
      [] pc[d] = "executing" -> "running"
      [] OTHER -> IF outcome[d] = <<>> THEN "ok" ELSE "failed"
ListStatus == [e \in {1} \X Deployments |-> StatusOf(e[2])]

\* Has the executor returned?
ListReturned == stage = "collected" \/ (stage = "exited" /\ dispatched > 0)

OneBatch == INSTANCE BatchRun WITH
    BatchSizes <- <<N>>,
    status     <- ListStatus,
    returned   <- ListReturned,
    errors     <- IF ListReturned THEN {1} \X failures ELSE {}

LEMMA OneBatchOfDeployments ==
    /\ OneBatch!Batches = {1} /\ OneBatch!ExecutablesOf(1) = {1} \X Deployments
    /\ OneBatch!Executables = {1} \X Deployments
    /\ \A e \in {1} \X Deployments : e[1] = 1 /\ e[2] \in Deployments /\ e = <<1, e[2]>>
    /\ \A d \in Deployments : <<1, d>> \in {1} \X Deployments /\ <<1, d>>[2] = d
  <1>1. DOMAIN <<N>> = {1} /\ <<N>>[1] = N
    OBVIOUS
  <1>2. OneBatch!Batches = {1}
    BY <1>1 DEF OneBatch!Batches
  <1>3. OneBatch!ExecutablesOf(1) = {1} \X Deployments
    BY <1>1 DEF OneBatch!ExecutablesOf, Deployments
  <1>4. OneBatch!Executables = {1} \X Deployments
    BY <1>2, <1>3 DEF OneBatch!Executables
  <1> QED
    BY <1>2, <1>3, <1>4

\* When no deployment's status changes the promise sees a stuttering step.
LEMMA StatusesStay ==
    ASSUME \A d \in Deployments : StatusOf(d)' = StatusOf(d),
           UNCHANGED failures, ListReturned' = ListReturned
    PROVE  UNCHANGED OneBatch!vars
  <1>1. ListStatus' = ListStatus
    <2>1. \A e \in {1} \X Deployments : StatusOf(e[2])' = StatusOf(e[2])
      BY OneBatchOfDeployments
    <2> QED
      BY <2>1 DEF ListStatus
  <1> QED
    BY <1>1 DEF OneBatch!vars

\* When one deployment's changes, the others' stay.
LEMMA OneStatusChanges ==
    ASSUME NEW d \in Deployments, NEW s,
           StatusOf(d)' = s, \A u \in Deployments \ {d} : StatusOf(u)' = StatusOf(u)
    PROVE  ListStatus' = [ListStatus EXCEPT ![<<1, d>>] = s]
  <1>1. \A e \in {1} \X Deployments : e # <<1, d>> => e[2] \in Deployments \ {d}
    BY OneBatchOfDeployments
  <1>2. \A e \in {1} \X Deployments :
           StatusOf(e[2])' = IF e = <<1, d>> THEN s ELSE StatusOf(e[2])
    BY <1>1, OneBatchOfDeployments
  <1>3. ListStatus' = [e \in {1} \X Deployments |-> IF e = <<1, d>> THEN s ELSE ListStatus[e]]
    BY <1>2 DEF ListStatus
  <1>4. ListStatus = [e \in {1} \X Deployments |-> ListStatus[e]]
    BY DEF ListStatus
  <1> QED
    BY <1>3, <1>4

\* The executor of deployments keeps the promise of executor.Executor.Run for one batch
\* with all deployments: each one's action is run once, a failure stops nothing, and
\* what the executor returns are those that failed.
THEOREM DeploymentsAreOneBatch == DSpec => OneBatch!Spec
  <1>1. DInit => OneBatch!Init
    <2> SUFFICES ASSUME DInit PROVE OneBatch!Init
      OBVIOUS
    <2>1. stage = "start" /\ pc = [d \in Deployments |-> "unborn"]
      BY DEF DInit
    <2>2. \A d \in Deployments : StatusOf(d) = "waiting"
      BY <2>1 DEF StatusOf
    <2>3. ListStatus = [e \in OneBatch!Executables |-> "waiting"]
      BY <2>2, OneBatchOfDeployments DEF ListStatus
    <2>4. ListReturned = FALSE
      BY <2>1 DEF ListReturned
    <2> QED
      BY <2>3, <2>4 DEF OneBatch!Init
  <1>2. ListInv /\ [DNext]_deploymentVars => [OneBatch!Next]_(OneBatch!vars)
    <2> SUFFICES ASSUME ListInv, [DNext]_deploymentVars PROVE [OneBatch!Next]_(OneBatch!vars)
      OBVIOUS
    <2> USE DEF ListInv
    <2>0. /\ dispatched \in Nat /\ N \in Nat /\ N > 0 /\ 1 \in Deployments
          /\ \A d \in Deployments : d \in Nat /\ d > 0
      BY CountOfDeployments DEF ListTypeInv, Deployments
    <2>1. CASE Single
      <3>1. /\ pc' = [pc EXCEPT ![1] = "single"] /\ "single" \in Places /\ stage = "start"
            /\ UNCHANGED <<dispatched, failures>> /\ stage' = "exited"
            /\ \E es \in Returns(cmd) \cup {<<"setup">>} : outcome' = [outcome EXCEPT ![1] = es]
        BY <2>1 DEF Single, ProcessError, Places
      <3>2. pc'[1] = "single" /\ \A u \in Deployments \ {1} : pc'[u] = pc[u]
        BY <2>0, <3>1, OneGoesOn
      <3>3. \A u \in Deployments \ {1} : outcome'[u] = outcome[u]
        BY <3>1 DEF ListTypeInv
      <3>4. pc[1] \in {"unborn", "single"} /\ dispatched = 0
        BY <2>0, <3>1 DEF ListOrderInv
      <3>5. \A d \in Deployments : StatusOf(d)' = StatusOf(d)
        BY <3>2, <3>3, <3>4 DEF StatusOf
      <3>6. ListReturned' = ListReturned
        BY <3>1, <3>4 DEF ListReturned
      <3> QED
        BY <3>1, <3>5, <3>6, StatusesStay
    <2>2. CASE ListDeployments \/ ListFails \/ Receive \/ runForAllDeployments
      <3>1. UNCHANGED <<pc, outcome, dispatched>>
        BY <2>2 DEF ListDeployments, ListFails, Receive, runForAllDeployments, executor
      <3>2. \A d \in Deployments : StatusOf(d)' = StatusOf(d)
        BY <3>1 DEF StatusOf
      <3>3. CASE Receive
        <4>1. ListReturned = FALSE /\ ListReturned' = FALSE
          BY <3>3 DEF Receive, ListReturned
        <4>2. ListStatus' = ListStatus
          <5>1. \A e \in {1} \X Deployments : StatusOf(e[2])' = StatusOf(e[2])
            BY <3>2, OneBatchOfDeployments
          <5> QED
            BY <5>1 DEF ListStatus
        <4> QED
          BY <4>1, <4>2 DEF OneBatch!vars
      <3>4. CASE ListDeployments \/ ListFails \/ runForAllDeployments
        <4>1. UNCHANGED failures
          BY <3>4 DEF ListDeployments, ListFails, runForAllDeployments, executor
        <4>2. ListReturned' = ListReturned
          <5>1. CASE ListDeployments \/ ListFails
            <6>1. stage = "start" /\ stage' \in {"running", "exited"} /\ dispatched = 0
              BY <5>1 DEF ListDeployments, ListFails, ProcessError, ListOrderInv
            <6> QED
              BY <3>1, <6>1 DEF ListReturned
          <5>2. CASE runForAllDeployments
            <6>1. stage = "collected" /\ stage' = "exited" /\ dispatched > 0
              BY <2>0, <5>2 DEF runForAllDeployments, ListOrderInv
            <6> QED
              BY <3>1, <6>1 DEF ListReturned
          <5> QED
            BY <3>4, <5>1, <5>2
        <4> QED
          BY <3>2, <4>1, <4>2, StatusesStay
      <3> QED
        BY <2>2, <3>3, <3>4
    <2>3. CASE Dispatch
      <3>1. /\ dispatched < N /\ stage = "running" /\ UNCHANGED <<stage, outcome, failures>>
            /\ pc' = [pc EXCEPT ![dispatched + 1] = "executing"]
        BY <2>3 DEF Dispatch
      <3>2. PICK n \in Deployments : n = dispatched + 1
        BY <2>0, <3>1 DEF Deployments
      <3>3. pc'[n] = "executing" /\ \A u \in Deployments \ {n} : pc'[u] = pc[u]
        BY <3>1, <3>2, OneGoesOn DEF Places
      <3>4. pc[n] \in {"unborn", "single"}
        BY <2>0, <3>2 DEF ListOrderInv
      <3>5. /\ StatusOf(n) = "waiting" /\ StatusOf(n)' = "running"
            /\ \A u \in Deployments \ {n} : StatusOf(u)' = StatusOf(u)
        BY <3>1, <3>3, <3>4 DEF StatusOf
      <3>6. ListStatus' = [ListStatus EXCEPT ![<<1, n>>] = "running"]
        BY <3>2, <3>5, OneStatusChanges
      <3>7. <<1, n>> \in OneBatch!Executables /\ ListStatus[<<1, n>>] = "waiting" /\ <<1, n>>[1] = 1
        BY <3>2, <3>5, OneBatchOfDeployments DEF ListStatus
      <3>8. ListReturned' = ListReturned
        BY <3>1 DEF ListReturned
      <3>9. OneBatch!Begin(<<1, n>>)
        BY <3>1, <3>6, <3>7, <3>8 DEF OneBatch!Begin
      <3> QED
        BY <3>7, <3>9 DEF OneBatch!Next
    <2>4. CASE RunReturns
      <3>1. /\ stage = "running" /\ received = N /\ stage' = "collected"
            /\ UNCHANGED <<pc, outcome, failures>>
        BY <2>4 DEF RunReturns, executor
      <3>2. Reported = Deployments /\ failures = {d \in Deployments : outcome[d] # <<>>}
        BY <3>1, AllReceived
      <3>3. \A d \in Deployments : StatusOf(d) = IF d \in failures THEN "failed" ELSE "ok"
        BY <3>2 DEF StatusOf, Reported
      <3>4. \A e \in {1} \X Deployments : ListStatus[e] = IF e[2] \in failures THEN "failed" ELSE "ok"
        BY <3>3, OneBatchOfDeployments DEF ListStatus
      <3>5. \A b \in OneBatch!Batches : OneBatch!Finished(b)
        BY <3>4, OneBatchOfDeployments DEF OneBatch!Finished
      <3>6. {1} \X failures = {e \in OneBatch!Executables : ListStatus[e] = "failed"}
        <4>1. failures \subseteq Deployments
          BY <3>2
        <4> QED
          BY <3>4, <4>1, OneBatchOfDeployments
      <3>7. ~ListReturned /\ ListReturned' = TRUE
        BY <3>1 DEF ListReturned
      <3>8. ListStatus' = ListStatus
        BY <3>1 DEF ListStatus, StatusOf
      <3>9. OneBatch!Return
        BY <3>1, <3>5, <3>6, <3>7, <3>8 DEF OneBatch!Return
      <3> QED
        BY <3>9 DEF OneBatch!Next
    <2>5. ASSUME NEW d \in Deployments, Execute(d) PROVE [OneBatch!Next]_(OneBatch!vars)
      <3>1. /\ pc[d] = "executing" /\ pc' = [pc EXCEPT ![d] = "reporting"] /\ "reporting" \in Places
            /\ UNCHANGED <<stage, dispatched, failures>>
            /\ \E es \in ActionReturns : outcome' = [outcome EXCEPT ![d] = es]
        BY <2>5 DEF Execute, Places
      <3>2. pc'[d] = "reporting" /\ \A u \in Deployments \ {d} : pc'[u] = pc[u]
        BY <3>1, OneGoesOn
      <3>3. \A u \in Deployments \ {d} : outcome'[u] = outcome[u]
        BY <3>1 DEF ListTypeInv
      <3>4. /\ StatusOf(d) = "running" /\ StatusOf(d)' \in {"ok", "failed"}
            /\ \A u \in Deployments \ {d} : StatusOf(u)' = StatusOf(u)
        BY <3>1, <3>2, <3>3 DEF StatusOf
      <3>5. PICK s \in {"ok", "failed"} : StatusOf(d)' = s
        BY <3>4
      <3>6. ListStatus' = [ListStatus EXCEPT ![<<1, d>>] = s]
        BY <3>4, <3>5, OneStatusChanges
      <3>7. <<1, d>> \in OneBatch!Executables /\ ListStatus[<<1, d>>] = "running"
        BY <3>4, OneBatchOfDeployments DEF ListStatus
      <3>8. ListReturned' = ListReturned
        BY <3>1 DEF ListReturned
      <3>9. OneBatch!End(<<1, d>>)
        BY <3>1, <3>6, <3>7, <3>8 DEF OneBatch!End
      <3> QED
        BY <3>7, <3>9 DEF OneBatch!Next
    <2>6. ASSUME NEW d \in Deployments, Report(d) \/ Release(d)
          PROVE  [OneBatch!Next]_(OneBatch!vars)
      <3>1. /\ pc[d] \in {"reporting", "releasing"} /\ UNCHANGED <<stage, dispatched, outcome, failures>>
            /\ \E p \in {"releasing", "ended"} : pc' = [pc EXCEPT ![d] = p]
        BY <2>6 DEF Report, Release
      <3>2. pc'[d] \in {"releasing", "ended"} /\ \A u \in Deployments \ {d} : pc'[u] = pc[u]
        BY <3>1 DEF ListTypeInv
      <3>3. \A u \in Deployments : StatusOf(u)' = StatusOf(u)
        BY <3>1, <3>2 DEF StatusOf
      <3>4. ListReturned' = ListReturned
        BY <3>1 DEF ListReturned
      <3> QED
        BY <3>1, <3>3, <3>4, StatusesStay
    <2>7. CASE UNCHANGED deploymentVars
      BY <2>7 DEF deploymentVars, executor, OneBatch!vars, ListStatus, StatusOf, ListReturned
    <2> QED
      BY <2>1, <2>2, <2>3, <2>4, <2>5, <2>6, <2>7 DEF DNext, Caller, Goroutine
  <1> QED
    BY <1>1, <1>2, ListInvHolds, PTL DEF DSpec, OneBatch!Spec

-----------------------------------------------------------------------------
(* The exit code *)

Bits == {1, 4, 8, 16}
BitIn(b, s) == IF b \in s THEN b ELSE 0
OneIf(b, s) == IF b \in s THEN 1 ELSE 0
\* The sum of a set of bits and their number, written out.
SumOfBits(s) == BitIn(1, s) + BitIn(4, s) + BitIn(8, s) + BitIn(16, s)
CountOfBits(s) == OneIf(1, s) + OneIf(4, s) + OneIf(8, s) + OneIf(16, s)

PickOf(s) == CHOOSE x \in s : TRUE

\* The equation by which the fold behind SumSet defines its function.
IsFoldOf(T, f) ==
    f = [s \in SUBSET T |-> IF s = {} THEN 0 ELSE PickOf(s) + f[s \ {PickOf(s)}]]

LEMMA PickOfIsIn == ASSUME NEW s, s # {} PROVE PickOf(s) \in s
  BY DEF PickOf

\* Taking a bit out of a set of bits takes it out of their sum.
LEMMA OneBitLess ==
    ASSUME NEW s \in SUBSET Bits, NEW b \in s
    PROVE  /\ SumOfBits(s) = b + SumOfBits(s \ {b})
           /\ CountOfBits(s) = 1 + CountOfBits(s \ {b}) /\ CountOfBits(s \ {b}) \in Nat
  <1>1. \A c : BitIn(c, s \ {b}) = (IF c = b THEN 0 ELSE BitIn(c, s))
    BY DEF BitIn
  <1>2. \A c : OneIf(c, s \ {b}) = (IF c = b THEN 0 ELSE OneIf(c, s))
    BY DEF OneIf
  <1>3. BitIn(b, s) = b /\ OneIf(b, s) = 1 /\ b \in {1, 4, 8, 16}
    BY DEF BitIn, OneIf, Bits
  <1>4. \A c \in {1, 4, 8, 16} : BitIn(c, s) \in Nat /\ OneIf(c, s) \in Nat
    BY DEF BitIn, OneIf
  <1>5. CASE b = 1
    BY <1>1, <1>2, <1>3, <1>4, <1>5 DEF SumOfBits, CountOfBits
  <1>6. CASE b = 4
    BY <1>1, <1>2, <1>3, <1>4, <1>6 DEF SumOfBits, CountOfBits
  <1>7. CASE b = 8
    BY <1>1, <1>2, <1>3, <1>4, <1>7 DEF SumOfBits, CountOfBits
  <1>8. CASE b = 16
    BY <1>1, <1>2, <1>3, <1>4, <1>8 DEF SumOfBits, CountOfBits
  <1> QED
    BY <1>3, <1>5, <1>6, <1>7, <1>8

LEMMA NoBits ==
    /\ SumOfBits({}) = 0
    /\ \A s \in SUBSET Bits : CountOfBits(s) \in 0 .. 4 /\ (CountOfBits(s) = 0 => s = {})
  <1>1. SumOfBits({}) = 0
    BY DEF SumOfBits, BitIn
  <1>2. ASSUME NEW s \in SUBSET Bits PROVE CountOfBits(s) \in 0 .. 4 /\ (CountOfBits(s) = 0 => s = {})
    <2>1. \A c : OneIf(c, s) \in 0 .. 1 /\ (OneIf(c, s) = 0 => c \notin s)
      BY DEF OneIf
    <2>2. CountOfBits(s) \in 0 .. 4
      BY <2>1 DEF CountOfBits
    <2>3. ASSUME CountOfBits(s) = 0 PROVE s = {}
      <3>1. OneIf(1, s) = 0 /\ OneIf(4, s) = 0 /\ OneIf(8, s) = 0 /\ OneIf(16, s) = 0
        BY <2>1, <2>3 DEF CountOfBits
      <3> QED
        BY <2>1, <3>1 DEF Bits
    <2> QED
      BY <2>2, <2>3
  <1> QED
    BY <1>1, <1>2

\* The sum written out solves the equation of the fold, and nothing else does: the
\* sets of bits are few enough to go through by their number of elements.
LEMMA FoldSumsBits ==
    ASSUME NEW T \in SUBSET Bits
    PROVE  /\ IsFoldOf(T, [s \in SUBSET T |-> SumOfBits(s)])
           /\ \A f : IsFoldOf(T, f) => f[T] = SumOfBits(T)
  <1>1. IsFoldOf(T, [s \in SUBSET T |-> SumOfBits(s)])
    <2> DEFINE g == [s \in SUBSET T |-> SumOfBits(s)]
    <2>1. ASSUME NEW s \in SUBSET T, s # {}
          PROVE  SumOfBits(s) = PickOf(s) + g[s \ {PickOf(s)}]
      <3>1. PickOf(s) \in s
        BY <2>1, PickOfIsIn
      <3>2. g[s \ {PickOf(s)}] = SumOfBits(s \ {PickOf(s)})
        OBVIOUS
      <3> QED
        BY <3>1, <3>2, OneBitLess
    <2>2. SumOfBits({}) = 0
      BY NoBits
    <2>3. g = [s \in SUBSET T |-> IF s = {} THEN 0 ELSE PickOf(s) + g[s \ {PickOf(s)}]]
      BY <2>1, <2>2
    <2> QED
      BY <2>3 DEF IsFoldOf
  <1>2. ASSUME NEW f, IsFoldOf(T, f) PROVE f[T] = SumOfBits(T)
    <2> DEFINE Known(k) == \A s \in SUBSET T : CountOfBits(s) <= k => f[s] = SumOfBits(s)
    <2>1. \A s \in SUBSET T : f[s] = IF s = {} THEN 0 ELSE PickOf(s) + f[s \ {PickOf(s)}]
      BY <1>2 DEF IsFoldOf
    <2>2. Known(0)
      BY <2>1, NoBits
    <2>3. ASSUME NEW k \in 0 .. 3, Known(k) PROVE Known(k + 1)
      <3> SUFFICES ASSUME NEW s \in SUBSET T, CountOfBits(s) <= k + 1 PROVE f[s] = SumOfBits(s)
        OBVIOUS
      <3>1. CASE s = {}
        BY <2>1, <3>1, NoBits
      <3>2. CASE s # {}
        <4> DEFINE r == s \ {PickOf(s)}
        <4>1. PickOf(s) \in s
          BY <3>2, PickOfIsIn
        <4>2. SumOfBits(s) = PickOf(s) + SumOfBits(r) /\ CountOfBits(s) = 1 + CountOfBits(r)
              /\ CountOfBits(r) \in Nat
          BY <4>1, OneBitLess
        <4>3. CountOfBits(r) <= k
          BY <4>2
        <4>4. f[r] = SumOfBits(r)
          BY <2>3, <4>3
        <4> QED
          BY <2>1, <3>2, <4>2, <4>4
      <3> QED
        BY <3>1, <3>2
    <2> HIDE DEF Known
    <2>4. Known(1)
      BY <2>2, <2>3
    <2>5. Known(2)
      BY <2>3, <2>4
    <2>6. Known(3)
      BY <2>3, <2>5
    <2>7. Known(4)
      BY <2>3, <2>6
    <2> QED
      BY <2>7, NoBits DEF Known
  <1> QED
    BY <1>1, <1>2

\* SumSet of a set of bits, which is what or-ing them gives.
LEMMA SumSetOfBits == ASSUME NEW T \in SUBSET Bits PROVE SumSet(T) = SumOfBits(T)
  <1> DEFINE g == CHOOSE f : IsFoldOf(T, f)
  <1>1. IsFoldOf(T, g)
    BY FoldSumsBits, Zenon
  <1>2. SumSet(T) = g[T]
    BY Zenon DEF SumSet, FoldSet, MapThenFoldSet, IsFoldOf, PickOf
  <1> QED
    BY <1>1, <1>2, FoldSumsBits

\* The exit code of a list of errors has the bit of an error, and no other bits.
LEMMA ExitCodeBits ==
    ASSUME NEW list
    PROVE  LET code == BuildExitCode(list)
               has(b) == \E e \in ToSet(list) : Bit(e) = b
           IN  /\ code \in 0 .. 31 /\ (code \div 2) % 2 = 0
               /\ (code \div 1) % 2 = 1 <=> has(1)
               /\ (code \div 4) % 2 = 1 <=> has(4)
               /\ (code \div 8) % 2 = 1 <=> has(8)
               /\ (code \div 16) % 2 = 1 <=> has(16)
  <1> DEFINE T == {Bit(e) : e \in ToSet(list)}
             has(b) == \E e \in ToSet(list) : Bit(e) = b
  <1>1. T \in SUBSET Bits
    BY DEF Bit, Bits
  <1>2. BuildExitCode(list) = SumOfBits(T)
    BY <1>1, SumSetOfBits DEF BuildExitCode
  <1>3. \A b : b \in T <=> has(b)
    OBVIOUS
  <1> HIDE DEF T, has
  <1>4. PICK a \in {0, 1}, b \in {0, 4}, c \in {0, 8}, d \in {0, 16} :
           /\ SumOfBits(T) = a + b + c + d
           /\ a = 1 <=> has(1)
           /\ b = 4 <=> has(4)
           /\ c = 8 <=> has(8)
           /\ d = 16 <=> has(16)
    <2>1. /\ BitIn(1, T) \in {0, 1} /\ (BitIn(1, T) = 1 <=> has(1))
          /\ BitIn(4, T) \in {0, 4} /\ (BitIn(4, T) = 4 <=> has(4))
          /\ BitIn(8, T) \in {0, 8} /\ (BitIn(8, T) = 8 <=> has(8))
          /\ BitIn(16, T) \in {0, 16} /\ (BitIn(16, T) = 16 <=> has(16))
      BY <1>3 DEF BitIn
    <2> QED
      BY <2>1 DEF SumOfBits
  <1>5. LET code == a + b + c + d
        IN  /\ code \in 0 .. 31 /\ (code \div 2) % 2 = 0
            /\ (code \div 1) % 2 = 1 <=> a = 1
            /\ (code \div 4) % 2 = 1 <=> b = 4
            /\ (code \div 8) % 2 = 1 <=> c = 8
            /\ (code \div 16) % 2 = 1 <=> d = 16
    OBVIOUS
  <1> QED
    BY <1>2, <1>4, <1>5 DEF has

\* An error has one bit, the one of its class.
LEMMA BitOfClass ==
    \A e : /\ Bit(e) = 4 <=> Class(e) = "LockError"
           /\ Bit(e) = 8 <=> Class(e) = "UnlockError"
           /\ Bit(e) = 16 <=> Class(e) = "CleanupError"
           /\ Bit(e) = 1 <=> Class(e) \in {"BackupError", "DrainError", "ArtifactDirError", "error"}
  BY DEF Bit, Class

\* The exit code of a command for one deployment, or for a director, tells each kind of
\* failure by its bit, whatever else failed: BuildExitCode ors the bits, so two errors
\* of one kind do not look like one of another.
THEOREM ExitCodeIsTold == DSpec => []ExitCodeTells
  <1>1. ListInv => ExitCodeTells
    <2> SUFFICES ASSUME ListInv, stage = "exited", pc[1] = "single"
                 PROVE  LET list == ToSet(outcome[1])
                            told(bit, classes) ==
                                (exitCode \div bit) % 2 = 1 <=> \E e \in list : Class(e) \in classes
                        IN  /\ exitCode < 32 /\ (exitCode \div 2) % 2 = 0
                            /\ told(4, {"LockError"}) /\ told(8, {"UnlockError"})
                            /\ told(16, {"CleanupError"})
                            /\ told(1, {"BackupError", "DrainError", "ArtifactDirError", "error"})
      BY DEF ExitCodeTells
    <2>1. dispatched = 0
      <3>1. 1 > dispatched
        BY CountOfDeployments DEF ListInv, ListOrderInv
      <3> QED
        BY <3>1 DEF ListInv, ListTypeInv
    <2>2. exitCode = BuildExitCode(outcome[1])
      BY <2>1 DEF ListInv, ToldInv
    <2> DEFINE has(b) == \E e \in ToSet(outcome[1]) : Bit(e) = b
    <2>3. /\ exitCode \in 0 .. 31 /\ (exitCode \div 2) % 2 = 0
          /\ (exitCode \div 1) % 2 = 1 <=> has(1)
          /\ (exitCode \div 4) % 2 = 1 <=> has(4)
          /\ (exitCode \div 8) % 2 = 1 <=> has(8)
          /\ (exitCode \div 16) % 2 = 1 <=> has(16)
      BY <2>2, ExitCodeBits
    <2>4. exitCode < 32
      BY <2>3
    <2>5. /\ has(4) <=> \E e \in ToSet(outcome[1]) : Class(e) \in {"LockError"}
          /\ has(8) <=> \E e \in ToSet(outcome[1]) : Class(e) \in {"UnlockError"}
          /\ has(16) <=> \E e \in ToSet(outcome[1]) : Class(e) \in {"CleanupError"}
          /\ has(1) <=> \E e \in ToSet(outcome[1]) :
                           Class(e) \in {"BackupError", "DrainError", "ArtifactDirError", "error"}
      BY BitOfClass
    <2> HIDE DEF has
    <2> QED
      BY <2>3, <2>4, <2>5
  <1> QED
    BY <1>1, ListInvHolds, PTL

-----------------------------------------------------------------------------
(* The advice on leftovers *)

\* The equation of the recursive function in Returns.
FollowsGraph(w, f) ==
    f = [n \in StepsOf(w) \cup {"end"} |->
            IF n = "end" THEN {<<>>}
            ELSE f[NextNode(w, n, TRUE)] \cup OneThen(Errors(n), f[NextNode(w, n, FALSE)])]

\* What Returns gives is what a solution of the equation gives, when there is one.
LEMMA ReturnsFollowTheGraph ==
    ASSUME NEW w, NEW f, FollowsGraph(w, f)
    PROVE  \E g : FollowsGraph(w, g) /\ Returns(w) = g[StartingNode(w)]
  <1> DEFINE g == CHOOSE h : FollowsGraph(w, h)
  <1>1. FollowsGraph(w, g)
    BY Zenon
  <1>2. Returns(w) = g[StartingNode(w)]
    BY Zenon DEF Returns, FollowsGraph
  <1> QED
    BY <1>1, <1>2

\* The errors of a pre-backup-check.
CheckErrors == {"find", "backupable", "artifactDir", "cleanup"}

\* A list with an error before it.
LEMMA OneMore ==
    ASSUME NEW es, NEW lists,
           \A e \in es : e \in CheckErrors, \A rest \in lists : rest \in Seq(CheckErrors)
    PROVE  \A l \in OneThen(es, lists) :
              /\ l \in Seq(CheckErrors) /\ l # <<>> /\ Head(l) \in es
              /\ \E rest \in lists : ToSet(l) = {Head(l)} \cup ToSet(rest)
  <1> SUFFICES ASSUME NEW e \in es, NEW rest \in lists
               PROVE  LET l == <<e>> \o rest
                      IN  /\ l \in Seq(CheckErrors) /\ l # <<>> /\ Head(l) = e
                          /\ ToSet(l) = {e} \cup ToSet(rest)
    <2> SUFFICES ASSUME NEW l \in OneThen(es, lists)
                 PROVE  /\ l \in Seq(CheckErrors) /\ l # <<>> /\ Head(l) \in es
                        /\ \E rest \in lists : ToSet(l) = {Head(l)} \cup ToSet(rest)
      OBVIOUS
    <2>1. PICK e \in es, rest \in lists : l = <<e>> \o rest
      BY DEF OneThen
    <2>2. l \in Seq(CheckErrors) /\ l # <<>> /\ Head(l) = e /\ ToSet(l) = {e} \cup ToSet(rest)
      BY <2>1
    <2> QED
      BY <2>2
  <1> DEFINE l == <<e>> \o rest
  <1>1. rest \in Seq(CheckErrors) /\ <<e>> \in Seq(CheckErrors) /\ Len(<<e>>) = 1 /\ <<e>>[1] = e /\ Len(rest) \in Nat
    OBVIOUS
  <1>2. /\ l \in Seq(CheckErrors) /\ Len(l) = 1 + Len(rest)
        /\ \A i \in 1 .. Len(l) : l[i] = IF i <= 1 THEN e ELSE rest[i - 1]
    BY <1>1, ConcatProperties
  <1>3. l # <<>> /\ Head(l) = e /\ l[1] = e
    <2>1. l[1] = e /\ Len(l) # 0
      BY <1>1, <1>2
    <2> QED
      BY <1>2, <2>1
  <1>4. ToSet(l) = {e} \cup ToSet(rest)
    <2>1. DOMAIN l = 1 .. Len(l) /\ DOMAIN rest = 1 .. Len(rest)
      BY <1>1, <1>2
    <2> HIDE DEF l
    <2>2. \A i \in 1 .. Len(l) : l[i] \in {e} \cup ToSet(rest)
      <3> SUFFICES ASSUME NEW i \in 1 .. Len(l), i # 1 PROVE l[i] \in ToSet(rest)
        BY <1>3
      <3>1. i - 1 \in 1 .. Len(rest) /\ l[i] = rest[i - 1]
        BY <1>1, <1>2
      <3> QED
        BY <2>1, <3>1 DEF ToSet
    <2>3. \A i \in 1 .. Len(rest) : rest[i] \in ToSet(l)
      <3> SUFFICES ASSUME NEW i \in 1 .. Len(rest) PROVE rest[i] \in ToSet(l)
        OBVIOUS
      <3>1. i + 1 \in 1 .. Len(l) /\ l[i + 1] = rest[i]
        BY <1>1, <1>2
      <3> QED
        BY <2>1, <3>1 DEF ToSet
    <2>4. e \in ToSet(l)
      <3>1. 1 \in 1 .. Len(l)
        BY <1>1, <1>2
      <3> QED
        BY <1>3, <2>1, <3>1 DEF ToSet
    <2> QED
      BY <2>1, <2>2, <2>3, <2>4 DEF ToSet
  <1> QED
    BY <1>2, <1>3, <1>4

\* A pre-backup-check that finds an artifact directory returns that error first: only
\* the step before backupable ends the workflow when it fails.
LEMMA ArtifactDirComesFirst ==
    \A l \in Returns("pre-backup-check") :
        "artifactDir" \in ToSet(l) <=> l # <<>> /\ Head(l) = "artifactDir"
  <1> DEFINE w == "pre-backup-check"
             cleanup == {<<>>} \cup OneThen({"cleanup"}, {<<>>})
             backupable == cleanup \cup OneThen({"backupable", "artifactDir"}, cleanup)
             find == backupable \cup OneThen({"find"}, {<<>>})
             first(l) == "artifactDir" \in ToSet(l) <=> l # <<>> /\ Head(l) = "artifactDir"
  <1>1. StepsOf(w) = {"find", "backupable", "cleanup"} /\ StartingNode(w) = "find"
    BY DEF StepsOf, StartingNode
  <1>2. /\ Errors("find") = {"find"} /\ Errors("cleanup") = {"cleanup"}
        /\ Errors("backupable") = {"backupable", "artifactDir"}
    BY DEF Errors
  <1>3. /\ NextNode(w, "find", TRUE) = "backupable" /\ NextNode(w, "find", FALSE) = "end"
        /\ NextNode(w, "backupable", TRUE) = "cleanup" /\ NextNode(w, "backupable", FALSE) = "cleanup"
        /\ NextNode(w, "cleanup", TRUE) = "end" /\ NextNode(w, "cleanup", FALSE) = "end"
    BY DEF NextNode, BackupCheckerOnSuccess, BackupCheckerOnFailure
  <1>4. FollowsGraph(w, [n \in StepsOf(w) \cup {"end"} |->
                            CASE n = "find" -> find
                              [] n = "backupable" -> backupable
                              [] n = "cleanup" -> cleanup
                              [] n = "end" -> {<<>>}])
    <2> HIDE DEF find, backupable, cleanup
    <2>0. PICK f : f = [n \in StepsOf(w) \cup {"end"} |->
                           CASE n = "find" -> find
                             [] n = "backupable" -> backupable
                             [] n = "cleanup" -> cleanup
                             [] n = "end" -> {<<>>}]
      OBVIOUS
    <2>1. f["find"] = find /\ f["backupable"] = backupable /\ f["cleanup"] = cleanup /\ f["end"] = {<<>>}
      BY <1>1, <2>0
    <2>2. \A n \in StepsOf(w) \cup {"end"} :
             f[n] = IF n = "end" THEN {<<>>}
                    ELSE f[NextNode(w, n, TRUE)] \cup OneThen(Errors(n), f[NextNode(w, n, FALSE)])
      BY <1>1, <1>2, <1>3, <2>1 DEF find, backupable, cleanup
    <2>3. f = [n \in StepsOf(w) \cup {"end"} |-> f[n]]
      <3>1. f \in [StepsOf(w) \cup {"end"} -> {find, backupable, cleanup, {<<>>}}]
        BY <1>1, <2>0
      <3> QED
        BY <3>1
    <2>4. f = [n \in StepsOf(w) \cup {"end"} |->
                  IF n = "end" THEN {<<>>}
                  ELSE f[NextNode(w, n, TRUE)] \cup OneThen(Errors(n), f[NextNode(w, n, FALSE)])]
      BY <2>2, <2>3
    <2> QED
      BY <2>0, <2>4 DEF FollowsGraph
  <1>5. PICK g : FollowsGraph(w, g) /\ Returns(w) = g["find"]
    BY <1>1, <1>4, ReturnsFollowTheGraph
  <1>6. \A n \in {"find", "backupable", "cleanup"} :
           g[n] = g[NextNode(w, n, TRUE)] \cup OneThen(Errors(n), g[NextNode(w, n, FALSE)])
    BY <1>1, <1>5 DEF FollowsGraph
  <1>7. g["end"] = {<<>>}
    BY <1>5 DEF FollowsGraph
  <1>8. Returns(w) = find
    BY <1>2, <1>3, <1>5, <1>6, <1>7
  <1>9. \A l \in {<<>>} : l \in Seq(CheckErrors) /\ ToSet(l) = {}
    BY DEF ToSet
  <1>10. \A e \in {"find", "backupable", "artifactDir", "cleanup"} : e \in CheckErrors
    BY DEF CheckErrors
  <1>11. \A l \in OneThen({"cleanup"}, {<<>>}) \cup OneThen({"find"}, {<<>>}) :
            l \in Seq(CheckErrors) /\ l # <<>> /\ Head(l) # "artifactDir" /\ "artifactDir" \notin ToSet(l)
    <2> DEFINE none == {<<>>}
    <2>1. \A l \in none : l \in Seq(CheckErrors) /\ ToSet(l) = {}
      BY <1>9
    <2> HIDE DEF none
    <2>2. \A l \in OneThen({"cleanup"}, none) :
             /\ l \in Seq(CheckErrors) /\ l # <<>> /\ Head(l) \in {"cleanup"}
             /\ \E rest \in none : ToSet(l) = {Head(l)} \cup ToSet(rest)
      BY <1>10, <2>1, OneMore
    <2>3. \A l \in OneThen({"find"}, none) :
             /\ l \in Seq(CheckErrors) /\ l # <<>> /\ Head(l) \in {"find"}
             /\ \E rest \in none : ToSet(l) = {Head(l)} \cup ToSet(rest)
      BY <1>10, <2>1, OneMore
    <2>4. \A l \in OneThen({"cleanup"}, none) \cup OneThen({"find"}, none) :
             /\ l \in Seq(CheckErrors) /\ l # <<>>
             /\ Head(l) # "artifactDir" /\ "artifactDir" \notin ToSet(l)
      BY <2>1, <2>2, <2>3
    <2> QED
      BY <2>4 DEF none
  <1>12. \A l \in cleanup : l \in Seq(CheckErrors) /\ "artifactDir" \notin ToSet(l) /\ first(l)
    BY <1>9, <1>11
  <1>13. \A l \in OneThen({"backupable", "artifactDir"}, cleanup) : first(l)
    <2> HIDE DEF cleanup
    <2>1. \A l \in cleanup : l \in Seq(CheckErrors)
      BY <1>12
    <2>2. \A l \in OneThen({"backupable", "artifactDir"}, cleanup) :
             /\ l # <<>> /\ Head(l) \in {"backupable", "artifactDir"}
             /\ \E rest \in cleanup : ToSet(l) = {Head(l)} \cup ToSet(rest)
      BY <1>10, <2>1, OneMore
    <2> QED
      BY <1>12, <2>2
  <1>14. \A l \in OneThen({"find"}, {<<>>}) : first(l)
    BY <1>11
  <1> QED
    BY <1>8, <1>12, <1>13, <1>14

\* Is there an error of which LeftoversAreAdvised wants advice in this list?
CallsForCleanup(list) ==
    \E e \in AllErrors :
        /\ e \in ToSet(list)
        /\ \/ e = "artifactDir"
           \/ cmd = "backup" /\ Class(e) \in {"UnlockError", "DrainError", "CleanupError"}

\* Errors of these classes are errors of steps, and no other error is of the class of
\* an artifact directory that is there.
LEMMA ClassesAreOfErrors ==
    \A e : /\ Class(e) = "ArtifactDirError" <=> e = "artifactDir"
           /\ Class(e) \in {"ArtifactDirError", "UnlockError", "DrainError", "CleanupError"} =>
                  e \in AllErrors
  <1>1. \A e : Class(e) = "ArtifactDirError" <=> e = "artifactDir"
    BY DEF Class
  <1>2. "artifactDir" \in AllErrors
    BY DEF AllErrors
  <1>3. ASSUME NEW w \in Workflows, NEW e \in StepsOf(w) PROVE e \in AllErrors
    BY <1>3 DEF AllErrors, Steps
  <1>4. /\ {"unlockAfterSuccessfulBackup", "unlockAfterFailedBackup", "drain", "cleanup"}
               \subseteq StepsOf("backup")
        /\ "postBackupUnlock" \in StepsOf("backup-cleanup")
        /\ "postRestoreUnlock" \in StepsOf("restore")
        /\ "backup" \in Workflows /\ "backup-cleanup" \in Workflows /\ "restore" \in Workflows
    BY DEF StepsOf, Workflows
  <1>5. \A e \in {"unlockAfterSuccessfulBackup", "unlockAfterFailedBackup", "drain", "cleanup",
                  "postBackupUnlock", "postRestoreUnlock"} : e \in AllErrors
    BY <1>3, <1>4
  <1>6. \A e : Class(e) \in {"UnlockError", "DrainError", "CleanupError"} =>
             e \in {"unlockAfterSuccessfulBackup", "unlockAfterFailedBackup", "drain", "cleanup",
                    "postBackupUnlock", "postRestoreUnlock"}
    BY DEF Class
  <1> QED
    BY <1>1, <1>2, <1>5, <1>6

\* What the commands look for in a list of errors is what calls for a clean-up.
LEMMA LooksForLeftovers ==
    ASSUME NEW list
    PROVE  /\ cmd = "backup" =>
                  (ContainsUnlockOrCleanupOrArtifactDirExists(list) <=> CallsForCleanup(list))
           /\ cmd = "pre-backup-check" /\ list \in Returns("pre-backup-check") \cup {<<"setup">>, <<>>} =>
                  /\ ContainsArtifactDirError(list) <=> CallsForCleanup(list)
                  /\ backupableCheck(list) <=> CallsForCleanup(list)
           /\ CallsForCleanup(list) => list # <<>>
  <1>1. ASSUME cmd = "backup"
        PROVE  ContainsUnlockOrCleanupOrArtifactDirExists(list) <=> CallsForCleanup(list)
    BY <1>1, ClassesAreOfErrors DEF ContainsUnlockOrCleanupOrArtifactDirExists, CallsForCleanup
  <1>2. ToSet(<<>>) = {} /\ ToSet(<<"setup">>) = {"setup"} /\ Head(<<"setup">>) = "setup"
    <2>1. DOMAIN <<"setup">> = {1} /\ <<"setup">>[1] = "setup" /\ DOMAIN <<>> = {}
      OBVIOUS
    <2> QED
      BY <2>1 DEF ToSet
  <1>3. ASSUME cmd = "pre-backup-check",
               list \in Returns("pre-backup-check") \cup {<<"setup">>, <<>>}
        PROVE  /\ ContainsArtifactDirError(list) <=> CallsForCleanup(list)
               /\ backupableCheck(list) <=> CallsForCleanup(list)
    <2>1. "artifactDir" \in ToSet(list) <=> list # <<>> /\ Head(list) = "artifactDir"
      BY <1>2, <1>3, ArtifactDirComesFirst
    <2>2. CallsForCleanup(list) <=> "artifactDir" \in ToSet(list)
      BY <1>3, ClassesAreOfErrors DEF CallsForCleanup
    <2>3. ContainsArtifactDirError(list) <=> list # <<>> /\ Head(list) = "artifactDir"
      BY ClassesAreOfErrors DEF ContainsArtifactDirError
    <2> QED
      BY <2>1, <2>2, <2>3 DEF backupableCheck
  <1>4. CallsForCleanup(list) => list # <<>>
    BY <1>2 DEF CallsForCleanup
  <1> QED
    BY <1>1, <1>3, <1>4

\* Whatever else fails, in a deployment or in the others, bbr advises a clean-up if and
\* only if something was left behind: the check and the handler of the errors look at
\* all that can tell, and the first error is all that a pre-backup-check has to look at.
THEOREM LeftoversAreTold == DSpec => []LeftoversAreAdvised
  <1>1. ListInv => LeftoversAreAdvised
    <2> SUFFICES ASSUME ListInv, stage = "exited", cmd \in {"backup", "pre-backup-check"}
                 PROVE  footer <=> \E d \in Deployments : CallsForCleanup(outcome[d])
      BY DEF LeftoversAreAdvised, CallsForCleanup
    <2>0. dispatched \in Nat /\ 1 \in Deployments
      BY CountOfDeployments DEF ListInv, ListTypeInv
    <2>1. CASE dispatched = 0 /\ pc[1] = "single"
      <3>1. /\ outcome[1] \in Returns(cmd) \cup {<<"setup">>}
            /\ footer = Advised(outcome[1])
        BY <2>1 DEF ListInv, ToldInv
      <3>2. \A d \in Deployments \ {1} : outcome[d] = <<>>
        BY <2>1 DEF ListInv, ListOrderInv, Deployments
      <3>3. footer <=> CallsForCleanup(outcome[1])
        <4>1. CASE cmd = "backup"
          BY <3>1, <4>1, LooksForLeftovers DEF Advised, backupSingleDeployment
        <4>2. CASE cmd = "pre-backup-check"
          BY <3>1, <4>2, LooksForLeftovers DEF Advised
        <4> QED
          BY <4>1, <4>2
      <3>4. \A d \in Deployments \ {1} : ~CallsForCleanup(outcome[d])
        BY <3>2, LooksForLeftovers
      <3> QED
        BY <2>0, <3>3, <3>4
    <2>2. CASE dispatched = 0 /\ pc[1] # "single"
      <3>1. footer = FALSE
        BY <2>2 DEF ListInv, ToldInv
      <3>2. \A d \in Deployments : outcome[d] = <<>>
        BY <2>2 DEF ListInv, ListOrderInv, Deployments
      <3> QED
        BY <3>1, <3>2, LooksForLeftovers
    <2>3. CASE dispatched > 0
      <3>1. Reported = Deployments /\ failures = {d \in Deployments : outcome[d] # <<>>}
        <4>1. received = N
          BY <2>3 DEF ListInv, ListOrderInv
        <4> QED
          BY <4>1, AllReceived
      <3>2. footer = IF failures = {} THEN FALSE ELSE ErrorHandlerAdvises(failures)
        BY <2>3 DEF ListInv, ToldInv
      <3>3. (\E d \in Deployments : CallsForCleanup(outcome[d])) <=>
                \E d \in failures : CallsForCleanup(outcome[d])
        BY <3>1, LooksForLeftovers
      <3>4. CASE cmd = "backup"
        <4>1. ErrorHandlerAdvises(failures) <=>
                  \E d \in failures : ContainsUnlockOrCleanupOrArtifactDirExists(outcome[d])
          BY <3>4 DEF ErrorHandlerAdvises, ContainsUnlockOrCleanup
        <4>2. ErrorHandlerAdvises(failures) <=> \E d \in failures : CallsForCleanup(outcome[d])
          BY <3>4, <4>1, LooksForLeftovers
        <4> QED
          BY <3>2, <3>3, <4>2
      <3>5. CASE cmd = "pre-backup-check"
        <4>1. \A d \in failures : outcome[d] \in Returns("pre-backup-check")
          BY <3>1, <3>5 DEF ListInv, ListOrderInv, Reported, ActionReturns, backupCheckerAction
        <4>2. ErrorHandlerAdvises(failures) <=>
                  \E d \in failures : ContainsArtifactDirError(outcome[d])
          BY <3>5 DEF ErrorHandlerAdvises, ContainsArtifactDir
        <4>3. ErrorHandlerAdvises(failures) <=> \E d \in failures : CallsForCleanup(outcome[d])
          BY <3>5, <4>1, <4>2, LooksForLeftovers
        <4> QED
          BY <3>2, <3>3, <4>3
      <3> QED
        BY <3>4, <3>5
    <2> QED
      BY <2>0, <2>1, <2>2, <2>3
  <1> QED
    BY <1>1, ListInvHolds, PTL

=============================================================================
