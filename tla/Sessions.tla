------------------------------- MODULE Sessions -------------------------------
(***************************************************************************)
(* The ssh connection at work: the download of an artifact, the upload of  *)
(* one and the inspection of a host, side by side, each a sequence of      *)
(* local steps and of commands in an ssh session of their own, every one   *)
(* of which may end in any of the ways of module RemoteRunner.  With each  *)
(* session runs a goroutine that keeps it alive.                           *)
(*                                                                         *)
(* The artifact is FileCount files, streamed one after the other.  A panic *)
(* ends the whole process.  Once they are all connected, as they are when  *)
(* the deployment is found, the tasks share nothing, and one of them, any  *)
(* one, is followed from there on.                                         *)
(***************************************************************************)
EXTENDS RemoteRunner, FiniteSets

CONSTANTS
    Tasks,      \* the tasks under way, each with its connection
    KindOf,     \* task -> "download", "upload" or "inspect"
    FileCount,  \* the number of files of the artifact
    FileBytes,  \* the bytes a file takes in the stream
    Blocks,     \* the sizes du may report, in blocks of 1024 bytes
    HostKinds   \* what the inspected host may be: [windows, dir, scripts]

ASSUME TasksAssumption ==
    /\ KindOf \in [Tasks -> {"download", "upload", "inspect"}]
    /\ FileCount \in Nat /\ FileBytes \in Nat /\ Blocks \subseteq Nat

\* Output that was cut short is no number of blocks, no list of files or scripts and no text.
ASSUME OutputAssumption ==
    LET found == {h.scripts : h \in HostKinds}
    IN  /\ HostKinds \subseteq [windows : BOOLEAN, dir : BOOLEAN, scripts : found]
        /\ Cut \notin Nat \cup found \cup {"text"}
        /\ \A files \in SUBSET (-1 .. FileCount) : Cut # files

VARIABLES
    turn,      \* the task that is followed past its connection
    dialFunc,  \* is the shared dialFunc set?
    have,      \* task -> haveDialer, once it was read
    dial,      \* task -> does its connection have a dialFunc?
    step,      \* task -> its step
    link,      \* task -> its ssh session: "none", "up", "closed" by bbr, "unanswered" since
    copied,    \* task -> the files streamed to the other side
    torn,      \* task -> did the stream end inside a file?
    ioErr,     \* task -> has a local write (of an upload: read) failed?
    total,     \* task -> totalSize
    logged,    \* task -> the last percentage logged
    last,      \* task -> lastLogPercentage
    sums,      \* task -> the files of remoteChecksum
    recorded,  \* task -> is the artifact's checksum in the metadata?
    deleted,   \* task -> was the artifact on the instance deleted?
    host,      \* what the inspected host is
    said,      \* what it is found to be
    watched,   \* the keep-alive loop of one session: [task, at, told, closed]
    crashed,   \* has the process panicked?
    eofs       \* history: task -> the steps whose sessions ended in io.EOF

conn == <<turn, dialFunc, have, dial>>
stream == <<copied, torn, ioErr, total, logged, last>>
results == <<sums, recorded, deleted, said>>
vars == <<conn, step, link, stream, results, host, watched, crashed, eofs>>

-----------------------------------------------------------------------------

Files == 1 .. FileCount
NoLoop == [task |-> Cut, at |-> "none", told |-> FALSE, closed |-> FALSE]

\* BackupDownloadExecutable, BackupUploadExecutable, and of a host FindInstances and
\* CheckArtifactDir.
NextStep(kind, s) ==
    CASE kind = "download" ->
            (CASE s = "connect" -> "createArtifact" [] s = "createArtifact" -> "sizeOf"
               [] s = "sizeOf" -> "sizeInBytes" [] s = "sizeInBytes" -> "stream"
               [] s = "stream" -> "close" [] s = "close" -> "localSum"
               [] s = "localSum" -> "remoteSum" [] s = "remoteSum" -> "compare"
               [] s = "compare" -> "addChecksum" [] s = "addChecksum" -> "delete"
               [] s = "delete" -> "done")
      [] kind = "upload" ->
            (CASE s = "connect" -> "readArtifact" [] s = "readArtifact" -> "mkdir"
               [] s = "mkdir" -> "stream" [] s = "stream" -> "fetchChecksum"
               [] s = "fetchChecksum" -> "remoteSum" [] s = "remoteSum" -> "compare"
               [] s = "compare" -> "done")
      [] kind = "inspect" ->
            (CASE s = "connect" -> "isWindows" [] s = "isWindows" -> "findFiles"
               [] s = "findFiles" -> "dirExists" [] s = "dirExists" -> "done")

RemoteSteps == {"sizeOf", "sizeInBytes", "mkdir", "stream", "remoteSum", "delete",
                "isWindows", "findFiles", "dirExists"}
LocalSteps == {"createArtifact", "close", "localSum", "compare", "addChecksum",
               "readArtifact", "fetchChecksum"}

GoOn(t) == step' = [step EXCEPT ![t] = NextStep(KindOf[t], @)]
GiveUp(t) == step' = [step EXCEPT ![t] = "failed"]

Init ==
    /\ turn \in Tasks
    /\ dialFunc = FALSE /\ have = [t \in Tasks |-> "unread"] /\ dial = [t \in Tasks |-> FALSE]
    /\ step = [t \in Tasks |-> "connect"] /\ link = [t \in Tasks |-> "none"]
    /\ copied = [t \in Tasks |-> 0] /\ torn = [t \in Tasks |-> FALSE]
    /\ ioErr = [t \in Tasks |-> FALSE]
    /\ total = [t \in Tasks |-> 0] /\ logged = [t \in Tasks |-> 0] /\ last = [t \in Tasks |-> 0]
    /\ sums = [t \in Tasks |-> {}] /\ recorded = [t \in Tasks |-> FALSE]
    /\ deleted = [t \in Tasks |-> FALSE]
    /\ host \in HostKinds
    /\ said = [windows |-> FALSE, dir |-> FALSE, scripts |-> {}]
    /\ watched = NoLoop
    /\ crashed = FALSE /\ eofs = [t \in Tasks |-> {}]

-----------------------------------------------------------------------------
(* NewConnection: createDialContextFunc *)

\* A plausible bug: a dialFunc that is being made is taken for one that is there.
ReadHaveDialerInTheMaking(t) ==
    /\ step[t] = "connect" /\ have[t] = "unread"
    /\ \/ /\ have' = [have EXCEPT ![t] = IF dialFunc \/ \E u \in Tasks : have[u] = "no"
                                         THEN "yes" ELSE "no"]
          /\ UNCHANGED step
       \/ GiveUp(t) /\ UNCHANGED have
    /\ UNCHANGED <<turn, dialFunc, dial, link, stream, results, host, watched, crashed, eofs>>

\* The private key is parsed, or not; then haveDialer is read under the read lock.
ReadHaveDialer(t) ==
    /\ step[t] = "connect" /\ have[t] = "unread"
    /\ \/ have' = [have EXCEPT ![t] = IF dialFunc THEN "yes" ELSE "no"] /\ UNCHANGED step
       \/ GiveUp(t) /\ UNCHANGED have
    /\ UNCHANGED <<turn, dialFunc, dial, link, stream, results, host, watched, crashed, eofs>>

\* return dialFunc, read without a lock; or make one, whoever made one meanwhile.
CreateDialContextFunc(t) ==
    /\ step[t] = "connect" /\ have[t] # "unread"
    /\ dialFunc' = (dialFunc \/ have[t] = "no")
    /\ dial' = [dial EXCEPT ![t] = dialFunc']
    /\ have' = [have EXCEPT ![t] = "unread"]
    /\ GoOn(t)
    /\ UNCHANGED <<turn, link, stream, results, host, watched, crashed, eofs>>

-----------------------------------------------------------------------------
(* Connection.runInSession *)

\* The dial, a panic without a dialFunc, the handshake and the session; then the
\* command and the keep-alive loop.
Dial(t) ==
    /\ step[t] \in RemoteSteps /\ link[t] = "none"
    /\ \/ dial[t] /\ GiveUp(t) /\ UNCHANGED <<link, watched, crashed>>
       \/ /\ crashed' = ~dial[t]
          /\ link' = [link EXCEPT ![t] = "up"]
          /\ watched' \in {watched} \cup
                 (IF watched = NoLoop
                  THEN {[task |-> t, at |-> "check", told |-> FALSE, closed |-> FALSE]} ELSE {})
          /\ UNCHANGED step
    /\ UNCHANGED <<conn, stream, results, host, eofs>>

Streaming(t) == step[t] = "stream" /\ link[t] = "up" /\ ~ioErr[t] /\ copied[t] < FileCount

\* logPercentage after b bytes.
LogPercentage(t, b) ==
    LET percentage == (100 * b) \div total[t]
    IN  CASE b > total[t] -> logged' = [logged EXCEPT ![t] = 100] /\ UNCHANGED last
          [] b <= total[t] /\ percentage >= last[t] + 5 ->
                /\ logged' = [logged EXCEPT ![t] = percentage]
                /\ last' = [last EXCEPT ![t] = percentage]
          [] OTHER -> UNCHANGED <<logged, last>>

\* LogPercentageWriter.Write or LogPercentageReader.Read of the next file: with a
\* total size of 0 the percentage is a division by zero.
CopyFile(t) ==
    /\ Streaming(t)
    /\ copied' = [copied EXCEPT ![t] = @ + 1]
    /\ IF total[t] = 0 THEN crashed' = TRUE /\ UNCHANGED <<logged, last>>
       ELSE LogPercentage(t, (copied[t] + 1) * FileBytes) /\ UNCHANGED crashed
    /\ UNCHANGED <<conn, step, link, torn, ioErr, total, results, host, watched, eofs>>

\* sessionClosingOnErrorWriter.Write: the local disk is full, say.
WriteFails(t) ==
    /\ Streaming(t) /\ KindOf[t] = "download"
    /\ ioErr' = [ioErr EXCEPT ![t] = TRUE]
    /\ torn' \in {torn, [torn EXCEPT ![t] = TRUE]}
    /\ link' = [link EXCEPT ![t] = "closed"]
    /\ UNCHANGED <<conn, step, copied, total, logged, last, results, host, watched, crashed, eofs>>

\* A read of the local artifact fails: the other end sees its input end.
ReadFails(t) ==
    /\ Streaming(t) /\ KindOf[t] = "upload"
    /\ ioErr' = [ioErr EXCEPT ![t] = TRUE]
    /\ UNCHANGED <<conn, step, link, copied, torn, total, logged, last, results, host, watched,
                   crashed, eofs>>

\* The ways the session of the current step can end; stat fails for want of the
\* directory alone.
Ending(t, ending) ==
    CASE link[t] \in {"closed", "unanswered"} -> ending = "write"
      [] link[t] = "up" /\ step[t] = "stream" /\ ioErr[t] -> ending \in {"fail", "missing", "other"}
      [] Streaming(t) -> ending \notin {"exit", "write"}
      [] link[t] = "up" /\ step[t] = "dirExists" ->
            ending \in {"missing", "eof", "other", IF host.dir THEN "exit" ELSE "fail"}
      [] OTHER -> ending # "write"

\* The files on the instance, by the sums of what is in them: another one of a file
\* cut short.
Torn == -1
RemoteFiles(t) ==
    IF KindOf[t] = "download" THEN Files
    ELSE (1 .. copied[t]) \cup (IF torn[t] THEN {Torn} ELSE {})

\* What the command of the step may print.
Output(t) ==
    CASE step[t] = "sizeInBytes" -> Blocks
      [] step[t] = "remoteSum" -> {IF RemoteFiles(t) = {} THEN {Dash} ELSE RemoteFiles(t)}
      [] step[t] = "isWindows" -> {IF host.windows THEN "Windows_NT" ELSE "%OS%"}
      [] step[t] = "findFiles" -> {host.scripts}
      [] OTHER -> {"text"}

\* What is read of it: all, or less when the session ends without an exit code.
Outputs(t, ending) ==
    IF ending \in {"exit", "fail"} THEN Output(t)
    ELSE Output(t) \cup {Cut} \cup
             (IF step[t] = "remoteSum" THEN {1 .. n : n \in 0 .. FileCount} ELSE {})

\* Does the function of the remote runner return an error for the answer a?
Fails(t, ending, a) ==
    CASE step[t] \in {"isWindows", "dirExists"} -> a.err
      [] step[t] = "findFiles" -> FindFilesFails(a, ending = "fail" /\ host.scripts = {})
      [] OTHER -> LogAndCheckErrors(a)

\* SizeOf, SizeInBytes and convertShasToMap index what they split.
Panics(t, a) == step[t] \in {"sizeOf", "sizeInBytes", "remoteSum"} /\ ~Indexable(a)

\* What the task takes from an answer that is not an error.
Take(t, a) ==
    /\ total' = IF step[t] = "sizeInBytes" THEN [total EXCEPT ![t] = SizeInBytes(a)] ELSE total
    /\ sums' = IF step[t] = "remoteSum" THEN [sums EXCEPT ![t] = ConvertShasToMap(a.out)] ELSE sums
    /\ said' = CASE step[t] = "isWindows" -> [said EXCEPT !.windows = IsWindows(a)]
                 [] step[t] = "findFiles" -> [said EXCEPT !.scripts = FindFiles(a)]
                 [] step[t] = "dirExists" -> [said EXCEPT !.dir = DirectoryExists(a)]
                 [] OTHER -> said

\* What the command may have done on the instance, however its session ended.
RemoteEffect(t, ending) ==
    /\ torn' \in {torn, IF Streaming(t) THEN [torn EXCEPT ![t] = TRUE] ELSE torn}
    /\ deleted' \in {deleted, IF step[t] = "delete" THEN [deleted EXCEPT ![t] = TRUE] ELSE deleted}
    /\ ending = "exit" /\ step[t] = "delete" => deleted'[t]

\* A plausible bug: the loop is not told to stop when a local write has failed.
CloseSessionEarly(t) ==
    /\ link' = [link EXCEPT ![t] = "none"]
    /\ watched' = IF watched.task = t /\ ~watched.closed
                  THEN [watched EXCEPT !.told = ~ioErr[t], !.closed = TRUE] ELSE watched

\* The deferred close(stopKeepAliveLoop) and client.Close().
CloseSession(t) ==
    /\ link' = [link EXCEPT ![t] = "none"]
    /\ watched' = IF watched.task = t /\ ~watched.closed
                  THEN [watched EXCEPT !.told = TRUE, !.closed = TRUE] ELSE watched

\* session.Run returns, and the runner's function to the task, or panics.
EndSession(t, ending) ==
    /\ step[t] \in RemoteSteps /\ link[t] # "none"
    /\ Ending(t, ending)
    /\ \E out \in Outputs(t, ending) :
         LET a == RunInSession(ending, out)
         IN  \/ Fails(t, ending, a) /\ GiveUp(t) /\ UNCHANGED <<total, sums, said, crashed>>
             \/ ~Fails(t, ending, a) /\ Panics(t, a) /\ crashed' = TRUE
                    /\ UNCHANGED <<step, total, sums, said>>
             \/ ~Fails(t, ending, a) /\ ~Panics(t, a) /\ Take(t, a) /\ GoOn(t)
                    /\ UNCHANGED crashed
    /\ RemoteEffect(t, ending)
    /\ CloseSession(t)
    /\ eofs' = IF ending = "eof" THEN [eofs EXCEPT ![t] = @ \cup {step[t]}] ELSE eofs
    /\ UNCHANGED <<conn, copied, ioErr, logged, last, recorded, host>>

\* session.Close() only tells the other end: session.Run returns when that answers.
EndClosedSession(t) == link[t] = "closed" /\ EndSession(t, "write")

\* Or the other end is gone and does not answer.  Then session.Run waits, with no
\* deadline; client.Close() comes after it.
FallSilent(t) ==
    /\ link[t] = "closed"
    /\ link' = [link EXCEPT ![t] = "unanswered"]
    /\ UNCHANGED <<conn, step, stream, results, host, watched, crashed, eofs>>

-----------------------------------------------------------------------------
(* startKeepAliveLoop *)

\* The select: told to terminate or not.
CheckTerminate ==
    /\ watched.at = "check"
    /\ watched' = [watched EXCEPT !.at = IF watched.told THEN "ended" ELSE "sending"]
    /\ UNCHANGED <<conn, step, link, stream, results, host, crashed, eofs>>

\* SendRequest returns: with a reply, or with an error that is only logged.
Reply ==
    /\ watched.at = "sending"
    /\ watched' = [watched EXCEPT !.at = "sleeping"]
    /\ UNCHANGED <<conn, step, link, stream, results, host, crashed, eofs>>

Sleep ==
    /\ watched.at = "sleeping"
    /\ watched' = [watched EXCEPT !.at = "check"]
    /\ UNCHANGED <<conn, step, link, stream, results, host, crashed, eofs>>

-----------------------------------------------------------------------------
(* The local steps *)

\* A plausible bug: only the files of one side are looked at.
MatchLeniently(sum, other) == \A f \in sum : f \in other

\* BackupChecksum.Match.
Match(sum, other) == Cardinality(sum) = Cardinality(other) /\ \A f \in sum : f \in other

\* CalculateChecksum of the local artifact; FetchChecksum of its record, if any.
LocalChecksum(t) ==
    CASE KindOf[t] = "download" -> 1 .. copied[t]
      [] KindOf[t] = "upload" -> IF recorded[t] THEN Files ELSE {}

LocalStepSucceeds(t) ==
    /\ step[t] \in LocalSteps
    /\ step[t] = "localSum" => ~torn[t]
    /\ step[t] = "compare" => Match(LocalChecksum(t), sums[t])
    /\ GoOn(t)
    /\ total' = IF step[t] = "readArtifact" THEN [total EXCEPT ![t] = FileCount * FileBytes] ELSE total
    /\ CASE step[t] = "addChecksum" -> recorded' = [recorded EXCEPT ![t] = TRUE]
         [] step[t] = "fetchChecksum" -> recorded' \in {recorded, [recorded EXCEPT ![t] = TRUE]}
         [] OTHER -> UNCHANGED recorded
    /\ UNCHANGED <<conn, link, copied, torn, ioErr, logged, last, sums, deleted, said, host,
                   watched, crashed, eofs>>

\* Any of them may fail; a comparison only on a mismatch.
LocalStepFails(t) ==
    /\ step[t] \in LocalSteps
    /\ step[t] = "compare" => ~Match(LocalChecksum(t), sums[t])
    /\ GiveUp(t)
    /\ UNCHANGED <<conn, link, stream, results, host, watched, crashed, eofs>>

-----------------------------------------------------------------------------

Connect(t) == ReadHaveDialer(t) \/ CreateDialContextFunc(t)

TaskStep(t) ==
    /\ \A u \in Tasks : step[u] # "connect"
    /\ \/ LocalStepSucceeds(t) \/ LocalStepFails(t)
       \/ Dial(t) \/ CopyFile(t) \/ WriteFails(t) \/ ReadFails(t) \/ FallSilent(t)
       \/ \E ending \in Endings : EndSession(t, ending)

KeepAliveLoop == CheckTerminate \/ Reply \/ Sleep

Next == ~crashed /\ ((\E t \in Tasks : Connect(t)) \/ TaskStep(turn) \/ KeepAliveLoop)

\* bbr's own code does not stop.  Of the network nothing is assumed: a session need
\* not end nor a request be answered.  Of a peer only that, unless it has fallen
\* silent, it answers the close of a session.  The request of a client that was
\* closed on this side returns.
Spec ==
    /\ Init /\ [][Next]_vars
    /\ WF_vars(~crashed /\ EndClosedSession(turn))
    /\ WF_vars(~crashed /\ (CheckTerminate \/ Sleep))
    /\ WF_vars(~crashed /\ watched.closed /\ Reply)

-----------------------------------------------------------------------------

\* What is recorded as backed up, or taken for uploaded, is whole, however the
\* stream was cut, unless the session of the checksum itself ended in io.EOF; and
\* the artifact on the instance is not deleted before.
VerifiedMeansWhole ==
    \A t \in Tasks :
        LET whole == copied[t] = FileCount /\ ~torn[t]
        IN  /\ KindOf[t] = "download" /\ recorded[t] /\ "remoteSum" \notin eofs[t] => whole
            /\ deleted[t] => recorded[t]
            /\ KindOf[t] = "upload" /\ step[t] = "done" /\ recorded[t]
                   /\ "remoteSum" \notin eofs[t] => whole

\* A host is what its inspection says, unless a session ended in io.EOF.  Then too
\* an artifact directory is not overlooked.
InspectionIsTrue ==
    \A t \in Tasks : KindOf[t] = "inspect" /\ step[t] = "done" =>
        /\ eofs[t] = {} => said = host
        /\ host.dir => said.dir

\* Only two things make a transfer panic, and bbr with it: a session that ended in
\* io.EOF with its output unread, and a remote artifact of size 0, as du has it.
CrashHasCause ==
    crashed => \E t \in Tasks : eofs[t] # {} \/ (copied[t] > 0 /\ total[t] = 0)

\* "does not hang forever": a local write error ends the session and with it the
\* download, though the other end would go on sending, unless it does not even answer
\* that the session is closed.  And the keep-alive goroutine of a session ends after
\* it, even if its last request is never answered.
SessionsEnd ==
    /\ \A t \in Tasks : ioErr[t] /\ KindOf[t] = "download" ~>
           step[t] = "failed" \/ link[t] = "unanswered" \/ crashed
    /\ watched.closed ~> watched.at = "ended" \/ crashed

=============================================================================
