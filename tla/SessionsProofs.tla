---------------------------- MODULE SessionsProofs ----------------------------
(***************************************************************************)
(* Proofs about module Sessions, for any tasks, hosts and artifact, and    *)
(* however each of the sessions ends: what was verified is whole, what was *)
(* inspected is true, and a panic has one of two causes.                   *)
(***************************************************************************)
EXTENDS Sessions, FiniteSetTheorems, TLAPS

\* The steps of a task.
TaskSteps(kind) ==
    {"connect", "done", "failed"} \cup
    (CASE kind = "download" -> {"createArtifact", "sizeOf", "sizeInBytes", "stream", "close",
                                "localSum", "remoteSum", "compare", "addChecksum", "delete"}
       [] kind = "upload"   -> {"readArtifact", "mkdir", "stream", "fetchChecksum", "remoteSum",
                                "compare"}
       [] kind = "inspect"  -> {"isWindows", "findFiles", "dirExists"})

AllSteps == UNION {TaskSteps(k) : k \in {"download", "upload", "inspect"}}

Scripts == {h.scripts : h \in HostKinds} \cup {{}}

TypeInv ==
    /\ turn \in Tasks /\ dialFunc \in BOOLEAN
    /\ have \in [Tasks -> {"unread", "yes", "no"}] /\ dial \in [Tasks -> BOOLEAN]
    /\ step \in [Tasks -> AllSteps]
    /\ \A t \in Tasks : step[t] \in TaskSteps(KindOf[t])
    /\ link \in [Tasks -> {"none", "up", "closed", "unanswered"}]
    /\ copied \in [Tasks -> 0 .. FileCount]
    /\ torn \in [Tasks -> BOOLEAN] /\ ioErr \in [Tasks -> BOOLEAN]
    /\ total \in [Tasks -> Nat]
    /\ sums \in [Tasks -> SUBSET (-1 .. FileCount)]
    /\ recorded \in [Tasks -> BOOLEAN] /\ deleted \in [Tasks -> BOOLEAN]
    /\ host \in HostKinds
    /\ said \in [windows : BOOLEAN, dir : BOOLEAN, scripts : Scripts]
    /\ crashed \in BOOLEAN
    /\ eofs \in [Tasks -> SUBSET RemoteSteps]

\* Whoever is past its connection has a dialFunc: one that was read as set stays set.
DialInv ==
    \A t \in Tasks : /\ have[t] = "yes" => dialFunc
                     /\ step[t] \notin {"connect", "failed"} => dial[t]

\* The steps a download takes once its local artifact could be read, and an inspection
\* once it has an answer.
AfterLocalSum == {"remoteSum", "compare", "addChecksum", "delete", "done"}

SumCut(t) == "remoteSum" \in eofs[t]

DownloadInv ==
    \A t \in Tasks : KindOf[t] = "download" =>
        /\ step[t] \in AfterLocalSum => ~torn[t]
        /\ step[t] = "compare" /\ ~SumCut(t) => sums[t] = Files
        /\ step[t] \in {"addChecksum", "delete", "done"} /\ ~SumCut(t) => copied[t] = FileCount
        /\ step[t] \in {"delete", "done"} => recorded[t]
        /\ recorded[t] => /\ step[t] \in {"delete", "done", "failed"} /\ ~torn[t]
                          /\ SumCut(t) \/ copied[t] = FileCount

UploadInv ==
    \A t \in Tasks : KindOf[t] = "upload" =>
        /\ step[t] = "compare" /\ ~SumCut(t) => sums[t] = RemoteFiles(t)
        /\ step[t] = "done" /\ recorded[t] /\ ~SumCut(t) => copied[t] = FileCount /\ ~torn[t]

DeletedInv == \A t \in Tasks : deleted[t] => recorded[t]

InspectInv ==
    \A t \in Tasks : KindOf[t] = "inspect" =>
        /\ step[t] \in {"findFiles", "dirExists", "done"} =>
              t = turn /\ (eofs[t] = {} => said.windows = host.windows)
        /\ step[t] \in {"dirExists", "done"} /\ eofs[t] = {} => said.scripts = host.scripts
        /\ step[t] = "done" => /\ eofs[t] = {} => said.dir = host.dir
                               /\ host.dir => said.dir

-----------------------------------------------------------------------------
(* The operators *)

\* Where a step leads, kind by kind.
LEMMA NextSteps ==
    /\ \A k \in {"download", "upload", "inspect"} : \A s \in TaskSteps(k) \ {"done", "failed"} :
          NextStep(k, s) \in TaskSteps(k) \ {"connect", "failed"}
    /\ \A s \in TaskSteps("download") \ {"done", "failed"} :
          /\ NextStep("download", s) = "remoteSum" => s = "localSum"
          /\ NextStep("download", s) = "compare" => s = "remoteSum"
          /\ NextStep("download", s) = "addChecksum" => s = "compare"
          /\ NextStep("download", s) = "delete" => s = "addChecksum"
          /\ NextStep("download", s) = "done" => s = "delete"
    /\ \A s \in TaskSteps("upload") \ {"done", "failed"} :
          /\ NextStep("upload", s) = "compare" => s = "remoteSum"
          /\ NextStep("upload", s) = "done" => s = "compare"
    /\ \A s \in TaskSteps("inspect") \ {"done", "failed"} :
          /\ NextStep("inspect", s) = "findFiles" => s = "isWindows"
          /\ NextStep("inspect", s) = "dirExists" => s = "findFiles"
          /\ NextStep("inspect", s) = "done" => s = "dirExists"
  <1>1. ASSUME NEW s \in TaskSteps("download") \ {"done", "failed"}
        PROVE  /\ NextStep("download", s) \in TaskSteps("download") \ {"connect", "failed"}
               /\ NextStep("download", s) = "remoteSum" => s = "localSum"
               /\ NextStep("download", s) = "compare" => s = "remoteSum"
               /\ NextStep("download", s) = "addChecksum" => s = "compare"
               /\ NextStep("download", s) = "delete" => s = "addChecksum"
               /\ NextStep("download", s) = "done" => s = "delete"
    BY <1>1 DEF TaskSteps, NextStep
  <1>2. ASSUME NEW s \in TaskSteps("upload") \ {"done", "failed"}
        PROVE  /\ NextStep("upload", s) \in TaskSteps("upload") \ {"connect", "failed"}
               /\ NextStep("upload", s) = "compare" => s = "remoteSum"
               /\ NextStep("upload", s) = "done" => s = "compare"
    BY <1>2 DEF TaskSteps, NextStep
  <1>3. ASSUME NEW s \in TaskSteps("inspect") \ {"done", "failed"}
        PROVE  /\ NextStep("inspect", s) \in TaskSteps("inspect") \ {"connect", "failed"}
               /\ NextStep("inspect", s) = "findFiles" => s = "isWindows"
               /\ NextStep("inspect", s) = "dirExists" => s = "findFiles"
               /\ NextStep("inspect", s) = "done" => s = "dirExists"
    BY <1>3 DEF TaskSteps, NextStep
  <1> QED
    BY <1>1, <1>2, <1>3

\* Two checksums match only if they are of the same files.
LEMMA MatchIsEquality ==
    ASSUME NEW S, NEW T, IsFiniteSet(T), Match(S, T)
    PROVE  S = T
  <1>1. S \in SUBSET T /\ Cardinality(T) = Cardinality(S)
    BY DEF Match
  <1> QED
    BY <1>1, FS_Subset

\* A whole artifact has as many files as were copied.
LEMMA WholeInterval ==
    ASSUME NEW n \in Nat, NEW m \in Nat, 1 .. n = 1 .. m
    PROVE  n = m
  <1>1. Cardinality(1 .. n) = n /\ Cardinality(1 .. m) = m
    BY FS_Interval
  <1> QED
    BY <1>1

\* The files on an instance are numbered, but for one that was cut short.
LEMMA RemoteFilesType ==
    ASSUME TypeInv, NEW t \in Tasks
    PROVE  /\ RemoteFiles(t) \in SUBSET (-1 .. FileCount)
           /\ IsFiniteSet(RemoteFiles(t))
           /\ Dash \notin RemoteFiles(t)
           /\ KindOf[t] = "upload" /\ RemoteFiles(t) = Files => copied[t] = FileCount /\ ~torn[t]
  <1> USE TasksAssumption
  <1>1. copied[t] \in 0 .. FileCount /\ torn[t] \in BOOLEAN
    BY DEF TypeInv
  <1>2. RemoteFiles(t) \in SUBSET (-1 .. FileCount) /\ Dash \notin RemoteFiles(t)
    BY <1>1 DEF RemoteFiles, Files, Torn, Dash
  <1>3. IsFiniteSet(-1 .. FileCount)
    BY FS_Interval
  <1>4. IsFiniteSet(RemoteFiles(t))
    BY <1>2, <1>3, FS_Subset
  <1>5. ASSUME KindOf[t] = "upload", RemoteFiles(t) = Files
        PROVE  copied[t] = FileCount /\ ~torn[t]
    <2>1. -1 \notin Files
      BY DEF Files
    <2>2. ~torn[t]
      BY <1>1, <1>5, <2>1 DEF RemoteFiles, Torn
    <2>3. 1 .. copied[t] = 1 .. FileCount
      BY <1>5, <2>2 DEF RemoteFiles, Files
    <2> QED
      BY <1>1, <2>2, <2>3, WholeInterval
  <1> QED
    BY <1>2, <1>4, <1>5

-----------------------------------------------------------------------------
(* What a session that ended tells *)

\* An answer that is no error comes of an exit code or of io.EOF, of an exit code
\* other than 0 only where a step looks at it; and but for io.EOF it is the answer.
LEMMA Answers ==
    ASSUME NEW t \in Tasks, NEW ending \in Endings, NEW out \in Outputs(t, ending),
           ~Fails(t, ending, RunInSession(ending, out))
    PROVE  /\ RunInSession(ending, out).out = out
           /\ ending \in {"exit", "fail", "eof"}
           /\ ending # "eof" => out \in Output(t)
           /\ RunInSession(ending, out).exit = IF ending = "fail" THEN 1 ELSE 0
           /\ ending = "fail" => \/ step[t] \in {"isWindows", "dirExists"}
                                 \/ step[t] = "findFiles" /\ host.scripts = {}
  <1>1. CASE ending \in {"exit", "eof", "fail"}
    BY <1>1 DEF RunInSession, Fails, LogAndCheckErrors, FindFilesFails, Outputs
  <1>2. CASE ending \in {"write", "missing", "other"}
    BY <1>2 DEF RunInSession, Fails, LogAndCheckErrors, FindFilesFails
  <1> QED
    BY <1>1, <1>2 DEF Endings

\* Only output that io.EOF cut short makes a step panic.
LEMMA PanicIsEof ==
    ASSUME TypeInv, NEW t \in Tasks, NEW ending \in Endings, NEW out \in Outputs(t, ending),
           ~Fails(t, ending, RunInSession(ending, out)), Panics(t, RunInSession(ending, out))
    PROVE  ending = "eof"
  <1> SUFFICES ASSUME ending # "eof" PROVE FALSE
    OBVIOUS
  <1>1. out = Cut /\ out \in Output(t) /\ step[t] \in {"sizeOf", "sizeInBytes", "remoteSum"}
    BY Answers DEF Panics, Indexable
  <1>2. CASE step[t] = "sizeOf"
    BY <1>1, <1>2, OutputAssumption DEF Output
  <1>3. CASE step[t] = "sizeInBytes"
    BY <1>1, <1>3, OutputAssumption, TasksAssumption DEF Output
  <1>4. CASE step[t] = "remoteSum"
    <2>1. out \in SUBSET (-1 .. FileCount)
      BY <1>1, <1>4, RemoteFilesType, TasksAssumption DEF Output, Dash
    <2> QED
      BY <1>1, <2>1, OutputAssumption
  <1> QED
    BY <1>1, <1>2, <1>3, <1>4

\* The checksum of the instance is that of its files, unless it was cut.
LEMMA SumsAreTrue ==
    ASSUME TypeInv, NEW t \in Tasks, NEW ending \in Endings, NEW out \in Outputs(t, ending),
           ~Fails(t, ending, RunInSession(ending, out)), ~Panics(t, RunInSession(ending, out)),
           step[t] = "remoteSum"
    PROVE  /\ ConvertShasToMap(RunInSession(ending, out).out) \in SUBSET (-1 .. FileCount)
           /\ ending # "eof" => ConvertShasToMap(RunInSession(ending, out).out) = RemoteFiles(t)
  <1> USE TasksAssumption
  <1>1. /\ RunInSession(ending, out).out = out /\ (ending # "eof" => out \in Output(t))
        /\ out # Cut
    BY Answers DEF Panics, Indexable, Fails
  <1>2. Output(t) = {IF RemoteFiles(t) = {} THEN {Dash} ELSE RemoteFiles(t)}
    BY DEF Output
  <1>3. out \in Output(t) => /\ ConvertShasToMap(out) = RemoteFiles(t)
                             /\ ConvertShasToMap(out) \in SUBSET (-1 .. FileCount)
    BY <1>2, RemoteFilesType DEF ConvertShasToMap
  <1>4. ASSUME out \notin Output(t) PROVE ConvertShasToMap(out) \in SUBSET (-1 .. FileCount)
    <2>1. PICK n \in 0 .. FileCount : out = 1 .. n
      BY <1>1, <1>4 DEF Outputs
    <2> QED
      BY <2>1 DEF ConvertShasToMap
  <1> QED
    BY <1>1, <1>3, <1>4

\* The size is a number.
LEMMA SizeType ==
    ASSUME NEW t \in Tasks, NEW ending \in Endings, NEW out \in Outputs(t, ending),
           ~Fails(t, ending, RunInSession(ending, out)), ~Panics(t, RunInSession(ending, out)),
           step[t] = "sizeInBytes"
    PROVE  SizeInBytes(RunInSession(ending, out)) \in Nat
  <1>1. RunInSession(ending, out).out = out /\ out # Cut
    BY Answers DEF Panics, Indexable, Fails
  <1>2. out \in Nat
    BY <1>1, TasksAssumption DEF Outputs, Output
  <1> QED
    BY <1>1, <1>2 DEF SizeInBytes

\* What is found of a host is what it is, unless io.EOF cut the answer; a directory
\* that is there is never overlooked.
LEMMA HostAnswers ==
    ASSUME TypeInv, NEW t \in Tasks, NEW ending \in Endings, Ending(t, ending),
           link[t] \in {"up", "closed", "unanswered"}, NEW out \in Outputs(t, ending),
           ~Fails(t, ending, RunInSession(ending, out))
    PROVE  LET a == RunInSession(ending, out)
           IN  /\ step[t] = "isWindows" => /\ IsWindows(a) \in BOOLEAN
                                           /\ ending # "eof" => IsWindows(a) = host.windows
               /\ step[t] = "findFiles" => /\ FindFiles(a) \in Scripts
                                           /\ ending # "eof" => FindFiles(a) = host.scripts
               /\ step[t] = "dirExists" => /\ DirectoryExists(a) \in BOOLEAN
                                           /\ ending # "eof" => DirectoryExists(a) = host.dir
                                           /\ host.dir => DirectoryExists(a)
  <1> DEFINE a == RunInSession(ending, out)
  <1>1. /\ a.out = out /\ ending \in {"exit", "fail", "eof"} /\ (ending # "eof" => out \in Output(t))
        /\ a.exit = IF ending = "fail" THEN 1 ELSE 0
        /\ ending = "fail" => \/ step[t] \in {"isWindows", "dirExists"}
                              \/ step[t] = "findFiles" /\ host.scripts = {}
    BY Answers
  <1> HIDE DEF a
  <1>2. /\ host.windows \in BOOLEAN /\ host.dir \in BOOLEAN
        /\ host.scripts \in Scripts /\ host.scripts # Cut
    <2>1. host \in HostKinds
      BY DEF TypeInv
    <2>2. host.windows \in BOOLEAN /\ host.dir \in BOOLEAN
      BY <2>1, OutputAssumption
    <2>3. host.scripts \in {h.scripts : h \in HostKinds}
      BY <2>1
    <2>4. host.scripts # Cut
      BY <2>3, OutputAssumption
    <2> QED
      BY <2>2, <2>3, <2>4 DEF Scripts
  <1>3. ASSUME step[t] = "isWindows"
        PROVE  IsWindows(a) \in BOOLEAN /\ (ending # "eof" => IsWindows(a) = host.windows)
    BY <1>1, <1>2, <1>3 DEF IsWindows, Output
  <1>4. ASSUME step[t] = "findFiles"
        PROVE  FindFiles(a) \in Scripts /\ (ending # "eof" => FindFiles(a) = host.scripts)
    <2>1. out \in {host.scripts, Cut}
      BY <1>4 DEF Outputs, Output
    <2>2. ending # "eof" => out = host.scripts
      BY <1>1, <1>4 DEF Output
    <2> QED
      BY <1>1, <1>2, <1>4, <2>1, <2>2 DEF FindFiles, Scripts
  <1>5. ASSUME step[t] = "dirExists"
        PROVE  /\ DirectoryExists(a) \in BOOLEAN /\ (ending # "eof" => DirectoryExists(a) = host.dir)
               /\ host.dir => DirectoryExists(a)
    <2>1. ending \in {"eof", IF host.dir THEN "exit" ELSE "fail"}
      BY <1>1, <1>5 DEF Ending, Streaming
    <2> QED
      BY <1>1, <1>2, <2>1 DEF DirectoryExists
  <1> QED
    BY <1>3, <1>4, <1>5 DEF a

-----------------------------------------------------------------------------
(* Steps *)

\* A task that goes on is at the next step of its kind, and no other has moved.
LEMMA GoesOn ==
    ASSUME TypeInv, NEW t \in Tasks, GoOn(t), step[t] \notin {"done", "failed"}
    PROVE  /\ step' \in [Tasks -> AllSteps]
           /\ \A u \in Tasks : step'[u] \in TaskSteps(KindOf[u])
           /\ step'[t] = NextStep(KindOf[t], step[t])
           /\ step'[t] \notin {"connect", "failed"}
           /\ \A u \in Tasks \ {t} : step'[u] = step[u]
  <1>1. KindOf[t] \in {"download", "upload", "inspect"} /\ step[t] \in TaskSteps(KindOf[t])
    BY TasksAssumption DEF TypeInv
  <1>2. NextStep(KindOf[t], step[t]) \in TaskSteps(KindOf[t]) \ {"connect", "failed"}
    BY <1>1, NextSteps
  <1>3. NextStep(KindOf[t], step[t]) \in AllSteps
    BY <1>1, <1>2 DEF AllSteps
  <1>4. step \in [Tasks -> AllSteps]
    BY DEF TypeInv
  <1>5. step' = [step EXCEPT ![t] = NextStep(KindOf[t], step[t])]
    BY DEF GoOn
  <1>6. \A u \in Tasks : step[u] \in TaskSteps(KindOf[u])
    BY DEF TypeInv
  <1> QED
    BY <1>2, <1>3, <1>4, <1>5, <1>6

LEMMA GivesUp ==
    ASSUME TypeInv, NEW t \in Tasks, GiveUp(t)
    PROVE  /\ step' \in [Tasks -> AllSteps]
           /\ \A u \in Tasks : step'[u] \in TaskSteps(KindOf[u])
           /\ step'[t] = "failed"
           /\ \A u \in Tasks \ {t} : step'[u] = step[u]
  <1>1. \A u \in Tasks : "failed" \in TaskSteps(KindOf[u]) /\ step[u] \in TaskSteps(KindOf[u])
    BY DEF TypeInv, TaskSteps
  <1>2. step \in [Tasks -> AllSteps] /\ "failed" \in AllSteps
    BY DEF TypeInv, AllSteps, TaskSteps
  <1>3. step' = [step EXCEPT ![t] = "failed"]
    BY DEF GiveUp
  <1> QED
    BY <1>1, <1>2, <1>3

\* What an inspection has taken from the answer of a session.
Learns(t, ending) ==
    /\ said' \in [windows : BOOLEAN, dir : BOOLEAN, scripts : Scripts]
    /\ step[t] \notin {"isWindows", "findFiles", "dirExists"} => said' = said
    /\ step[t] = "isWindows" /\ ending # "eof" => said'.windows = host.windows
    /\ step[t] = "findFiles" => said'.windows = said.windows
    /\ step[t] = "findFiles" /\ ending # "eof" => said'.scripts = host.scripts
    /\ step[t] = "dirExists" => /\ said'.windows = said.windows /\ said'.scripts = said.scripts
                                /\ host.dir => said'.dir
    /\ step[t] = "dirExists" /\ ending # "eof" => said'.dir = host.dir

\* The three ways the function of the remote runner comes back: with an error, not at
\* all, or with an answer.
Comes(t, ending) ==
    \/ GiveUp(t) /\ UNCHANGED <<total, sums, said, crashed>>
    \/ ending = "eof" /\ crashed' = TRUE /\ UNCHANGED <<step, total, sums, said>>
    \/ /\ GoOn(t) /\ UNCHANGED crashed
       /\ total' \in [Tasks -> Nat]
       /\ sums' \in [Tasks -> SUBSET (-1 .. FileCount)]
       /\ step[t] # "remoteSum" => sums' = sums
       /\ step[t] = "remoteSum" =>
             /\ \A u \in Tasks \ {t} : sums'[u] = sums[u]
             /\ ending # "eof" => sums'[t] = RemoteFiles(t)
       /\ Learns(t, ending)

LEMMA SessionEnds ==
    ASSUME TypeInv, NEW t \in Tasks, NEW ending \in Endings, EndSession(t, ending)
    PROVE  /\ step[t] \in RemoteSteps
           /\ UNCHANGED <<conn, copied, ioErr, recorded, host>>
           /\ link' = [link EXCEPT ![t] = "none"]
           /\ torn' = torn \/ (step[t] = "stream" /\ torn' = [torn EXCEPT ![t] = TRUE])
           /\ deleted' = deleted \/ (step[t] = "delete" /\ deleted' = [deleted EXCEPT ![t] = TRUE])
           /\ eofs' = IF ending = "eof" THEN [eofs EXCEPT ![t] = @ \cup {step[t]}] ELSE eofs
           /\ Comes(t, ending)
  <1>1. /\ step[t] \in RemoteSteps /\ link[t] \in {"up", "closed", "unanswered"} /\ Ending(t, ending)
        /\ UNCHANGED <<conn, copied, ioErr, recorded, host>>
        /\ eofs' = IF ending = "eof" THEN [eofs EXCEPT ![t] = @ \cup {step[t]}] ELSE eofs
    BY DEF EndSession, TypeInv
  <1>2. /\ link' = [link EXCEPT ![t] = "none"]
        /\ torn' = torn \/ (step[t] = "stream" /\ torn' = [torn EXCEPT ![t] = TRUE])
        /\ deleted' = deleted \/ (step[t] = "delete" /\ deleted' = [deleted EXCEPT ![t] = TRUE])
    BY DEF EndSession, CloseSession, RemoteEffect, Streaming
  <1>3. PICK out \in Outputs(t, ending) :
           LET a == RunInSession(ending, out)
           IN  \/ Fails(t, ending, a) /\ GiveUp(t) /\ UNCHANGED <<total, sums, said, crashed>>
               \/ ~Fails(t, ending, a) /\ Panics(t, a) /\ crashed' = TRUE
                      /\ UNCHANGED <<step, total, sums, said>>
               \/ ~Fails(t, ending, a) /\ ~Panics(t, a) /\ Take(t, a) /\ GoOn(t)
                      /\ UNCHANGED crashed
    BY DEF EndSession
  <1> DEFINE a == RunInSession(ending, out)
  <1>4. CASE Fails(t, ending, a) /\ GiveUp(t) /\ UNCHANGED <<total, sums, said, crashed>>
    BY <1>1, <1>2, <1>4 DEF Comes
  <1>5. CASE ~Fails(t, ending, a) /\ Panics(t, a) /\ crashed' = TRUE
                /\ UNCHANGED <<step, total, sums, said>>
    <2>1. ending = "eof"
      BY <1>5, PanicIsEof
    <2> QED
      BY <1>1, <1>2, <1>5, <2>1 DEF Comes
  <1>6. CASE ~Fails(t, ending, a) /\ ~Panics(t, a) /\ Take(t, a) /\ GoOn(t) /\ UNCHANGED crashed
    <2>1. total' \in [Tasks -> Nat]
      <3>1. step[t] = "sizeInBytes" => SizeInBytes(a) \in Nat
        BY <1>6, SizeType
      <3>2. total' = IF step[t] = "sizeInBytes" THEN [total EXCEPT ![t] = SizeInBytes(a)] ELSE total
        BY <1>6 DEF Take
      <3> HIDE DEF a
      <3> QED
        BY <3>1, <3>2 DEF TypeInv
    <2>2. /\ sums' \in [Tasks -> SUBSET (-1 .. FileCount)]
          /\ step[t] # "remoteSum" => sums' = sums
          /\ step[t] = "remoteSum" =>
                /\ \A u \in Tasks \ {t} : sums'[u] = sums[u]
                /\ ending # "eof" => sums'[t] = RemoteFiles(t)
      <3>1. step[t] = "remoteSum" =>
               /\ ConvertShasToMap(a.out) \in SUBSET (-1 .. FileCount)
               /\ ending # "eof" => ConvertShasToMap(a.out) = RemoteFiles(t)
        BY <1>6, SumsAreTrue
      <3>2. sums' = IF step[t] = "remoteSum" THEN [sums EXCEPT ![t] = ConvertShasToMap(a.out)]
                    ELSE sums
        BY <1>6 DEF Take
      <3>3. sums \in [Tasks -> SUBSET (-1 .. FileCount)]
        BY DEF TypeInv
      <3> HIDE DEF a
      <3> QED
        BY <3>1, <3>2, <3>3
    <2>3. Learns(t, ending)
      <3>1. /\ step[t] = "isWindows" => /\ IsWindows(a) \in BOOLEAN
                                        /\ ending # "eof" => IsWindows(a) = host.windows
            /\ step[t] = "findFiles" => /\ FindFiles(a) \in Scripts
                                        /\ ending # "eof" => FindFiles(a) = host.scripts
            /\ step[t] = "dirExists" => /\ DirectoryExists(a) \in BOOLEAN
                                        /\ ending # "eof" => DirectoryExists(a) = host.dir
                                        /\ host.dir => DirectoryExists(a)
        BY <1>1, <1>6, HostAnswers
      <3>2. said' = CASE step[t] = "isWindows" -> [said EXCEPT !.windows = IsWindows(a)]
                      [] step[t] = "findFiles" -> [said EXCEPT !.scripts = FindFiles(a)]
                      [] step[t] = "dirExists" -> [said EXCEPT !.dir = DirectoryExists(a)]
                      [] OTHER -> said
        BY <1>6 DEF Take
      <3>3. said \in [windows : BOOLEAN, dir : BOOLEAN, scripts : Scripts]
        BY DEF TypeInv
      <3> HIDE DEF a
      <3>4. CASE step[t] = "isWindows"
        BY <3>1, <3>2, <3>3, <3>4 DEF Learns
      <3>5. CASE step[t] = "findFiles"
        BY <3>1, <3>2, <3>3, <3>5 DEF Learns
      <3>6. CASE step[t] = "dirExists"
        BY <3>1, <3>2, <3>3, <3>6 DEF Learns
      <3>7. CASE step[t] \notin {"isWindows", "findFiles", "dirExists"}
        BY <3>2, <3>3, <3>7 DEF Learns
      <3> QED
        BY <3>4, <3>5, <3>6, <3>7
    <2> QED
      BY <1>1, <1>2, <1>6, <2>1, <2>2, <2>3 DEF Comes
  <1> QED
    BY <1>3, <1>4, <1>5, <1>6

-----------------------------------------------------------------------------
(* The inductive invariant *)

LEMMA InitTypeInv == Init => TypeInv
  <1> SUFFICES ASSUME Init PROVE TypeInv
    OBVIOUS
  <1>1. \A t \in Tasks : "connect" \in TaskSteps(KindOf[t])
    BY DEF TaskSteps
  <1>2. "connect" \in AllSteps
    BY DEF AllSteps, TaskSteps
  <1>3. said \in [windows : BOOLEAN, dir : BOOLEAN, scripts : Scripts]
    BY DEF Init, Scripts
  <1>4. /\ turn \in Tasks /\ dialFunc \in BOOLEAN
        /\ have \in [Tasks -> {"unread", "yes", "no"}] /\ dial \in [Tasks -> BOOLEAN]
        /\ host \in HostKinds /\ crashed \in BOOLEAN
    BY DEF Init
  <1>5. step \in [Tasks -> AllSteps] /\ \A t \in Tasks : step[t] \in TaskSteps(KindOf[t])
    BY <1>1, <1>2 DEF Init
  <1>6. /\ link \in [Tasks -> {"none", "up", "closed", "unanswered"}]
        /\ copied \in [Tasks -> 0 .. FileCount] /\ total \in [Tasks -> Nat]
    BY TasksAssumption DEF Init
  <1>7. /\ torn \in [Tasks -> BOOLEAN] /\ ioErr \in [Tasks -> BOOLEAN]
        /\ recorded \in [Tasks -> BOOLEAN] /\ deleted \in [Tasks -> BOOLEAN]
    BY DEF Init
  <1>8. sums \in [Tasks -> SUBSET (-1 .. FileCount)] /\ eofs \in [Tasks -> SUBSET RemoteSteps]
    BY DEF Init
  <1> QED
    BY <1>3, <1>4, <1>5, <1>6, <1>7, <1>8 DEF TypeInv

\* Every step keeps the types.
LEMMA NextTypeInv == TypeInv /\ [Next]_vars => TypeInv'
  <1> SUFFICES ASSUME TypeInv, [Next]_vars PROVE TypeInv'
    OBVIOUS
  <1> USE TasksAssumption DEF conn, stream, results
  <1>1. ASSUME NEW t \in Tasks, ReadHaveDialer(t) PROVE TypeInv'
    <2>1. CASE have' = [have EXCEPT ![t] = IF dialFunc THEN "yes" ELSE "no"] /\ UNCHANGED step
      BY <1>1, <2>1 DEF ReadHaveDialer, TypeInv
    <2>2. CASE GiveUp(t) /\ UNCHANGED have
      BY <1>1, <2>2, GivesUp DEF ReadHaveDialer, TypeInv
    <2> QED
      BY <1>1, <2>1, <2>2 DEF ReadHaveDialer
  <1>2. ASSUME NEW t \in Tasks, CreateDialContextFunc(t) PROVE TypeInv'
    <2>1. GoOn(t) /\ step[t] \notin {"done", "failed"}
      BY <1>2 DEF CreateDialContextFunc
    <2>2. dialFunc' \in BOOLEAN /\ dial' \in [Tasks -> BOOLEAN]
          /\ have' \in [Tasks -> {"unread", "yes", "no"}]
      BY <1>2 DEF CreateDialContextFunc, TypeInv
    <2> QED
      BY <1>2, <2>1, <2>2, GoesOn DEF CreateDialContextFunc, TypeInv
  <1>3. ASSUME NEW t \in Tasks, LocalStepSucceeds(t) PROVE TypeInv'
    <2>1. GoOn(t) /\ step[t] \notin {"done", "failed"}
      BY <1>3 DEF LocalStepSucceeds, LocalSteps
    <2>2. total' \in [Tasks -> Nat]
      BY <1>3 DEF LocalStepSucceeds, TypeInv
    <2>3. recorded' \in [Tasks -> BOOLEAN]
      <3>1. \/ recorded' = recorded \/ recorded' = [recorded EXCEPT ![t] = TRUE]
        BY <1>3 DEF LocalStepSucceeds
      <3> QED
        BY <3>1 DEF TypeInv
    <2> QED
      BY <1>3, <2>1, <2>2, <2>3, GoesOn DEF LocalStepSucceeds, TypeInv
  <1>4. ASSUME NEW t \in Tasks, LocalStepFails(t) PROVE TypeInv'
    BY <1>4, GivesUp DEF LocalStepFails, TypeInv
  <1>5. ASSUME NEW t \in Tasks, Dial(t) PROVE TypeInv'
    <2>1. CASE dial[t] /\ GiveUp(t) /\ UNCHANGED <<link, watched, crashed>>
      BY <1>5, <2>1, GivesUp DEF Dial, TypeInv
    <2>2. CASE /\ crashed' = ~dial[t]
               /\ link' = [link EXCEPT ![t] = "up"]
               /\ UNCHANGED step
      BY <1>5, <2>2 DEF Dial, TypeInv
    <2> QED
      BY <1>5, <2>1, <2>2 DEF Dial
  <1>6. ASSUME NEW t \in Tasks, CopyFile(t) PROVE TypeInv'
    <2>1. copied' \in [Tasks -> 0 .. FileCount]
      BY <1>6 DEF CopyFile, Streaming, TypeInv
    <2> QED
      BY <1>6, <2>1 DEF CopyFile, TypeInv
  <1>7. ASSUME NEW t \in Tasks, WriteFails(t) \/ ReadFails(t) \/ FallSilent(t) PROVE TypeInv'
    <2>1. CASE WriteFails(t)
      BY <2>1 DEF WriteFails, TypeInv
    <2>2. CASE ReadFails(t)
      BY <2>2 DEF ReadFails, TypeInv
    <2>3. CASE FallSilent(t)
      BY <2>3 DEF FallSilent, stream, results, conn, TypeInv
    <2> QED
      BY <1>7, <2>1, <2>2, <2>3
  <1>8. ASSUME NEW t \in Tasks, NEW ending \in Endings, EndSession(t, ending) PROVE TypeInv'
    <2>1. /\ step[t] \in RemoteSteps
          /\ UNCHANGED <<conn, copied, ioErr, recorded, host>>
          /\ link' = [link EXCEPT ![t] = "none"]
          /\ torn' = torn \/ (step[t] = "stream" /\ torn' = [torn EXCEPT ![t] = TRUE])
          /\ deleted' = deleted \/ (step[t] = "delete" /\ deleted' = [deleted EXCEPT ![t] = TRUE])
          /\ eofs' = IF ending = "eof" THEN [eofs EXCEPT ![t] = @ \cup {step[t]}] ELSE eofs
          /\ Comes(t, ending)
      BY <1>8, SessionEnds
    <2>2. /\ link' \in [Tasks -> {"none", "up", "closed", "unanswered"}]
          /\ torn' \in [Tasks -> BOOLEAN] /\ deleted' \in [Tasks -> BOOLEAN]
          /\ eofs' \in [Tasks -> SUBSET RemoteSteps]
      BY <2>1 DEF TypeInv
    <2>3. /\ step' \in [Tasks -> AllSteps]
          /\ \A u \in Tasks : step'[u] \in TaskSteps(KindOf[u])
      <3>1. CASE GiveUp(t)
        BY <3>1, GivesUp
      <3>2. CASE GoOn(t)
        BY <2>1, <3>2, GoesOn DEF RemoteSteps
      <3>3. CASE UNCHANGED step
        BY <3>3 DEF TypeInv
      <3> QED
        BY <2>1, <3>1, <3>2, <3>3 DEF Comes
    <2>4. /\ total' \in [Tasks -> Nat] /\ sums' \in [Tasks -> SUBSET (-1 .. FileCount)]
          /\ said' \in [windows : BOOLEAN, dir : BOOLEAN, scripts : Scripts]
          /\ crashed' \in BOOLEAN
      BY <2>1 DEF TypeInv, Comes, Learns
    <2> QED
      BY <2>1, <2>2, <2>3, <2>4 DEF TypeInv
  <1>9. CASE KeepAliveLoop
    BY <1>9 DEF KeepAliveLoop, CheckTerminate, Reply, Sleep, TypeInv
  <1>10. CASE UNCHANGED vars
    BY <1>10 DEF vars, TypeInv
  <1>11. turn \in Tasks
    BY DEF TypeInv
  <1> QED
    BY <1>1, <1>2, <1>3, <1>4, <1>5, <1>6, <1>7, <1>8, <1>9, <1>10, <1>11
       DEF Next, Connect, TaskStep

\* A dialFunc that is there stays, and a task that goes on has one.
LEMMA NextDialInv == TypeInv /\ DialInv /\ [Next]_vars => DialInv'
  <1> SUFFICES ASSUME TypeInv, DialInv, [Next]_vars PROVE DialInv'
    OBVIOUS
  <1> USE DEF conn, stream, results
  <1>1. ASSUME UNCHANGED <<dialFunc, have, dial>>,
               \A u \in Tasks : step'[u] = step[u] \/ step'[u] = "failed"
                                \/ step[u] \notin {"connect", "failed"}
        PROVE  DialInv'
    BY <1>1 DEF DialInv
  <1>2. ASSUME NEW t \in Tasks, ReadHaveDialer(t) PROVE DialInv'
    <2>1. CASE have' = [have EXCEPT ![t] = IF dialFunc THEN "yes" ELSE "no"] /\ UNCHANGED step
      BY <1>2, <2>1 DEF ReadHaveDialer, TypeInv, DialInv
    <2>2. CASE GiveUp(t) /\ UNCHANGED have
      BY <1>1, <1>2, <2>2, GivesUp DEF ReadHaveDialer
    <2> QED
      BY <1>2, <2>1, <2>2 DEF ReadHaveDialer
  <1>3. ASSUME NEW t \in Tasks, CreateDialContextFunc(t) PROVE DialInv'
    <2>1. have[t] \in {"yes", "no"}
      BY <1>3 DEF CreateDialContextFunc, TypeInv
    <2>2. dialFunc' = TRUE /\ dial' = [dial EXCEPT ![t] = TRUE]
      BY <1>3, <2>1 DEF CreateDialContextFunc, DialInv
    <2>3. \A u \in Tasks \ {t} : step'[u] = step[u]
      BY <1>3, GoesOn DEF CreateDialContextFunc
    <2> QED
      BY <2>2, <2>3 DEF DialInv, TypeInv
  <1>4. ASSUME NEW t \in Tasks, LocalStepSucceeds(t) PROVE DialInv'
    BY <1>1, <1>4, GoesOn DEF LocalStepSucceeds, LocalSteps
  <1>5. ASSUME NEW t \in Tasks, LocalStepFails(t) PROVE DialInv'
    BY <1>1, <1>5, GivesUp DEF LocalStepFails
  <1>6. ASSUME NEW t \in Tasks, Dial(t) PROVE DialInv'
    BY <1>1, <1>6, GivesUp DEF Dial
  <1>7. ASSUME NEW t \in Tasks, CopyFile(t) \/ WriteFails(t) \/ ReadFails(t) \/ FallSilent(t)
        PROVE  DialInv'
    BY <1>1, <1>7 DEF CopyFile, WriteFails, ReadFails, FallSilent
  <1>8. ASSUME NEW t \in Tasks, NEW ending \in Endings, EndSession(t, ending) PROVE DialInv'
    <2>1. step[t] \in RemoteSteps /\ UNCHANGED conn /\ Comes(t, ending)
      BY <1>8, SessionEnds
    <2>2. GiveUp(t) \/ UNCHANGED step \/ GoOn(t)
      BY <2>1 DEF Comes
    <2>3. \A u \in Tasks \ {t} : step'[u] = step[u]
      BY <2>1, <2>2, GoesOn, GivesUp DEF RemoteSteps
    <2> QED
      BY <1>1, <2>1, <2>3 DEF RemoteSteps
  <1>9. CASE KeepAliveLoop
    BY <1>1, <1>9 DEF KeepAliveLoop, CheckTerminate, Reply, Sleep
  <1>10. CASE UNCHANGED vars
    BY <1>1, <1>10 DEF vars
  <1>11. turn \in Tasks
    BY DEF TypeInv
  <1> QED
    BY <1>2, <1>3, <1>4, <1>5, <1>6, <1>7, <1>8, <1>9, <1>10, <1>11 DEF Next, Connect, TaskStep

\* Every step keeps a download's account of what it has verified.
LEMMA NextDownloadInv == TypeInv /\ DownloadInv /\ [Next]_vars => DownloadInv'
  <1> SUFFICES ASSUME TypeInv, DownloadInv, [Next]_vars PROVE DownloadInv'
    OBVIOUS
  <1> USE DEF conn, stream, results
  <1>1. ASSUME UNCHANGED <<step, copied, torn, sums, recorded, eofs>> PROVE DownloadInv'
    BY <1>1 DEF DownloadInv, SumCut
  <1>2. ASSUME NEW t \in Tasks, GiveUp(t), UNCHANGED <<copied, torn, sums, recorded, eofs>>
        PROVE  DownloadInv'
    BY <1>2, GivesUp DEF DownloadInv, SumCut, AfterLocalSum
  <1>3. ASSUME NEW t \in Tasks, ReadHaveDialer(t) PROVE DownloadInv'
    BY <1>1, <1>2, <1>3 DEF ReadHaveDialer
  <1>4. ASSUME NEW t \in Tasks, CreateDialContextFunc(t) PROVE DownloadInv'
    <2>1. GoOn(t) /\ step[t] = "connect" /\ UNCHANGED <<copied, torn, sums, recorded, eofs>>
      BY <1>4 DEF CreateDialContextFunc
    <2>2. KindOf[t] = "download" => step'[t] = "createArtifact"
      BY <2>1, GoesOn DEF NextStep
    <2> QED
      BY <2>1, <2>2, GoesOn DEF DownloadInv, SumCut, AfterLocalSum
  <1>5. ASSUME NEW t \in Tasks, LocalStepSucceeds(t) PROVE DownloadInv'
    <2>1. /\ GoOn(t) /\ step[t] \in LocalSteps /\ UNCHANGED <<copied, torn, sums, eofs>>
          /\ step[t] = "localSum" => ~torn[t]
          /\ step[t] = "compare" => Match(LocalChecksum(t), sums[t])
      BY <1>5 DEF LocalStepSucceeds
    <2>2. /\ step'[t] = NextStep(KindOf[t], step[t])
          /\ \A u \in Tasks \ {t} : step'[u] = step[u]
      BY <2>1, GoesOn DEF LocalSteps
    <2>3. recorded' = recorded \/ recorded' = [recorded EXCEPT ![t] = TRUE]
      BY <1>5 DEF LocalStepSucceeds
    <2>4. \A u \in Tasks \ {t} : recorded'[u] = recorded[u]
      BY <2>3 DEF TypeInv
    <2> SUFFICES ASSUME KindOf[t] = "download"
                 PROVE  /\ step'[t] \in AfterLocalSum => ~torn[t]
                        /\ step'[t] = "compare" /\ ~SumCut(t) => sums[t] = Files
                        /\ step'[t] \in {"addChecksum", "delete", "done"} /\ ~SumCut(t) =>
                              copied[t] = FileCount
                        /\ step'[t] \in {"delete", "done"} => recorded'[t]
                        /\ recorded'[t] => /\ step'[t] \in {"delete", "done", "failed"} /\ ~torn[t]
                                           /\ SumCut(t) \/ copied[t] = FileCount
      BY <2>1, <2>2, <2>4 DEF DownloadInv, SumCut
    <2>5. step[t] \in {"createArtifact", "close", "localSum", "compare", "addChecksum"}
      BY <2>1 DEF TypeInv, TaskSteps, LocalSteps
    <2>6. step[t] # "addChecksum" => recorded' = recorded /\ ~recorded[t]
      BY <1>5, <2>5 DEF LocalStepSucceeds, DownloadInv
    <2>7. CASE step[t] \in {"createArtifact", "close", "localSum"}
      BY <2>1, <2>2, <2>6, <2>7 DEF NextStep, AfterLocalSum
    <2>8. CASE step[t] = "compare"
      <3>1. step'[t] = "addChecksum" /\ ~torn[t]
        BY <2>2, <2>8 DEF NextStep, DownloadInv, AfterLocalSum
      <3>2. ASSUME ~SumCut(t) PROVE copied[t] = FileCount
        <4>1. Match(1 .. copied[t], Files)
          BY <2>1, <2>8, <3>2 DEF LocalChecksum, DownloadInv
        <4>2. IsFiniteSet(Files)
          BY FS_Interval, TasksAssumption DEF Files
        <4>3. 1 .. copied[t] = 1 .. FileCount
          BY <4>1, <4>2, MatchIsEquality DEF Files
        <4>4. copied[t] \in Nat
          BY TasksAssumption DEF TypeInv
        <4> QED
          BY <4>3, <4>4, WholeInterval, TasksAssumption
      <3> QED
        BY <2>6, <2>8, <3>1, <3>2
    <2>9. CASE step[t] = "addChecksum"
      <3>1. step'[t] = "delete" /\ recorded' = [recorded EXCEPT ![t] = TRUE]
        BY <1>5, <2>2, <2>9 DEF NextStep, LocalStepSucceeds
      <3> QED
        BY <2>9, <3>1 DEF DownloadInv, AfterLocalSum, TypeInv
    <2> QED
      BY <2>5, <2>7, <2>8, <2>9
  <1>6. ASSUME NEW t \in Tasks, LocalStepFails(t) PROVE DownloadInv'
    BY <1>2, <1>6 DEF LocalStepFails
  <1>7. ASSUME NEW t \in Tasks, Dial(t) \/ FallSilent(t) PROVE DownloadInv'
    BY <1>1, <1>2, <1>7 DEF Dial, FallSilent
  <1>8. ASSUME NEW t \in Tasks, CopyFile(t) \/ WriteFails(t) \/ ReadFails(t) PROVE DownloadInv'
    <2>1. /\ UNCHANGED <<step, sums, recorded, eofs>> /\ step[t] = "stream"
          /\ \A u \in Tasks \ {t} : copied'[u] = copied[u] /\ torn'[u] = torn[u]
      BY <1>8 DEF CopyFile, WriteFails, ReadFails, Streaming, TypeInv
    <2> QED
      BY <2>1 DEF DownloadInv, SumCut, AfterLocalSum
  <1>9. ASSUME NEW t \in Tasks, NEW ending \in Endings, EndSession(t, ending) PROVE DownloadInv'
    <2>1. /\ step[t] \in RemoteSteps /\ UNCHANGED <<copied, recorded>>
          /\ torn' = torn \/ (step[t] = "stream" /\ torn' = [torn EXCEPT ![t] = TRUE])
          /\ eofs' = IF ending = "eof" THEN [eofs EXCEPT ![t] = @ \cup {step[t]}] ELSE eofs
          /\ Comes(t, ending)
      BY <1>9, SessionEnds
    <2>2. /\ \A u \in Tasks \ {t} : step'[u] = step[u]
          /\ step'[t] \in {"failed", step[t], NextStep(KindOf[t], step[t])}
      BY <2>1, GoesOn, GivesUp DEF Comes, RemoteSteps
    <2>3. /\ \A u \in Tasks \ {t} : torn'[u] = torn[u] /\ eofs'[u] = eofs[u] /\ sums'[u] = sums[u]
          /\ SumCut(t) => SumCut(t)'
          /\ step[t] = "remoteSum" /\ ending = "eof" => SumCut(t)'
          /\ step[t] # "stream" => torn' = torn
          /\ step[t] # "remoteSum" => sums' = sums
      BY <2>1 DEF Comes, TypeInv, SumCut
    <2> SUFFICES ASSUME KindOf[t] = "download"
                 PROVE  /\ step'[t] \in AfterLocalSum => ~torn'[t]
                        /\ step'[t] = "compare" /\ ~SumCut(t)' => sums'[t] = Files
                        /\ step'[t] \in {"addChecksum", "delete", "done"} /\ ~SumCut(t)' =>
                              copied[t] = FileCount
                        /\ step'[t] \in {"delete", "done"} => recorded[t]
                        /\ recorded[t] => /\ step'[t] \in {"delete", "done", "failed"} /\ ~torn'[t]
                                          /\ SumCut(t)' \/ copied[t] = FileCount
      BY <2>1, <2>2, <2>3 DEF DownloadInv, SumCut
    <2>4. step[t] \in {"sizeOf", "sizeInBytes", "stream", "remoteSum", "delete"}
      BY <2>1 DEF TypeInv, TaskSteps, RemoteSteps
    <2>5. CASE step[t] \in {"sizeOf", "sizeInBytes", "stream"}
      <3>1. step'[t] \in {"failed", "sizeOf", "sizeInBytes", "stream", "close"} /\ ~recorded[t]
        BY <2>2, <2>5 DEF NextStep, DownloadInv
      <3> QED
        BY <3>1 DEF AfterLocalSum
    <2>6. CASE step[t] = "remoteSum"
      <3>1. step'[t] \in {"failed", "remoteSum", "compare"} /\ ~recorded[t] /\ ~torn'[t]
        BY <2>2, <2>3, <2>6 DEF NextStep, DownloadInv, AfterLocalSum
      <3>2. ASSUME step'[t] = "compare", ~SumCut(t)' PROVE sums'[t] = Files
        <4>1. ending # "eof"
          BY <2>3, <2>6, <3>2
        <4>2. ~GiveUp(t) /\ step' # step
          BY <2>6, <3>2, GivesUp
        <4>3. sums'[t] = RemoteFiles(t)
          BY <2>1, <2>6, <4>1, <4>2 DEF Comes
        <4> QED
          BY <4>3 DEF RemoteFiles
      <3> QED
        BY <3>1, <3>2
    <2>7. CASE step[t] = "delete"
      <3>1. step'[t] \in {"failed", "delete", "done"} /\ recorded[t] /\ ~torn'[t]
        BY <2>2, <2>3, <2>7 DEF NextStep, DownloadInv, AfterLocalSum
      <3>2. SumCut(t)' \/ copied[t] = FileCount
        BY <2>3, <2>7 DEF DownloadInv
      <3> QED
        BY <3>1, <3>2
    <2> QED
      BY <2>4, <2>5, <2>6, <2>7
  <1>10. CASE KeepAliveLoop
    BY <1>1, <1>10 DEF KeepAliveLoop, CheckTerminate, Reply, Sleep
  <1>11. CASE UNCHANGED vars
    BY <1>1, <1>11 DEF vars
  <1>12. turn \in Tasks
    BY DEF TypeInv
  <1> QED
    BY <1>3, <1>4, <1>5, <1>6, <1>7, <1>8, <1>9, <1>10, <1>11, <1>12 DEF Next, Connect, TaskStep

\* Every step keeps an upload's account of what it has verified.
LEMMA NextUploadInv == TypeInv /\ UploadInv /\ [Next]_vars => UploadInv'
  <1> SUFFICES ASSUME TypeInv, UploadInv, [Next]_vars PROVE UploadInv'
    OBVIOUS
  <1> USE DEF conn, stream, results
  <1>1. ASSUME UNCHANGED <<step, copied, torn, sums, recorded, eofs>> PROVE UploadInv'
    BY <1>1 DEF UploadInv, SumCut, RemoteFiles
  <1>2. ASSUME NEW t \in Tasks, GiveUp(t), UNCHANGED <<copied, torn, sums, recorded, eofs>>
        PROVE  UploadInv'
    BY <1>2, GivesUp DEF UploadInv, SumCut, RemoteFiles
  <1>3. ASSUME NEW t \in Tasks, ReadHaveDialer(t) PROVE UploadInv'
    BY <1>1, <1>2, <1>3 DEF ReadHaveDialer
  <1>4. ASSUME NEW t \in Tasks, CreateDialContextFunc(t) PROVE UploadInv'
    <2>1. GoOn(t) /\ step[t] = "connect" /\ UNCHANGED <<copied, torn, sums, recorded, eofs>>
      BY <1>4 DEF CreateDialContextFunc
    <2>2. KindOf[t] = "upload" => step'[t] = "readArtifact"
      BY <2>1, GoesOn DEF NextStep
    <2> QED
      BY <2>1, <2>2, GoesOn DEF UploadInv, SumCut, RemoteFiles
  <1>5. ASSUME NEW t \in Tasks, LocalStepSucceeds(t) PROVE UploadInv'
    <2>1. /\ GoOn(t) /\ step[t] \in LocalSteps /\ UNCHANGED <<copied, torn, sums, eofs>>
          /\ step[t] = "compare" => Match(LocalChecksum(t), sums[t]) /\ recorded' = recorded
      BY <1>5 DEF LocalStepSucceeds
    <2>2. /\ step'[t] = NextStep(KindOf[t], step[t])
          /\ \A u \in Tasks \ {t} : step'[u] = step[u]
      BY <2>1, GoesOn DEF LocalSteps
    <2>3. \A u \in Tasks \ {t} : recorded'[u] = recorded[u]
      BY <1>5 DEF LocalStepSucceeds, TypeInv
    <2> SUFFICES ASSUME KindOf[t] = "upload"
                 PROVE  /\ step'[t] = "compare" /\ ~SumCut(t) => sums[t] = RemoteFiles(t)
                        /\ step'[t] = "done" /\ recorded'[t] /\ ~SumCut(t) =>
                              copied[t] = FileCount /\ ~torn[t]
      BY <2>1, <2>2, <2>3 DEF UploadInv, SumCut, RemoteFiles
    <2>4. step[t] \in {"readArtifact", "fetchChecksum", "compare"}
      BY <2>1 DEF TypeInv, TaskSteps, LocalSteps
    <2>5. CASE step[t] \in {"readArtifact", "fetchChecksum"}
      BY <2>2, <2>5 DEF NextStep
    <2>6. CASE step[t] = "compare"
      <3>1. step'[t] = "done"
        BY <2>2, <2>6 DEF NextStep
      <3>2. ASSUME recorded'[t], ~SumCut(t) PROVE copied[t] = FileCount /\ ~torn[t]
        <4>1. Match(Files, RemoteFiles(t))
          BY <2>1, <2>6, <3>2 DEF LocalChecksum, UploadInv
        <4>2. RemoteFiles(t) = Files
          BY <4>1, MatchIsEquality, RemoteFilesType
        <4> QED
          BY <4>2, RemoteFilesType
      <3> QED
        BY <3>1, <3>2
    <2> QED
      BY <2>4, <2>5, <2>6
  <1>6. ASSUME NEW t \in Tasks, LocalStepFails(t) PROVE UploadInv'
    BY <1>2, <1>6 DEF LocalStepFails
  <1>7. ASSUME NEW t \in Tasks, Dial(t) \/ FallSilent(t) PROVE UploadInv'
    BY <1>1, <1>2, <1>7 DEF Dial, FallSilent
  <1>8. ASSUME NEW t \in Tasks, CopyFile(t) \/ WriteFails(t) \/ ReadFails(t) PROVE UploadInv'
    <2>1. /\ UNCHANGED <<step, sums, recorded, eofs>> /\ step[t] = "stream"
          /\ \A u \in Tasks \ {t} : copied'[u] = copied[u] /\ torn'[u] = torn[u]
      BY <1>8 DEF CopyFile, WriteFails, ReadFails, Streaming, TypeInv
    <2> QED
      BY <2>1 DEF UploadInv, SumCut, RemoteFiles
  <1>9. ASSUME NEW t \in Tasks, NEW ending \in Endings, EndSession(t, ending) PROVE UploadInv'
    <2>1. /\ step[t] \in RemoteSteps /\ UNCHANGED <<copied, recorded>>
          /\ torn' = torn \/ (step[t] = "stream" /\ torn' = [torn EXCEPT ![t] = TRUE])
          /\ eofs' = IF ending = "eof" THEN [eofs EXCEPT ![t] = @ \cup {step[t]}] ELSE eofs
          /\ Comes(t, ending)
      BY <1>9, SessionEnds
    <2>2. /\ \A u \in Tasks \ {t} : step'[u] = step[u]
          /\ step'[t] \in {"failed", step[t], NextStep(KindOf[t], step[t])}
      BY <2>1, GoesOn, GivesUp DEF Comes, RemoteSteps
    <2>3. /\ \A u \in Tasks \ {t} : torn'[u] = torn[u] /\ eofs'[u] = eofs[u] /\ sums'[u] = sums[u]
          /\ step[t] = "remoteSum" /\ ending = "eof" => SumCut(t)'
          /\ step[t] # "stream" => torn' = torn
      BY <2>1 DEF Comes, TypeInv, SumCut
    <2> SUFFICES ASSUME KindOf[t] = "upload"
                 PROVE  /\ step'[t] = "compare" /\ ~SumCut(t)' => sums'[t] = RemoteFiles(t)'
                        /\ step'[t] # "done"
      BY <2>1, <2>2, <2>3 DEF UploadInv, SumCut, RemoteFiles
    <2>4. step[t] \in {"mkdir", "stream", "remoteSum"}
      BY <2>1 DEF TypeInv, TaskSteps, RemoteSteps
    <2>5. CASE step[t] \in {"mkdir", "stream"}
      BY <2>2, <2>5 DEF NextStep
    <2>6. CASE step[t] = "remoteSum"
      <3>1. step'[t] \in {"failed", "remoteSum", "compare"}
        BY <2>2, <2>6 DEF NextStep
      <3>2. ASSUME step'[t] = "compare", ~SumCut(t)' PROVE sums'[t] = RemoteFiles(t)'
        <4>1. ending # "eof"
          BY <2>3, <2>6, <3>2
        <4>2. ~GiveUp(t) /\ step' # step
          BY <2>6, <3>2, GivesUp
        <4>3. sums'[t] = RemoteFiles(t)
          BY <2>1, <2>6, <4>1, <4>2 DEF Comes
        <4> QED
          BY <2>1, <2>3, <2>6, <4>3 DEF RemoteFiles
      <3> QED
        BY <3>1, <3>2
    <2> QED
      BY <2>4, <2>5, <2>6
  <1>10. CASE KeepAliveLoop
    BY <1>1, <1>10 DEF KeepAliveLoop, CheckTerminate, Reply, Sleep
  <1>11. CASE UNCHANGED vars
    BY <1>1, <1>11 DEF vars
  <1>12. turn \in Tasks
    BY DEF TypeInv
  <1> QED
    BY <1>3, <1>4, <1>5, <1>6, <1>7, <1>8, <1>9, <1>10, <1>11, <1>12 DEF Next, Connect, TaskStep

\* The artifact is deleted on the instance only once its checksum is recorded.
LEMMA NextDeletedInv == TypeInv /\ DownloadInv /\ DeletedInv /\ [Next]_vars => DeletedInv'
  <1> SUFFICES ASSUME TypeInv, DownloadInv, DeletedInv, [Next]_vars PROVE DeletedInv'
    OBVIOUS
  <1> USE DEF conn, stream, results
  <1>1. ASSUME UNCHANGED <<recorded, deleted>> PROVE DeletedInv'
    BY <1>1 DEF DeletedInv
  <1>2. ASSUME NEW t \in Tasks,
               \/ Connect(t) \/ LocalStepFails(t) \/ Dial(t)
               \/ CopyFile(t) \/ WriteFails(t) \/ ReadFails(t) \/ FallSilent(t)
        PROVE  DeletedInv'
    BY <1>1, <1>2 DEF Connect, ReadHaveDialer, CreateDialContextFunc, LocalStepFails, Dial, CopyFile,
       WriteFails, ReadFails, FallSilent
  <1>3. ASSUME NEW t \in Tasks, LocalStepSucceeds(t) PROVE DeletedInv'
    <2>1. UNCHANGED deleted /\ (recorded' = recorded \/ recorded' = [recorded EXCEPT ![t] = TRUE])
      BY <1>3 DEF LocalStepSucceeds
    <2> QED
      BY <2>1 DEF DeletedInv, TypeInv
  <1>4. ASSUME NEW t \in Tasks, NEW ending \in Endings, EndSession(t, ending) PROVE DeletedInv'
    <2>1. /\ UNCHANGED recorded
          /\ deleted' = deleted \/ (step[t] = "delete" /\ deleted' = [deleted EXCEPT ![t] = TRUE])
      BY <1>4, SessionEnds
    <2>2. step[t] = "delete" => recorded[t]
      <3>1. step[t] = "delete" => KindOf[t] = "download"
        BY TasksAssumption DEF TypeInv, TaskSteps
      <3> QED
        BY <3>1 DEF DownloadInv
    <2> QED
      BY <2>1, <2>2 DEF DeletedInv, TypeInv
  <1>5. CASE KeepAliveLoop
    BY <1>1, <1>5 DEF KeepAliveLoop, CheckTerminate, Reply, Sleep
  <1>6. CASE UNCHANGED vars
    BY <1>1, <1>6 DEF vars
  <1>7. turn \in Tasks
    BY DEF TypeInv
  <1> QED
    BY <1>2, <1>3, <1>4, <1>5, <1>6, <1>7 DEF Next, TaskStep

\* Every step keeps what an inspection has found true.
LEMMA NextInspectInv == TypeInv /\ InspectInv /\ [Next]_vars => InspectInv'
  <1> SUFFICES ASSUME TypeInv, InspectInv, [Next]_vars PROVE InspectInv'
    OBVIOUS
  <1> USE DEF conn, stream, results
  <1>1. ASSUME UNCHANGED <<turn, host, said, eofs>>,
               \A u \in Tasks : KindOf[u] = "inspect" =>
                   step'[u] = step[u] \/ step'[u] \in {"isWindows", "failed"}
        PROVE  InspectInv'
    BY <1>1 DEF InspectInv
  <1>2. ASSUME NEW t \in Tasks, ReadHaveDialer(t) PROVE InspectInv'
    BY <1>1, <1>2, GivesUp DEF ReadHaveDialer
  <1>3. ASSUME NEW t \in Tasks, CreateDialContextFunc(t) PROVE InspectInv'
    <2>1. /\ GoOn(t) /\ step[t] = "connect" /\ UNCHANGED <<turn, host, said, eofs>>
      BY <1>3 DEF CreateDialContextFunc
    <2>2. KindOf[t] = "inspect" => step'[t] = "isWindows"
      BY <2>1, GoesOn DEF NextStep
    <2> QED
      BY <1>1, <2>1, <2>2, GoesOn
  <1>4. ASSUME NEW t \in Tasks, LocalStepSucceeds(t) PROVE InspectInv'
    <2>1. GoOn(t) /\ step[t] \in LocalSteps /\ UNCHANGED <<turn, host, said, eofs>>
      BY <1>4 DEF LocalStepSucceeds
    <2>2. KindOf[t] # "inspect"
      BY <2>1 DEF TypeInv, TaskSteps, LocalSteps
    <2> QED
      BY <1>1, <2>1, <2>2, GoesOn DEF LocalSteps
  <1>5. ASSUME NEW t \in Tasks, LocalStepFails(t) PROVE InspectInv'
    BY <1>1, <1>5, GivesUp DEF LocalStepFails
  <1>6. ASSUME NEW t \in Tasks, Dial(t) PROVE InspectInv'
    BY <1>1, <1>6, GivesUp DEF Dial
  <1>7. ASSUME NEW t \in Tasks, CopyFile(t) \/ WriteFails(t) \/ ReadFails(t) \/ FallSilent(t)
        PROVE  InspectInv'
    BY <1>1, <1>7 DEF CopyFile, WriteFails, ReadFails, FallSilent
  <1>8. ASSUME NEW ending \in Endings, EndSession(turn, ending) PROVE InspectInv'
    <2>1. turn \in Tasks
      BY DEF TypeInv
    <2>2. /\ step[turn] \in RemoteSteps /\ turn' = turn /\ host' = host
          /\ eofs' = IF ending = "eof" THEN [eofs EXCEPT ![turn] = @ \cup {step[turn]}] ELSE eofs
          /\ Comes(turn, ending)
      BY <1>8, <2>1, SessionEnds
    <2>3. \A u \in Tasks \ {turn} : step'[u] = step[u]
      BY <2>1, <2>2, GoesOn, GivesUp DEF Comes, RemoteSteps
    <2>4. eofs'[turn] = {} => eofs[turn] = {} /\ ending # "eof"
      BY <2>1, <2>2 DEF TypeInv
    <2> SUFFICES ASSUME KindOf[turn] = "inspect"
                 PROVE  /\ step'[turn] \in {"findFiles", "dirExists", "done"} =>
                              (eofs'[turn] = {} => said'.windows = host.windows)
                        /\ step'[turn] \in {"dirExists", "done"} /\ eofs'[turn] = {} =>
                              said'.scripts = host.scripts
                        /\ step'[turn] = "done" => /\ eofs'[turn] = {} => said'.dir = host.dir
                                                   /\ host.dir => said'.dir
      BY <2>1, <2>2, <2>3 DEF InspectInv
    <2>5. step[turn] \in {"isWindows", "findFiles", "dirExists"}
      BY <2>1, <2>2 DEF TypeInv, TaskSteps, RemoteSteps
    <2>6. CASE GiveUp(turn)
      BY <2>1, <2>6, GivesUp
    <2>7. CASE UNCHANGED <<step, said>>
      BY <2>1, <2>4, <2>7 DEF InspectInv
    <2>8. CASE GoOn(turn) /\ Learns(turn, ending)
      <3>1. step'[turn] = NextStep("inspect", step[turn])
        BY <2>1, <2>5, <2>8, GoesOn
      <3>2. CASE step[turn] = "isWindows"
        BY <2>4, <2>8, <3>1, <3>2 DEF NextStep, Learns
      <3>3. CASE step[turn] = "findFiles"
        BY <2>1, <2>4, <2>8, <3>1, <3>3 DEF NextStep, Learns, InspectInv
      <3>4. CASE step[turn] = "dirExists"
        BY <2>1, <2>4, <2>8, <3>1, <3>4 DEF NextStep, Learns, InspectInv
      <3> QED
        BY <2>5, <3>2, <3>3, <3>4
    <2> QED
      BY <2>2, <2>6, <2>7, <2>8 DEF Comes
  <1>9. CASE KeepAliveLoop
    BY <1>1, <1>9 DEF KeepAliveLoop, CheckTerminate, Reply, Sleep
  <1>10. CASE UNCHANGED vars
    BY <1>1, <1>10 DEF vars
  <1>11. turn \in Tasks
    BY DEF TypeInv
  <1> QED
    BY <1>2, <1>3, <1>4, <1>5, <1>6, <1>7, <1>8, <1>9, <1>10, <1>11 DEF Next, Connect, TaskStep

\* Nothing but an io.EOF or a size of 0 makes a step panic; after it there is none.
LEMMA NextCrashHasCause == TypeInv /\ DialInv /\ CrashHasCause /\ [Next]_vars => CrashHasCause'
  <1> SUFFICES ASSUME TypeInv, DialInv, CrashHasCause, [Next]_vars PROVE CrashHasCause'
    OBVIOUS
  <1> USE DEF conn, stream, results
  <1>1. CASE UNCHANGED vars
    BY <1>1 DEF vars, CrashHasCause
  <1>2. ASSUME Next, ~crashed' PROVE CrashHasCause'
    BY <1>2 DEF CrashHasCause
  <1>3. ASSUME Next, crashed' PROVE CrashHasCause'
    <2>1. ~crashed /\ turn \in Tasks
      BY <1>3 DEF Next, TypeInv
    <2>2. CASE KeepAliveLoop \/ (\E t \in Tasks : Connect(t))
      BY <1>3, <2>1, <2>2 DEF KeepAliveLoop, CheckTerminate, Reply, Sleep, Connect, ReadHaveDialer,
         CreateDialContextFunc
    <2>3. CASE LocalStepSucceeds(turn) \/ LocalStepFails(turn) \/ WriteFails(turn) \/ ReadFails(turn)
               \/ FallSilent(turn)
      BY <1>3, <2>1, <2>3 DEF LocalStepSucceeds, LocalStepFails, WriteFails, ReadFails, FallSilent
    <2>4. CASE Dial(turn)
      <3>1. dial[turn]
        BY <2>1, <2>4 DEF Dial, DialInv, RemoteSteps
      <3> QED
        BY <1>3, <2>1, <2>4, <3>1 DEF Dial
    <2>5. CASE CopyFile(turn)
      <3>1. total[turn] = 0 /\ total' = total
        BY <1>3, <2>1, <2>5 DEF CopyFile
      <3>2. copied' = [copied EXCEPT ![turn] = @ + 1] /\ copied[turn] \in 0 .. FileCount
        BY <2>1, <2>5 DEF CopyFile, TypeInv
      <3>3. copied'[turn] > 0
        BY <2>1, <3>2, TasksAssumption DEF TypeInv
      <3> QED
        BY <2>1, <3>1, <3>3 DEF CrashHasCause
    <2>6. ASSUME NEW ending \in Endings, EndSession(turn, ending) PROVE CrashHasCause'
      <3>1. /\ Comes(turn, ending)
            /\ eofs' = IF ending = "eof" THEN [eofs EXCEPT ![turn] = @ \cup {step[turn]}] ELSE eofs
        BY <2>1, <2>6, SessionEnds
      <3>2. ending = "eof"
        BY <1>3, <2>1, <3>1 DEF Comes
      <3>3. eofs'[turn] # {}
        BY <2>1, <3>1, <3>2 DEF TypeInv
      <3> QED
        BY <2>1, <3>3 DEF CrashHasCause
    <2> QED
      BY <1>3, <2>2, <2>3, <2>4, <2>5, <2>6 DEF Next, TaskStep
  <1> QED
    BY <1>1, <1>2, <1>3 DEF CrashHasCause

-----------------------------------------------------------------------------
(* The theorems *)

\* The dialers, the accounts of the transfers and of the inspection together.
SessionsInv ==
    TypeInv /\ DialInv /\ DownloadInv /\ UploadInv /\ DeletedInv /\ InspectInv /\ CrashHasCause

LEMMA SessionsInvHolds == Spec => []SessionsInv
  <1>1. Init => SessionsInv
    <2> SUFFICES ASSUME Init PROVE SessionsInv
      OBVIOUS
    <2>1. TypeInv
      BY InitTypeInv
    <2>2. \A t \in Tasks : /\ step[t] = "connect" /\ have[t] = "unread"
                           /\ ~recorded[t] /\ ~deleted[t]
      BY DEF Init
    <2>3. DialInv /\ DownloadInv /\ UploadInv /\ DeletedInv /\ InspectInv
      BY <2>2 DEF DialInv, DownloadInv, UploadInv, DeletedInv, InspectInv, AfterLocalSum
    <2>4. CrashHasCause
      BY DEF Init, CrashHasCause
    <2> QED
      BY <2>1, <2>3, <2>4 DEF SessionsInv
  <1>2. SessionsInv /\ [Next]_vars => SessionsInv'
    BY NextTypeInv, NextDialInv, NextDownloadInv, NextUploadInv, NextDeletedInv, NextInspectInv,
       NextCrashHasCause DEF SessionsInv
  <1> QED
    BY <1>1, <1>2, PTL DEF Spec

\* However the stream of a transfer ends, what is recorded as backed up, or taken for
\* uploaded, is whole, unless io.EOF cut the session of the checksum itself.
THEOREM VerifiedIsWhole == Spec => []VerifiedMeansWhole
  <1>1. SessionsInv => VerifiedMeansWhole
    BY DEF SessionsInv, DownloadInv, UploadInv, DeletedInv, SumCut, VerifiedMeansWhole
  <1> QED
    BY <1>1, SessionsInvHolds, PTL

\* The inspection of a host finds what it is, unless io.EOF cut an answer, and never
\* overlooks an artifact directory.
THEOREM InspectedIsTrue == Spec => []InspectionIsTrue
  <1>1. SessionsInv => InspectionIsTrue
    <2> SUFFICES ASSUME SessionsInv, NEW t \in Tasks, KindOf[t] = "inspect", step[t] = "done"
                 PROVE  (eofs[t] = {} => said = host) /\ (host.dir => said.dir)
      BY DEF InspectionIsTrue
    <2>1. /\ eofs[t] = {} => /\ said.windows = host.windows /\ said.scripts = host.scripts
                             /\ said.dir = host.dir
          /\ host.dir => said.dir
      BY DEF SessionsInv, InspectInv
    <2>2. /\ said \in [windows : BOOLEAN, dir : BOOLEAN, scripts : Scripts]
          /\ host \in [windows : BOOLEAN, dir : BOOLEAN, scripts : Scripts]
      BY OutputAssumption DEF SessionsInv, TypeInv, Scripts
    <2> QED
      BY <2>1, <2>2
  <1> QED
    BY <1>1, SessionsInvHolds, PTL

\* bbr panics in a transfer only after an io.EOF or on an artifact of size 0; never
\* for want of a dialFunc, however the connections are made side by side.
THEOREM PanicHasCause == Spec => []CrashHasCause
  BY SessionsInvHolds, PTL DEF SessionsInv

=============================================================================
