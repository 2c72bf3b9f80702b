----------------------------- MODULE RemoteRunner -----------------------------
(***************************************************************************)
(* ssh/remote_runner.go, and the end of Connection.runInSession: what each *)
(* function of the remote runner makes of the way its ssh session ended.   *)
(*                                                                         *)
(* An answer is [exit, err, out]: the exit code, whether there is an error *)
(* and what of the command's output was read.  The output of find is a set *)
(* of scripts, that of du a number and that of shasum the set of the files *)
(* listed, by number; Cut stands for output that ends before its first     *)
(* word or inside a line.                                                  *)
(***************************************************************************)
EXTENDS Integers

CONSTANT Cut    \* a model value

\* How session.Run may end: with the command's exit code, without one, with an
\* io.EOF, with any other error, or because a local write failed.
Endings == {"exit", "fail", "missing", "eof", "other", "write"}

\* A local write error comes first; io.EOF is no error; an exit code is no error here.
RunInSession(ending, out) ==
    CASE ending \in {"exit", "eof"}               -> [exit |-> 0, err |-> FALSE, out |-> out]
      [] ending = "fail"                          -> [exit |-> 1, err |-> FALSE, out |-> out]
      [] ending \in {"write", "missing", "other"} -> [exit |-> -1, err |-> TRUE, out |-> out]

-----------------------------------------------------------------------------

\* CreateDirectory, RemoveDirectory, ArchiveAndDownload, ExtractAndUpload,
\* RunScriptWithEnv: an error, or an exit code that is not 0.
LogAndCheckErrors(a) == a.err \/ a.exit # 0

\* DirectoryExists and IsWindows: an exit code is an answer, or not looked at.
DirectoryExists(a) == a.exit = 0
IsWindows(a) == a.out = "Windows_NT"

\* A plausible bug: find's exit code is not looked at.
FindFilesFailsIfLost(a, noSuchFile) == a.err

\* FindFiles fails on an exit code, but not where find knows of no such file; an
\* empty output is one empty name, which is no script.
FindFilesFails(a, noSuchFile) == a.err \/ (a.exit # 0 /\ ~noSuchFile)

FindFiles(a) == IF a.exit # 0 \/ a.out = Cut THEN {} ELSE a.out

\* Fields(stdout)[0] and parts[1] are there.
Indexable(a) == LogAndCheckErrors(a) \/ a.out # Cut

\* SizeInBytes: blocks of 1024 bytes.
SizeInBytes(a) == a.out * 1024

\* convertShasToMap: shasum says "-" of no files at all.
Dash == 0
ConvertShasToMap(out) == out \ {Dash}

=============================================================================
