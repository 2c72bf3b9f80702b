--------------------------- MODULE BackupDirectory ---------------------------
(***************************************************************************)
(* The local backup directory while a backup is written: the downloads     *)
(* that the drain step runs in parallel (BackupDownloadExecutable), which  *)
(* share the metadata file and its mutex, then AddFinishTime; and what     *)
(* Valid says of the directory at any moment, for instance after the       *)
(* process was killed.  Module BackupRun has a download as one step; here  *)
(* it is taken apart.                                                      *)
(***************************************************************************)

CONSTANTS
    Artifacts,   \* the artifacts to download
    Files,       \* names of files in the directory
    FileOf,      \* artifact -> the name of its file, which also names its entry
    NoOne        \* the holder of a mutex that is free

\* Artifacts have files of their own.  The code does not check it: two jobs of one
\* name and release with backup_one_restore_all, in two instance groups, would not.
ASSUME NamesAssumption ==
    /\ FileOf \in [Artifacts -> Files]
    /\ \A a, b \in Artifacts : FileOf[a] = FileOf[b] => a = b
    /\ Artifacts \cap {NoOne, "none", "partial", "bare", "cut"} = {}

VARIABLES
    step,        \* "create", "drain", "finish", "end" or "exited"
    pc,          \* artifact -> where its Execute is
    content,     \* file -> "none", "partial", or the artifact it holds all of
    metadata,    \* the metadata file: "none", "broken" or "readable"
    entries,     \* its entries <<name, what the checksums are of>>
    mutex,       \* the artifact whose AddChecksum holds the mutex
    read,        \* artifact -> the entries its AddChecksum has read
    remote,      \* the artifacts not yet deleted from their instances
    failed,      \* did the drain step, or AddFinishTime, return an error?
    \* history, for the properties
    torn         \* was a write of the metadata file not completed?

vars == <<step, pc, content, metadata, entries, mutex, read, remote, failed, torn>>

Contents == {"none", "partial"} \cup Artifacts

\* An entry has the checksums of an artifact, or, of a file cut short while it was
\* written, none of them ("bare"; its name may be cut) or not all of them ("cut").
Entries == Files \X (Artifacts \cup {"bare", "cut"})

\* Can Valid find the checksums of e to be those of its file?  No checksums match a file
\* that is empty and, of an artifact with a name of its own, one that is not there or
\* cannot be read: that error is dropped.
Matches(e) ==
    \/ content[e[1]] = e[2]
    \/ e[2] = "bare" /\ content[e[1]] \notin Artifacts

Valid == \A e \in entries : Matches(e)

-----------------------------------------------------------------------------

Init ==
    /\ step = "create"
    /\ pc = [a \in Artifacts |-> "ready"]
    /\ content = [f \in Files |-> "none"]
    /\ metadata = "none" /\ entries = {}
    /\ mutex = NoOne /\ read = [a \in Artifacts |-> {}]
    /\ remote = Artifacts
    /\ failed = FALSE /\ torn = FALSE

\* metadata.save writes the entries with os.WriteFile ...
Save(es) == metadata' = "readable" /\ entries' = es /\ UNCHANGED torn

\* What a file of the entries es can be parsed as, being YAML, when it is cut short: some
\* of the entries, and one more without its checksums, its name whole or not, or with a
\* part of them.
Truncations(es) ==
    (SUBSET es) \cup
    UNION {{kept \cup {<<f, "bare">>} : f \in Files}
           \cup {kept \cup {<<e[1], "cut">>} : e \in es \ kept} : kept \in (SUBSET es) \ {es}}

\* ... which, when it fails or the process ends, has left the file as it was, or cut
\* short: not to be parsed, or to be parsed all the same.
TornSave(es) ==
    /\ \/ UNCHANGED <<metadata, entries>>
       \/ metadata' = "broken" /\ entries' = {}
       \/ metadata' = "readable" /\ entries' \in Truncations(es)
    /\ torn' = TRUE

\* CreateMetadataFileWithStartTime, in a new directory.  Its error is ignored.
CreateMetadataFile ==
    /\ step = "create"
    /\ step' = "drain"
    /\ Save({}) \/ TornSave({})
    /\ UNCHANGED <<pc, content, mutex, read, remote, failed>>

-----------------------------------------------------------------------------

\* Execute of a returns an error.
Error(a) == pc' = [pc EXCEPT ![a] = "failed"]

\* CreateArtifact: os.Create truncates the file.
Create(a) ==
    /\ step = "drain"
    /\ pc[a] = "ready"
    /\ \/ /\ pc' = [pc EXCEPT ![a] = "copying"]
          /\ content' = [content EXCEPT ![FileOf[a]] = "partial"]
       \/ Error(a) /\ UNCHANGED content
    /\ UNCHANGED <<step, metadata, entries, mutex, read, remote, failed, torn>>

\* StreamFromRemote and Close: all of it, or less with or without an error.
Copy(a) ==
    /\ step = "drain"
    /\ pc[a] = "copying"
    /\ \/ /\ pc' = [pc EXCEPT ![a] = "copied"]
          /\ content' \in {content, [content EXCEPT ![FileOf[a]] = a]}
       \/ Error(a) /\ UNCHANGED content
    /\ UNCHANGED <<step, metadata, entries, mutex, read, remote, failed, torn>>

\* A plausible bug: a mismatch is logged and not returned.
CompareLeniently(a) ==
    /\ step = "drain"
    /\ pc[a] = "copied"
    /\ \/ pc' = [pc EXCEPT ![a] = "compared"]
       \/ Error(a)
    /\ UNCHANGED <<step, content, metadata, entries, mutex, read, remote, failed, torn>>

\* compareChecksums.
Compare(a) ==
    /\ step = "drain"
    /\ pc[a] = "copied"
    /\ \/ content[FileOf[a]] = a /\ pc' = [pc EXCEPT ![a] = "compared"]
       \/ Error(a)
    /\ UNCHANGED <<step, content, metadata, entries, mutex, read, remote, failed, torn>>

\* A plausible bug: the metadata file is read before the mutex is taken.
LockUnneeded(a) ==
    /\ step = "drain"
    /\ pc[a] = "compared"
    /\ metadata = "readable"
    /\ pc' = [pc EXCEPT ![a] = "adding"]
    /\ read' = [read EXCEPT ![a] = entries]
    /\ UNCHANGED <<step, content, metadata, entries, mutex, remote, failed, torn>>

\* AddChecksum takes the mutex and reads the metadata file ...
Lock(a) ==
    /\ step = "drain"
    /\ pc[a] = "compared"
    /\ mutex = NoOne
    /\ metadata = "readable"
    /\ pc' = [pc EXCEPT ![a] = "adding"]
    /\ mutex' = a
    /\ read' = [read EXCEPT ![a] = entries]
    /\ UNCHANGED <<step, content, metadata, entries, remote, failed, torn>>

\* ... or returns an error: the file is not there, or cannot be read or parsed.
LockFails(a) ==
    /\ step = "drain"
    /\ pc[a] = "compared"
    /\ mutex = NoOne
    /\ Error(a)
    /\ UNCHANGED <<step, content, metadata, entries, mutex, read, remote, failed, torn>>

\* A plausible bug: an early return leaves the mutex locked.
AddWithoutDefer(a) ==
    /\ step = "drain"
    /\ pc[a] = "adding"
    /\ LET es == read[a] \cup {<<FileOf[a], a>>} IN
           \/ pc' = [pc EXCEPT ![a] = "added"] /\ Save(es) /\ mutex' = NoOne
           \/ Error(a) /\ TornSave(es) /\ UNCHANGED mutex
    /\ UNCHANGED <<step, content, read, remote, failed>>

\* It saves what it read with the new entry, and releases the mutex.
Add(a) ==
    /\ step = "drain"
    /\ pc[a] = "adding"
    /\ LET es == read[a] \cup {<<FileOf[a], a>>} IN
           \/ pc' = [pc EXCEPT ![a] = "added"] /\ Save(es)
           \/ Error(a) /\ TornSave(es)
    /\ mutex' = NoOne
    /\ UNCHANGED <<step, content, read, remote, failed>>

\* A plausible bug: the artifact is deleted as soon as it is copied.
DeleteEarly(a) ==
    /\ step = "drain"
    /\ pc[a] \in {"copied", "added"}
    /\ remote' = remote \ {a}
    /\ pc' = IF pc[a] = "added" THEN [pc EXCEPT ![a] = "done"] ELSE pc
    /\ UNCHANGED <<step, content, metadata, entries, mutex, read, failed, torn>>

\* Delete of the remote artifact; an error does not mean that it is there.
Delete(a) ==
    /\ step = "drain"
    /\ pc[a] = "added"
    /\ \/ remote' = remote \ {a} /\ (pc' = [pc EXCEPT ![a] = "done"] \/ Error(a))
       \/ UNCHANGED remote /\ Error(a)
    /\ UNCHANGED <<step, content, metadata, entries, mutex, read, failed, torn>>

\* The executor has run all of them and the drain step returns.
Drained ==
    /\ step = "drain"
    /\ \A a \in Artifacts : pc[a] \in {"done", "failed"}
    /\ step' = "finish"
    /\ failed' = (\E a \in Artifacts : pc[a] = "failed")
    /\ UNCHANGED <<pc, content, metadata, entries, mutex, read, remote, torn>>

\* AddFinishTime, whether or not the drain step failed: reads the file, and ignores
\* the error of the save.
AddFinishTime ==
    /\ step = "finish"
    /\ step' = "end"
    /\ \/ failed' = TRUE /\ UNCHANGED <<metadata, entries, torn>>
       \/ metadata = "readable" /\ (Save(entries) \/ TornSave(entries)) /\ UNCHANGED failed
    /\ UNCHANGED <<pc, content, mutex, read, remote>>

\* The process ends; a file being written stays as far as it was.
Exit ==
    /\ step \in {"drain", "finish"}
    /\ step' = "exited"
    /\ \/ UNCHANGED <<metadata, entries, torn>>
       \/ \E a \in Artifacts : pc[a] = "adding" /\ TornSave(read[a] \cup {<<FileOf[a], a>>})
       \/ step = "finish" /\ metadata = "readable" /\ TornSave(entries)
    /\ UNCHANGED <<pc, content, mutex, read, remote, failed>>

Step ==
    \/ CreateMetadataFile \/ Drained \/ AddFinishTime
    \/ \E a \in Artifacts :
           Create(a) \/ Copy(a) \/ Compare(a) \/ Lock(a) \/ LockFails(a) \/ Add(a) \/ Delete(a)

Next == Step \/ Exit

\* Assumed: every remote command returns.
Spec == Init /\ [][Next]_vars /\ WF_vars(Step)

-----------------------------------------------------------------------------

\* Every variable has its type; the mutex is held by the one that is adding.
TypeOK ==
    /\ step \in {"create", "drain", "finish", "end", "exited"}
    /\ pc \in [Artifacts -> {"ready", "copying", "copied", "compared", "adding", "added",
                             "done", "failed"}]
    /\ content \in [Files -> Contents]
    /\ metadata \in {"none", "broken", "readable"} /\ entries \in SUBSET Entries
    /\ read \in [Artifacts -> SUBSET Entries]
    /\ remote \in SUBSET Artifacts
    /\ failed \in BOOLEAN /\ torn \in BOOLEAN
    /\ mutex \in Artifacts \cup {NoOne}
    /\ \A a \in Artifacts : pc[a] = "adding" <=> mutex = a

\* Whenever it is looked at, half way through a backup or after the process was killed,
\* an entry with all the checksums of an artifact means that all of it is there.  As long
\* as no write of the metadata was cut short there are no other entries, and Valid finds
\* the directory valid.  After one was, it may not.
ValidAtAnyTime ==
    /\ \A e \in entries : e[2] \in Artifacts => content[e[1]] = e[2]
    /\ ~torn /\ step # "create" =>
           metadata = "readable" /\ Valid /\ \A e \in entries : e[2] \in Artifacts

\* Checksums that are added concurrently are all kept: one that AddChecksum has
\* recorded stays recorded, unless a later write of the file fails.
NoChecksumLost ==
    \A a \in Artifacts :
        pc[a] \in {"added", "done"} /\ ~torn => <<FileOf[a], a>> \in entries

\* An artifact is deleted from its instance only when all of it is here, so that
\* at any time one of the two copies is whole.
OneWholeCopy == \A a \in Artifacts : a \in remote \/ content[FileOf[a]] = a

\* A drain without an error has every artifact, each with its entry, if no write
\* failed; with AddFinishTime's, whose error is dropped, the artifacts still are.
DrainedMeansAll ==
    step \in {"finish", "end"} /\ ~failed =>
        /\ \A a \in Artifacts : content[FileOf[a]] = a
        /\ ~torn => entries = {<<FileOf[a], a>> : a \in Artifacts}

\* The downloads end: none waits for the mutex for ever.
DrainEnds == <>(step \in {"end", "exited"})

=============================================================================
