------------------------------ MODULE JobFinder ------------------------------
(***************************************************************************)
(* What is found on the hosts that FindInstances visits: the bbr scripts,  *)
(* the metadata of their jobs and, from the manifest, each job's release   *)
(* and backup_one_restore_all; and what a backup and a restore make of it: *)
(* the artifacts, their files and their records in the metadata file, and  *)
(* the jobs a lock order names.                                            *)
(*                                                                         *)
(* A deployment is searched for a backup, which records its artifacts,     *)
(* and again for the restore of that backup; in between the deployment may *)
(* be recreated with another bootstrap VM.  Or, with NewNoopManifestQuerier*)
(* and NewJobFinderOmitMetadataReleases, one host is searched as director. *)
(*                                                                         *)
(* Names are sequences of words, which a name as text joins with dashes.   *)
(***************************************************************************)
EXTENDS FindInstances, Sequences

CONSTANTS
    FilesOn,     \* group -> the files /var/vcap/jobs/<job>/bin/bbr/<name>, as [job, name]
    Disabled,    \* the <<group, job>> whose metadata says skip_bbr_scripts
    ReleaseOf,   \* <<group, job>> -> the name of its release
    Addons,      \* the <<group, job>> that may be missing from the manifest
    IndexOf,     \* host -> the index of its VM
    OneForAll,   \* the <<group, job>> that may have backup_one_restore_all set
    Printable    \* what a metadata script may print: [restoreName, backupBefore,
                 \* restoreBefore], the latter two sets of [job, release]

NoName == <<>>

-----------------------------------------------------------------------------
(* instance/script.go, instance/scripts.go *)

ScriptNames == {"backup", "restore", "metadata", "pre-backup-lock", "pre-restore-lock",
                "post-backup-unlock", "post-restore-unlock"}

isMySQLScript(s) == s.job \in {<<"mysql", "backup">>, <<"mysql", "restore">>}
isPlatformScript(s) == ~isMySQLScript(s) /\ s.name \in ScriptNames

NewBackupAndRestoreScripts(files) == {s \in files : isPlatformScript(s)}

\* BackupOnly, RestoreOnly, MetadataOnly, ...: a job has at most one of a name.
Only(scripts, name) == {s \in scripts : s.name = name}

ScriptsOf(scripts, job) == {s \in scripts : s.job = job}
JobsWithScripts(g) == {s.job : s \in NewBackupAndRestoreScripts(FilesOn[g])}

\* FindInstances skips the rest of a group on whose host no job is left.
ASSUME ScriptsAssumption ==
    /\ Scripted = {g \in Groups : \E j \in JobsWithScripts(g) : <<g, j>> \notin Disabled}
    /\ DOMAIN ReleaseOf = UNION {{g} \X JobsWithScripts(g) : g \in Groups}
    /\ Disabled \subseteq DOMAIN ReleaseOf /\ Addons \subseteq DOMAIN ReleaseOf
    /\ \A p \in Disabled : [job |-> p[2], name |-> "metadata"] \in FilesOn[p[1]]
    /\ OneForAll \subseteq DOMAIN ReleaseOf
    /\ IndexOf \in [Hosts -> STRING]

ASSUME PrintableAssumption ==
    \A m \in Printable : \A l \in m.backupBefore \cup m.restoreBefore :
        l = [job |-> l.job, release |-> l.release]

VARIABLES
    manifest,   \* the deployment's manifest: path -> value
    printed,    \* <<group, job>> -> what its metadata script prints
    bootstrap,  \* the hosts whose VMs are bootstrap nodes, one a group
    jobs,       \* host -> the jobs found there
    recorded    \* the records in the metadata of the backup that was made

jobVars == <<manifest, printed, bootstrap, jobs, recorded>>
allVars == <<vars, jobVars>>

-----------------------------------------------------------------------------
(* instance/metadata.go *)

Validate(lockBefore) == lockBefore.job # NoName /\ lockBefore.release # NoName

\* ParseJobMetadata fails on an entry without a job name or a release.
Parsable(metadata) ==
    \A l \in metadata.backupBefore \cup metadata.restoreBefore : Validate(l)

ParseJobMetadata(metadata) == metadata

omitReleases(lockBefores) == {[job |-> l.job, release |-> NoName] : l \in lockBefores}

ParseJobMetadataOmitReleases(metadata) ==
    [metadata EXCEPT !.backupBefore = omitReleases(@), !.restoreBefore = omitReleases(@)]

\* A job without a metadata script.
NoMetadata == [restoreName |-> NoName, backupBefore |-> {}, restoreBefore |-> {}, skip |-> FALSE]

-----------------------------------------------------------------------------
(* bosh/manifest_querier.go *)

\* patch.FindOp: does the path lead anywhere in the manifest?
FindOp(path) == path \in DOMAIN manifest

isV2Manifest == FindOp(<<"instance_groups">>)

JobPath(v2, g, j) ==
    IF v2 THEN <<"instance_groups", g, "jobs", j>> ELSE <<"jobs", g, "templates", j>>
ReleasePath(v2, g, j) == Append(JobPath(v2, g, j), "release")

\* Of the job in a version 2 manifest, of all jobs of the group in an older one.
BackupOneRestoreAllPath(v2, g, j) ==
    IF v2 THEN JobPath(v2, g, j) \o <<"properties", "bbr", "backup_one_restore_all">>
    ELSE <<"jobs", g, "properties", "bbr", "backup_one_restore_all">>

\* The release; buildJobs makes an error of it the empty name and a warning.
FindReleaseName(g, j) ==
    LET path == ReleasePath(isV2Manifest, g, j)
    IN  IF FindOp(path) THEN manifest[path] ELSE NoName

IsJobBackupOneRestoreAll(g, j) ==
    LET path == BackupOneRestoreAllPath(isV2Manifest, g, j)
    IN  /\ FindOp(JobPath(isV2Manifest, g, j))
        /\ FindOp(path)
        /\ manifest[path]

\* The manifests: in either version, with the listed jobs, and the property set for
\* some of them.
Manifest(v2, listed, bora) ==
    LET paths == {<<IF v2 THEN "instance_groups" ELSE "jobs">>}
                 \cup {JobPath(v2, p[1], p[2]) : p \in listed}
                 \cup {ReleasePath(v2, p[1], p[2]) : p \in listed}
                 \cup {BackupOneRestoreAllPath(v2, p[1], p[2]) : p \in bora}
    IN  [path \in paths |->
            IF \E p \in listed : path = ReleasePath(v2, p[1], p[2])
            THEN ReleaseOf[CHOOSE p \in listed : path = ReleasePath(v2, p[1], p[2])]
            ELSE TRUE]

-----------------------------------------------------------------------------
(* instance/job_finder.go *)

\* findMetadata of every metadata script succeeds.
MetadataFound(g) ==
    \A s \in Only(NewBackupAndRestoreScripts(FilesOn[g]), "metadata") :
        Parsable(printed[<<g, s.job>>])

JobMetadata(g, job, omit) ==
    IF Only(ScriptsOf(FilesOn[g], job), "metadata") = {} THEN NoMetadata
    ELSE IF omit THEN ParseJobMetadataOmitReleases(printed[<<g, job>>])
    ELSE ParseJobMetadata(printed[<<g, job>>])

\* The answers of the noop querier of a director.
NewNoopManifestQuerier == [release |-> NoName, backupOneRestoreAll |-> FALSE]

NewJob(j, scripts, metadata, answers, onBootstrap) ==
    [name |-> j, release |-> answers.release, metadata |-> metadata,
     scripts |-> {s.name : s \in ScriptsOf(scripts, j)},
     backupOneRestoreAll |-> answers.backupOneRestoreAll,
     onBootstrapNode |-> onBootstrap]

\* buildJobs: a disabled job is left out.
BuildJobs(g, onBootstrap, omit) ==
    LET scripts == NewBackupAndRestoreScripts(FilesOn[g])
        answers(j) ==
            IF omit THEN NewNoopManifestQuerier
            ELSE [release |-> FindReleaseName(g, j),
                  backupOneRestoreAll |-> IsJobBackupOneRestoreAll(g, j)]
        enabled == {j \in JobsWithScripts(g) : ~JobMetadata(g, j, omit).skip}
    IN  {NewJob(j, scripts, JobMetadata(g, j, omit), answers(j), onBootstrap) : j \in enabled}

-----------------------------------------------------------------------------
(* instance/job.go, instance/artifact.go *)

HasBackup(j) == "backup" \in j.scripts
HasRestore(j) == "restore" \in j.scripts

backupOneRestoreAllArtifactName(j) ==
    j.name \o j.release \o <<"backup", "one", "restore", "all">>

HasNamedBackupArtifact(j) == j.backupOneRestoreAll /\ j.onBootstrapNode

\* A plausible bug: the named artifact is restored on the bootstrap node alone.
HasNamedRestoreArtifactOnBootstrap(j) ==
    (j.backupOneRestoreAll /\ j.onBootstrapNode) \/ j.metadata.restoreName # NoName

HasNamedRestoreArtifact(j) == j.backupOneRestoreAll \/ j.metadata.restoreName # NoName

\* BackupName is discontinued: FindJobs blanks it.
BackupArtifactName(j) ==
    IF HasNamedBackupArtifact(j) THEN backupOneRestoreAllArtifactName(j) ELSE NoName
RestoreArtifactName(j) ==
    IF j.backupOneRestoreAll THEN backupOneRestoreAllArtifactName(j) ELSE j.metadata.restoreName

\* The last part of the directories /var/vcap/store/bbr-backup/<name> on the instance.
backupArtifactOrJobName(j) ==
    IF HasNamedBackupArtifact(j) THEN BackupArtifactName(j) ELSE j.name
restoreArtifactOrJobName(j) ==
    IF HasNamedRestoreArtifact(j) THEN RestoreArtifactName(j) ELSE j.name

NewBackupArtifact(j, instance) ==
    [isNamed |-> HasNamedBackupArtifact(j), group |-> instance.name, index |-> instance.index,
     directory |-> backupArtifactOrJobName(j),
     name |-> IF HasNamedBackupArtifact(j) THEN BackupArtifactName(j) ELSE j.name]
NewRestoreArtifact(j, instance) ==
    [isNamed |-> HasNamedRestoreArtifact(j), group |-> instance.name, index |-> instance.index,
     directory |-> restoreArtifactOrJobName(j),
     name |-> IF HasNamedRestoreArtifact(j) THEN RestoreArtifactName(j) ELSE j.name]

\* The VM with the host's id has an index; else InspectionFails.
findInstanceIndexById(h) == IndexOf[h]

NewDeployedInstance(h) ==
    [name |-> GroupOf[h], index |-> findInstanceIndexById(h), jobs |-> jobs[h]]

ArtifactsToBackup(h) ==
    LET instance == NewDeployedInstance(h)
    IN  {NewBackupArtifact(j, instance) : j \in {k \in instance.jobs : HasBackup(k)}}
ArtifactsToRestore(h) ==
    LET instance == NewDeployedInstance(h)
    IN  {NewRestoreArtifact(j, instance) : j \in {k \in instance.jobs : HasRestore(k)}}

HasMetadataRestoreName(j) == j.metadata.restoreName # NoName
HasMetadataRestoreNames == \E h \in Hosts : \E j \in jobs[h] : HasMetadataRestoreName(j)

\* The specifiers of the jobs to lock after j, by the orderer of the command: each
\* asks the job for one of the two lists of its metadata.
BackupShouldBeLockedBefore(j) == j.metadata.backupBefore
RestoreShouldBeLockedBefore(j) == j.metadata.restoreBefore
Before(orderer, j) ==
    IF orderer = "backup" THEN BackupShouldBeLockedBefore(j) ELSE RestoreShouldBeLockedBefore(j)

-----------------------------------------------------------------------------
(* backup/backup_directory.go, backup/metadata.go *)

\* A plausible bug: the file is named for the instance group, not the instance.
fileNameOfGroup(a) == IF a.isNamed THEN a.name ELSE a.group \o a.name

fileName(a) == IF a.isNamed THEN a.name ELSE a.group \o <<a.index>> \o a.name

\* Where AddChecksum records the artifact: with the custom ones, or its instance's.
CustomRecord(a) == [custom |-> TRUE, name |-> a.name]
InstanceRecord(a) == [custom |-> FALSE, name |-> a.name, group |-> a.group, index |-> a.index]
RecordOf(a) == IF a.isNamed THEN CustomRecord(a) ELSE InstanceRecord(a)

\* FetchChecksum finds a record.
FetchChecksum(a) ==
    \E r \in recorded :
        /\ r.custom = a.isNamed
        /\ r.name = a.name
        /\ ~r.custom => r.index = a.index /\ r.group = a.group

backupInstanceIsPresent(r) ==
    \E h \in instances :
        LET instance == NewDeployedInstance(h)
        IN  instance.index = r.index /\ instance.name = r.group

\* Each instance of the backup is among the instances found.
DeploymentMatches == \A r \in recorded : ~r.custom => backupInstanceIsPresent(r)

-----------------------------------------------------------------------------

\* One VM of a group is its bootstrap node: one that FindInstances can use, where it
\* matters.
BootstrapNodes ==
    {b \in SUBSET {h \in Hosts \ Windows : GroupOf[h] \in Scripted} :
        \A g \in Scripted : \E h \in HostsOf(g) : b \cap HostsOf(g) = {h}}

JInit ==
    /\ Init
    /\ \E v2 \in BOOLEAN, listed \in {DOMAIN ReleaseOf, (DOMAIN ReleaseOf) \ Addons},
          bora \in SUBSET OneForAll :
          manifest = Manifest(v2, listed, bora)
    /\ \E m \in Printable :
          printed = [p \in DOMAIN ReleaseOf |->
                        [restoreName |-> m.restoreName, backupBefore |-> m.backupBefore,
                         restoreBefore |-> m.restoreBefore, skip |-> p \in Disabled]]
    /\ bootstrap \in BootstrapNodes
    /\ jobs = [h \in Hosts |-> {}]
    /\ recorded = {}

\* FindJobs on a host whose metadata can be read; else InspectionFails.
FindJobs(h) ==
    /\ AddInstance(h)
    /\ MetadataFound(GroupOf[h])
    /\ jobs' = [jobs EXCEPT ![h] = BuildJobs(GroupOf[h], h \in bootstrap, FALSE)]
    /\ UNCHANGED <<manifest, printed, bootstrap, recorded>>

\* DeploymentManager.Find of a director: one host, no ssh user to make.
FindDirector(h) ==
    /\ pc = "start"
    /\ MetadataFound(GroupOf[h])
    /\ pc' = "director"
    /\ jobs' = [jobs EXCEPT ![h] = BuildJobs(GroupOf[h], FALSE, TRUE)]
    /\ UNCHANGED <<todo, hosts, slugs, instances, err, users, unanswered, badKey,
                   manifest, printed, bootstrap, recorded>>

\* The backup records its artifacts, its clean-up removes the users, and the
\* deployment, recreated perhaps, is searched for a restore.
SearchAgain ==
    /\ pc = "returned" /\ ~err /\ recorded = {}
    /\ recorded' = {RecordOf(a) : a \in UNION {ArtifactsToBackup(h) : h \in instances}}
    /\ bootstrap' \in BootstrapNodes
    /\ jobs' = [h \in Hosts |-> {}]
    /\ pc' = "groups" /\ todo' = Groups /\ instances' = {} /\ slugs' = {}
    /\ users' = {} /\ unanswered' = {}
    /\ UNCHANGED <<hosts, err, badKey, manifest, printed>>

\* The steps of FindInstances that find no job.
Elsewhere ==
    /\ \/ Start \/ NextGroup \/ ReturnInstances \/ ReturnError
       \/ \E g \in Groups : InvalidName(g) \/ SetUpSSH(g) \/ SetUpSSHFails(g) \/ CleanUpSSH(g)
       \/ \E h \in Hosts : InvalidHostKey(h) \/ InspectionFails(h) \/ SkipWindows(h)
    /\ UNCHANGED jobVars

JNext ==
    \/ Elsewhere \/ SearchAgain
    \/ \E h \in Hosts : FindJobs(h)
    \/ \E h \in Hosts \ Windows : FindDirector(h)

JSpec == JInit /\ [][JNext]_allVars

-----------------------------------------------------------------------------

Found == pc = "returned" /\ ~err

\* Every artifact a restore asks for is one the backup of the deployment made and
\* recorded, if each of its jobs that has a restore script has a backup script: also
\* of a job that one VM backs up and all restore, and after the bootstrap VM changed.
\* A job that still has a restore name is refused before.
RestoreFindsBackup ==
    LET paired == \A h \in instances : \A j \in jobs[h] : HasRestore(j) => HasBackup(j)
    IN  Found /\ recorded # {} /\ paired /\ ~HasMetadataRestoreNames =>
            /\ DeploymentMatches
            /\ \A h \in instances : \A a \in ArtifactsToRestore(h) : FetchChecksum(a)

\* The files are named by words joined with dashes.  These can be told apart if no index
\* is a word of the name of a group or of an artifact that one VM backs up for all, and
\* no job is named like such an artifact.
NamesAreToldApart ==
    LET jobNames == {p[2] : p \in DOMAIN ReleaseOf}
        releases == {NoName} \cup {ReleaseOf[p] : p \in DOMAIN ReleaseOf}
    IN  /\ Groups \cup jobNames \cup releases \subseteq Seq(STRING)
        /\ \A h \in Hosts : \A g \in Groups : \A i \in DOMAIN g : g[i] # IndexOf[h]
        /\ \A n \in jobNames, r \in releases :
              LET name == backupOneRestoreAllArtifactName([name |-> n, release |-> r])
              IN  /\ name \notin jobNames
                  /\ \A h \in Hosts : \A i \in DOMAIN name : name[i] # IndexOf[h]

\* No artifact overwrites the file of another, nor, on its instance, gets the files of
\* another job's backup script into its directory.  Only jobs that one VM backs up for
\* all, in two groups, may have one name, and then one file: their name and release agree.
ArtifactsHaveTheirOwnFiles ==
    Found => \A h, k \in instances : \A a \in ArtifactsToBackup(h), b \in ArtifactsToBackup(k) :
        /\ fileName(a) = fileName(b) => a = b \/ (a.isNamed /\ b.isNamed /\ a.name = b.name)
        /\ h = k /\ a.directory = b.directory => a = b

\* The release and the job that an entry l of should_be_locked_before names are t's, a job
\* of group g; of a director only the job is looked at.
IsNamed(g, t, l) == t.name = l.job /\ (pc = "director" \/ ReleaseOf[<<g, t.name>>] = l.release)

\* Does bbr get to know the release of t?  That of an addon only if the manifest has it.
IsListed(g, t) == pc = "director" \/ FindOp(JobPath(isV2Manifest, g, t.name))

\* Does the lock orderer lock t after j?
IsSpecified(orderer, t, j) == [job |-> t.name, release |-> t.release] \in Before(orderer, j)

\* The lock order a job's metadata asks for, of backups and of restores, is the order
\* the jobs get, from a manifest of either version and on a director: no job is locked
\* after another that does not name it, and one that is named is, with one exception.  A
\* job the manifest does not list, an addon, has no release for bbr: the order that names
\* it is dropped, without a word, and it alone.
LockOrdersResolve ==
    Found \/ pc = "director" =>
        \A h, k \in Hosts : \A j \in jobs[h], t \in jobs[k] :
            LET g == GroupOf[k]
                m == printed[<<GroupOf[h], j.name>>]
                resolves(orderer, asked) ==
                    IsSpecified(orderer, t, j)
                        <=> IsListed(g, t) /\ \E l \in asked : IsNamed(g, t, l)
            IN  j.metadata # NoMetadata =>
                    resolves("backup", m.backupBefore) /\ resolves("restore", m.restoreBefore)

=============================================================================
