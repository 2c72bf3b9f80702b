# A verification project for bosh-backup-and-restore (bbr)

bbr backs up and restores BOSH deployments and directors. It connects over ssh
to the instances of a deployment, runs the lock, backup and unlock scripts of
their jobs in an order the jobs' metadata asks for, copies the artifacts to the
operator's machine and cleans up. What has to be right is what happens when
something in between goes wrong: a script that fails, a connection that is lost,
a process that is interrupted. The modules here model that part of the code.

## The system: inventory

| component | state it keeps | operations | hard behaviour | what makes it correct |
|---|---|---|---|---|
| `orderer` (Kahn lock orderer) | jobs still to place, dependencies still open, batches made | `Order` | cyclic graphs, one specifier for many jobs or for none | batches respect the metadata, partition the jobs, reject exactly the cyclic graphs |
| `executor` (parallel, serial) | guard and errs channels, goroutines | `Run(batches)` | interleavings, blocking channels, failures | every executable once, batch after batch, all errors returned, no deadlock |
| `orchestrator/workflow.go` and the five graphs | current node, errors collected | `Run` | every step can fail; `os.Exit` anywhere | no step runs whose preconditions failed; unlock and clean-up are never skipped; runs end |
| `orchestrator` steps, `deployment`, `instances` (backup, backup-cleanup, pre-backup-check) | session, `ArtifactDirCreated` per instance | one `Run` per step | partial failure on some of many jobs; crashes and what a later command makes of the remains | locks held while backing up; what is left is reported; clean-up restores; nothing of an earlier command is destroyed |
| `orchestrator` steps (restore, restore-cleanup) | the same | one `Run` per step | uploads that fail half way | the same, for restore |
| `orchestrator/error.go`, `cli/command/utils.go` | none | exit codes, footers | which of several errors decide | the operator is advised to clean up when there is something to clean up |
| `bosh` (director client, deployed instance) | ssh users per instance | `FindInstances`, `Cleanup`, `CleanupPrevious` | failing half way through a loop over groups and hosts | users made are removed or reported |
| `instance` (jobs, scripts, job finder, metadata), `bosh` (manifest querier) | scripts found, metadata, artifact names | `FindJobs`, `Backup`, `Restore`, lock and unlock | disabled jobs, backup-one-restore-all, two versions of the manifest, a bootstrap VM that changes | a restore asks for the artifacts the backup recorded; no two artifacts share a file; the metadata's lock order is the one the jobs get |
| `backup` (local directory) | metadata file, artifact files | `Create`, `CreateArtifact`, `AddChecksum`, `AddFinishTime`, `Valid`, `DeploymentMatches` | parallel read-modify-write, failed saves | a recorded checksum is that of a whole artifact; an invalid backup is not restored |
| `ssh` (connection, remote runner) | the shared dialler, a keep-alive goroutine per session | `Run`, `Stream`, `StreamStdin`, and the commands of `RemoteRunner` | how a lost connection is reported, output that is cut short, a silent peer | what is verified is whole, what is inspected is true, no panic, sessions end |
| `standalone` (director) | as `bosh`, without ssh users | `Find`, `Cleanup` | | as above |
| `cli/command/all_deployments.go`, `executor/deployment` | channels as in `executor` | a command per deployment | merging errors | every deployment is tried; all errors are reported |
| `readwriter` | bytes buffered, percentage logged | `Write`, `Pause`, `Resume` | pauses during writes; empty artifacts | nothing is lost or repeated |
| `cmd/bbr`, `cli`, `factory` | flags, the SIGINT handler's goroutine | ten commands | a question asked beside a running workflow, an exit at any answer | every run ends, unlocked and cleaned up or with the right advice |
| `s3-config-validator` (a tool of its own) | the configuration, the answers so far | `isValid`, seven probes | objects that come and go during a listing, failing requests | a true verdict, a complete report |

How they interact: a command of `cli` builds a workflow (`factory`) and runs it
with a fresh `Session`. `FindDeploymentStep` stores the `Deployment` in it,
`CreateArtifactStep` the local `Backup`. The lock and unlock steps give the
batches of the orderer to an executor, whose executables call `Job`, which runs a
script through `RemoteRunner` over a new ssh connection. `DrainStep` gives one
executable per artifact to the same executor; they share the local `Backup` and
its mutex. `CleanupStep` goes over the instances one by one. A SIGINT is handled
in a goroutine of its own that asks the operator and calls `os.Exit`.

The hazards of this code, each at its line, are listed in `PROJECT.json`.

## Modules

| module | models | uses |
|---|---|---|
| `KahnLockOrderer` | `orderer/kahn_lock_orderer.go` | |
| `Batches`, `BatchRun` | the argument of `Executor.Run` and what its callers rely on (abstract) | |
| `ParallelExecutor` | `executor/parallel.go` | implements `BatchRun` |
| `Workflows` | the graphs built by `NewBackuper`, `NewBackupCleaner`, `NewBackupChecker`, `NewRestorer`, `NewRestoreCleaner` | |
| `WorkflowRun` | `orchestrator/workflow.go` over those graphs | `Workflows` |
| `BbrProcess` | a process: `cmd/bbr`, `cli/flags`, the `Action`s, `factory`, `BuildClient`, `trapSigint`, `PausableWriter` | extends `WorkflowRun` |
| `BackupRun` | the steps of backup, backup-cleanup and pre-backup-check, the deployment and the local backup | `Workflows`; implements `WorkflowRun` |
| `RestoreRun` | the steps of restore and restore-cleanup, of a deployment or of a director | `Workflows`; implements `WorkflowRun` |
| `FindInstances` | `Client.FindInstances` of `bosh/client.go` | |
| `JobFinder` | the job finder, metadata, manifest querier, jobs' artifact names, the files and records they lead to | extends `FindInstances` |
| `RemoteRunner` | what each operation of `ssh/remote_runner.go` returns for each way a session ends | |
| `Sessions` | `ssh/connection.go`, the download and upload executables and a host's inspection over it, `LogPercentage` | `RemoteRunner` |
| `BackupDirectory` | `backup/backup_directory.go` under the parallel downloads of the drain step | |
| `AllDeployments` | exit codes and advice; `--all-deployments` and its executor | `Workflows`; implements `BatchRun` |
| `S3ConfigValidator` | the command `s3-config-validator` | |
| `MC...` | the constants of the runs | |
| `...Proofs` | theorems | |

**KahnLockOrderer.** `jobs`, `lockingDependencies` and `orderedJobs` are the
variables of `orderJobsUsingTheKahnAlgorithm`; `before` is what
`orderConstraintSpecifier.Before` returns for each job and is arbitrary. One
action per iteration of the loop, one for each of its exits. Lists are sets.

**ParallelExecutor.** The caller's loop position is `batch`, `dispatched` and
`received`; each executable has a goroutine with a program counter; `guard` and
`errs` are the two channels made for each batch. `Dispatch` and `Report` block as
sends on a full channel do. It is mapped to **BatchRun**: `status` of every
executable, and the errors returned. The serial executor, two nested loops, is
the way `RestoreRun` runs its lock and unlock scripts.

**WorkflowRun.** One action per iteration of the loop in `Workflow.Run`; where it
goes is looked up in `Workflows`, one operator per constructor and edge kind.

**BbrProcess** runs `WorkflowRun` inside a process. `line` is the command line,
`phase` where main is: `Before` and `Action` are the checks of the flags,
`BuildBoshClient`, `ListAll`, `SetUp` and `Begin` the client and the wiring, `Work` a
step of the workflow, which logs a line (`Log`), `Return` the end. With
`--all-deployments` a deployment logs into a buffer of its own (`own`), which no SIGINT
pauses, and `TellEnd` prints that buffer to the terminal if the deployment has failed.
`notices` counts what is printed with `fmt.Print` and the like, past the log writer:
errors, results, and when the action of a deployment begins and ends. One deployment of
all is followed, so that the prints of the others are left out, and what a SOCKS5
proxy logs to stderr is too. What a factory
puts together is a record (orderer, executors, deployment manager), and `Command`
says which factory a command uses. `Interrupt` sends a SIGINT (`MaxSignals` in
all), one of which the channel holds; `TakeSignal`, `Ask`, `Confirm`, `Decline` and
`ResumeLog` are the loop of `trapSigint`, interleaved with everything above. Lines
are numbered, so that `LogIsKept` sees a loss, a repetition and a change of order.

**BackupRun.** The state of the process is `cmd`, `unsafe` (--unsafe-lock-free),
`node`, `errs`, `created` (`ArtifactDirCreated`), `artifact`, and for the step
under way `pending`, `running` and `failed`. The state of the deployment is which
jobs are `locked`, which instances have an artifact directory (`dir`), what is in
it (`remote`), which have the command's ssh user (`users`) and which scripts run
on without a bbr process waiting for them (`orphans`). The local backup is
`metadata` and `local`, the artifacts whose checksums are recorded. `Begin` is an
operator running a command; `Find`, `Backupable`, `CreateArtifact` and
`AddFinishTime` are steps that are one action; the lock, backup, unlock, drain
and clean-up steps are loops over `pending`: `StartScript`,
`CreateDirectoryFails`, `EndScript` and `LoseScript` are the life of one script,
`DrainArtifact` one download, `CleanInstance` the clean-up of one instance, and
`FinishStep` the return of the loop, always into the next step of the graph.
`Exit` is `os.Exit` in the SIGINT handler, or a kill, at any point. The scripts
are external: a script ends in success, or in failure with or without its effect.
A script whose connection is lost becomes an orphan, which may end in any way at
any time. `Level`, the batch of a job, stands for the result of the orderer, of
which `DeploymentAssumption` takes only what `OrderIsSound` proves; `cyclic` is
whether the orderer rejects the graph.

Abstractions in `BackupRun`: `mkdir -p` answered by io.EOF counts as made; a job
without the script of a step is left out of the step's work, as its `Execute`
returns nil at once; one deployment and one command at a time.

**RestoreRun** has the same shape. In place of the local metadata, `local` says of
each job's artifact whether the backup has it and the metadata record it rightly;
`data` is the data of a job: as before, between, or as restored. Uploads
(`StartUpload`, `StartUploadFails`, `StreamFails`, `EndUpload`) run in parallel,
each making the directory, streaming, marking the instance and comparing checksums
in the order of `BackupUploadExecutable.Execute`. Lock and unlock scripts run one
at a time, batch after batch. The restore scripts run instance after instance
(`Current` is the one begun) and no further instance is begun after one that
failed (`RestoreMayRun`). `Director` selects the standalone instance's `Find`,
which makes no ssh users, and `Cleanup`.

Abstractions in `RestoreRun`: an upload ends with its process or connection, for
the command at the other end reads from it; an artifact has at least one file;
an artifact that several jobs share by name is given per job; initially a backup
may have left its directories.

**FindInstances.** The loops over instance groups (`todo`) and over the hosts of
one (`hosts`), `slugs`, the groups that `SetUpSSH` was called for, and `users`,
the hosts that have the user. One action per way through the body of a loop and
per early return; `cleanupAlreadyMadeConnections` is a loop too, and a request
that the director does not answer may have had its effect (`unanswered`). All
hosts of a group are assumed to have the same jobs.

**JobFinder** gives every host of `FindInstances` its jobs when the host is
inspected. `FilesOn` are the files under a group's `bin/bbr` directories and
`printed` is what each metadata script prints, any of `Printable`; `FindJobs` goes
from them to job records as `FindJobs` and `buildJobs` do, with `FindReleaseName` and
`IsJobBackupOneRestoreAll` asking a manifest of either version (`FindOp`, the lookup
in it, is external). A job the manifest does not list, an addon, gets no release, and
then no lock order that names it applies (`IsListed` in `LockOrdersResolve`). Names are tuples, so that a name put together from others is
their concatenation with a separator, as in the code: `fileName` and the artifact
names are modelled by what they produce. After a find, `SearchAgain` keeps what the
backup recorded and finds the deployment once more, with any bootstrap VM, for its
restore; `FindDirector` is the standalone find, whose metadata loses its releases.
Its variables are beside those of `FindInstances`, whose actions are unchanged, so
that the theorems about them hold here too.

**RemoteRunner** has no state: `Endings` are the ways a session ends (an exit status,
zero or not, none, an io.EOF, another error, a local write that failed), `RunInSession`
what the connection makes of one, and the other operators what each operation returns
for it and for the output that came.

**Sessions.** A download, an upload and an inspection are each a sequence of steps
(`NextStep`), local or in a session. All connect through `CreateDialContextFunc`,
with its two locked regions apart, in any order; from there on they share nothing
and one, any one, is followed (`turn`). `Dial`, `CopyFile`, `WriteFails`,
`ReadFails`, `CloseSession`, `EndSession` and `EndClosedSession` are a session's
life, and `FallSilent` is a peer that does not answer the close of one; `CheckTerminate`, `Reply` and `Sleep` that of its keep-alive goroutine. `total`,
`last` and `logged` are `LogPercentage` with its integer division. The artifact is
files of a fixed number of bytes; `Blocks` are the sizes du may report, 0 and less
than the stream's included.

**BackupDirectory.** Each download goes through `Execute` of
`BackupDownloadExecutable`: create the file, copy, compare, take the mutex and
read the metadata, save it with the new entry, delete the remote artifact.
`entries` is what the metadata file says; a write that fails or that the process
does not survive (`TornSave`) leaves the old text, one that cannot be parsed, or
one that can: `Truncations` are the files that a text cut short may be parsed as, with
fewer entries and perhaps one more whose checksums are missing ("bare", its name whole or
cut short as well) or incomplete ("cut"). `Matches` is what `Valid` makes of an entry: it
compares maps of checksums, so one without any agrees with an artifact whose file is
not there or holds none, and with no other. Times are left out. `NamesAssumption` says that two
artifacts have two files: the code does not ensure it for two jobs of one name and
release with backup-one-restore-all in two instance groups.

**AllDeployments.** `Returns(w)` is the set of error lists that `Workflow.Run` can
return for a workflow, computed from its graph; `Class` gives each error the type
its step makes. `Single` is a command for one deployment or a director. The rest is
the executor, with the channels as in `ParallelExecutor`, and `runForAllDeployments`,
its end. Interruptions are in `BbrProcess`, `BackupRun` and `RestoreRun`.

**S3ConfigValidator.** A configuration says of each field whether it is there.
`validateConfig` is the set of its faults; `NewProbeRunners` the runners, each a bucket
with its credentials and its list of probes. `todo` is what is left to ask, `page`
the listing under way with the objects still to be asked for. A listing and the
requests for its objects are steps of their own, with `OthersPut` and `OthersDelete`
between them; `Refused` is a request that fails for no fault of the configuration.
Permissions are external: `Store` gives them per bucket and kind of credentials.

## Runs

| run | checks | instance |
|---|---|---|
| `lock_order` | `DependenciesRespected`, `CyclicMeansUnorderable`, `OrderReturns` | four jobs: one job on two instances, two jobs of one name from two releases, a specifier without a job; every assignment of specifiers, 65536 graphs |
| `parallel_executor` | `ImplementsBatchRun`, `RunTerminates`: the promise of `Run`, and no blocked goroutine | batches of 4, 0 and 2 executables, `maxInFlight` 2: a batch larger than the guard, an empty one, and goroutines of a past batch |
| `bbr_process` | `LogIsKept`, `QuestionStandsAlone`, `AdviceUndoes`, `RunEndsCleanly` | all command lines of all ten commands, help and unknown commands; all five graphs, any step failing; two SIGINTs, so that one comes while another's question is open |
| `backup_runs` | `BackupWhileLocked`, `LockNesting`, `LeftoversAreReported`, `SuccessMeansComplete`, `CleanupRestores`; `FollowsWorkflow`: `BackupRun` implements `WorkflowRun`, with its fairness | a locked database, an api that must be locked before it on an instance of its own, a blobstore without locks; two commands one after the other, so that the second meets whatever the first left; one connection lost at a time, any number of scripts orphaned by an exit |
| `eof_is_success` | expected to fail: see Findings | the same deployment, one command |
| `restore_runs` | `RestoreWhileLocked`, `AllVerifiedFirst`, `SuccessMeansRestored`, `AtMostOneInstanceMixed`, `RestoreCleanupRestores`, `FollowsWorkflow` | the same jobs, all of them restored, the artifacts of two of them absent, unrecorded, recorded or corrupt, that of the third, a second job of its instance, in order; two commands |
| `upload_failure_cleanup` | expected to fail: see Findings | a director with one job, one command |
| `all_deployments` | `ResultsAreTold`, `LeftoversAreAdvised`, `ExitCodeTells`, `CommandExits` | three deployments, two in flight, at most three errors in all; a single command with any list of errors |
| `find_instances` | `FailureCleansUp`, `UsersHaveOwners`, `RestoreFindsBackup`, `ArtifactsHaveTheirOwnFiles`, `LockOrdersResolve` | a group of three hosts, one of them Windows, with an addon that may be missing from the manifest; a group with the same backup-one-restore-all job and a disabled one; a group whose only scripts are MySQL's; group and job names that have a hyphen in common; a find for a backup and one for its restore; a director |
| `local_backup` | `ValidAtAnyTime`, `NoChecksumLost`, `OneWholeCopy`, `DrainEnds` | three artifacts, and a file name that is that of one of them cut short |
| `ssh_sessions` | `VerifiedMeansWhole`, `InspectionIsTrue`, `CrashHasCause`, `SessionsEnd` | a download, an upload and an inspection; two files, so that a stream can be cut between them and inside each; sizes of 0, 1 and 4 blocks for a stream of 1400 bytes |
| `s3_validator` | `VerdictIsTrue`, `ReportIsComplete` | every configuration of one bucket (4 names, every field there or not, 4 backups) and one of two; three buckets, with two, one and no objects; pages of one object, one object that others put |

The bounds: `MaxRuns` is 2 because every property relates one command to what
one earlier command left; `MaxOrphans` is 1 because the properties that speak of
orphans are conditioned on their absence; `MaxErrors` is 3 because advice and exit
code depend on whether an error of a class is among them, and three are enough to
have one deployment fail in two ways, or each in one. The proofs do not depend on
the value of any bound. Deadlock is not checked where the system may stop: after
the last command, and when a function or process modelled has returned. Two
`Tasks` of one kind would share nothing but the dialler, which three tasks of
different kinds share as well; two SIGINTs are the most that the handler can meet at
once, as its channel holds one. The type invariants
of the modules with proofs are proved and not in the runs.

Because `BackupRun` and `RestoreRun` implement `WorkflowRun` with its fairness,
what `bbr_process` shows of the graphs (that a run ends, and comes to its unlock and
clean-up steps) holds of the detailed commands. Both take the edges from `Workflows`, so
`FollowsWorkflow` does not see a wrong one: `RunEndsCleanly`, `BackupWhileLocked` and
`RestoreWhileLocked` do.

Fairness. `Order`, the executors and the workflow engine are loops that wait for
nothing but channels and the steps they call: the Go scheduler runs every
goroutine that can run. `BackupRun`, `RestoreRun`, `BackupDirectory`, `AllDeployments`
and `ParallelExecutor` assume in addition that every remote command returns, with
an answer or an error. The code does not guarantee it: the keep-alive loop of
`ssh/connection.go` has no time limit. `BbrProcess` is fair to main and not to the
handler, which waits for an operator. `Sessions` is fair to what bbr itself does: to the
steps of the keep-alive goroutine, and to the return of its request once `client.Close`
was called. Of the peer it assumes only that it answers the close of a session unless it
has fallen silent (`FallSilent`): `session.Close` sends a message, `session.Run` returns
with the answer, there is no deadline, and `client.Close` is deferred until after it. So
a silent peer blocks a download for ever, whatever happens on this side. No fairness is assumed of operators, of exits or of orphans, and
`S3ConfigValidator` and `JobFinder` need none.

## Findings

`eof_is_success`: `runInSession` takes a session that ends in io.EOF for exit
code 0 ("This is okay and should not abort the session"). The run shows a backup
that ends without an error though one of its artifacts is not whole.
`SuccessMeansComplete` holds where no session ended so.

`upload_failure_cleanup`: an upload that fails after it made the artifact directory
does not mark the instance, so that the clean-up step of restore skips it, without
an error, and the next restore refuses. `restorer_test.go` asks for a clean-up in
that case.

Behaviours that the properties are worded around: `AddFinishTime` drops the error
of its save (`SuccessMeansComplete` speaks of backups whose finish time was
saved); a job with a lock script but no unlock script stays locked (the properties
speak of jobs that can be unlocked); ssh users on Windows hosts and on the other
hosts of a group without scripts are nobody's to remove (`UsersHaveOwners`);
a host key that cannot be parsed makes `FindInstances` return without the clean-up of
ssh users that each of its other failures makes (`FailureCleansUp` excepts it);
a lock order that names an addon the manifest does not list is dropped without a word, for
bbr has no release for such a job (`LockOrdersResolve` says that it is, and no other);
metadata cut short may have an entry without some of its checksums, and `Valid` then
refuses a directory whose artifacts may be whole (`ValidAtAnyTime` says what entries with
all their checksums mean, and that there are no others if no write was cut short);
with `--all-deployments` the beginning and end of each deployment's action, and the whole
log of one that failed, are printed past the paused writer, into an open SIGINT question
(`QuestionStandsAlone` is about the steps of the workflow); a peer that does not answer
the close of a session blocks `session.Run` (`SessionsEnd` excepts it);
restore-cleanup installs the SIGINT handler of a backup, which advises
`backup-cleanup` (`AdviceUndoes` excepts it); a session that ends in io.EOF with its
output unread, and an artifact of 0 blocks, panic (`CrashHasCause` says that nothing
else does); a backup-one-restore-all job in two groups has one file
(`ArtifactsHaveTheirOwnFiles`); `deployment --all-deployments restore` is accepted and
looks for a deployment without a name; the validator finds nothing wrong with the
permission to get objects from a bucket it has met no object of (`VerdictIsTrue`);
restore never advises a clean-up (`LeftoversAreAdvised` is about backup and
pre-backup-check), and its lock errors have no exit code of their own.

## Theorems

`KahnLockOrdererProofs` proves, for any finite or infinite set of jobs and any
metadata: types, `DependenciesRespected`, `EveryJobInOneBatch` (the batches
partition the jobs),
`CyclicMeansUnorderable` and `BatchesAreEarliest`. Assumptions: an instance runs
at most one job of a name; specifiers are pairs. The inductive invariant
(`IInv`) relates the two lists the loop shrinks to what it has built: the open
dependencies are exactly those between a job that is not placed and another, and
each placed job has all its predecessors in earlier batches and one in the batch
just before. Exactness of the cycle detection needs it in both directions: the
jobs left when none is free form a knot, and no knot survives when all are
placed.

`BackupRunProofs` proves, for any deployment that satisfies
`DeploymentAssumption` and any number of commands, failures, orphans and exits:

- `TypeCorrect`: types; in particular no step leads outside its workflow.
- `BackupOnlyWhileLocked` from `LockedInv`: during the lock step every job with a
  lock script is locked, being locked or still to come, unless something failed,
  and only a lock step without failure leads to the backup step.
- `LeftoversAreKept` from `KeptInv`: a session that found directories never gets
  past its pre-check, so never marks one as its own.
- `CleanupDoesRestore` from `DirsInv` (directories are only where backup scripts
  are, orphans included) and `RestoredInv` (what is still locked, or still has a
  directory, is still to come).
- `LocksNest`: `LockNesting` is inductive beside `LockedInv` and `SettledInv`
  (nothing is locked before the lock step; while locks are released, only a job whose
  unlock script is to come, or under way, is locked). It needs the lock
  order to be acyclic, which is what `Level` in `DeploymentAssumption` says and the
  lock orderer establishes.
- `LeftoversAreTold` (`LeftoversAreReported`) from `ReportedInv`: each kind of
  leftover has the error of the step that should have removed it, through every path
  of the graph.
- `SuccessIsComplete` (`SuccessMeansComplete`) from `WholeInv`: an artifact is whole
  on its instance until the drain, and here after it, unless something failed.
- `ImplementsWorkflowRun`: every step of a command is one of `Workflow.Run`, or none.
  This is `FollowsWorkflow` without its fairness.

`RestoreRunProofs` proves the same four for restore and restore-cleanup, from the
counterparts of those invariants, and `VerifiedBeforeLocking`, from `VerifiedInv`:
an artifact whose upload is over without a failure in the step is whole on its
instance, and only a copy step without failure leads to the lock step. It also proves
`SuccessIsRestored` from `DoneInv` (what a restore that has no error so far has done
at each step), `OneInstanceMixedAtMost` from `MixedInv` (data in between are on the
one instance that is begun and not done with: instances are restored one after the
other), and `ImplementsWorkflowRun`.

`JobFinderProofs` is about both searches, the backup's and that of the restore of a
deployment that was recreated since. For any instance groups and hosts it proves
`FailuresCleanUp` and `UsersAreOwned` from `UsersInv` (a user is on a host of a group
in `slugs`, or where the director did not answer) and `GroupsAreFound` from `FoundInv`
(of each group done with, what was found is what the property asks for), first for
`FindInstances` alone, then, as `BothSearchesKeepTheirPromise`, for the two searches
with the job finder. `SearchInv` adds what the job finder keeps: a host's jobs are what
its scripts, metadata and manifest make of them (`JobsInv`), and the backup has a record
for every host a restore may ask about, whichever VM was the bootstrap node
(`RecordedInv`). From it follow `RestoresFindBackups` and `LockOrdersDoResolve` (a job is
locked after another just when that one's metadata names it and the manifest lists it), the
latter with lemmas about the manifest querier: the paths of jobs do not meet, for
either version of the manifest, so that a look-up finds what was listed for that job.
`FilesAreTheirOwn` is `ArtifactsHaveTheirOwnFiles` under a hypothesis on the names,
`NamesAreToldApart`: no index is a word of the name of a group or of a shared artifact,
and no job has the name of a shared artifact. The index then splits a file's name
(`IndexSplitsName`). It cannot be dropped: names are joined with dashes, so that group
`db`, index `0`, job `1-x` and group `db-0`, index `1`, job `x` have one file, and the
code does not look for it. `MCJobFinder` assumes it of the names of the run, where TLC
evaluates it.
Assumptions, in `ScriptsAssumption` and `PrintableAssumption`: only a job with a
metadata script can be disabled by one, and an entry of a lock list has a job and a
release, each of which may be empty.

`BackupDirectoryProofs` proves, for any number of artifacts, `AlwaysValid`,
`AlwaysOneWholeCopy`, `ChecksumsAreKept` and `DrainIsComplete` from `SettledInv`
(a file is whole from its comparison on, and entries with all their checksums are of such
files), `KeptInv` (what the holder of the mutex has read is what the file says, so that
its write keeps what was added before) and `WholeInv` (as long as no write was cut short,
the metadata is readable and its entries have all their checksums). `TruncationsAre` says
what a cut adds: entries without all their checksums, of which `AlwaysValid` claims
nothing.

`ParallelExecutorProofs` proves, for any list of batches and any `maxInFlight`, that
the executor implements `BatchRun` (`KeepsThePromise`), that no goroutine waits to send
its result or release its token (`NoGoroutineBlocks`), and that no more than
`maxInFlight` executables are under way (`InFlightIsBounded`). `OrderInv` says where
the goroutines of past, present and coming batches are. `CountInv` counts: the tokens
in a guard channel are the goroutines in flight, and results in the channel and results
received are together those reported; so the caller that has received as many results
as there are executables has received those of all. `FailureInv` keeps track of the
errors. Cardinalities of finite sets, from the library's theorems, are all the
induction it takes.

`CommandProofs` is about the process around a workflow. Of `BbrProcess` it proves, for
any command line and number of signals, `LogKept` from `LogInv`: `WriterInv` (the buffer
is empty unless the writer is paused, which it is while a question is open), `LinesInv`
(terminal and buffer together are the lines logged; for all deployments the deployment's
own buffer is, and the terminal has none or all of them) and `PhaseInv` (no error comes
before the workflow runs). It proves the action property `QuestionAlone`,
`AdviceIsSound` from `AdviceInv` (the handler that is installed has the messages of the
command being run), and `ProcessRunsWorkflow`: a
process takes the steps of `Workflow.Run` or others that leave the workflow alone.

Of `AllDeployments` it proves, for any number of deployments, any `maxInFlight` and any
bound on errors:

- `ResultsToldHolds` (`ResultsAreTold`), `NoDeploymentBlocks` and
  `DeploymentsInFlightAreBounded` from `ListInv`: the counting of
  `ParallelExecutorProofs` for one batch (`ListOrderInv`, `ListCountInv`), and
  `ListFailureInv`, by which a result that was sent is in the channel, or in the
  caller's list if it is a failure's, and nothing else is in that list.
- `DeploymentsAreOneBatch`: the executor of deployments implements `BatchRun` with one
  batch of all of them. This is the promise that `KeepsThePromise` proves of the
  executor of jobs.
- `ExitCodeIsTold` (`ExitCodeTells`). Or-ing bits is modelled as the sum of a set of
  bits, a fold. `SumSetOfBits` says what it sums to: the 16 sets of the bits in use are
  settled by size, from the empty one up, which takes the place of an induction.
- `LeftoversAreTold` (`LeftoversAreAdvised`) from `ToldInv`. A pre-backup-check looks at
  the first error only (`ContainsArtifactDirError`), so one has to know that the error
  of an artifact directory is never behind another: `ArtifactDirComesFirst`. `Returns`
  is a recursive function over the graph; its solution for this graph is written out
  and shown to satisfy the equation, which is all that `CHOOSE` needs.

`SessionsProofs` proves, for any number of tasks, files, sizes and kinds of host,
`VerifiedIsWhole`, `InspectedIsTrue` and `PanicHasCause`, from `DialInv` (a `dialFunc`
that was read as set stays set, so whoever is past its connection has one) and an
account of each kind of task: `DownloadInv`, `UploadInv`, `DeletedInv`, `InspectInv`.
`OutputAssumption` says that output that was cut short is told from one that was not.

What these modules prove and no run repeats: the type invariants,
`EveryJobInOneBatch`, `BatchesAreEarliest`, `LeftoverDirectoriesKept`,
`EveryGroupFound`, `DrainIsComplete`, `GoroutinesNeverWait`, the bounds on what is in
flight, and that the executor of deployments implements `BatchRun`.

Model-checked only:

- liveness, out of the prover's reach: `OrderReturns`, `RunTerminates`, `RunEndsCleanly`,
  `CommandExits`, `DrainEnds`, `SessionsEnd`, and the fairness of `FollowsWorkflow`;
- `VerdictIsTrue` and `ReportIsComplete` of `S3ConfigValidator`, about lists of probes
  built from the configuration: what they hold for every configuration takes an
  induction over data.

## Plan

1. (done) `KahnLockOrderer`, the executor, workflows, `BackupRun`, first theorems.
2. (done) `RestoreRun`, for deployments and directors.
3. (done) `BackupDirectory` and `FindInstances`.
4. (done) `AllDeployments`: exit codes, advice, the all-deployments executor.
5. (done) `JobFinder`, `RemoteRunner` and `Sessions`, `BbrProcess` with the pausable
   writer and the SIGINT handler, `S3ConfigValidator`.
6. (done) Theorems: every safety property of `BackupRun`, `RestoreRun`, `BbrProcess`,
   `Sessions`, `BackupDirectory`, `KahnLockOrderer`, `JobFinder` and `AllDeployments`;
   both parallel executors implement `BatchRun`; the commands implement `WorkflowRun`.
   What is left to TLC alone is liveness and `S3ConfigValidator`.

## Not modelled

- Test support, which is most of what is left of the repository: the fakes that
  counterfeiter generates from the interfaces, the mock director and UAA of
  `internal/cf-webmock`, the docker hosts of `testcluster`, the integration and system
  tests, and the pipelines. None of it runs in bbr.
- Wording, the layout of logs and help, stack traces.
- Code without callers: `handleErrs`, `instances.Backup`, `DeployedInstance.Backup`,
  `getFirstTen`, `IsCleanup`, `IsPostBackup`, `IsFatal`, `executor/deployment/serial.go`.
- The director's API beyond what `FindInstances`, `GetManifest` and `CleanUpSSH` use;
  SSH, SOCKS5 and S3 below what their clients return.
- The contents of artifacts: a checksum comparison fails exactly when what was copied
  differs, file by file.
- Two bbr processes at once: the code has no mutual exclusion between them.
