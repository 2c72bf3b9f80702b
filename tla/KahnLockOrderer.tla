--------------------------- MODULE KahnLockOrderer ---------------------------
(***************************************************************************)
(* orderer/kahn_lock_orderer.go: the order in which the lock scripts of a  *)
(* deployment's jobs run.  Each job's metadata names job specifiers        *)
(* (name, release) that it must be locked before; Order turns them into    *)
(* dependencies between the jobs of the deployment and peels the           *)
(* dependency graph layer by layer.  The result is a list of batches, or   *)
(* the error "job locking dependency graph is cyclic".                     *)
(*                                                                         *)
(* A list of jobs or of dependencies is modelled by the set of its         *)
(* elements: no caller depends on the order inside a batch.                *)
(***************************************************************************)
EXTENDS Naturals, Sequences, FiniteSets

CONSTANTS
    Jobs,                \* the jobs of the deployment's instances
    Name,                \* job -> its name
    Release,             \* job -> the release it comes from
    InstanceIdentifier,  \* job -> the instance it runs on
    Specifiers           \* the <<name, release>> pairs metadata may mention

\* An instance runs at most one job of a given name.
ASSUME JobIdentityAssumption ==
    \A j, k \in Jobs :
        Name[j] = Name[k] /\ InstanceIdentifier[j] = InstanceIdentifier[k] => j = k

\* A specifier is a pair: orchestrator.JobSpecifier{Name, Release}.
ASSUME SpecifierAssumption == \A s \in Specifiers : s = <<s[1], s[2]>>

VARIABLES
    before,               \* job -> specifiers of the jobs to lock after it
    jobs,                 \* the jobs not yet placed in a batch
    lockingDependencies,  \* the dependencies not yet satisfied
    orderedJobs,          \* the batches made so far
    pc                    \* "find", "order", then the result: "ordered" or "cyclic"

vars == <<before, jobs, lockingDependencies, orderedJobs, pc>>

-----------------------------------------------------------------------------

AreTheSameJob(left, right) ==
    /\ Name[left] = Name[right]
    /\ InstanceIdentifier[left] = InstanceIdentifier[right]

FindJobsBySpecifier(js, specifier) ==
    {j \in js : Name[j] = specifier[1] /\ Release[j] = specifier[2]}

FindLockingDependencies(js, bef) ==
    {d \in [Before : js, After : js] :
        \E specifier \in bef[d.Before] : d.After \in FindJobsBySpecifier(js, specifier)}

\* A plausible bug: a single blocking dependency is overlooked.
JobsThatCanBeLockedOffByOne(js, dependencies) ==
    {j \in js : Cardinality({d \in dependencies : AreTheSameJob(d.After, j)}) <= 1}

JobsThatCanBeLocked(js, dependencies) ==
    {j \in js : ~ \E d \in dependencies : AreTheSameJob(d.After, j)}

RemoveJobs(js, jobsToRemove) ==
    {j \in js : ~ \E k \in jobsToRemove : AreTheSameJob(k, j)}

\* A plausible bug: the dependencies dropped are those of which a locked job is After.
RemoveDependenciesOnAfter(dependencies, js) ==
    {d \in dependencies : ~ \E j \in js : AreTheSameJob(d.After, j)}

RemoveDependenciesThatHaveAnyOneJobInBefore(dependencies, js) ==
    {d \in dependencies : ~ \E j \in js : AreTheSameJob(d.Before, j)}

-----------------------------------------------------------------------------

Init ==
    /\ before \in [Jobs -> SUBSET Specifiers]
    /\ jobs = Jobs
    /\ lockingDependencies = {}
    /\ orderedJobs = <<>>
    /\ pc = "find"

\* Order, first half: collect the dependencies from the jobs' metadata.
Find ==
    /\ pc = "find"
    /\ lockingDependencies' = FindLockingDependencies(jobs, before)
    /\ pc' = "order"
    /\ UNCHANGED <<before, jobs, orderedJobs>>

\* One iteration of the Kahn loop that finds jobs to lock.
LockBatch ==
    LET jobsToLock == JobsThatCanBeLocked(jobs, lockingDependencies) IN
    /\ pc = "order"
    /\ jobs # {}
    /\ jobsToLock # {}
    /\ jobs' = RemoveJobs(jobs, jobsToLock)
    /\ lockingDependencies' =
           RemoveDependenciesThatHaveAnyOneJobInBefore(lockingDependencies, jobsToLock)
    /\ orderedJobs' = Append(orderedJobs, jobsToLock)
    /\ UNCHANGED <<before, pc>>

\* A plausible bug: the iteration that finds no job to lock is tried again.
RejectCycleSpinning ==
    /\ pc = "order"
    /\ jobs # {}
    /\ JobsThatCanBeLocked(jobs, lockingDependencies) = {}
    /\ UNCHANGED vars

\* The iteration that finds none: the graph is cyclic and no order is returned.
RejectCycle ==
    /\ pc = "order"
    /\ jobs # {}
    /\ JobsThatCanBeLocked(jobs, lockingDependencies) = {}
    /\ orderedJobs' = <<>>
    /\ pc' = "cyclic"
    /\ UNCHANGED <<before, jobs, lockingDependencies>>

\* The loop is over: every job is in a batch.
Return ==
    /\ pc = "order"
    /\ jobs = {}
    /\ pc' = "ordered"
    /\ UNCHANGED <<before, jobs, lockingDependencies, orderedJobs>>

Next == Find \/ LockBatch \/ RejectCycle \/ Return

\* Order is a loop of one goroutine that waits for nothing.
Spec == Init /\ [][Next]_vars /\ WF_vars(Next)

-----------------------------------------------------------------------------

\* The dependencies metadata asks for, stated over pairs of jobs: j must be
\* locked before k when j's metadata names k's name and release.
MustPrecede(j, k) == <<Name[k], Release[k]>> \in before[j]

\* A set of jobs none of which can ever be locked first.
Knot(S) == S # {} /\ \A k \in S : \E j \in S : MustPrecede(j, k)

\* Every variable has its type: the batches are sets of jobs, the
\* dependencies relate jobs of the deployment.
TypeOK ==
    /\ before \in [Jobs -> SUBSET Specifiers]
    /\ jobs \in SUBSET Jobs
    /\ lockingDependencies \in SUBSET [Before : Jobs, After : Jobs]
    /\ orderedJobs \in Seq(SUBSET Jobs)
    /\ pc \in {"find", "order", "ordered", "cyclic"}

\* When Order returns batches, a job that its metadata wants locked before
\* another is in a strictly earlier batch than every instance of that other.
DependenciesRespected ==
    pc = "ordered" =>
        \A m, n \in DOMAIN orderedJobs : \A j \in orderedJobs[m], k \in orderedJobs[n] :
            MustPrecede(j, k) => m < n

\* When Order returns batches, every job of the deployment is in exactly one.
EveryJobInOneBatch ==
    pc = "ordered" =>
        /\ \A j \in Jobs : \E n \in DOMAIN orderedJobs : j \in orderedJobs[n]
        /\ \A m, n \in DOMAIN orderedJobs :
               orderedJobs[m] \cap orderedJobs[n] # {} => m = n

\* Order reports a cyclic graph exactly when the constraints cannot be met by
\* any order: it never rejects a deployment that could be locked, and it never
\* returns an order for one that could not.
CyclicMeansUnorderable ==
    /\ pc = "cyclic" => \E S \in SUBSET Jobs : Knot(S)
    /\ pc = "ordered" => ~ \E S \in SUBSET Jobs : Knot(S)

\* No job waits longer than its dependencies require: a job in a batch after the
\* first has a job it must follow in the batch just before.
BatchesAreEarliest ==
    \A n \in 2 .. Len(orderedJobs) : \A k \in orderedJobs[n] :
        \E j \in orderedJobs[n - 1] : MustPrecede(j, k)

\* Order returns: with an order or with the error, on every graph.
OrderReturns == <>(pc \in {"ordered", "cyclic"})

=============================================================================
