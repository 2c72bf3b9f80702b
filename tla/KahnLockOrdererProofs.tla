------------------------ MODULE KahnLockOrdererProofs ------------------------
(***************************************************************************)
(* The order returned by KahnLockOrderer is right for every deployment and *)
(* every set of constraints.  The invariant of the loop says that the      *)
(* dependencies kept are exactly those whose Before job is not placed yet, *)
(* that the batches and the remaining jobs are pairwise disjoint, that     *)
(* whatever a placed job had to follow is in an earlier batch, and that a  *)
(* knot of jobs is never touched.                                          *)
(***************************************************************************)
EXTENDS KahnLockOrderer, TLAPS

\* The dependencies kept are those of the constraints whose Before job remains.
DepsInv ==
    pc \in {"order", "ordered", "cyclic"} =>
        lockingDependencies =
            {d \in [Before : jobs, After : Jobs] : MustPrecede(d.Before, d.After)}

\* A job remains or is in one batch.
PartitionInv ==
    pc # "cyclic" =>
        /\ \A j \in Jobs : j \in jobs \/ \E n \in DOMAIN orderedJobs : j \in orderedJobs[n]
        /\ \A n \in DOMAIN orderedJobs : orderedJobs[n] \cap jobs = {}
        /\ \A m, n \in DOMAIN orderedJobs : m # n => orderedJobs[m] \cap orderedJobs[n] = {}

\* What a placed job must follow is in an earlier batch.
OrderInv ==
    \A n \in DOMAIN orderedJobs : \A k \in orderedJobs[n] : \A j \in Jobs :
        MustPrecede(j, k) => \E m \in DOMAIN orderedJobs : m < n /\ j \in orderedJobs[m]

\* A remaining job follows a remaining one or one of the last batch.
BlockedInv ==
    orderedJobs # <<>> =>
        \A k \in jobs : \E j \in jobs \cup orderedJobs[Len(orderedJobs)] : MustPrecede(j, k)

\* No job of a knot is ever placed.
KnotInv == \A S \in SUBSET Jobs : Knot(S) => S \subseteq jobs

\* How the loop begins and ends.
ControlInv ==
    /\ pc = "find" => jobs = Jobs /\ orderedJobs = <<>>
    /\ pc = "ordered" => jobs = {}
    /\ pc = "cyclic" => /\ orderedJobs = <<>>
                        /\ jobs # {}
                        /\ \A k \in jobs : \E j \in jobs : MustPrecede(j, k)

IInv ==
    /\ TypeOK
    /\ DepsInv
    /\ PartitionInv
    /\ OrderInv
    /\ BlockedInv
    /\ KnotInv
    /\ ControlInv
    /\ BatchesAreEarliest

-----------------------------------------------------------------------------

\* Two jobs of the deployment that areTheSameJob takes for the same job are.
LEMMA SameJobIsEqual ==
    ASSUME NEW j \in Jobs, NEW k \in Jobs
    PROVE  AreTheSameJob(j, k) <=> j = k
  BY JobIdentityAssumption DEF AreTheSameJob

\* removeJobs takes exactly the given jobs out.
LEMMA RemoveJobsIsDifference ==
    ASSUME NEW js \in SUBSET Jobs, NEW ks \in SUBSET Jobs
    PROVE  RemoveJobs(js, ks) = js \ ks
  BY SameJobIsEqual DEF RemoveJobs

\* findLockingDependencies over all jobs finds the dependencies metadata asks for.
LEMMA FoundDependencies ==
    ASSUME TypeOK
    PROVE  FindLockingDependencies(Jobs, before) =
               {d \in [Before : Jobs, After : Jobs] : MustPrecede(d.Before, d.After)}
  <1>1. ASSUME NEW d \in [Before : Jobs, After : Jobs]
        PROVE  (\E s \in before[d.Before] : d.After \in FindJobsBySpecifier(Jobs, s))
                   <=> MustPrecede(d.Before, d.After)
    <2>1. ASSUME NEW s \in before[d.Before], d.After \in FindJobsBySpecifier(Jobs, s)
          PROVE  MustPrecede(d.Before, d.After)
      BY <2>1, SpecifierAssumption DEF TypeOK, FindJobsBySpecifier, MustPrecede
    <2>2. ASSUME MustPrecede(d.Before, d.After)
          PROVE  d.After \in FindJobsBySpecifier(Jobs, <<Name[d.After], Release[d.After]>>)
      BY DEF FindJobsBySpecifier
    <2> QED
      BY <2>1, <2>2 DEF MustPrecede
  <1> QED
    BY <1>1 DEF FindLockingDependencies

-----------------------------------------------------------------------------

\* The invariant holds before the loop.
LEMMA InitIInv == Init => IInv
  BY DEF Init, IInv, TypeOK, DepsInv, PartitionInv, OrderInv, BlockedInv, KnotInv,
         ControlInv, BatchesAreEarliest

\* Collecting the dependencies establishes what the loop relies on.
LEMMA FindIInv == IInv /\ Find => IInv'
  <1> SUFFICES ASSUME IInv, Find PROVE IInv'
    OBVIOUS
  <1> USE DEF IInv, Find
  <1>1. jobs = Jobs /\ orderedJobs = <<>>
    BY DEF ControlInv
  <1>2. lockingDependencies' =
            {d \in [Before : Jobs, After : Jobs] : MustPrecede(d.Before, d.After)}
    BY <1>1, FoundDependencies
  <1>3. TypeOK'
    BY <1>2 DEF TypeOK
  <1>4. DepsInv'
    BY <1>1, <1>2 DEF DepsInv, MustPrecede
  <1>5. PartitionInv' /\ OrderInv' /\ BlockedInv' /\ ControlInv' /\ BatchesAreEarliest'
    BY <1>1 DEF PartitionInv, OrderInv, BlockedInv, ControlInv, BatchesAreEarliest
  <1>6. KnotInv'
    BY DEF KnotInv, Knot, MustPrecede
  <1> QED
    BY <1>3, <1>4, <1>5, <1>6

\* It holds when the loop is over and the batches are returned.
LEMMA ReturnIInv == IInv /\ Return => IInv'
  <1> SUFFICES ASSUME IInv, Return PROVE IInv'
    OBVIOUS
  <1> USE DEF IInv, Return
  <1>1. TypeOK' /\ ControlInv'
    BY DEF TypeOK, ControlInv
  <1>2. DepsInv' /\ PartitionInv'
    BY DEF DepsInv, PartitionInv, MustPrecede
  <1>3. OrderInv' /\ BlockedInv' /\ BatchesAreEarliest'
    BY DEF OrderInv, BlockedInv, BatchesAreEarliest, MustPrecede
  <1>4. KnotInv'
    BY DEF KnotInv, Knot, MustPrecede
  <1> QED
    BY <1>1, <1>2, <1>3, <1>4

\* jobsThatCanBeLocked returns the remaining jobs that follow no remaining job.
LEMMA FreeJobs ==
    ASSUME IInv, pc = "order"
    PROVE  JobsThatCanBeLocked(jobs, lockingDependencies) =
               {k \in jobs : \A j \in jobs : ~MustPrecede(j, k)}
  <1>1. ASSUME NEW k \in jobs
        PROVE  (\E d \in lockingDependencies : AreTheSameJob(d.After, k))
                   <=> (\E j \in jobs : MustPrecede(j, k))
    <2>1. k \in Jobs /\ jobs \subseteq Jobs
      BY DEF IInv, TypeOK
    <2>2. lockingDependencies =
              {d \in [Before : jobs, After : Jobs] : MustPrecede(d.Before, d.After)}
      BY DEF IInv, DepsInv
    <2>3. ASSUME NEW d \in lockingDependencies, AreTheSameJob(d.After, k)
          PROVE  \E j \in jobs : MustPrecede(j, k)
      <3>1. d.After = k /\ d.Before \in jobs /\ MustPrecede(d.Before, d.After)
        BY <2>1, <2>2, <2>3, SameJobIsEqual
      <3> QED
        BY <3>1
    <2>4. ASSUME NEW j \in jobs, MustPrecede(j, k)
          PROVE  \E d \in lockingDependencies : AreTheSameJob(d.After, k)
      <3>1. [Before |-> j, After |-> k] \in lockingDependencies
        BY <2>1, <2>2, <2>4
      <3> QED
        BY <3>1 DEF AreTheSameJob
    <2> QED
      BY <2>3, <2>4
  <1> QED
    BY <1>1 DEF JobsThatCanBeLocked

\* It holds when no job is free: the jobs left are a knot.
LEMMA RejectCycleIInv == IInv /\ RejectCycle => IInv'
  <1> SUFFICES ASSUME IInv, RejectCycle PROVE IInv'
    OBVIOUS
  <1>1. \A k \in jobs : \E j \in jobs : MustPrecede(j, k)
    BY FreeJobs DEF RejectCycle
  <1>2. ControlInv'
    BY <1>1 DEF ControlInv, RejectCycle, MustPrecede
  <1>3. TypeOK' /\ DepsInv' /\ PartitionInv'
    BY DEF IInv, RejectCycle, TypeOK, DepsInv, PartitionInv, MustPrecede
  <1>4. OrderInv' /\ BlockedInv' /\ BatchesAreEarliest'
    BY DEF RejectCycle, OrderInv, BlockedInv, BatchesAreEarliest
  <1>5. KnotInv'
    BY DEF IInv, RejectCycle, KnotInv, Knot, MustPrecede
  <1> QED
    BY <1>2, <1>3, <1>4, <1>5 DEF IInv

\* The heart of the argument: a batch of jobs that follow no remaining job.
LEMMA LockBatchIInv == IInv /\ LockBatch => IInv'
  <1> SUFFICES ASSUME IInv, LockBatch PROVE IInv'
    OBVIOUS
  <1> DEFINE free == JobsThatCanBeLocked(jobs, lockingDependencies)
             n == Len(orderedJobs)
  <1>1. free = {k \in jobs : \A j \in jobs : ~MustPrecede(j, k)}
    BY FreeJobs DEF LockBatch
  <1>2. jobs \subseteq Jobs /\ free \subseteq jobs /\ n \in Nat /\ orderedJobs \in Seq(SUBSET Jobs)
    BY <1>1 DEF IInv, TypeOK
  <1>3. jobs' = jobs \ free
    BY <1>2, RemoveJobsIsDifference DEF LockBatch
  <1>4. /\ pc = "order" /\ pc' = pc /\ before' = before
        /\ orderedJobs' = Append(orderedJobs, free)
    BY DEF LockBatch
  <1>5. /\ DOMAIN orderedJobs = 1 .. n
        /\ DOMAIN orderedJobs' = 1 .. (n + 1)
        /\ Len(orderedJobs') = n + 1
        /\ orderedJobs'[n + 1] = free
        /\ \A m \in 1 .. n : orderedJobs'[m] = orderedJobs[m]
    BY <1>2, <1>4
  <1> HIDE DEF free, n
  <1>6. lockingDependencies' =
            {d \in [Before : jobs', After : Jobs] : MustPrecede(d.Before, d.After)'}
    <2>1. lockingDependencies =
              {d \in [Before : jobs, After : Jobs] : MustPrecede(d.Before, d.After)}
      BY <1>4 DEF IInv, DepsInv
    <2>2. lockingDependencies' =
              {d \in lockingDependencies : ~ \E j \in free : AreTheSameJob(d.Before, j)}
      BY DEF LockBatch, RemoveDependenciesThatHaveAnyOneJobInBefore, free
    <2>3. ASSUME NEW d \in lockingDependencies
          PROVE  (\E j \in free : AreTheSameJob(d.Before, j)) <=> d.Before \in free
      BY <1>2, <2>1, SameJobIsEqual
    <2>4. lockingDependencies' = {d \in lockingDependencies : d.Before \notin free}
      BY <2>2, <2>3
    <2> QED
      BY <1>2, <1>3, <1>4, <2>1, <2>4 DEF MustPrecede
  <1>7. TypeOK'
    <2>1. orderedJobs' \in Seq(SUBSET Jobs)
      BY <1>2, <1>4
    <2>2. lockingDependencies' \in SUBSET [Before : Jobs, After : Jobs]
      BY <1>2, <1>3, <1>6
    <2> QED
      BY <1>2, <1>3, <1>4, <2>1, <2>2 DEF IInv, TypeOK
  <1>8. DepsInv'
    BY <1>6 DEF DepsInv
  <1>9. PartitionInv'
    <2>1. /\ \A j \in Jobs : j \in jobs \/ \E m \in 1 .. n : j \in orderedJobs[m]
          /\ \A m \in 1 .. n : orderedJobs[m] \cap jobs = {}
          /\ \A l, m \in 1 .. n : l # m => orderedJobs[l] \cap orderedJobs[m] = {}
      BY <1>4, <1>5 DEF IInv, PartitionInv
    <2>2. \A j \in Jobs : j \in jobs' \/ \E m \in 1 .. (n + 1) : j \in orderedJobs'[m]
      BY <1>2, <1>3, <1>5, <2>1
    <2>3. \A m \in 1 .. (n + 1) : orderedJobs'[m] \cap jobs' = {}
      BY <1>2, <1>3, <1>5, <2>1
    <2>4. ASSUME NEW l \in 1 .. (n + 1), NEW m \in 1 .. (n + 1), l # m
          PROVE  orderedJobs'[l] \cap orderedJobs'[m] = {}
      BY <1>2, <1>5, <2>1, <2>4
    <2> QED
      BY <1>5, <2>2, <2>3, <2>4 DEF PartitionInv
  <1>10. OrderInv'
    <2> SUFFICES ASSUME NEW m \in 1 .. (n + 1), NEW k \in orderedJobs'[m], NEW j \in Jobs,
                        MustPrecede(j, k)
                 PROVE  \E l \in 1 .. (n + 1) : l < m /\ j \in orderedJobs'[l]
      BY <1>4, <1>5 DEF OrderInv, MustPrecede
    <2>1. CASE m \in 1 .. n
      <3>1. PICK l \in 1 .. n : l < m /\ j \in orderedJobs[l]
        BY <1>5, <2>1 DEF IInv, OrderInv
      <3> QED
        BY <1>2, <1>5, <3>1
    <2>2. CASE m = n + 1
      <3>1. k \in free
        BY <1>5, <2>2
      <3>2. j \notin jobs
        BY <1>1, <3>1
      <3>3. PICK l \in 1 .. n : j \in orderedJobs[l]
        BY <1>4, <1>5, <3>2 DEF IInv, PartitionInv
      <3> QED
        BY <1>2, <1>5, <2>2, <3>3
    <2> QED
      BY <1>2, <2>1, <2>2
  <1>11. BlockedInv'
    <2> SUFFICES ASSUME NEW k \in jobs'
                 PROVE  \E j \in jobs' \cup free : MustPrecede(j, k)
      BY <1>4, <1>5 DEF BlockedInv, MustPrecede
    <2> QED
      BY <1>1, <1>3
  <1>12. KnotInv'
    <2> SUFFICES ASSUME NEW S \in SUBSET Jobs, Knot(S) PROVE S \subseteq jobs'
      BY <1>4 DEF KnotInv, Knot, MustPrecede
    <2>1. S \subseteq jobs
      BY DEF IInv, KnotInv
    <2> QED
      BY <1>1, <1>3, <2>1 DEF Knot
  <1>13. ControlInv'
    BY <1>4 DEF ControlInv
  <1>14. BatchesAreEarliest'
    <2> SUFFICES ASSUME NEW m \in 2 .. (n + 1), NEW k \in orderedJobs'[m]
                 PROVE  \E j \in orderedJobs'[m - 1] : MustPrecede(j, k)
      BY <1>4, <1>5 DEF BatchesAreEarliest, MustPrecede
    <2>1. CASE m \in 2 .. n
      BY <1>2, <1>5, <2>1 DEF IInv, BatchesAreEarliest, n
    <2>2. CASE m = n + 1
      <3>1. orderedJobs # <<>> /\ m - 1 = n /\ orderedJobs'[m - 1] = orderedJobs[n]
        BY <1>2, <1>5, <2>2 DEF n
      <3>2. k \in free /\ k \in jobs
        BY <1>2, <1>5, <2>2
      <3>3. PICK j \in jobs \cup orderedJobs[n] : MustPrecede(j, k)
        BY <3>1, <3>2 DEF IInv, BlockedInv, n
      <3>4. j \notin jobs
        BY <1>1, <3>2, <3>3
      <3> QED
        BY <3>1, <3>3, <3>4
    <2> QED
      BY <1>2, <2>1, <2>2
  <1> QED
    BY <1>7, <1>8, <1>9, <1>10, <1>11, <1>12, <1>13, <1>14 DEF IInv

-----------------------------------------------------------------------------

\* The loop invariant holds in every state of Order.
THEOREM LoopInvariant == Spec => []IInv
  <1>1. IInv /\ [Next]_vars => IInv'
    <2> SUFFICES ASSUME IInv, [Next]_vars PROVE IInv'
      OBVIOUS
    <2>1. CASE UNCHANGED vars
      <3> USE <2>1 DEF vars, IInv
      <3>1. TypeOK' /\ DepsInv' /\ PartitionInv'
        BY DEF TypeOK, DepsInv, PartitionInv, MustPrecede
      <3>2. OrderInv' /\ BlockedInv' /\ BatchesAreEarliest'
        BY DEF OrderInv, BlockedInv, BatchesAreEarliest, MustPrecede
      <3>3. KnotInv' /\ ControlInv'
        BY DEF KnotInv, ControlInv, Knot, MustPrecede
      <3> QED
        BY <3>1, <3>2, <3>3
    <2> QED
      BY <2>1, FindIInv, LockBatchIInv, RejectCycleIInv, ReturnIInv DEF Next
  <1> QED
    BY <1>1, InitIInv, PTL DEF Spec

\* Type correctness of the orderer.
THEOREM TypeCorrect == Spec => []TypeOK
  <1>1. IInv => TypeOK
    BY DEF IInv
  <1> QED
    BY <1>1, LoopInvariant, PTL

\* The batches Order returns respect every constraint of the metadata: a job is
\* in a strictly earlier batch than each job it must be locked before.
THEOREM OrderIsSound == Spec => []DependenciesRespected
  <1>1. IInv => DependenciesRespected
    <2> SUFFICES ASSUME IInv, pc = "ordered",
                        NEW m \in DOMAIN orderedJobs, NEW n \in DOMAIN orderedJobs,
                        NEW j \in orderedJobs[m], NEW k \in orderedJobs[n],
                        MustPrecede(j, k)
                 PROVE  m < n
      BY DEF DependenciesRespected
    <2>1. j \in Jobs
      BY DEF IInv, TypeOK
    <2>2. PICK l \in DOMAIN orderedJobs : l < n /\ j \in orderedJobs[l]
      BY <2>1 DEF IInv, OrderInv
    <2>3. l = m
      BY <2>2 DEF IInv, PartitionInv
    <2> QED
      BY <2>2, <2>3
  <1> QED
    BY <1>1, LoopInvariant, PTL

\* Every job of the deployment is in exactly one of the batches returned, so that
\* each lock script runs once.
THEOREM OrderIsPartition == Spec => []EveryJobInOneBatch
  <1>1. IInv => EveryJobInOneBatch
    BY DEF IInv, ControlInv, PartitionInv, EveryJobInOneBatch
  <1> QED
    BY <1>1, LoopInvariant, PTL

\* The cyclic-graph error is returned for the unorderable deployments and only
\* for them.
THEOREM CycleDetectionIsExact == Spec => []CyclicMeansUnorderable
  <1>1. IInv => CyclicMeansUnorderable
    <2> SUFFICES ASSUME IInv PROVE CyclicMeansUnorderable
      OBVIOUS
    <2>1. ASSUME pc = "cyclic" PROVE \E S \in SUBSET Jobs : Knot(S)
      <3>1. jobs \in SUBSET Jobs /\ Knot(jobs)
        BY <2>1 DEF IInv, TypeOK, ControlInv, Knot
      <3> QED
        BY <3>1
    <2>2. ASSUME pc = "ordered", NEW S \in SUBSET Jobs, Knot(S) PROVE FALSE
      BY <2>2 DEF IInv, ControlInv, KnotInv, Knot
    <2> QED
      BY <2>1, <2>2 DEF CyclicMeansUnorderable
  <1> QED
    BY <1>1, LoopInvariant, PTL

\* Each job is placed in the earliest batch its constraints allow.
THEOREM OrderIsEarliest == Spec => []BatchesAreEarliest
  <1>1. IInv => BatchesAreEarliest
    BY DEF IInv
  <1> QED
    BY <1>1, LoopInvariant, PTL

=============================================================================
