-------------------------- MODULE ParallelExecutor --------------------------
(***************************************************************************)
(* executor/parallel.go.  The calling goroutine dispatches the executables *)
(* of a batch, blocking on the guard channel when maxInFlight of them are  *)
(* under way, and then receives as many results from the errs channel as   *)
(* there are executables.  Each executable runs in a goroutine of its own, *)
(* which sends its result and then takes its token out of the guard.  Both *)
(* channels are made afresh for each batch, so a goroutine of a past batch *)
(* may still be about to release the guard of that batch.                  *)
(***************************************************************************)
EXTENDS Batches, FiniteSets

CONSTANT MaxInFlight    \* 10 in the code; SetMaxInFlight changes only a copy

ASSUME MaxInFlightAssumption == MaxInFlight \in Nat \ {0}

VARIABLES
    batch,       \* the batch the caller is working on
    dispatched,  \* executables of that batch already dispatched
    received,    \* results of that batch already received
    failures,    \* the caller's list of errors
    pc,          \* executable -> where its goroutine is
    result,      \* executable -> what Execute returned, once it has
    guard,       \* batch -> tokens in its guard channel
    errs,        \* batch -> its errs channel: executables whose result is in it
    returned     \* has Run returned?

caller == <<batch, dispatched, received, failures>>
vars == <<batch, dispatched, received, failures, pc, result, guard, errs, returned>>

-----------------------------------------------------------------------------

\* A plausible bug: a channel that holds a single result.
ErrsCapacityOne(b) == 1
\* The errs channel is as large as the batch: a goroutine never waits to report.
ErrsCapacity(b) == BatchSizes[b]

Init ==
    /\ batch = 1
    /\ dispatched = 0
    /\ received = 0
    /\ failures = {}
    /\ pc = [e \in Executables |-> "unborn"]
    /\ result = [e \in Executables |-> "none"]
    /\ guard = [b \in Batches |-> 0]
    /\ errs = [b \in Batches |-> <<>>]
    /\ returned = FALSE

\* guard <- true; go func...: blocks while the guard is full.
Dispatch ==
    LET e == <<batch, dispatched + 1>> IN
    /\ batch \in Batches
    /\ dispatched < BatchSizes[batch]
    /\ guard[batch] < MaxInFlight
    /\ guard' = [guard EXCEPT ![batch] = @ + 1]
    /\ dispatched' = dispatched + 1
    /\ pc' = [pc EXCEPT ![e] = "executing"]
    /\ UNCHANGED <<batch, received, failures, result, errs, returned>>

\* Execute returns to its goroutine.
Execute(e) ==
    /\ pc[e] = "executing"
    /\ \E outcome \in {"ok", "failed"} : result' = [result EXCEPT ![e] = outcome]
    /\ pc' = [pc EXCEPT ![e] = "reporting"]
    /\ UNCHANGED <<caller, guard, errs, returned>>

\* errs <- ...: blocks while the channel is full.
Report(e) ==
    /\ pc[e] = "reporting"
    /\ Len(errs[e[1]]) < ErrsCapacity(e[1])
    /\ errs' = [errs EXCEPT ![e[1]] = Append(@, e)]
    /\ pc' = [pc EXCEPT ![e] = "releasing"]
    /\ UNCHANGED <<caller, result, guard, returned>>

\* <-guard, and the goroutine ends.
Release(e) ==
    /\ pc[e] = "releasing"
    /\ guard[e[1]] > 0
    /\ guard' = [guard EXCEPT ![e[1]] = @ - 1]
    /\ pc' = [pc EXCEPT ![e] = "ended"]
    /\ UNCHANGED <<caller, result, errs, returned>>

\* A plausible bug: the last error received replaces the earlier ones.
ReceiveKeepsLast ==
    /\ batch \in Batches
    /\ dispatched = BatchSizes[batch]
    /\ received < BatchSizes[batch]
    /\ errs[batch] # <<>>
    /\ failures' = IF result[Head(errs[batch])] = "failed" THEN {Head(errs[batch])} ELSE failures
    /\ errs' = [errs EXCEPT ![batch] = Tail(@)]
    /\ received' = received + 1
    /\ UNCHANGED <<batch, dispatched, pc, result, guard, returned>>

\* err := <-errs, one for each executable, after all are dispatched.
Receive ==
    /\ batch \in Batches
    /\ dispatched = BatchSizes[batch]
    /\ received < BatchSizes[batch]
    /\ errs[batch] # <<>>
    /\ failures' = IF result[Head(errs[batch])] = "failed"
                   THEN failures \cup {Head(errs[batch])} ELSE failures
    /\ errs' = [errs EXCEPT ![batch] = Tail(@)]
    /\ received' = received + 1
    /\ UNCHANGED <<batch, dispatched, pc, result, guard, returned>>

\* Every result is in: go on to the next batch, with new channels.
NextBatch ==
    /\ batch \in Batches
    /\ dispatched = BatchSizes[batch]
    /\ received = BatchSizes[batch]
    /\ batch' = batch + 1
    /\ dispatched' = 0
    /\ received' = 0
    /\ UNCHANGED <<failures, pc, result, guard, errs, returned>>

RunReturns ==
    /\ batch = Len(BatchSizes) + 1
    /\ ~returned
    /\ returned' = TRUE
    /\ UNCHANGED <<caller, pc, result, guard, errs>>

Caller == Dispatch \/ Receive \/ NextBatch \/ RunReturns
Goroutine(e) == Execute(e) \/ Report(e) \/ Release(e)

Next == Caller \/ \E e \in Executables : Goroutine(e)

\* The Go scheduler runs every goroutine that is not blocked, and Execute
\* returns: a script run over ssh ends or its connection does.
Spec ==
    /\ Init
    /\ [][Next]_vars
    /\ WF_vars(Caller)
    /\ \A e \in Executables : WF_vars(Goroutine(e))

-----------------------------------------------------------------------------

\* What the executor's state means to a client of Run.
Status ==
    [e \in Executables |->
        CASE pc[e] = "unborn"    -> "waiting"
          [] pc[e] = "executing" -> "running"
          [] OTHER               -> result[e]]

Promise == INSTANCE BatchRun WITH
    status <- Status,
    errors <- IF returned THEN failures ELSE {}

\* The executor keeps the promise of Run: each executable executed once, batch
\* after batch whatever fails, and exactly the failures returned.
ImplementsBatchRun == Promise!Spec

\* Run returns, and no goroutine it started is left blocked on a channel, however
\* many executables fail and however small maxInFlight is.
RunTerminates == <>(returned /\ \A e \in Executables : pc[e] = "ended")

=============================================================================
