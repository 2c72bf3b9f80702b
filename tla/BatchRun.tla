------------------------------ MODULE BatchRun ------------------------------
(***************************************************************************)
(* What orchestrator code relies on when it calls executor.Executor.Run:   *)
(* every executable of every batch is executed exactly once, a batch       *)
(* starts only when the one before it is finished, a failure stops         *)
(* nothing, and the errors returned are those of the executables that      *)
(* failed.  ParallelExecutor implements it.                                 *)
(***************************************************************************)
EXTENDS Batches

VARIABLES
    status,    \* executable -> "waiting", "running", "ok" or "failed"
    returned,  \* has Run returned?
    errors     \* the executables whose errors it returned

vars == <<status, returned, errors>>

Finished(b) == \A e \in ExecutablesOf(b) : status[e] \in {"ok", "failed"}

Init ==
    /\ status = [e \in Executables |-> "waiting"]
    /\ returned = FALSE
    /\ errors = {}

Begin(e) ==
    /\ status[e] = "waiting"
    /\ \A b \in 1 .. (e[1] - 1) : Finished(b)
    /\ status' = [status EXCEPT ![e] = "running"]
    /\ UNCHANGED <<returned, errors>>

End(e) ==
    /\ status[e] = "running"
    /\ \E outcome \in {"ok", "failed"} : status' = [status EXCEPT ![e] = outcome]
    /\ UNCHANGED <<returned, errors>>

Return ==
    /\ ~returned
    /\ \A b \in Batches : Finished(b)
    /\ returned' = TRUE
    /\ errors' = {e \in Executables : status[e] = "failed"}
    /\ UNCHANGED status

Next == Return \/ \E e \in Executables : Begin(e) \/ End(e)

Spec == Init /\ [][Next]_vars

=============================================================================
