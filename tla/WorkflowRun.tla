----------------------------- MODULE WorkflowRun -----------------------------
(***************************************************************************)
(* orchestrator/workflow.go: the loop that runs a workflow, over the       *)
(* graphs of module Workflows, with any step failing at any time and the   *)
(* process exiting anywhere (trapSigint calls os.Exit).  The workflow of   *)
(* each bbr command is run to its end or until it is interrupted, and then *)
(* another command may be run.                                             *)
(***************************************************************************)
EXTENDS Workflows

CONSTANT Commands    \* the commands run, a subset of Workflows

ASSUME CommandsAssumption == Commands \subseteq Workflows

VARIABLES
    workflow,  \* the workflow being run
    node,      \* the current node; "none" before the first run, "end" or "exited" after one
    errs       \* the steps whose errors were collected

vars == <<workflow, node, errs>>

Idle == {"none", "end", "exited"}

Init ==
    /\ workflow \in Commands
    /\ node = "none"
    /\ errs = {}

Start(w) ==
    /\ node \in Idle
    /\ workflow' = w
    /\ node' = StartingNode(w)
    /\ errs' = {}

\* One iteration of the loop of Workflow.Run.
Step(ok) ==
    /\ node \in StepsOf(workflow)
    /\ node' = NextNode(workflow, node, ok)
    /\ errs' = IF ok THEN errs ELSE errs \cup {node}
    /\ UNCHANGED workflow

\* The operator interrupts the process and confirms.
Exit ==
    /\ node \in StepsOf(workflow)
    /\ node' = "exited"
    /\ UNCHANGED <<workflow, errs>>

RunStep == \E ok \in BOOLEAN : Step(ok)

Next == (\E w \in Commands : Start(w)) \/ RunStep \/ Exit

\* A step of the workflow returns; nothing obliges an operator to run another
\* command, or to interrupt one.
Spec == Init /\ [][Next]_vars /\ WF_vars(RunStep)

=============================================================================
