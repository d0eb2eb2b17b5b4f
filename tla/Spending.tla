------------------------------ MODULE Spending ------------------------------
(***************************************************************************)
(* What a workspace spends on models: a single run in every detail, or the *)
(* runs of a worker seen from outside, with the budget and the pauses of   *)
(* the queue.                                                              *)
(***************************************************************************)
EXTENDS AgenticLoop, QueuePause

VARIABLE view  \* "run" or "workspace"

vars == <<view, loopVars, pauseVars>>

Init == view \in {"run", "workspace"} /\ LoopInit /\ PauseInit

OneRun == view = "run" /\ UNCHANGED <<view, pauseVars>>
Workspace == view = "workspace" /\ UNCHANGED <<view, loopVars>>

Next == (LoopStep /\ OneRun) \/ (PauseNext /\ Workspace)

Spec ==
  /\ Init /\ [][Next]_vars
  /\ WF_vars(LoopStep /\ OneRun)
  /\ WF_vars(MonitorStep /\ Workspace) /\ WF_vars(Timers /\ Workspace)
  /\ WF_vars(Restart /\ Workspace)
  /\ \A s \in Slot : WF_vars((SlotStep(s) \/ PauseStep(s)) /\ Workspace)
=============================================================================
