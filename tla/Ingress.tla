------------------------------ MODULE Ingress ------------------------------
(***************************************************************************)
(* The ways into the skill queue other than the scheduler: messages,       *)
(* batches and the trigger endpoint.  They run in one worker process and   *)
(* share nothing but the queue, so that a behaviour here exercises one of  *)
(* them.                                                                   *)
(***************************************************************************)
EXTENDS InboundDispatch, BatchDispatch, SkillTrigger

VARIABLE part  \* the part that is exercised

vars == <<part, inboundVars, batchVars, triggerVars>>

Init ==
  /\ part \in {"messages", "waitpoints", "batches", "trigger"}
  /\ InboundInit /\ BatchInit /\ TriggerInit
  /\ part # "messages" => manifests = {}
  /\ part # "batches" => sub = CHOOSE s \in Subscriptions : TRUE

\* A workspace with subscribers and no waitpoint, one with waitpoints and no
\* subscriber, one with batch triggers, and one that is called over HTTP.
Messages == part = "messages" /\ UNCHANGED <<part, since, batchVars, triggerVars>>
Waitpoints == part = "waitpoints" /\ UNCHANGED <<part, manifests, batchVars, triggerVars>>
Batches == part = "batches" /\ UNCHANGED <<part, inboundVars, triggerVars>>
Requests == part = "trigger" /\ UNCHANGED <<part, inboundVars, batchVars>>

Next ==
  \/ InboundNext /\ (Messages \/ Waitpoints)
  \/ BatchNext /\ Batches
  \/ TriggerNext /\ Requests

Spec ==
  /\ Init /\ [][Next]_vars
  /\ WF_vars(Dispatch /\ (Messages \/ Waitpoints))
  /\ WF_vars(PollStep /\ Batches)

\* Whatever comes first and whatever fails, every message is recorded and every
\* deadline is acted upon.
IngressIsServed == DrawersAreDispatched /\ DeadlinesFire
=============================================================================
