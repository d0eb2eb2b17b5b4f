------------------------- MODULE WaitpointDecision -------------------------
(***************************************************************************)
(* What a waitpoint promises to the skill that opened it, whatever surface *)
(* answers it: it is decided once, by one resolver, and only that decision *)
(* may take effect as a job (palace.ts, resolveWaitpoint: "exactly one     *)
(* resolver gets the row back").  Approvals implements this specification. *)
(***************************************************************************)
CONSTANTS
  Waitpoint,  \* the waitpoints that may be opened
  Outcome,    \* answers of humans and of the timeout policies
  None        \* no outcome yet, not a member of Outcome

VARIABLES
  decided,  \* decided[w]: the outcome of w
  effect    \* effect[w]: the outcome a job was queued for

dvars == <<decided, effect>>

DInit ==
  /\ decided = [w \in Waitpoint |-> None]
  /\ effect = [w \in Waitpoint |-> None]

Decide(w) ==
  /\ decided[w] = None
  /\ \E o \in Outcome : decided' = [decided EXCEPT ![w] = o]
  /\ UNCHANGED effect

TakeEffect(w) ==
  /\ decided[w] # None
  /\ effect[w] = None
  /\ effect' = [effect EXCEPT ![w] = decided[w]]
  /\ UNCHANGED decided

DNext == \E w \in Waitpoint : Decide(w) \/ TakeEffect(w)

DSpec == DInit /\ [][DNext]_dvars

=============================================================================
