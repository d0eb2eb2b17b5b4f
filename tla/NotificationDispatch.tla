------------------------ MODULE NotificationDispatch ------------------------
(***************************************************************************)
(* The outbound notification dispatcher, tasks/notification-dispatcher.ts. *)
(*                                                                         *)
(* Every tick takes a batch of the oldest pending drawers whose key has no *)
(* delivered dispatch row, and sends them one by one: through the channel  *)
(* bound to their role, or, for a role pa_notify_<user>, by queueing a     *)
(* notification for the user's assistant.  Drawers that cannot be sent are *)
(* skipped, and are selected again by the next tick.                       *)
(*                                                                         *)
(* A drawer is a number, in the order of created_at.  The reentrance guard *)
(* leaves one tick at a time in the one worker of a workspace; nothing     *)
(* else writes these tables, so that the three statements a tick starts    *)
(* with are one action.  Each later statement is an action of its own.     *)
(***************************************************************************)
EXTENDS Integers, FiniteSets

CONSTANTS
  N,            \* number of drawers
  Kind,         \* Kind[d]: "bound" (its role has a channel), "unbound", "pa"
                \* (a bound role pa_notify_<user>), "keyless" or "malformed"
  KeyOf,        \* KeyOf[d]: the idempotency key of d
  Later,        \* drawers with a send_after in the future
  BatchSize,    \* POLL_BATCH_SIZE
  MaxAttempts,  \* MAX_ATTEMPTS
  MaxFaults     \* bound on failing statements, lost answers and crashes

Drawer == 1 .. N
Keys == {KeyOf[d] : d \in Drawer}

ASSUME NotificationDispatchAssumption ==
  /\ N \in Nat
  /\ Kind \in [Drawer -> {"bound", "pa", "unbound", "keyless", "malformed"}]
  /\ DOMAIN KeyOf = Drawer
  /\ Later \subseteq Drawer
  /\ BatchSize \in Nat \ {0}
  /\ MaxAttempts \in Nat \ {0}
  /\ MaxFaults \in Nat

VARIABLES
  written,      \* number of drawers written so far
  due,          \* drawers whose send_after is past
  quarantined,  \* drawers with dormant_signal set
  dispatch,     \* dispatch[k]: the status of the dispatch row of key k, "none" without one
  attempts,     \* attempts[k]
  stale,        \* keys whose claim is older than two minutes
  batch,        \* drawers of the current tick still to be looked at
  pc,           \* next statement for the first of them
  posts,        \* history: posts[k], messages the recipient got
  queued,       \* keys with an assistant notification of the last hour
  fresh,        \* those of them that the current tick has queued, or the last one
  faults

rows == <<dispatch, attempts, stale>>
assistant == <<queued, fresh>>
dispatchVars == <<written, due, quarantined, rows, batch, pc, posts, assistant, faults>>

DispatchInit ==
  /\ written = 0
  /\ due = Drawer \ Later
  /\ quarantined = {}
  /\ dispatch = [k \in Keys |-> "none"]
  /\ attempts = [k \in Keys |-> 0]
  /\ stale = {}
  /\ batch = {}
  /\ pc = "look"
  /\ posts = [k \in Keys |-> 0]
  /\ queued = {} /\ fresh = {}
  /\ faults = 0

-----------------------------------------------------------------------------
(* Surroundings: skills write drawers, time passes *)

Write ==
  /\ written < N
  /\ written' = written + 1
  /\ UNCHANGED <<due, quarantined, rows, batch, pc, posts, assistant, faults>>

BecomeDue(d) ==
  /\ d \notin due
  /\ due' = due \union {d}
  /\ UNCHANGED <<written, quarantined, rows, batch, pc, posts, assistant, faults>>

\* No claim gets that old while its tick is alive: a send is cut off after
\* 15 seconds.
BecomeStale(k) ==
  /\ dispatch[k] = "claimed" /\ k \notin stale
  /\ \A d \in batch : KeyOf[d] = k => pc = "look"
  /\ stale' = stale \union {k}
  /\ UNCHANGED <<written, due, quarantined, dispatch, attempts, batch, pc, posts, assistant, faults>>

\* The hour of the assistant's idempotency window is over.  A tick is done long
\* before that.
Forget(k) ==
  /\ k \in queued \ fresh
  /\ queued' = queued \ {k}
  /\ UNCHANGED <<written, due, quarantined, rows, batch, pc, posts, fresh, faults>>

-----------------------------------------------------------------------------
(* The tick *)

\* Mutant of Lapsed: claims of a dead worker stay (issue #94).
LapsedNever(k) == FALSE

\* reapStaleClaims.
Lapsed(k) == dispatch[k] = "claimed" /\ k \in stale

\* Drawers of the pending hall that are valid JSON and not quarantined.
Visible == {d \in 1 .. written : d \notin quarantined /\ Kind[d] # "malformed"}

\* The key of a drawer has no row, or one that failed and has attempts left;
\* reaped rows have failed by the time of the select.
Retryable(k) ==
  \/ dispatch[k] = "none"
  \/ (dispatch[k] = "failed" \/ Lapsed(k)) /\ attempts[k] < MaxAttempts

\* A row without idempotency_key joins no dispatch row.
Selectable == {d \in Visible : Kind[d] = "keyless" \/ Retryable(KeyOf[d])}

\* The oldest BatchSize of them.
Oldest(S) == {d \in S : Cardinality({e \in S : e < d}) < BatchSize}

Malformed == {d \in 1 .. written : Kind[d] = "malformed" /\ d \notin quarantined}

\* A tick that finds nothing to do is not a step.
Tick ==
  /\ batch = {} /\ pc = "look"
  /\ Selectable # {} \/ Malformed # {} \/ \E k \in Keys : Lapsed(k)
  /\ quarantined' = quarantined \union Malformed
  /\ dispatch' = [k \in Keys |-> IF Lapsed(k) THEN "failed" ELSE dispatch[k]]
  /\ stale' = {k \in stale : ~Lapsed(k)}
  /\ batch' = Oldest(Selectable)
  /\ fresh' = {}
  /\ UNCHANGED <<written, due, attempts, pc, posts, queued, faults>>

Current(d) == d \in batch /\ \A e \in batch : d <= e

\* The tick goes on with the drawer behind d.
NextDrawer(d) == batch' = batch \ {d} /\ pc' = "look"

\* No envelope, not due yet, or no binding for the role.
Skip(d) ==
  /\ Current(d) /\ pc = "look"
  /\ Kind[d] \in {"keyless", "unbound"} \/ d \notin due
  /\ NextDrawer(d)
  /\ UNCHANGED <<written, due, quarantined, rows, posts, assistant, faults>>

\* executePaNotify: a key that was queued within the last hour is not queued
\* again.
Queue(k) ==
  IF k \in queued
  THEN UNCHANGED <<posts, assistant>>
  ELSE /\ posts' = [posts EXCEPT ![k] = @ + 1]
       /\ queued' = queued \union {k} /\ fresh' = fresh \union {k}

\* tryPaRewire, before the drawer of the key is claimed.
PaNotify(d) ==
  /\ Current(d) /\ pc = "look" /\ Kind[d] = "pa" /\ d \in due
  /\ Queue(KeyOf[d])
  /\ pc' = "paclaim"
  /\ UNCHANGED <<written, due, quarantined, rows, batch, faults>>

AfterRewireError == "claim"

\* An error of the rewire, before or behind its drawer: the direct path, with
\* its own claim.
PaFallsThrough(d) ==
  /\ Current(d) /\ pc = "look" /\ Kind[d] = "pa" /\ d \in due
  /\ faults < MaxFaults
  /\ faults' = faults + 1
  /\ pc' = AfterRewireError
  /\ Queue(KeyOf[d]) \/ UNCHANGED <<posts, assistant>>
  /\ UNCHANGED <<written, due, quarantined, rows, batch>>

\* Mutant of ClaimedBy: the upsert takes a delivered row as well.
ClaimedByAnyone(k) == "claimed"

\* The status the upsert of claim leaves behind.
ClaimedBy(k) == IF dispatch[k] = "delivered" THEN "delivered" ELSE "claimed"

\* claim: a delivered key is skipped.
Claim(d) ==
  LET k == KeyOf[d]
      direct == pc = "claim" \/ (pc = "look" /\ Kind[d] = "bound" /\ d \in due)
  IN
  /\ Current(d)
  /\ direct \/ pc = "paclaim"
  /\ dispatch' = [dispatch EXCEPT ![k] = ClaimedBy(k)]
  /\ attempts' = [attempts EXCEPT ![k] = @ + 1]
  /\ stale' = stale \ {k}
  /\ IF ClaimedBy(k) = "delivered"
     THEN NextDrawer(d)
     ELSE pc' = (IF direct THEN "send" ELSE "pamark") /\ UNCHANGED batch
  /\ UNCHANGED <<written, due, quarantined, posts, assistant, faults>>

\* dispatchViaMcp: the channel posts the message.
Post(d) ==
  /\ Current(d) /\ pc = "send"
  /\ posts' = [posts EXCEPT ![KeyOf[d]] = @ + 1]
  /\ pc' = "mark"
  /\ UNCHANGED <<written, due, quarantined, rows, batch, assistant, faults>>

\* The channel refuses the message, as often as it likes.
PostRefused(d) ==
  /\ Current(d) /\ pc = "send"
  /\ pc' = "fail"
  /\ UNCHANGED <<written, due, quarantined, rows, batch, posts, assistant, faults>>

\* The send is cut off by its timeout, and the message is posted.
PostTimesOut(d) ==
  /\ Current(d) /\ pc = "send"
  /\ faults < MaxFaults
  /\ faults' = faults + 1
  /\ posts' = [posts EXCEPT ![KeyOf[d]] = @ + 1]
  /\ pc' = "fail"
  /\ UNCHANGED <<written, due, quarantined, rows, batch, assistant>>

MarkDelivered(d) ==
  /\ Current(d) /\ pc \in {"mark", "pamark"}
  /\ dispatch' = [dispatch EXCEPT ![KeyOf[d]] = "delivered"]
  /\ stale' = stale \ {KeyOf[d]}
  /\ IF pc = "mark" THEN pc' = "receipt" /\ UNCHANGED batch ELSE NextDrawer(d)
  /\ UNCHANGED <<written, due, quarantined, attempts, posts, assistant, faults>>

\* The receipt drawer and the WAL row, of a delivery or of a failure.
Receipt(d) ==
  /\ Current(d) /\ pc \in {"receipt", "failreceipt"}
  /\ NextDrawer(d)
  /\ UNCHANGED <<written, due, quarantined, rows, posts, assistant, faults>>

\* The update has no condition on the status.
MarkFailed(d) ==
  /\ Current(d) /\ pc = "fail"
  /\ dispatch' = [dispatch EXCEPT ![KeyOf[d]] = "failed"]
  /\ stale' = stale \ {KeyOf[d]}
  /\ pc' = "failreceipt"
  /\ UNCHANGED <<written, due, quarantined, attempts, batch, posts, assistant, faults>>

\* A statement behind the send fails: the catch block marks the row failed.
FailInside(d) ==
  /\ Current(d) /\ pc \in {"mark", "receipt"}
  /\ faults < MaxFaults
  /\ faults' = faults + 1
  /\ pc' = "fail"
  /\ UNCHANGED <<written, due, quarantined, rows, batch, posts, assistant>>

\* Any other failing statement ends the tick, and so does a crash.
Abort ==
  /\ batch # {}
  /\ faults < MaxFaults
  /\ faults' = faults + 1
  /\ batch' = {}
  /\ pc' = "look"
  /\ UNCHANGED <<written, due, quarantined, rows, posts, assistant>>

-----------------------------------------------------------------------------
Dispatch(d) ==
  \/ Skip(d)
  \/ PaNotify(d)
  \/ Claim(d)
  \/ Post(d)
  \/ PostRefused(d)
  \/ MarkDelivered(d)
  \/ Receipt(d)
  \/ MarkFailed(d)

DispatchNext ==
  \/ Write
  \/ \E d \in Drawer : BecomeDue(d)
  \/ \E k \in Keys : BecomeStale(k) \/ Forget(k)
  \/ Tick
  \/ \E d \in batch : Dispatch(d) \/ PaFallsThrough(d) \/ PostTimesOut(d) \/ FailInside(d)
  \/ Abort

DispatchSpec == DispatchInit /\ [][DispatchNext]_dispatchVars

\* The timer keeps firing, statements return, and time passes.
DispatchFairness ==
  /\ WF_dispatchVars(Tick)
  /\ WF_dispatchVars(\E d \in batch : Dispatch(d))
  /\ \A d \in Drawer : WF_dispatchVars(BecomeDue(d))
  /\ \A k \in Keys : WF_dispatchVars(BecomeStale(k))

LiveDispatch == DispatchSpec /\ DispatchFairness

-----------------------------------------------------------------------------
(* Properties *)

\* Every variable stays in its type.
DispatchTypeOK ==
  /\ written \in 0 .. N
  /\ due \subseteq Drawer
  /\ quarantined \subseteq Drawer
  /\ dispatch \in [Keys -> {"none", "claimed", "delivered", "failed"}]
  /\ attempts \in [Keys -> Nat]
  /\ stale \subseteq {k \in Keys : dispatch[k] = "claimed"}
  /\ batch \subseteq 1 .. written
  /\ pc \in {"look", "paclaim", "pamark", "claim", "send", "mark", "receipt",
             "fail", "failreceipt"}
  /\ posts \in [Keys -> Nat]
  /\ queued \subseteq Keys /\ fresh \subseteq Keys
  /\ faults \in 0 .. MaxFaults

\* All drawers with the key are for one channel, or all for the assistant.
OneRoute(k) ==
  \A d, e \in Drawer :
    KeyOf[d] = k /\ KeyOf[e] = k /\ Kind[d] = "bound" => Kind[e] # "pa"

\* A message is posted twice only for a fault: a crash, a failing statement
\* or a send whose answer is lost; two drawers with one key post once, unless
\* one is for a channel and one for the assistant, which is asked before the
\* key is claimed.  And a row is marked delivered only once the message is
\* out, in spite of late marks and of claims that were taken over.
PostsAreAccountedFor ==
  /\ DispatchTypeOK
  /\ \A k \in Keys : /\ OneRoute(k) => posts[k] <= 1 + faults
                     /\ dispatch[k] = "delivered" => posts[k] > 0

\* A drawer the dispatcher can send is delivered, or its key has used up its
\* attempts.
Sendable(d) == Kind[d] \in {"bound", "pa"}
Settled(k) == dispatch[k] = "delivered" \/ (dispatch[k] = "failed" /\ attempts[k] >= MaxAttempts)
AllDispatched == \A d \in Drawer : Sendable(d) /\ d <= written ~> Settled(KeyOf[d])

\* No claim of a dead worker holds a drawer back (issue #94), nor does a
\* malformed one, as long as the drawers that are skipped over and over
\* leave room in a batch.
Dispatched ==
  Cardinality({d \in Drawer : Kind[d] \in {"unbound", "keyless"}}) < BatchSize
    => AllDispatched

=============================================================================
