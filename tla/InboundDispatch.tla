-------------------------- MODULE InboundDispatch --------------------------
(***************************************************************************)
(* Incoming messages.  A channel adapter writes a drawer to                *)
(* inbox.messaging; every five seconds the dispatcher (tasks/inbound-      *)
(* dispatcher.ts) takes the oldest drawers without a row in                *)
(* inbound_dispatches, offers each one to the open inbound-match           *)
(* waitpoints (tasks/inbound-match-waitpoint.ts), called waiters here, and *)
(* enqueues a run of every subscribed skill.                               *)
(*                                                                         *)
(* Every statement is a step.  A step may fail; MaxFaults bounds failed    *)
(* statements and crashes together.                                        *)
(***************************************************************************)
EXTENDS Integers, FiniteSets

CONSTANTS
  Drawer,     \* messages
  Room,       \* Room[d]: the room of d, which names its channel role
  Waiter,     \* inbound-match waitpoints
  Matches,    \* Matches[w]: messages that pass the scopes and the pattern of w
  Expiring,   \* waiters whose timeout may pass
  Trigger,    \* inbound-message triggers of the manifests
  Role,       \* Role[t]: channel role of t
  BatchSize,  \* POLL_BATCH_SIZE
  MaxFaults,
  None        \* no drawer, no trigger

ASSUME InboundDispatchAssumption ==
  /\ BatchSize \in Nat \ {0} /\ MaxFaults \in Nat
  /\ IsFiniteSet(Drawer) /\ IsFiniteSet(Waiter)
  /\ None \notin Drawer \union Trigger
  /\ Matches \in [Waiter -> SUBSET Drawer]

VARIABLES
  manifests,  \* triggers of the manifests on disk
  index,      \* the cached index: none, or the set of its triggers
  at,         \* at[d]: position of d by created_at, 0 before it is written
  rows,       \* rows[d]: rows of d, as pairs of a trigger (or None) and a status
  jobs,       \* jobs[d][t]: runs enqueued
  since,      \* since[w]: position of w by created_at, 0 before
  open,       \* waiters whose dormant_signal is set
  late,       \* waiters past their dormant_until
  held,       \* waiters whose id reached the caller that registered them
  cancelling, \* calls of cancelWaitpoint between read and write
  answers,    \* answers[w]: messages of the resolution drawers of w
  tick,       \* the poll in progress
  faults,     \* failed statements and crashes
  hits,       \* history: hits[d], faults while d was in work
  waiting,    \* history: waiting[d], open waiters that match d when d arrives
  owed        \* history: owed[d], subscribers found by the fan-out of d

waiters == <<since, open, late, held, cancelling, answers>>
files == <<manifests, index>>
inboundVars == <<files, at, rows, jobs, waiters, tick, faults, hits, waiting, owed>>

Idle == [pc |-> "idle", pending |-> {}, opens |-> {}, trigs |-> {}, d |-> None,
         scan |-> {}, todo |-> {}, t |-> None]

Count(f) == Cardinality({x \in DOMAIN f : f[x] > 0})

InboundInit ==
  /\ manifests \in SUBSET Trigger
  /\ index = {}
  /\ at = [d \in Drawer |-> 0]
  /\ rows = [d \in Drawer |-> {}]
  /\ jobs = [d \in Drawer |-> [t \in Trigger |-> 0]]
  /\ since = [w \in Waiter |-> 0]
  /\ open = {} /\ late = {} /\ held = {} /\ cancelling = {}
  /\ answers = [w \in Waiter |-> {}]
  /\ tick = Idle
  /\ faults = 0
  /\ hits = [d \in Drawer |-> 0]
  /\ waiting = [d \in Drawer |-> {}]
  /\ owed = [d \in Drawer |-> {}]

\* A statement of the work on d fails.
Fault(d) ==
  /\ faults < MaxFaults
  /\ faults' = faults + 1
  /\ hits' = IF d = None THEN hits ELSE [hits EXCEPT ![d] = @ + 1]

NoFault == UNCHANGED <<faults, hits>>

-----------------------------------------------------------------------------
(* The world around the dispatcher *)

WriteDrawer(d) ==
  /\ at[d] = 0
  /\ at' = [at EXCEPT ![d] = Count(at) + 1]
  /\ waiting' = [waiting EXCEPT ![d] = {w \in open \ late : d \in Matches[w]}]
  /\ UNCHANGED <<files, rows, jobs, waiters, tick, owed>> /\ NoFault

\* A skill that subscribes is installed.
EditManifests(t) ==
  /\ t \notin manifests
  /\ manifests' = manifests \union {t}
  /\ UNCHANGED <<index, at, rows, jobs, waiters, tick, waiting, owed>> /\ NoFault

\* INDEX_TTL_MS passes, or invalidateInboundIndex is called; which makes no
\* difference while the index is up to date.
IndexExpires ==
  /\ index \notin {{}, {manifests}}
  /\ index' = {}
  /\ UNCHANGED <<manifests, at, rows, jobs, waiters, tick, waiting, owed>> /\ NoFault

\* registerWaitpoint: the audit entry follows the waitpoint, and when it
\* fails the caller gets an error and no id.
Register(w) ==
  /\ since[w] = 0
  /\ since' = [since EXCEPT ![w] = Count(since) + 1]
  /\ open' = open \union {w}
  /\ \/ held' = held \union {w} /\ NoFault
     \/ held' = held /\ Fault(None)
  /\ UNCHANGED <<files, at, rows, jobs, late, cancelling, answers, tick, waiting, owed>>

Late(w) ==
  /\ w \in (open \cap Expiring) \ late
  /\ late' = late \union {w}
  /\ UNCHANGED <<files, at, rows, jobs, since, open, held, cancelling, answers,
                 tick, waiting, owed>> /\ NoFault

\* cancelWaitpoint reads the row, and clears it by its id whatever happened.
CancelReads(w) ==
  /\ w \in held \cap open /\ w \notin cancelling
  /\ cancelling' = cancelling \union {w}
  /\ UNCHANGED <<files, at, rows, jobs, since, open, late, held, answers,
                 tick, waiting, owed>> /\ NoFault

CancelWrites(w) ==
  /\ w \in cancelling
  /\ open' = open \ {w}
  /\ cancelling' = cancelling \ {w}
  /\ UNCHANGED <<files, at, rows, jobs, since, late, held, answers,
                 tick, waiting, owed>> /\ NoFault

\* getWaitpointStatus.  Nothing ever writes state.cancelled, so that a
\* cancelled waiter is reported as expired.
Status(w) ==
  IF since[w] = 0 THEN "none"
  ELSE IF w \in open THEN IF w \in late THEN "expired" ELSE "pending"
  ELSE IF answers[w] # {} THEN "resolved" ELSE "expired"

-----------------------------------------------------------------------------
(* The poll *)

\* Mutant of Unseen: only the marker of a drawer without subscribers counts.
UnseenUnlessNone(d) == at[d] > 0 /\ <<None, "dispatched">> \notin rows[d]

\* NOT EXISTS in selectPending: a drawer with any row is never taken again.
Unseen(d) == at[d] > 0 /\ rows[d] = {}

Oldest(n, S) == {d \in S : Cardinality({e \in S : at[e] < at[d]}) < n}

\* selectPending and getInboundIndex.
Poll ==
  /\ tick.pc = "idle"
  /\ index' = IF index = {} THEN {manifests} ELSE index
  /\ LET batch == Oldest(BatchSize, {d \in Drawer : Unseen(d)})
     IN tick' = IF batch = {} THEN Idle
                ELSE [Idle EXCEPT !.pc = "load", !.pending = batch, !.trigs = UNION index']
  /\ <<tick, index>>' # <<tick, index>>
  /\ UNCHANGED <<manifests, at, rows, jobs, waiters, waiting, owed>> /\ NoFault

\* The oldest drawer left in tick k, with the loaded waiters that match it.
NextDrawer(k) ==
  IF k.pending = {} THEN Idle
  ELSE LET d == CHOOSE e \in k.pending : \A x \in k.pending : at[e] <= at[x]
       IN [k EXCEPT !.pc = "scan", !.d = d, !.pending = @ \ {d},
                    !.scan = {w \in k.opens : d \in Matches[w]}]

\* selectOpenWaitpoints, once for the whole tick; dormant_until is not asked.
LoadOpen ==
  /\ tick.pc = "load"
  /\ tick' = NextDrawer([tick EXCEPT !.opens = open])
  /\ UNCHANGED <<files, at, rows, jobs, waiters, waiting, owed>> /\ NoFault

FirstWaiter(w) == w \in tick.scan /\ \A x \in tick.scan : since[w] <= since[x]

\* Mutant of RestOfScan: the scan goes on after a match.
RestOfScanAll(w) == tick.scan \ {w}

\* First match wins: nobody else is asked.
RestOfScan(w) == {}

\* resolveWaitpoint clears dormant_signal ...
TryResolve(w) ==
  /\ tick.pc = "scan" /\ FirstWaiter(w) /\ w \in open
  /\ open' = open \ {w}
  /\ tick' = [tick EXCEPT !.pc = "answer"]
  /\ UNCHANGED <<files, at, rows, jobs, since, late, held, cancelling, answers,
                 waiting, owed>> /\ NoFault

\* ... or finds no row, also while the reaper's stamp of an expired waiter
\* holds it (SKIP LOCKED), or fails.  The scan goes on after the audit entry,
\* whose failure ends the match of this drawer.
NotResolved(w) ==
  /\ tick.pc = "scan" /\ FirstWaiter(w)
  /\ \/ w \notin open \ late /\ NoFault
     \/ w \in open /\ Fault(tick.d)
  /\ tick' = [tick EXCEPT !.scan = @ \ {w}]
  /\ UNCHANGED <<files, at, rows, jobs, waiters, waiting, owed>>

MatchAborts(w) ==
  /\ tick.pc = "scan" /\ FirstWaiter(w) /\ w \notin open \ late
  /\ Fault(tick.d)
  /\ tick' = [tick EXCEPT !.scan = {}]
  /\ UNCHANGED <<files, at, rows, jobs, waiters, waiting, owed>>

\* The resolution drawer and its audit entries.  A failure of either makes the
\* scan go on, with the waiter closed and, in the second case, answered.
Answer(w) ==
  /\ tick.pc = "answer" /\ FirstWaiter(w)
  /\ \/ /\ answers' = [answers EXCEPT ![w] = @ \union {tick.d}]
        /\ tick' = [tick EXCEPT !.pc = "scan", !.scan = RestOfScan(w)]
        /\ NoFault
     \/ /\ \E wrote \in BOOLEAN :
             answers' = IF wrote THEN [answers EXCEPT ![w] = @ \union {tick.d}] ELSE answers
        /\ tick' = [tick EXCEPT !.pc = "scan", !.scan = @ \ {w}]
        /\ Fault(tick.d)
  /\ UNCHANGED <<files, at, rows, jobs, since, open, late, held, cancelling,
                 waiting, owed>>

\* The fan-out begins with the subscribers of the index.
Subscribers(d) == {t \in tick.trigs : Role[t] = Room[d]}

StartFanOut ==
  /\ tick.pc = "scan" /\ tick.scan = {}
  /\ tick' = [tick EXCEPT !.pc = "fan", !.todo = Subscribers(tick.d)]
  /\ owed' = [owed EXCEPT ![tick.d] = Subscribers(tick.d)]
  /\ UNCHANGED <<files, at, rows, jobs, waiters, waiting>> /\ NoFault

\* recordDispatch: ON CONFLICT DO NOTHING.
AddRow(d, t, s) ==
  IF \E r \in rows[d] : r[1] = t THEN rows[d] ELSE rows[d] \union {<<t, s>>}

\* A drawer nobody subscribes to gets the row "(none)"; a failing row or audit
\* entry ends the tick.
NoSubscriber ==
  /\ tick.pc = "fan" /\ Subscribers(tick.d) = {}
  /\ \/ /\ rows' = [rows EXCEPT ![tick.d] = AddRow(tick.d, None, "dispatched")]
        /\ tick' = NextDrawer(tick)
        /\ NoFault
     \/ /\ \E wrote \in BOOLEAN :
             rows' = IF wrote THEN [rows EXCEPT ![tick.d] = AddRow(tick.d, None, "dispatched")]
                     ELSE rows
        /\ tick' = Idle
        /\ Fault(tick.d)
  /\ UNCHANGED <<files, at, jobs, waiters, waiting, owed>>

\* The subscriber t is done with, and with the last one the drawer.
SubscriberDone ==
  IF tick.todo = {tick.t} THEN NextDrawer(tick)
  ELSE [tick EXCEPT !.pc = "fan", !.todo = @ \ {tick.t}]

\* enqueueSkillStep, for the subscribers in the order of their manifests; it
\* may fail with or without a job.
Enqueue(t) ==
  /\ tick.pc = "fan" /\ t \in tick.todo
  /\ LET added == [jobs EXCEPT ![tick.d][t] = @ + 1]
     IN \/ jobs' = added /\ tick' = [tick EXCEPT !.pc = "record", !.t = t] /\ NoFault
        \/ /\ jobs' \in {jobs, added}
           /\ tick' = [tick EXCEPT !.pc = "catch", !.t = t] /\ Fault(tick.d)
  /\ UNCHANGED <<files, at, rows, waiters, waiting, owed>>

\* recordDispatch and appendWal inside the try block ...
Record ==
  /\ tick.pc = "record"
  /\ LET added == [rows EXCEPT ![tick.d] = AddRow(tick.d, tick.t, "dispatched")]
     IN \/ /\ rows' = added
           /\ tick' = SubscriberDone /\ NoFault
        \/ /\ rows' \in {rows, added}
           /\ tick' = [tick EXCEPT !.pc = "catch"] /\ Fault(tick.d)
  /\ UNCHANGED <<files, at, jobs, waiters, waiting, owed>>

\* ... and in its catch, where a failure ends the tick.
RecordFailed ==
  /\ tick.pc = "catch"
  /\ LET added == [rows EXCEPT ![tick.d] = AddRow(tick.d, tick.t, "failed")]
     IN \/ /\ rows' = added
           /\ tick' = SubscriberDone /\ NoFault
        \/ rows' \in {rows, added} /\ tick' = Idle /\ Fault(tick.d)
  /\ UNCHANGED <<files, at, jobs, waiters, waiting, owed>>

\* The worker dies, or a select of the tick fails.
Crash ==
  /\ tick.pc # "idle"
  /\ Fault(tick.d)
  /\ tick' = Idle
  /\ index' = {}
  /\ UNCHANGED <<manifests, at, rows, jobs, waiters, waiting, owed>>

-----------------------------------------------------------------------------
World ==
  \/ \E d \in Drawer : WriteDrawer(d)
  \/ \E t \in Trigger : EditManifests(t)
  \/ IndexExpires
  \/ \E w \in Waiter : Register(w) \/ Late(w) \/ CancelReads(w) \/ CancelWrites(w)

Match == \E w \in Waiter : TryResolve(w) \/ NotResolved(w) \/ MatchAborts(w) \/ Answer(w)

Dispatch ==
  \/ Poll \/ LoadOpen \/ Match \/ StartFanOut \/ NoSubscriber
  \/ (\E t \in Trigger : Enqueue(t)) \/ Record \/ RecordFailed

InboundNext == World \/ Dispatch \/ Crash

InboundSpec == InboundInit /\ [][InboundNext]_inboundVars

-----------------------------------------------------------------------------
(* Properties *)

Statuses == {"dispatched", "failed"}

InboundTypeOK ==
  /\ manifests \subseteq Trigger /\ index \subseteq SUBSET Trigger
  /\ at \in [Drawer -> Nat] /\ jobs \in [Drawer -> [Trigger -> Nat]]
  /\ rows \in [Drawer -> SUBSET ((Trigger \union {None}) \X Statuses)]
  /\ since \in [Waiter -> Nat] /\ answers \in [Waiter -> SUBSET Drawer]
  /\ open \subseteq Waiter /\ late \subseteq Waiter
  /\ held \subseteq Waiter /\ cancelling \subseteq Waiter
  /\ tick \in [pc : {"idle", "load", "scan", "answer", "fan", "record", "catch"},
               pending : SUBSET Drawer, opens : SUBSET Waiter, trigs : SUBSET Trigger,
               d : Drawer \union {None}, scan : SUBSET Waiter, todo : SUBSET Trigger,
               t : Trigger \union {None}]

\* d is done with: it has a row and is not in work.
Settled(d) == rows[d] # {} /\ (tick.pc = "idle" \/ tick.d # d)

\* No subscriber is run twice for a message, and none is left out, but for a
\* failure in the middle of its fan-out: a run more than one needs a fault each;
\* a subscriber without a row needs one; and what is recorded as dispatched was
\* enqueued (dispatchPendingInbound).
FanOutIsAccountedFor ==
  /\ InboundTypeOK
  /\ \A d \in Drawer :
       /\ \A t \in Trigger : jobs[d][t] <= 1 + hits[d]
       /\ Settled(d) /\ hits[d] = 0 => \A t \in owed[d] : jobs[d][t] = 1
       /\ \A t \in Trigger : <<t, "dispatched">> \in rows[d] => jobs[d][t] > 0

\* A message answers one waiter and a waiter is answered by one message,
\* although the waiters are read once for the whole tick, while others cancel
\* them; and a message that arrived when a waiter was listening is not lost to
\* it: the waiter is gone, or the message went to another one, or a statement
\* failed (matchDrawerAgainstWaitpoints).
WaitersAreServed ==
  /\ \A w \in Waiter : Cardinality(answers[w]) <= 1
  /\ \A d \in Drawer :
       LET answered == {w \in Waiter : d \in answers[w]} IN
       /\ Cardinality(answered) <= 1 + hits[d]
       /\ Settled(d) /\ hits[d] = 0 /\ answered = {} => waiting[d] \ late \subseteq Waiter \ open

\* Every message is recorded in the end, whatever is in front of it
\* (selectPending takes the oldest ones, and each gets a row).
DrawersAreDispatched == \A d \in Drawer : at[d] > 0 ~> rows[d] # {}
=============================================================================
