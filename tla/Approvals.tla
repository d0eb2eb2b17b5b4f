----------------------------- MODULE Approvals -----------------------------
(***************************************************************************)
(* The life of an approval waitpoint, from the skill step that asks for it *)
(* to the job that acts on the answer.                                     *)
(*                                                                         *)
(*   engine/apply.ts             opens the waitpoint, writes the request   *)
(*   tasks/approval-resolver.ts  resolves it on a button click, and on     *)
(*                               POST /api/approvals/:signal/resolve       *)
(*   palace.ts resolveWaitpoint  claims the waitpoint row                  *)
(*   tasks/waitpoint-reaper.ts   applies the timeout policy                *)
(*   bullmq/outbox-relay.ts      turns outbox rows into BullMQ jobs        *)
(*   bullmq/queues.ts            names the job after its run and step      *)
(*                                                                         *)
(* Every SQL statement commits on its own, and every await lets the other  *)
(* tasks of the process run, so there is one action per statement.  A      *)
(* statement may fail, and the process may die (Crash), a bounded number   *)
(* of times.  The WAL rows these tasks append are not modelled.            *)
(***************************************************************************)
EXTENDS Integers, Sequences, FiniteSets

CONSTANTS
  Waitpoint,    \* waitpoint drawers
  Engine,       \* those of them opened by an approval_required action
  Choice,       \* decisions a human can take
  Offered,      \* Offered[w]: the decisions the request of w declares
  Strategy,     \* Strategy[w][d]: how decision d resumes work, see Enqueue
  Policy,       \* Policy[w]: the on_timeout the opener asks for
  RunOf,        \* RunOf[w]: run (and step) that opened w
  ById,         \* runs whose own job enqueueSkillStep named after them
  Click, Api, Library,  \* human answers by surface: button, HTTP, direct call
  Target,       \* Target[a]: the waitpoint answered by a
  Pick,         \* Pick[a]: the decision of a
  Tick,         \* runs of the reaper that can overlap
  MaxFaults,    \* bound on failing statements and crashes
  None          \* nobody, nothing

Actor == Click \union Api \union Library
Run == {RunOf[w] : w \in Waitpoint}
Policies == {"auto_approve", "auto_reject", "auto_cancel", "escalate"}

ASSUME ApprovalsAssumption ==
  /\ IsFiniteSet(Click)
  /\ Engine \subseteq Waitpoint
  /\ Offered \in [Waitpoint -> SUBSET Choice]
  /\ Strategy \in [Waitpoint -> [Choice -> {"handler", "missing", "original", "none"}]]
  /\ Policy \in [Waitpoint -> Policies]
  /\ ById \subseteq Run
  /\ Run \cap Nat = {}
  /\ Target \in [Actor -> Waitpoint]
  /\ Pick \in [Actor -> Choice]
  /\ MaxFaults \in Nat
  /\ Choice \cap Policies = {}
  /\ Tick \cap Actor = {}
  /\ None \notin Actor \union Tick \union Waitpoint \union Choice \union Policies

VARIABLES
  emit,        \* emit[w]: progress of the opener
  open,        \* open[w]: dormant_signal is set
  expired,     \* expired[w]: dormant_until is past
  handled,     \* handled[w]: timeout_handled_at is set
  winner,      \* history: who cleared dormant_signal
  resolution,  \* resolution drawers
  arrived,     \* arrived[c]: position of the drawer of c in the inbox, 0 before
  marker,      \* marker[c]: status of the resolver's inbound_dispatches row
  batch,       \* clicks the resolver's current poll has still to process
  pc,          \* pc[a]: next statement of the answer a
  tick,        \* tick[t]: next statement, current and remaining waitpoints
  alerts,      \* alerts[w]: waitpoint_timeout rows in ops_alerts
  outbox,      \* outbox rows, oldest first
  relay,       \* rows of the relay's current poll, and whether the first is added
  jobs,        \* jobs in Redis that have not run
  retained,    \* finished jobs BullMQ keeps for their retention period
  runStatus,   \* skill_runs.status of the runs
  faults

human == <<arrived, marker, batch, pc>>
reaper == <<tick, alerts>>
relaying == <<relay, jobs, retained>>
opening == <<emit, expired>>
vars == <<emit, open, expired, handled, winner, resolution, human, reaper,
          outbox, relaying, runStatus, faults>>

Idle == [at |-> "idle", cur |-> None, todo |-> {}]

Init ==
  /\ emit = [w \in Waitpoint |-> "none"]
  /\ open = [w \in Waitpoint |-> FALSE]
  /\ expired = [w \in Waitpoint |-> FALSE]
  /\ handled = [w \in Waitpoint |-> FALSE]
  /\ winner = [w \in Waitpoint |-> None]
  /\ resolution = {}
  /\ arrived = [c \in Click |-> 0]
  /\ marker = [c \in Click |-> "none"]
  /\ batch = {}
  /\ pc = [a \in Actor |-> "idle"]
  /\ tick = [t \in Tick |-> Idle]
  /\ alerts = [w \in Waitpoint |-> 0]
  /\ outbox = <<>>
  /\ relay = [rows |-> {}, added |-> FALSE]
  /\ jobs = {}
  /\ retained = ById
  /\ runStatus = [r \in Run |-> "running"]
  /\ faults = 0

-----------------------------------------------------------------------------
(* The opener *)

\* createWaitpoint: one INSERT.  A library caller is done with it.
OpenWaitpoint(w) ==
  /\ emit[w] = "none"
  /\ emit' = [emit EXCEPT ![w] = IF w \in Engine THEN "waiting" ELSE "done"]
  /\ open' = [open EXCEPT ![w] = TRUE]
  /\ UNCHANGED <<expired, handled, winner, resolution, human, reaper, outbox,
                 relaying, runStatus, faults>>

\* The engine goes on with markWaiting, then writes the approval request.
MarkWaiting(w) ==
  /\ emit[w] = "waiting"
  /\ emit' = [emit EXCEPT ![w] = "request"]
  /\ runStatus' = [runStatus EXCEPT ![RunOf[w]] = "waiting"]
  /\ UNCHANGED <<expired, open, handled, winner, resolution, human, reaper,
                 outbox, relaying, faults>>

WriteRequest(w) ==
  /\ emit[w] = "request"
  /\ emit' = [emit EXCEPT ![w] = "done"]
  /\ UNCHANGED <<expired, open, handled, winner, resolution, human, reaper,
                 outbox, relaying, runStatus, faults>>

\* The timeout passes; resolveWaitpoint clears it together with the signal.
Expire(w) ==
  /\ open[w] /\ ~expired[w]
  /\ expired' = [expired EXCEPT ![w] = TRUE]
  /\ UNCHANGED <<emit, open, handled, winner, resolution, human, reaper, outbox,
                 relaying, runStatus, faults>>

-----------------------------------------------------------------------------
(* Answers *)

\* The approval request of w is on a human's screen.
Requested(w) == w \in Engine /\ emit[w] = "done"

\* A channel adapter writes the drawer of a click.
Arrive(c) ==
  /\ Requested(Target[c])
  /\ arrived[c] = 0
  /\ arrived' = [arrived EXCEPT ![c] = 1 + Cardinality({d \in Click : arrived[d] # 0})]
  /\ UNCHANGED <<opening, open, handled, winner, resolution, marker, batch, pc,
                 reaper, outbox, relaying, runStatus, faults>>

\* selectPending: the clicks without a marker row.
Pending == {c \in Click : arrived[c] # 0 /\ marker[c] = "none"}

\* The reentrance guard allows one poll at a time.
Poll ==
  /\ batch = {}
  /\ Pending # {}
  /\ batch' = Pending
  /\ UNCHANGED <<opening, open, handled, winner, resolution, arrived, marker, pc,
                 reaper, outbox, relaying, runStatus, faults>>

\* The poll processes its clicks one by one, the oldest first.
Turn(c) == c \in batch /\ \A d \in batch : arrived[c] <= arrived[d]

\* An UPDATE of the row of w by the reaper is in progress.
Locked(w) == \E t \in Tick : tick[t].at = "stamping" /\ tick[t].cur = w

\* Mutant of Claimable: the row is read before it is updated, and the update
\* does not check that the signal is still set.
ClaimableStale(w) == emit[w] # "none" /\ ~Locked(w)

\* The row resolveWaitpoint's UPDATE finds: still dormant, and not skipped
\* because it is locked.
Claimable(w) == open[w] /\ ~Locked(w)

\* The answer a is about to call resolveWaitpoint.
Ready(a) ==
  /\ pc[a] = "idle"
  /\ a \in Click => Turn(a) /\ Pick[a] \in Offered[Target[a]]
  /\ a \in Api => Requested(Target[a]) /\ Pick[a] \in Offered[Target[a]]
  /\ a \in Library => emit[Target[a]] # "none"

\* A button outside the declared decisions is ignored.
IgnoreUndeclared(c) ==
  /\ Turn(c)
  /\ pc[c] = "idle"
  /\ Pick[c] \notin Offered[Target[c]]
  /\ marker' = [marker EXCEPT ![c] = "ignored"]
  /\ batch' = batch \ {c}
  /\ UNCHANGED <<opening, open, handled, winner, resolution, arrived, pc, reaper,
                 outbox, relaying, runStatus, faults>>

\* resolveWaitpoint, the claim.
Claim(a) ==
  LET w == Target[a] IN
  /\ Ready(a)
  /\ Claimable(w)
  /\ open' = [open EXCEPT ![w] = FALSE]
  /\ expired' = [expired EXCEPT ![w] = FALSE]
  /\ winner' = [winner EXCEPT ![w] = a]
  /\ pc' = [pc EXCEPT ![a] = "drawer"]
  /\ UNCHANGED <<emit, handled, resolution, arrived, marker, batch, reaper, outbox,
                 relaying, runStatus, faults>>

\* "Waitpoint not found": the click is marked ignored, a call gets a 409 or
\* the exception.
NotFound(a) ==
  /\ Ready(a)
  /\ ~Claimable(Target[a])
  /\ IF a \in Click
     THEN /\ marker' = [marker EXCEPT ![a] = "ignored"]
          /\ batch' = batch \ {a}
          /\ UNCHANGED pc
     ELSE pc' = [pc EXCEPT ![a] = "end"] /\ UNCHANGED <<marker, batch>>
  /\ UNCHANGED <<opening, open, handled, winner, resolution, arrived, reaper,
                 outbox, relaying, runStatus, faults>>

\* Mutant of AfterResolution: a click is marked before its resumption.
AfterResolutionMark(a) ==
  IF a \in Library THEN "end" ELSE IF a \in Click THEN "mark" ELSE "outbox"

\* The next statement after the resolution drawer: a library caller is left
\* to resume the run by itself.
AfterResolution(a) == IF a \in Library THEN "end" ELSE "outbox"

\* resolveWaitpoint, the resolution drawer.
WriteResolution(a) ==
  /\ pc[a] = "drawer"
  /\ resolution' = resolution \union {[wp |-> Target[a], by |-> a, choice |-> Pick[a]]}
  /\ pc' = [pc EXCEPT ![a] = AfterResolution(a)]
  /\ UNCHANGED <<opening, open, handled, winner, arrived, marker, batch, reaper,
                 outbox, relaying, runStatus, faults>>

Queues(how) == how \in {"handler", "original"}

\* enqueueResumption: a row for a fresh run of the handler skill, a row for
\* the original run and step, or none when the handler is not installed or
\* the request carries no run.
Enqueue(a) ==
  LET how == Strategy[Target[a]][Pick[a]] IN
  /\ pc[a] = "outbox"
  /\ outbox' = IF Queues(how)
               THEN Append(outbox, [wp |-> Target[a], choice |-> Pick[a],
                                    how |-> how, sent |-> 0, done |-> FALSE])
               ELSE outbox
  /\ pc' = [pc EXCEPT ![a] = IF a \in Click THEN "mark" ELSE "end"]
  /\ UNCHANGED <<opening, open, handled, winner, resolution, arrived, marker, batch,
                 reaper, relaying, runStatus, faults>>

\* markProcessed "resolved"; the poll goes on with its next click.
MarkResolved(c) ==
  /\ pc[c] = "mark"
  /\ marker' = [marker EXCEPT ![c] = "resolved"]
  /\ batch' = batch \ {c}
  /\ pc' = [pc EXCEPT ![c] = "end"]
  /\ UNCHANGED <<opening, open, handled, winner, resolution, arrived, reaper,
                 outbox, relaying, runStatus, faults>>

\* A statement of the answer fails.  The click stays unmarked and the poll
\* goes on; a call ends with an error.
FailAnswer(a) ==
  /\ pc[a] \in {"drawer", "outbox", "mark"} \/ Ready(a)
  /\ faults < MaxFaults
  /\ faults' = faults + 1
  /\ pc' = [pc EXCEPT ![a] = IF a \in Click THEN "idle" ELSE "end"]
  /\ batch' = batch \ {a}
  /\ UNCHANGED <<opening, open, handled, winner, resolution, arrived, marker,
                 reaper, outbox, relaying, runStatus>>

-----------------------------------------------------------------------------
(* Timeouts *)

\* Mutant of Overdue: a waitpoint that has its alert is not selected again.
OverdueSilent == {w \in Waitpoint : open[w] /\ expired[w] /\ ~handled[w] /\ alerts[w] = 0}

\* The waitpoints reapExpiredWaitpoints selects.
Overdue == {w \in Waitpoint : open[w] /\ expired[w] /\ ~handled[w]}

\* The timer fires every minute, whether or not the last run has ended.
TickStart(t) ==
  /\ tick[t].at = "idle"
  /\ Overdue # {}
  /\ tick' = [tick EXCEPT ![t] = [at |-> "next", cur |-> None, todo |-> Overdue]]
  /\ UNCHANGED <<opening, open, handled, winner, resolution, human, alerts,
                 outbox, relaying, runStatus, faults>>

\* Run t is about to apply the policy of w.  createWaitpoint stores the
\* policy only when its caller passes `notify', which the engine never does.
Applies(t, w, policy) ==
  /\ tick[t].at = "next"
  /\ w \in tick[t].todo
  /\ policy = IF w \in Engine THEN "escalate" ELSE Policy[w]

\* Run t leaves its current waitpoint.
Advance(t, w) ==
  LET rest == tick[t].todo \ {w} IN
  tick' = [tick EXCEPT ![t] =
             IF rest = {} THEN Idle ELSE [at |-> "next", cur |-> None, todo |-> rest]]

At(t, w, step) ==
  tick' = [tick EXCEPT ![t] = [at |-> step, cur |-> w, todo |-> @.todo]]

\* auto_approve and auto_reject: resolveWaitpoint, which throws when the
\* waitpoint is gone; the handler then turns to the next one.
TickResolve(t, w) ==
  /\ Applies(t, w, "auto_approve") \/ Applies(t, w, "auto_reject")
  /\ IF Claimable(w)
     THEN /\ open' = [open EXCEPT ![w] = FALSE]
          /\ expired' = [expired EXCEPT ![w] = FALSE]
          /\ winner' = [winner EXCEPT ![w] = t]
          /\ At(t, w, "effect")
     ELSE Advance(t, w) /\ UNCHANGED <<open, expired, winner>>
  /\ UNCHANGED <<emit, handled, resolution, human, alerts, outbox, relaying,
                 runStatus, faults>>

\* Mutant of StillOpen: the cancellation of issue #261, without claim guard.
StillOpenUnguarded(w) == emit[w] # "none"

\* The condition of auto_cancel's UPDATE, which waits for a row lock.
StillOpen(w) == open[w]

TickCancel(t, w) ==
  /\ Applies(t, w, "auto_cancel")
  /\ ~Locked(w)
  /\ IF StillOpen(w)
     THEN /\ open' = [open EXCEPT ![w] = FALSE]
          /\ winner' = [winner EXCEPT ![w] = t]
          /\ At(t, w, "effect")
     ELSE At(t, w, "stamp") /\ UNCHANGED <<open, winner>>
  /\ UNCHANGED <<opening, handled, resolution, human, alerts, outbox, relaying,
                 runStatus, faults>>

\* escalate: one alert; the waitpoint stays resolvable.
TickEscalate(t, w) ==
  /\ Applies(t, w, "escalate")
  /\ alerts' = [alerts EXCEPT ![w] = @ + 1]
  /\ At(t, w, "stamp")
  /\ UNCHANGED <<opening, open, handled, winner, resolution, human, outbox,
                 relaying, runStatus, faults>>

\* What follows a won claim: the resolution drawer, or markCancelled.
TickEffect(t) ==
  LET w == tick[t].cur IN
  /\ tick[t].at = "effect"
  /\ IF Policy[w] = "auto_cancel"
     THEN /\ runStatus' = [runStatus EXCEPT ![RunOf[w]] = "cancelled"]
          /\ UNCHANGED resolution
     ELSE /\ resolution' = resolution \union {[wp |-> w, by |-> t, choice |-> Policy[w]]}
          /\ UNCHANGED runStatus
  /\ At(t, w, "stamp")
  /\ UNCHANGED <<opening, open, handled, winner, human, alerts, outbox, relaying,
                 faults>>

\* The stamp holds the row locked until it commits.
StampStart(t) ==
  LET w == tick[t].cur IN
  /\ tick[t].at = "stamp"
  /\ ~Locked(w)
  /\ At(t, w, "stamping")
  /\ UNCHANGED <<opening, open, handled, winner, resolution, human, alerts,
                 outbox, relaying, runStatus, faults>>

StampCommit(t) ==
  LET w == tick[t].cur IN
  /\ tick[t].at = "stamping"
  /\ handled' = [handled EXCEPT ![w] = TRUE]
  /\ Advance(t, w)
  /\ UNCHANGED <<opening, open, winner, resolution, human, alerts, outbox,
                 relaying, runStatus, faults>>

\* A statement fails: the waitpoint is left to a later run.
FailTick(t, w) ==
  /\ IF tick[t].at = "next" THEN w \in tick[t].todo ELSE w = tick[t].cur
  /\ faults < MaxFaults
  /\ faults' = faults + 1
  /\ Advance(t, w)
  /\ UNCHANGED <<opening, open, handled, winner, resolution, human, alerts,
                 outbox, relaying, runStatus>>

-----------------------------------------------------------------------------
(* The outbox relay and BullMQ *)

\* The rows pollOutbox selects.
Unprocessed == {i \in DOMAIN outbox : ~outbox[i].done}

\* pollOutbox reads its batch; the reentrance guard allows one at a time.
RelayPoll ==
  /\ relay.rows = {}
  /\ Unprocessed # {}
  /\ relay' = [rows |-> Unprocessed, added |-> FALSE]
  /\ UNCHANGED <<opening, open, handled, winner, resolution, human, reaper,
                 outbox, jobs, retained, runStatus, faults>>

\* Mutant of JobId: a new id every time the row is sent.
JobIdPerSend(i) == i + Len(outbox) * outbox[i].sent

\* The id `runId__stepId' of the job of row i.  The row of a handler carries
\* a fresh run id, stored with the row and represented by its index.
JobId(i) == IF outbox[i].how = "handler" THEN i ELSE RunOf[outbox[i].wp]

\* The rows of a poll are processed in the order they were inserted.
Current(i) == i \in relay.rows /\ \A k \in relay.rows : i <= k

\* queue.add: BullMQ ignores an id it still knows.
RelayAdd(i) ==
  LET ignored == JobId(i) \in jobs \union retained IN
  /\ Current(i) /\ ~relay.added
  /\ jobs' = IF ignored THEN jobs ELSE jobs \union {JobId(i)}
  /\ outbox' = [outbox EXCEPT ![i].sent = IF ignored THEN @ ELSE @ + 1]
  /\ relay' = [relay EXCEPT !.added = TRUE]
  /\ UNCHANGED <<opening, open, handled, winner, resolution, human, reaper,
                 retained, runStatus, faults>>

\* The row is marked once its job is added.
MaySettle(i) == Current(i) /\ relay.added

\* The relay is done with row i of its batch.
Settled(i) == [rows |-> relay.rows \ {i}, added |-> FALSE]

RelayMark(i) ==
  /\ MaySettle(i)
  /\ outbox' = [outbox EXCEPT ![i].done = TRUE]
  /\ relay' = Settled(i)
  /\ UNCHANGED <<opening, open, handled, winner, resolution, human, reaper, jobs,
                 retained, runStatus, faults>>

\* Redis or Postgres fails: the row stays unprocessed, the batch goes on.
FailRelay(i) ==
  /\ Current(i)
  /\ faults < MaxFaults
  /\ faults' = faults + 1
  /\ relay' = Settled(i)
  /\ UNCHANGED <<opening, open, handled, winner, resolution, human, reaper, jobs,
                 retained, outbox, runStatus>>

\* A job runs; the step of an original run calls markStepStarted.
RunJob(j) ==
  /\ j \in jobs
  /\ jobs' = jobs \ {j}
  /\ retained' = retained \union {j}
  /\ runStatus' = IF j \in Run THEN [runStatus EXCEPT ![j] = "running"] ELSE runStatus
  /\ UNCHANGED <<opening, open, handled, winner, resolution, human, reaper,
                 outbox, relay, faults>>

\* BullMQ forgets a finished job after 7 days or 1000 younger ones.  It is
\* assumed that the relay has marked the row of the job by then.
Evict(j) ==
  /\ j \in retained
  /\ \A i \in DOMAIN outbox : JobId(i) = j => outbox[i].done
  /\ retained' = retained \ {j}
  /\ UNCHANGED <<opening, open, handled, winner, resolution, human, reaper,
                 outbox, relay, jobs, runStatus, faults>>

\* The worker process dies and is started again: what it was doing is lost.
Crash ==
  /\ faults < MaxFaults
  /\ faults' = faults + 1
  /\ emit' = [w \in Waitpoint |-> IF emit[w] \in {"waiting", "request"} THEN "lost" ELSE emit[w]]
  /\ batch' = {}
  /\ pc' = [a \in Actor |-> IF pc[a] = "idle" THEN "idle"
                            ELSE IF a \in Click /\ marker[a] = "none" THEN "idle" ELSE "end"]
  /\ tick' = [t \in Tick |-> Idle]
  /\ relay' = [rows |-> {}, added |-> FALSE]
  /\ UNCHANGED <<expired, open, handled, winner, resolution, arrived, marker, alerts,
                 outbox, jobs, retained, runStatus>>

-----------------------------------------------------------------------------
Opening(w) == OpenWaitpoint(w) \/ MarkWaiting(w) \/ WriteRequest(w) \/ Expire(w)

Answer(a) == Claim(a) \/ NotFound(a) \/ WriteResolution(a) \/ Enqueue(a)

Resolver(c) == IgnoreUndeclared(c) \/ MarkResolved(c)

TickStep(t) ==
  \/ TickStart(t)
  \/ TickEffect(t)
  \/ StampStart(t)
  \/ StampCommit(t)
  \/ \E w \in Waitpoint : TickResolve(t, w) \/ TickCancel(t, w) \/ TickEscalate(t, w)

RelayStep == RelayPoll \/ \E i \in relay.rows : RelayAdd(i) \/ RelayMark(i)

Next ==
  \/ \E w \in Waitpoint : Opening(w)
  \/ \E c \in Click : Arrive(c) \/ Resolver(c)
  \/ Poll
  \/ \E a \in Actor : Answer(a) \/ FailAnswer(a)
  \/ \E t \in Tick : TickStep(t) \/ \E w \in Waitpoint : FailTick(t, w)
  \/ RelayStep
  \/ \E i \in relay.rows : FailRelay(i)
  \/ \E j \in jobs : RunJob(j)
  \/ \E j \in retained : Evict(j)
  \/ Crash

Spec == Init /\ [][Next]_vars

\* The timers of the process keep firing and its statements return.  Nothing
\* is assumed of openers, humans, job execution, timeouts and retention.
Fairness ==
  /\ WF_vars(Poll)
  /\ \A a \in Actor : WF_vars(Answer(a))
  /\ \A c \in Click : WF_vars(Resolver(c))
  /\ \A t \in Tick : WF_vars(TickStep(t))
  /\ WF_vars(RelayStep)

LiveSpec == Spec /\ Fairness

-----------------------------------------------------------------------------
(* Properties *)

Row == [wp : Waitpoint, choice : Choice, how : {"handler", "original"},
        sent : Nat, done : BOOLEAN]
JobIds == Run \union Nat

\* Every variable stays in its type.
TypeOK ==
  /\ emit \in [Waitpoint -> {"none", "waiting", "request", "done", "lost"}]
  /\ open \in [Waitpoint -> BOOLEAN]
  /\ expired \in [Waitpoint -> BOOLEAN]
  /\ handled \in [Waitpoint -> BOOLEAN]
  /\ winner \in [Waitpoint -> Actor \union Tick \union {None}]
  /\ resolution \subseteq [wp : Waitpoint, by : Actor \union Tick,
                           choice : Choice \union Policies]
  /\ arrived \in [Click -> Nat]
  /\ marker \in [Click -> {"none", "resolved", "ignored"}]
  /\ batch \subseteq Click
  /\ pc \in [Actor -> {"idle", "drawer", "outbox", "mark", "end"}]
  /\ tick \in [Tick -> [at : {"idle", "next", "effect", "stamp", "stamping"},
                        cur : Waitpoint \union {None}, todo : SUBSET Waitpoint]]
  /\ alerts \in [Waitpoint -> Nat]
  /\ outbox \in Seq(Row)
  /\ relay \in [rows : SUBSET (DOMAIN outbox), added : BOOLEAN]
  /\ jobs \subseteq JobIds
  /\ retained \subseteq JobIds
  /\ runStatus \in [Run -> {"running", "waiting", "cancelled"}]
  /\ faults \in 0 .. MaxFaults

\* Of all the surfaces and timeouts that race for a waitpoint, exactly the
\* one that cleared the signal records a resolution, and it records one
\* (palace.ts, resolveWaitpoint; tests/concurrency-correctness.test.ts).
OneResolution ==
  /\ \A r \in resolution : winner[r.wp] = r.by /\ ~open[r.wp]
  /\ \A r, s \in resolution : r.wp = s.wp => r = s

\* Work is resumed at most once per waitpoint, only by the answer that won,
\* with its decision, after the decision is on record; a waitpoint decided
\* by its timeout or cancelled never resumes (enqueueResumption).
ResumptionFollowsDecision ==
  \A i \in DOMAIN outbox :
    /\ [wp |-> outbox[i].wp, by |-> winner[outbox[i].wp],
        choice |-> outbox[i].choice] \in resolution
    /\ winner[outbox[i].wp] \in Click \union Api
    /\ \A k \in DOMAIN outbox : outbox[k].wp = outbox[i].wp => k = i

\* The outbox row of click c's decision.
Resumes(c) ==
  \E i \in DOMAIN outbox : outbox[i].wp = Target[c] /\ outbox[i].choice = Pick[c]

\* A click is marked "resolved" only when it won and its decision is in the
\* outbox, so that a crash cannot lose it (resolvePendingApprovals).
ResolvedClickResumes ==
  \A c \in Click : marker[c] = "resolved" =>
    /\ winner[Target[c]] = c
    /\ Strategy[Target[c]][Pick[c]] \in {"handler", "original"} => Resumes(c)

\* However often the relay sends a row again after a failure, the handler
\* skill is queued once, and it is queued when the row is processed
\* (outbox-relay.ts: "unprocessed rows remain and retry").
HandlerRunsOnce ==
  \A i \in DOMAIN outbox : outbox[i].how = "handler" =>
    outbox[i].sent <= 1 /\ (outbox[i].done => outbox[i].sent = 1)

\* A run is cancelled by a timeout only when nobody answered the waitpoint:
\* the bug of issue #261 cancelled runs a human had just approved.
CancelOnlyUnanswered ==
  [][\A r \in Run : runStatus'[r] = "cancelled" /\ runStatus[r] # "cancelled" =>
       \E t \in Tick, w \in Waitpoint :
         /\ RunOf[w] = r /\ winner[w] = t
         /\ \A s \in resolution : s.wp # w
         /\ \A a \in Actor : Target[a] = w => pc[a] \notin {"drawer", "outbox", "mark"}
    ]_vars

\* Every expired waitpoint is answered or its timeout is handled.
TimeoutHandled ==
  \A w \in Waitpoint : open[w] /\ expired[w] ~> ~open[w] \/ handled[w]

\* The decision and the effect of a waitpoint, as WaitpointDecision sees them.
DecisionOf(w) ==
  IF winner[w] = None THEN None
  ELSE IF winner[w] \in Actor THEN Pick[winner[w]] ELSE Policy[w]
EffectOf(w) ==
  LET sent == {i \in DOMAIN outbox : outbox[i].wp = w /\ outbox[i].sent > 0}
  IN  IF sent = {} THEN None ELSE outbox[CHOOSE i \in sent : TRUE].choice

WD == INSTANCE WaitpointDecision WITH
        Outcome <- Choice \union Policies,
        decided <- [w \in Waitpoint |-> DecisionOf(w)],
        effect <- [w \in Waitpoint |-> EffectOf(w)]

\* The approval round trip implements the abstract decision.
ImplementsDecision == WD!DSpec

-----------------------------------------------------------------------------
(* What comments and docs claim, and the code does not do *)

\* A click whose resumption could not be written is left unmarked "so the
\* resolver retries on next poll" (approval-resolver.ts): once the click that
\* won is settled, its decision is in the outbox.
SettledWinnerResumes ==
  \A c \in Click :
    /\ winner[Target[c]] = c /\ marker[c] # "none"
    /\ Queues(Strategy[Target[c]][Pick[c]])
    => Resumes(c)

=============================================================================
