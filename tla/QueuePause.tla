----------------------------- MODULE QueuePause -----------------------------
(***************************************************************************)
(* The daily budget (models/spend-governor.ts, tasks/spend-budget-         *)
(* monitor.ts) and the back-off after a 429 (bullmq/rate-limit.ts).  Both  *)
(* pause the one queue of the workspace.  The budget remembers its pause   *)
(* as a marker in the database, the back-off as a timer in the memory of   *)
(* the worker.                                                             *)
(*                                                                         *)
(* A run is seen from outside: it may spend while it is below its cap, and *)
(* its spend is known to the governor when it ends well (AgenticLoop).     *)
(* The slots of the worker are not all that spends: PA conversations       *)
(* (pa/service.ts) and sub-agents (subagent.ts) take no slot, know no      *)
(* pause, and have a limit of turns but no max_spend_usd.                  *)
(***************************************************************************)
EXTENDS Integers, FiniteSets

CONSTANTS
  Slot,       \* slots of the worker (NEXAAS_WORKER_CONCURRENCY)
  Talk,       \* conversations and sub-agents at a time, a bound: the code has none
  Monitor,    \* the monitor's tick
  Budget,     \* spend_daily_budget_usd
  RunCap,     \* max_spend_usd of a run
  TurnCost,   \* cost of a turn
  TalkCost,   \* cost of all the turns that maxTurns allows a conversation
  MaxRuns,    \* bound on runs and conversations
  MaxDays,    \* bound on days
  MaxErrs,    \* bound on failed statements
  MaxStops    \* bound on crashes of the worker

ASSUME QueuePauseAssumption ==
  /\ Monitor \notin Slot /\ IsFiniteSet(Slot) /\ IsFiniteSet(Talk)
  /\ {Budget, RunCap, TurnCost, TalkCost} \subseteq Nat \ {0}
  /\ {MaxRuns, MaxDays, MaxErrs, MaxStops} \subseteq Nat

VARIABLES
  day, spent, override,  \* the local day, its row in spend_daily, the operator's override
  slot, bill,            \* slot[s]: where its run is; bill[s]: what the run has cost
  talk, tab,             \* the same of conversations and sub-agents
  paused, marker,        \* the pause flag in Redis; spend_pause_active_day, 0 for none
  timer, strays,         \* the timer in _activePauses, and timers it lost track of
  act,                   \* act[p]: the pause or resume that p is carrying out
  up,                    \* the worker runs
  runs, errs, stops,     \* counters of the bounds
  waived,                \* history: the override was on for some time of the day
  crossing               \* history: a pause for the budget met a resume by the monitor

account == <<day, spent, override, waived>>
work == <<slot, bill, runs>>
talks == <<talk, tab>>
flags == <<paused, marker>>
pauseVars == <<account, work, talks, flags, timer, strays, act, up, errs, stops, crossing>>

Party == Slot \union {Monitor}
NoAct == [step |-> "none", day |-> 0]

PauseInit ==
  /\ day = 1 /\ spent = 0 /\ override = FALSE /\ waived = FALSE
  /\ slot = [s \in Slot |-> "idle"] /\ bill = [s \in Slot |-> 0]
  /\ talk = [u \in Talk |-> "idle"] /\ tab = [u \in Talk |-> 0]
  /\ paused = FALSE /\ marker = 0
  /\ timer = FALSE /\ strays = 0
  /\ act = [p \in Party |-> NoAct]
  /\ up = TRUE
  /\ runs = 0 /\ errs = 0 /\ stops = 0
  /\ crossing = FALSE

Err == errs < MaxErrs /\ errs' = errs + 1
NoErr == errs' = errs

\* getBudgetState
Exceeded == ~override /\ spent >= Budget

-----------------------------------------------------------------------------
(* The operator and the clock *)

\* nexaas config set spend-override, and its removal.
SetOverride ==
  /\ override' = ~override
  /\ waived' = TRUE
  /\ runs < MaxRuns /\ runs' = runs + 1
  /\ UNCHANGED <<day, spent, slot, bill, talks, flags, timer, strays, act, up, stops, crossing>>
  /\ NoErr

\* Midnight: the day has no row yet, and the override names another day.
NextDay ==
  /\ day < MaxDays
  /\ day' = day + 1 /\ spent' = 0 /\ override' = FALSE /\ waived' = FALSE
  /\ UNCHANGED <<work, talks, flags, timer, strays, act, up, stops, crossing>> /\ NoErr

-----------------------------------------------------------------------------
(* Runs *)

\* A slot whose job still carries out a pause takes no other.  A step of the
\* pillar pipeline has no check of its own before the gateway's.
Take(s) ==
  /\ up /\ ~paused /\ slot[s] = "idle" /\ act[s] = NoAct /\ runs < MaxRuns
  /\ \E st \in {"check", "gate"} : slot' = [slot EXCEPT ![s] = st]
  /\ runs' = runs + 1
  /\ UNCHANGED <<account, bill, talks, flags, timer, strays, act, up, stops, crossing>> /\ NoErr

\* The check before the run: over budget, the run is skipped and the queue is
\* paused; an error lets the run go on.
PreRun(s) ==
  /\ slot[s] = "check"
  /\ \/ /\ Exceeded /\ NoErr
        /\ slot' = [slot EXCEPT ![s] = "skipping"]
        /\ act' = [act EXCEPT ![s] = [step |-> "marker?", day |-> day]]
     \/ /\ (Exceeded /\ Err) \/ (~Exceeded /\ NoErr)
        /\ slot' = [slot EXCEPT ![s] = "gate"] /\ act' = act
  /\ UNCHANGED <<account, bill, runs, talks, flags, timer, strays, up, stops, crossing>>

\* Mutant of GateOpen: the gate lets everything pass.
GateAjar == TRUE

\* assertWithinBudget, in the gateway.
GateOpen == ~Exceeded

Gate(s) ==
  /\ slot[s] = "gate"
  /\ slot' = [slot EXCEPT ![s] = IF GateOpen THEN "run" ELSE "idle"]
  /\ UNCHANGED <<account, bill, runs, talks, flags, timer, strays, act, up, stops, crossing>>
  /\ NoErr

\* A turn of the loop; a run at its cap has no other.
Turn(s) ==
  /\ slot[s] = "run" /\ bill[s] < RunCap
  /\ bill' = [bill EXCEPT ![s] = @ + TurnCost]
  /\ UNCHANGED <<account, slot, runs, talks, flags, timer, strays, act, up, stops, crossing>>
  /\ NoErr

\* recordSpend at the end of the loop: the day is the day of the record.
Finish(s) ==
  /\ slot[s] = "run"
  /\ \/ spent' = spent + bill[s] /\ NoErr
     \/ spent' = spent /\ Err
  /\ slot' = [slot EXCEPT ![s] = "idle"] /\ bill' = [bill EXCEPT ![s] = 0]
  /\ UNCHANGED <<day, override, waived, runs, talks, flags, timer, strays, act, up, stops, crossing>>

\* The loop throws, and what it has spent so far is not recorded; after a 429
\* the worker calls pauseQueueFor, which finds a timer that runs long enough,
\* or drops the one there is and pauses the queue.
Throw(s, limited) ==
  /\ slot[s] = "run" /\ NoErr
  /\ bill' = [bill EXCEPT ![s] = 0]
  /\ slot' = [slot EXCEPT ![s] = "idle"]
  /\ IF limited
     THEN \/ timer /\ UNCHANGED <<timer, act>>
          \/ timer' = FALSE /\ act' = [act EXCEPT ![s] = [step |-> "limit", day |-> day]]
     ELSE UNCHANGED <<timer, act>>
  /\ act[s] = NoAct
  /\ UNCHANGED <<account, runs, talks, flags, strays, up, stops, crossing>>

-----------------------------------------------------------------------------
(* Conversations and sub-agents *)

\* A message arrives over HTTP, or somebody calls subagent(), which goes to the
\* gateway at once; no pause of the queue holds them.
Hear(u) ==
  /\ up /\ talk[u] = "idle" /\ runs < MaxRuns
  /\ \E st \in {"look", "gate"} : talk' = [talk EXCEPT ![u] = st]
  /\ runs' = runs + 1
  /\ UNCHANGED <<account, slot, bill, tab, flags, timer, strays, act, up, stops, crossing>>
  /\ NoErr

\* The refusal of a persona that is over budget; an error lets it go on.
Look(u) ==
  /\ talk[u] = "look"
  /\ \/ talk' = [talk EXCEPT ![u] = IF Exceeded THEN "idle" ELSE "gate"] /\ NoErr
     \/ Exceeded /\ talk' = [talk EXCEPT ![u] = "gate"] /\ Err
  /\ UNCHANGED <<account, work, tab, flags, timer, strays, act, up, stops, crossing>>

TalkGate(u) ==
  /\ talk[u] = "gate"
  /\ talk' = [talk EXCEPT ![u] = IF GateOpen THEN "run" ELSE "idle"]
  /\ UNCHANGED <<account, work, tab, flags, timer, strays, act, up, stops, crossing>>
  /\ NoErr

\* A turn: only their number is limited.
TalkTurn(u) ==
  /\ talk[u] = "run" /\ tab[u] + TurnCost <= TalkCost
  /\ tab' = [tab EXCEPT ![u] = @ + TurnCost]
  /\ UNCHANGED <<account, work, talk, flags, timer, strays, act, up, stops, crossing>>
  /\ NoErr

\* The loop ends, well or not, and only then: the timeout of the request answers
\* the user and leaves the loop to itself.
TalkEnds(u) ==
  /\ talk[u] = "run"
  /\ \/ spent' \in {spent, spent + tab[u]} /\ NoErr
     \/ spent' = spent /\ Err
  /\ talk' = [talk EXCEPT ![u] = "idle"] /\ tab' = [tab EXCEPT ![u] = 0]
  /\ UNCHANGED <<day, override, waived, work, flags, timer, strays, act, up, stops, crossing>>

-----------------------------------------------------------------------------
(* The back-off *)

Goto(p, st) == act' = [act EXCEPT ![p] = IF st = "none" THEN NoAct ELSE [@ EXCEPT !.step = st]]

\* queue.pause, or an error that is logged.
LimitPauses(s) ==
  /\ act[s].step = "limit"
  /\ \/ paused' = TRUE /\ Goto(s, "time") /\ NoErr
     \/ paused' = paused /\ Goto(s, "none") /\ Err
  /\ UNCHANGED <<account, work, talks, marker, timer, strays, up, stops, crossing>>

\* Then the audit entry, and only then the timer.
StartTimer(s) ==
  /\ act[s].step = "time"
  /\ \/ /\ timer' = TRUE /\ strays' = (IF timer THEN strays + 1 ELSE strays) /\ NoErr
     \/ UNCHANGED <<timer, strays>> /\ Err
  /\ Goto(s, "none")
  /\ UNCHANGED <<account, work, talks, flags, up, stops, crossing>>

\* A timer ends; whatever it was, the entry in _activePauses goes.
TimerEnds(tracked) ==
  /\ up
  /\ IF tracked THEN timer /\ strays' = strays
     ELSE strays > 0 /\ strays' = strays - 1 + (IF timer THEN 1 ELSE 0)
  /\ timer' = FALSE
  /\ \/ paused' = FALSE /\ NoErr
     \/ paused' = paused /\ Err
  /\ UNCHANGED <<account, work, talks, marker, act, up, stops, crossing>>

-----------------------------------------------------------------------------
(* The budget's pause *)

\* One tick of the monitor: getBudgetState, and for a budget that is kept the
\* marker of an earlier pause.
Tick ==
  /\ up /\ act[Monitor] = NoAct
  /\ \/ Exceeded /\ act' = [act EXCEPT ![Monitor] = [step |-> "marker?", day |-> day]]
     \/ ~Exceeded /\ marker # 0 /\ act' = [act EXCEPT ![Monitor] = [step |-> "resume", day |-> day]]
  /\ UNCHANGED <<account, work, talks, flags, timer, strays, up, stops, crossing>> /\ NoErr

\* A slot whose pause is over: the run was skipped, and goes on when the pause
\* threw (the catch of the check before the run).
AfterAct(p, threw) ==
  slot' = IF p \in Slot /\ slot[p] = "skipping"
          THEN [slot EXCEPT ![p] = IF threw THEN "gate" ELSE "idle"] ELSE slot

\* pauseForBudgetBreach, idempotent for a day.
ReadMarker(p) ==
  /\ act[p].step = "marker?"
  /\ \/ marker = act[p].day /\ Goto(p, "none") /\ AfterAct(p, FALSE) /\ NoErr
     \/ marker # act[p].day /\ Goto(p, "pause") /\ slot' = slot /\ NoErr
     \/ Goto(p, "none") /\ AfterAct(p, TRUE) /\ Err
  /\ UNCHANGED <<account, bill, runs, talks, flags, timer, strays, up, stops, crossing>>

\* Is another party at one of these statements?
Crosses(p, others) ==
  crossing' = (crossing \/ \E q \in Party \ {p} : act[q].step \in others)

BudgetPauses(p) ==
  /\ act[p].step = "pause" /\ Crosses(p, {"resume", "clear"})
  /\ \/ paused' = TRUE /\ Goto(p, "write") /\ slot' = slot /\ NoErr
     \/ paused' = paused /\ Goto(p, "none") /\ AfterAct(p, FALSE) /\ Err
  /\ UNCHANGED <<account, bill, runs, talks, marker, timer, strays, up, stops>>

\* The marker, and then the audit entry, alerts and fleet event.
WriteMarker(p) ==
  /\ act[p].step = "write" /\ Goto(p, "none")
  /\ \/ marker' = act[p].day /\ AfterAct(p, FALSE) /\ NoErr
     \/ marker' \in {marker, act[p].day} /\ AfterAct(p, TRUE) /\ Err
  /\ UNCHANGED <<account, bill, runs, talks, paused, timer, strays, up, stops, crossing>>

\* resumeAfterBudgetPause
BudgetResumes ==
  /\ act[Monitor].step = "resume" /\ Crosses(Monitor, {"pause", "write"})
  /\ \/ paused' = FALSE /\ Goto(Monitor, "clear") /\ NoErr
     \/ paused' = paused /\ Goto(Monitor, "none") /\ Err
  /\ UNCHANGED <<account, work, talks, marker, timer, strays, up, stops>>

ClearMarker ==
  /\ act[Monitor].step = "clear" /\ Goto(Monitor, "none")
  /\ \/ marker' = 0 /\ NoErr
     \/ marker' = marker /\ Err
  /\ UNCHANGED <<account, work, talks, paused, timer, strays, up, stops, crossing>>

-----------------------------------------------------------------------------
(* Restarts *)

Stop ==
  /\ up /\ stops < MaxStops
  /\ stops' = stops + 1 /\ up' = FALSE
  /\ slot' = [s \in Slot |-> "idle"] /\ bill' = [s \in Slot |-> 0]
  /\ talk' = [u \in Talk |-> "idle"] /\ tab' = [u \in Talk |-> 0]
  /\ timer' = FALSE /\ strays' = 0 /\ act' = [p \in Party |-> NoAct]
  /\ UNCHANGED <<account, runs, flags, crossing>> /\ NoErr

\* Mutant of Reconciled: a pause without a marker is left alone.
ReconciledNever == paused

\* reconcileUnownedQueuePause: nobody in this process owns a pause that has no
\* marker.
Reconciled == paused /\ marker # 0

Restart ==
  /\ ~up /\ up' = TRUE
  /\ \/ paused' = Reconciled /\ NoErr
     \/ paused' = paused /\ Err
  /\ UNCHANGED <<account, work, talks, marker, timer, strays, act, stops, crossing>>

-----------------------------------------------------------------------------
SlotStep(s) ==
  \/ Take(s) \/ PreRun(s) \/ Gate(s) \/ Turn(s) \/ Finish(s)
  \/ (\E limited \in BOOLEAN : Throw(s, limited))

TalkStep(u) == Hear(u) \/ Look(u) \/ TalkGate(u) \/ TalkTurn(u) \/ TalkEnds(u)

PauseStep(p) ==
  \/ ReadMarker(p) \/ BudgetPauses(p) \/ WriteMarker(p)
  \/ p \in Slot /\ (LimitPauses(p) \/ StartTimer(p))

MonitorStep == Tick \/ PauseStep(Monitor) \/ BudgetResumes \/ ClearMarker

Timers == \E tracked \in BOOLEAN : TimerEnds(tracked)

PauseNext ==
  \/ SetOverride \/ NextDay
  \/ (\E s \in Slot : SlotStep(s) \/ PauseStep(s))
  \/ (\E u \in Talk : TalkStep(u))
  \/ MonitorStep \/ Timers \/ Stop \/ Restart

PauseSpec == PauseInit /\ [][PauseNext]_pauseVars

-----------------------------------------------------------------------------
(* Properties *)

Steps == {"none", "marker?", "pause", "write", "resume", "clear", "limit", "time"}

PauseTypeOK ==
  /\ {day, spent, runs, errs, stops, strays, marker} \subseteq Nat
  /\ {override, waived, paused, timer, up, crossing} \subseteq BOOLEAN
  /\ slot \in [Slot -> {"idle", "check", "skipping", "gate", "run"}] /\ bill \in [Slot -> Nat]
  /\ talk \in [Talk -> {"idle", "look", "gate", "run"}] /\ tab \in [Talk -> Nat]
  /\ act \in [Party -> [step : Steps, day : Nat]]

MostOfARun == RunCap - 1 + TurnCost

\* On a day without an override the budget is exceeded by less than what can be
\* under way when it is used up: in every slot a run, a turn over its cap, and
\* conversations and sub-agents with all their turns, although each of them
\* looks at the budget only before its first turn (spend-governor.ts:9-22).
OvershootIsBounded ==
  /\ PauseTypeOK
  /\ \A s \in Slot : bill[s] <= MostOfARun
  /\ \A u \in Talk : tab[u] <= TalkCost
  /\ ~waived => spent < Budget + Cardinality(Slot) * MostOfARun + Cardinality(Talk) * TalkCost

\* A paused queue has somebody who will resume it: the marker of the budget, a
\* timer, or a pause in progress; but for a statement that failed, or a pause
\* that overlaps a resume.
PausesAreOwned ==
  up /\ paused /\ errs = 0 /\ ~crossing =>
    \/ marker # 0 \/ timer \/ strays > 0
    \/ \E p \in Party : act[p].step \in {"write", "limit", "time"}

\* A queue does not stay paused when the budget is not exceeded any more,
\* although timers are lost with the worker.
PausesEnd ==
  <>[](errs = 0 /\ ~crossing /\ ~Exceeded) => []<>(~paused)

=============================================================================
