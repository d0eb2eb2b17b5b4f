---------------------------- MODULE RunLifecycle ----------------------------
(***************************************************************************)
(* The life of skill runs: the BullMQ worker (bullmq/worker.ts) picks a    *)
(* job, an executor (shell-skill.ts, ai-skill.ts, pipeline.ts) works on    *)
(* it and records its end, and the row of the run in skill_runs follows    *)
(* through run-tracker.ts.  Around it: the retries and the stall recovery  *)
(* of BullMQ, the shutdown sweep, the reconciliation at startup, the       *)
(* orphan reaper, and the silent-failure watchdog behind each failure.     *)
(*                                                                         *)
(* All jobs are of one skill.  Every statement an executor sends to the    *)
(* database is one step; statements between which nothing else can be      *)
(* told apart (log entry, last_activity, mark) are one step, which may     *)
(* throw before the mark.  A run is <<job, n>>: a job whose data carries a *)
(* run id keeps one run, any other gets a new one at each pick-up.         *)
(***************************************************************************)
EXTENDS Integers, Sequences, FiniteSets

CONSTANTS
  Job,
  Kinds,        \* what the skill may be: "shell", "ai", "pipeline" (a job
                \* without manifestPath) or "unknown" (execution.type)
  Concurrency,  \* concurrency of the BullMQ worker
  Attempts,     \* attempts of a job, queues.ts
  Threshold,    \* THRESHOLD of the watchdog
  MaxFaults,    \* bound on statements that throw
  MaxStops      \* bound on crashes and shutdowns of the worker

ASSUME RunLifecycleAssumption ==
  /\ Kinds \subseteq {"shell", "ai", "pipeline", "unknown"}
  /\ Attempts \in Nat \ {0}
  /\ Threshold \in Nat \ {0, 1}
  /\ Concurrency \in Nat /\ MaxFaults \in Nat /\ MaxStops \in Nat

\* A job is picked up once per attempt and once more after a stall.
Run == Job \X (1 .. Attempts + 1)

VARIABLES
  kind,       \* execution type of the skill
  job,        \* job[j]: what BullMQ knows of j; named if its data has a
              \* runId, as that of a dispatched job has and a cron job's not
  pick,       \* pick[j]: how often j was picked up
  exec,       \* exec[j]: the executor that works on j
  status,     \* status[r]: skill_runs.status, "none" without a row
  age,        \* age of last_activity of a running row: 0, 1 (over 2 minutes)
              \* or 2 (over 20)
  said,       \* said[r]: outcomes named by the terminal drawers of r
  began,      \* the runs in the order of started_at
  alerts,     \* first failed runs of the streaks alerted
  worker,     \* the worker process
  sweep,      \* rows the shutdown sweep still has to mark
  unchecked,  \* history: failures behind which the watchdog has not looked
  disturbed,  \* history: the runs did not end one after the other
  faults, stops

rows == <<status, age, said, began>>
watchdog == <<alerts, unchecked>>
queue == <<job, pick>>
bounds == <<faults, stops>>
vars == <<kind, queue, exec, rows, watchdog, worker, sweep, bounds, disturbed>>

\* Where an executor is: its next statement, the try block that statement
\* is in, the outcome it is about to record, and whether it throws at its
\* end.
At(pc, path, outcome, throws) ==
  [pc |-> pc, path |-> path, outcome |-> outcome, throws |-> throws]

Idle == At("idle", "none", "none", FALSE)

Alive(j) == exec[j].pc # "idle"

RunOf(j) == IF job[j].named THEN <<j, 1>> ELSE <<j, pick[j]>>

Init ==
  /\ kind \in Kinds
  /\ \E named \in [Job -> BOOLEAN] :
       job = [j \in Job |-> [state |-> "waiting", fails |-> 0, stalls |-> 0, named |-> named[j]]]
  /\ pick = [j \in Job |-> 0]
  /\ exec = [j \in Job |-> Idle]
  /\ status = [r \in Run |-> "none"]
  /\ age = [r \in Run |-> 0]
  /\ said = [r \in Run |-> {}]
  /\ began = <<>>
  /\ alerts = {}
  /\ worker = "up"
  /\ sweep = {}
  /\ unchecked = {} /\ disturbed = FALSE
  /\ faults = 0 /\ stops = 0

-----------------------------------------------------------------------------
(* run-tracker.ts *)

\* The statuses the watchdog counts as the end of a run.
Counted == {"completed", "failed", "escalated", "cancelled"}

\* Some mark of the tracker: an unconditional UPDATE of the row of r.
Marked(r, s) ==
  /\ status' = [status EXCEPT ![r] = IF @ = "none" THEN @ ELSE s]
  /\ age' = [age EXCEPT ![r] = 0]

\* createRun; a second insert of a run is refused (23505), which its callers
\* ignore.
CreateRun(r) ==
  IF status[r] = "none"
  THEN /\ status' = [status EXCEPT ![r] = "running"]
       /\ began' = Append(began, r)
       /\ UNCHANGED <<age, said>>
  ELSE UNCHANGED rows

\* Mutant of Beaten: the heartbeat looks for waiting rows.
BeatenWaiting(r) == status[r] = "waiting"

\* The rows heartbeat refreshes.
Beaten(r) == status[r] = "running"

-----------------------------------------------------------------------------
(* BullMQ *)

\* A job that has failed n times is tried again.
Retries(n) == n < Attempts

\* The outcome of an attempt reaches BullMQ unless the worker was
\* force-closed.
Report(j, s) ==
  /\ exec' = [exec EXCEPT ![j] = Idle]
  /\ \/ job' = [job EXCEPT ![j] = s]
     \/ worker = "sweeping" /\ UNCHANGED job
  /\ UNCHANGED pick

AttemptSucceeds(j) == Report(j, [job[j] EXCEPT !.state = "done"])

AttemptFails(j) ==
  LET n == job[j].fails + 1
  IN Report(j, [job[j] EXCEPT !.fails = n,
                              !.state = IF Retries(n) THEN "waiting" ELSE "failed"])

Goto(j, e) == exec' = [exec EXCEPT ![j] = e] /\ UNCHANGED queue

\* The executor goes on with another statement and keeps the rest.
Step(j, pc) == Goto(j, [exec[j] EXCEPT !.pc = pc])

Throws == faults < MaxFaults /\ faults' = faults + 1 /\ UNCHANGED stops

Works == UNCHANGED bounds

\* The processor of the worker: a manifest that is gone or of an unknown
\* type has its own handler.
PickUp(j) ==
  /\ worker = "up"
  /\ job[j].state = "waiting"
  /\ Cardinality({k \in Job : Alive(k)}) < Concurrency
  /\ job' = [job EXCEPT ![j].state = "active"]
  /\ pick' = [pick EXCEPT ![j] = @ + 1]
  /\ \/ /\ kind # "unknown"
        /\ exec' = [exec EXCEPT ![j] = At("create", "start", "none", FALSE)]
     \/ /\ kind # "pipeline"
        /\ exec' = [exec EXCEPT ![j] = At("create", "phantom", "failed", TRUE)]
     \/ /\ kind = "unknown"
        /\ exec' = [exec EXCEPT ![j] = At("create", "phantom", "failed", FALSE)]
  /\ UNCHANGED <<kind, rows, watchdog, worker, sweep, bounds>>

\* A job that was active in a worker that died goes back to the queue once;
\* the second time it fails.
Stalled(j) ==
  /\ worker = "up"
  /\ job[j].state = "active" /\ ~Alive(j)
  /\ job' = [job EXCEPT ![j] = IF @.stalls = 0
                               THEN [@ EXCEPT !.state = "waiting", !.stalls = 1]
                               ELSE [@ EXCEPT !.state = "failed"]]
  /\ UNCHANGED <<kind, pick, exec, rows, watchdog, worker, sweep, bounds>>

-----------------------------------------------------------------------------
(* What an executor does when a statement throws *)

\* Mutant of AfterThrow: the executors swallow the error of the drawer in
\* their try block.
AfterThrowSwallowed(j) ==
  LET e == exec[j]
  IN CASE e.pc = "say" -> Step(j, "mark")
       [] OTHER -> AttemptFails(j)

\* In the try block: to the catch block.  In the budget gate: go on without
\* it.  In the catch block: only ai-skill.ts guards its drawer.  Anywhere
\* else the error reaches BullMQ.
AfterThrow(j) ==
  LET e == exec[j]
  IN CASE e.path = "try" -> Goto(j, At("say", "catch", "failed", FALSE))
       [] e.path = "budget" -> Goto(j, At("loop", "try", "none", FALSE))
       [] e.path = "catch" /\ e.pc = "say" /\ kind = "ai" -> Step(j, "mark")
       [] OTHER -> AttemptFails(j)

\* The executor returns or, behind a 429, a pipeline error or a missing
\* manifest, throws.
Finish(j) == IF exec[j].throws THEN AttemptFails(j) ELSE AttemptSucceeds(j)

-----------------------------------------------------------------------------
(* The executors *)

\* createRun.  The handlers of unusable manifests go on when it throws.
Create(j) ==
  LET goOn == Step(j, IF exec[j].path = "phantom" THEN "mark" ELSE "start")
  IN /\ exec[j].pc = "create"
     /\ \/ Works /\ CreateRun(RunOf(j)) /\ goOn
        \/ /\ Throws /\ UNCHANGED rows
           /\ IF exec[j].path = "phantom" THEN goOn ELSE AttemptFails(j)
     /\ UNCHANGED <<kind, watchdog, worker, sweep>>

\* markStepStarted: 'running', whatever the row said.
Start(j) ==
  LET r == RunOf(j)
  IN /\ exec[j].pc = "start"
     /\ \/ /\ Works
           /\ Marked(r, "running")
           /\ UNCHANGED <<said, began>>
           /\ Goto(j, At(IF kind = "ai" THEN "gate" ELSE "work", "try", "none", FALSE))
        \/ Throws /\ UNCHANGED <<rows>> /\ AttemptFails(j)
     /\ UNCHANGED <<kind, watchdog, worker, sweep>>

\* The command of a shell skill exits.
CommandEnds(j) ==
  /\ kind = "shell" /\ exec[j].pc = "work"
  /\ \/ Goto(j, At("say", "try", "ok", FALSE))
     \/ Goto(j, At("say", "catch", "failed", FALSE))
  /\ UNCHANGED <<kind, rows, watchdog, worker, sweep, bounds>>

\* The preflight passes, asks to skip, or fails; it is in no try block.
Preflight(j) ==
  /\ exec[j].pc = "gate"
  /\ \/ Works /\ Goto(j, At("budget", "gate", "none", FALSE))
     \/ Works /\ Goto(j, At("say", "gate", "skipped", FALSE))
     \/ Works /\ Goto(j, At("say", "gate", "failed", FALSE))
     \/ Throws /\ AttemptFails(j)
  /\ UNCHANGED <<kind, rows, watchdog, worker, sweep>>

\* The daily budget is exceeded, or it is not (or cannot be evaluated) and
\* the agentic loop starts.
BudgetGate(j) ==
  /\ exec[j].pc = "budget"
  /\ \/ Goto(j, At("say", "budget", "skipped", FALSE))
     \/ Goto(j, At("loop", "try", "none", FALSE))
  /\ UNCHANGED <<kind, rows, watchdog, worker, sweep, bounds>>

\* The interval timer of the loop fires.
Heartbeat(j) ==
  LET r == RunOf(j)
  IN /\ exec[j].pc = "loop"
     /\ Step(j, "beat")
     /\ age' = [age EXCEPT ![r] = IF Beaten(r) THEN 0 ELSE @]
     /\ UNCHANGED <<kind, status, said, began, watchdog, worker, sweep, bounds>>

\* The engine applies an action that asks for approval or escalates: the
\* pipeline in its step, an ai-skill by framework__produce_output.
ApplyAction(j) ==
  /\ \/ kind = "pipeline" /\ exec[j].pc = "work"
     \/ exec[j].pc \in {"loop", "beat"}
  /\ \E s \in {"waiting", "escalated"} : status[RunOf(j)] # s /\ Marked(RunOf(j), s)
  /\ UNCHANGED <<kind, queue, exec, said, began, watchdog, worker, sweep, bounds>>

\* The agentic loop returns (end_turn, or aborted by a limit) or throws;
\* a 429 is thrown on.
LoopEnds(j) ==
  /\ exec[j].pc \in {"loop", "beat"}
  /\ \/ Goto(j, At("say", "try", "ok", FALSE))
     \/ Goto(j, At("say", "try", "failed", FALSE))
     \/ \E rateLimited \in BOOLEAN : Goto(j, At("say", "catch", "failed", rateLimited))
  /\ UNCHANGED <<kind, rows, watchdog, worker, sweep, bounds>>

\* The pillar pipeline ends its step, with a mark of last_activity only, or
\* with an error that is marked, without a drawer, and thrown on.
StepEnds(j) ==
  /\ kind = "pipeline" /\ exec[j].pc = "work"
  /\ \/ /\ age' = [age EXCEPT ![RunOf(j)] = 0]
        /\ UNCHANGED <<status, said, began>>
        /\ AttemptSucceeds(j)
     \/ UNCHANGED rows /\ Goto(j, At("mark", "catch", "failed", TRUE))
  /\ UNCHANGED <<kind, watchdog, worker, sweep, bounds>>

\* The terminal drawer.  The handlers of unusable manifests write it last.
Say(j) ==
  LET phantom == exec[j].path = "phantom"
      r == RunOf(j)
  IN /\ exec[j].pc = "say"
     /\ \/ /\ Works
           /\ said' = [said EXCEPT ![r] = @ \union {exec[j].outcome}]
           /\ IF phantom THEN Finish(j) ELSE Step(j, "mark")
        \/ /\ Throws /\ UNCHANGED said
           /\ IF phantom THEN Finish(j) ELSE AfterThrow(j)
     /\ UNCHANGED <<kind, status, age, began, watchdog, worker, sweep>>

\* An ai-skill whose primary output is not routed to auto_execute hands the
\* payload of its drawer to the engine, which may mark the run.
SayRouted(j) ==
  LET r == RunOf(j)
  IN /\ kind = "ai" /\ exec[j].pc = "say"
     /\ exec[j].path = "try" /\ exec[j].outcome = "ok"
     /\ said' = [said EXCEPT ![r] = @ \union {"ok"}]
     /\ \/ UNCHANGED <<status, age>>
        \/ \E s \in {"waiting", "escalated"} : Marked(r, s)
     /\ Step(j, "mark")
     /\ UNCHANGED <<kind, began, watchdog, worker, sweep, bounds>>

\* markStepFailed up to its UPDATE; the watchdog comes next.
MarkFailed(j) ==
  LET r == RunOf(j)
  IN /\ Marked(r, "failed")
     /\ unchecked' = unchecked \union IF status[r] = "none" THEN {} ELSE {r}
     /\ Step(j, "watch")

\* markCompleted, markSkipped or markStepFailed, behind the log entry.
Mark(j) ==
  LET e == exec[j]
      r == RunOf(j)
  IN /\ e.pc = "mark"
     /\ \/ /\ e.outcome = "ok" /\ Works
           /\ Marked(r, "completed")
           /\ Finish(j) /\ UNCHANGED unchecked
        \/ /\ e.outcome = "skipped" /\ Works
           /\ Marked(r, "skipped")
           /\ IF e.path = "budget" THEN Step(j, "pause") ELSE Finish(j)
           /\ UNCHANGED unchecked
        \/ e.outcome = "failed" /\ Works /\ MarkFailed(j)
        \/ /\ Throws /\ UNCHANGED <<status, age>>
           /\ IF e.path = "phantom" THEN Step(j, "say") ELSE AfterThrow(j)
           /\ UNCHANGED unchecked
     /\ UNCHANGED <<kind, said, began, alerts, worker, sweep>>

\* Required outputs were not produced: a second drawer, then the mark.
OutputMissing(j) ==
  /\ kind = "ai" /\ exec[j].pc = "mark" /\ exec[j].outcome = "ok"
  /\ Goto(j, At("say", "try", "failed", FALSE))
  /\ UNCHANGED <<kind, rows, watchdog, worker, sweep, bounds>>

\* The verification of the outputs fails: the mark only.
VerificationFails(j) ==
  /\ kind = "ai" /\ exec[j].pc = "mark" /\ exec[j].outcome = "ok"
  /\ MarkFailed(j)
  /\ UNCHANGED <<kind, said, began, alerts, worker, sweep, bounds>>

\* pauseForBudgetBreach, behind markSkipped and in the same try block.
Pause(j) ==
  /\ exec[j].pc = "pause"
  /\ \/ Works /\ Finish(j)
     \/ Throws /\ AfterThrow(j)
  /\ UNCHANGED <<kind, rows, watchdog, worker, sweep>>

-----------------------------------------------------------------------------
(* tasks/silent-failure-watchdog.ts *)

\* The positions in began of the last n ended runs of a table.
Recent(table, n) ==
  LET ended == {i \in DOMAIN began : table[began[i]] \in Counted}
  IN {i \in ended : Cardinality({k \in ended : k >= i}) <= n}

Failed(table, positions) == \A i \in positions : table[began[i]] = "failed"

\* Mutant of Crossing: no look at the run before the streak.
CrossingAlways(table) ==
  LET last == Recent(table, Threshold)
  IN Cardinality(last) = Threshold /\ Failed(table, last)

\* The last Threshold runs failed and the one before, if any, did not.
Crossing(table) ==
  LET last == Recent(table, Threshold)
      more == Recent(table, Threshold + 1)
  IN /\ Cardinality(last) = Threshold /\ Failed(table, last)
     /\ more = last \/ ~Failed(table, more)

\* checkFailureStreak behind the failure of r: an alert names the first of
\* the last Threshold failures.
CheckFailureStreak(r, table) ==
  LET last == Recent(table, Threshold)
      first == {began[i] : i \in {m \in last : \A k \in last : m <= k}}
  IN /\ alerts' = alerts \union IF Crossing(table) THEN first ELSE {}
     /\ unchecked' = unchecked \ {r}

\* The end of markStepFailed; an error of the watchdog is logged and
\* forgotten.
Watch(j) ==
  /\ exec[j].pc = "watch"
  /\ \/ Works /\ CheckFailureStreak(RunOf(j), status)
     \/ Throws /\ UNCHANGED watchdog
  /\ IF exec[j].path = "phantom" THEN Step(j, "say") ELSE Finish(j)
  /\ UNCHANGED <<kind, rows, worker, sweep>>

-----------------------------------------------------------------------------
(* The worker process and its timers *)

Killed == exec' = [j \in Job |-> Idle]

Stops == stops < MaxStops /\ stops' = stops + 1 /\ UNCHANGED faults

Crash ==
  /\ worker # "down" /\ Stops
  /\ worker' = "down" /\ sweep' = {} /\ Killed
  /\ UNCHANGED <<kind, queue, rows, watchdog>>

\* SIGTERM: no more jobs are picked up.
Shutdown ==
  /\ worker = "up" /\ Stops
  /\ worker' = "draining"
  /\ UNCHANGED <<kind, queue, exec, rows, watchdog, sweep>>

\* The jobs are done or the 25 seconds are over; the sweep reads the rows.
DrainEnds ==
  /\ worker = "draining"
  /\ worker' = "sweeping"
  /\ \/ Works /\ sweep' = {r \in Run : status[r] = "running"}
     \/ Throws /\ UNCHANGED sweep
  /\ UNCHANGED <<kind, queue, exec, rows, watchdog>>

\* sweepInFlightRuns marks a row it has read, whatever the row says by now,
\* with the watchdog behind it.
SweepRun(r) ==
  /\ r \in sweep
  /\ sweep' = sweep \ {r}
  /\ \/ Works /\ Marked(r, "failed") /\ CheckFailureStreak(r, status')
     \/ Throws /\ Marked(r, "failed") /\ unchecked' = unchecked \union {r} /\ UNCHANGED alerts
     \/ Throws /\ UNCHANGED <<status, age, watchdog>>
  /\ UNCHANGED <<kind, queue, exec, said, began, worker>>

Exit ==
  /\ worker = "sweeping" /\ sweep = {}
  /\ worker' = "down" /\ Killed
  /\ UNCHANGED <<kind, queue, rows, watchdog, sweep, bounds>>

Cancelled(S) ==
  LET T == {r \in S : status[r] = "running"}
  IN /\ status' = [r \in Run |-> IF r \in T THEN "cancelled" ELSE status[r]]
     /\ age' = [r \in Run |-> IF r \in T THEN 0 ELSE age[r]]

\* systemd starts the process again: reconcileOrphanedRuns, which may fail,
\* before the BullMQ worker.
Boot ==
  /\ worker = "down"
  /\ worker' = "up"
  /\ \/ Works /\ Cancelled({r \in Run : age[r] >= 1})
     \/ Throws /\ UNCHANGED <<status, age>>
  /\ UNCHANGED <<kind, queue, exec, said, began, watchdog, sweep>>

\* Mutant of Reapable: only rows that wait are reaped.
ReapableWaiting(r) == status[r] = "waiting" /\ age[r] = 2

\* Runs the orphan reaper cancels.
Reapable(r) == status[r] = "running" /\ age[r] = 2

\* The orphan reaper's timer.
Reap ==
  /\ worker # "down"
  /\ \E r \in Run : Reapable(r)
  /\ Cancelled({r \in Run : Reapable(r)})
  /\ UNCHANGED <<kind, queue, exec, said, began, watchdog, worker, sweep, bounds>>

\* Time passes for a row.  A command or a pipeline step takes any time, the
\* preflight less than 20 minutes, a statement less than 2, and the interval
\* of the heartbeat fires in between.
Elapse(r) ==
  /\ status[r] = "running" /\ age[r] < 2
  /\ \A j \in Job : Alive(j) /\ RunOf(j) = r =>
       \/ exec[j].pc \in {"work", "beat"}
       \/ exec[j].pc = "gate" /\ age[r] = 0
  /\ age' = [age EXCEPT ![r] = @ + 1]
  /\ exec' = [j \in Job |-> IF exec[j].pc = "beat" /\ RunOf(j) = r
                            THEN [exec[j] EXCEPT !.pc = "loop"] ELSE exec[j]]
  /\ UNCHANGED <<kind, queue, status, said, began, watchdog, worker, sweep, bounds>>

-----------------------------------------------------------------------------
\* The steps of an executor that bring it towards its end.
Proceed(j) ==
  \/ Create(j) \/ Start(j) \/ CommandEnds(j) \/ Preflight(j) \/ BudgetGate(j)
  \/ LoopEnds(j) \/ StepEnds(j) \/ Say(j) \/ SayRouted(j) \/ Mark(j)
  \/ OutputMissing(j) \/ VerificationFails(j) \/ Pause(j) \/ Watch(j)

\* A run ends twice, or behind one that began later, or while the failure of
\* another one is not checked yet.
Disturbs ==
  \E i \in DOMAIN began :
    LET r == began[i]
    IN /\ status'[r] # status[r]
       /\ \/ status[r] \in Counted
          \/ status'[r] \in Counted /\ \E k \in i + 1 .. Len(began) : status[began[k]] \in Counted
          \/ status'[r] = "failed" /\ unchecked # {}

Observed(A) == A /\ disturbed' = (disturbed \/ Disturbs)

Next ==
  \/ \E j \in Job : \/ Observed(PickUp(j)) \/ Observed(Stalled(j)) \/ Observed(Proceed(j))
                    \/ Observed(Heartbeat(j)) \/ Observed(ApplyAction(j))
  \/ \E r \in Run : Observed(SweepRun(r)) \/ Observed(Elapse(r))
  \/ Observed(Crash) \/ Observed(Shutdown) \/ Observed(DrainEnds)
  \/ Observed(Exit) \/ Observed(Boot) \/ Observed(Reap)

Spec == Init /\ [][Next]_vars

\* Statements return, commands and loops end (both are cut off by limits),
\* timers fire, systemd restarts the worker.  Nothing is assumed of the
\* queue: a job may never be picked up.
Fairness ==
  /\ \A j \in Job : WF_vars(Observed(Proceed(j)))
  /\ \A r \in Run : WF_vars(Observed(Elapse(r))) /\ WF_vars(Observed(SweepRun(r)))
  /\ WF_vars(Observed(DrainEnds)) /\ WF_vars(Observed(Exit))
  /\ WF_vars(Observed(Boot)) /\ WF_vars(Observed(Reap))

LiveSpec == Spec /\ Fairness

-----------------------------------------------------------------------------
(* Properties *)

TypeOK ==
  /\ kind \in Kinds
  /\ job \in [Job -> [state : {"waiting", "active", "done", "failed"},
                      fails : 0 .. Attempts, stalls : 0 .. 1, named : BOOLEAN]]
  /\ pick \in [Job -> 0 .. Attempts + 1]
  /\ exec \in [Job -> [pc : {"idle", "create", "start", "work", "gate", "budget", "loop",
                             "beat", "say", "mark", "watch", "pause"},
                       path : {"none", "start", "try", "catch", "gate", "budget", "phantom"},
                       outcome : {"none", "ok", "failed", "skipped"},
                       throws : BOOLEAN]]
  /\ status \in [Run -> {"none", "running", "waiting", "completed", "failed",
                         "escalated", "cancelled", "skipped"}]
  /\ age \in [Run -> 0 .. 2]
  /\ said \in [Run -> SUBSET {"ok", "failed", "skipped"}]
  /\ began \in Seq(Run)
  /\ alerts \subseteq Run
  /\ worker \in {"up", "draining", "sweeping", "down"}
  /\ sweep \subseteq Run
  /\ unchecked \subseteq Run /\ disturbed \in BOOLEAN
  /\ faults \in 0 .. MaxFaults /\ stops \in 0 .. MaxStops

\* The terminal-drawer contract (skill-terminal.ts) where it holds: whatever
\* throws, crashes or is retried, a run that reads completed has the drawer
\* of a success, and one that reads skipped the drawer of a skip.
SuccessIsExplained ==
  \A r \in Run :
    /\ status[r] = "completed" => "ok" \in said[r]
    /\ status[r] = "skipped" => "skipped" \in said[r]

\* The reaper and the reconciliation at startup never cancel a run whose
\* agentic loop is running, however long it takes: the heartbeat keeps its
\* row fresh (ai-skill.ts).
LiveLoopsAreSpared ==
  [][\A j \in Job : exec[j].pc \in {"loop", "beat"} /\ status[RunOf(j)] = "running"
       => status'[RunOf(j)] # "cancelled"]_vars

\* The failed runs behind the last run that ended otherwise.
Streak ==
  LET ended == {i \in DOMAIN began : status[began[i]] \in Counted}
  IN {began[i] : i \in {m \in ended : \A k \in ended : k >= m => status[began[k]] = "failed"}}

\* "Alert fires exactly once per streak" (silent-failure-watchdog.ts): a
\* streak of Threshold failures, all of them checked, has one alert, if the
\* runs ended one after the other.
OneAlertPerStreak ==
  Cardinality(Streak) >= Threshold /\ Streak \intersect unchecked = {} /\ ~disturbed
    => Cardinality(alerts \intersect Streak) = 1

\* Every run ends: whatever crashes, it stops reading running for good,
\* be it by its executor, the sweep, the reconciliation or the reaper.
RunsEnd == \A r \in Run : <>[](status[r] # "running")

=============================================================================
