------------------------- MODULE RunLifecycleProofs -------------------------
(***************************************************************************)
(* Proofs about RunLifecycle: its types, with the bound on the pick-ups of *)
(* a job; that success is explained by a drawer; and that the reaper and   *)
(* the reconciliation spare a running agentic loop.  For any number of     *)
(* jobs, attempts, faults, stops and slots of the worker.                  *)
(***************************************************************************)
EXTENDS RunLifecycle, NatMinMax, SequenceTheorems, FiniteSetTheorems, TLAPS

\* A job was picked up once per failed or stalled pick-up, and once more
\* while it is active; what an executor works on is active.
Picks ==
  \A j \in Job :
    /\ job[j].state = "waiting" => /\ job[j].fails < Attempts
                                   /\ pick[j] = job[j].fails + job[j].stalls
    /\ job[j].state = "active" => /\ job[j].fails < Attempts
                                  /\ pick[j] = job[j].fails + job[j].stalls + 1
    /\ Alive(j) => job[j].state = "active"

\* What an executor in state e is about to record: its catch block and the
\* handlers of unusable manifests only failures, and a drawer or a mark always
\* something; the budget gate has three statements that may throw.
Sane(e) ==
  /\ e.path \in {"catch", "phantom"} => e.outcome = "failed"
  /\ e.pc \in {"say", "mark"} => e.outcome # "none"
  /\ e.path = "budget" => e.pc \in {"say", "mark", "watch", "pause"}

JobState ==
  [state : {"waiting", "active", "done", "failed"},
   fails : 0 .. Attempts, stalls : 0 .. 1, named : BOOLEAN]

ExecState ==
  [pc : {"idle", "create", "start", "work", "gate", "budget", "loop",
         "beat", "say", "mark", "watch", "pause"},
   path : {"none", "start", "try", "catch", "gate", "budget", "phantom"},
   outcome : {"none", "ok", "failed", "skipped"},
   throws : BOOLEAN]

Status == {"none", "running", "waiting", "completed", "failed",
           "escalated", "cancelled", "skipped"}

\* The jobs and their executors.
QueueInv ==
  /\ job \in [Job -> JobState]
  /\ pick \in [Job -> 0 .. Attempts + 1]
  /\ exec \in [Job -> ExecState]
  /\ Picks
  /\ \A j \in Job : Sane(exec[j])

\* The rows of skill_runs.
RowsInv ==
  /\ status \in [Run -> Status]
  /\ age \in [Run -> 0 .. 2]
  /\ said \in [Run -> SUBSET {"ok", "failed", "skipped"}]
  /\ began \in Seq(Run)

\* The watchdog, the worker process and the bounds.
ProcessInv ==
  /\ alerts \subseteq Run /\ unchecked \subseteq Run
  /\ worker \in {"up", "draining", "sweeping", "down"}
  /\ sweep \subseteq Run
  /\ faults \in 0 .. MaxFaults /\ stops \in 0 .. MaxStops

TypeInv == QueueInv /\ RowsInv /\ ProcessInv /\ kind \in Kinds /\ disturbed \in BOOLEAN

\* An executor that marks a success or a skip has written its drawer.
Told ==
  \A j \in Job :
    exec[j].pc = "mark" /\ exec[j].outcome \in {"ok", "skipped"}
      => exec[j].outcome \in said[RunOf(j)]

ExplainedInv == Told /\ SuccessIsExplained

\* The row of an agentic loop is fresh, from the preflight on; and no
\* executor outlives its process.
Young(e, a) ==
  /\ e.pc \in {"gate", "budget", "loop"} \/ e.path = "budget" => a <= 1
  /\ e.pc = "beat" => a = 0

Fresh ==
  /\ \A j \in Job : Alive(j) /\ status[RunOf(j)] = "running"
                      => Young(exec[j], age[RunOf(j)])
  /\ worker = "down" => \A j \in Job : ~Alive(j)

-----------------------------------------------------------------------------
(* Types *)

\* TypeInv is TypeOK with the count of the pick-ups.
LEMMA TypeInvIsTypeOK == TypeInv <=> TypeOK /\ Picks /\ \A j \in Job : Sane(exec[j])
  BY DEF TypeInv, TypeOK, QueueInv, RowsInv, ProcessInv, JobState, ExecState, Status

\* The initial state is well typed.
LEMMA TypeInit == Init => TypeInv
<1> SUFFICES ASSUME Init PROVE TypeInv
  OBVIOUS
<1> USE RunLifecycleAssumption
<1>1. PICK named \in [Job -> BOOLEAN] :
        job = [j \in Job |-> [state |-> "waiting", fails |-> 0, stalls |-> 0, named |-> named[j]]]
  BY DEF Init
<1>2. job \in [Job -> JobState]
  BY <1>1 DEF JobState
<1>3. Idle \in ExecState /\ Idle.pc = "idle" /\ Sane(Idle)
  BY DEF Idle, At, ExecState, Sane
<1>4. Picks
  BY <1>1, <1>3 DEF Init, Picks, Alive
<1>5. QueueInv
  BY <1>2, <1>3, <1>4 DEF Init, QueueInv
<1>6. RowsInv
  BY DEF Init, RowsInv, Status
<1>7. ProcessInv
  BY DEF Init, ProcessInv
<1> QED BY <1>5, <1>6, <1>7 DEF TypeInv, Init

\* The run of a job that is active, or done, is one.
LEMMA RunOfActive ==
  ASSUME TypeInv, NEW j \in Job, job[j].state = "active"
  PROVE  RunOf(j) \in Run /\ RunOf(j)[1] = j
<1> USE RunLifecycleAssumption
<1>1. /\ job[j] \in JobState
      /\ pick[j] \in 0 .. Attempts + 1
      /\ pick[j] = job[j].fails + job[j].stalls + 1
  BY DEF TypeInv, QueueInv, Picks
<1>2. job[j].fails \in Nat /\ job[j].stalls \in Nat
  BY <1>1 DEF JobState
<1>3. pick[j] \in 1 .. Attempts + 1 /\ 1 \in 1 .. Attempts + 1
  BY <1>1, <1>2
<1> QED BY <1>3 DEF RunOf, Run

\* An executor that goes on.
LEMMA QueueGoto ==
  ASSUME TypeInv, NEW j \in Job, Alive(j), NEW e \in ExecState, Sane(e), Goto(j, e)
  PROVE  QueueInv'
<1>1. job' = job /\ pick' = pick /\ exec' = [exec EXCEPT ![j] = e]
  BY DEF Goto, queue
<1>2. /\ exec' \in [Job -> ExecState] /\ exec'[j] = e
      /\ \A k \in Job \ {j} : exec'[k] = exec[k]
  BY <1>1 DEF TypeInv, QueueInv
<1>3. \A k \in Job : Alive(k)' => Alive(k)
  BY <1>2 DEF Alive
<1> QED BY <1>1, <1>2, <1>3 DEF TypeInv, QueueInv, Picks

\* An executor that takes one more statement.
LEMMA QueueStep ==
  ASSUME TypeInv, NEW j \in Job, Alive(j),
         NEW pc \in {"start", "work", "gate", "budget", "loop", "beat",
                     "say", "mark", "watch", "pause"},
         Step(j, pc),
         pc \in {"say", "mark"} => exec[j].outcome # "none",
         exec[j].path = "budget" => pc \in {"say", "mark", "watch", "pause"}
  PROVE  QueueInv'
<1> DEFINE e == [exec[j] EXCEPT !.pc = pc]
<1>1. exec[j] \in ExecState /\ Sane(exec[j])
  BY DEF TypeInv, QueueInv
<1>2. /\ e \in ExecState
      /\ e.pc = pc /\ e.path = exec[j].path /\ e.outcome = exec[j].outcome
  BY <1>1 DEF ExecState
<1>3. Goto(j, e)
  BY DEF Step
<1> HIDE DEF e
<1>4. Sane(e)
  BY <1>1, <1>2 DEF Sane
<1> QED BY <1>2, <1>3, <1>4, QueueGoto

\* An attempt that ends.
LEMMA QueueReport ==
  ASSUME TypeInv, NEW j \in Job, Alive(j), NEW s \in JobState, Report(j, s),
         s.state # "active",
         s.state = "waiting" => s.fails < Attempts /\ pick[j] = s.fails + s.stalls
  PROVE  QueueInv'
<1>1. pick' = pick /\ exec' = [exec EXCEPT ![j] = Idle]
      /\ (job' = [job EXCEPT ![j] = s] \/ job' = job)
  BY DEF Report
<1>2. Idle \in ExecState /\ Idle.pc = "idle" /\ Sane(Idle)
  BY DEF Idle, At, ExecState, Sane
<1>3. exec' \in [Job -> ExecState] /\ exec'[j].pc = "idle" /\ Sane(exec'[j])
      /\ \A k \in Job \ {j} : exec'[k] = exec[k]
  BY <1>1, <1>2 DEF TypeInv, QueueInv
<1>4. \A k \in Job : Alive(k)' => Alive(k) /\ k # j
  BY <1>3 DEF Alive
<1>5. job' \in [Job -> JobState] /\ \A k \in Job \ {j} : job'[k] = job[k]
      /\ (job'[j] = s \/ job'[j] = job[j])
  BY <1>1 DEF TypeInv, QueueInv
<1>6. Picks'
  BY <1>1, <1>4, <1>5 DEF TypeInv, QueueInv, Picks
<1> QED BY <1>1, <1>3, <1>5, <1>6 DEF TypeInv, QueueInv

\* An attempt that succeeds.
LEMMA QueueSucceeds ==
  ASSUME TypeInv, NEW j \in Job, Alive(j), AttemptSucceeds(j)
  PROVE  QueueInv'
<1>1. [job[j] EXCEPT !.state = "done"] \in JobState
      /\ [job[j] EXCEPT !.state = "done"].state = "done"
  BY DEF TypeInv, QueueInv, JobState
<1> QED BY <1>1, QueueReport DEF AttemptSucceeds

\* An attempt that fails: a job is tried again only below Attempts.
LEMMA QueueFails ==
  ASSUME TypeInv, NEW j \in Job, Alive(j), AttemptFails(j)
  PROVE  QueueInv'
<1> USE RunLifecycleAssumption
<1> DEFINE n == job[j].fails + 1
           s == [job[j] EXCEPT !.fails = n,
                               !.state = IF Retries(n) THEN "waiting" ELSE "failed"]
<1>1. /\ job[j] \in JobState /\ job[j].fails < Attempts
      /\ pick[j] = job[j].fails + job[j].stalls + 1
  BY DEF TypeInv, QueueInv, Picks
<1>2. job[j].fails \in Nat /\ job[j].stalls \in 0 .. 1
  BY <1>1 DEF JobState
<1>3. n \in 0 .. Attempts
  BY <1>1, <1>2
<1>4. /\ s \in JobState /\ s.fails = n /\ s.stalls = job[j].stalls
      /\ s.state \in {"waiting", "failed"} /\ (s.state = "waiting" => Retries(n))
  BY <1>1, <1>3 DEF JobState
<1>5. s.state = "waiting" => s.fails < Attempts /\ pick[j] = s.fails + s.stalls
  BY <1>1, <1>2, <1>4 DEF Retries
<1>6. Report(j, s)
  BY DEF AttemptFails
<1> HIDE DEF n, s
<1> QED BY <1>4, <1>5, <1>6, QueueReport

\* A mark keeps the types of the rows it touches.
LEMMA MarkedType ==
  ASSUME TypeInv, NEW r \in Run, NEW s \in Status, Marked(r, s)
  PROVE  status' \in [Run -> Status] /\ age' \in [Run -> 0 .. 2]
<1> QED BY DEF TypeInv, RowsInv, Marked, Status

\* The bounds are kept.
LEMMA BoundsType ==
  ASSUME TypeInv, Throws \/ Works \/ Stops
  PROVE  faults' \in 0 .. MaxFaults /\ stops' \in 0 .. MaxStops
<1> USE RunLifecycleAssumption
<1> QED BY DEF TypeInv, ProcessInv, Throws, Works, Stops, bounds

\* A statement that throws leads to a state of the executor, or ends the
\* attempt.
LEMMA QueueThrow ==
  ASSUME TypeInv, NEW j \in Job, Alive(j), AfterThrow(j)
  PROVE  QueueInv'
<1>1. /\ At("say", "catch", "failed", FALSE) \in ExecState
      /\ Sane(At("say", "catch", "failed", FALSE))
      /\ At("loop", "try", "none", FALSE) \in ExecState
      /\ Sane(At("loop", "try", "none", FALSE))
  BY DEF At, ExecState, Sane
<1>2. CASE exec[j].path = "try"
  <2>1. Goto(j, At("say", "catch", "failed", FALSE))
    BY <1>2 DEF AfterThrow
  <2> QED BY <1>1, <2>1, QueueGoto
<1>3. CASE exec[j].path = "budget"
  <2>1. Goto(j, At("loop", "try", "none", FALSE))
    BY <1>3 DEF AfterThrow
  <2> QED BY <1>1, <2>1, QueueGoto
<1>4. CASE exec[j].path \notin {"try", "budget"}
  <2>1. (exec[j].path = "catch" /\ Step(j, "mark")) \/ AttemptFails(j)
    BY <1>4 DEF AfterThrow
  <2>2. exec[j].path = "catch" => exec[j].outcome # "none"
    BY DEF TypeInv, QueueInv, Sane
  <2> QED BY <1>4, <2>1, <2>2, QueueStep, QueueFails
<1> QED BY <1>2, <1>3, <1>4

\* An executor that returns or throws ends the attempt.
LEMMA QueueFinish ==
  ASSUME TypeInv, NEW j \in Job, Alive(j), Finish(j)
  PROVE  QueueInv'
<1> QED BY QueueSucceeds, QueueFails DEF Finish

\* The statements of an executor before it records an end keep the types.
LEMMA TypeWork ==
  ASSUME TypeInv, NEW j \in Job,
         \/ Create(j) \/ Start(j) \/ CommandEnds(j) \/ Preflight(j) \/ BudgetGate(j)
         \/ Heartbeat(j) \/ ApplyAction(j) \/ LoopEnds(j) \/ StepEnds(j)
  PROVE  QueueInv' /\ RowsInv' /\ ProcessInv' /\ kind' = kind
<1>1. Alive(j) /\ job[j].state = "active"
  BY DEF TypeInv, QueueInv, Picks, Alive, Create, Start, CommandEnds, Preflight, BudgetGate,
         Heartbeat, ApplyAction, LoopEnds, StepEnds
<1>2. RunOf(j) \in Run
  BY <1>1, RunOfActive
<1> DEFINE r == RunOf(j)
<1>3. \A pc \in {"gate", "work", "budget", "loop", "say", "mark"},
        path \in {"try", "catch", "gate", "budget"},
        outcome \in {"none", "ok", "failed", "skipped"}, throws \in BOOLEAN :
          /\ At(pc, path, outcome, throws) \in ExecState
          /\ (/\ path = "catch" => outcome = "failed"
              /\ pc \in {"say", "mark"} => outcome # "none"
              /\ path = "budget" => pc = "say") => Sane(At(pc, path, outcome, throws))
  BY DEF At, ExecState, Sane
<1>0. Sane(exec[j])
  BY DEF TypeInv, QueueInv
<1> HIDE DEF r
<1>4. CASE Create(j)
  <2> DEFINE goesOn == (exec[j].path = "phantom" /\ Step(j, "mark")) \/ Step(j, "start")
  <2>1. \/ Works /\ CreateRun(r) /\ goesOn
        \/ Throws /\ UNCHANGED rows /\ (goesOn \/ AttemptFails(j))
    BY <1>4 DEF Create, r
  <2>2. QueueInv'
    <3>1. /\ exec[j].path # "budget"
          /\ exec[j].path = "phantom" => exec[j].outcome # "none"
      BY <1>0, <1>4 DEF Create, Sane
    <3> QED BY <1>1, <2>1, <3>1, QueueStep, QueueFails
  <2>3. RowsInv'
    <3>1. ASSUME status[r] = "none", CreateRun(r) PROVE RowsInv'
      <4>1. began' \in Seq(Run)
        BY <1>2, <3>1 DEF TypeInv, RowsInv, CreateRun, r
      <4>2. status' \in [Run -> Status] /\ UNCHANGED <<age, said>>
        BY <3>1 DEF TypeInv, RowsInv, CreateRun, Status
      <4> QED BY <4>1, <4>2 DEF TypeInv, RowsInv
    <3>2. ASSUME UNCHANGED rows PROVE RowsInv'
      BY <3>2 DEF TypeInv, RowsInv, rows
    <3> QED BY <2>1, <3>1, <3>2 DEF CreateRun
  <2>4. ProcessInv' /\ kind' = kind
    BY <1>4, <2>1, BoundsType DEF Create, TypeInv, ProcessInv, watchdog
  <2> QED BY <2>2, <2>3, <2>4
<1>5. CASE Start(j)
  <2>1. \/ /\ Works /\ Marked(r, "running") /\ UNCHANGED <<said, began>>
           /\ \/ Goto(j, At("gate", "try", "none", FALSE))
              \/ Goto(j, At("work", "try", "none", FALSE))
        \/ Throws /\ UNCHANGED rows /\ AttemptFails(j)
    BY <1>5 DEF Start, r
  <2>2. QueueInv'
    BY <1>1, <1>3, <2>1, QueueGoto, QueueFails
  <2>3. ASSUME Marked(r, "running"), UNCHANGED <<said, began>> PROVE RowsInv'
    BY <1>2, <2>3, MarkedType DEF TypeInv, RowsInv, Status, r
  <2>4. ASSUME UNCHANGED rows PROVE RowsInv'
    BY <2>4 DEF TypeInv, RowsInv, rows
  <2>5. ProcessInv' /\ kind' = kind
    BY <1>5, <2>1, BoundsType DEF Start, TypeInv, ProcessInv, watchdog
  <2> QED BY <2>1, <2>2, <2>3, <2>4, <2>5
<1>6. CASE CommandEnds(j)
  <2>1. QueueInv'
    BY <1>1, <1>3, <1>6, QueueGoto DEF CommandEnds
  <2> QED BY <1>6, <2>1 DEF CommandEnds, TypeInv, RowsInv, ProcessInv, rows, watchdog, bounds
<1>7. CASE Preflight(j)
  <2>1. QueueInv'
    BY <1>1, <1>3, <1>7, QueueGoto, QueueFails DEF Preflight
  <2>2. Works \/ Throws
    BY <1>7 DEF Preflight
  <2> QED BY <1>7, <2>1, <2>2, BoundsType DEF Preflight, TypeInv, RowsInv, ProcessInv, rows, watchdog
<1>8. CASE BudgetGate(j)
  <2>1. QueueInv'
    BY <1>1, <1>3, <1>8, QueueGoto DEF BudgetGate
  <2> QED BY <1>8, <2>1 DEF BudgetGate, TypeInv, RowsInv, ProcessInv, rows, watchdog, bounds
<1>9. CASE Heartbeat(j)
  <2>1. QueueInv'
    BY <1>0, <1>1, <1>9, QueueStep DEF Heartbeat, Sane
  <2>2. RowsInv'
    BY <1>2, <1>9 DEF Heartbeat, TypeInv, RowsInv
  <2> QED BY <1>9, <2>1, <2>2 DEF Heartbeat, TypeInv, ProcessInv, watchdog, bounds
<1>10. CASE ApplyAction(j)
  <2>1. PICK s \in {"waiting", "escalated"} : Marked(r, s)
    BY <1>10 DEF ApplyAction, r
  <2>2. RowsInv'
    BY <1>2, <1>10, <2>1, MarkedType DEF ApplyAction, TypeInv, RowsInv, Status, r
  <2>3. QueueInv'
    BY <1>10 DEF ApplyAction, TypeInv, QueueInv, Picks, Alive, queue
  <2> QED BY <1>10, <2>2, <2>3 DEF ApplyAction, TypeInv, ProcessInv, watchdog, bounds
<1>11. CASE LoopEnds(j)
  <2>1. QueueInv'
    BY <1>1, <1>3, <1>11, QueueGoto DEF LoopEnds
  <2> QED BY <1>11, <2>1 DEF LoopEnds, TypeInv, RowsInv, ProcessInv, rows, watchdog, bounds
<1>12. CASE StepEnds(j)
  <2>1. QueueInv'
    BY <1>1, <1>3, <1>12, QueueGoto, QueueSucceeds DEF StepEnds
  <2>2. UNCHANGED <<status, said, began>> /\ (age' = [age EXCEPT ![RunOf(j)] = 0] \/ age' = age)
    BY <1>12 DEF StepEnds, rows
  <2>3. RowsInv'
    BY <2>2 DEF TypeInv, RowsInv
  <2> QED BY <1>12, <2>1, <2>3 DEF StepEnds, TypeInv, ProcessInv, watchdog, bounds
<1> QED BY <1>4, <1>5, <1>6, <1>7, <1>8, <1>9, <1>10, <1>11, <1>12

\* The watchdog names runs.
LEMMA WatchdogType ==
  ASSUME TypeInv, NEW r \in Run, NEW table, CheckFailureStreak(r, table)
  PROVE  alerts' \subseteq Run /\ unchecked' \subseteq Run
<1> DEFINE first == {began[i] : i \in {m \in Recent(table, Threshold) :
                                         \A k \in Recent(table, Threshold) : m <= k}}
<1>1. \A i \in DOMAIN began : began[i] \in Run
  BY DEF TypeInv, RowsInv
<1>2. Recent(table, Threshold) \subseteq DOMAIN began
  BY DEF Recent
<1>3. first \subseteq Run
  BY <1>1, <1>2
<1>4. alerts' \subseteq alerts \union first
  BY DEF CheckFailureStreak
<1> HIDE DEF first
<1> QED BY <1>3, <1>4 DEF CheckFailureStreak, TypeInv, ProcessInv

\* The mark of a failure keeps the types.
LEMMA TypeMarkFailed ==
  ASSUME TypeInv, NEW j \in Job, Alive(j), RunOf(j) \in Run, MarkFailed(j)
  PROVE  /\ QueueInv' /\ status' \in [Run -> Status] /\ age' \in [Run -> 0 .. 2]
         /\ unchecked' \subseteq Run
<1> DEFINE r == RunOf(j)
<1>1. Marked(r, "failed") /\ Step(j, "watch") /\ unchecked' \subseteq unchecked \union {r}
  BY DEF MarkFailed
<1> HIDE DEF r
<1>2. QueueInv'
  BY <1>1, QueueStep
<1>3. "failed" \in Status
  BY DEF Status
<1> QED BY <1>1, <1>2, <1>3, MarkedType DEF TypeInv, ProcessInv, r

\* The statements of an executor that record an end keep the types.
LEMMA TypeEnds ==
  ASSUME TypeInv, NEW j \in Job,
         \/ Say(j) \/ SayRouted(j) \/ Mark(j) \/ OutputMissing(j)
         \/ VerificationFails(j) \/ Pause(j) \/ Watch(j)
  PROVE  QueueInv' /\ RowsInv' /\ ProcessInv' /\ kind' = kind
<1>1. Alive(j) /\ job[j].state = "active"
  BY DEF TypeInv, QueueInv, Picks, Alive, Say, SayRouted, Mark, OutputMissing,
         VerificationFails, Pause, Watch
<1>2. RunOf(j) \in Run
  BY <1>1, RunOfActive
<1>3. /\ exec[j].outcome \in {"none", "ok", "failed", "skipped"}
      /\ Sane(exec[j])
      /\ At("say", "try", "failed", FALSE) \in ExecState
      /\ Sane(At("say", "try", "failed", FALSE))
  BY DEF TypeInv, QueueInv, At, ExecState, Sane
<1> DEFINE r == RunOf(j)
<1> HIDE DEF r
<1>4. CASE Say(j)
  <2>1. exec[j].outcome \in {"ok", "failed", "skipped"}
    BY <1>3, <1>4 DEF Say, Sane
  <2>2. QueueInv'
    BY <1>1, <1>4, <2>1, QueueFinish, QueueStep, QueueThrow DEF Say
  <2>3. said' = [said EXCEPT ![r] = @ \union {exec[j].outcome}] \/ said' = said
    BY <1>4 DEF Say, r
  <2>4. RowsInv'
    BY <1>2, <1>4, <2>1, <2>3 DEF Say, TypeInv, RowsInv, r
  <2>5. Works \/ Throws
    BY <1>4 DEF Say
  <2> QED BY <1>4, <2>2, <2>4, <2>5, BoundsType DEF Say, TypeInv, ProcessInv, watchdog
<1>5. CASE SayRouted(j)
  <2>1. QueueInv'
    BY <1>1, <1>5, QueueStep DEF SayRouted
  <2>2. status' \in [Run -> Status] /\ age' \in [Run -> 0 .. 2]
    <3>1. UNCHANGED <<status, age>> \/ \E s \in {"waiting", "escalated"} : Marked(r, s)
      BY <1>5 DEF SayRouted, r
    <3> QED BY <1>2, <3>1, MarkedType DEF TypeInv, RowsInv, Status, r
  <2>3. RowsInv'
    BY <1>2, <1>5, <2>2 DEF SayRouted, TypeInv, RowsInv
  <2> QED BY <1>5, <2>1, <2>3 DEF SayRouted, TypeInv, ProcessInv, watchdog, bounds
<1>6. CASE Mark(j)
  <2>1. \/ /\ Works /\ Marked(r, "completed") /\ Finish(j) /\ UNCHANGED unchecked
        \/ /\ Works /\ Marked(r, "skipped") /\ (Step(j, "pause") \/ Finish(j)) /\ UNCHANGED unchecked
        \/ Works /\ MarkFailed(j)
        \/ /\ Throws /\ UNCHANGED <<status, age>> /\ (Step(j, "say") \/ AfterThrow(j))
           /\ UNCHANGED unchecked
    BY <1>6 DEF Mark, r
  <2>2. exec[j].outcome # "none"
    BY <1>3, <1>6 DEF Mark, Sane
  <2>3. QueueInv'
    BY <1>1, <1>2, <2>1, <2>2, QueueStep, QueueFinish, QueueThrow, TypeMarkFailed
  <2>4. status' \in [Run -> Status] /\ age' \in [Run -> 0 .. 2] /\ unchecked' \subseteq Run
    <3>1. CASE MarkFailed(j)
      BY <1>1, <1>2, <3>1, TypeMarkFailed
    <3>2. CASE Marked(r, "completed") /\ UNCHANGED unchecked
      BY <1>2, <3>2, MarkedType DEF TypeInv, ProcessInv, Status, r
    <3>3. CASE Marked(r, "skipped") /\ UNCHANGED unchecked
      BY <1>2, <3>3, MarkedType DEF TypeInv, ProcessInv, Status, r
    <3>4. CASE UNCHANGED <<status, age, unchecked>>
      BY <3>4 DEF TypeInv, RowsInv, ProcessInv
    <3> QED BY <2>1, <3>1, <3>2, <3>3, <3>4
  <2>5. RowsInv'
    BY <1>6, <2>4 DEF Mark, TypeInv, RowsInv
  <2>6. faults' \in 0 .. MaxFaults /\ stops' \in 0 .. MaxStops
    BY <2>1, BoundsType
  <2> QED BY <1>6, <2>3, <2>4, <2>5, <2>6 DEF Mark, TypeInv, ProcessInv
<1>7. CASE OutputMissing(j)
  <2>1. QueueInv'
    BY <1>1, <1>3, <1>7, QueueGoto DEF OutputMissing
  <2> QED BY <1>7, <2>1 DEF OutputMissing, TypeInv, RowsInv, ProcessInv, rows, watchdog, bounds
<1>8. CASE VerificationFails(j)
  <2>1. MarkFailed(j)
    BY <1>8 DEF VerificationFails
  <2>2. /\ QueueInv' /\ status' \in [Run -> Status] /\ age' \in [Run -> 0 .. 2]
        /\ unchecked' \subseteq Run
    BY <1>1, <1>2, <2>1, TypeMarkFailed
  <2> QED BY <1>8, <2>2 DEF VerificationFails, TypeInv, RowsInv, ProcessInv, bounds
<1>9. CASE Pause(j)
  <2>1. QueueInv'
    BY <1>1, <1>9, QueueFinish, QueueThrow DEF Pause
  <2>2. Works \/ Throws
    BY <1>9 DEF Pause
  <2> QED BY <1>9, <2>1, <2>2, BoundsType DEF Pause, TypeInv, RowsInv, ProcessInv, rows, watchdog
<1>10. CASE Watch(j)
  <2>1. exec[j].path = "phantom" => exec[j].outcome # "none"
    BY <1>3 DEF Sane
  <2>2. QueueInv'
    BY <1>1, <1>10, <2>1, QueueStep, QueueFinish DEF Watch
  <2>3. alerts' \subseteq Run /\ unchecked' \subseteq Run
    <3>1. CheckFailureStreak(r, status) \/ UNCHANGED watchdog
      BY <1>10 DEF Watch, r
    <3> QED BY <1>2, <3>1, WatchdogType DEF TypeInv, ProcessInv, watchdog, r
  <2>4. Works \/ Throws
    BY <1>10 DEF Watch
  <2> QED BY <1>10, <2>2, <2>3, <2>4, BoundsType DEF Watch, TypeInv, RowsInv, ProcessInv, rows
<1> QED BY <1>4, <1>5, <1>6, <1>7, <1>8, <1>9, <1>10

\* A pick-up makes a waiting job active; a stall takes an active job that
\* nobody works on back, or ends it.
LEMMA TypeJobs ==
  ASSUME TypeInv, NEW j \in Job, PickUp(j) \/ Stalled(j)
  PROVE  QueueInv' /\ RowsInv' /\ ProcessInv' /\ kind' = kind
<1> USE RunLifecycleAssumption
<1>1. /\ job[j] \in JobState
      /\ job[j].fails \in 0 .. Attempts /\ job[j].stalls \in {0, 1}
      /\ pick[j] \in 0 .. Attempts + 1
  BY DEF TypeInv, QueueInv, JobState
<1>2. CASE PickUp(j)
  <2> DEFINE s == [job[j] EXCEPT !.state = "active"]
  <2>1. /\ s \in JobState /\ s.state = "active"
        /\ s.fails = job[j].fails /\ s.stalls = job[j].stalls
    BY <1>1 DEF JobState
  <2>2. job[j].fails < Attempts /\ pick[j] = job[j].fails + job[j].stalls
    BY <1>2 DEF PickUp, TypeInv, QueueInv, Picks
  <2>3. PICK e \in {At("create", "start", "none", FALSE), At("create", "phantom", "failed", TRUE),
                    At("create", "phantom", "failed", FALSE)} :
          exec' = [exec EXCEPT ![j] = e]
    BY <1>2 DEF PickUp
  <2>4. e \in ExecState /\ Sane(e)
    <3>1. \A throws \in BOOLEAN : /\ At("create", "phantom", "failed", throws) \in ExecState
                                  /\ Sane(At("create", "phantom", "failed", throws))
      BY DEF At, ExecState, Sane
    <3>2. /\ At("create", "start", "none", FALSE) \in ExecState
          /\ Sane(At("create", "start", "none", FALSE))
      BY DEF At, ExecState, Sane
    <3> QED BY <3>1, <3>2
  <2>5. job' = [job EXCEPT ![j] = s] /\ pick' = [pick EXCEPT ![j] = @ + 1]
    BY <1>2 DEF PickUp
  <2> HIDE DEF s
  <2>6. /\ job' \in [Job -> JobState] /\ job'[j] = s
        /\ \A k \in Job \ {j} : job'[k] = job[k]
    BY <2>1, <2>5 DEF TypeInv, QueueInv
  <2>7. pick[j] + 1 \in 0 .. Attempts + 1
    BY <1>1, <2>2
  <2>8. /\ pick' \in [Job -> 0 .. Attempts + 1] /\ pick'[j] = pick[j] + 1
        /\ \A k \in Job \ {j} : pick'[k] = pick[k]
    BY <2>5, <2>7 DEF TypeInv, QueueInv
  <2>9. /\ exec' \in [Job -> ExecState] /\ exec'[j] = e
        /\ \A k \in Job \ {j} : exec'[k] = exec[k]
    BY <2>3, <2>4 DEF TypeInv, QueueInv
  <2>10. Picks'
    BY <2>1, <2>2, <2>6, <2>8, <2>9 DEF TypeInv, QueueInv, Picks, Alive
  <2>11. QueueInv'
    BY <2>4, <2>6, <2>8, <2>9, <2>10 DEF TypeInv, QueueInv
  <2> QED BY <1>2, <2>11 DEF PickUp, TypeInv, RowsInv, ProcessInv, rows, watchdog, bounds
<1>3. CASE Stalled(j)
  <2> DEFINE again == [job[j] EXCEPT !.state = "waiting", !.stalls = 1]
             ended == [job[j] EXCEPT !.state = "failed"]
  <2>1. /\ again \in JobState /\ again.state = "waiting"
        /\ again.fails = job[j].fails /\ again.stalls = 1
    <3> DEFINE back == [job[j] EXCEPT !.state = "waiting"]
    <3>1. back \in JobState /\ back.state = "waiting" /\ back.fails = job[j].fails
      BY <1>1 DEF JobState
    <3>2. again = [back EXCEPT !.stalls = 1]
      OBVIOUS
    <3> HIDE DEF back, again
    <3> QED BY <3>1, <3>2 DEF JobState
  <2>0. ended \in JobState /\ ended.state = "failed"
    BY <1>1 DEF JobState
  <2>2. /\ job[j].fails < Attempts /\ pick[j] = job[j].fails + job[j].stalls + 1
        /\ ~Alive(j)
    BY <1>3 DEF Stalled, TypeInv, QueueInv, Picks
  <2>3. \/ job[j].stalls = 0 /\ job' = [job EXCEPT ![j] = again]
        \/ job' = [job EXCEPT ![j] = ended]
    BY <1>3 DEF Stalled
  <2>4. UNCHANGED <<pick, exec>>
    BY <1>3 DEF Stalled
  <2> HIDE DEF again, ended
  <2>5. /\ job' \in [Job -> JobState]
        /\ (job'[j] = again /\ job[j].stalls = 0) \/ job'[j] = ended
        /\ \A k \in Job \ {j} : job'[k] = job[k]
    BY <2>0, <2>1, <2>3 DEF TypeInv, QueueInv
  <2>6. Picks'
    BY <1>1, <2>0, <2>1, <2>2, <2>4, <2>5 DEF TypeInv, QueueInv, Picks, Alive
  <2>7. QueueInv'
    BY <2>4, <2>5, <2>6 DEF TypeInv, QueueInv
  <2> QED BY <1>3, <2>7 DEF Stalled, TypeInv, RowsInv, ProcessInv, rows, watchdog, bounds
<1> QED BY <1>2, <1>3

\* The death of the worker leaves jobs active and nobody at work.
LEMMA QueueKilled ==
  ASSUME TypeInv, Killed, UNCHANGED queue
  PROVE  QueueInv'
<1>1. Idle \in ExecState /\ Idle.pc = "idle" /\ Sane(Idle)
  BY DEF Idle, At, ExecState, Sane
<1>2. exec' \in [Job -> ExecState] /\ \A k \in Job : exec'[k] = Idle
  BY <1>1 DEF Killed
<1> QED BY <1>1, <1>2 DEF TypeInv, QueueInv, Picks, Alive, queue

\* The process, its sweep and its timers keep the types.
LEMMA TypeProcess ==
  ASSUME TypeInv,
         \/ Crash \/ Shutdown \/ DrainEnds \/ Exit \/ Boot \/ Reap
         \/ \E r \in Run : SweepRun(r) \/ Elapse(r)
  PROVE  QueueInv' /\ RowsInv' /\ ProcessInv' /\ kind' = kind
<1> USE RunLifecycleAssumption
<1>1. ASSUME UNCHANGED <<queue, exec>> PROVE QueueInv'
  BY <1>1 DEF TypeInv, QueueInv, Picks, Alive, queue
<1>2. CASE Crash
  <2>1. QueueInv'
    BY <1>2, QueueKilled DEF Crash
  <2> QED BY <1>2, <2>1, BoundsType DEF Crash, TypeInv, RowsInv, ProcessInv, rows, watchdog
<1>3. CASE Shutdown
  BY <1>1, <1>3, BoundsType DEF Shutdown, TypeInv, RowsInv, ProcessInv, rows, watchdog
<1>4. CASE DrainEnds
  <2>1. sweep' \subseteq Run /\ (Works \/ Throws)
    BY <1>4 DEF DrainEnds, TypeInv, ProcessInv
  <2> QED BY <1>1, <1>4, <2>1, BoundsType DEF DrainEnds, TypeInv, RowsInv, ProcessInv, rows, watchdog
<1>5. CASE Exit
  <2>1. QueueInv'
    BY <1>5, QueueKilled DEF Exit
  <2> QED BY <1>5, <2>1 DEF Exit, TypeInv, RowsInv, ProcessInv, rows, watchdog, bounds
<1>6. ASSUME NEW S, Cancelled(S)
      PROVE  status' \in [Run -> Status] /\ age' \in [Run -> 0 .. 2]
  BY <1>6 DEF TypeInv, RowsInv, Cancelled, Status
<1>7. CASE Boot
  <2>1. status' \in [Run -> Status] /\ age' \in [Run -> 0 .. 2] /\ (Works \/ Throws)
    BY <1>6, <1>7 DEF Boot, TypeInv, RowsInv
  <2> QED BY <1>1, <1>7, <2>1, BoundsType DEF Boot, TypeInv, RowsInv, ProcessInv, watchdog
<1>8. CASE Reap
  <2>1. status' \in [Run -> Status] /\ age' \in [Run -> 0 .. 2]
    BY <1>6, <1>8 DEF Reap
  <2> QED BY <1>1, <1>8, <2>1 DEF Reap, TypeInv, RowsInv, ProcessInv, watchdog, bounds
<1>9. ASSUME NEW r \in Run, SweepRun(r) PROVE QueueInv' /\ RowsInv' /\ ProcessInv' /\ kind' = kind
  <2>1. \/ Works /\ Marked(r, "failed") /\ CheckFailureStreak(r, status')
        \/ Throws /\ Marked(r, "failed") /\ unchecked' = unchecked \union {r} /\ UNCHANGED alerts
        \/ Throws /\ UNCHANGED <<status, age, watchdog>>
    BY <1>9 DEF SweepRun
  <2>2. status' \in [Run -> Status] /\ age' \in [Run -> 0 .. 2]
    BY <2>1, MarkedType DEF TypeInv, RowsInv, Status
  <2>3. alerts' \subseteq Run /\ unchecked' \subseteq Run
    <3>1. CASE CheckFailureStreak(r, status')
      BY <3>1, WatchdogType
    <3>2. CASE alerts' = alerts /\ (unchecked' = unchecked \/ unchecked' = unchecked \union {r})
      BY <3>2 DEF TypeInv, ProcessInv
    <3> QED BY <2>1, <3>1, <3>2 DEF watchdog
  <2>4. faults' \in 0 .. MaxFaults /\ stops' \in 0 .. MaxStops
    BY <2>1, BoundsType
  <2> QED BY <1>1, <1>9, <2>2, <2>3, <2>4 DEF SweepRun, TypeInv, RowsInv, ProcessInv
<1>10. ASSUME NEW r \in Run, Elapse(r) PROVE QueueInv' /\ RowsInv' /\ ProcessInv' /\ kind' = kind
  <2>1. \A k \in Job : /\ exec'[k] \in ExecState /\ Sane(exec'[k])
                       /\ Alive(k)' => Alive(k)
    <3>1. ASSUME NEW k \in Job
          PROVE  /\ exec'[k] \in ExecState /\ Sane(exec'[k])
                 /\ Alive(k)' => Alive(k)
      <4> DEFINE e == [exec[k] EXCEPT !.pc = "loop"]
      <4>1. exec[k] \in ExecState /\ Sane(exec[k])
        BY DEF TypeInv, QueueInv
      <4>2. /\ e \in ExecState
            /\ e.pc = "loop" /\ e.path = exec[k].path /\ e.outcome = exec[k].outcome
        BY <4>1 DEF ExecState
      <4>3. exec'[k] = IF exec[k].pc = "beat" /\ RunOf(k) = r THEN e ELSE exec[k]
        BY <1>10, Zenon DEF Elapse
      <4> HIDE DEF e
      <4> QED BY <4>1, <4>2, <4>3 DEF Sane, Alive
    <3> QED BY <3>1
  <2>2. exec' \in [Job -> ExecState] /\ UNCHANGED queue
    BY <1>10, <2>1 DEF Elapse
  <2>3. QueueInv'
    BY <2>1, <2>2 DEF TypeInv, QueueInv, Picks, queue
  <2>4. RowsInv'
    <3>1. age[r] \in 0 .. 2 /\ age[r] < 2
      BY <1>10 DEF Elapse, TypeInv, RowsInv
    <3>2. age[r] + 1 \in 0 .. 2
      BY <3>1
    <3> QED BY <1>10, <3>2 DEF Elapse, TypeInv, RowsInv
  <2> QED BY <1>10, <2>3, <2>4 DEF Elapse, TypeInv, ProcessInv, watchdog, bounds
<1> QED BY <1>2, <1>3, <1>4, <1>5, <1>7, <1>8, <1>9, <1>10

\* Every step keeps the types.
LEMMA TypeNext == TypeInv /\ [Next]_vars => TypeInv'
<1> SUFFICES ASSUME TypeInv, [Next]_vars PROVE TypeInv'
  OBVIOUS
<1>1. CASE UNCHANGED vars
  BY <1>1 DEF TypeInv, QueueInv, Picks, Alive, RowsInv, ProcessInv, vars, queue, rows, watchdog, bounds
<1>2. CASE Next
  <2>1. QueueInv' /\ RowsInv' /\ ProcessInv' /\ kind' = kind
    <3>1. ASSUME NEW j \in Job, PickUp(j) \/ Stalled(j) \/ Proceed(j) \/ Heartbeat(j) \/ ApplyAction(j)
          PROVE  QueueInv' /\ RowsInv' /\ ProcessInv' /\ kind' = kind
      <4>1. CASE PickUp(j) \/ Stalled(j)
        BY <4>1, TypeJobs
      <4>2. CASE \/ Create(j) \/ Start(j) \/ CommandEnds(j) \/ Preflight(j) \/ BudgetGate(j)
                 \/ Heartbeat(j) \/ ApplyAction(j) \/ LoopEnds(j) \/ StepEnds(j)
        BY <4>2, TypeWork
      <4>3. CASE \/ Say(j) \/ SayRouted(j) \/ Mark(j) \/ OutputMissing(j)
                 \/ VerificationFails(j) \/ Pause(j) \/ Watch(j)
        BY <4>3, TypeEnds
      <4> QED BY <3>1, <4>1, <4>2, <4>3 DEF Proceed
    <3> QED BY <1>2, <3>1, TypeProcess DEF Next, Observed
  <2>2. disturbed' \in BOOLEAN
    BY <1>2 DEF Next, Observed
  <2> QED BY <2>1, <2>2 DEF TypeInv
<1> QED BY <1>1, <1>2

\* The inductive invariant of the types holds.
LEMMA TypeAlways == Spec => []TypeInv
<1>1. TypeInv /\ [Next]_vars => TypeInv'
  BY TypeNext
<1> QED BY <1>1, TypeInit, PTL DEF Spec

\* The type invariant of the runs.  Its content is in the ranges: a job is
\* picked up at most once more than it has attempts, and never fails more
\* often than that.
THEOREM TypeCorrect == Spec => []TypeOK
<1>1. TypeInv => TypeOK
  BY TypeInvIsTypeOK
<1> QED BY <1>1, TypeAlways, PTL

-----------------------------------------------------------------------------
(* Success is explained *)

\* A step of the executor of j, seen from outside: no run changes its job.
Moves(j) ==
  /\ pick' = pick
  /\ \A k \in Job : job'[k].named = job[k].named
  /\ \A k \in Job \ {j} : exec'[k] = exec[k]

\* The runs stay those of their jobs.
LEMMA MovesRun ==
  ASSUME NEW j \in Job, Moves(j)
  PROVE  \A k \in Job : RunOf(k)' = RunOf(k)
<1> QED BY DEF Moves, RunOf

\* An executor that goes on moves, and arrives.
LEMMA MovesGoto ==
  ASSUME TypeInv, NEW j \in Job, NEW e, Goto(j, e)
  PROVE  Moves(j) /\ exec'[j] = e
<1> QED BY DEF TypeInv, QueueInv, Goto, Moves, queue

\* The same for one statement more.
LEMMA MovesStep ==
  ASSUME TypeInv, NEW j \in Job, NEW pc, Step(j, pc)
  PROVE  /\ Moves(j) /\ exec'[j].pc = pc
         /\ exec'[j].outcome = exec[j].outcome /\ exec'[j].path = exec[j].path
<1>1. exec[j] \in ExecState
  BY DEF TypeInv, QueueInv
<1>2. /\ [exec[j] EXCEPT !.pc = pc].pc = pc
      /\ [exec[j] EXCEPT !.pc = pc].outcome = exec[j].outcome
      /\ [exec[j] EXCEPT !.pc = pc].path = exec[j].path
  BY <1>1 DEF ExecState
<1>3. Moves(j) /\ exec'[j] = [exec[j] EXCEPT !.pc = pc]
  BY MovesGoto DEF Step
<1> QED BY <1>2, <1>3

\* An attempt that ends leaves nobody at work.
LEMMA MovesReport ==
  ASSUME TypeInv, NEW j \in Job, AttemptSucceeds(j) \/ AttemptFails(j)
  PROVE  Moves(j) /\ exec'[j].pc = "idle"
<1>1. job[j] \in JobState /\ Idle.pc = "idle"
  BY DEF TypeInv, QueueInv, Idle, At
<1>2. CASE AttemptSucceeds(j)
  <2>1. [job[j] EXCEPT !.state = "done"].named = job[j].named
    BY <1>1 DEF JobState
  <2>2. Report(j, [job[j] EXCEPT !.state = "done"])
    BY <1>2 DEF AttemptSucceeds
  <2> QED BY <1>1, <2>1, <2>2 DEF TypeInv, QueueInv, Report, Moves
<1>3. CASE AttemptFails(j)
  <2> DEFINE s == [job[j] EXCEPT !.fails = job[j].fails + 1,
                                 !.state = IF Retries(job[j].fails + 1) THEN "waiting" ELSE "failed"]
  <2>1. s.named = job[j].named
    BY <1>1 DEF JobState
  <2>2. Report(j, s)
    BY <1>3 DEF AttemptFails
  <2> HIDE DEF s
  <2> QED BY <1>1, <2>1, <2>2 DEF TypeInv, QueueInv, Report, Moves
<1> QED BY <1>2, <1>3

\* An executor marks a success or a skip only where it did before, or now
\* has its drawer.
Tells(k) ==
  exec'[k].pc = "mark" /\ exec'[k].outcome \in {"ok", "skipped"}
    => exec'[k] = exec[k] \/ exec'[k].outcome \in said'[RunOf(k)]

\* A row becomes completed or skipped only with its drawer.
Explains(r) ==
  \/ status'[r] = status[r] \/ status'[r] \notin {"completed", "skipped"}
  \/ status'[r] = "completed" /\ "ok" \in said'[r]
  \/ status'[r] = "skipped" /\ "skipped" \in said'[r]

Grows(r) == said[r] \subseteq said'[r]

\* A step of which all this is true keeps success explained.
LEMMA ExplainedStep ==
  ASSUME TypeInv, ExplainedInv,
         \A r \in Run : Grows(r) /\ Explains(r),
         \A k \in Job : exec'[k].pc = "mark" => Tells(k) /\ RunOf(k)' = RunOf(k) /\ RunOf(k) \in Run
  PROVE  ExplainedInv'
<1>1. Told'
  <2>1. SUFFICES ASSUME NEW k \in Job, exec'[k].pc = "mark", exec'[k].outcome \in {"ok", "skipped"}
                 PROVE  exec'[k].outcome \in said'[RunOf(k)]
    BY DEF Told
  <2>2. CASE exec'[k] = exec[k]
    <3>1. exec[k].outcome \in said[RunOf(k)]
      BY <2>1, <2>2 DEF ExplainedInv, Told
    <3> QED BY <2>1, <2>2, <3>1 DEF Grows
  <2> QED BY <2>1, <2>2 DEF Tells
<1>2. SuccessIsExplained'
  BY DEF ExplainedInv, SuccessIsExplained, Grows, Explains
<1> QED BY <1>1, <1>2 DEF ExplainedInv

\* A run that an executor works on is one.
LEMMA RunOfAlive ==
  ASSUME TypeInv, NEW j \in Job, Alive(j)
  PROVE  RunOf(j) \in Run /\ RunOf(j)[1] = j
<1>1. job[j].state = "active"
  BY DEF TypeInv, QueueInv, Picks
<1> QED BY <1>1, RunOfActive

\* The same for the step of one executor.
LEMMA ExplainedMove ==
  ASSUME TypeInv, ExplainedInv, NEW j \in Job, Alive(j), Moves(j), Tells(j),
         \A r \in Run : Grows(r) /\ Explains(r)
  PROVE  ExplainedInv'
<1>1. ASSUME NEW k \in Job, exec'[k].pc = "mark"
      PROVE  Tells(k) /\ RunOf(k)' = RunOf(k) /\ RunOf(k) \in Run
  <2>1. k # j => exec'[k] = exec[k]
    BY DEF Moves
  <2>2. Alive(k)
    BY <1>1, <2>1 DEF Alive
  <2>3. Tells(k)
    BY <2>1 DEF Tells
  <2> QED BY <2>2, <2>3, RunOfAlive, MovesRun
<1> QED BY <1>1, ExplainedStep

\* Behind a statement that throws only failures are marked.
LEMMA ThrowTells ==
  ASSUME TypeInv, NEW j \in Job, AfterThrow(j)
  PROVE  Moves(j) /\ Tells(j)
<1>1. CASE exec[j].path = "try"
  <2>1. Goto(j, At("say", "catch", "failed", FALSE))
    BY <1>1 DEF AfterThrow
  <2> QED BY <2>1, MovesGoto DEF Tells, At
<1>2. CASE exec[j].path = "budget"
  <2>1. Goto(j, At("loop", "try", "none", FALSE))
    BY <1>2 DEF AfterThrow
  <2> QED BY <2>1, MovesGoto DEF Tells, At
<1>3. CASE exec[j].path = "catch" /\ Step(j, "mark")
  <2>1. exec[j].outcome = "failed"
    BY <1>3 DEF TypeInv, QueueInv, Sane
  <2> QED BY <1>3, <2>1, MovesStep DEF Tells
<1>4. CASE AttemptFails(j)
  BY <1>4, MovesReport DEF Tells
<1> QED BY <1>1, <1>2, <1>3, <1>4 DEF AfterThrow

\* An executor that ends marks nothing.
LEMMA FinishTells ==
  ASSUME TypeInv, NEW j \in Job, Finish(j)
  PROVE  Moves(j) /\ Tells(j)
<1> QED BY MovesReport DEF Finish, Tells

\* A mark other than a success or a skip explains nothing and need not.
LEMMA MarkedExplains ==
  ASSUME TypeInv, NEW r \in Run, NEW s \in Status, Marked(r, s),
         s \in {"completed", "skipped"} => (s = "completed" /\ "ok" \in said'[r])
                                            \/ (s = "skipped" /\ "skipped" \in said'[r])
  PROVE  \A q \in Run : Explains(q)
<1> QED BY DEF TypeInv, RowsInv, Marked, Explains

\* The statements of an executor before it records an end.
LEMMA ExplainedWork ==
  ASSUME TypeInv, ExplainedInv, NEW j \in Job,
         \/ Create(j) \/ Start(j) \/ CommandEnds(j) \/ Preflight(j) \/ BudgetGate(j)
         \/ Heartbeat(j) \/ ApplyAction(j) \/ LoopEnds(j) \/ StepEnds(j)
  PROVE  ExplainedInv'
<1>1. Alive(j)
  BY DEF Alive, Create, Start, CommandEnds, Preflight, BudgetGate,
         Heartbeat, ApplyAction, LoopEnds, StepEnds
<1>2. RunOf(j) \in Run
  BY <1>1, RunOfAlive
<1>3. \A r \in Run : Grows(r)
  BY DEF Grows, Create, CreateRun, Start, CommandEnds, Preflight, BudgetGate,
         Heartbeat, ApplyAction, LoopEnds, StepEnds, rows
<1>4. \A r \in Run : Explains(r)
  <2>1. ASSUME Create(j) PROVE \A r \in Run : Explains(r)
    <3>1. status' = status \/ status' = [status EXCEPT ![RunOf(j)] = "running"]
      BY <2>1 DEF Create, CreateRun, rows
    <3> QED BY <3>1 DEF TypeInv, RowsInv, Explains
  <2>2. ASSUME Start(j) PROVE \A r \in Run : Explains(r)
    <3>1. Marked(RunOf(j), "running") \/ status' = status
      BY <2>2 DEF Start, rows
    <3> QED BY <1>2, <3>1, MarkedExplains DEF Explains, Status
  <2>3. ASSUME ApplyAction(j) PROVE \A r \in Run : Explains(r)
    <3>1. PICK s \in {"waiting", "escalated"} : Marked(RunOf(j), s)
      BY <2>3 DEF ApplyAction
    <3> QED BY <1>2, <3>1, MarkedExplains DEF Explains, Status
  <2>4. ASSUME status' = status PROVE \A r \in Run : Explains(r)
    BY <2>4 DEF Explains
  <2> QED BY <2>1, <2>2, <2>3, <2>4 DEF CommandEnds, Preflight, BudgetGate,
             Heartbeat, LoopEnds, StepEnds, rows
<1>5. Moves(j) /\ Tells(j)
  <2>1. CASE Create(j)
    <3>1. Step(j, "start") \/ (exec[j].path = "phantom" /\ Step(j, "mark")) \/ AttemptFails(j)
      BY <2>1 DEF Create
    <3>2. exec[j].path = "phantom" => exec[j].outcome = "failed"
      BY DEF TypeInv, QueueInv, Sane
    <3> QED BY <3>1, <3>2, MovesStep, MovesReport DEF Tells
  <2>2. CASE Start(j)
    <3>1. \/ Goto(j, At("gate", "try", "none", FALSE))
          \/ Goto(j, At("work", "try", "none", FALSE))
          \/ AttemptFails(j)
      BY <2>2 DEF Start
    <3> QED BY <3>1, MovesGoto, MovesReport DEF Tells, At
  <2>3. CASE CommandEnds(j)
    BY <2>3, MovesGoto DEF CommandEnds, Tells, At
  <2>4. CASE Preflight(j)
    BY <2>4, MovesGoto, MovesReport DEF Preflight, Tells, At
  <2>5. CASE BudgetGate(j)
    BY <2>5, MovesGoto DEF BudgetGate, Tells, At
  <2>6. CASE Heartbeat(j)
    BY <2>6, MovesStep DEF Heartbeat, Tells
  <2>7. CASE ApplyAction(j)
    BY <2>7 DEF ApplyAction, Moves, Tells, queue
  <2>8. CASE LoopEnds(j)
    <3>1. PICK path \in {"try", "catch"}, outcome \in {"ok", "failed"}, throws \in BOOLEAN :
            Goto(j, At("say", path, outcome, throws))
      BY <2>8 DEF LoopEnds
    <3>2. At("say", path, outcome, throws).pc = "say"
      BY DEF At
    <3> QED BY <3>1, <3>2, MovesGoto DEF Tells
  <2>9. CASE StepEnds(j)
    BY <2>9, MovesGoto, MovesReport DEF StepEnds, Tells, At
  <2> QED BY <2>1, <2>2, <2>3, <2>4, <2>5, <2>6, <2>7, <2>8, <2>9
<1> QED BY <1>1, <1>3, <1>4, <1>5, ExplainedMove

\* The mark of a failure.
LEMMA ExplainedMarkFailed ==
  ASSUME TypeInv, NEW j \in Job, RunOf(j) \in Run, MarkFailed(j)
  PROVE  Moves(j) /\ Tells(j) /\ \A r \in Run : Explains(r)
<1>1. Marked(RunOf(j), "failed") /\ Step(j, "watch")
  BY DEF MarkFailed
<1>2. \A r \in Run : Explains(r)
  BY <1>1, MarkedExplains DEF Status
<1> QED BY <1>1, <1>2, MovesStep DEF Tells

\* The statements of an executor that record an end.  Only Say and SayRouted
\* lead to the mark of a success, and they write its drawer.
LEMMA ExplainedEnds ==
  ASSUME TypeInv, ExplainedInv, NEW j \in Job,
         \/ Say(j) \/ SayRouted(j) \/ Mark(j) \/ OutputMissing(j)
         \/ VerificationFails(j) \/ Pause(j) \/ Watch(j)
  PROVE  ExplainedInv'
<1>1. Alive(j)
  BY DEF Alive, Say, SayRouted, Mark, OutputMissing, VerificationFails, Pause, Watch
<1>2. RunOf(j) \in Run
  BY <1>1, RunOfAlive
<1>3. Sane(exec[j]) /\ said \in [Run -> SUBSET {"ok", "failed", "skipped"}]
  BY DEF TypeInv, QueueInv, RowsInv
<1>4. ASSUME UNCHANGED <<status, said>> PROVE \A r \in Run : Grows(r) /\ Explains(r)
  BY <1>4 DEF Grows, Explains
<1>5. CASE Say(j)
  <2>1. \A r \in Run : Grows(r) /\ Explains(r)
    BY <1>2, <1>3, <1>5 DEF Say, Grows, Explains
  <2>2. CASE Step(j, "mark") /\ said' = [said EXCEPT ![RunOf(j)] = @ \union {exec[j].outcome}]
    <3>1. exec'[j].outcome = exec[j].outcome /\ Moves(j)
      BY <2>2, MovesStep
    <3>2. exec[j].outcome \in said'[RunOf(j)]
      BY <1>2, <1>3, <2>2
    <3>3. Moves(j) /\ Tells(j)
      BY <3>1, <3>2 DEF Tells
    <3> QED BY <1>1, <2>1, <3>3, ExplainedMove
  <2>3. CASE Finish(j) \/ AfterThrow(j)
    <3>1. Moves(j) /\ Tells(j)
      BY <2>3, FinishTells, ThrowTells
    <3> QED BY <1>1, <2>1, <3>1, ExplainedMove
  <2> QED BY <1>5, <2>2, <2>3 DEF Say
<1>6. CASE SayRouted(j)
  <2>1. \A r \in Run : Grows(r)
    BY <1>2, <1>3, <1>6 DEF SayRouted, Grows
  <2>2. \A r \in Run : Explains(r)
    <3>1. UNCHANGED status \/ \E s \in {"waiting", "escalated"} : Marked(RunOf(j), s)
      BY <1>6 DEF SayRouted
    <3> QED BY <1>2, <3>1, MarkedExplains DEF Explains, Status
  <2>3. exec'[j].outcome = "ok" /\ Moves(j)
    BY <1>6, MovesStep DEF SayRouted
  <2>4. "ok" \in said'[RunOf(j)]
    BY <1>2, <1>3, <1>6 DEF SayRouted
  <2>5. Tells(j)
    BY <2>3, <2>4 DEF Tells
  <2> QED BY <1>1, <2>1, <2>2, <2>3, <2>5, ExplainedMove
<1>7. CASE Mark(j)
  <2>1. said' = said
    BY <1>7 DEF Mark
  <2>2. \A r \in Run : Grows(r)
    BY <2>1 DEF Grows
  <2>3. exec[j].outcome \in {"ok", "skipped"} => exec[j].outcome \in said'[RunOf(j)]
    BY <1>7, <2>1 DEF Mark, ExplainedInv, Told
  <2>4. CASE exec[j].outcome = "ok" /\ Marked(RunOf(j), "completed") /\ Finish(j)
    <3>1. \A r \in Run : Explains(r)
      BY <1>2, <2>3, <2>4, MarkedExplains DEF Status
    <3> QED BY <1>1, <2>2, <2>4, <3>1, FinishTells, ExplainedMove
  <2>5. CASE exec[j].outcome = "skipped" /\ Marked(RunOf(j), "skipped")
             /\ (Step(j, "pause") \/ Finish(j))
    <3>1. \A r \in Run : Explains(r)
      BY <1>2, <2>3, <2>5, MarkedExplains DEF Status
    <3>2. Moves(j) /\ Tells(j)
      BY <2>5, FinishTells, MovesStep DEF Tells
    <3> QED BY <1>1, <2>2, <3>1, <3>2, ExplainedMove
  <2>6. CASE MarkFailed(j)
    BY <1>1, <1>2, <2>2, <2>6, ExplainedMarkFailed, ExplainedMove
  <2>7. CASE status' = status /\ (Step(j, "say") \/ AfterThrow(j))
    <3>1. Moves(j) /\ Tells(j)
      BY <2>7, ThrowTells, MovesStep DEF Tells
    <3> QED BY <1>1, <1>4, <2>1, <2>7, <3>1, ExplainedMove
  <2> QED BY <1>7, <2>4, <2>5, <2>6, <2>7 DEF Mark
<1>8. CASE OutputMissing(j)
  <2>1. Moves(j) /\ Tells(j)
    BY <1>8, MovesGoto DEF OutputMissing, Tells, At
  <2>2. UNCHANGED <<status, said>>
    BY <1>8 DEF OutputMissing, rows
  <2> QED BY <1>1, <1>4, <2>1, <2>2, ExplainedMove
<1>9. CASE VerificationFails(j)
  <2>1. MarkFailed(j) /\ \A r \in Run : Grows(r)
    BY <1>9 DEF VerificationFails, Grows
  <2> QED BY <1>1, <1>2, <2>1, ExplainedMarkFailed, ExplainedMove
<1>10. CASE Pause(j)
  <2>1. Moves(j) /\ Tells(j)
    BY <1>10, FinishTells, ThrowTells DEF Pause
  <2>2. UNCHANGED <<status, said>>
    BY <1>10 DEF Pause, rows
  <2> QED BY <1>1, <1>4, <2>1, <2>2, ExplainedMove
<1>11. CASE Watch(j)
  <2>1. Moves(j) /\ Tells(j)
    BY <1>11, FinishTells, MovesStep DEF Watch, Tells
  <2>2. UNCHANGED <<status, said>>
    BY <1>11 DEF Watch, rows
  <2> QED BY <1>1, <1>4, <2>1, <2>2, ExplainedMove
<1> QED BY <1>5, <1>6, <1>7, <1>8, <1>9, <1>10, <1>11

\* Pick-ups, stalls and the process write no drawer, mark no success and let
\* no executor go on to a mark.
LEMMA ExplainedRest ==
  ASSUME TypeInv, ExplainedInv,
         \/ \E j \in Job : PickUp(j) \/ Stalled(j)
         \/ Crash \/ Shutdown \/ DrainEnds \/ Exit \/ Boot \/ Reap
         \/ \E r \in Run : SweepRun(r) \/ Elapse(r)
  PROVE  ExplainedInv'
<1>1. said' = said
  BY DEF PickUp, Stalled, Crash, Shutdown, DrainEnds, Exit, Boot, Reap, SweepRun, Elapse, rows
<1>2. \A r \in Run : Grows(r)
  BY <1>1 DEF Grows
<1>3. \A r \in Run : Explains(r)
  <2>1. ASSUME NEW S, Cancelled(S) PROVE \A r \in Run : Explains(r)
    BY <2>1 DEF Cancelled, Explains
  <2>2. ASSUME NEW q \in Run, Marked(q, "failed") PROVE \A r \in Run : Explains(r)
    BY <2>2, MarkedExplains DEF Status
  <2>3. ASSUME status' = status PROVE \A r \in Run : Explains(r)
    BY <2>3 DEF Explains
  <2> QED BY <2>1, <2>2, <2>3 DEF PickUp, Stalled, Crash, Shutdown, DrainEnds, Exit, Boot, Reap,
             SweepRun, Elapse, rows
<1>4. ASSUME NEW k \in Job, exec'[k].pc = "mark"
      PROVE  exec'[k] = exec[k] /\ pick'[k] = pick[k] /\ job'[k].named = job[k].named
  <2>1. CASE \E j \in Job : PickUp(j)
    <3>1. PICK j \in Job : PickUp(j)
      BY <2>1
    <3>2. exec' = [exec EXCEPT ![j] = exec'[j]] /\ exec'[j].pc = "create"
      BY <3>1 DEF PickUp, At, TypeInv, QueueInv
    <3>3. k # j
      BY <1>4, <3>2
    <3> QED BY <3>1, <3>2, <3>3 DEF PickUp, TypeInv, QueueInv
  <2>2. CASE \E j \in Job : Stalled(j)
    <3>1. PICK j \in Job : Stalled(j)
      BY <2>2
    <3>2. job[j] \in JobState
      BY DEF TypeInv, QueueInv
    <3>3. /\ [job[j] EXCEPT !.state = "waiting", !.stalls = 1].named = job[j].named
          /\ [job[j] EXCEPT !.state = "failed"].named = job[j].named
      BY <3>2 DEF JobState
    <3> QED BY <3>1, <3>3 DEF Stalled, TypeInv, QueueInv
  <2>3. CASE Killed
    BY <1>4, <2>3 DEF Killed, Idle, At
  <2>4. CASE \E r \in Run : Elapse(r)
    <3>1. PICK r \in Run : Elapse(r)
      BY <2>4
    <3> DEFINE e == [exec[k] EXCEPT !.pc = "loop"]
    <3>2. exec[k] \in ExecState
      BY DEF TypeInv, QueueInv
    <3>3. e.pc = "loop"
      BY <3>2 DEF ExecState
    <3>4. exec'[k] = IF exec[k].pc = "beat" /\ RunOf(k) = r THEN e ELSE exec[k]
      BY <3>1, Zenon DEF Elapse
    <3> HIDE DEF e
    <3>5. exec'[k] = exec[k]
      BY <1>4, <3>3, <3>4
    <3> QED BY <3>1, <3>5 DEF Elapse, queue
  <2>5. CASE UNCHANGED <<queue, exec>>
    BY <2>5 DEF queue
  <2> QED BY <2>1, <2>2, <2>3, <2>4, <2>5
          DEF Crash, Shutdown, DrainEnds, Exit, Boot, Reap, SweepRun
<1>5. ASSUME NEW k \in Job, exec'[k].pc = "mark"
      PROVE  Tells(k) /\ RunOf(k)' = RunOf(k) /\ RunOf(k) \in Run
  <2>1. exec'[k] = exec[k] /\ RunOf(k)' = RunOf(k)
    BY <1>4, <1>5 DEF RunOf
  <2>2. Alive(k)
    BY <1>5, <2>1 DEF Alive
  <2> QED BY <2>1, <2>2, RunOfAlive DEF Tells
<1> QED BY <1>2, <1>3, <1>5, ExplainedStep

\* The terminal-drawer contract for successes, in every behaviour.
THEOREM Explained == Spec => []SuccessIsExplained
<1>1. Init => ExplainedInv
  BY DEF Init, ExplainedInv, Told, SuccessIsExplained, Idle, At
<1>2. TypeInv /\ ExplainedInv /\ [Next]_vars => ExplainedInv'
  <2> SUFFICES ASSUME TypeInv, ExplainedInv, [Next]_vars PROVE ExplainedInv'
    OBVIOUS
  <2>1. CASE UNCHANGED vars
    BY <2>1 DEF ExplainedInv, Told, SuccessIsExplained, RunOf, vars, queue, rows
  <2>2. ASSUME NEW j \in Job, Proceed(j) \/ Heartbeat(j) \/ ApplyAction(j) PROVE ExplainedInv'
    <3>1. CASE \/ Create(j) \/ Start(j) \/ CommandEnds(j) \/ Preflight(j) \/ BudgetGate(j)
               \/ Heartbeat(j) \/ ApplyAction(j) \/ LoopEnds(j) \/ StepEnds(j)
      BY <3>1, ExplainedWork
    <3>2. CASE \/ Say(j) \/ SayRouted(j) \/ Mark(j) \/ OutputMissing(j)
               \/ VerificationFails(j) \/ Pause(j) \/ Watch(j)
      BY <3>2, ExplainedEnds
    <3> QED BY <2>2, <3>1, <3>2 DEF Proceed
  <2>3. CASE Next
    BY <2>2, <2>3, ExplainedRest DEF Next, Observed
  <2> QED BY <2>1, <2>3
<1>3. ExplainedInv => SuccessIsExplained
  BY DEF ExplainedInv
<1> QED BY <1>1, <1>2, <1>3, TypeAlways, PTL DEF Spec

-----------------------------------------------------------------------------
(* A running loop is spared *)

\* A row other than those of j is left alone.
Spares(j) == \A q \in Run : q[1] # j => status'[q] = status[q] /\ age'[q] = age[q]

\* What the executor of j does keeps the rows of loops fresh if it keeps its
\* own.
LEMMA FreshMove ==
  ASSUME TypeInv, Fresh, NEW j \in Job, Alive(j), Moves(j), Spares(j), worker' = worker,
         exec'[j].pc # "idle" /\ status'[RunOf(j)] = "running" => Young(exec'[j], age'[RunOf(j)])
  PROVE  Fresh'
<1>1. ASSUME NEW k \in Job, Alive(k)', status'[RunOf(k)'] = "running"
      PROVE  Young(exec'[k], age'[RunOf(k)'])
  <2>1. RunOf(k)' = RunOf(k)
    BY MovesRun
  <2>2. CASE k = j
    BY <1>1, <2>1, <2>2 DEF Alive
  <2>3. CASE k # j
    <3>1. exec'[k] = exec[k]
      BY <2>3 DEF Moves
    <3>2. Alive(k)
      BY <1>1, <3>1 DEF Alive
    <3>3. RunOf(k) \in Run /\ RunOf(k)[1] = k
      BY <3>2, RunOfAlive
    <3>4. status'[RunOf(k)] = status[RunOf(k)] /\ age'[RunOf(k)] = age[RunOf(k)]
      BY <2>3, <3>3 DEF Spares
    <3> QED BY <1>1, <2>1, <3>1, <3>2, <3>4 DEF Fresh
  <2> QED BY <2>2, <2>3
<1>2. worker' # "down"
  BY DEF Fresh
<1>3. \A k \in Job : Alive(k)' /\ (status[RunOf(k)] = "running")' => Young(exec[k], age[RunOf(k)])'
  BY <1>1 DEF Young
<1> QED BY <1>2, <1>3 DEF Fresh

\* A mark spares the rows of the other jobs.
LEMMA MarkedSpares ==
  ASSUME TypeInv, NEW j \in Job, Alive(j), NEW s \in Status, Marked(RunOf(j), s)
  PROVE  /\ Spares(j)
         /\ status'[RunOf(j)] = s \/ status'[RunOf(j)] = "none"
         /\ age'[RunOf(j)] = 0
<1>1. RunOf(j) \in Run /\ RunOf(j)[1] = j
  BY RunOfAlive
<1> QED BY <1>1 DEF TypeInv, RowsInv, Marked, Spares

\* Behind a statement that throws, only the budget gate goes on to the loop,
\* and its row is fresh.
LEMMA ThrowYoung ==
  ASSUME TypeInv, NEW j \in Job, AfterThrow(j), NEW a \in 0 .. 2, Young(exec[j], a)
  PROVE  exec'[j].pc # "idle" => Young(exec'[j], a)
<1>1. CASE exec[j].path = "try"
  <2>1. exec'[j] = At("say", "catch", "failed", FALSE)
    BY <1>1, MovesGoto DEF AfterThrow
  <2> QED BY <2>1 DEF Young, At
<1>2. CASE exec[j].path = "budget"
  <2>1. exec'[j] = At("loop", "try", "none", FALSE)
    BY <1>2, MovesGoto DEF AfterThrow
  <2>2. a <= 1
    BY <1>2 DEF Young
  <2> QED BY <2>1, <2>2 DEF Young, At
<1>3. CASE exec[j].path = "catch" /\ Step(j, "mark")
  <2>1. exec'[j].pc = "mark" /\ exec'[j].path = "catch"
    BY <1>3, MovesStep
  <2> QED BY <2>1 DEF Young
<1>4. CASE AttemptFails(j)
  BY <1>4, MovesReport
<1> QED BY <1>1, <1>2, <1>3, <1>4 DEF AfterThrow

\* The statements of an executor before it records an end.
LEMMA FreshWork ==
  ASSUME TypeInv, Fresh, NEW j \in Job,
         \/ Create(j) \/ Start(j) \/ CommandEnds(j) \/ Preflight(j) \/ BudgetGate(j)
         \/ Heartbeat(j) \/ ApplyAction(j) \/ LoopEnds(j) \/ StepEnds(j)
  PROVE  Fresh'
<1>1. Alive(j) /\ worker' = worker
  BY DEF Alive, Create, Start, CommandEnds, Preflight, BudgetGate,
         Heartbeat, ApplyAction, LoopEnds, StepEnds
<1>2. RunOf(j) \in Run /\ RunOf(j)[1] = j
  BY <1>1, RunOfAlive
<1>3. Sane(exec[j]) /\ age \in [Run -> 0 .. 2] /\ status \in [Run -> Status]
  BY DEF TypeInv, QueueInv, RowsInv
<1>4. status[RunOf(j)] = "running" => Young(exec[j], age[RunOf(j)])
  BY <1>1 DEF Fresh
<1>5. ASSUME UNCHANGED <<status, age>> PROVE Spares(j)
  BY <1>5 DEF Spares
<1>6. CASE Create(j)
  <2>1. Spares(j)
    BY <1>2, <1>3, <1>6 DEF Create, CreateRun, Spares, rows
  <2>2. /\ Moves(j)
        /\ exec'[j].pc \in {"start", "mark", "idle"}
        /\ exec'[j].pc # "idle" => exec'[j].path = exec[j].path
    BY <1>6, MovesStep, MovesReport DEF Create
  <2>3. exec[j].path # "budget"
    BY <1>3, <1>6 DEF Create, Sane
  <2> QED BY <1>1, <2>1, <2>2, <2>3, FreshMove DEF Young
<1>7. CASE Start(j)
  <2>1. CASE /\ Marked(RunOf(j), "running")
             /\ \/ Goto(j, At("gate", "try", "none", FALSE))
                \/ Goto(j, At("work", "try", "none", FALSE))
    <3>1. Spares(j) /\ age'[RunOf(j)] = 0
      BY <1>1, <2>1, MarkedSpares DEF Status
    <3>2. /\ Moves(j) /\ exec'[j].pc \in {"gate", "work"} /\ exec'[j].path = "try"
      BY <2>1, MovesGoto DEF At
    <3> QED BY <1>1, <3>1, <3>2, FreshMove DEF Young
  <2>2. CASE UNCHANGED rows /\ AttemptFails(j)
    BY <1>1, <1>5, <2>2, MovesReport, FreshMove DEF rows
  <2> QED BY <1>7, <2>1, <2>2 DEF Start
<1>8. CASE CommandEnds(j)
  <2>1. Moves(j) /\ exec'[j].pc = "say" /\ exec'[j].path \in {"try", "catch"}
    BY <1>8, MovesGoto DEF CommandEnds, At
  <2> QED BY <1>1, <1>5, <1>8, <2>1, FreshMove DEF CommandEnds, rows, Young
<1>9. CASE Preflight(j)
  <2>1. /\ Moves(j) /\ exec'[j].pc \in {"budget", "say", "idle"}
        /\ exec'[j].pc # "idle" => exec'[j].path = "gate"
    BY <1>9, MovesGoto, MovesReport DEF Preflight, At
  <2>2. UNCHANGED <<status, age>> /\ exec[j].pc = "gate"
    BY <1>9 DEF Preflight, rows
  <2> QED BY <1>1, <1>4, <1>5, <2>1, <2>2, FreshMove DEF Young
<1>10. CASE BudgetGate(j)
  <2>1. Moves(j) /\ exec'[j].pc \in {"say", "loop"}
    BY <1>10, MovesGoto DEF BudgetGate, At
  <2>2. UNCHANGED <<status, age>> /\ exec[j].pc = "budget"
    BY <1>10 DEF BudgetGate, rows
  <2> QED BY <1>1, <1>4, <1>5, <2>1, <2>2, FreshMove DEF Young
<1>11. CASE Heartbeat(j)
  <2>1. Moves(j) /\ exec'[j].pc = "beat" /\ exec'[j].path = exec[j].path
    BY <1>11, MovesStep DEF Heartbeat
  <2>2. /\ Spares(j) /\ status' = status
        /\ status[RunOf(j)] = "running" => age'[RunOf(j)] = 0
    BY <1>2, <1>3, <1>11 DEF Heartbeat, Beaten, Spares
  <2> QED BY <1>1, <2>1, <2>2, FreshMove DEF Young
<1>12. CASE ApplyAction(j)
  <2>1. PICK s \in {"waiting", "escalated"} : Marked(RunOf(j), s)
    BY <1>12 DEF ApplyAction
  <2>2. Spares(j) /\ status'[RunOf(j)] # "running"
    BY <1>1, <2>1, MarkedSpares DEF Status
  <2>3. Moves(j)
    BY <1>12 DEF ApplyAction, Moves, queue
  <2> QED BY <1>1, <2>2, <2>3, FreshMove
<1>13. CASE LoopEnds(j)
  <2>1. PICK path \in {"try", "catch"}, outcome \in {"ok", "failed"}, throws \in BOOLEAN :
          Goto(j, At("say", path, outcome, throws))
    BY <1>13 DEF LoopEnds
  <2>2. Moves(j) /\ exec'[j].pc = "say" /\ exec'[j].path \in {"try", "catch"}
    BY <2>1, MovesGoto DEF At
  <2> QED BY <1>1, <1>5, <1>13, <2>2, FreshMove DEF LoopEnds, rows, Young
<1>14. CASE StepEnds(j)
  <2>1. /\ Moves(j) /\ exec'[j].pc \in {"mark", "idle"}
        /\ exec'[j].pc # "idle" => exec'[j].path = "catch"
    BY <1>14, MovesGoto, MovesReport DEF StepEnds, At
  <2>2. Spares(j)
    BY <1>2, <1>3, <1>14 DEF StepEnds, Spares, rows
  <2> QED BY <1>1, <2>1, <2>2, FreshMove DEF Young
<1> QED BY <1>6, <1>7, <1>8, <1>9, <1>10, <1>11, <1>12, <1>13, <1>14

\* The mark of a failure leaves no running row.
LEMMA FreshMarkFailed ==
  ASSUME TypeInv, Fresh, NEW j \in Job, Alive(j), MarkFailed(j), worker' = worker
  PROVE  Fresh'
<1>1. Marked(RunOf(j), "failed") /\ Step(j, "watch")
  BY DEF MarkFailed
<1>2. Spares(j) /\ status'[RunOf(j)] # "running"
  BY <1>1, MarkedSpares DEF Status
<1> QED BY <1>1, <1>2, MovesStep, FreshMove

\* The statements of an executor that record an end.
LEMMA FreshEnds ==
  ASSUME TypeInv, Fresh, NEW j \in Job,
         \/ Say(j) \/ SayRouted(j) \/ Mark(j) \/ OutputMissing(j)
         \/ VerificationFails(j) \/ Pause(j) \/ Watch(j)
  PROVE  Fresh'
<1>1. Alive(j) /\ worker' = worker
  BY DEF Alive, Say, SayRouted, Mark, OutputMissing, VerificationFails, Pause, Watch
<1>2. RunOf(j) \in Run /\ RunOf(j)[1] = j
  BY <1>1, RunOfAlive
<1>3. Sane(exec[j]) /\ age[RunOf(j)] \in 0 .. 2
  BY <1>2 DEF TypeInv, QueueInv, RowsInv
<1>4. status[RunOf(j)] = "running" => Young(exec[j], age[RunOf(j)])
  BY <1>1 DEF Fresh
<1>5. ASSUME UNCHANGED <<status, age>>, AfterThrow(j) PROVE Fresh'
  <2>1. Moves(j) /\ Spares(j)
    BY <1>5, ThrowTells DEF Spares
  <2>2. exec'[j].pc # "idle" /\ status'[RunOf(j)] = "running" => Young(exec'[j], age'[RunOf(j)])
    BY <1>3, <1>4, <1>5, ThrowYoung
  <2> QED BY <1>1, <2>1, <2>2, FreshMove
<1>6. ASSUME Spares(j), Finish(j) PROVE Fresh'
  <2>1. Moves(j) /\ exec'[j].pc = "idle"
    BY <1>6, MovesReport DEF Finish
  <2> QED BY <1>1, <1>6, <2>1, FreshMove
<1>7. ASSUME UNCHANGED <<status, age>>, NEW pc \in {"say", "mark", "watch", "pause"}, Step(j, pc)
      PROVE  Fresh'
  <2>1. /\ Moves(j) /\ exec'[j].pc = pc /\ exec'[j].path = exec[j].path
        /\ Spares(j)
    BY <1>7, MovesStep DEF Spares
  <2> QED BY <1>1, <1>4, <1>7, <2>1, FreshMove DEF Young
<1>8. ASSUME UNCHANGED <<status, age>> PROVE Spares(j)
  BY <1>8 DEF Spares
<1>9. CASE Say(j)
  BY <1>5, <1>6, <1>7, <1>8, <1>9 DEF Say
<1>10. CASE SayRouted(j)
  <2>1. CASE UNCHANGED <<status, age>>
    BY <1>7, <1>10, <2>1 DEF SayRouted
  <2>2. CASE \E s \in {"waiting", "escalated"} : Marked(RunOf(j), s)
    <3>1. Spares(j) /\ status'[RunOf(j)] # "running"
      BY <1>1, <2>2, MarkedSpares DEF Status
    <3>2. Moves(j)
      BY <1>10, MovesStep DEF SayRouted
    <3> QED BY <1>1, <3>1, <3>2, FreshMove
  <2> QED BY <1>10, <2>1, <2>2 DEF SayRouted
<1>11. CASE Mark(j)
  <2>1. CASE \E s \in {"completed", "skipped"} :
               Marked(RunOf(j), s) /\ (Finish(j) \/ Step(j, "pause"))
    <3>1. Spares(j) /\ status'[RunOf(j)] # "running"
      BY <1>1, <2>1, MarkedSpares DEF Status
    <3>2. Moves(j)
      BY <2>1, FinishTells, MovesStep
    <3> QED BY <1>1, <3>1, <3>2, FreshMove
  <2>2. CASE MarkFailed(j)
    BY <1>1, <2>2, FreshMarkFailed
  <2>3. CASE UNCHANGED <<status, age>> /\ (Step(j, "say") \/ AfterThrow(j))
    BY <1>5, <1>7, <2>3
  <2> QED BY <1>11, <2>1, <2>2, <2>3 DEF Mark
<1>12. CASE OutputMissing(j)
  <2>1. Moves(j) /\ exec'[j].pc = "say" /\ exec'[j].path = "try"
    BY <1>12, MovesGoto DEF OutputMissing, At
  <2>2. UNCHANGED <<status, age>>
    BY <1>12 DEF OutputMissing, rows
  <2> QED BY <1>1, <1>8, <2>1, <2>2, FreshMove DEF Young
<1>13. CASE VerificationFails(j)
  BY <1>1, <1>13, FreshMarkFailed DEF VerificationFails
<1>14. CASE Pause(j)
  BY <1>5, <1>6, <1>8, <1>14 DEF Pause, rows
<1>15. CASE Watch(j)
  BY <1>6, <1>7, <1>8, <1>15 DEF Watch, rows
<1> QED BY <1>9, <1>10, <1>11, <1>12, <1>13, <1>14, <1>15

\* The passing of time leaves rows of loops fresh: an interval of the
\* heartbeat ends before a row is old.
LEMMA FreshElapse ==
  ASSUME TypeInv, Fresh, NEW r \in Run, Elapse(r)
  PROVE  Fresh'
<1>0. \A k \in Job : exec[k].pc # "idle" /\ RunOf(k) = r =>
        \/ exec[k].pc \in {"work", "beat"}
        \/ exec[k].pc = "gate" /\ age[r] = 0
  BY Zenon DEF Elapse, Alive
<1>1. UNCHANGED <<queue, status, worker>> /\ age' = [age EXCEPT ![r] = @ + 1]
  BY DEF Elapse
<1>2. \A k \in Job : RunOf(k)' = RunOf(k)
  BY <1>1 DEF RunOf, queue
<1>3. ASSUME NEW k \in Job, exec'[k].pc # "idle", status[RunOf(k)] = "running"
      PROVE  exec[k].pc # "idle" /\ Young(exec'[k], age'[RunOf(k)])
  <2> DEFINE e == [exec[k] EXCEPT !.pc = "loop"]
  <2>1. exec[k] \in ExecState /\ Sane(exec[k])
    BY DEF TypeInv, QueueInv
  <2>2. e.pc = "loop" /\ e.path = exec[k].path
    BY <2>1 DEF ExecState
  <2>3. exec'[k] = IF exec[k].pc = "beat" /\ RunOf(k) = r THEN e ELSE exec[k]
    BY Zenon DEF Elapse
  <2> HIDE DEF e
  <2>4. exec[k].pc # "idle"
    BY <1>3, <2>3
  <2>5. RunOf(k) \in Run /\ Young(exec[k], age[RunOf(k)])
    BY <1>3, <2>4, RunOfAlive DEF Alive, Fresh
  <2>6. CASE RunOf(k) # r
    BY <1>1, <2>3, <2>4, <2>5, <2>6 DEF TypeInv, RowsInv
  <2>7. CASE RunOf(k) = r
    <3>1. exec[k].pc \in {"work", "beat"} \/ (exec[k].pc = "gate" /\ age[r] = 0)
      BY <1>0, <2>4, <2>7
    <3>2. exec[k].path # "budget" /\ age'[r] = age[r] + 1
      BY <1>1, <2>1, <3>1 DEF Sane, TypeInv, RowsInv
    <3>3. CASE exec[k].pc = "work"
      BY <2>3, <2>4, <2>7, <3>2, <3>3 DEF Young
    <3>4. CASE exec[k].pc = "beat"
      <4>1. age[r] = 0 /\ exec'[k] = e
        BY <2>3, <2>5, <2>7, <3>4 DEF Young
      <4> QED BY <2>2, <2>4, <2>7, <3>2, <4>1 DEF Young
    <3>5. CASE exec[k].pc = "gate" /\ age[r] = 0
      BY <2>3, <2>4, <2>7, <3>2, <3>5 DEF Young
    <3> QED BY <3>1, <3>3, <3>4, <3>5
  <2> QED BY <2>4, <2>6, <2>7
<1>4. \A k \in Job : Alive(k)' => Alive(k)
  <2>1. ASSUME NEW k \in Job, Alive(k)' PROVE Alive(k)
    <3>1. exec'[k] = IF exec[k].pc = "beat" /\ RunOf(k) = r
                     THEN [exec[k] EXCEPT !.pc = "loop"] ELSE exec[k]
      BY Zenon DEF Elapse
    <3> QED BY <2>1, <3>1 DEF Alive
  <2> QED BY <2>1
<1>5. worker' = "down" => \A k \in Job : ~Alive(k)'
  BY <1>1, <1>4 DEF Fresh
<1>6. \A k \in Job : Alive(k)' /\ (status[RunOf(k)] = "running")' => Young(exec[k], age[RunOf(k)])'
  BY <1>1, <1>2, <1>3 DEF Alive, Young
<1> QED BY <1>5, <1>6 DEF Fresh

\* Rows change without their executors.
LEMMA FreshRows ==
  ASSUME TypeInv, Fresh, UNCHANGED <<queue, exec>>,
         \A q \in Run : status'[q] = "running" => status[q] = "running" /\ age'[q] = age[q],
         worker' = "down" => worker = "down"
  PROVE  Fresh'
<1>1. \A k \in Job : RunOf(k)' = RunOf(k) /\ exec'[k] = exec[k] /\ (Alive(k)' <=> Alive(k))
  BY DEF RunOf, Alive, queue
<1>2. \A k \in Job : Alive(k) => RunOf(k) \in Run
  BY RunOfAlive
<1>3. \A k \in Job : Alive(k)' /\ (status[RunOf(k)] = "running")' => Young(exec[k], age[RunOf(k)])'
  BY <1>1, <1>2 DEF Fresh, Young
<1> QED BY <1>1, <1>3 DEF Fresh

\* Nobody is at work behind the death of the worker.
LEMMA FreshKilled ==
  ASSUME Killed
  PROVE  Fresh'
<1>1. \A k \in Job : ~Alive(k)'
  BY DEF Killed, Alive, Idle, At
<1> QED BY <1>1 DEF Fresh

\* Pick-ups, stalls and the process keep the rows of loops fresh.
LEMMA FreshRest ==
  ASSUME TypeInv, Fresh,
         \/ \E j \in Job : PickUp(j) \/ Stalled(j)
         \/ Crash \/ Shutdown \/ DrainEnds \/ Exit \/ Boot \/ Reap
         \/ \E r \in Run : SweepRun(r) \/ Elapse(r)
  PROVE  Fresh'
<1>1. CASE \E j \in Job : PickUp(j)
  <2>1. PICK j \in Job : PickUp(j)
    BY <1>1
  <2>2. /\ exec'[j].pc = "create" /\ exec'[j].path \in {"start", "phantom"}
        /\ \A k \in Job \ {j} : exec'[k] = exec[k] /\ RunOf(k)' = RunOf(k)
    BY <2>1 DEF PickUp, At, TypeInv, QueueInv, RunOf
  <2>3. UNCHANGED <<status, age, worker>> /\ worker = "up"
    BY <2>1 DEF PickUp, rows
  <2>4. \A k \in Job : Alive(k)' /\ (status[RunOf(k)] = "running")' => Young(exec[k], age[RunOf(k)])'
    BY <2>2, <2>3 DEF Fresh, Young, Alive
  <2> QED BY <2>3, <2>4 DEF Fresh
<1>2. CASE \E j \in Job : Stalled(j)
  <2>1. PICK j \in Job : Stalled(j)
    BY <1>2
  <2>2. \A k \in Job : job'[k].named = job[k].named
    <3>1. job[j] \in JobState
      BY DEF TypeInv, QueueInv
    <3>2. /\ [job[j] EXCEPT !.state = "waiting", !.stalls = 1].named = job[j].named
          /\ [job[j] EXCEPT !.state = "failed"].named = job[j].named
      BY <3>1 DEF JobState
    <3> QED BY <2>1, <3>2 DEF Stalled, TypeInv, QueueInv
  <2>3. UNCHANGED <<pick, exec, status, age, worker>>
    BY <2>1 DEF Stalled, rows
  <2>4. \A k \in Job : RunOf(k)' = RunOf(k) /\ (Alive(k)' <=> Alive(k))
    BY <2>2, <2>3 DEF RunOf, Alive
  <2>5. \A k \in Job : Alive(k)' /\ (status[RunOf(k)] = "running")' => Young(exec[k], age[RunOf(k)])'
    BY <2>3, <2>4 DEF Fresh, Young
  <2> QED BY <2>3, <2>4, <2>5 DEF Fresh
<1>3. CASE Crash \/ Exit
  BY <1>3, FreshKilled DEF Crash, Exit
<1>4. ASSUME NEW S, Cancelled(S) PROVE \A q \in Run : status'[q] = "running" => status[q] = "running" /\ age'[q] = age[q]
  BY <1>4 DEF Cancelled
<1>5. CASE Shutdown \/ DrainEnds
  BY <1>5, FreshRows DEF Shutdown, DrainEnds, rows
<1>6. CASE Boot \/ Reap
  <2>1. \A q \in Run : status'[q] = "running" => status[q] = "running" /\ age'[q] = age[q]
    BY <1>4, <1>6 DEF Boot, Reap
  <2>2. UNCHANGED <<queue, exec>> /\ (worker' = "down" => worker = "down")
    BY <1>6 DEF Boot, Reap
  <2> QED BY <2>1, <2>2, FreshRows
<1>7. ASSUME NEW r \in Run, SweepRun(r) PROVE Fresh'
  <2>1. Marked(r, "failed") \/ UNCHANGED <<status, age>>
    BY <1>7 DEF SweepRun
  <2>2. \A q \in Run : status'[q] = "running" => status[q] = "running" /\ age'[q] = age[q]
    BY <2>1 DEF Marked, TypeInv, RowsInv
  <2>3. UNCHANGED <<queue, exec, worker>>
    BY <1>7 DEF SweepRun
  <2> QED BY <2>2, <2>3, FreshRows
<1> QED BY <1>1, <1>2, <1>3, <1>5, <1>6, <1>7, FreshElapse

\* Rows of loops are fresh, always.
LEMMA FreshAlways == Spec => []Fresh
<1>1. Init => Fresh
  BY DEF Init, Fresh, Alive, Idle, At
<1>2. TypeInv /\ Fresh /\ [Next]_vars => Fresh'
  <2> SUFFICES ASSUME TypeInv, Fresh, [Next]_vars PROVE Fresh'
    OBVIOUS
  <2>1. CASE UNCHANGED vars
    BY <2>1, FreshRows DEF vars, queue, rows
  <2>2. ASSUME NEW j \in Job, Proceed(j) \/ Heartbeat(j) \/ ApplyAction(j) PROVE Fresh'
    <3>1. CASE \/ Create(j) \/ Start(j) \/ CommandEnds(j) \/ Preflight(j) \/ BudgetGate(j)
               \/ Heartbeat(j) \/ ApplyAction(j) \/ LoopEnds(j) \/ StepEnds(j)
      BY <3>1, FreshWork
    <3>2. CASE \/ Say(j) \/ SayRouted(j) \/ Mark(j) \/ OutputMissing(j)
               \/ VerificationFails(j) \/ Pause(j) \/ Watch(j)
      BY <3>2, FreshEnds
    <3> QED BY <2>2, <3>1, <3>2 DEF Proceed
  <2>3. CASE Next
    BY <2>2, <2>3, FreshRest DEF Next, Observed
  <2> QED BY <2>1, <2>3
<1> QED BY <1>1, <1>2, TypeAlways, PTL DEF Spec

\* The reaper cancels rows of age 2 only, and the reconciliation at startup
\* finds no executor at work; nothing else writes "cancelled".
LEMMA CancelsSpare ==
  ASSUME TypeInv, Fresh, Next, NEW j \in Job, exec[j].pc \in {"loop", "beat"},
         status[RunOf(j)] = "running"
  PROVE  status'[RunOf(j)] # "cancelled"
<1> DEFINE r == RunOf(j)
<1>1. Alive(j) /\ r \in Run /\ worker # "down"
  BY RunOfAlive DEF Alive, Fresh
<1>2. age[r] <= 1
  BY <1>1 DEF Fresh, Young, TypeInv, RowsInv
<1>3. ASSUME NEW q \in Run, NEW s, s # "cancelled", Marked(q, s)
      PROVE  status'[r] # "cancelled"
  BY <1>1, <1>3 DEF Marked, TypeInv, RowsInv
<1>4. ASSUME NEW q \in Run, CreateRun(q) PROVE status'[r] # "cancelled"
  BY <1>1, <1>4 DEF CreateRun, TypeInv, RowsInv, rows
<1>5. CASE Reap
  <2>1. Cancelled({q \in Run : Reapable(q)}) /\ ~Reapable(r)
    BY <1>2, <1>5 DEF Reap, Reapable, TypeInv, RowsInv
  <2> QED BY <1>1, <2>1 DEF Cancelled
<1>6. CASE UNCHANGED status
  BY <1>6
<1>7. ASSUME NEW k \in Job, Proceed(k) \/ Heartbeat(k) \/ ApplyAction(k)
      PROVE  status'[r] # "cancelled"
  <2>1. exec[k].pc # "idle"
    BY <1>7 DEF Proceed, Heartbeat, ApplyAction, Create, Start, CommandEnds, Preflight,
                BudgetGate, LoopEnds, StepEnds, Say, SayRouted, Mark, OutputMissing,
                VerificationFails, Pause, Watch
  <2>2. RunOf(k) \in Run
    BY <2>1, RunOfAlive DEF Alive
  <2>3. CASE Create(k)
    BY <1>4, <1>6, <2>2, <2>3 DEF Create, rows
  <2>4. CASE Start(k)
    BY <1>3, <1>6, <2>2, <2>4 DEF Start, rows
  <2>5. CASE ApplyAction(k)
    BY <1>3, <2>2, <2>5 DEF ApplyAction
  <2>6. CASE SayRouted(k)
    BY <1>3, <1>6, <2>2, <2>6 DEF SayRouted
  <2>7. CASE Mark(k)
    BY <1>3, <1>6, <2>2, <2>7 DEF Mark, MarkFailed
  <2>8. CASE VerificationFails(k)
    BY <1>3, <2>2, <2>8 DEF VerificationFails, MarkFailed
  <2>9. CASE \/ CommandEnds(k) \/ Preflight(k) \/ BudgetGate(k) \/ LoopEnds(k)
             \/ StepEnds(k) \/ Say(k) \/ OutputMissing(k) \/ Pause(k) \/ Watch(k)
             \/ Heartbeat(k)
    BY <1>6, <2>9 DEF CommandEnds, Preflight, BudgetGate, LoopEnds, StepEnds, Say,
                      OutputMissing, Pause, Watch, Heartbeat, rows
  <2> QED BY <1>7, <2>3, <2>4, <2>5, <2>6, <2>7, <2>8, <2>9 DEF Proceed
<1>8. ASSUME NEW q \in Run, SweepRun(q) PROVE status'[r] # "cancelled"
  BY <1>3, <1>6, <1>8 DEF SweepRun
<1>9. ASSUME NEW q \in Run, Elapse(q) PROVE status'[r] # "cancelled"
  BY <1>6, <1>9 DEF Elapse
<1>10. CASE \/ \E k \in Job : PickUp(k) \/ Stalled(k)
            \/ Crash \/ Shutdown \/ DrainEnds \/ Exit
  BY <1>6, <1>10 DEF PickUp, Stalled, Crash, Shutdown, DrainEnds, Exit, rows
<1>11. ~Boot
  BY <1>1 DEF Boot
<1> QED BY <1>5, <1>7, <1>8, <1>9, <1>10, <1>11 DEF Next, Observed

\* No reaper and no restart cancels the run of an agentic loop at work, for
\* any jobs, attempts and stops: the heartbeat keeps its row young, and the
\* reconciliation comes before the worker (ai-skill.ts, worker.ts).
THEOREM LoopsAreSpared == Spec => LiveLoopsAreSpared
<1> DEFINE Spared == \A j \in Job : exec[j].pc \in {"loop", "beat"} /\ status[RunOf(j)] = "running"
                       => status'[RunOf(j)] # "cancelled"
<1>1. TypeInv /\ Fresh /\ [Next]_vars => [Spared]_vars
  <2> SUFFICES ASSUME TypeInv, Fresh, Next PROVE Spared
    OBVIOUS
  <2> QED BY CancelsSpare
<1> HIDE DEF Spared
<1>2. Spec => [][Spared]_vars
  BY <1>1, TypeAlways, FreshAlways, PTL DEF Spec
<1> QED BY <1>2 DEF LiveLoopsAreSpared, Spared

-----------------------------------------------------------------------------
(* One alert for a streak *)

\* Of a set of positions: those from i on, the last t, and the last that fail.
From(E, i) == {k \in E : k >= i}
LastOf(E, t) == {i \in E : Cardinality(From(E, i)) <= t}
FailingEnd(E, G) == {m \in E : \A k \in E : k >= m => k \in G}

\* The positions in began of the ended runs of a table, of those that failed,
\* and of those behind the last that did not.
EndsOf(b, table) == {i \in DOMAIN b : table[b[i]] \in Counted}
FailuresOf(b, table) == {i \in EndsOf(b, table) : table[b[i]] = "failed"}
StreakOf(b, table) == FailingEnd(EndsOf(b, table), FailuresOf(b, table))

Injected(b) == \A i, k \in DOMAIN b : b[i] = b[k] => i = k

\* A run has one place among those that began.
Places ==
  /\ Injected(began)
  /\ \A r \in Run : status[r] # "none" <=> \E i \in DOMAIN began : began[i] = r

\* Of a streak the first run is alerted, and no other; once it is long enough, unless
\* it is just so long and one of its failures is still to be checked.
Alerted(b, table, A, U) ==
  LET S == StreakOf(b, table)
  IN  /\ \A a \in A : table[a] = "failed"
      /\ \A i \in S : b[i] \in A => \A k \in S : i <= k
      /\ Cardinality(S) >= Threshold =>
           \/ \E i \in S : b[i] \in A
           \/ Cardinality(S) = Threshold /\ \E i \in S : b[i] \in U

AlertInv == Places /\ (~disturbed => Alerted(began, status, alerts, unchecked))

\* A table that follows another as if nothing disturbed it: what ended stays, what ends is
\* behind it, and nothing fails while a failure is unchecked.
InOrder(b, table, next, U) ==
  \A i \in DOMAIN b : next[b[i]] # table[b[i]] =>
    /\ table[b[i]] \notin Counted
    /\ next[b[i]] \in Counted => \A k \in DOMAIN b : k > i => table[b[k]] \notin Counted
    /\ next[b[i]] = "failed" => U = {}

\* Of the last elements of a set of positions: when those that fail behind the last
\* that does not are just t, they are the last t, and only then.
LEMMA LastOnes ==
  ASSUME NEW n \in Nat, NEW E \in SUBSET (1 .. n), NEW G \in SUBSET E, NEW t \in Nat \ {0}
  PROVE  LET L == LastOf(E, t)
             M == LastOf(E, t + 1)
             S == FailingEnd(E, G)
         IN  /\ Cardinality(S) = t <=> Cardinality(L) = t /\ L \subseteq G /\ (M = L \/ ~(M \subseteq G))
             /\ Cardinality(S) = t => L = S
<1> DEFINE L == LastOf(E, t)
           M == LastOf(E, t + 1)
           S == FailingEnd(E, G)
           Up(i) == From(E, i)
<1>1. IsFiniteSet(E) /\ \A i \in E : i \in Nat
  <2>1. IsFiniteSet(1 .. n)
    BY FS_Interval
  <2>2. IsFiniteSet(E)
    BY <2>1, FS_Subset
  <2> QED BY <2>2
<1> HIDE DEF L, M, S, Up
<1>2. \A X \in SUBSET E : IsFiniteSet(X) /\ Cardinality(X) \in Nat
  BY <1>1, FS_Subset, FS_CardinalityType
<1>3. \A X, Y \in SUBSET E : X \subseteq Y => Cardinality(X) <= Cardinality(Y)
  BY <1>2, FS_Subset
<1>4. \A X \in SUBSET E, e \in E : e \notin X => Cardinality(X \union {e}) = Cardinality(X) + 1
  BY <1>2, FS_AddElement
<1>5. \A i \in E : Up(i) \in SUBSET E /\ i \in Up(i)
  BY <1>1 DEF Up, From
<1>6. L = {i \in E : Cardinality(Up(i)) <= t} /\ M = {i \in E : Cardinality(Up(i)) <= t + 1}
  BY DEF L, M, Up, LastOf
<1>7. \A i, k \in E : i <= k => Up(k) \subseteq Up(i)
  <2> SUFFICES ASSUME NEW i \in E, NEW k \in E, i <= k, NEW x \in Up(k) PROVE x \in Up(i)
    OBVIOUS
  <2>1. x \in E /\ x >= k
    BY DEF Up, From
  <2>2. i \in Nat /\ k \in Nat /\ x \in Nat
    BY <1>1, <2>1
  <2>3. x >= i
    BY <2>1, <2>2
  <2> QED BY <2>1, <2>3 DEF Up, From
<1>8. \A i, k \in E : i < k => Cardinality(Up(i)) >= Cardinality(Up(k)) + 1
  <2> SUFFICES ASSUME NEW i \in E, NEW k \in E, i < k PROVE Cardinality(Up(i)) >= Cardinality(Up(k)) + 1
    OBVIOUS
  <2>1. i \notin Up(k) /\ Up(k) \union {i} \subseteq Up(i)
    <3>1. i \in Nat /\ k \in Nat
      BY <1>1
    <3>2. i \notin Up(k)
      BY <3>1 DEF Up, From
    <3>3. Up(k) \subseteq Up(i) /\ i \in Up(i)
      BY <1>5, <1>7, <3>1
    <3> QED BY <3>2, <3>3
  <2>2. Cardinality(Up(k) \union {i}) = Cardinality(Up(k)) + 1
    BY <1>4, <1>5, <2>1
  <2>3. Cardinality(Up(k) \union {i}) <= Cardinality(Up(i))
    BY <1>3, <1>5, <2>1
  <2>4. Cardinality(Up(i)) \in Nat /\ Cardinality(Up(k)) \in Nat
    BY <1>2, <1>5
  <2> QED BY <2>2, <2>3, <2>4
<1>9. /\ S \subseteq E /\ \A i \in S, k \in E : i <= k => k \in S
      /\ L \subseteq E /\ \A i \in L, k \in E : i <= k => k \in L
      /\ L \subseteq M /\ M \subseteq E /\ \A i \in M, k \in E : i <= k => k \in M
  <2>1. S \subseteq E /\ \A i \in S, k \in E : i <= k => k \in S
    BY <1>1 DEF S, FailingEnd
  <2>2. \A i, k \in E : i <= k => Cardinality(Up(k)) <= Cardinality(Up(i))
    BY <1>3, <1>5, <1>7
  <2>3. \A i \in E : Cardinality(Up(i)) \in Nat
    BY <1>2, <1>5
  <2>4. \A m \in Nat : \A X : X = {i \in E : Cardinality(Up(i)) <= m} => \A i \in X, k \in E : i <= k => k \in X
    <3> SUFFICES ASSUME NEW m \in Nat, NEW i \in E, Cardinality(Up(i)) <= m, NEW k \in E, i <= k
                 PROVE  Cardinality(Up(k)) <= m
      OBVIOUS
    <3>1. Cardinality(Up(k)) <= Cardinality(Up(i)) /\ Cardinality(Up(k)) \in Nat /\ Cardinality(Up(i)) \in Nat
      BY <2>2, <2>3
    <3> QED BY <3>1
  <2>5. /\ \A i \in L, k \in E : i <= k => k \in L
        /\ \A i \in M, k \in E : i <= k => k \in M
    <3>1. t \in Nat /\ t + 1 \in Nat
      OBVIOUS
    <3> QED BY <1>6, <2>4, <3>1
  <2>6. L \subseteq E /\ M \subseteq E
    BY <1>6
  <2>7. \A i \in L : i \in M
    <3> SUFFICES ASSUME NEW i \in E, Cardinality(Up(i)) <= t PROVE Cardinality(Up(i)) <= t + 1
      BY <1>6
    <3> QED BY <2>3
  <2> QED BY <2>1, <2>5, <2>6, <2>7
<1>10. S \subseteq G
  <2> SUFFICES ASSUME NEW i \in S PROVE i \in G
    OBVIOUS
  <2>1. i \in E /\ \A k \in E : k >= i => k \in G
    BY DEF S, FailingEnd
  <2>2. i \in Nat
    BY <1>1, <2>1
  <2>3. i >= i
    BY <2>2
  <2> QED BY <2>1, <2>3
<1>11. ASSUME Cardinality(S) = t
       PROVE  L = S /\ Cardinality(L) = t /\ L \subseteq G /\ (M = L \/ ~(M \subseteq G))
  <2>1. ASSUME NEW i \in S PROVE i \in L
    <3>1. Up(i) \subseteq S
      BY <1>1, <1>9 DEF Up, From
    <3>2. Cardinality(Up(i)) <= t
      BY <1>3, <1>9, <1>11, <3>1
    <3> QED BY <1>6, <1>9, <3>2
  <2>2. ASSUME NEW i \in E \ S PROVE i \notin L
    <3>1. S \union {i} \subseteq Up(i)
      BY <1>1, <1>9 DEF Up, From
    <3>2. Cardinality(S \union {i}) = t + 1
      BY <1>4, <1>9, <1>11
    <3>3. t + 1 <= Cardinality(Up(i)) /\ Cardinality(Up(i)) \in Nat
      BY <1>2, <1>3, <1>5, <3>1, <3>2
    <3> QED BY <1>6, <3>3
  <2>3. L = S
    BY <1>9, <2>1, <2>2
  <2>4. S \subseteq G
    BY <1>10
  <2>5. ASSUME M # L PROVE ~(M \subseteq G)
    <3>1. PICK i \in M : i \in E \ S
      BY <1>9, <2>3, <2>5
    <3>2. PICK k \in E : k >= i /\ k \notin G
      BY <3>1 DEF S, FailingEnd
    <3> QED BY <1>9, <3>1, <3>2
  <2> QED BY <1>11, <2>3, <2>4, <2>5
<1>12. ASSUME Cardinality(L) = t, L \subseteq G, M = L \/ ~(M \subseteq G)
       PROVE  Cardinality(S) = t
  <2>1. L \subseteq S
    <3> SUFFICES ASSUME NEW i \in L PROVE i \in S
      OBVIOUS
    <3>1. i \in E /\ i \in Nat /\ \A k \in E : k \in Nat
      BY <1>1, <1>9
    <3>2. ASSUME NEW k \in E, k >= i PROVE k \in G
      <4>1. i <= k
        BY <3>1, <3>2
      <4> QED BY <1>9, <1>12, <4>1
    <3> QED BY <3>1, <3>2 DEF S, FailingEnd
  <2>2. ASSUME NEW i \in S, i \notin L PROVE FALSE
    <3>1. PICK j \in E \ L : \A k \in E \ L : k <= j
      <4>1. E \ L \in SUBSET (1 .. n) /\ E \ L # {}
        BY <1>9, <2>2
      <4> QED BY <4>1, IntervalMax
    <3>2. i <= j
      BY <1>9, <2>2, <3>1
    <3>3. Up(j) \subseteq L \union {j}
      <4> SUFFICES ASSUME NEW k \in Up(j), k \notin L PROVE k = j
        OBVIOUS
      <4>1. k \in E /\ k >= j
        BY DEF Up, From
      <4>2. k <= j /\ k \in Nat /\ j \in Nat
        BY <1>1, <3>1, <4>1
      <4> QED BY <4>1, <4>2
    <3>4. Cardinality(L \union {j}) = t + 1
      BY <1>4, <1>9, <1>12, <3>1
    <3>5. Cardinality(Up(j)) <= t + 1 /\ Cardinality(Up(j)) \in Nat /\ Cardinality(Up(j)) > t
      <4>1. Cardinality(Up(j)) \in Nat /\ L \union {j} \subseteq E
        BY <1>2, <1>5, <1>9, <3>1
      <4>2. Cardinality(Up(j)) <= t + 1
        BY <1>3, <1>5, <3>1, <3>3, <3>4, <4>1
      <4>3. ~(Cardinality(Up(j)) <= t)
        BY <1>6, <3>1
      <4> QED BY <4>1, <4>2, <4>3
    <3>6. j \in M
      BY <1>6, <3>1, <3>5
    <3>7. PICK q \in M : q \notin G
      BY <1>12, <3>1, <3>6
    <3>8. q \in E /\ q < i
      <4>1. q \in E /\ q \in Nat /\ i \in E /\ i \in Nat
        BY <1>1, <1>9, <2>2
      <4>2. ~(i <= q)
        BY <1>9, <1>10, <2>2, <3>7, <4>1
      <4> QED BY <4>1, <4>2
    <3>9. q < j
      BY <1>1, <1>9, <2>2, <3>1, <3>2, <3>8
    <3>10. Cardinality(Up(q)) >= Cardinality(Up(j)) + 1 /\ Cardinality(Up(q)) \in Nat
      BY <1>2, <1>5, <1>8, <3>1, <3>8, <3>9
    <3>11. Cardinality(Up(q)) <= t + 1
      BY <1>6, <3>7
    <3> QED BY <3>5, <3>10, <3>11
  <2> QED BY <1>12, <2>1, <2>2, <1>9
<1> QED BY <1>11, <1>12 DEF L, M, S

\* The ends of a table, and its streak, are finitely many positions.
LEMMA StreakType ==
  ASSUME NEW b \in Seq(Run), NEW T
  PROVE  /\ EndsOf(b, T) \in SUBSET (1 .. Len(b)) /\ Len(b) \in Nat
         /\ FailuresOf(b, T) \in SUBSET EndsOf(b, T)
         /\ StreakOf(b, T) \in SUBSET FailuresOf(b, T)
         /\ \A i \in StreakOf(b, T) : i \in Nat /\ i \in DOMAIN b /\ b[i] \in Run
         /\ IsFiniteSet(StreakOf(b, T)) /\ Cardinality(StreakOf(b, T)) \in Nat
<1>1. EndsOf(b, T) \in SUBSET (1 .. Len(b)) /\ Len(b) \in Nat /\ DOMAIN b = 1 .. Len(b)
  BY DEF EndsOf
<1>2. FailuresOf(b, T) \in SUBSET EndsOf(b, T)
  BY DEF FailuresOf
<1>3. StreakOf(b, T) \in SUBSET FailuresOf(b, T)
  <2> SUFFICES ASSUME NEW i \in StreakOf(b, T) PROVE i \in FailuresOf(b, T)
    OBVIOUS
  <2>1. i \in EndsOf(b, T) /\ \A k \in EndsOf(b, T) : k >= i => k \in FailuresOf(b, T)
    BY DEF StreakOf, FailingEnd
  <2>2. i \in Nat
    BY <1>1, <2>1
  <2>3. i >= i
    BY <2>2
  <2> QED BY <2>1, <2>3
<1>4. \A i \in StreakOf(b, T) : i \in Nat /\ i \in DOMAIN b /\ b[i] \in Run
  BY <1>1, <1>2, <1>3
<1>5. IsFiniteSet(1 .. Len(b))
  BY <1>1, FS_Interval
<1>6. IsFiniteSet(StreakOf(b, T))
  BY <1>1, <1>2, <1>3, <1>5, FS_Subset
<1> QED BY <1>1, <1>2, <1>3, <1>4, <1>6, FS_CardinalityType

\* What the watchdog sees of the ends of the runs is the streak: it alerts when the streak is
\* just Threshold long, and then looks at the runs of the streak.
LEMMA CrossingIsStreak ==
  ASSUME began \in Seq(Run), NEW T
  PROVE  /\ Crossing(T) <=> Cardinality(StreakOf(began, T)) = Threshold
         /\ Crossing(T) => Recent(T, Threshold) = StreakOf(began, T)
<1> DEFINE E == EndsOf(began, T)
           G == FailuresOf(began, T)
           n == Len(began)
<1>1. \A t : Recent(T, t) = LastOf(E, t)
  BY DEF Recent, LastOf, From, EndsOf
<1>2. E \in SUBSET (1 .. n) /\ n \in Nat /\ G \in SUBSET E
  BY StreakType
<1>3. \A t : LastOf(E, t) \subseteq E
  BY DEF LastOf
<1>4. \A X \in SUBSET E : Failed(T, X) <=> X \subseteq G
  BY DEF Failed, FailuresOf
<1>5. Threshold \in Nat \ {0}
  BY RunLifecycleAssumption
<1>6. LET L == LastOf(E, Threshold)
          M == LastOf(E, Threshold + 1)
          S == FailingEnd(E, G)
      IN  /\ Cardinality(S) = Threshold
               <=> Cardinality(L) = Threshold /\ L \subseteq G /\ (M = L \/ ~(M \subseteq G))
          /\ Cardinality(S) = Threshold => L = S
  <2> HIDE DEF E, G, n
  <2> QED BY <1>2, <1>5, LastOnes
<1>7. StreakOf(began, T) = FailingEnd(E, G)
  BY DEF StreakOf
<1>8. /\ Failed(T, LastOf(E, Threshold)) <=> LastOf(E, Threshold) \subseteq G
      /\ Failed(T, LastOf(E, Threshold + 1)) <=> LastOf(E, Threshold + 1) \subseteq G
  BY <1>3, <1>4
<1> HIDE DEF E, G, n
<1> QED BY <1>1, <1>6, <1>7, <1>8 DEF Crossing

\* The same ends, and failures that stay ones: the same streak, as well alerted.
LEMMA AlertedSame ==
  ASSUME NEW b, NEW T, NEW c, NEW V, NEW A, NEW U, NEW W, U \subseteq W,
         EndsOf(c, V) = EndsOf(b, T),
         \A i \in EndsOf(b, T) : c[i] = b[i] /\ V[c[i]] = T[b[i]],
         \A a \in A : T[a] = "failed" => V[a] = "failed",
         b \in Seq(Run),
         Alerted(b, T, A, U)
  PROVE  Alerted(c, V, A, W)
<1>1. FailuresOf(c, V) = FailuresOf(b, T)
  BY DEF FailuresOf
<1>2. StreakOf(c, V) = StreakOf(b, T)
  BY <1>1 DEF StreakOf
<1>3. \A i \in StreakOf(b, T) : c[i] = b[i]
  BY StreakType
<1>4. \A a \in A : V[a] = "failed"
  BY DEF Alerted
<1>5. \A i \in StreakOf(b, T) : b[i] \in A => \A k \in StreakOf(b, T) : i <= k
  BY DEF Alerted
<1>6. Cardinality(StreakOf(b, T)) >= Threshold =>
           \/ \E i \in StreakOf(b, T) : b[i] \in A
           \/ Cardinality(StreakOf(b, T)) = Threshold /\ \E i \in StreakOf(b, T) : b[i] \in U
  BY DEF Alerted
<1> QED BY <1>2, <1>3, <1>4, <1>5, <1>6 DEF Alerted

\* Runs end otherwise than by a failure, in order: the streak is over, or nothing ended.
LEMMA AlertedOver ==
  ASSUME NEW b \in Seq(Run), NEW T, NEW V, NEW A, NEW U,
         InOrder(b, T, V, U),
         \A i \in DOMAIN b : V[b[i]] = "failed" => T[b[i]] = "failed",
         \A a \in A : T[a] = "failed" => \E i \in DOMAIN b : b[i] = a,
         Alerted(b, T, A, U)
  PROVE  Alerted(b, V, A, U)
<1>1. \A i \in EndsOf(b, T) : V[b[i]] = T[b[i]]
  BY DEF InOrder, EndsOf
<1>2. \A a \in A : T[a] = "failed" => V[a] = "failed"
  BY <1>1 DEF EndsOf, Counted
<1>3. EndsOf(b, T) \subseteq EndsOf(b, V)
  BY <1>1 DEF EndsOf
<1>4. CASE EndsOf(b, V) = EndsOf(b, T)
  BY <1>1, <1>2, <1>4, AlertedSame
<1>5. CASE EndsOf(b, V) # EndsOf(b, T)
  <2>1. PICK p \in EndsOf(b, V) : p \notin EndsOf(b, T)
    BY <1>3, <1>5
  <2>2. p \in DOMAIN b /\ V[b[p]] # T[b[p]] /\ V[b[p]] \in Counted
    BY <2>1 DEF EndsOf
  <2>3. V[b[p]] # "failed"
    BY <2>1, <2>2 DEF EndsOf, Counted
  <2>4. \A k \in EndsOf(b, T) : ~(k > p)
    BY <2>2 DEF InOrder, EndsOf
  <2>5. \A i \in EndsOf(b, V) : i \in Nat
    BY StreakType
  <2>6. ASSUME NEW i \in StreakOf(b, V) PROVE FALSE
    <3>1. i \in FailuresOf(b, V)
      BY StreakType
    <3>2. i \in EndsOf(b, T)
      BY <3>1 DEF FailuresOf, EndsOf, Counted
    <3>3. p >= i
      BY <1>3, <2>4, <2>5, <3>2
    <3>4. p \in FailuresOf(b, V)
      BY <2>1, <3>3 DEF StreakOf, FailingEnd
    <3> QED BY <2>3, <3>4 DEF FailuresOf
  <2>7. StreakOf(b, V) = {} /\ Cardinality(StreakOf(b, V)) = 0
    BY <2>6, FS_EmptySet
  <2>8. \A a \in A : V[a] = "failed"
    BY <1>2 DEF Alerted
  <2>9. ~(0 >= Threshold)
    BY RunLifecycleAssumption
  <2> QED BY <2>7, <2>8, <2>9 DEF Alerted
<1> QED BY <1>4, <1>5

\* A run fails, in order: it joins the streak, to be checked.
LEMMA AlertedFails ==
  ASSUME NEW b \in Seq(Run), NEW T, NEW V, NEW A, NEW U, Injected(b),
         NEW n \in DOMAIN b, T[b[n]] # "failed", V[b[n]] = "failed",
         \A i \in DOMAIN b : b[i] # b[n] => V[b[i]] = T[b[i]],
         \A a \in A : a # b[n] => V[a] = T[a],
         InOrder(b, T, V, U),
         Alerted(b, T, A, U)
  PROVE  Alerted(b, V, A, U \union {b[n]})
<1>1. /\ U = {} /\ T[b[n]] \notin Counted
      /\ \A k \in EndsOf(b, T) : ~(k > n)
  BY DEF InOrder, EndsOf, Counted
<1>2. EndsOf(b, V) = EndsOf(b, T) \union {n} /\ n \notin EndsOf(b, T)
  BY <1>1 DEF EndsOf, Injected, Counted
<1>3. FailuresOf(b, V) = FailuresOf(b, T) \union {n}
  BY <1>1, <1>2 DEF FailuresOf, EndsOf, Injected
<1>4. \A i \in EndsOf(b, T) : i \in Nat /\ n \in Nat /\ i <= n
  BY <1>1, StreakType
<1>5. StreakOf(b, V) = StreakOf(b, T) \union {n}
  <2>1. ASSUME NEW i \in StreakOf(b, T) PROVE i \in StreakOf(b, V)
    BY <1>2, <1>3 DEF StreakOf, FailingEnd
  <2>2. n \in StreakOf(b, V)
    BY <1>2, <1>3, <1>4 DEF StreakOf, FailingEnd
  <2>3. ASSUME NEW i \in StreakOf(b, V), i # n PROVE i \in StreakOf(b, T)
    BY <1>2, <1>3, <2>3 DEF StreakOf, FailingEnd
  <2> QED BY <2>1, <2>2, <2>3
<1> DEFINE S == StreakOf(b, T)
<1>6. /\ \A i \in S : i \in EndsOf(b, T) /\ b[i] # b[n]
      /\ n \notin S /\ IsFiniteSet(S) /\ Cardinality(S) \in Nat
  BY <1>2, StreakType DEF Injected
<1>7. Cardinality(S \union {n}) = Cardinality(S) + 1
  BY <1>6, FS_AddElement
<1>8. b[n] \notin A /\ \A a \in A : V[a] = "failed"
  BY DEF Alerted
<1>9. \A i \in S : b[i] \in A => \A k \in S : i <= k
  BY DEF Alerted
<1>10. Cardinality(S) >= Threshold => \E i \in S : b[i] \in A
  BY <1>1 DEF Alerted
<1> HIDE DEF S
<1>11. \A i \in S \union {n} : b[i] \in A => \A k \in S \union {n} : i <= k
  BY <1>4, <1>6, <1>8, <1>9
<1>12. Cardinality(S \union {n}) >= Threshold =>
           \/ \E i \in S \union {n} : b[i] \in A
           \/ Cardinality(S \union {n}) = Threshold /\ \E i \in S \union {n} : b[i] \in U \union {b[n]}
  <2>1. CASE Cardinality(S) >= Threshold
    BY <1>10, <2>1
  <2>2. CASE ~(Cardinality(S) >= Threshold)
    BY <1>6, <1>7, <2>2, RunLifecycleAssumption
  <2> QED BY <2>1, <2>2
<1>13. StreakOf(b, V) = S \union {n}
  BY <1>5 DEF S
<1> QED BY <1>8, <1>11, <1>12, <1>13 DEF Alerted

\* The watchdog looks: what it alerts is the first run of a streak that is just long enough.
LEMMA AlertedChecked ==
  ASSUME began \in Seq(Run), Injected(began), NEW T, NEW A, NEW U, NEW r,
         Alerted(began, T, A, U)
  PROVE  LET last == Recent(T, Threshold)
             first == {began[i] : i \in {m \in last : \A k \in last : m <= k}}
         IN  Alerted(began, T, A \union (IF Crossing(T) THEN first ELSE {}), U \ {r})
<1> DEFINE S == StreakOf(began, T)
           first == {began[i] : i \in {m \in S : \A k \in S : m <= k}}
<1>1. /\ \A i \in S : i \in Nat /\ i \in DOMAIN began /\ T[began[i]] = "failed"
      /\ IsFiniteSet(S) /\ Cardinality(S) \in Nat /\ S \in SUBSET Nat
  BY StreakType DEF FailuresOf
<1>2. /\ \A a \in A : T[a] = "failed"
      /\ \A i \in S : began[i] \in A => \A k \in S : i <= k
      /\ Cardinality(S) >= Threshold =>
           (\E i \in S : began[i] \in A) \/ Cardinality(S) = Threshold
  BY DEF Alerted
<1>3. CASE Crossing(T)
  <2>1. Cardinality(S) = Threshold /\ Recent(T, Threshold) = S
    BY <1>3, CrossingIsStreak
  <2>2. S # {}
    BY <2>1, FS_EmptySet, RunLifecycleAssumption
  <2>3. PICK m \in S : \A k \in S : m <= k
    BY <1>1, <2>2, NatMin
  <2>4. began[m] \in first
    BY <2>3
  <2>5. \A i \in S : began[i] \in first => \A k \in S : i <= k
    BY <1>1 DEF Injected
  <2>6. \A a \in first : T[a] = "failed"
    BY <1>1
  <2> HIDE DEF S, first
  <2>7. Alerted(began, T, A \union first, U \ {r})
    BY <1>2, <2>3, <2>4, <2>5, <2>6 DEF Alerted, S
  <2> QED BY <1>3, <2>1, <2>7 DEF first
<1>4. CASE ~Crossing(T)
  <2>1. Cardinality(S) # Threshold
    BY <1>4, CrossingIsStreak
  <2>2. A \union {} = A
    OBVIOUS
  <2> HIDE DEF S, first
  <2>3. Alerted(began, T, A, U \ {r})
    BY <1>2, <2>1 DEF Alerted, S
  <2> QED BY <1>4, <2>2, <2>3
<1> QED BY <1>3, <1>4

\* What a step does to the statuses of the runs and to the watchdog: nothing, but for a failure
\* not checked; a run is created; runs change otherwise than to failed; one fails; the watchdog
\* looks; or one fails, and the watchdog looks at once.
Stays == UNCHANGED <<status, began, alerts>> /\ unchecked \subseteq unchecked'
Creates(r) ==
  /\ status[r] = "none" /\ status' = [status EXCEPT ![r] = "running"]
  /\ began' = Append(began, r) /\ UNCHANGED watchdog
Turns ==
  /\ UNCHANGED <<began, watchdog>>
  /\ \A r \in Run : /\ status'[r] = "none" <=> status[r] = "none"
                    /\ status'[r] = "failed" => status[r] = "failed"
Fails(r) ==
  /\ status[r] # "none" /\ status' = [status EXCEPT ![r] = "failed"]
  /\ UNCHANGED <<began, alerts>> /\ unchecked' = unchecked \union {r}
Looks(r) == UNCHANGED <<status, began>> /\ CheckFailureStreak(r, status)
FailsAndLooks(r) ==
  /\ status[r] # "none" /\ status' = [status EXCEPT ![r] = "failed"]
  /\ UNCHANGED began /\ CheckFailureStreak(r, status')

Shaped ==
  \/ Stays \/ Turns
  \/ \E r \in Run : Creates(r) \/ Fails(r) \/ Looks(r) \/ FailsAndLooks(r)

\* A mark other than a failure.
LEMMA MarkedTurns ==
  ASSUME TypeInv, NEW r \in Run, NEW s, s \notin {"none", "failed"}, Marked(r, s),
         UNCHANGED <<began, watchdog>>
  PROVE  Turns
<1> QED BY DEF TypeInv, RowsInv, Marked, Turns

\* A mark of a failure changes a row, or nothing.
LEMMA MarkedFails ==
  ASSUME TypeInv, NEW r \in Run, Marked(r, "failed")
  PROVE  \/ status[r] # "none" /\ status' = [status EXCEPT ![r] = "failed"]
         \/ status[r] = "none" /\ status' = status
<1>1. status' = [status EXCEPT ![r] = IF status[r] = "none" THEN status[r] ELSE "failed"]
  BY DEF Marked
<1>2. status \in [Run -> Status]
  BY DEF TypeInv, RowsInv
<1>3. CASE status[r] = "none"
  BY <1>1, <1>2, <1>3
<1>4. CASE status[r] # "none"
  BY <1>1, <1>4
<1> QED BY <1>3, <1>4

\* The tracker marks a failure, and the watchdog is still to look.
LEMMA MarkFailedShaped ==
  ASSUME TypeInv, NEW j \in Job, RunOf(j) \in Run, MarkFailed(j), UNCHANGED <<began, alerts>>
  PROVE  Shaped
<1>1. Marked(RunOf(j), "failed")
      /\ unchecked' = unchecked \union IF status[RunOf(j)] = "none" THEN {} ELSE {RunOf(j)}
  BY DEF MarkFailed
<1>2. CASE status[RunOf(j)] # "none" /\ status' = [status EXCEPT ![RunOf(j)] = "failed"]
  BY <1>1, <1>2 DEF Shaped, Fails
<1>3. CASE status[RunOf(j)] = "none" /\ status' = status
  BY <1>1, <1>3 DEF Shaped, Stays
<1> QED BY <1>1, <1>2, <1>3, MarkedFails

\* Every step of the system is of these shapes.
LEMMA NextShaped ==
  ASSUME TypeInv, [Next]_vars
  PROVE  Shaped
<1>1. CASE UNCHANGED <<rows, watchdog>>
  BY <1>1 DEF rows, watchdog, Shaped, Stays
<1>2. ASSUME NEW j \in Job, Proceed(j) \/ ApplyAction(j) PROVE Shaped
  <2>1. Alive(j)
    BY <1>2 DEF Alive, Proceed, Create, Start, CommandEnds, Preflight, BudgetGate, ApplyAction,
           LoopEnds, StepEnds, Say, SayRouted, Mark, OutputMissing, VerificationFails, Pause, Watch
  <2>2. RunOf(j) \in Run
    BY <2>1, RunOfAlive
  <2> DEFINE r == RunOf(j)
  <2>3. CASE Create(j)
    BY <1>1, <2>2, <2>3 DEF Create, CreateRun, Shaped, Creates, Stays, rows, watchdog
  <2>4. CASE Start(j)
    <3>1. UNCHANGED <<rows, watchdog>> \/ (Marked(r, "running") /\ UNCHANGED <<began, watchdog>>)
      BY <2>4 DEF Start
    <3> QED BY <1>1, <2>2, <3>1, MarkedTurns DEF Shaped
  <2>5. CASE ApplyAction(j)
    <3>1. PICK s \in {"waiting", "escalated"} : Marked(r, s)
      BY <2>5 DEF ApplyAction
    <3>2. s \notin {"none", "failed"} /\ UNCHANGED <<began, watchdog>>
      BY <2>5 DEF ApplyAction
    <3> QED BY <2>2, <3>1, <3>2, MarkedTurns DEF Shaped
  <2>6. CASE SayRouted(j)
    <3>1. \/ UNCHANGED <<status, began, watchdog>>
          \/ \E s \in {"waiting", "escalated"} : Marked(r, s) /\ UNCHANGED <<began, watchdog>>
      BY <2>6 DEF SayRouted
    <3>2. CASE UNCHANGED <<status, began, watchdog>>
      BY <3>2 DEF Shaped, Stays, watchdog
    <3>3. CASE \E s \in {"waiting", "escalated"} : Marked(r, s) /\ UNCHANGED <<began, watchdog>>
      <4>1. PICK s \in {"waiting", "escalated"} : Marked(r, s)
        BY <3>3
      <4>2. s \notin {"none", "failed"}
        OBVIOUS
      <4> QED BY <2>2, <3>3, <4>1, <4>2, MarkedTurns DEF Shaped
    <3> QED BY <3>1, <3>2, <3>3
  <2>7. CASE Mark(j)
    <3>1. \/ Marked(r, "completed") /\ UNCHANGED <<began, watchdog>>
          \/ Marked(r, "skipped") /\ UNCHANGED <<began, watchdog>>
          \/ MarkFailed(j) /\ UNCHANGED <<began, alerts>>
          \/ UNCHANGED <<status, began, watchdog>>
      BY <2>7 DEF Mark, watchdog
    <3>2. CASE MarkFailed(j) /\ UNCHANGED <<began, alerts>>
      BY <2>2, <3>2, MarkFailedShaped
    <3>3. CASE UNCHANGED <<status, began, watchdog>>
      BY <3>3 DEF Shaped, Stays, watchdog
    <3> QED BY <2>2, <3>1, <3>2, <3>3, MarkedTurns DEF Shaped
  <2>8. CASE VerificationFails(j)
    BY <2>2, <2>8, MarkFailedShaped DEF VerificationFails
  <2>9. CASE Watch(j)
    BY <1>1, <2>2, <2>9 DEF Watch, Shaped, Looks, rows, watchdog
  <2>10. CASE CommandEnds(j) \/ Preflight(j) \/ BudgetGate(j) \/ LoopEnds(j) \/ StepEnds(j)
              \/ Say(j) \/ OutputMissing(j) \/ Pause(j)
    BY <2>10 DEF CommandEnds, Preflight, BudgetGate, LoopEnds, StepEnds, Say, OutputMissing, Pause,
           Shaped, Stays, rows, watchdog
  <2> QED BY <1>2, <2>3, <2>4, <2>5, <2>6, <2>7, <2>8, <2>9, <2>10 DEF Proceed
<1>3. ASSUME NEW r \in Run, SweepRun(r) PROVE Shaped
  <2>1. UNCHANGED began
    BY <1>3 DEF SweepRun
  <2>2. CASE Marked(r, "failed") /\ CheckFailureStreak(r, status')
    <3>1. CASE status[r] # "none" /\ status' = [status EXCEPT ![r] = "failed"]
      BY <2>1, <2>2, <3>1 DEF Shaped, FailsAndLooks
    <3>2. CASE status' = status
      <4>1. CheckFailureStreak(r, status)
        BY <2>2, <3>2
      <4> QED BY <2>1, <3>2, <4>1 DEF Shaped, Looks
    <3> QED BY <2>2, <3>1, <3>2, MarkedFails
  <2>3. CASE Marked(r, "failed") /\ unchecked' = unchecked \union {r} /\ UNCHANGED alerts
    BY <2>1, <2>3, MarkedFails DEF Shaped, Fails, Stays
  <2>4. CASE UNCHANGED <<status, watchdog>>
    BY <2>1, <2>4 DEF Shaped, Stays, watchdog
  <2> QED BY <1>3, <2>2, <2>3, <2>4 DEF SweepRun
<1>4. ASSUME NEW S, Cancelled(S), UNCHANGED <<began, watchdog>> PROVE Shaped
  BY <1>4 DEF Cancelled, Shaped, Turns
<1>5. CASE Boot \/ Reap
  <2>1. \/ UNCHANGED <<status, began, watchdog>>
        \/ \E S : Cancelled(S) /\ UNCHANGED <<began, watchdog>>
    BY <1>5 DEF Boot, Reap
  <2> QED BY <1>4, <2>1 DEF Shaped, Stays, watchdog
<1>6. CASE \/ \E j \in Job : PickUp(j) \/ Stalled(j) \/ Heartbeat(j)
           \/ \E r \in Run : Elapse(r)
           \/ Crash \/ Shutdown \/ DrainEnds \/ Exit \/ UNCHANGED vars
  BY <1>6 DEF PickUp, Stalled, Heartbeat, Elapse, Crash, Shutdown, DrainEnds, Exit, vars,
         Shaped, Stays, rows, watchdog
<1> QED BY <1>2, <1>3, <1>5, <1>6 DEF Next, Observed

\* Every run that has a row has one place.
LEMMA PlacesStep ==
  ASSUME TypeInv, Places, Shaped
  PROVE  Places'
<1>1. status \in [Run -> Status] /\ began \in Seq(Run) /\ Len(began) \in Nat
  BY DEF TypeInv, RowsInv
<1>2. CASE UNCHANGED <<status, began>>
  BY <1>2 DEF Places, Injected
<1>3. CASE Turns
  BY <1>3 DEF Places, Injected, Turns
<1>4. ASSUME NEW r \in Run, Creates(r) PROVE Places'
  <2>1. /\ began' \in Seq(Run) /\ DOMAIN began' = 1 .. Len(began) + 1 /\ DOMAIN began = 1 .. Len(began)
        /\ \A i \in 1 .. Len(began) : began'[i] = began[i]
        /\ began'[Len(began) + 1] = r
    BY <1>1, <1>4 DEF Creates
  <2>2. \A i \in 1 .. Len(began) : began[i] # r
    BY <1>4, <2>1 DEF Creates, Places
  <2>3. Injected(began')
    <3> SUFFICES ASSUME NEW i \in DOMAIN began', NEW k \in DOMAIN began', began'[i] = began'[k] PROVE i = k
      BY DEF Injected
    <3> QED BY <1>1, <2>1, <2>2 DEF Places, Injected
  <2>4. ASSUME NEW q \in Run PROVE status'[q] # "none" <=> \E i \in DOMAIN began' : began'[i] = q
    <3>1. CASE q = r
      BY <1>1, <1>4, <2>1, <3>1 DEF Creates
    <3>2. CASE q # r
      <4>1. status'[q] = status[q]
        BY <1>1, <1>4, <3>2 DEF Creates
      <4>2. status[q] # "none" <=> \E i \in DOMAIN began : began[i] = q
        BY DEF Places
      <4>3. \A i \in DOMAIN began' : i = Len(began) + 1 \/ i \in DOMAIN began
        BY <1>1, <2>1
      <4>4. \A i \in DOMAIN began : i \in DOMAIN began'
        BY <1>1, <2>1
      <4> QED BY <2>1, <3>2, <4>1, <4>2, <4>3, <4>4
    <3> QED BY <3>1, <3>2
  <2> QED BY <2>3, <2>4 DEF Places
<1>5. ASSUME NEW r \in Run, status[r] # "none", status' = [status EXCEPT ![r] = "failed"], UNCHANGED began
      PROVE  Places'
  BY <1>1, <1>5 DEF Places, Injected
<1> QED BY <1>2, <1>3, <1>4, <1>5 DEF Shaped, Stays, Fails, Looks, FailsAndLooks

\* A step in order keeps the streak alerted.
LEMMA AlertedStep ==
  ASSUME TypeInv, Places, Shaped, InOrder(began, status, status', unchecked),
         Alerted(began, status, alerts, unchecked)
  PROVE  Alerted(began', status', alerts', unchecked')
<1>1. status \in [Run -> Status] /\ began \in Seq(Run) /\ Len(began) \in Nat /\ Injected(began)
      /\ \A i \in DOMAIN began : began[i] \in Run
  BY DEF TypeInv, RowsInv, Places
<1>2. alerts \in SUBSET Run
  BY DEF TypeInv, ProcessInv
<1>3. CASE Stays
  <2>1. status' = status /\ began' = began /\ alerts' = alerts /\ unchecked \subseteq unchecked'
    BY <1>3 DEF Stays
  <2>2. Alerted(began, status, alerts, unchecked')
    BY <1>1, <2>1, AlertedSame
  <2> QED BY <2>1, <2>2
<1>4. CASE Turns
  <2>1. \A i \in DOMAIN began : status'[began[i]] = "failed" => status[began[i]] = "failed"
    BY <1>1, <1>4 DEF Turns
  <2>2. \A a \in alerts : status[a] = "failed" => \E i \in DOMAIN began : began[i] = a
    BY <1>2 DEF Places
  <2>3. Alerted(began, status', alerts, unchecked)
    BY <1>1, <2>1, <2>2, AlertedOver
  <2> QED BY <1>4, <2>3 DEF Turns, watchdog
<1>5. ASSUME NEW r \in Run, Creates(r) PROVE Alerted(began', status', alerts', unchecked')
  <2>1. /\ DOMAIN began' = 1 .. Len(began) + 1 /\ DOMAIN began = 1 .. Len(began)
        /\ \A i \in 1 .. Len(began) : began'[i] = began[i]
        /\ began'[Len(began) + 1] = r
        /\ status' = [status EXCEPT ![r] = "running"] /\ status[r] = "none"
    BY <1>1, <1>5 DEF Creates
  <2>2. \A i \in 1 .. Len(began) : began[i] # r
    BY <2>1 DEF Places
  <2>3. \A i \in 1 .. Len(began) : status'[began'[i]] = status[began[i]]
    BY <1>1, <2>1, <2>2
  <2>4. status'[began'[Len(began) + 1]] \notin Counted
    BY <1>1, <2>1 DEF Counted
  <2>5. EndsOf(began', status') = EndsOf(began, status)
    <3>1. 1 .. Len(began) + 1 = (1 .. Len(began)) \union {Len(began) + 1}
      BY <1>1
    <3> QED BY <2>1, <2>3, <2>4, <3>1 DEF EndsOf
  <2>6. \A i \in EndsOf(began, status) : began'[i] = began[i] /\ status'[began'[i]] = status[began[i]]
    BY <2>1, <2>3 DEF EndsOf
  <2>7. \A a \in alerts : status[a] = "failed" => status'[a] = "failed"
    BY <1>1, <1>2, <2>1
  <2>8. Alerted(began', status', alerts, unchecked)
    BY <1>1, <2>5, <2>6, <2>7, AlertedSame
  <2> QED BY <1>5, <2>8 DEF Creates, watchdog
<1>6. ASSUME NEW r \in Run, status[r] # "none", status' = [status EXCEPT ![r] = "failed"],
             UNCHANGED began
      PROVE  /\ Alerted(began, status', alerts, unchecked \union {r})
             /\ status[r] # "failed" => unchecked = {}
  <2>1. CASE status[r] = "failed"
    <3>1. status' = status
      BY <1>1, <1>6, <2>1
    <3> QED BY <1>1, <2>1, <3>1, AlertedSame
  <2>2. CASE status[r] # "failed"
    <3>1. PICK n \in DOMAIN began : began[n] = r
      BY <1>6 DEF Places
    <3>2. status'[began[n]] = "failed" /\ status[began[n]] # "failed"
      BY <1>1, <1>6, <2>2, <3>1
    <3>3. \A i \in DOMAIN began : began[i] # began[n] => status'[began[i]] = status[began[i]]
      BY <1>1, <1>6, <3>1
    <3>4. \A a \in alerts : a # began[n] => status'[a] = status[a]
      BY <1>1, <1>2, <1>6, <3>1
    <3>5. Alerted(began, status', alerts, unchecked \union {began[n]})
      BY <1>1, <3>2, <3>3, <3>4, AlertedFails
    <3>6. unchecked = {}
      BY <3>2 DEF InOrder
    <3> QED BY <3>1, <3>5, <3>6
  <2> QED BY <2>1, <2>2
<1>7. ASSUME NEW r \in Run, Fails(r) PROVE Alerted(began', status', alerts', unchecked')
  BY <1>6, <1>7 DEF Fails
<1>8. ASSUME NEW r, NEW T, NEW U, CheckFailureStreak(r, T), Alerted(began, T, alerts, U)
      PROVE  Alerted(began, T, alerts', U \ {r})
  BY <1>1, <1>8, AlertedChecked DEF CheckFailureStreak
<1>9. ASSUME NEW r \in Run, Looks(r) PROVE Alerted(began', status', alerts', unchecked')
  <2>1. Alerted(began, status, alerts', unchecked \ {r})
    BY <1>8, <1>9 DEF Looks
  <2> QED BY <1>9, <2>1 DEF Looks, CheckFailureStreak
<1>10. ASSUME NEW r \in Run, FailsAndLooks(r) PROVE Alerted(began', status', alerts', unchecked')
  <2>1. Alerted(began, status', alerts, unchecked \union {r}) /\ CheckFailureStreak(r, status')
    BY <1>6, <1>10 DEF FailsAndLooks
  <2>2. Alerted(began, status', alerts', (unchecked \union {r}) \ {r})
    BY <1>8, <2>1
  <2>3. (unchecked \union {r}) \ {r} = unchecked \ {r}
    OBVIOUS
  <2> QED BY <1>10, <2>1, <2>2, <2>3 DEF FailsAndLooks, CheckFailureStreak
<1> QED BY <1>3, <1>4, <1>5, <1>7, <1>9, <1>10 DEF Shaped

\* No step of the system that disturbs nothing breaks the order.
LEMMA NextInOrder ==
  ASSUME TypeInv, [Next]_vars, ~disturbed'
  PROVE  ~disturbed /\ InOrder(began, status, status', unchecked)
<1>1. CASE UNCHANGED vars
  BY <1>1 DEF vars, rows, InOrder
<1>2. CASE Next
  <2>1. ~disturbed /\ ~Disturbs
    BY <1>2 DEF Next, Observed
  <2>2. began \in Seq(Run) /\ Len(began) \in Nat /\ DOMAIN began = 1 .. Len(began)
    BY DEF TypeInv, RowsInv
  <2>3. \A i, k \in DOMAIN began : k > i => k \in i + 1 .. Len(began)
    BY <2>2
  <2> QED BY <2>1, <2>3 DEF Disturbs, InOrder
<1> QED BY <1>1, <1>2

\* The alerts are in order in every behaviour.
LEMMA AlertAlways == Spec => []AlertInv
<1>1. Init => AlertInv
  <2> SUFFICES ASSUME Init PROVE AlertInv
    OBVIOUS
  <2>1. began = <<>> /\ alerts = {} /\ DOMAIN began = {} /\ \A r \in Run : status[r] = "none"
    BY DEF Init
  <2>2. Places
    BY <2>1 DEF Places, Injected
  <2>3. StreakOf(began, status) = {}
    BY <2>1 DEF StreakOf, FailingEnd, EndsOf
  <2>4. Cardinality(StreakOf(began, status)) = 0 /\ ~(0 >= Threshold)
    BY <2>3, FS_EmptySet, RunLifecycleAssumption
  <2>5. Alerted(began, status, alerts, unchecked)
    BY <2>1, <2>3, <2>4 DEF Alerted
  <2> QED BY <2>2, <2>5 DEF AlertInv
<1>2. TypeInv /\ AlertInv /\ [Next]_vars => AlertInv'
  <2> SUFFICES ASSUME TypeInv, AlertInv, [Next]_vars PROVE AlertInv'
    OBVIOUS
  <2>1. Shaped
    BY NextShaped
  <2>2. Places'
    BY <2>1, PlacesStep DEF AlertInv
  <2>3. ASSUME ~disturbed' PROVE Alerted(began', status', alerts', unchecked')
    BY <2>1, <2>3, NextInOrder, AlertedStep DEF AlertInv
  <2> QED BY <2>2, <2>3 DEF AlertInv
<1> QED BY <1>1, <1>2, TypeAlways, PTL DEF Spec

\* "Alert fires exactly once per streak": of the runs that failed one after the other the first
\* is alerted, and none of the others.
THEOREM AlertsStaySingle == Spec => []OneAlertPerStreak
<1>1. TypeInv /\ AlertInv => OneAlertPerStreak
  <2> SUFFICES ASSUME TypeInv, AlertInv, ~disturbed, Cardinality(Streak) >= Threshold,
                      Streak \intersect unchecked = {}
               PROVE  Cardinality(alerts \intersect Streak) = 1
    BY DEF OneAlertPerStreak
  <2> DEFINE S == StreakOf(began, status)
  <2>1. began \in Seq(Run) /\ Threshold \in Nat
    BY RunLifecycleAssumption DEF TypeInv, RowsInv
  <2>2. Streak = {began[i] : i \in S}
    BY DEF Streak, StreakOf, FailingEnd, EndsOf, FailuresOf
  <2>3. IsFiniteSet(S) /\ Cardinality(S) \in Nat /\ S \in SUBSET Nat
    BY <2>1, StreakType
  <2>4. Alerted(began, status, alerts, unchecked)
    BY DEF AlertInv
  <2>5. Cardinality(S) >= Threshold
    <3>1. [i \in S |-> began[i]] \in Surjection(S, Streak)
      BY <2>2 DEF Surjection
    <3> HIDE DEF S
    <3>2. IsFiniteSet(Streak) /\ Cardinality(Streak) <= Cardinality(S) /\ Cardinality(Streak) \in Nat
      BY <2>3, <3>1, FS_Surjection, FS_CardinalityType
    <3> QED BY <2>1, <2>3, <3>2
  <2>6. PICK m \in S : began[m] \in alerts
    <3> HIDE DEF S
    <3>1. \A i \in S : began[i] \notin unchecked
      BY <2>2
    <3>2. (\E i \in S : began[i] \in alerts) \/ \E i \in S : began[i] \in unchecked
      BY <2>4, <2>5 DEF Alerted, S
    <3> QED BY <3>1, <3>2
  <2>7. \A i \in S : began[i] \in alerts => \A k \in S : i <= k
    BY <2>4 DEF Alerted
  <2> HIDE DEF S
  <2>8. \A i \in S : began[i] \in alerts => i = m
    BY <2>3, <2>6, <2>7
  <2>9. alerts \intersect Streak = {began[m]}
    BY <2>2, <2>6, <2>8
  <2> QED BY <2>9, FS_Singleton
<1> QED BY <1>1, AlertAlways, TypeAlways, PTL

=============================================================================
