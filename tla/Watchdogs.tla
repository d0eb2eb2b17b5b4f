------------------------------ MODULE Watchdogs ------------------------------
(***************************************************************************)
(* The watchdogs of a worker: tasks/scheduler-watchdog.ts looks for a cron *)
(* trigger that should have fired, tasks/output-staleness-watchdog.ts for  *)
(* an output that is silent, tasks/health-monitor.ts for what ails the     *)
(* workspace, which it tells through notifications.ts.                     *)
(*                                                                         *)
(* Time is counted in five minutes, the interval of the first and the      *)
(* last. A timer that is due runs before the clock goes on. What a         *)
(* watchdog cannot be blamed for - a call that fails or takes overlong, a  *)
(* crash, each interval that the worker is down - is counted in trouble.   *)
(***************************************************************************)
EXTENDS Integers, Sequences, FiniteSets

CONSTANTS
  Period, Grace,          \* of the cron pattern; NEXAAS_SCHEDULER_WATCHDOG_GRACE_MULT
  MaxSilence,             \* max_silence of the output
  OutputInterval,         \* of the output watchdog
  CriticalWindow, WarningWindow,  \* dedupeWindowMinutes
  MaxTime,                \* bound on the clock
  MaxTrouble              \* bound on faults

ASSUME WatchdogsAssumption ==
  {Period, Grace, MaxSilence, OutputInterval, CriticalWindow, WarningWindow} \subseteq Nat \ {0}

VARIABLES
  now,
  serving,       \* the worker is there
  watched,       \* the loops that are followed: those with a channel role, or the health
                 \* monitor, which shares nothing with them; never changes
  due,           \* due[loop]: the next tick of its timer
  polling,       \* loops between what they read and what they write
  found,         \* found[loop]: what the poll has read
  next,          \* `next` of the cron's scheduler, or NoNext
  fired,         \* history: <<scheduled, fired>>
  produced,      \* when the output was last produced, or Never
  posted,        \* idempotency keys of the alerts in notifications.pending
  world,         \* what the health check finds
  recent,        \* recentNotifications[status]: when a message was last tried
  told,          \* history: when it last reached somebody
  sick,          \* history: since when the status has been what it is
  trouble        \* history: faults

cronVars == <<next, fired>>
outputVars == <<produced, posted>>
healthVars == <<world, recent, told, sick>>
loopVars == <<due, polling, found>>
watchVars == <<now, serving, watched, loopVars, cronVars, outputVars, healthVars, trouble>>

Loops == {"cron", "output", "health"}
Interval(w) == IF w = "output" THEN OutputInterval ELSE 1
NoNext == -1
Never == -10
NextFire == Period * (now \div Period + 1)

Well == [results |-> <<>>, silent |-> "no", api |-> "ok", redis |-> TRUE, budget |-> "none",
         short |-> FALSE, postgres |-> TRUE]
\* classifyStaleSkill: a skill that is retired, driven by events or not due yet is silent by design.
Verdicts == {"retired", "event-driven", "on schedule", "missed", "unknown"}
BenignVerdicts == {"retired", "event-driven", "on schedule"}

\* Situations of a workspace; results are those of a skill's runs, the latest first, and
\* silent is the verdict on a skill that has not run lately.
Worlds ==
  {Well,
   [Well EXCEPT !.results = <<"failed", "failed", "failed", "completed", "completed">>],
   [Well EXCEPT !.silent = "missed", !.api = "no network"],
   [Well EXCEPT !.silent = "on schedule", !.api = "refused", !.short = TRUE],
   [Well EXCEPT !.budget = "paused"],
   [Well EXCEPT !.budget = "near",
                !.results = <<"failed", "failed", "completed", "completed", "completed", "completed">>],
   [Well EXCEPT !.redis = FALSE, !.postgres = FALSE]}

Failed(results) == Cardinality({i \in DOMAIN results : results[i] = "failed"})

\* Fewer than 80 in 100 runs of the last hour succeeded, of more than five.
SuccessRate == IF Len(world.results) > 5 /\ 5 * Failed(world.results) > Len(world.results)
               THEN {"warning"} ELSE {}

\* Three or more failures among a skill's last five runs, consecutive or not.
ConsecutiveFailures ==
  IF Failed(SubSeq(world.results, 1, IF Len(world.results) < 5 THEN Len(world.results) ELSE 5)) >= 3
  THEN {"critical"} ELSE {}

StaleSkills == IF world.silent \in Verdicts \ BenignVerdicts THEN {"warning"} ELSE {}

ApiCredit ==
  CASE world.api = "refused" -> {"critical"} [] world.api = "no network" -> {"warning"} [] OTHER -> {}
Redis == IF world.redis THEN {} ELSE {"critical"}
SpendBudget ==
  CASE world.budget = "paused" -> {"critical"} [] world.budget = "near" -> {"warning"} [] OTHER -> {}
SystemResources == IF world.short THEN {"warning"} ELSE {}

Alerts == SuccessRate \union ConsecutiveFailures \union StaleSkills \union ApiCredit \union Redis
          \union SpendBudget \union SystemResources

\* overallStatus
Status == CASE "critical" \in Alerts -> "critical" [] Alerts = {} -> "healthy" [] OTHER -> "degraded"
DedupeWindow(s) == IF s = "critical" THEN CriticalWindow ELSE WarningWindow

WatchdogsInit ==
  /\ now = 0 /\ serving = TRUE /\ watched \in {{"cron", "output"}, {"output"}, {"health"}}
  /\ due = [w \in Loops |-> Interval(w)] /\ polling = {} /\ found = [w \in Loops |-> {}]
  /\ next = Period /\ fired = {} /\ produced \in {0, Never} /\ posted = {}
  /\ world = Well /\ recent = [s \in {"critical", "degraded"} |-> Never]
  /\ told = recent /\ sick = 0 /\ trouble = 0

\* What a call costs: nothing, or one of the bounded faults, when it fails.
Works == UNCHANGED trouble
Trouble == trouble < MaxTrouble /\ trouble' = trouble + 1

\* findOverdueCrons: late by more than Grace periods; a missing `next` counts as late by one.
OverdueCrons ==
  CASE next = NoNext -> {<<"cron", now - Period>>}
    [] next # NoNext /\ now - next > Grace * Period -> {<<"cron", next>>}
    [] OTHER -> {}

\* findStaleOutputs: the key is the last production.
StaleOutputs == IF produced = Never \/ now - produced > MaxSilence THEN {<<"output", produced>>} ELSE {}

\* A tick is skipped while the poll before it goes on.
Tick(w) == serving /\ w \in watched /\ due[w] <= now /\ due' = [due EXCEPT ![w] = now + Interval(w)]

Poll(w, keys) ==
  /\ Tick(w)
  /\ IF w \in polling
     THEN UNCHANGED <<polling, found, trouble>>
     ELSE \/ /\ Works /\ found' = [found EXCEPT ![w] = keys]
             /\ polling' = IF keys = {} THEN polling ELSE polling \union {w}
          \/ /\ Trouble /\ UNCHANGED <<polling, found>>
  /\ UNCHANGED <<now, serving, watched, cronVars, outputVars, healthVars>>

\* One drawer for each key; one that cannot be written is left to the next poll.
Emit(w) ==
  /\ serving /\ w \in polling /\ polling' = polling \ {w}
  /\ \/ Works /\ posted' = posted \union found[w]
     \/ Trouble /\ UNCHANGED posted
  /\ found' = [found EXCEPT ![w] = {}]
  /\ UNCHANGED <<now, serving, watched, due, cronVars, produced, healthVars>>

CheckSchedulerHealth == Poll("cron", OverdueCrons)
EmitOverdueAlerts == Emit("cron")
CheckOutputStaleness == Poll("output", StaleOutputs)
EmitStaleAlerts == Emit("output")

\* runHealthCheck: it throws, and tells nobody, without Postgres.
RunHealthCheck ==
  /\ Tick("health")
  /\ \/ /\ Works /\ world.postgres
        /\ found' = [found EXCEPT !["health"] = {Status}]
        /\ polling' = polling \union {"health"}
     \/ /\ Works /\ ~world.postgres /\ UNCHANGED <<polling, found>>
     \/ /\ Trouble /\ UNCHANGED <<polling, found>>
  /\ UNCHANGED <<now, serving, watched, cronVars, outputVars, healthVars>>

IsDuplicateForever(s) == recent[s] # Never
\* isDuplicate
IsDuplicate(s) == recent[s] # Never /\ now - recent[s] < DedupeWindow(s)

\* notify: the key is set first; each channel of the severity is tried.
Notify(s) ==
  IF s = "healthy" \/ IsDuplicate(s)
  THEN UNCHANGED <<recent, told, trouble>>
  ELSE /\ recent' = [recent EXCEPT ![s] = now]
       /\ \/ Works /\ told' = [told EXCEPT ![s] = now]
          \/ Trouble /\ UNCHANGED told

\* runAndRecord, then sendAlerts: what cannot be recorded is not told.
RecordAndSendAlerts ==
  /\ serving /\ "health" \in polling /\ polling' = polling \ {"health"}
  /\ \/ \E s \in found["health"] : Notify(s)
     \/ Trouble /\ UNCHANGED <<recent, told>>
  /\ found' = [found EXCEPT !["health"] = {}]
  /\ UNCHANGED <<now, serving, watched, due, cronVars, outputVars, world, sick>>

\* The scheduler fires, sooner or later or never, and its skill may produce its output.
Fires ==
  /\ serving /\ next # NoNext /\ next <= now /\ "output" \in watched
  /\ fired' = fired \union {<<next, now>>} /\ next' = NextFire
  /\ produced' \in {produced, now}
  /\ UNCHANGED <<now, serving, watched, loopVars, posted, healthVars, trouble>>

LosesNext ==
  /\ next # NoNext /\ "cron" \in watched /\ Trouble /\ next' = NoNext
  /\ UNCHANGED <<now, serving, watched, loopVars, fired, outputVars, healthVars>>

\* The workspace gets well or ill.
WorldChanges ==
  /\ "health" \in watched /\ world' \in Worlds \ {world}
  /\ sick' = IF Status' = Status /\ world'.postgres = world.postgres THEN sick ELSE now
  /\ UNCHANGED <<now, serving, watched, loopVars, cronVars, outputVars, recent, told, trouble>>

Crashes ==
  /\ serving /\ Trouble /\ serving' = FALSE /\ polling' = {}
  /\ found' = [w \in Loops |-> {}] /\ recent' = [s \in DOMAIN recent |-> Never]
  /\ UNCHANGED <<now, watched, due, cronVars, outputVars, world, told, sick>>

\* The timers start again; so do the schedulers.
Restarts ==
  /\ ~serving /\ serving' = TRUE
  /\ due' = [w \in Loops |-> now + Interval(w)]
  /\ next' = IF next = NoNext THEN NextFire ELSE next
  /\ UNCHANGED <<now, watched, polling, found, fired, outputVars, healthVars, trouble>>

Clock ==
  /\ now < MaxTime /\ now' = now + 1
  /\ serving => \A w \in watched : due[w] > now
  /\ IF serving /\ polling = {} THEN Works ELSE Trouble
  /\ UNCHANGED <<serving, watched, loopVars, cronVars, outputVars, healthVars>>

WatchdogsNext ==
  \/ CheckSchedulerHealth \/ EmitOverdueAlerts \/ CheckOutputStaleness \/ EmitStaleAlerts
  \/ RunHealthCheck \/ RecordAndSendAlerts
  \/ Fires \/ LosesNext \/ WorldChanges \/ Crashes \/ Restarts \/ Clock

(* The watchdogs keep their word. A firing that was missed, an output that *)
(* is silent and a workspace that stays ill are told within an interval,   *)
(* and one more for each fault, of the moment that makes them overdue,     *)
(* unless Postgres is down; what was told before the workspace fell ill    *)
(* does not count, it only silences for its window.  No firing is reported *)
(* late that was not, as long as nothing fails (scheduler-                 *)
(* watchdog.ts:10-17, 25-28, output-staleness-watchdog.ts:30-33, health-   *)
(* monitor.ts:1-18).                                                       *)
TroubleIsReported ==
  /\ "cron" \in watched /\ next # NoNext /\ now - next > Grace * Period + 1 + trouble
       => <<"cron", next>> \in posted
  /\ "output" \in watched /\ produced # Never /\ now - produced > MaxSilence + OutputInterval * (1 + trouble)
       => <<"output", produced>> \in posted
  /\ LET s == Status IN
     s # "healthy" /\ "health" \in watched /\ world.postgres /\ now - sick > (1 + DedupeWindow(s)) * (1 + trouble)
       => told[s] >= sick
  /\ \A k \in posted : k[1] = "cron" /\ trouble = 0 =>
       \/ k[2] = next
       \/ \E f \in fired : f[1] = k[2] /\ f[2] - f[1] > Grace * Period
=============================================================================
