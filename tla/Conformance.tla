----------------------------- MODULE Conformance -----------------------------
(***************************************************************************)
(* The conformance suite (cli/src/conformance.ts), whose exit code decides *)
(* whether an upgrade is rolled back, next to the live worker it probes:   *)
(* the worker takes jobs from the queue in their order, its reaper and its *)
(* matcher run beside it, the queue may be paused and the worker may die.  *)
(*                                                                         *)
(* Time is counted in polls of the suite.                                  *)
(***************************************************************************)
EXTENDS Integers, Sequences, FiniteSets

CONSTANTS
  Window,        \* SHELL_ROUNDTRIP_TIMEOUT_MS: polls in a liveness window
  HardCap,       \* SHELL_ROUNDTRIP_HARD_CAP_MS in polls
  MaxBacklog,    \* bound on jobs of others in the queue
  MaxUpsets      \* bound on pauses and deaths of the worker, overlong and failing jobs

ASSUME ConformanceAssumption ==
  /\ {Window, HardCap, MaxBacklog, MaxUpsets} \subseteq Nat
  /\ 1 < Window /\ Window < HardCap

VARIABLES
  at,            \* the check that the suite is in
  verdict,       \* verdict[check]: pass, fail, skip, or none yet
  broken,        \* what is wrong with the installation itself; never changes
  line, active,  \* the queue, and the job that the worker has: "probe" and "other"
  age,           \* polls that the active job has run
  probeRun,      \* skill_runs of the probe
  waited,        \* polls since the probe was added
  inWindow, othersDone,  \* polls of this window, and runs of others that ended in it
  expired,       \* the synthetic expired waitpoint, and its alerts
  match,         \* the inbound-match waitpoint of the suite
  up, held,      \* the worker is there; its queue is paused
  upsets,        \* history: pauses, deaths, overlong and failing jobs so far
  reaped         \* history: the worker's reaper took the synthetic waitpoint

suiteVars == <<at, verdict, waited, inWindow, othersDone>>
queueVars == <<line, active, age, probeRun>>
waitpointVars == <<expired, match, reaped>>
workerVars == <<up, held, upsets>>
conformanceVars == <<suiteVars, queueVars, waitpointVars, workerVars, broken>>

Static == {"palace-schema", "migration-state", "wal-chain", "secrets-hygiene", "ai-pillar"}
Checks == Static \union {"worker-health", "waitpoint-expiry", "shell-roundtrip", "waitpoint-roundtrip"}

ConformanceInit ==
  /\ at = "infra" /\ verdict = [c \in Checks |-> "none"]
  /\ broken \in {{}, {"wal-chain"}, {"ai-pillar"}}
  /\ line = <<>> /\ active = "none" /\ age = 0 /\ probeRun = "none"
  /\ waited = 0 /\ inWindow = 0 /\ othersDone = 0
  /\ expired = [there |-> FALSE, handled |-> FALSE, alerts |-> 0, taken |-> FALSE]
  /\ match = "none" /\ reaped = FALSE
  /\ up = TRUE /\ held = FALSE /\ upsets = 0

Others == {i \in DOMAIN line : line[i] = "other"}

\* A check that throws has failed.
Judge(c, v) == verdict' = [verdict EXCEPT ![c] = v]
StaticVerdict(c) == IF c \in broken THEN "fail" ELSE "pass"

\* The checks of schema, worker, migrations, audit log and secrets.
InfraChecks ==
  /\ at = "infra" /\ at' = "expiry"
  /\ verdict' = [c \in Checks |->
       CASE c = "worker-health" -> IF up THEN "pass" ELSE "fail"
         [] c \in Static \ {"ai-pillar"} -> StaticVerdict(c)
         [] OTHER -> "none"]
  /\ UNCHANGED <<waited, inWindow, othersDone, queueVars, waitpointVars, workerVars, broken>>

\* A waitpoint whose deadline has passed already.
CreateExpired ==
  /\ at = "expiry" /\ at' = "reap1" /\ expired' = [expired EXCEPT !.there = TRUE]
  /\ UNCHANGED <<verdict, waited, inWindow, othersDone, queueVars, match, reaped, workerVars, broken>>

\* Two runs of the reaper in the suite's own process: the first raises the alert and stamps.
SuiteReaps ==
  /\ at \in {"reap1", "reap2"} /\ at' = IF at = "reap1" THEN "reap2" ELSE "count"
  /\ expired' = IF expired.handled THEN expired
                ELSE [expired EXCEPT !.alerts = @ + 1, !.handled = TRUE]
  /\ UNCHANGED <<verdict, waited, inWindow, othersDone, queueVars, match, reaped, workerVars, broken>>

\* Exactly one alert is right; then the row and its alerts are removed.
CountAlerts ==
  /\ at = "count" /\ at' = "shell"
  /\ Judge("waitpoint-expiry", IF expired.alerts = 1 THEN "pass" ELSE "fail")
  /\ expired' = [expired EXCEPT !.there = FALSE, !.alerts = 0]
  /\ UNCHANGED <<waited, inWindow, othersDone, queueVars, match, reaped, workerVars, broken>>

\* The worker's reaper may have read the same row, and raises its alert afterwards.
WorkerReaps ==
  /\ up
  /\ \/ /\ expired.there /\ ~expired.handled /\ ~expired.taken
        /\ expired' = [expired EXCEPT !.taken = TRUE] /\ reaped' = TRUE
     \/ /\ expired.taken
        /\ expired' = [expired EXCEPT !.taken = FALSE, !.alerts = @ + 1, !.handled = expired.there]
        /\ UNCHANGED reaped
  /\ UNCHANGED <<suiteVars, queueVars, match, workerVars, broken>>

\* The probe joins the queue, if the worker has answered.
AddProbe ==
  /\ at = "shell"
  /\ IF verdict["worker-health"] = "pass"
     THEN at' = "poll" /\ line' = Append(line, "probe") /\ UNCHANGED verdict
     ELSE at' = "ai" /\ Judge("shell-roundtrip", "skip") /\ UNCHANGED line
  /\ UNCHANGED <<waited, inWindow, othersDone, active, age, probeRun, waitpointVars, workerVars, broken>>

GiveUpAtWindow == waited >= HardCap \/ inWindow >= Window
\* The hard cap, or a window in which no run of others ended.
GiveUp == waited >= HardCap \/ (inWindow >= Window /\ othersDone = 0)

Decided == probeRun \in {"completed", "failed"}

\* The probe's run is read; it has ended and decides ...
ReadProbe ==
  /\ at = "poll" /\ Decided /\ at' = "ai"
  /\ Judge("shell-roundtrip", IF probeRun = "completed" THEN "pass" ELSE "fail")
  /\ UNCHANGED <<waited, inWindow, othersDone, queueVars, waitpointVars, workerVars, broken>>

\* ... or it is given up, and its job, unless the worker has it, is taken from between the
\* others, of which one is like another ...
AbandonProbe ==
  /\ at = "poll" /\ ~Decided /\ GiveUp /\ at' = "ai"
  /\ Judge("shell-roundtrip", "fail")
  /\ line' = [i \in 1 .. Cardinality(Others) |-> "other"]
  /\ UNCHANGED <<waited, inWindow, othersDone, active, age, probeRun, waitpointVars, workerVars, broken>>

\* ... or it is waited for. A worker that can takes a job at once, and without a fault no
\* job runs for a whole window.
WaitForProbe ==
  /\ at = "poll" /\ ~Decided /\ ~GiveUp
  /\ active = "none" => line = <<>> \/ ~up \/ held
  /\ active # "none" => age < Window - 1 \/ upsets > 0
  /\ waited' = waited + 1 /\ age' = IF active = "none" \/ age = Window THEN age ELSE age + 1
  /\ IF inWindow >= Window
     THEN inWindow' = 1 /\ othersDone' = 0
     ELSE inWindow' = inWindow + 1 /\ UNCHANGED othersDone
  /\ UNCHANGED <<at, verdict, line, active, probeRun, waitpointVars, workerVars, broken>>

\* The worker at its queue; nothing is taken while the queue is paused.
TakeJob ==
  /\ up /\ ~held /\ active = "none" /\ line # <<>>
  /\ active' = Head(line) /\ line' = Tail(line) /\ age' = 0
  /\ probeRun' = IF active' = "probe" THEN "running" ELSE probeRun
  /\ UNCHANGED <<suiteVars, waitpointVars, workerVars, broken>>

JobEnds ==
  /\ up /\ active # "none" /\ active' = "none" /\ age' = 0
  /\ \/ /\ probeRun' = IF active = "probe" THEN "completed" ELSE probeRun
        /\ UNCHANGED upsets
     \/ /\ active = "probe" /\ probeRun' = "failed"
        /\ upsets < MaxUpsets /\ upsets' = upsets + 1
  /\ othersDone' = IF active = "other" /\ at = "poll" THEN 1 ELSE othersDone
  /\ UNCHANGED <<at, verdict, waited, inWindow, line, waitpointVars, up, held, broken>>

\* Others put work before the probe and behind it.
OtherJob ==
  /\ at \in {"infra", "poll"}
  /\ Cardinality(Others) < MaxBacklog
  /\ line' = Append(line, "other")
  /\ UNCHANGED <<suiteVars, active, age, probeRun, waitpointVars, workerVars, broken>>

\* The queue is paused for a budget or a 429, the worker dies, or a job takes overlong.
Upset ==
  /\ upsets < MaxUpsets /\ upsets' = upsets + 1
  /\ \/ held' = TRUE /\ UNCHANGED <<up, active>>
     \/ up' = FALSE /\ active' = "none" /\ UNCHANGED held
     \/ active # "none" /\ UNCHANGED <<up, held, active>>
  /\ UNCHANGED <<suiteVars, line, age, probeRun, waitpointVars, broken>>

\* The queue goes on, or the worker comes back and fails the runs that it had.
Recover ==
  /\ ~up \/ held
  /\ up' = TRUE /\ held' = FALSE
  /\ probeRun' = IF ~up /\ probeRun = "running" THEN "failed" ELSE probeRun
  /\ UNCHANGED <<suiteVars, line, active, age, waitpointVars, upsets, broken>>

\* A skill run in the suite's own process, against a mock of the model's API.
AiPillar ==
  /\ at = "ai" /\ at' = "match" /\ Judge("ai-pillar", StaticVerdict("ai-pillar"))
  /\ UNCHANGED <<waited, inWindow, othersDone, queueVars, waitpointVars, workerVars, broken>>

\* Over the worker's API: a waitpoint, and the message that it waits for.
RegisterMatch ==
  /\ at = "match"
  /\ LET known == verdict["worker-health"] = "pass" IN
     /\ at' = IF known /\ up THEN "matching" ELSE "end"
     /\ match' = IF known /\ up THEN "pending" ELSE match
     /\ verdict' = IF known /\ up THEN verdict
                   ELSE [verdict EXCEPT !["waitpoint-roundtrip"] = IF known THEN "fail" ELSE "skip"]
  /\ UNCHANGED <<waited, inWindow, othersDone, queueVars, expired, reaped, workerVars, broken>>

\* The matcher polls every second; without a fault it is done long before WAITPOINT_TIMEOUT_MS.
Matcher ==
  /\ up /\ match = "pending" /\ match' = "resolved"
  /\ UNCHANGED <<suiteVars, queueVars, expired, reaped, workerVars, broken>>

PollMatch ==
  /\ at = "matching" /\ at' = "cancel"
  /\ \/ up /\ match = "resolved" /\ Judge("waitpoint-roundtrip", "pass")
     \/ /\ ~up \/ (match = "pending" /\ upsets > 0)
        /\ Judge("waitpoint-roundtrip", "fail")
  /\ UNCHANGED <<waited, inWindow, othersDone, queueVars, waitpointVars, workerVars, broken>>

\* The waitpoint is cancelled through the worker, if that answers.
CancelMatch ==
  /\ at = "cancel" /\ at' = "end"
  /\ match' = IF up /\ match = "pending" THEN "cancelled" ELSE match
  /\ UNCHANGED <<verdict, waited, inWindow, othersDone, queueVars, expired, reaped, workerVars, broken>>

SuiteStep ==
  \/ InfraChecks \/ CreateExpired \/ SuiteReaps \/ CountAlerts
  \/ AddProbe \/ ReadProbe \/ AbandonProbe \/ WaitForProbe
  \/ AiPillar \/ RegisterMatch \/ PollMatch \/ CancelMatch
WorkerStep == TakeJob \/ JobEnds \/ Matcher
ConformanceNext == SuiteStep \/ WorkerStep \/ WorkerReaps \/ OtherJob \/ Upset \/ Recover

ExitCode == IF \E c \in Checks : verdict[c] = "fail" THEN 1 ELSE 0

(* The suite rejects a release for a reason: the installation is broken,   *)
(* the worker was paused, died, hung or failed the probe, its reaper took  *)
(* the suite's own waitpoint, or the probe waited out the hard cap. Work   *)
(* of others ahead of the probe is no reason (#240). An accepted probe did *)
(* run, and the suite leaves behind no job, no waitpoint and no alert,     *)
(* unless an upset or that reaper did it.                                   *)
VerdictIsFair ==
  at = "end" =>
    /\ ExitCode = 1 => broken # {} \/ upsets > 0 \/ reaped \/ waited >= HardCap
    /\ verdict["shell-roundtrip"] = "pass" => probeRun = "completed"
    /\ "probe" \notin {line[i] : i \in DOMAIN line}
    /\ match = "pending" => upsets > 0
    /\ ~expired.there /\ (expired.alerts > 0 => reaped)

(* The suite, which an upgrade waits for, ends whatever the worker does.         *)
SuiteEnds == <>(at = "end")
=============================================================================
