---------------------------- MODULE WorkerProcess ----------------------------
(***************************************************************************)
(* Worker processes of one workspace on one machine: how one boots, works, *)
(* reports and stops (runtime/src/worker.ts, bullmq/worker.ts,             *)
(* fleet/heartbeat.ts, with the systemd unit that cli/src/init.ts writes). *)
(* One process is the unit's; another may have been left over or started   *)
(* by hand. What keeps two from working is the port of the HTTP server,    *)
(* which is held until the process exits.                                  *)
(***************************************************************************)
EXTENDS Integers, FiniteSets

CONSTANTS
  Unit, Orphan,     \* the two processes
  NoProcess,
  MaxStarts,        \* bound on starts of processes
  MaxOutages        \* bound on crashes, failed statements and outages

ASSUME WorkerAssumption == Cardinality({Unit, Orphan, NoProcess}) = 3

VARIABLES
  phase,        \* phase[p]: serverState, or how far p is in starting and stopping
  port,         \* the process that listens
  consumers,    \* processes with a BullMQ worker
  executing,    \* the process in which a skill runs
  run,          \* skill_runs of that skill
  inactive,        \* it has had no activity for two minutes
  beat,         \* beat[p]: the heartbeat that is under way
  row,          \* framework_heartbeat: the process that has written it
  heard,        \* history: what the last beat came to
  redis, postgres,
  starts, outages

processVars == <<phase, port, starts>>
workVars == <<consumers, executing, run, inactive>>
beatVars == <<beat, row, heard>>
hostVars == <<redis, postgres, outages>>
processesVars == <<processVars, workVars, beatVars, hostVars>>

Processes == {Unit, Orphan}
Collectors == {"channel", "runs_24h", "spend", "migrations", "conformance", "queue", "health"}
NoBeat == [fields |-> {}, result |-> "none"]

WorkerInit ==
  /\ phase = [p \in Processes |-> "none"] /\ port = NoProcess
  /\ consumers = {} /\ executing = NoProcess /\ run = "none" /\ inactive = FALSE
  /\ beat = [p \in Processes |-> "off"] /\ row = NoProcess /\ heard = NoBeat
  /\ redis = TRUE /\ postgres = TRUE /\ starts = 0 /\ outages = 0

\* What ends with a process; its run stays as skill_runs has it.
Exits(p) ==
  /\ phase' = [phase EXCEPT ![p] = "none"]
  /\ port' = IF port = p THEN NoProcess ELSE port
  /\ consumers' = consumers \ {p}
  /\ executing' = IF executing = p THEN NoProcess ELSE executing
  /\ beat' = [beat EXCEPT ![p] = "off"]

Fails == outages < MaxOutages /\ outages' = outages + 1

\* checkPort
CheckPort(p) ==
  /\ phase[p] = "none" /\ starts < MaxStarts /\ starts' = starts + 1
  /\ phase' = [phase EXCEPT ![p] = IF port = NoProcess THEN "booting" ELSE "none"]
  /\ UNCHANGED <<port, workVars, beatVars, hostVars>>

ListenAnyway(p) ==
  /\ phase[p] = "booting"
  /\ phase' = [phase EXCEPT ![p] = "initializing"] /\ port' = p
  /\ UNCHANGED <<starts, workVars, beatVars, hostVars>>

\* The HTTP server comes first; a port that has been taken meanwhile ends the process.
Listen(p) ==
  /\ phase[p] = "booting"
  /\ phase' = [phase EXCEPT ![p] = IF port = NoProcess THEN "initializing" ELSE "none"]
  /\ port' = IF port = NoProcess THEN p ELSE port
  /\ UNCHANGED <<starts, workVars, beatVars, hostVars>>

\* reconcileOrphanedRuns, which may fail; then the manifest and the schedulers.
ReconcileOrphanedRuns(p) ==
  /\ phase[p] = "initializing" /\ phase' = [phase EXCEPT ![p] = "reconciled"]
  /\ run' = IF postgres /\ run = "running" /\ inactive THEN "cancelled" ELSE run
  /\ UNCHANGED <<port, starts, consumers, executing, inactive, beatVars, hostVars>>

\* startWorker: the heartbeat and the consumer, and the handlers of signals.
StartWorker(p) ==
  /\ phase[p] = "reconciled" /\ phase' = [phase EXCEPT ![p] = "started"]
  /\ consumers' = consumers \union {p} /\ beat' = [beat EXCEPT ![p] = "due"]
  /\ UNCHANGED <<port, starts, executing, run, inactive, row, heard, hostVars>>

\* The relay, the dispatchers and the watchdogs.
Ready(p) ==
  /\ phase[p] = "started" /\ phase' = [phase EXCEPT ![p] = "ready"]
  /\ UNCHANGED <<port, starts, workVars, beatVars, hostVars>>

\* A process whose start has failed stays, and reports it; its consumer, if any, goes on.
InitFails(p) ==
  /\ phase[p] \in {"reconciled", "started"} /\ Fails
  /\ phase' = [phase EXCEPT ![p] = "failed"]
  /\ UNCHANGED <<port, starts, workVars, beatVars, redis, postgres>>

Health(p) == IF phase[p] = "ready" /\ p \in consumers THEN 200 ELSE 503

TakeRun(p) ==
  /\ p \in consumers /\ phase[p] \in {"started", "ready", "failed"} /\ redis /\ postgres
  /\ executing = NoProcess
  /\ executing' = p /\ run' = "running" /\ inactive' = FALSE
  /\ UNCHANGED <<processVars, consumers, beatVars, hostVars>>

EndRun(p) ==
  /\ executing = p /\ executing' = NoProcess
  /\ run' = IF postgres /\ run \in {"running", "failed"} THEN "completed" ELSE run
  /\ UNCHANGED <<processVars, consumers, inactive, beatVars, hostVars>>

GoesQuiet ==
  /\ run = "running" /\ ~inactive /\ inactive' = TRUE
  /\ UNCHANGED <<processVars, consumers, executing, run, beatVars, hostVars>>

\* SIGTERM: no new jobs, and a drain; before startWorker it ends the process at once.
Terminate(p) ==
  /\ phase[p] \notin {"none", "draining", "sweeping", "leaving"}
  /\ IF p \in consumers
     THEN /\ phase' = [phase EXCEPT ![p] = "draining"]
          /\ beat' = [beat EXCEPT ![p] = IF @ = "due" THEN "off" ELSE @]
          /\ UNCHANGED <<port, consumers, executing>>
     ELSE Exits(p)
  /\ UNCHANGED <<starts, run, inactive, row, heard, hostVars>>

\* The job is done, or the drain has taken too long and the consumer is closed by force.
DrainEnds(p) ==
  /\ phase[p] = "draining" /\ phase' = [phase EXCEPT ![p] = "sweeping"]
  /\ consumers' = consumers \ {p}
  /\ UNCHANGED <<port, starts, executing, run, inactive, beatVars, hostVars>>

\* sweepInFlightRuns marks what is still running; an error is logged.
SweepInFlightRuns(p) ==
  /\ phase[p] = "sweeping" /\ phase' = [phase EXCEPT ![p] = "leaving"]
  /\ run' = IF postgres /\ run = "running" THEN "failed" ELSE run
  /\ UNCHANGED <<port, starts, consumers, executing, inactive, beatVars, hostVars>>

\* The MCP pool is shut down, and the process exits.
Leave(p) ==
  /\ phase[p] = "leaving" /\ Exits(p)
  /\ UNCHANGED <<starts, run, inactive, row, heard, hostVars>>

\* An uncaught exception, or SIGKILL: from systemd for a drain beyond TimeoutStopSec, or for
\* whoever holds the port when the unit has stopped (ExecStopPost).
Killed(p) ==
  /\ phase[p] # "none" /\ Exits(p)
  /\ \/ Fails \/ (phase[p] \in {"draining", "sweeping"} /\ p = Unit /\ UNCHANGED outages)
     \/ p = port /\ p = Orphan /\ phase[Unit] = "none" /\ UNCHANGED outages
  /\ UNCHANGED <<starts, run, inactive, row, heard, redis, postgres>>

\* startHeartbeatLoop: one beat at once, then one every five minutes.
BeginBeat(p) ==
  /\ beat[p] = "due" /\ beat' = [beat EXCEPT ![p] = "collecting"]
  /\ UNCHANGED <<processVars, workVars, row, heard, hostVars>>

\* buildPayloadV3: a collector whose store is broken nulls its field; that of the queue waits
\* for Redis to come back.
BuildPayload(p) ==
  /\ beat[p] = "collecting" /\ redis
  /\ beat' = [beat EXCEPT ![p] = "posting"]
  /\ heard' = [fields |-> IF postgres THEN Collectors ELSE {"queue"}, result |-> "none"]
  /\ UNCHANGED <<processVars, workVars, row, hostVars>>

\* postJson: accepted, refused or timed out, or no receiver is configured.
PushRemote(p) ==
  /\ beat[p] = "posting" /\ beat' = [beat EXCEPT ![p] = "recording"]
  /\ heard' \in {[heard EXCEPT !.result = x] : x \in {"ok", "failed", "skipped"}}
  /\ UNCHANGED <<processVars, workVars, row, hostVars>>

\* upsertLocalState never throws; then the audit log, whose error is an unhandled rejection.
UpsertLocalState(p) ==
  /\ beat[p] = "recording"
  /\ beat' = [beat EXCEPT ![p] = IF phase[p] \in {"started", "ready", "failed"} THEN "due" ELSE "off"]
  /\ row' = IF postgres THEN p ELSE row
  /\ UNCHANGED <<processVars, workVars, heard, hostVars>>

Outage ==
  /\ \/ redis /\ redis' = FALSE /\ Fails /\ UNCHANGED postgres
     \/ postgres /\ postgres' = FALSE /\ Fails /\ UNCHANGED redis
     \/ ~(redis /\ postgres) /\ redis' = TRUE /\ postgres' = TRUE /\ UNCHANGED outages
  /\ UNCHANGED <<processVars, workVars, beatVars>>

Boots(p) == CheckPort(p) \/ Listen(p) \/ ReconcileOrphanedRuns(p) \/ StartWorker(p) \/ Ready(p)
Stops(p) == DrainEnds(p) \/ SweepInFlightRuns(p) \/ Leave(p)
Beats(p) == BeginBeat(p) \/ BuildPayload(p) \/ PushRemote(p) \/ UpsertLocalState(p)

WorkerNext ==
  \/ \E p \in Processes :
       \/ Boots(p) \/ InitFails(p) \/ TakeRun(p) \/ EndRun(p)
       \/ Terminate(p) \/ Stops(p) \/ Killed(p) \/ Beats(p)
  \/ GoesQuiet \/ Outage

(* Two processes never consume the queue together; no process stamps as    *)
(* crashed, or sweeps away, a run that another one executes; a worker that *)
(* answers 200 is listening, consumes and has started everything; one that *)
(* has swept leaves no run of its own running unless Postgres failed it;   *)
(* and only the process that holds the port speaks for the workspace in    *)
(* heartbeats (worker.ts:189-203, 205-219, bullmq/worker.ts:232-280).      *)
OnlyOneWorks ==
  /\ Cardinality(consumers) <= 1
  /\ \A p \in Processes :
       /\ executing = p /\ phase[p] \in {"started", "ready", "failed", "draining"} =>
            port = p /\ run = "running"
       /\ Health(p) = 200 => port = p /\ consumers = {p}
       /\ phase[p] = "leaving" /\ outages = 0 => run # "running"
       /\ beat[p] # "off" => port = p
=============================================================================
