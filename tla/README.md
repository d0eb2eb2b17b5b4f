# Verification of the Nexaas runtime

This directory holds TLA+ specifications of the parts of Nexaas whose
correctness depends on the order of things: locks, races for one row, retries,
leases, crashes between two statements, and a hash chain that several processes
append to. The specifications are written from the TypeScript source in
`packages/`, `database/` and `mcp/`; documentation was used to find out what is
promised, never to find out what happens.

`PROJECT.json` is the machine-readable index: the components, the runs, for
every definition of a specification the source lines it models, one mutant per
property (the slip the property catches), the hazards, the findings and the
theorems.

## How to run it

    tlc -workers 2 -config ConcurrencyGroups.cfg MCConcurrencyGroups
    tlapm ConcurrencyGroupsProofs.tla   # and the other *Proofs.tla

| Run | Module and configuration | Distinct states | Expectation |
|---|---|---|---|
| `concurrency_groups` | `MCConcurrencyGroups`, `ConcurrencyGroups.cfg` | 54,804 | pass |
| `approvals` | `MCApprovals`, `Approvals.cfg` | 53,888 | pass |
| `timeouts` | `MCTimeouts`, `Timeouts.cfg` | 25,241 | pass |
| `pa_delivery` | `MCPaDelivery`, `PaDelivery.cfg` | 170,300 | pass |
| `notification_dispatch` | `MCNotificationDispatch`, `NotificationDispatch.cfg` | 17,783 | pass |
| `wal_chain` | `MCWalChain`, `WalChain.cfg` | 2.17 million | pass |
| `run_lifecycle` | `MCRunLifecycle`, `RunLifecycle.cfg` | 396,165 | pass |
| `ingress` | `MCIngress`, `Ingress.cfg` | 248,758 | pass |
| `spending` | `MCSpending`, `Spending.cfg` | 450,900 | pass |
| `deployment` | `MCDeployment`, `Deployment.cfg` | 2.28 million | pass |
| `operations` | `MCOperations`, `Operations.cfg` | 152,311 | pass |
| `lost_resumption` | `MCApprovals`, `LostResumption.cfg` | | violation |

The longest runs are `deployment` and `wal_chain`, of two to three minutes with
two workers.

## Inventory

Nexaas runs the AI and shell skills of one workspace: one worker process per
workspace, a PostgreSQL database (the "palace"), Redis with BullMQ, and a few
helper processes that write to the same database. The worker is a single
JavaScript thread. Code between two awaits is atomic; between two awaits
everything else may run, and every SQL statement outside a transaction commits
on its own. That is the source of most of the behaviour modelled here. Around
the worker stands a command line whose commands (install, upgrade, migrate,
register, library) are processes of their own: they run beside the worker and
beside each other, and an operator may interrupt them anywhere.

| Component | State it keeps | Operations | What makes it correct | Modules |
|---|---|---|---|---|
| Concurrency groups (`concurrency-groups.ts`) | a map from group to the tail of a promise chain, in memory | `withGroups` | calls that share a group never overlap; order of arrival; no deadlock; no starvation | `ConcurrencyGroups` |
| Approvals (`engine/apply.ts`, `approval-resolver.ts`, `palace.ts`, `waitpoint-reaper.ts`, `outbox-relay.ts`, `queues.ts`) | waitpoint drawers with `dormant_signal`, resolution drawers, inbound markers, outbox rows, jobs | open, answer by button, HTTP or library, time out, relay, run | one decision, recorded once; only that decision resumes, once | `Approvals`, `WaitpointDecision` |
| PA delivery (`api/pa-notify.ts`, `pa/delivery.ts`) | pending drawers, delivery markers with status, retries, lease time | notify, claim, report sent or failed, reap | no loss; bounded duplicates; given up only after the allowed failures | `PaDelivery` |
| Notification dispatcher (`tasks/notification-dispatcher.ts`) | dispatch rows per idempotency key | reap, quarantine, select, claim, send, mark | no loss; bounded duplicates and attempts | `NotificationDispatch` |
| Write-ahead log (`wal.ts`, `verify-wal.ts`, `upgrade.ts`, `init.ts`) | the `wal` table: a hash chain | append, verify, repair, retain, anchor | the chain never forks; tampering is found; no false alarms | `WalChain` |
| Skill runs (`run-tracker.ts`, `pipeline.ts`, `bullmq/worker.ts`, `shell-skill.ts`, `ai-skill.ts`, `skill-terminal.ts`) | `skill_runs.status`, step, last activity, terminal drawers | start, heartbeat, complete, fail, wait, cancel, sweep, reconcile, reap | a success has its drawer; every run ends; the reaper never takes a live loop for a dead one | `RunLifecycle` |
| Silent-failure watchdog (`tasks/silent-failure-watchdog.ts`) | the alerts written | look at the last runs behind each failure | one alert per streak of failures | `RunLifecycle` |
| Inbound dispatcher and inbound-match waitpoints (`tasks/inbound-dispatcher.ts`, `tasks/inbound-match-waitpoint.ts`) | the trigger index, dispatch rows, open waitpoints | select, match, fan out, record; register, cancel | every subscriber of every message runs once; a message answers the waitpoint that waits longest | `InboundDispatch` |
| Batch dispatcher (`tasks/batch-dispatcher.ts`) | batches of claimed items, the index with the last cron evaluation | evaluate, claim, dispatch, fail | an item is in one live batch; a deadline is acted upon | `BatchDispatch` |
| Skill trigger API (`api/skills-trigger.ts`) | job ids in the queue | trigger | a repeated request starts no second run | `SkillTrigger` |
| Agentic loop, gateway, providers (`models/`) | messages of a run, position in the chain of models, accrued cost | turn, tool call, retry, fall back, stop | bounded turns; caps exceeded by less than a turn | `AgenticLoop` |
| Spend governor, budget monitor, rate-limit pause (`models/spend-governor.ts`, `tasks/spend-budget-monitor.ts`, `bullmq/rate-limit.ts`) | spend of a day, override, marker, pause of the queue, timers | record, gate, pause, extend, resume | overshoot is bounded; every pause has an owner who ends it | `QueuePause` |
| Personal-assistant service, sub-agents (`pa/service.ts`, `subagent.ts`) | conversations under way, in memory | look at the budget, converse | what they spend is in the account of the day | `QueuePause`, as callers of the loop |
| Upgrade, rollback (`cli/upgrade.ts`, `release-channel.ts`) | HEAD, the compiled files, the previous ref, preserved hotfixes | upgrade, migrate, restart, gate, roll back | a bad release is left; local work is kept; code never runs ahead of its schema | `Upgrade` |
| Migrations (`cli/migrations.ts`) | `schema_migrations` | read, apply, resolve a legacy failure | what is marked was executed; marks have no gaps | `Migrations` |
| Installation (`cli/init.ts`) | the `.env`, keys, role password, unit | init | can be run again without rotating what others hold | `Install` |
| Skill schedules (`cli/register-skill.ts`, `worker.ts`) | schedulers in Redis | register, deactivate, self-heal | schedulers follow the manifests | `SkillSchedules` |
| Skill library (`cli/library.ts`, `propagate.ts`, `skill-versions.ts`) | library rooms, proposals, pins | contribute, install, promote, propose, accept, pin | no duplicates, nothing canonical that was not contributed | `SkillLibrary` |
| Worker process, fleet heartbeat (`worker.ts`, `bullmq/worker.ts`, `fleet/heartbeat.ts`) | port, readiness, consumers, `framework_heartbeat` | boot, serve, drain, sweep, beat | one process works; readiness tells the truth | `WorkerProcess` |
| Watchdogs, health monitor (`scheduler-watchdog.ts`, `output-staleness-watchdog.ts`, `health-monitor.ts`, `notifications.ts`) | alert drawers, dedupe keys | periodic checks | trouble is told in time, and no trouble is invented | `Watchdogs` |
| Conformance suite (`cli/conformance.ts`) | a probe job, a synthetic waitpoint, a matcher | the checks in order | a release is rejected for a cause; the suite cleans up and ends | `Conformance` |
| MCP client and pool (`mcp/`) | child processes, one slot per server | acquire, connect, call, release, shut down | one process per server, none forgotten, nobody waits for ever | `McpPool` |
| Context assembly, retrieval, tag routing, ingest, embeddings, adapters, e-mail providers | nothing, or a cache | queries and HTTP calls | translation of data | not modelled |

How they interact. A skill job is taken by a BullMQ worker, enters its
concurrency groups, and runs. Its output may open a waitpoint; the answer comes
back as an inbound drawer that the approval resolver reads, or as an HTTP call;
the resumption is an outbox row that the relay turns into a new job. Its output
may also be a notification drawer: the dispatcher sends it through a channel,
or hands it to the personal assistant, whose delivery markers are leased by
skills. Messages from outside, full batches and HTTP requests turn into skill
jobs as well. Almost all of them append to the log. Timers of the worker drive the
resolver, the reaper, the relay, the dispatchers, the watchdogs and retention;
most of them have a reentrance guard, the waitpoint reaper, the health monitor
and retention have none. An upgrade replaces the worker under all of this, and
asks the conformance suite, which goes through the worker's own queue, whether
to keep it.

What is hard about it: two surfaces that answer one waitpoint while its timeout
is applied; a process that dies between a claim and the statement that follows;
leases that end while their holder is still at work; a send that is cut off and
arrives anyway; rows that are skipped and read again for ever; a chain that is
verified in batches while it grows and is trimmed; two owners of one pause flag;
a command that is killed between two steps and run again over what it left; a
server process that dies while somebody waits for it. `hazards` in `PROJECT.json`
lists them at their lines, with the properties that cover them.

## The modules

### ConcurrencyGroups

`withGroups` as five variables of code state: where a call is (`st`), the chain
it awaits (`at`, `prev`), its `releases` (`held`) and the module-level map
(`tail`). One action per stretch from await to await: `EnterFree`,
`EnterGroups` (synchronous up to the first await), `AcquireMore` and
`AcquireLast` (one loop iteration), `Finish` (the `finally` block with the
garbage collection of the map), `Crash`. `ticket` and `issued` are history
variables for the order of arrival. Calls also occupy the slots of the BullMQ
worker (`Concurrency`), which could in principle deadlock with the chains.

*Properties.* `MutualExclusion`, `FifoGrant`, `NoCircularWait`, `WaiterRuns` (no
starvation). `TailIsLatest` (garbage collection never drops the tail of a chain
somebody is in, and leaves no entry behind) is proved only.

*Instance.* Three groups; calls over {1,2}, {2,3}, {1,3}, {1,2,3} and one
without groups; four slots. The three pairs form the cycle that deadlocks when
groups are not taken in sorted order; the fourth meets all of them. Four slots
for five calls make one of them wait for a slot.

*Fairness.* Weak, on continuing after a resolved promise (the JavaScript
scheduler runs every ready continuation) and on `Finish` (executors end a skill
by a timeout). Not on the arrival of jobs, not on `Crash`.

### Approvals and WaitpointDecision

One action per statement for each of the five tasks that touch a waitpoint: the
opener (`OpenWaitpoint`, `MarkWaiting`, `WriteRequest`), the answers
(`Claim`/`NotFound`, `WriteResolution`, `Enqueue`, `MarkResolved`) from a
button (`Click`), HTTP (`Api`) or a library caller, the reaper (`TickResolve`,
`TickCancel`, `TickEscalate`, `TickEffect`, and the stamp, which is two actions
because the claim uses `FOR UPDATE SKIP LOCKED` and must see the row while it
is locked), the outbox relay (`RelayPoll`, `RelayAdd`, `RelayMark`) and BullMQ
(`RunJob`, `Evict`; an id that is still known is ignored). Any statement may
fail and the process may die, `MaxFaults` times together.

`WaitpointDecision` is the abstract specification: a waitpoint is decided once,
and only its decision takes effect. `ImplementsDecision` is the refinement, with
the decision read from `winner` and the effect from the outbox rows that have
become a job.

*Properties.* `ResumptionFollowsDecision`, `ResolvedClickResumes`,
`HandlerRunsOnce`, the liveness `TimeoutHandled` and the refinement
`ImplementsDecision` in `approvals`; `OneResolution` and `CancelOnlyUnanswered`
in `timeouts`, where runs of the reaper overlap.

*Instances.* `approvals`: one approval with three declared decisions, one of
each way to resume, answered by two clicks and an HTTP call, a third click with
a button that is not offered, its timeout, and one fault. `timeouts`: two
waitpoints of library callers under `auto_approve` and `auto_cancel`, two
overlapping runs of the reaper, two faults. One waitpoint is enough for races on
one row; the second is there since a run of the reaper handles several in turn.

*Fairness.* Weak, on the timers (poll, reaper, relay) and on the statements of
an answer that has begun. Nothing on humans, openers, jobs, the passing of
timeouts or retention. Faults are bounded, so that retries end.

*Assumption.* BullMQ keeps a finished job until the relay has marked its row
(`Evict`): it keeps them for 7 days or 1000 jobs, a relay pass takes seconds.

### PaDelivery

The endpoint (`Check`, `WritePending`, `EnqueueDelivery` or `EnqueueFails`), the
claim (`ClaimNextDelivery`, one statement), the consumer's send, its report
(`MarkDeliverySent`, `MarkDeliveryFailed`, `DeadAlert`) and the reaper
(`ReapStaleClaims`). What a consumer does between claim and report belongs to
the workspace and is external. `line` stands for the order of `claimed_at`.

*Properties.* `DuplicatesAreAccountedFor` (one extra send per crash or overrun,
never more, and the type invariant), `DeadOnlyAfterFailures`, the liveness
`Delivered`.

*Instance.* Two requests with one key and one thread, two consumers, two
retries, one crash and one lease that ends early: the least in which a late
report meets somebody else's lease.

*Fairness.* Weak on the passing of `release_at`, on the consumers, and on the
reaper for leases whose holder is gone. A consumer that is still at work is not
assumed to be reaped.

### NotificationDispatch

A tick (`Tick`: reap, quarantine, select, in one action since nothing else
writes these rows and ticks do not overlap), then statement by statement for the
first drawer of the batch: skip, hand to the assistant (`PaNotify`, then claim
and mark), or claim, send, mark, receipt. `Queue` is what `executePaNotify` does
with a key: nothing if it was queued within the hour. `fresh` has what the current
tick has queued, which is not forgotten before the tick ends. `FailInside` is a
failing statement behind the send, whose catch block marks the row failed;
`PaFallsThrough` an error of the hand-over, before or behind its drawer, after which
the message goes to the channel; `PostTimesOut` the 15 second cut-off of a send that
arrives; `Abort` any other failing statement or a crash.

*Properties.* `PostsAreAccountedFor` (types included: a post beyond the first
takes a fault, as long as the drawers of the key take one route, and what is marked
delivered was posted; a key that one drawer uses for a channel and another for the
assistant is posted twice if both are in a batch, since the assistant is asked before
the key is claimed); liveness `Dispatched`,
under the condition that the drawers that are skipped over and over leave room in
a batch (without it the property is false, see below). The attempts of a key are
checked by the select and counted by the claim: drawers of one batch that share
a key pass the check together, so a key may be tried `MAX_ATTEMPTS` times and
once more for each further drawer.

*Instance.* Six drawers: one without key, one malformed, two with one key of
which one is not due, two with one key for the assistant; batches of three, two
attempts, two faults.

*Fairness.* Weak on the tick, the current drawer, and the passing of time.

### WalChain

The table is a function from ids to rows; `Hash` is injective, which is the only
thing assumed of SHA-256. `appendWal` is `Lock`, `ReadTip`, `Append` or
`Rollback` per process; a verification is `Start` and one `VerifyBatch` per
statement; a repair pass adds `LookAtRow`, `FlagRow` and the append of its audit
entry. Around it: retention, `nexaas init` (`WriteGenesis`), a palace MCP server
from before issue #235 that an upgrade has not restarted yet (`OldReads`,
`OldWrites`: no lock, a hash of nothing in the row), and somebody who edits or
removes rows, which is what the chain is there to show.

*Properties.* `Linked`, `TamperingIsDetected` (across batches, concurrent
appends and retention, and no repair hides an edited row), `AlarmsHaveCause`.
`RepairIsTargeted` is proved only. A pass remembers which rows were altered when it
began (`known`): it must report those as far as it covers them, and owes nothing
for what is altered behind its back.

*Instance.* Two writers (interchangeable, hence the symmetry) and the upgrade,
five rows, batches of two, a window of three, one pass of any kind, one flag,
up to two altered rows, and any two of: old writer, edit or removal, retention, second init. With five
rows a pass takes three batches, and the window is reached and exceeded.

*No liveness.* A verification ends when appends pause; nothing in the code
bounds them, so nothing is claimed.

### RunLifecycle

The row of a run in `skill_runs` (`status`, `age` of its `last_activity`), its
terminal drawers (`said`) and the order of `started_at` (`began`); the jobs as
BullMQ knows them (`job`, `pick`); and for each job the executor at work on it
(`exec`): its next statement, the try block it is in, the outcome it is about to
record, and whether it throws at its end. One action per statement. `Create` and
`Start` are common; `CommandEnds` belongs to `shell-skill.ts`; `Preflight`,
`BudgetGate`, `Heartbeat`, `LoopEnds`, `SayRouted`, `OutputMissing`,
`VerificationFails` and `Pause` to `ai-skill.ts`; `StepEnds` to `pipeline.ts`;
`Say`, `Mark` and `Watch` to all. The two handlers of unusable manifests share
these actions on a path of their own (`phantom`), since they mark first and write
their drawer last. `AfterThrow` is what a failing statement leads to, by the try
block it is in. `ApplyAction` is an action the engine applies in the middle of a
run (approval, escalation). `Report` is the answer to BullMQ, which is lost when
the worker was force-closed; `Stalled` its recovery of active jobs, once per job.
`Shutdown`, `DrainEnds`, `SweepRun`, `Exit`, `Crash`, `Boot` and `Reap` are the
process and its timers. `CheckFailureStreak` is the watchdog, a query of its own
behind the UPDATE of the failed run. All jobs are of one skill, the watchdog
looks at one skill only.

A job whose data has a run id keeps one run over its attempts; any other, such as
a cron job, gets a new run at each pick-up (`bullmq/worker.ts:48-50`). So the
"failed" that the sweep of a shutdown stamps on the run of a cron job stays: the
recovered job completes another run. (The comments at `bullmq/worker.ts:268` and
478 say that its success overwrites the stamp, which it does for jobs with a run
id.) `runSkillStep` never marks a run completed; the row of a pipeline that ends
well reads running until it is started again or the reaper cancels it. These are
not properties here, but `RunsEnd` and the proofs rest on them.

*Properties.* `SuccessIsExplained` (no retry, crash or failing statement makes a
run a success that no drawer records), `LiveLoopsAreSpared`, `OneAlertPerStreak`
(if the runs ended one after the other: `disturbed` records when they did not,
and `unchecked` which failures the watchdog has not looked behind yet; both are
history variables no guard reads); liveness `RunsEnd`.

*Instance.* One job of any kind with two attempts and one stall, so up to three
runs in a row; one failing statement; one crash or shutdown; a streak of two.
Three runs are the least that reach a streak of two and the failure behind it
which must not be alerted again. Two jobs at a time multiply the states and
change nothing for a property about the row of one run, since a run belongs to
one job; they matter for the watchdog, and there they break it (see below).

*Time.* Three ages: fresh, over 2 minutes (the reconciliation), over 20 (the
reaper). A command or a pipeline step takes any time, so it may be reaped while
it runs; a statement takes less than 2 minutes and a preflight less than 20; the
heartbeat interval (2 minutes) fires before a row is over 20 minutes old.

*Fairness.* Weak on the statements of an executor (commands and loops are cut
off by limits), on the passing of time, and on the sweep, exit, restart and
reaper. Nothing is assumed of the queue: a job may never be picked up again.

*Left out.* The data of a resumption (`resumedWith`), token usage, step names;
the concurrency groups, which are `ConcurrencyGroups`.

### Ingress: InboundDispatch, BatchDispatch, SkillTrigger

`Ingress` puts the three other ways into the skill queue side by side. They share
nothing but the queue, so a behaviour exercises one `part`: messages with
subscribers, messages with waitpoints, batches, or the endpoint. (`Spending`,
`Deployment` and `Operations` are composed in the same way: what they put
together runs on one machine and touches different state.)

`InboundDispatch` is a poll of `dispatchPendingInbound`: `Poll` (the select of the
oldest drawers without a row, the open waitpoints, the index), then for each
drawer `TryResolve`, `NotResolved`, `Answer` over the waitpoints that were read at
the start of the tick, and `StartFanOut`, `Enqueue`, `Record`, `RecordFailed` over
its subscribers; `Crash` loses the poll. Around it drawers arrive, manifests change
under the cached index, waitpoints are registered, cancelled in two statements
(`CancelReads`, `CancelWrites`) and pass their timeout. `hits`, `owed` and
`waiting` are history: the faults while a drawer was in work, its subscribers, and
the waitpoints it should have met. *Properties:* `FanOutIsAccountedFor`,
`WaitersAreServed`, and the liveness `DrawersAreDispatched`.

`BatchDispatch` is one bucket of `dispatchPendingBatches`: `Begin` with the
bookkeeping of the crons, `SelectItems`, `NextItem` for the items that carry a
deadline, `Evaluate` for `fire_when`, and the batch from `Claim` over
`EnqueueBatch` and `MarkDispatched` to `Undo`. Time is what the conditions see of
it: an item is old or due, a date is past, a cron expression has matched.
*Properties:* `ItemsAreAccountedFor`, and the liveness `DeadlinesFire`.

`SkillTrigger` is `executeTrigger` in two awaits: the job, then its audit entry.
*Property:* `RequestsCollapse`.

*Instance.* Two messages of one room, two subscribers, two waitpoints of which one
may time out, batches of two; two items under two subscriptions that have every
kind of condition between them; four requests, three with one key, for two skills
whose ids look the same in a job id. One fault for the messages, two for the batch:
a failure of a claim and one of the statement that undoes it. Two messages and
two subscribers are what it takes for a fault to fall between two of either.

*Fairness.* Weak on the polls, whose `setInterval` runs as long as the worker
does. `DeadlinesFire` holds for a bucket that fits into one select; two items and
a batch of two make it so (see the disagreements for larger ones).

### Spending: AgenticLoop, QueuePause

`AgenticLoop` is one run of `runAgenticLoop` as `executeAgentic` starts it:
`NextTurn`, `CallFails` (retry), `Fallback` to the next model of the chain,
`RateLimited`, `Respond`, `UseTool`, `TurnEnds` with the four guards (repetition,
error streak, spend and token cap), and the two records at the end. A response has
any usage of a set, a tool call repeats or not and fails or not. *Property:*
`SpendIsCapped`: the accrued cost is what the models that answered charge, the cap
is exceeded by less than a turn, the turns are bounded, and an error streak stops
only runs whose last calls failed.

`QueuePause` sees runs from outside: `Gate`, `Turn`, `Finish` or `Throw`; a step of
the pillar pipeline goes to the gate without the check of `PreRun`. The slots of the
worker are not all that spends. A conversation with the assistant (`Hear`, `Look`,
`TalkGate`, `TalkTurn`, `TalkEnds`) arrives over HTTP and takes no slot, a sub-agent is
called by code and goes to the gateway at once; no pause of the queue holds either, the
timeout of the request does not stop them, and `maxTurns` is their only limit. Nothing
limits how many there are: the constant `Talk` does, and the bound below counts them.
The pause flag in Redis has two users who do not know of each other, the budget with
its marker in the database (`ReadMarker`, `BudgetPauses`, `WriteMarker`,
`BudgetResumes`, `ClearMarker`) and the back-off after a 429 with a timer in memory
(`LimitPauses`, `StartTimer`, `TimerEnds`); midnight, the operator's override,
`Stop` and `Restart` with its reconciliation complete the model. *Properties:*
`OvershootIsBounded` (at most the slots under way, each a turn over its cap, and the
conversations under way, each with all its turns),
`PausesAreOwned` (a paused queue has a marker, a timer, or a pause in progress),
and the liveness `PausesEnd`. The last two leave out what `crossing` records: a pause for the budget whose statements fall
between those of a resume by the monitor, after which the flag may be left without
an owner.

*Instance.* A tier of three models of which one does not speak the right API, so
that the chain is shorter than the tier, with a fallback of twice the price; three
turns, two attempts; two slots and a conversation, a budget of two, four runs, two days,
one failing statement, one stop of the worker. Two slots are needed for two runs to pass the
gate together and for two 429s to meet.

The bound that the governor states, worker concurrency times `max_spend_usd`
(spend-governor.ts:20-22), is not the one that is checked: it counts neither
conversations nor sub-agents, and the model breaks it ("Further disagreements").

*Fairness.* Weak on the steps of a run (calls have time limits), the monitor's
minute, timers, statements of a pause, and the restart by systemd.

### Deployment: Upgrade, Migrations, Install, SkillSchedules, SkillLibrary

`Upgrade` has one action per step of the command (`Guard`, `RecordPrevious`,
`Checkout`, `Build`, `Migrate`, `RestartWorker`, `Gate`, and `ReadPrevious` of a
rollback), each of which may fail, and `CommandDies` between any two. A commit is a
release with hotfixes on top; the state is HEAD and the branch, the compiled files,
the commit the worker runs, the schema, the previous ref and the patch bundles.
*Property:* `ReleasesAreReversible`, that is `RejectedReleaseIsLeft`,
`LocalWorkIsKept` and `SchemaFitsCode`. `RestartWorker` may
fail without anybody learning of it: the process that ran goes on, and may answer the
health check. The verdict of the suite is a free choice; its causes are `Conformance`,
and how a process boots is `WorkerProcess`.

After such a restart the command may report a healthy rollback while the rejected
release runs ("Further disagreements"); `RejectedReleaseIsLeft` therefore promises the
process only if the worker was restarted.

`Migrations` is `runMigrationsTracked` by two runners that each read the tracker
once: `ReadPending`, `ApplyFile`, `ResolveLegacy`, `StopAtFailure`. *Property:*
`MigrationsAreExecuted`. `Install` is `nexaas init` by its credentials, cut short
anywhere and run again. *Property:* `InstallIsRepeatable`. (The run checks their
conjunction, `InstallationIsSound`.)

`SkillSchedules` has registration, deactivation and the self-heal at boot, each
`List`, then `Remove` and `Upsert` entry by entry, while manifests change; whether
the listing names an entry by its key or by its job is left open, as BullMQ is
external. *Property:* `SchedulesFollowManifests`. `SkillLibrary`
is one skill in the library and in a workspace; every command looks first and
writes afterwards, and a proposal is looked up by its version. *Property:* `LibraryIsOrderly`. (Checked as `SkillsAreManaged`.)

*Instance.* Three releases, one hotfix, three
commands, one fault: the least for an upgrade, a rollback and an upgrade on top
that meet a failure. Four migrations, one legacy, two runners, two faults. Four
runs of init, three of which may be cut short. Two skills, the name of one
beginning with the name of the other, up to two crons each, one registrar beside
the boot. Two files with two variants, two operators, six commands.

### WorkerProcess and Watchdogs

These run in the composition `Deployment` as well. `WorkerProcess` has two
processes of one workspace, the unit's and another (left over, or started by
hand): `CheckPort`, `Listen`, `ReconcileOrphanedRuns`, `StartWorker`, `Ready`,
`InitFails`; `TakeRun`, `EndRun`; `Terminate`, `DrainEnds`, `SweepInFlightRuns`,
`Leave`, `Killed`; and the heartbeat with its collectors, push and local row.
*Property:* `OnlyOneWorks`: never two consumers, no process sweeps or reconciles
away a run another executes, `/health` answers 200 only when it may. What makes it
hold is the order of the boot: the port is bound before anything that touches
`skill_runs`.

`Watchdogs` has a clock that counts five minutes, three loops (`CheckSchedulerHealth`,
`CheckOutputStaleness`, `RunHealthCheck`) in two statements each, what they look at,
and `Notify` with its dedupe key. `trouble` counts failed calls, crashes, and
intervals without a worker. *Property:* `TroubleIsReported`: a missed firing, a
silent output and a workspace that stays ill are told within an interval of the
moment they become overdue, and one more for each fault (what was told before a
workspace fell ill does not count as told, though it silences for its window); and no
firing is reported that was not late. The results of a skill's runs, the verdicts on stale skills and
the probes enter as the situations `Worlds`, chosen so that every check decides at
least one status.

*Instance.* Three starts, two outages; seven intervals with a period of two, two
faults. *Assumption:* a health check ends within its five minutes; the code has no
guard against overlap there.

### Operations: Conformance, McpPool

`Conformance` is the suite with its checks in order beside the worker that it
probes: the queue with the work of others, pauses, deaths, jobs that fail or
hang, the worker's own reaper and matcher. `WaitForProbe` is one poll, with the
window that restarts while others make progress and the hard cap. *Properties:*
`VerdictIsFair` (a release is rejected only for a cause; work of others is none;
nothing is left behind) and `SuiteEnds`.

`McpPool` is one server for two runs, with or without the pool, over stdio or
HTTP: `Acquire` (one step up to its await, which is what coalesces callers),
`Handshake`, `ConnectFails`, `AbortConnect`, `CallTool`, `CallEnds`, `Release`, `Exit`
of the child at any moment, `Shutdown`. *Properties:* `PoolIsSound` and
`ServersComeAndGo`. The two liveness properties are checked as `WaitsEnd`.

*Instance.* A window of three polls and a cap of eight, two jobs of others, one
fault; two runs, three clients, one death: the third client is the one that
replaces a dead one while the others still know it.

*Fairness.* Weak on the suite, on the worker's loop, on the answer or the time-out
of a handshake and a call, on the kill of a terminated child, and on a run's
release of what it has.

## What is proved

Eight modules of theorems, for all values of the constants allowed by the named
assumptions. `NatMinMax` has the facts about least and greatest elements of sets
of naturals that whatever is sorted needs: the acquisition of groups, the list of
migrations, the scan of the log, the oldest drawer of a poll.

The assumptions on constants say that the sets of drawers, waitpoints, items,
consumers, jobs and the like are finite, that bounds are naturals, and what the
source guarantees of the shape of the rest; their sizes are arbitrary.

**ConcurrencyGroupsProofs** (assumes `GroupsAssumption`): `TypeCorrect`,
`Exclusion`, `FirstComeFirstServed`, `TailsAreSound`, `NoDeadlock`. None of the
properties but `TailIsLatest` is a conjunct of the inductive invariant: the
code compares no tickets, it awaits promises. `IndInv` says what the promises
encode: tickets of a group are unique and at most `issued`; the promise a call
awaits is that of its predecessor in the chain, in the chain itself or released
(`PrevIsPredecessor`); a call in a chain is not overtaken by one that was granted
the group (`NotOvertaken`); the tail is the latest arrival; and what a waiting
call holds is exactly the part of its groups below the one it awaits
(`HeldShape`). The last conjunct makes the wait-for relation follow the order of
groups, so that `NoDeadlock` can look at the waiting call whose awaited group is
greatest.

**ApprovalsProofs** (assumes `ApprovalsAssumption`): `TypeCorrect`, `Resolved`,
`Resumed`, `CancelSafe`, and `Refines` (every behaviour implements
`WaitpointDecision`). `IndInv` ties the program counters to `winner`, which no
statement reads: an answer past its claim is the winner of its waitpoint
(`Acting`), so is a run of the reaper past its own (`TickWon`), a resolution is
the winner's and determined by it (`ResolutionsWon`), and a row of the outbox is
the winner's, who has left the statement that writes it for good (`RowsFollow`);
without the last part a second row could follow. `Refines` shows that only
the claim changes the decision, from none, and only `RelayAdd` the effect.
`HandlersRunOnce` needs `JobsKnown`: BullMQ still knows the id of every handler job
that was added and whose row is not marked, so that a relay which lost its mark adds
nothing by adding it again. `ResolvedClicksResume` needs `ClickBehind`: a click at its
mark is the winner's and has its row behind it, and rows are not taken back.

**NotificationProofs** (assumes `PaDeliveryAssumption`, `NotificationDispatchAssumption`)
has both ways a message goes out. `TypesHold`, `GivenUpAfterFailures`,
`SendsAreAccountedFor`: a retry is counted, in the row or in the claim that has read it,
for a failure that was reported (`RetriesAreFailures`). For the duplicates, the invariant
counts chances: a lease whose message may still go out or come back as failed, and a
marker that can be leased again. Every send used one up, and only a crash or an overrun
adds one, so sends and chances together are at most one more than those (`SendsArePaid`).

`PostsStayAccountedFor` is about the dispatcher. A message that no fault has paid for is
out: its row is delivered, or the drawer in hand is about to mark it; and another drawer
of its key in the batch that is for the assistant meets a key queued by this tick
(`PostsInv`). What is about to be sent again, or marked failed behind its send, has been
paid for by a fault (`Paid`). The first attempt failed for good reasons: the model let the
assistant's hour end within the tick that had queued, which no tick is long enough for,
and it claimed the bound for keys with two routes, which really are posted twice. The
instance had no two drawers that share a key for the assistant; now it has.

**WalChainProofs** (assumes `WalAssumption`): `WalTypes`, `ChainIsLinked`,
`RepairsAreTargeted`, `TamperingStaysDetected`, `AlarmsStayCaused`. `IInv` holds the lock
argument: among the processes that lock, at most one is past its lock, and what it has
read is the hash of row `nextId - 1` if that row was written by `appendWal`. The second
half is needed because the old writer does not lock: it can slip in, but what it writes is
not a canonical row, and `Linked` speaks of canonical neighbours only.

`TamperingStaysDetected` speaks of rows that are gone, so the invariant has the table as
it was written (`EpochInv`: some table `E` of which what is left is a part, where each
row has a hash of its own and links to an earlier one). A row that lost the row it links
to therefore links to none before it (`AlteredInv`), and a pass that has come past a row
without a complaint has compared it with its predecessor (`ScanInv`). The first attempt
at this proof failed for a good reason: the property asked a pass to find what was
altered behind its cursor. It now remembers what was altered when it began, and the
instance alters two rows instead of one. `AlarmsStayCaused` is the converse: unless rows
were retained, or an old writer or a second init was at work, rows link to their
neighbours or have lost what they link to (`Orderly`), and the hash a pass carries is
the one the next row links to (`PassIsOrderly`).

**RunLifecycleProofs** (assumes `RunLifecycleAssumption`): `TypeCorrect`, `Explained`,
`LoopsAreSpared`, `AlertsStaySingle`. The type invariant is not inductive without `Picks`:
a job was picked up as often as it failed or stalled and once more while it is active,
which bounds the number of its runs. `Sane` says what an executor can be about to record
in each of its try blocks. `Explained` needs `Told`: an executor at the mark of a success
or a skip has its drawer behind it, on each of the paths that lead there, and drawers
stay. `LoopsAreSpared` needs `Fresh`: from the preflight on, the row of an ai-skill at
work that reads running is less than 20 minutes old (`Young`), and nobody is at work while
the worker is down, when the reconciliation cancels rows after 2.

`AlertsStaySingle` is about the order of runs. `Places` gives every run
one place among those that began; `Alerted` says that of the failed runs at the end of
that order none but the first was alerted, and that it was once they are `Threshold`
many, unless they are just that many and a failure among them is still to be checked.
`LastOnes` connects this to the code: the window of rows that the watchdog reads, newest
first, holds a crossing exactly when the streak is that long (`CrossingIsStreak`). As far
as the streak can tell, the steps of the system come in a few shapes (`NextShaped`), and
each shape is looked at once. The theorem speaks, as the property does, of runs that
end in the order in which they began; two that fail together are the disagreement below.

**DeploymentProofs** (assumes `MigrationsAssumption`, `WorkerAssumption`,
`UpgradeAssumption`, `SkillSchedulesAssumption`, `SkillLibraryAssumption`,
`WatchdogsAssumption`, `ConformanceAssumption`): `InstallationSound`, `WorkersSound`,
`UpgradesStayReversible`, `SkillsStayManaged`, `TroubleStaysReported`, and of the suite
`VerdictsAreFair`. The property of the migrations is not inductive, since it says nothing
of what a runner has still to do; `Upward` does: the files that a runner has not got left
are marked, so the file it works on is the first that is not, unless the other runner has
marked it meanwhile, and a mark never leaves a gap. For `init`, `InstallInv` says what the
command and the files know at each step: it carries the role's password until `.env` holds
it, `.env` is there afterwards, and no row of a key precedes the public key in the files;
a rerun then reads back what it must keep. `WorkersSound` needs the port: a process holds
it from `Listen` until it exits (`PortHeld`), and consumes, executes and beats only in
between, so that whatever a boot or a shutdown marks in `skill_runs` belongs to nobody
else at work. The number of runners, of runs of `init`, of starts, crashes and outages is
arbitrary.

`UpgradesStayReversible`: at each step, the place of a command says what the steps before
have left (`StepsFollow`); the recorded ref is the commit the upgrade came from until the
rollback has read it, and what the rollback leaves from then on (`WayBackIsKnown`); a
hotfix that HEAD is about to lose is in the target or was given up (`LossIsAgreed`); and
the schema is behind HEAD, the compiled files or the worker, whichever process that is
after a restart that failed, only while a command has moved HEAD and has yet to migrate,
or where one was cut short (`SchemaFollows`).

`SkillsStayManaged`: as long as nothing overlapped, one process works at most
(`OneProcess`); what it has got to remove and to write says which schedules Redis has
(`Registrations`), for the boot skill by skill (`BootProgress`). In the library one command
is under way, and what it has looked up is still so when it writes (`OneCommand`); what
it promotes or proposes was contributed (`LookedUp`); a pin resolves to its version
(`PinnedIsResolved`).

`VerdictsAreFair`: the probe is queued, with the worker, or done (`ProbeIsOne`), and
unless something was upset, a window of polls in which no other run ended is no longer
than the run the worker is at (`WindowIsRun`), so that the work of others cannot use it
up. The expired waitpoint is told by the suite alone unless the worker's reaper took it
(`ExpiredIsOwn`), the message is matched unless something was upset (`MatchIsAnswered`),
and each failed check has its reason from its check on (`VerdictsHaveReason`).

`TroubleStaysReported` is an argument about time. For a loop of interval i and something
overdue since `base`, `Timely` bounds the clock: the next poll comes no later than base +
i + i * trouble, and what a poll has found is posted before the clock goes on, or a fault
is charged. The lemmas about it are stated for any loop and key and are used for the cron
triggers and for the outputs. For the health monitor, `NextLook` is when it looks again
and `MayTell` when it is free to tell; both stay within the time the property allows
(`IllnessIsTimely`). A failed send moves `MayTell` by the window it silences for, which is
why a fault costs a window there. This showed that the property asked for too little: it
was content with a message from before the illness, within a window of it. Now it asks for
one since. `LateIsLate` is the converse.

**RuntimeProofs** (assumes `AgenticLoopAssumption`, `QueuePauseAssumption`,
`McpPoolAssumption`, `InboundDispatchAssumption`, `BatchDispatchAssumption`,
`SkillTriggerAssumption`) has what a run passes through, each component on its own:

* `SpendStaysCapped`: a turn begins below the cap (`BelowCap`), and the streak is the
  failed calls at the end of the list of calls (`StreakIsReal`).
* `PauseTypes`, `OvershootStaysBounded`, `PausesStayOwned`: what the runs and the
  conversations under way may still add is part of the account of the day
  (`RunsAreCovered`); the marker that the monitor is about to clear owns nothing any more (`Owned`), and unless they crossed
  nobody is about to write it (`NoCrossing`).
* `PoolStaysSound`: the pool's client is connected and at most one is being connected
  (`PoolShape`), waiting runs wait for that one (`UsersAreServed`), without a pool a
  client has one run (`OwnersAreAlone`), and a server that runs is the pool's or a
  run's (`ServersAreKept`).
* `FanOutStaysAccountedFor`, `WaitersStayServed`: for the drawer in hand, the drawers of
  the tick and all others, which runs are due and which waitpoints are still asked
  (`FanOutIsCounted`, `DrawerIsOffered`); open waitpoints have no answer
  (`WaitersAreKept`).
* `ItemsStayAccountedFor`: an item that may be given to a run is in no live batch
  (`SelectionIsReady`), and the batch in hand is the last one (`BatchIsLast`).
* `RequestsStayCollapsed`: the queue holds the id of every job that was started
  (`IdsAreTaken`).
* `IngressStaysSound`: every behaviour of `Ingress` is one of its three components, so
  that the four invariants hold of the specification that the run checks.

## What is only model-checked

Liveness (`WaiterRuns`, `TimeoutHandled`, `Delivered`, `Dispatched`, `RunsEnd`,
`IngressIsServed`, `PausesEnd`, `WaitsEnd`), which is out of the prover's reach. Every
safety property that a passing run checks is also a theorem.

`TypeCorrect` of `ConcurrencyGroups`, `Approvals` and `RunLifecycle`, `WalTypes`,
`TypesHold`, `PauseTypes`, `TailIsLatest` and `RepairIsTargeted` are the other way round:
they are proved, and no run spends time on them.

## Findings

One run is expected to end in a counterexample.

* `lost_resumption`: a statement fails between the claim of a waitpoint and the
  outbox row. The click is left unmarked "so the resolver retries on next poll",
  but the retry finds the waitpoint gone and ignores the click: an approval that
  is recorded as decided and never acted on.

### Further disagreements

Sentences of comments and documents that the code does not keep. They came up
while the models were written; most are behaviours of the models, and each is a
property that TLC refutes when it is stated. They are kept here so that a change
of the code, or of the sentence, can be considered.

**Approvals**

* A button is ignored although its waitpoint stays open: "Waitpoint not found" =
  already resolved (approval-resolver.ts:354), but the claim uses FOR UPDATE SKIP
  LOCKED and reports the same while the reaper stamps `timeout_handled_at`.
* `on_timeout: deny | approve` of an approval output (docs/skill-authoring.md:247)
  never happens: apply.ts creates the waitpoint without notify metadata, and the
  reaper falls back to escalate (waitpoint-reaper.ts:54).
* "Expiry is a TERMINAL, single-fire transition (#231)" (waitpoint-reaper.ts:10):
  select and stamp are separate statements and the interval has no reentrance
  guard (worker.ts:1051), so two ticks may both insert an alert.
* "Resolution drawer written -> pillar-pipeline skill resumes (via outbox)"
  (approval-resolver.ts:14): without `handler_skill` the row carries the original
  run and step, whose job id has been used (queues.ts:60); while BullMQ retains that
  job the add does nothing and the row is marked processed.

**Delivery and notifications**

* "Concurrent callers for the same thread serialize via SKIP LOCKED"
  (delivery.ts:10, 138): the lock is on the marker row of one drawer; a second
  consumer takes the next drawer of the thread while the first is being sent.
* "dead: exhausted retries; ops alert fired; no further attempts"
  (021_pa_delivery_marker.sql): the late report of a reaped consumer updates the row
  whatever its status (delivery.ts:230) and revives it.
* "repeated POSTs with the same key collapse to one notification"
  (pa-notify.ts:304): lookup and insert are separate statements without a unique
  key.
* "the framework enforces exactly-once delivery even across worker crashes"
  (docs/architecture.md:377): a crash between send and mark, a statement that fails
  behind the send, or a send cut off after 15 seconds that arrives, all lead to a
  second post.
* The dispatcher "skips the dispatch rather than halting the worker"
  (notification-dispatcher.ts:21): skipped drawers get no row and stay the oldest of
  the select; a batch of them keeps everything behind unsent.

**Write-ahead log**

* "verification from the oldest remaining entry forward still works"
  (worker.ts:1015): in a workspace with fewer rows than the window the default check
  starts from the zero hash (verify-wal.ts:48) and reports a break after retention.
* `nexaas init` is "fully non-interactive, idempotent"
  (docs/zero-touch-onboarding.md:9): once retention has removed the genesis row, a
  rerun writes a second one behind the newest row (init.ts:435).
* A row is flagged only when "the chain verifier actually fails on it (hash
  recompute mismatch)" (wal.ts:262): the repair takes any broken verdict, flags a row
  that fails for its link, goes on behind it and returns valid, while the gate that
  runs next checks that link and fails.

**Runs and their watchdog**

* "every skill run, whatever its outcome, MUST produce a drawer that names *why* it
  ended" (skill-terminal.ts:2): the drawer of an ai-skill says ok before its outputs
  are verified; when that fails the run is only marked failed (ai-skill.ts:825).
* "alert fires exactly once per streak" (silent-failure-watchdog.ts:12): two runs
  that fail together are both counted before either is checked; both checks take
  the streak for alerted.

**Ingress**

* "the runId in the response identifies the run either way" (skills-trigger.ts:167):
  a repeated request gets a run id of its own, while the queue drops its job; and as
  job ids replace `/` by `-`, a request for the skill `a/b` may be answered with
  success while only a job of `a-b` runs. The queue is created without job options
  for removal, so ids are not forgotten either.
* "Each drawer fires each skill at most once" (docs/adoption-patterns/external-webhook-callback.md:144):
  a crash between the job and its row repeats the fan-out; a crash after the first row
  leaves the remaining subscribers out for good, since a drawer with any row is
  never selected again (inbound-dispatcher.ts:129).
* "Resolves at most one waitpoint per drawer" (inbound-match-waitpoint.ts:440): a
  message whose match is followed by a failing statement is offered again and may
  resolve another one. Waitpoints past their timeout match as well until the reaper
  has been there; a poll of the status between the two statements of a resolution
  reads expired, and later resolved; a cancelled one reads expired; and cancelling
  returns true for one that was answered in between.
* Items of a failed batch "don't re-fire under another batch_id"
  (batch-dispatcher.ts:465): they do, since only claimed, dispatched and completed
  batches hold their items; an item whose own fire failed even stays among the
  remaining items of that tick (line 513). Nothing ever sets a batch completed.
* A crossing of a cron between the last evaluation and a rebuild of the index is lost
  (line 137); `at` with `fire-with-empty` fires at every tick once its date is past;
  an item that is due behind `MAX_BATCH_SIZE` others that are not is never selected.

**Spending**

* "the monitor only resumes queues *it* paused" and the queue is "paused until local
  midnight" (docs/spend-governance.md:53, spend-budget-monitor.ts:109): the timer of
  a 429 that began before ends the pause of the budget, and no later tick renews it,
  since the marker names the day already. The gate of each run still holds.
* The overshoot is "at most (worker-concurrency x max_spend_usd) beyond the budget" and
  "bounded by per-run caps" (spend-governor.ts:20-22, docs/spend-governance.md:30):
  conversations with the assistant (pa/service.ts:309) and sub-agents (subagent.ts:92)
  take no slot, have no cap and record in the same row. In `QueuePause` with one slot and
  one conversation, `~waived => spent <= Budget + Cardinality(Slot) * RunCap` fails: both
  pass the gate before either records. `OvershootIsBounded` holds with their turns counted.
* The same bound speaks of recorded spend; a run that throws records none of what it
  has spent. A fallback model without a price in the registry is charged nothing, so no
  cap stops it.

**Upgrade, installation, skills**

* "The bad release never stays running" (docs/releases.md:112-114): the second attempt
  at restarting the worker is silent (upgrade.ts:628), the old process answers
  `/health`, and the command reports that it rolled back. In `Upgrade`, `cli.rolledBack`
  with `running = cli.left` is reached by one restart that fails.
* After a failed build the next `upgrade` finds HEAD at its target and says "up to
  date"; after a failed migration `upgrade --migrate` neither restarts nor gates.
* When the previous ref cannot be recorded, the older one stays and a rollback goes
  there; when the checkout of a rollback fails, the return address is overwritten.
* Two migration runners at once may both execute a file; an unreadable tracker makes
  the runner execute every file again.
* Killed between the private and the public key, every later init throws at the key
  pair; every rerun adds a row of `operator_keys`, and `systemctl start` does not give
  a running worker the new `.env`.
* Registration removes schedulers by name prefix, so registering `a` also removes
  those of `a-c` where entries are listed by key (register-skill.ts:385); a manifest
  that has lost its triggers keeps firing; an add-on that was deactivated is
  registered again by the next boot.
* `propagate accept` parses a JSONB column that is an object already, and always
  throws (propagate.ts:162). Two pushes at once register content twice, and content
  that was contributed before is reported unchanged although a newer one hides it.

**Worker process, watchdogs**

* The drain of 25 s is meant to end before "systemd's TimeoutStopSec"
  (bullmq/worker.ts:230); the unit says 15 (init.ts:496), so the sweep may never run.
* A start that fails behind `startWorker` leaves a process that consumes jobs while
  `/health` answers 503. A different `PORT` defeats the guard against two workers.
* "a broken collector nulls its field, it never blocks the beat" (heartbeat.ts:16):
  with Redis down the queue collector waits for a connection without a limit.
* An alert "doesn't repeat until the output ... stays silent for another full
  max_silence window" (output-staleness-watchdog.ts:30): the key does not change while
  it is silent, so it never repeats. A scheduler without `next` gets a new key with
  every tick.
* `notify` sets its dedupe key before it sends, and the key is the status: a failed
  send, or another trouble of the same status, is silenced for the window. The check
  "consecutive failures" counts three of the last five. Without Postgres the health
  check throws before it can tell anybody.

**Conformance and MCP**

* While the queue is paused for the budget the probe does not run, and an upgrade is
  rolled back for it. When the worker's reaper takes the suite's waitpoint too, both
  alert and the suite calls it a regression of #231; the suite's own reaper handles
  every expired waitpoint of the workspace.
* `disposed` flips on "stdin write failure" (client.ts:231): no such path sets it,
  and a failing write is an error event without a listener. A server that hangs
  stays in the pool; each call to it waits for its full timeout.

## Not modelled, and why

* Context assembly, retrieval, tag routing, manifest schemas: reads and pure
  functions over data whose results are prose or shapes; no interleaving matters.
* The contents of drawers, prompts and notifications.
* Cryptography (SHA-256, Ed25519 signatures) and PostgreSQL, Redis, BullMQ, git and
  systemd themselves: modelled from how the code uses them.
* Closet compaction, ingest and embeddings: they rebuild an index that can be
  rebuilt again.
* Adapters, e-mail providers, the SDK, the single-shot `execute()` of the gateway:
  translation of a request and its answer.
* The commands that only report (`status`, `migration-state`, `library list`, `diff`),
  the record of versions, and the rewrite of old unit files by `upgrade`.
* Reminders of waitpoints, escalated fleet events, the backup check of the suite:
  one statement or one POST without a state to come back to.

## Plan

In order of what matters; all are done.

1. **ConcurrencyGroups** with its proofs.
2. **Approvals**, its abstract specification **WaitpointDecision**, its proofs.
3. **PaDelivery** and 4. **NotificationDispatch**.
5. **WalChain** with its proofs.
6. **RunLifecycle** with its proofs.
7. **Ingress** and **Spending**.
8. **Deployment** (commands, worker processes, watchdogs) and **Operations**.
9. **DeploymentProofs**: repeated commands and worker processes.
10. **NotificationProofs**, **RuntimeProofs**, and the rest of **WalChainProofs**,
    **ApprovalsProofs**, **RunLifecycleProofs** and **DeploymentProofs**: every safety
    property that a run checks.
