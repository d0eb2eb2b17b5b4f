--------------------------- MODULE SkillSchedules ---------------------------
(***************************************************************************)
(* The cron schedulers of skills, kept in Redis, against the manifests on  *)
(* disk.  Schedulers are written by `nexaas register-skill(s)`             *)
(* (cli/src/register-skill.ts), by the self-heal at the start of the       *)
(* worker and by the add-on API (runtime/src/worker.ts), all of which      *)
(* list, remove and write one entry at a time.                             *)
(*                                                                         *)
(* A manifest is its number of cron triggers; the key <<s, 0>> stands for  *)
(* cron-<skill>, <<s, i>> for its i-th variant cron-<skill>-<i-1>.         *)
(***************************************************************************)
EXTENDS Integers, FiniteSets

CONSTANTS
  Skills,
  Shadows,        \* pairs <<s, t>>: the job name of t starts with that of s and a dash
  MaxCrons,       \* bound on cron triggers of a manifest
  Registrars,     \* processes that register or deactivate one skill
  Boot,           \* the self-heal of the worker
  MaxJobs,        \* bound on registrations, deactivations and boots
  MaxEdits,       \* bound on manifests written after the first
  MaxRedisFaults  \* bound on failed calls to Redis and killed processes

ASSUME SkillSchedulesAssumption ==
  /\ IsFiniteSet(Skills) /\ Shadows \subseteq Skills \X Skills /\ \A s \in Skills : <<s, s>> \notin Shadows
  /\ Boot \notin Registrars /\ {MaxCrons, MaxJobs, MaxEdits, MaxRedisFaults} \subseteq Nat

VARIABLES
  manifest,    \* manifest[s]: [triggered, crons]
  queue,       \* the keys of the schedulers in Redis
  namedByKey,  \* the listing names an entry by its key, not by the job it adds
  worker,      \* worker[p]: what process p is doing
  jobs, edits, redisFaults,
  quiet,       \* history: since the last process began, nothing else happened and nothing failed
  healed,      \* history: the self-heal has just ended quietly
  settled      \* history: the skill that was just registered quietly

scheduleVars == <<manifest, queue, namedByKey, worker, jobs, edits, redisFaults, quiet, healed, settled>>

Procs == Registrars \union {Boot}
\* A manifest that is not there or that has no triggers schedules nothing.
Manifests == {[triggered |-> FALSE, crons |-> 0]} \union [triggered : {TRUE}, crons : 0..MaxCrons]

\* Several cron triggers are numbered, a single one is not.
Keys(s, m) == CASE m.crons = 0 -> {}
                [] m.crons = 1 -> {<<s, 0>>}
                [] OTHER -> {s} \X (1..m.crons)

Free == [at |-> "free", todo |-> {}, skill |-> "none", stale |-> {}, write |-> {}, job |-> "none"]

SchedulesInit ==
  /\ manifest \in [Skills -> {m \in Manifests : m.crons > 0}]
  /\ queue = {} /\ namedByKey \in BOOLEAN
  /\ worker = [p \in Procs |-> Free]
  /\ jobs = 0 /\ edits = 0 /\ redisFaults = 0
  /\ quiet = TRUE /\ healed = FALSE /\ settled = {}

RedisFine == UNCHANGED <<redisFaults, quiet>>
RedisFault == redisFaults < MaxRedisFaults /\ redisFaults' = redisFaults + 1 /\ quiet' = FALSE

NewJob ==
  /\ jobs < MaxJobs /\ jobs' = jobs + 1
  /\ quiet' = (\A p \in Procs : worker[p].at = "free")
Unsettle == healed' = FALSE /\ settled' = {}

\* Somebody edits, installs or removes a manifest.
WriteManifest == \E s \in Skills, m \in Manifests :
  /\ edits < MaxEdits /\ edits' = edits + 1
  /\ manifest[s] # m /\ manifest' = [manifest EXCEPT ![s] = m]
  /\ quiet' = FALSE /\ Unsettle /\ UNCHANGED <<queue, namedByKey, worker, jobs, redisFaults>>

\* registerOneSkill, until it lists: errors and a manifest without triggers end it here,
\* whatever is scheduled.  The overlap check reads and warns.
StartRegister(p) == \E s \in Skills :
  /\ p \in Registrars /\ worker[p].at = "free" /\ NewJob
  /\ manifest[s].triggered
  /\ worker' = [worker EXCEPT ![p] =
       [Free EXCEPT !.at = "list", !.skill = s, !.write = Keys(s, manifest[s]), !.job = "register"]]
  /\ Unsettle /\ UNCHANGED <<manifest, queue, namedByKey, edits, redisFaults>>

\* POST /api/addons/activate with enable false: schedulers go, files stay.
StartDeactivate(p) == \E s \in Skills :
  /\ p \in Registrars /\ worker[p].at = "free" /\ NewJob
  /\ worker' = [worker EXCEPT ![p] = [Free EXCEPT !.at = "list", !.skill = s, !.job = "deactivate"]]
  /\ Unsettle /\ UNCHANGED <<manifest, queue, namedByKey, edits, redisFaults>>

\* reconcileSkillSchedulers: every manifest on disk in turn.
StartBoot ==
  /\ worker[Boot].at = "free" /\ NewJob
  /\ worker' = [worker EXCEPT ![Boot] = [Free EXCEPT !.at = "next", !.todo = Skills, !.job = "boot"]]
  /\ Unsettle /\ UNCHANGED <<manifest, queue, namedByKey, edits, redisFaults>>

NextManifest == \E s \in worker[Boot].todo :
  /\ worker[Boot].at = "next"
  /\ worker' = [worker EXCEPT ![Boot].todo = @ \ {s}, ![Boot].skill = s,
                              ![Boot].write = Keys(s, manifest[s]),
                              ![Boot].at = CASE manifest[s].crons = 0 -> "next"
                                             [] manifest[s].crons = 1 -> "write"
                                             [] OTHER -> "list"]
  /\ RedisFine /\ UNCHANGED <<manifest, queue, namedByKey, jobs, edits, healed, settled>>

\* Which listed entries count as left over: by prefix, or the unnumbered one for the
\* self-heal of several triggers.
ByPrefix(s) == {k \in queue : namedByKey /\ (k[1] = s \/ <<s, k[1]>> \in Shadows)}
ByNameTooWide(s) == ByPrefix(s)
ByName(s) == {k \in queue : namedByKey /\ k = <<s, 0>>}

List(p) ==
  /\ worker[p].at = "list"
  /\ \/ /\ RedisFine
        /\ worker' = [worker EXCEPT ![p].at = "remove",
             ![p].stale = IF p = Boot THEN ByName(worker[p].skill) ELSE ByPrefix(worker[p].skill)]
     \/ RedisFault /\ worker' = [worker EXCEPT ![p].at = "write"]
  /\ UNCHANGED <<manifest, queue, namedByKey, jobs, edits, healed, settled>>

\* A removal that fails gives up the others.
Remove(p) ==
  /\ worker[p].at = "remove"
  /\ \/ \E k \in worker[p].stale :
          /\ queue' = queue \ {k} /\ RedisFine
          /\ worker' = [worker EXCEPT ![p].stale = @ \ {k}]
     \/ worker[p].stale = {} /\ worker' = [worker EXCEPT ![p].at = "write"]
        /\ RedisFine /\ UNCHANGED queue
     \/ worker[p].stale # {} /\ RedisFault
        /\ worker' = [worker EXCEPT ![p].at = "write"] /\ UNCHANGED queue
  /\ UNCHANGED <<manifest, namedByKey, jobs, edits, healed, settled>>

\* upsertJobScheduler, one entry at a time; the self-heal counts a failure and goes on.
Upsert(p) == \E k \in worker[p].write :
  /\ worker[p].at = "write"
  /\ \/ RedisFine /\ queue' = queue \union {k}
     \/ p = Boot /\ RedisFault /\ UNCHANGED queue
  /\ worker' = [worker EXCEPT ![p].write = @ \ {k}]
  /\ UNCHANGED <<manifest, namedByKey, jobs, edits, healed, settled>>

\* Nothing left to write: the self-heal goes to the next manifest, the others are done.
EndSkill(p) ==
  /\ worker[p].at = "write" /\ worker[p].write = {}
  /\ IF p = Boot
     THEN /\ worker' = [worker EXCEPT ![p].at = "next"] /\ UNCHANGED settled
     ELSE /\ worker' = [worker EXCEPT ![p] = Free]
          /\ settled' = IF quiet /\ worker[p].job = "register" THEN {worker[p].skill} ELSE {}
  /\ RedisFine /\ UNCHANGED <<manifest, queue, namedByKey, jobs, edits, healed>>

EndBoot ==
  /\ worker[Boot].at = "next" /\ worker[Boot].todo = {}
  /\ worker' = [worker EXCEPT ![Boot] = Free]
  /\ healed' = quiet /\ UNCHANGED settled
  /\ RedisFine /\ UNCHANGED <<manifest, queue, namedByKey, jobs, edits>>

\* A failed upsert throws out of a registration; any process may be killed.
ProcessDies(p) ==
  /\ worker[p].at # "free" /\ RedisFault /\ worker' = [worker EXCEPT ![p] = Free]
  /\ UNCHANGED <<manifest, queue, namedByKey, jobs, edits, healed, settled>>

ScheduleStep(p) ==
  \/ StartRegister(p) \/ StartDeactivate(p) \/ List(p) \/ Remove(p) \/ Upsert(p)
  \/ EndSkill(p) \/ ProcessDies(p)

SchedulesNext ==
  WriteManifest \/ StartBoot \/ NextManifest \/ EndBoot \/ \E p \in Procs : ScheduleStep(p)

(* After a self-heal that nothing disturbed every cron trigger on disk has *)
(* its scheduler, those of skills with similar names included; and after   *)
(* such a registration the skill has exactly the schedulers of its         *)
(* manifest, none left over from an earlier number of triggers (#193),     *)
(* where the listing names entries by their keys.                          *)
SchedulesFollowManifests ==
  /\ healed => \A s \in Skills : Keys(s, manifest[s]) \subseteq queue
  /\ \A s \in settled :
       /\ Keys(s, manifest[s]) \subseteq queue
       /\ namedByKey => {k \in queue : k[1] = s} = Keys(s, manifest[s])
=============================================================================
