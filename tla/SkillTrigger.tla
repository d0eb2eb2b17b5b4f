---------------------------- MODULE SkillTrigger ----------------------------
(***************************************************************************)
(* POST /api/skills/trigger (api/skills-trigger.ts): a caller starts a run *)
(* by hand, with or without an idempotency key, and may repeat a request   *)
(* whose answer it did not get.  The key is part of the job id, and the    *)
(* queue ignores an added job whose id it still holds.                     *)
(***************************************************************************)
EXTENDS Integers, Sequences, FiniteSets

CONSTANTS
  Call,       \* requests that reach the endpoint
  KeyOf,      \* KeyOf[c]: the idempotency key of c in its parts, or NoRun
  Valid,      \* calls that pass validateTriggerInput
  Skills,     \* skills with a manifest
  SkillOf,    \* SkillOf[c]: the skill that is asked for
  IdParts,    \* IdParts[s]: the id of s, cut at "/" and "-"
  Declared,   \* Declared[s]: the id in the manifest at the path of s
  NoRun

ASSUME SkillTriggerAssumption == Valid \subseteq Call /\ NoRun \notin Call

VARIABLES
  call,      \* call[c]: state of the request
  retained,  \* job ids the queue holds
  started,   \* calls whose job was added; the job runs as the run of the call
  audited    \* calls with an entry in the log

triggerVars == <<call, retained, started, audited>>

TriggerInit ==
  /\ call = [c \in Call |-> "new"]
  /\ retained = {} /\ started = {} /\ audited = {}

\* Mutant of JobId: the key is not part of the id.
JobIdOfRun(c) == IdParts[SkillOf[c]] \o <<c>>

\* manual-<skill>-<key>, or manual-<skill>-<run id>, with "/" written as "-".
JobId(c) == IdParts[SkillOf[c]] \o (IF KeyOf[c] = NoRun THEN <<c>> ELSE KeyOf[c])

Refused(c) == c \notin Valid \/ SkillOf[c] \notin Skills \/ Declared[SkillOf[c]] # SkillOf[c]

\* The answers 400 and 404.
Refuse(c) ==
  /\ call[c] = "new" /\ Refused(c)
  /\ call' = [call EXCEPT ![c] = "refused"]
  /\ UNCHANGED <<retained, started, audited>>

\* queue.add does nothing when the queue holds the id; this queue object has no
\* job options, so that nothing ever removes one.  The answer may be lost.
AddJob(c) ==
  /\ call[c] = "new" /\ ~Refused(c)
  /\ \/ /\ call' \in {[call EXCEPT ![c] = s] : s \in {"audit", "error"}}
        /\ retained' = retained \union {JobId(c)}
        /\ started' = IF JobId(c) \in retained THEN started ELSE started \union {c}
     \/ call' = [call EXCEPT ![c] = "error"] /\ UNCHANGED <<retained, started>>
  /\ UNCHANGED audited

\* The audit entry is best effort; the answer names the run of this call.
Audit(c) ==
  /\ call[c] = "audit"
  /\ call' = [call EXCEPT ![c] = "accepted"]
  /\ audited' \in {audited, audited \union {c}}
  /\ UNCHANGED <<retained, started>>

TriggerNext == \E c \in Call : Refuse(c) \/ AddJob(c) \/ Audit(c)

TriggerSpec == TriggerInit /\ [][TriggerNext]_triggerVars

TriggerTypeOK ==
  /\ call \in [Call -> {"new", "refused", "audit", "error", "accepted"}]
  /\ started \subseteq Call /\ audited \subseteq Call

\* Requests of one skill with one key start one run, however often and however
\* concurrently they are sent, and an accepted request has such a run, of its
\* own or of another request with the same job id (executeTrigger).
RequestsCollapse ==
  /\ TriggerTypeOK
  /\ \A c, e \in started :
       c # e /\ SkillOf[c] = SkillOf[e] => KeyOf[c] = NoRun \/ KeyOf[c] # KeyOf[e]
  /\ \A c \in Call : call[c] = "accepted" =>
       Cardinality({e \in started : JobId(e) = JobId(c)}) = 1

=============================================================================
