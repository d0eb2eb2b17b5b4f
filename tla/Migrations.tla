----------------------------- MODULE Migrations -----------------------------
(***************************************************************************)
(* The tracked migration runner (cli/src/migrations.ts), shared by init    *)
(* and upgrade.  A runner reads the tracker once and then works through    *)
(* its list, one transaction per file; nothing keeps two commands on one   *)
(* box from running it at the same time.                                   *)
(***************************************************************************)
EXTENDS Integers, FiniteSets

CONSTANTS
  Files,       \* 1..n, in the order of their names
  Legacy,      \* files named below LEGACY_BOUNDARY
  Runners,     \* commands that run migrations
  MaxSqlFaults \* bound on failing statements and killed runners

ASSUME MigrationsAssumption ==
  /\ Files \subseteq Nat /\ IsFiniteSet(Files) /\ Legacy \subseteq Files
  /\ \A f \in Legacy, g \in Files \ Legacy : f < g
  /\ MaxSqlFaults \in Nat

VARIABLES
  tracker,     \* schema_migrations
  executed,    \* executed[f]: how often the statements of f were committed
  resolved,    \* legacy files recorded although they failed
  runner,      \* runner[r]: where it is, what it has left to do, what it was asked to do
  sqlFaults

migrationVars == <<tracker, executed, resolved, runner, sqlFaults>>

First(S) == CHOOSE f \in S : \A g \in S : f <= g

MigrationsInit ==
  /\ tracker = {} /\ executed = [f \in Files |-> 0] /\ resolved = {}
  /\ runner = [r \in Runners |-> [at |-> "idle", pending |-> {}, list |-> {}]]
  /\ sqlFaults = 0

SqlFault == sqlFaults < MaxSqlFaults /\ sqlFaults' = sqlFaults + 1
SqlFine == sqlFaults' = sqlFaults

\* getPendingMigrations: a tracker that cannot be read counts as empty.
ReadPending(r) ==
  /\ runner[r].at = "idle"
  /\ \E list \in {Files \ tracker, Files} :
       /\ IF list = Files \ tracker THEN SqlFine ELSE SqlFault
       /\ runner' = [runner EXCEPT ![r] = [at |-> "running", pending |-> list, list |-> list]]
  /\ UNCHANGED <<tracker, executed, resolved>>

Working(r) == runner[r].at = "running" /\ runner[r].pending # {}
Current(r) == First(runner[r].pending)
Advance(r) == runner' = [runner EXCEPT ![r].pending = @ \ {Current(r)}]
Record(r) == tracker' = tracker \union {Current(r)}

\* BEGIN, the file, its mark in the tracker, COMMIT.
ApplyFile(r) ==
  /\ Working(r) /\ Record(r) /\ Advance(r)
  /\ executed' = [executed EXCEPT ![Current(r)] = @ + 1]
  /\ UNCHANGED <<resolved, sqlFaults>>

\* A legacy file that fails is inapplicable here: it is marked, so that it is not tried again.
ResolveLegacy(r) ==
  /\ Working(r) /\ Current(r) \in Legacy /\ SqlFault
  /\ Record(r) /\ Advance(r) /\ resolved' = resolved \union {Current(r)}
  /\ UNCHANGED executed

StopAtFailureSkipping(r) ==
  /\ Working(r) /\ SqlFault /\ Advance(r)
  /\ UNCHANGED <<tracker, executed, resolved>>

\* Any other file that fails stops the runner; so does a mark that cannot be written.
StopAtFailure(r) ==
  /\ Working(r) /\ SqlFault
  /\ runner' = [runner EXCEPT ![r].at = "failed"]
  /\ UNCHANGED <<tracker, executed, resolved>>

FinishList(r) ==
  /\ runner[r].at = "running" /\ runner[r].pending = {}
  /\ runner' = [runner EXCEPT ![r].at = "done"]
  /\ UNCHANGED <<tracker, executed, resolved, sqlFaults>>

\* The command is killed and run again, or run again after it has reported.
RunAgain(r) ==
  /\ \/ runner[r].at = "running" /\ SqlFault
     \/ runner[r].at = "failed" /\ SqlFine
  /\ runner' = [runner EXCEPT ![r] = [at |-> "idle", pending |-> {}, list |-> {}]]
  /\ UNCHANGED <<tracker, executed, resolved>>

RunnerStep(r) ==
  ReadPending(r) \/ ApplyFile(r) \/ ResolveLegacy(r) \/ StopAtFailure(r) \/ FinishList(r) \/ RunAgain(r)

MigrationsNext == \E r \in Runners : RunnerStep(r)

(* What is marked as applied was executed, or is a legacy file that failed *)
(* (#72: marks without the statements behind them); marks never skip a     *)
(* file, however two runners interleave; and a runner that reports success *)
(* leaves nothing of its list unmarked.                                    *)
MigrationsAreExecuted ==
  /\ \A f \in tracker : executed[f] > 0 \/ f \in resolved \cap Legacy
  /\ \A f \in tracker, g \in Files : g < f => g \in tracker
  /\ \A r \in Runners : runner[r].at = "done" => runner[r].list \subseteq tracker
=============================================================================
