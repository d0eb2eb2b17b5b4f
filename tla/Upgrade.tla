------------------------------ MODULE Upgrade ------------------------------
(***************************************************************************)
(* `nexaas upgrade` (cli/src/upgrade.ts): moving one installation from     *)
(* release to release.  The command checks HEAD out, builds, migrates,     *)
(* restarts the worker, asks the conformance suite for a verdict and rolls *)
(* the code back when the verdict is bad.  Its only memory is the previous *)
(* ref in workspace_kv, and it may die between any two of these steps.     *)
(*                                                                         *)
(* A commit is a release with the hotfixes made on the box on top of it;   *)
(* releases are linear, and release r ships the migrations 1..r.           *)
(***************************************************************************)
EXTENDS Integers, FiniteSets

CONSTANTS
  Releases,     \* 1..n, oldest first
  Fixes,        \* hotfixes an operator may commit on the box
  MaxCommands,  \* bound on commands
  MaxFaults,    \* bound on failed statements, restarts and migrations, and on killed commands
  NoRef

ASSUME UpgradeAssumption ==
  /\ Releases \subseteq Nat \ {0} /\ 1 \in Releases /\ \A r \in Releases : 1..r \subseteq Releases
  /\ IsFiniteSet(Fixes) /\ MaxCommands \in Nat /\ MaxFaults \in Nat

VARIABLES
  head, attached,  \* the commit that is checked out, and whether by the branch
  tip,             \* the commit of the local branch
  prev,            \* framework_previous_ref: [at, attached], or NoRef
  dist, running,   \* the commits of the compiled files and of the worker process
  schema,          \* migrations 1..schema are applied
  patches,         \* hotfixes preserved as a patch bundle
  cli,             \* the command: its step, its options and what it knows
  commands, faults,
  cutShort,        \* history: releases checked out by a command that did not migrate
  made, letGo      \* history: hotfixes committed, and those the operator gave up

source == <<head, attached, tip>>
site == <<dist, running, schema>>
fixed == <<patches, made, letGo>>
budget == <<commands, faults>>
upgradeVars == <<source, prev, site, fixed, cli, budget, cutShort>>

Commit == [base : Releases, fixes : SUBSET Fixes]
Release(r) == [base |-> r, fixes |-> {}]
Ancestor(c, d) == c.base <= d.base /\ c.fixes \subseteq d.fixes

Steps == {"idle", "guard", "record", "checkout", "build", "migrate", "restart", "gate", "back"}
NoCommand(c) ==
  [step |-> "idle", mode |-> "none", target |-> c, reattach |-> FALSE, from |-> c, left |-> c,
   discard |-> FALSE, verify |-> FALSE, moved |-> FALSE, told |-> TRUE,
   restarted |-> FALSE, rolledBack |-> FALSE]

UpgradeInit ==
  /\ head = Release(1) /\ tip = head /\ attached = TRUE
  /\ prev = NoRef
  /\ dist = head /\ running = head /\ schema = 1
  /\ patches = {} /\ made = {} /\ letGo = {} /\ cutShort = {}
  /\ cli = NoCommand(head)
  /\ commands = 0 /\ faults = 0

Fault == faults < MaxFaults /\ faults' = faults + 1
Fine == faults' = faults
Goto(s) == cli' = [cli EXCEPT !.step = s]

Issue(mode, step, target, discard, verify) ==
  /\ cli.step = "idle" /\ commands < MaxCommands /\ commands' = commands + 1
  /\ cli' = [NoCommand(head) EXCEPT !.step = step, !.mode = mode, !.target = target,
                                    !.discard = discard, !.verify = verify]
  /\ UNCHANGED <<source, prev, site, fixed, faults, cutShort>>

\* upgrade --channel or --to: a commit on the box is fetched by name, no branch follows it.
UpgradePinned == \E r \in Releases, discard, verify \in BOOLEAN :
  Issue("pin", IF Release(r) = head THEN "migrate" ELSE "guard", Release(r), discard, verify)

\* Without a channel: pull the branch.  A detached HEAD is refused.
UpgradeTracking == \E r \in Releases, verify \in BOOLEAN :
  /\ attached
  /\ Issue("pull", IF r > head.base THEN "record" ELSE "migrate",
           [base |-> r, fixes |-> head.fixes], FALSE, verify)

MigrateOnly == Issue("migrate", "migrate", head, FALSE, FALSE)
RollBack == Issue("back", "back", head, FALSE, FALSE)

\* checkLocalDrift: commits that the target does not contain are bundled, then the
\* command stops unless told to discard them.  A bundle that cannot be written stops nothing.
Guard ==
  /\ cli.step = "guard"
  /\ \/ Ancestor(head, cli.target) /\ Goto("record") /\ Fine /\ UNCHANGED fixed
     \/ /\ ~Ancestor(head, cli.target)
        /\ \/ Fine /\ patches' = patches \union head.fixes
           \/ Fault /\ UNCHANGED patches
        /\ IF cli.discard THEN Goto("record") /\ letGo' = letGo \union head.fixes
                          ELSE Goto("idle") /\ UNCHANGED letGo
  /\ UNCHANGED <<source, prev, site, made, commands, cutShort>>

\* recordPreviousRef: before HEAD moves, best effort.
RecordPrevious ==
  /\ cli.step = "record"
  /\ \/ /\ prev' = [at |-> head, attached |-> attached]
        /\ Fine /\ Goto("checkout")
     \/ /\ Fault /\ UNCHANGED prev
        /\ cli' = [cli EXCEPT !.step = "checkout", !.told = FALSE]
  /\ UNCHANGED <<source, site, fixed, commands, cutShort>>

\* The checkout is detached, but a pull moves the branch, and a rollback goes back to
\* the branch as long as that has not moved.
Checkout ==
  /\ cli.step = "checkout"
  /\ head' = cli.target
  /\ attached' = CASE cli.mode = "pull" -> TRUE
                   [] cli.mode = "back" -> cli.reattach /\ tip = cli.target
                   [] OTHER -> FALSE
  /\ tip' = IF cli.mode = "pull" THEN cli.target ELSE tip
  /\ letGo' = IF cli.mode = "back" THEN letGo \union (head.fixes \ cli.target.fixes) ELSE letGo
  /\ cli' = [cli EXCEPT !.step = "build", !.moved = TRUE]
  /\ UNCHANGED <<prev, site, patches, made, budget, cutShort>>

\* postCheckoutSteps; releases differ in their sources.
Build ==
  /\ cli.step = "build" /\ dist' = head
  /\ Goto(IF cli.mode = "back" THEN "restart" ELSE "migrate")
  /\ UNCHANGED <<source, prev, running, schema, fixed, budget, cutShort>>

\* applyPendingMigrations in order of their names; a failed one ends the command.
Migrate ==
  /\ cli.step = "migrate"
  /\ \/ /\ schema' = IF head.base > schema THEN head.base ELSE schema
        /\ Goto(IF cli.mode = "migrate" THEN "idle" ELSE "restart")
        /\ Fine /\ UNCHANGED cutShort
     \/ /\ schema < head.base /\ schema' \in schema..(head.base - 1)
        /\ Goto("idle") /\ Fault
        /\ cutShort' = cutShort \union {head.base}
  /\ UNCHANGED <<source, prev, dist, running, fixed, commands>>

\* restartWorker and waitForHealth.  systemctl is tried with sudo and then without; that
\* the second attempt failed is lost, the old process goes on and may answer the health
\* check.  The gate opens for a healthy worker, whatever it runs, on a new commit.
RestartWorker ==
  /\ cli.step = "restart"
  /\ \E restarted, healthy \in BOOLEAN :
       /\ IF restarted THEN running' = dist /\ Fine ELSE UNCHANGED running /\ Fault
       /\ cli' = [cli EXCEPT
            !.step = IF cli.mode # "back" /\ cli.moved /\ healthy /\ cli.verify THEN "gate" ELSE "idle",
            !.restarted = restarted,
            !.rolledBack = cli.mode = "back"]
  /\ UNCHANGED <<source, prev, dist, schema, fixed, commands, cutShort>>

\* The suite passes (0) or could not run (2, or no answer), or fails (1), which rolls back.
Gate ==
  /\ cli.step = "gate"
  /\ \/ Goto("idle")
     \/ cli' = [cli EXCEPT !.step = "back", !.mode = "back", !.left = head]
  /\ UNCHANGED <<source, prev, site, fixed, budget, cutShort>>

ReadPreviousLate ==
  /\ cli.step = "back"
  /\ cli' = [cli EXCEPT !.step = "record", !.target = head, !.reattach = attached]
  /\ UNCHANGED <<source, prev, site, fixed, budget, cutShort>>

\* doRollback reads the previous ref, then records the one it leaves.
ReadPrevious ==
  /\ cli.step = "back"
  /\ IF prev = NoRef
     THEN Goto("idle")
     ELSE cli' = [cli EXCEPT !.step = "record", !.target = prev.at, !.reattach = prev.attached]
  /\ UNCHANGED <<source, prev, site, fixed, budget, cutShort>>

\* Any step may throw, or the command is killed; a rollback whose checkout fails ends as well.
CommandDies ==
  /\ cli.step # "idle" /\ Fault /\ Goto("idle")
  /\ cutShort' = IF cli.moved /\ cli.mode # "back" /\ cli.step \in {"build", "migrate"}
                 THEN cutShort \union {head.base} ELSE cutShort
  /\ UNCHANGED <<source, prev, site, fixed, commands>>

\* systemd restarts the worker on its own, whenever it dies.
WorkerComesBack ==
  /\ running # dist /\ running' = dist
  /\ UNCHANGED <<source, prev, dist, schema, fixed, cli, budget, cutShort>>

\* The operator commits a hotfix on the box, builds it and restarts the worker.
CommitFix == \E f \in Fixes \ made :
  /\ cli.step = "idle" /\ head = dist
  /\ head' = [head EXCEPT !.fixes = @ \union {f}]
  /\ tip' = IF attached THEN head' ELSE tip
  /\ dist' = head' /\ running' = head' /\ cli' = NoCommand(head') /\ made' = made \union {f}
  /\ UNCHANGED <<attached, prev, schema, patches, letGo, budget, cutShort>>

Command ==
  \/ UpgradePinned \/ UpgradeTracking \/ MigrateOnly \/ RollBack
  \/ Guard \/ RecordPrevious \/ Checkout \/ Build \/ Migrate \/ RestartWorker \/ Gate
  \/ ReadPrevious \/ CommandDies

UpgradeNext == Command \/ WorkerComesBack \/ CommitFix

UpgradeTypeOK ==
  /\ {head, tip, dist, running} \subseteq Commit
  /\ prev = NoRef \/ (prev.at \in Commit /\ prev.attached \in BOOLEAN)
  /\ schema \in Releases /\ cli.step \in Steps
  /\ UNION {patches, made, letGo} \subseteq Fixes /\ cutShort \subseteq Releases

----------------------------------------------------------------------------
(* A release that fails the conformance gate is left for the commit the    *)
(* command came from, which is built, and which runs if the worker was     *)
(* restarted, and the release it left can be returned to; unless the       *)
(* previous ref could not be recorded, of which the operator is told       *)
(* (upgrade.ts:412-442, 624-769).                                          *)
RejectedReleaseIsLeft ==
  cli.step = "idle" /\ cli.rolledBack /\ cli.left # cli.from /\ cli.told =>
    /\ head = cli.from /\ dist = head
    /\ cli.restarted => running = head
    /\ prev.at = cli.left

(* A hotfix committed on the box is in HEAD, or in a patch bundle, or the    *)
(* operator gave it up, by --discard-local or by a rollback (#287).          *)
LocalWorkIsKept == made \subseteq head.fixes \union patches \union letGo

(* Between commands the worker runs on a schema that has all its           *)
(* migrations, unless a command was cut short after it had checked that    *)
(* release out (upgrade.ts:334-345: migrations are never reverted, and     *)
(* come before the restart).                                               *)
SchemaFitsCode == cli.step = "idle" /\ running.base \notin cutShort => running.base <= schema

ReleasesAreReversible == UpgradeTypeOK /\ RejectedReleaseIsLeft /\ LocalWorkIsKept /\ SchemaFitsCode
=============================================================================
