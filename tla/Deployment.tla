----------------------------- MODULE Deployment -----------------------------
(***************************************************************************)
(* What operators do to an installation: install it, move it from release  *)
(* to release, migrate its database, register the schedules of its skills  *)
(* and share their files; and what then runs there, the processes of the   *)
(* worker and the watchdogs.  These work on different state; a behaviour   *)
(* is about one.                                                           *)
(***************************************************************************)
EXTENDS Upgrade, Migrations, Install, SkillSchedules, SkillLibrary, WorkerProcess, Watchdogs

VARIABLE part  \* what the behaviour is about

commandVars == <<upgradeVars, migrationVars, installVars, scheduleVars, libraryVars>>
vars == <<part, commandVars, processesVars, watchVars>>

Init ==
  /\ part \in {"upgrade", "migrate", "install", "schedules", "library", "processes", "watchdogs"}
  /\ UpgradeInit /\ MigrationsInit /\ InstallInit /\ SchedulesInit /\ LibraryInit
  /\ WorkerInit /\ WatchdogsInit
  /\ part # "schedules" => namedByKey /\ \A s \in Skills : manifest[s].crons = 1
  /\ part # "watchdogs" => watched = {"health"} /\ produced = 0

runningVars == <<processesVars, watchVars>>

OfUpgrade ==
  part = "upgrade" /\ UNCHANGED <<part, migrationVars, installVars, scheduleVars, libraryVars, runningVars>>
OfMigrate ==
  part = "migrate" /\ UNCHANGED <<part, upgradeVars, installVars, scheduleVars, libraryVars, runningVars>>
OfInstall ==
  part = "install" /\ UNCHANGED <<part, upgradeVars, migrationVars, scheduleVars, libraryVars, runningVars>>
OfSchedules ==
  part = "schedules" /\ UNCHANGED <<part, upgradeVars, migrationVars, installVars, libraryVars, runningVars>>
OfLibrary ==
  part = "library" /\ UNCHANGED <<part, upgradeVars, migrationVars, installVars, scheduleVars, runningVars>>
OfProcesses == part = "processes" /\ UNCHANGED <<part, commandVars, watchVars>>
OfWatchdogs == part = "watchdogs" /\ UNCHANGED <<part, commandVars, processesVars>>

Next ==
  \/ OfUpgrade /\ UpgradeNext
  \/ OfMigrate /\ MigrationsNext
  \/ OfInstall /\ InstallNext
  \/ OfSchedules /\ SchedulesNext
  \/ OfLibrary /\ LibraryNext
  \/ OfProcesses /\ WorkerNext
  \/ OfWatchdogs /\ WatchdogsNext

Spec == Init /\ [][Next]_vars

(* An installation survives reruns: no migration is marked that was not run, *)
(* and no credential that somebody holds is replaced.                        *)
InstallationIsSound == MigrationsAreExecuted /\ InstallIsRepeatable

(* The schedules in Redis and the library of skills say what the manifests   *)
(* and contributions say, as long as the commands do not overlap.            *)
SkillsAreManaged == SchedulesFollowManifests /\ LibraryIsOrderly
=============================================================================
