SPECIFICATION Spec
CONSTANTS
  Releases = {1, 2, 3}
  Fixes = {f1}
  MaxCommands = 3
  MaxFaults = 1
  NoRef = NoRef
  Files = {1, 2, 3, 4}
  Legacy = {1}
  Runners = {r1, r2}
  MaxSqlFaults = 2
  MaxInits = 4
  MaxInitFaults = 3
  skill = skill
  skillExtra = skillExtra
  Skills = {skill, skillExtra}
  Shadows <- MCShadows
  MaxCrons = 2
  Registrars = {p1}
  Boot = boot
  MaxJobs = 3
  MaxEdits = 1
  MaxRedisFaults = 1
  yaml = yaml
  prompt = prompt
  SkillFiles = {yaml, prompt}
  Yaml = yaml
  Variants = {1, 2}
  VersionOf <- MCVersionOf
  Clients = {c1, c2}
  MaxCommandsRun = 6
  Unit = unit
  Orphan = orphan
  NoProcess = NoProcess
  MaxStarts = 3
  MaxOutages = 2
  Period = 2
  Grace = 1
  MaxSilence = 2
  OutputInterval = 2
  CriticalWindow = 1
  WarningWindow = 2
  MaxTime = 7
  MaxTrouble = 2
INVARIANTS
  ReleasesAreReversible
  InstallationIsSound
  SkillsAreManaged
  OnlyOneWorks
  TroubleIsReported
CHECK_DEADLOCK FALSE
