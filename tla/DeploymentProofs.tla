-------------------------- MODULE DeploymentProofs --------------------------
(***************************************************************************)
(* Proofs about the life of an installation: no migration is marked that   *)
(* was not executed, no credential that somebody holds is replaced, one    *)
(* process works for the workspace, and a release that is rejected is left *)
(* for the commit the upgrade came from.  And about the suite that rejects *)
(* it: its verdict has a cause.  And about the schedules and the library   *)
(* of skills, which follow their manifests and contributions; and about    *)
(* the watchdogs, which report in time.  For any set of migrations,        *)
(* releases, hotfixes, skills, runners and processes, any periods, and any *)
(* number of runs and faults.                                              *)
(***************************************************************************)
EXTENDS Deployment, Conformance, NatMinMax, SequenceTheorems, FiniteSetTheorems

-----------------------------------------------------------------------------
(* Migrations *)

RunnerState ==
  [at : {"idle", "running", "failed", "done"}, pending : SUBSET Files, list : SUBSET Files]

MigrationTypes ==
  /\ tracker \subseteq Files /\ resolved \subseteq Files
  /\ executed \in [Files -> Nat]
  /\ runner \in [Runners -> RunnerState]

\* What a runner has left to do ends the list of files: everything before it
\* is marked, by this runner or by the one whose mark it has read.
Upward(r) == runner[r].at = "running" => Files \ runner[r].pending \subseteq tracker

MigrationInv == MigrationTypes /\ MigrationsAreExecuted /\ \A r \in Runners : Upward(r)

\* The file a runner works on is the first of those it has left.
LEMMA CurrentIsFirst ==
  ASSUME MigrationTypes, NEW r \in Runners, Working(r)
  PROVE  /\ Current(r) \in runner[r].pending
         /\ Current(r) \in Files
         /\ \A g \in runner[r].pending : Current(r) <= g
<1>1. runner[r].pending \in SUBSET Files /\ runner[r].pending # {}
  BY DEF MigrationTypes, RunnerState, Working
<1>2. PICK m \in runner[r].pending : \A g \in runner[r].pending : m <= g
  BY <1>1, NatMin, MigrationsAssumption
<1>3. Current(r) \in runner[r].pending /\ \A g \in runner[r].pending : Current(r) <= g
  BY <1>2 DEF Current, First
<1> QED BY <1>1, <1>3

\* A mark that is set by a runner for its current file leaves no gap.
LEMMA RecordKeepsOrder ==
  ASSUME MigrationInv, NEW r \in Runners, Working(r), Record(r), Advance(r)
  PROVE  /\ tracker' \subseteq Files
         /\ runner' \in [Runners -> RunnerState]
         /\ \A f \in tracker', g \in Files : g < f => g \in tracker'
         /\ \A q \in Runners : runner'[q].at = "done" => runner'[q].list \subseteq tracker'
         /\ \A q \in Runners : Upward(q)'
<1> DEFINE c == Current(r)
<1>1. c \in runner[r].pending /\ c \in Files /\ \A g \in runner[r].pending : c <= g
  BY CurrentIsFirst DEF MigrationInv
<1>2. tracker' = tracker \union {c}
  BY DEF Record
<1>3. runner' = [runner EXCEPT ![r].pending = runner[r].pending \ {c}]
  BY DEF Advance
<1>4. runner[r].at = "running" /\ runner[r] \in RunnerState
  BY DEF Working, MigrationInv, MigrationTypes
<1> HIDE DEF c
<1>5. tracker' \subseteq Files
  BY <1>1, <1>2 DEF MigrationInv, MigrationTypes
<1>6. \A q \in Runners :
        /\ runner'[q].at = runner[q].at /\ runner'[q].list = runner[q].list
        /\ runner'[q].pending = IF q = r THEN runner[r].pending \ {c} ELSE runner[q].pending
        /\ runner'[q] \in RunnerState
  BY <1>3 DEF MigrationInv, MigrationTypes, RunnerState
<1>7. runner' \in [Runners -> RunnerState]
  <2>1. runner' = [q \in Runners |-> runner'[q]]
    BY <1>3 DEF MigrationInv, MigrationTypes
  <2> QED BY <2>1, <1>6
<1>8. \A f \in tracker', g \in Files : g < f => g \in tracker'
  <2> SUFFICES ASSUME NEW f \in tracker', NEW g \in Files, g < f PROVE g \in tracker'
    OBVIOUS
  <2>1. CASE f \in tracker
    BY <2>1, <1>2 DEF MigrationInv, MigrationsAreExecuted
  <2>2. CASE f = c
    <3>1. g \notin runner[r].pending
      BY <2>2, <1>1, MigrationsAssumption
    <3>2. Files \ runner[r].pending \subseteq tracker
      BY <1>4 DEF MigrationInv, Upward
    <3> QED BY <3>1, <3>2, <1>2
  <2> QED BY <2>1, <2>2, <1>2
<1>9. \A q \in Runners : runner'[q].at = "done" => runner'[q].list \subseteq tracker'
  BY <1>2, <1>6 DEF MigrationInv, MigrationsAreExecuted
<1>10. \A q \in Runners : Upward(q)'
  BY <1>2, <1>6 DEF MigrationInv, Upward
<1> QED BY <1>5, <1>7, <1>8, <1>9, <1>10

\* The tracker starts empty.
LEMMA MigrationStart == MigrationsInit => MigrationInv
  BY DEF MigrationsInit, MigrationInv, MigrationTypes, RunnerState, MigrationsAreExecuted, Upward

\* Every statement of a runner keeps the invariant.
LEMMA MigrationStep ==
  ASSUME MigrationInv, NEW r \in Runners, RunnerStep(r)
  PROVE  MigrationInv'
<1> USE DEF MigrationInv
<1>0. runner[r] \in RunnerState
  BY DEF MigrationTypes
<1>1. CASE ReadPending(r)
  <2>1. PICK list \in {Files \ tracker, Files} :
          runner' = [runner EXCEPT ![r] = [at |-> "running", pending |-> list, list |-> list]]
    BY <1>1 DEF ReadPending
  <2>2. UNCHANGED <<tracker, executed, resolved>>
    BY <1>1 DEF ReadPending
  <2>3. list \subseteq Files /\ Files \ list \subseteq tracker
    OBVIOUS
  <2>4. MigrationTypes'
    BY <2>1, <2>2, <2>3 DEF MigrationTypes, RunnerState
  <2>5. MigrationsAreExecuted'
    BY <2>1, <2>2 DEF MigrationsAreExecuted, MigrationTypes
  <2>6. \A q \in Runners : Upward(q)'
    BY <2>1, <2>2, <2>3 DEF Upward, MigrationTypes
  <2> QED BY <2>4, <2>5, <2>6
<1>2. CASE ApplyFile(r)
  <2>1. Working(r) /\ Record(r) /\ Advance(r)
    BY <1>2 DEF ApplyFile
  <2>2. Current(r) \in Files
    BY <2>1, CurrentIsFirst
  <2>3. /\ executed' = [executed EXCEPT ![Current(r)] = executed[Current(r)] + 1]
        /\ resolved' = resolved
    BY <1>2 DEF ApplyFile
  <2>4. executed' \in [Files -> Nat] /\ executed'[Current(r)] > 0
    BY <2>2, <2>3 DEF MigrationTypes
  <2>5. \A f \in tracker : executed'[f] > 0 \/ f \in resolved' \cap Legacy
    BY <2>2, <2>3 DEF MigrationTypes, MigrationsAreExecuted
  <2>6. \A f \in tracker' : executed'[f] > 0 \/ f \in resolved' \cap Legacy
    BY <2>1, <2>4, <2>5 DEF Record
  <2> QED BY <2>1, <2>3, <2>4, <2>6, RecordKeepsOrder DEF MigrationTypes, MigrationsAreExecuted
<1>3. CASE ResolveLegacy(r)
  <2>1. Working(r) /\ Record(r) /\ Advance(r)
    BY <1>3 DEF ResolveLegacy
  <2>2. /\ Current(r) \in Legacy /\ executed' = executed
        /\ resolved' = resolved \union {Current(r)}
    BY <1>3 DEF ResolveLegacy
  <2>3. Current(r) \in Files
    BY <2>1, CurrentIsFirst
  <2>4. \A f \in tracker' : executed'[f] > 0 \/ f \in resolved' \cap Legacy
    BY <2>1, <2>2 DEF Record, MigrationsAreExecuted
  <2> QED BY <2>1, <2>2, <2>3, <2>4, RecordKeepsOrder DEF MigrationTypes, MigrationsAreExecuted
<1>4. CASE StopAtFailure(r)
  <2>1. /\ runner' = [runner EXCEPT ![r].at = "failed"]
        /\ UNCHANGED <<tracker, executed, resolved>>
    BY <1>4 DEF StopAtFailure
  <2> QED BY <1>0, <2>1 DEF MigrationTypes, RunnerState, MigrationsAreExecuted, Upward
<1>5. CASE FinishList(r)
  <2>1. /\ runner' = [runner EXCEPT ![r].at = "done"]
        /\ UNCHANGED <<tracker, executed, resolved>>
        /\ runner[r].at = "running" /\ runner[r].pending = {}
    BY <1>5 DEF FinishList
  <2>2. runner[r].list \subseteq tracker
    BY <1>0, <2>1 DEF Upward, RunnerState
  <2> QED BY <1>0, <2>1, <2>2 DEF MigrationTypes, RunnerState, MigrationsAreExecuted, Upward
<1>6. CASE RunAgain(r)
  <2>1. /\ runner' = [runner EXCEPT ![r] = [at |-> "idle", pending |-> {}, list |-> {}]]
        /\ UNCHANGED <<tracker, executed, resolved>>
    BY <1>6 DEF RunAgain
  <2> QED BY <2>1 DEF MigrationTypes, RunnerState, MigrationsAreExecuted, Upward
<1> QED BY <1>1, <1>2, <1>3, <1>4, <1>5, <1>6 DEF RunnerStep
-----------------------------------------------------------------------------
(* Installation *)

EnvState == [db : Nat, bearer : Nat, fleet : Seq(Nat)]
InitSteps == {"idle", "migrate", "env", "fleet", "key", "public", "register", "start", "verify"}

InstallTypes ==
  /\ role \in Nat /\ minted \in Nat
  /\ envFile \in EnvState /\ workerEnv \in EnvState
  /\ keyFile \in [private : Nat, public : Nat]
  /\ keyRows \in Seq(Nat)
  /\ init \in [step : InitSteps, db : Nat]

\* The bearer token exists with the .env, and only a .env gives the worker one.
EnvInv ==
  /\ envFile = NoEnv => bearers = {} /\ workerEnv = NoEnv
  /\ envFile # NoEnv => envFile.db = role /\ bearers = {envFile.bearer} /\ envFile.bearer > 0
  /\ workerEnv # NoEnv => workerEnv.db = role /\ bearers = {workerEnv.bearer}

\* Until the .env is written the command knows the password of the role; from
\* then on there is a .env.
CommandInv ==
  /\ init.step \in {"migrate", "env"} => init.db = role
  /\ init.step \in {"fleet", "key", "public", "register", "start", "verify"} => envFile # NoEnv

\* No row is registered before there is a public key.
KeyInv ==
  /\ keyFile.public \in {0, keyFile.private}
  /\ \A i \in 1 .. Len(keyRows) : keyRows[i] = keyFile.public /\ keyRows[i] # 0

InstallInv == InstallTypes /\ EnvInv /\ CommandInv /\ KeyInv

\* The properties of the run follow.
LEMMA InstallInvSuffices == InstallInv => InstallIsRepeatable
<1>1. InstallInv => DOMAIN keyRows = 1 .. Len(keyRows)
  BY DEF InstallInv, InstallTypes
<1> QED BY <1>1 DEF InstallInv, EnvInv, KeyInv, InstallIsRepeatable

\* Nothing is installed at first.
LEMMA InstallStart == InstallInit => InstallInv
<1> SUFFICES ASSUME InstallInit PROVE InstallInv
  OBVIOUS
<1>1. NoEnv \in EnvState
  BY DEF NoEnv, EnvState
<1>2. InstallTypes
  BY <1>1 DEF InstallInit, InstallTypes, InitSteps, Idle
<1>3. EnvInv /\ CommandInv /\ KeyInv
  BY DEF InstallInit, EnvInv, CommandInv, KeyInv, Idle
<1> QED BY <1>2, <1>3 DEF InstallInv

\* A step of the command that leaves the credentials alone changes only where
\* it is.
LEMMA CommandMoves ==
  ASSUME InstallInv, NEW here \in InitSteps, NEW there \in InitSteps,
         Step(here, there), UNCHANGED <<credentials, workerEnv, minted, bearers>>,
         there = "idle" \/ <<here, there>> \in {<<"migrate", "env">>, <<"start", "verify">>}
  PROVE  InstallInv'
<1>1. init' = [init EXCEPT !.step = there] /\ init.step = here
  BY DEF Step
<1>2. init'.step = there /\ init'.db = init.db /\ init' \in [step : InitSteps, db : Nat]
  BY <1>1 DEF InstallInv, InstallTypes
<1> QED BY <1>1, <1>2 DEF InstallInv, InstallTypes, EnvInv, CommandInv, KeyInv, credentials

\* Every step of init, and of what dies or restarts around it, keeps the
\* invariant.
LEMMA InstallStep == InstallInv /\ InstallNext => InstallInv'
<1> SUFFICES ASSUME InstallInv, InstallNext PROVE InstallInv'
  OBVIOUS
<1> USE DEF InstallInv
<1>0. /\ InstallTypes /\ init.step \in InitSteps /\ init.db \in Nat
      /\ envFile.db \in Nat /\ envFile.bearer \in Nat /\ envFile.fleet \in Seq(Nat)
      /\ keyFile.private \in Nat /\ keyFile.public \in Nat
  BY DEF InstallTypes, EnvState
<1>1. CASE ChooseDatabase
  <2>1. /\ init.step = "idle"
        /\ UNCHANGED <<envFile, keyFile, keyRows, workerEnv, bearers>>
    BY <1>1 DEF ChooseDatabase
  <2>2. \/ /\ envFile # NoEnv /\ init' = [step |-> "migrate", db |-> envFile.db]
           /\ role' = role /\ minted' = minted
        \/ /\ envFile = NoEnv /\ minted' = minted + 1
           /\ role' = minted' /\ init' = [step |-> "migrate", db |-> minted']
    BY <1>1 DEF ChooseDatabase, Mint
  <2>3. InstallTypes'
    BY <1>0, <2>1, <2>2 DEF InstallTypes, InitSteps
  <2>4. EnvInv' /\ CommandInv'
    BY <2>1, <2>2 DEF EnvInv, CommandInv
  <2>5. KeyInv'
    BY <2>1 DEF KeyInv
  <2> QED BY <2>3, <2>4, <2>5
<1>2. CASE SetUpDatabase
  <2>1. UNCHANGED <<credentials, workerEnv, minted, bearers>>
    BY <1>2 DEF SetUpDatabase, Keep
  <2>2. Step("migrate", "env") \/ Step("migrate", "idle")
    BY <1>2 DEF SetUpDatabase
  <2> QED BY <2>1, <2>2, CommandMoves DEF InitSteps
<1>3. CASE WriteEnv
  <2>1. /\ init.step = "env" /\ init' = [init EXCEPT !.step = "fleet"]
        /\ UNCHANGED <<role, keyFile, keyRows, workerEnv>>
        /\ bearers' = bearers \union {envFile'.bearer}
        /\ minted' = IF envFile.bearer = 0 THEN minted + 1 ELSE minted
    BY <1>3 DEF WriteEnv, Step, Keep, Mint
  <2>2. /\ envFile'.db = init.db
        /\ envFile'.bearer = IF envFile.bearer = 0 THEN minted' ELSE envFile.bearer
        /\ envFile' = [db |-> envFile'.db, bearer |-> envFile'.bearer, fleet |-> envFile'.fleet]
        /\ envFile'.fleet = IF envFile.fleet = <<>> THEN <<>> ELSE <<Head(envFile.fleet)>>
    BY <1>3 DEF WriteEnv
  <2>3. envFile'.bearer \in Nat /\ envFile'.bearer > 0 /\ minted' \in Nat
    BY <1>0, <2>1, <2>2 DEF InstallTypes
  <2>4. envFile'.fleet \in Seq(Nat)
    BY <1>0, <2>2
  <2>5. envFile' \in EnvState /\ envFile' # NoEnv
    <3>1. /\ envFile' = [db |-> init.db, bearer |-> envFile'.bearer, fleet |-> envFile'.fleet]
          /\ init.db \in Nat
      BY <1>0, <2>2
    <3>2. envFile' \in EnvState
      BY <2>3, <2>4, <3>1 DEF EnvState
    <3>3. envFile' # NoEnv
      BY <2>3 DEF NoEnv
    <3> QED BY <3>2, <3>3
  <2>6. init'.step = "fleet" /\ init' \in [step : InitSteps, db : Nat]
    BY <1>0, <2>1 DEF InstallTypes, InitSteps
  <2>7. InstallTypes'
    BY <2>1, <2>3, <2>5, <2>6 DEF InstallTypes
  <2>8. envFile'.db = role /\ bearers' = {envFile'.bearer}
    <3>1. init.db = role
      BY <2>1 DEF CommandInv
    <3>2. CASE envFile = NoEnv
      BY <2>1, <2>2, <3>1, <3>2 DEF EnvInv
    <3>3. CASE envFile # NoEnv
      BY <2>1, <2>2, <3>1, <3>3 DEF EnvInv
    <3> QED BY <3>2, <3>3
  <2>9. EnvInv'
    <3>1. workerEnv # NoEnv => workerEnv.db = role /\ bearers = {workerEnv.bearer} /\ envFile # NoEnv
      BY DEF EnvInv
    <3>2. workerEnv # NoEnv => bearers' = bearers
      BY <3>1, <2>1, <2>2 DEF EnvInv
    <3> QED BY <2>1, <2>3, <2>5, <2>8, <3>1, <3>2 DEF EnvInv
  <2> QED BY <2>1, <2>5, <2>6, <2>7, <2>9 DEF CommandInv, KeyInv
<1>4. CASE RegisterFleet
  <2>1. /\ init.step = "fleet" /\ init' = [init EXCEPT !.step = "key"]
        /\ UNCHANGED <<role, keyFile, keyRows, workerEnv, bearers>>
    BY <1>4 DEF RegisterFleet, Step, Keep
  <2>2. \/ minted' = minted + 1
           /\ envFile' = [envFile EXCEPT !.fleet = Append(envFile.fleet, minted')]
        \/ envFile' = envFile /\ minted' = minted
    BY <1>4 DEF RegisterFleet, Mint
  <2>3. minted' \in Nat
    BY <2>2 DEF InstallTypes
  <2>4. envFile' \in EnvState /\ envFile'.db = envFile.db /\ envFile'.bearer = envFile.bearer
    <3>1. Append(envFile.fleet, minted') \in Seq(Nat)
      BY <1>0, <2>3
    <3> QED BY <2>2, <3>1 DEF InstallTypes, EnvState
  <2>5. envFile # NoEnv
    BY <2>1 DEF CommandInv
  <2>6. envFile' # NoEnv
    BY <2>4, <2>5 DEF EnvInv, NoEnv
  <2>7. init'.step = "key" /\ init' \in [step : InitSteps, db : Nat]
    BY <1>0, <2>1 DEF InstallTypes, InitSteps
  <2> QED BY <2>1, <2>3, <2>4, <2>5, <2>6, <2>7 DEF InstallTypes, EnvInv, CommandInv, KeyInv
<1>5. CASE WritePrivateKey
  <2>1. UNCHANGED <<role, envFile, keyRows, workerEnv, bearers>> /\ init.step = "key"
    BY <1>5 DEF WritePrivateKey, Keep, Step
  <2>2. \E there \in {"public", "register"} : init' = [init EXCEPT !.step = there]
    BY <1>5 DEF WritePrivateKey, Step
  <2>3. init'.step \in {"public", "register"} /\ init' \in [step : InitSteps, db : Nat]
    BY <1>0, <2>2 DEF InstallTypes, InitSteps
  <2>4. \/ keyFile.private = 0 /\ minted' = minted + 1 /\ keyFile' = [keyFile EXCEPT !.private = minted']
        \/ UNCHANGED <<keyFile, minted>>
    BY <1>5 DEF WritePrivateKey, Mint
  <2>5. /\ minted' \in Nat /\ keyFile' \in [private : Nat, public : Nat]
        /\ keyFile'.public = keyFile.public /\ keyFile'.public \in {0, keyFile'.private}
    BY <1>0, <2>4 DEF InstallTypes, KeyInv
  <2>6. envFile # NoEnv
    BY <2>1 DEF CommandInv
  <2> QED BY <2>1, <2>3, <2>5, <2>6 DEF InstallTypes, EnvInv, CommandInv, KeyInv
<1>6. CASE WritePublicKey
  <2>1. /\ UNCHANGED <<role, envFile, keyRows, workerEnv, minted, bearers>> /\ init.step = "public"
        /\ init' = [init EXCEPT !.step = "register"]
        /\ keyFile' = [keyFile EXCEPT !.public = keyFile.private]
    BY <1>6 DEF WritePublicKey, Keep, Step
  <2>2. init'.step = "register" /\ init' \in [step : InitSteps, db : Nat]
    BY <1>0, <2>1 DEF InstallTypes, InitSteps
  <2>3. /\ keyFile' \in [private : Nat, public : Nat]
        /\ keyFile'.public = keyFile.private /\ keyFile'.private = keyFile.private
    BY <1>0, <2>1 DEF InstallTypes
  <2>4. KeyInv'
    BY <2>1, <2>3 DEF KeyInv
  <2>5. envFile # NoEnv
    BY <2>1 DEF CommandInv
  <2> QED BY <2>1, <2>2, <2>3, <2>4, <2>5 DEF InstallTypes, EnvInv, CommandInv
<1>7. CASE RegisterKey
  <2>1. UNCHANGED <<role, envFile, keyFile, workerEnv, minted, bearers>> /\ init.step = "register"
    BY <1>7 DEF RegisterKey, Keep, Step
  <2>2. \E there \in {"idle", "start"} : init' = [init EXCEPT !.step = there]
    BY <1>7 DEF RegisterKey, Step
  <2>3. init'.step \in {"idle", "start"} /\ init' \in [step : InitSteps, db : Nat]
    BY <1>0, <2>2 DEF InstallTypes, InitSteps
  <2>4. \/ keyRows' = keyRows
        \/ keyFile.public # 0 /\ keyRows' = Append(keyRows, keyFile.public)
    BY <1>7 DEF RegisterKey
  <2>5. keyRows' \in Seq(Nat) /\ \A i \in 1 .. Len(keyRows') : keyRows'[i] = keyFile.public /\ keyRows'[i] # 0
    <3>1. CASE keyRows' = keyRows
      BY <3>1 DEF InstallTypes, KeyInv
    <3>2. CASE keyFile.public # 0 /\ keyRows' = Append(keyRows, keyFile.public)
      <4>1. /\ keyRows \in Seq(Nat) /\ keyFile.public \in Nat
            /\ \A i \in 1 .. Len(keyRows) : keyRows[i] = keyFile.public /\ keyRows[i] # 0
        BY <1>0 DEF InstallTypes, KeyInv
      <4>2. /\ keyRows' \in Seq(Nat) /\ Len(keyRows') = Len(keyRows) + 1
            /\ \A i \in 1 .. Len(keyRows) : keyRows'[i] = keyRows[i]
            /\ keyRows'[Len(keyRows) + 1] = keyFile.public
        BY <3>2, <4>1, AppendProperties
      <4>3. \A i \in 1 .. Len(keyRows') : i \in 1 .. Len(keyRows) \/ i = Len(keyRows) + 1
        BY <4>1, <4>2
      <4> QED BY <3>2, <4>1, <4>2, <4>3
    <3> QED BY <2>4, <3>1, <3>2
  <2>6. envFile # NoEnv
    BY <2>1 DEF CommandInv
  <2> QED BY <2>1, <2>3, <2>5, <2>6 DEF InstallTypes, EnvInv, CommandInv, KeyInv
<1>8. CASE StartService
  <2>1. UNCHANGED <<credentials, minted, bearers>> /\ init.step = "start"
    BY <1>8 DEF StartService, Keep, Step
  <2>2. \E there \in {"idle", "verify"} : init' = [init EXCEPT !.step = there]
    BY <1>8 DEF StartService, Step
  <2>3. init'.step \in {"idle", "verify"} /\ init' \in [step : InitSteps, db : Nat]
    BY <1>0, <2>2 DEF InstallTypes, InitSteps
  <2>4. workerEnv' \in {workerEnv, envFile}
    BY <1>8 DEF StartService
  <2>5. envFile # NoEnv
    BY <2>1 DEF CommandInv
  <2> QED BY <2>1, <2>3, <2>4, <2>5 DEF InstallTypes, EnvInv, CommandInv, KeyInv, credentials
<1>9. CASE VerifyInstall
  BY <1>9, CommandMoves DEF VerifyInstall, Keep, InitSteps
<1>10. CASE InitDies
  <2>1. UNCHANGED <<credentials, workerEnv, minted, bearers>> /\ init' = Idle
    BY <1>10 DEF InitDies, Keep
  <2> QED BY <2>1 DEF InstallTypes, InitSteps, EnvInv, CommandInv, KeyInv, credentials, Idle
<1>11. CASE WorkerRestarts
  <2>1. UNCHANGED <<credentials, init, minted, bearers>> /\ workerEnv' = envFile /\ workerEnv # NoEnv
    BY <1>11 DEF WorkerRestarts, Keep
  <2> QED BY <2>1 DEF InstallTypes, EnvInv, CommandInv, KeyInv, credentials
<1> QED BY <1>1, <1>2, <1>3, <1>4, <1>5, <1>6, <1>7, <1>8, <1>9, <1>10, <1>11 DEF InstallNext

-----------------------------------------------------------------------------
(* Worker processes *)

Serving == {"started", "ready", "failed", "draining"}
Holding == {"initializing", "reconciled", "sweeping", "leaving"} \union Serving

ProcessTypes ==
  /\ phase \in [Processes -> {"none", "booting"} \union Holding]
  /\ beat \in [Processes -> {"off", "due", "collecting", "posting", "recording"}]
  /\ port \in Processes \union {NoProcess}
  /\ executing \in Processes \union {NoProcess}
  /\ consumers \subseteq Processes
  /\ outages \in Nat /\ postgres \in BOOLEAN

\* A process holds the port from Listen until it exits, and everything that
\* works for the workspace is done by a process in between.
PortHeld(p) ==
  /\ phase[p] \in Holding <=> port = p
  /\ p \in consumers => phase[p] \in Serving
  /\ beat[p] # "off" => phase[p] \in Holding
  /\ executing = p => phase[p] \in Serving \union {"sweeping", "leaving"}
  /\ executing = p /\ phase[p] \in Serving => run = "running"
  /\ phase[p] = "leaving" /\ outages = 0 => run # "running"

WorkerInv ==
  /\ ProcessTypes
  /\ outages = 0 => postgres
  /\ \A p \in Processes : PortHeld(p)

LEMMA NoProcessIsNone == NoProcess \notin Processes
<1> SUFFICES ASSUME NoProcess \in Processes PROVE FALSE
  OBVIOUS
<1>1. {Unit, Orphan, NoProcess} = {Unit} \union {Orphan}
  BY DEF Processes
<1>2. IsFiniteSet({Unit}) /\ Cardinality({Unit}) = 1
  BY FS_Singleton
<1>3. Cardinality({Unit} \union {Orphan}) \in {1, 2}
  BY <1>2, FS_AddElement
<1> QED BY <1>1, <1>3, WorkerAssumption

LEMMA WorkerInvSuffices == WorkerInv => OnlyOneWorks
<1> SUFFICES ASSUME WorkerInv PROVE OnlyOneWorks
  OBVIOUS
<1>1. \A p \in consumers : p = port
  BY DEF WorkerInv, ProcessTypes, PortHeld, Holding
<1>2. consumers = {} \/ consumers = {port}
  BY <1>1
<1>3. Cardinality(consumers) <= 1
  <2>1. Cardinality({}) = 0 /\ Cardinality({port}) = 1
    BY FS_EmptySet, FS_Singleton
  <2> QED BY <1>2, <2>1
<1>4. ASSUME NEW p \in Processes
      PROVE  /\ executing = p /\ phase[p] \in Serving => port = p /\ run = "running"
             /\ Health(p) = 200 => port = p /\ consumers = {p}
             /\ phase[p] = "leaving" /\ outages = 0 => run # "running"
             /\ beat[p] # "off" => port = p
  BY <1>2, <1>4 DEF WorkerInv, PortHeld, Holding, Health
<1> QED BY <1>3, <1>4 DEF OnlyOneWorks, Serving

LEMMA WorkerStart == WorkerInit => WorkerInv
BY NoProcessIsNone DEF WorkerInit, WorkerInv, ProcessTypes, PortHeld, Holding, Serving

\* The end of a process releases all it holds.
LEMMA ExitKeeps ==
  ASSUME WorkerInv, NEW p \in Processes, Exits(p), UNCHANGED <<run, postgres>>,
         outages' \in Nat, outages' = 0 => outages = 0
  PROVE  WorkerInv'
<1>1. ProcessTypes'
  BY DEF WorkerInv, ProcessTypes, Exits
<1>2. ASSUME NEW q \in Processes PROVE PortHeld(q)'
  <2>1. CASE q = p
    BY <2>1, NoProcessIsNone DEF WorkerInv, ProcessTypes, PortHeld, Holding, Serving, Exits
  <2>2. CASE q # p
    BY <2>2, NoProcessIsNone DEF WorkerInv, ProcessTypes, PortHeld, Holding, Serving, Exits
  <2> QED BY <2>1, <2>2
<1> QED BY <1>1, <1>2 DEF WorkerInv

LEMMA ProcessStep == WorkerInv /\ WorkerNext => WorkerInv'
<1> SUFFICES ASSUME WorkerInv, WorkerNext PROVE WorkerInv'
  OBVIOUS
<1> USE NoProcessIsNone DEF WorkerInv, ProcessTypes, PortHeld, Holding, Serving
<1>1. ASSUME NEW p \in Processes, CheckPort(p) PROVE WorkerInv'
  BY <1>1 DEF CheckPort, workVars, beatVars, hostVars
<1>2. ASSUME NEW p \in Processes, Listen(p) PROVE WorkerInv'
  BY <1>2 DEF Listen, workVars, beatVars, hostVars
<1>3. ASSUME NEW p \in Processes, ReconcileOrphanedRuns(p) PROVE WorkerInv'
  BY <1>3 DEF ReconcileOrphanedRuns, beatVars, hostVars
<1>4. ASSUME NEW p \in Processes, StartWorker(p) PROVE WorkerInv'
  BY <1>4 DEF StartWorker, hostVars
<1>5. ASSUME NEW p \in Processes, Ready(p) PROVE WorkerInv'
  BY <1>5 DEF Ready, workVars, beatVars, hostVars
<1>6. ASSUME NEW p \in Processes, InitFails(p) PROVE WorkerInv'
  BY <1>6 DEF InitFails, Fails, workVars, beatVars
<1>7. ASSUME NEW p \in Processes, TakeRun(p) PROVE WorkerInv'
  BY <1>7 DEF TakeRun, processVars, beatVars, hostVars
<1>8. ASSUME NEW p \in Processes, EndRun(p) PROVE WorkerInv'
  BY <1>8 DEF EndRun, processVars, beatVars, hostVars
<1>9. ASSUME NEW p \in Processes, Terminate(p) PROVE WorkerInv'
  <2>1. CASE p \in consumers
    BY <1>9, <2>1 DEF Terminate, hostVars
  <2>2. CASE p \notin consumers
    BY <1>9, <2>2, ExitKeeps DEF Terminate, hostVars
  <2> QED BY <2>1, <2>2
<1>10. ASSUME NEW p \in Processes, DrainEnds(p) PROVE WorkerInv'
  BY <1>10 DEF DrainEnds, beatVars, hostVars
<1>11. ASSUME NEW p \in Processes, SweepInFlightRuns(p) PROVE WorkerInv'
  BY <1>11 DEF SweepInFlightRuns, beatVars, hostVars
<1>12. ASSUME NEW p \in Processes, Leave(p) PROVE WorkerInv'
  BY <1>12, ExitKeeps DEF Leave, hostVars
<1>13. ASSUME NEW p \in Processes, Killed(p) PROVE WorkerInv'
  BY <1>13, ExitKeeps DEF Killed, Fails
<1>14. ASSUME NEW p \in Processes, Beats(p) PROVE WorkerInv'
  <2>1. CASE BeginBeat(p)
    BY <2>1 DEF BeginBeat, processVars, workVars, hostVars
  <2>2. CASE BuildPayload(p)
    BY <2>2 DEF BuildPayload, processVars, workVars, hostVars
  <2>3. CASE PushRemote(p)
    BY <2>3 DEF PushRemote, processVars, workVars, hostVars
  <2>4. CASE UpsertLocalState(p)
    BY <2>4 DEF UpsertLocalState, processVars, workVars, hostVars
  <2> QED BY <1>14, <2>1, <2>2, <2>3, <2>4 DEF Beats
<1>15. CASE GoesQuiet
  BY <1>15 DEF GoesQuiet, processVars, beatVars, hostVars
<1>16. CASE Outage
  <2>1. outages' \in Nat /\ postgres' \in BOOLEAN
    <3>1. CASE redis /\ redis' = FALSE /\ Fails /\ UNCHANGED postgres
      BY <3>1 DEF Fails
    <3>2. CASE postgres /\ postgres' = FALSE /\ Fails /\ UNCHANGED redis
      <4>1. outages' \in Nat
        BY <3>2 DEF Fails
      <4>2. postgres' = FALSE
        BY <3>2
      <4> QED BY <4>1, <4>2
    <3>3. CASE ~(redis /\ postgres) /\ redis' = TRUE /\ postgres' = TRUE /\ UNCHANGED outages
      BY <3>3
    <3> QED BY <1>16, <3>1, <3>2, <3>3 DEF Outage
  <2>2. UNCHANGED <<processVars, workVars, beatVars>>
    BY <1>16 DEF Outage
  <2>3. outages' = 0 => outages = 0 /\ postgres'
    BY <1>16 DEF Outage, Fails
  <2>4. \A p \in Processes : PortHeld(p)'
    BY <2>2, <2>3 DEF processVars, workVars, beatVars
  <2>5. ProcessTypes'
    BY <2>1, <2>2 DEF processVars, workVars, beatVars
  <2> QED BY <2>3, <2>4, <2>5
<1> HIDE DEF WorkerInv, ProcessTypes, PortHeld, Holding, Serving
<1> QED BY <1>1, <1>2, <1>3, <1>4, <1>5, <1>6, <1>7, <1>8, <1>9, <1>10, <1>11, <1>12, <1>13,
           <1>14, <1>15, <1>16 DEF WorkerNext, Boots, Stops

-----------------------------------------------------------------------------
(* Upgrades *)

Modes == {"none", "pin", "pull", "migrate", "back"}

CommandState ==
  [step : Steps, mode : Modes, target : Commit, reattach : BOOLEAN, from : Commit,
   left : Commit, discard : BOOLEAN, verify : BOOLEAN, moved : BOOLEAN, told : BOOLEAN,
   restarted : BOOLEAN, rolledBack : BOOLEAN]

UpgradeTypes ==
  /\ head \in Commit /\ tip \in Commit /\ dist \in Commit /\ running \in Commit
  /\ attached \in BOOLEAN
  /\ prev \in [at : Commit, attached : BOOLEAN] \union {NoRef}
  /\ schema \in Releases /\ cli \in CommandState
  /\ patches \subseteq Fixes /\ made \subseteq Fixes /\ letGo \subseteq Fixes
  /\ cutShort \subseteq Releases

\* An upgrade, and not a command that only migrates or rolls back.
Upgrades == cli.mode \in {"pin", "pull"}

\* HEAD moves where the command was issued, and the gate is for what it moved to.
StepsFollow ==
  /\ cli.step # "idle" => cli.mode # "none" /\ ~cli.rolledBack
  /\ cli.step \in {"guard", "record", "checkout"} /\ Upgrades => head = cli.from
  /\ cli.step \in {"guard", "record", "checkout"} => cli.mode # "migrate"
  /\ cli.step \in {"guard", "migrate", "gate"} => cli.mode # "back"
  /\ cli.step = "build" => cli.moved /\ cli.mode # "migrate"
  /\ cli.step = "gate" => cli.moved
  /\ cli.step # "idle" /\ cli.moved => cli.mode # "migrate"
  /\ cli.step = "back" => cli.mode = "back" /\ head = cli.left

\* A rollback to where the upgrade came from is under way, and the operator was
\* not told that it may miss.
Returning == cli.mode = "back" /\ cli.left # cli.from /\ cli.told

\* The previous ref names where the upgrade came from until the rollback has
\* read it, and what the rollback leaves from then on.
WayBackIsKnown ==
  /\ \/ cli.step = "checkout" /\ Upgrades /\ cli.told
     \/ cli.step \in {"build", "migrate", "restart", "gate"} /\ Upgrades /\ cli.moved /\ cli.told
     \/ cli.step = "back" /\ Returning
     => prev.at = cli.from
  /\ cli.step = "record" /\ Returning => cli.target = cli.from /\ head = cli.left
  /\ cli.step = "checkout" /\ Returning => cli.target = cli.from /\ prev.at = cli.left
  /\ cli.step \in {"build", "restart"} /\ Returning => head = cli.from /\ prev.at = cli.left
  /\ cli.step = "restart" /\ Returning => dist = head

\* What HEAD is about to lose is in the target or was given up.
LossIsAgreed ==
  cli.step \in {"record", "checkout"} /\ cli.mode # "back" => head.fixes \subseteq cli.target.fixes \union letGo

\* A commit whose migrations are applied, unless a command was cut short there.
Fits(c) == c.base \in cutShort \/ c.base <= schema

\* The command has moved HEAD and has yet to migrate.
Migrating == cli.step \in {"build", "migrate"} /\ cli.moved /\ cli.mode # "back"

SchemaFollows ==
  /\ \A c \in {head, dist, running} : Fits(c) \/ (Migrating /\ c.base = head.base)
  /\ prev # NoRef => Fits(prev.at)
  /\ cli.step \in {"record", "checkout"} /\ cli.mode = "back" => Fits(cli.target)

UpgradeInv ==
  /\ StepsFollow /\ WayBackIsKnown /\ RejectedReleaseIsLeft
  /\ LossIsAgreed /\ LocalWorkIsKept /\ SchemaFollows

Remembered(c) == <<c.mode, c.target, c.from, c.left, c.moved, c.told, c.restarted, c.rolledBack>>

\* What a command knows after each of the ways to change it.
LEMMA GotoIs ==
  ASSUME cli \in CommandState, NEW s \in Steps, Goto(s)
  PROVE  cli' \in CommandState /\ cli'.step = s /\ Remembered(cli') = Remembered(cli)
BY DEF CommandState, Goto, Remembered

LEMMA IssueIs ==
  ASSUME UpgradeTypes, NEW mode \in Modes, NEW step \in Steps, NEW target \in Commit,
         NEW discard \in BOOLEAN, NEW verify \in BOOLEAN,
         Issue(mode, step, target, discard, verify)
  PROVE  /\ cli' \in CommandState /\ cli'.step = step /\ cli'.mode = mode /\ cli'.target = target
         /\ cli'.from = head /\ cli'.left = head /\ cli'.moved = FALSE /\ cli'.told = TRUE
         /\ cli'.rolledBack = FALSE
         /\ cli.step = "idle"
         /\ UNCHANGED <<source, prev, site, fixed, cutShort>>
<1>1. cli' = [step |-> step, mode |-> mode, target |-> target, reattach |-> FALSE, from |-> head,
              left |-> head, discard |-> discard, verify |-> verify, moved |-> FALSE, told |-> TRUE,
              restarted |-> FALSE, rolledBack |-> FALSE]
  BY DEF Issue, NoCommand
<1>2. head \in Commit
  BY DEF UpgradeTypes
<1>3. cli' \in CommandState
  BY <1>1, <1>2 DEF CommandState
<1>4. cli.step = "idle" /\ UNCHANGED <<source, prev, site, fixed, cutShort>>
  BY DEF Issue
<1> QED BY <1>1, <1>3, <1>4

LEMMA UpgradeInitially == UpgradeInit => UpgradeTypes /\ UpgradeInv
<1> SUFFICES ASSUME UpgradeInit PROVE UpgradeTypes /\ UpgradeInv
  OBVIOUS
<1>1. head \in Commit /\ head.base = 1 /\ head.fixes = {}
  BY UpgradeAssumption DEF UpgradeInit, Release, Commit
<1>2. cli \in CommandState /\ cli.step = "idle" /\ cli.rolledBack = FALSE
  BY <1>1 DEF UpgradeInit, NoCommand, CommandState, Steps, Modes
<1>3. UpgradeTypes
  BY <1>1, <1>2, UpgradeAssumption DEF UpgradeInit, UpgradeTypes
<1>4. StepsFollow /\ WayBackIsKnown /\ RejectedReleaseIsLeft /\ LossIsAgreed /\ LocalWorkIsKept
  BY <1>2 DEF StepsFollow, WayBackIsKnown, RejectedReleaseIsLeft, LossIsAgreed, LocalWorkIsKept, UpgradeInit
<1>5. SchemaFollows
  BY <1>1, <1>2 DEF SchemaFollows, Fits, UpgradeInit
<1> QED BY <1>3, <1>4, <1>5 DEF UpgradeInv

\* A new command of any kind.
LEMMA UpgradeIssues ==
  ASSUME UpgradeTypes, UpgradeInv, UpgradePinned \/ UpgradeTracking \/ MigrateOnly \/ RollBack
  PROVE  UpgradeTypes' /\ UpgradeInv'
<1>1. PICK mode \in Modes, step \in Steps, target \in Commit, discard, verify \in BOOLEAN :
        /\ Issue(mode, step, target, discard, verify)
        /\ \/ mode = "pin" /\ step \in {"migrate", "guard"}
           \/ mode = "pull" /\ step \in {"record", "migrate"} /\ target.fixes = head.fixes
           \/ mode = "migrate" /\ step = "migrate"
           \/ mode = "back" /\ step = "back"
  <2>1. \A r \in Releases : Release(r) \in Commit
    BY DEF Release, Commit
  <2>2. \A r \in Releases : [base |-> r, fixes |-> head.fixes] \in Commit
    BY DEF Commit, UpgradeTypes
  <2>3. head \in Commit
    BY DEF UpgradeTypes
  <2>4. CASE UpgradePinned
    BY <2>1, <2>4 DEF UpgradePinned, Modes, Steps
  <2>5. CASE UpgradeTracking
    BY <2>2, <2>5 DEF UpgradeTracking, Modes, Steps
  <2>6. CASE MigrateOnly \/ RollBack
    BY <2>3, <2>6 DEF MigrateOnly, RollBack, Modes, Steps
  <2> QED BY <2>4, <2>5, <2>6
<1>2. /\ cli' \in CommandState /\ cli'.step = step /\ cli'.mode = mode /\ cli'.target = target
      /\ cli'.from = head /\ cli'.left = head /\ cli'.moved = FALSE /\ cli'.told = TRUE
      /\ cli'.rolledBack = FALSE /\ cli.step = "idle"
      /\ UNCHANGED <<source, prev, site, fixed, cutShort>>
  BY <1>1, IssueIs
<1>3. UNCHANGED <<head, attached, tip, prev, dist, running, schema, patches, made, letGo, cutShort>>
  BY <1>2 DEF source, site, fixed
<1>4. UpgradeTypes'
  BY <1>2, <1>3 DEF UpgradeTypes
<1>5. StepsFollow' /\ WayBackIsKnown' /\ RejectedReleaseIsLeft'
  BY <1>1, <1>2, <1>3 DEF StepsFollow, WayBackIsKnown, RejectedReleaseIsLeft, Upgrades, Returning
<1>6. LossIsAgreed' /\ LocalWorkIsKept'
  BY <1>1, <1>2, <1>3 DEF LossIsAgreed, LocalWorkIsKept, UpgradeInv
<1>7. SchemaFollows'
  <2>1. \A c : Fits(c)' <=> Fits(c)
    BY <1>3 DEF Fits
  <2>2. ~Migrating
    BY <1>2 DEF Migrating
  <2>3. ~(cli'.step \in {"record", "checkout"} /\ cli'.mode = "back")
    BY <1>1, <1>2
  <2> QED BY <1>3, <2>1, <2>2, <2>3 DEF SchemaFollows, UpgradeInv
<1> QED BY <1>4, <1>5, <1>6, <1>7 DEF UpgradeInv

\* Commands that stand still keep the work that is not in HEAD.
LEMMA UpgradeGuards ==
  ASSUME UpgradeTypes, UpgradeInv, Guard
  PROVE  UpgradeTypes' /\ UpgradeInv'
<1>1. \E s \in {"record", "idle"} : Goto(s)
        /\ (s = "record" => head.fixes \subseteq cli.target.fixes \union letGo')
  BY DEF Guard, Ancestor
<1>2. PICK s \in {"record", "idle"} : /\ Goto(s)
        /\ (s = "record" => head.fixes \subseteq cli.target.fixes \union letGo')
  BY <1>1
<1>3. /\ cli \in CommandState /\ cli' \in CommandState /\ cli'.step = s /\ cli.step = "guard"
      /\ Remembered(cli') = Remembered(cli)
  BY <1>2, GotoIs DEF Guard, UpgradeTypes, Steps
<1>4. /\ UNCHANGED <<head, attached, tip, prev, dist, running, schema, cutShort, made>>
      /\ patches \subseteq patches' /\ letGo \subseteq letGo'
      /\ patches' \subseteq patches \union head.fixes /\ letGo' \subseteq letGo \union head.fixes
  BY DEF Guard, source, site, fixed
<1>5. UpgradeTypes'
  <2>1. head.fixes \subseteq Fixes
    BY DEF UpgradeTypes, Commit
  <2> QED BY <1>3, <1>4, <2>1 DEF UpgradeTypes
<1>6. StepsFollow' /\ WayBackIsKnown' /\ RejectedReleaseIsLeft'
  BY <1>2, <1>3, <1>4 DEF Remembered, UpgradeInv, StepsFollow, WayBackIsKnown, RejectedReleaseIsLeft, Upgrades, Returning
<1>7. LossIsAgreed' /\ LocalWorkIsKept'
  BY <1>2, <1>3, <1>4 DEF Remembered, LossIsAgreed, LocalWorkIsKept, UpgradeInv
<1>8. SchemaFollows'
  <2>1. \A c : Fits(c)' <=> Fits(c)
    BY <1>4 DEF Fits
  <2>2. ~Migrating /\ cli'.mode # "back"
    BY <1>3 DEF Migrating, UpgradeInv, StepsFollow, Remembered
  <2> QED BY <1>4, <2>1, <2>2 DEF SchemaFollows, UpgradeInv
<1> QED BY <1>5, <1>6, <1>7, <1>8 DEF UpgradeInv

LEMMA UpgradeRecords ==
  ASSUME UpgradeTypes, UpgradeInv, RecordPrevious
  PROVE  UpgradeTypes' /\ UpgradeInv'
<1>1. /\ cli \in CommandState /\ cli' \in CommandState
      /\ cli'.step = "checkout" /\ cli.step = "record"
      /\ cli'.mode = cli.mode /\ cli'.target = cli.target /\ cli'.from = cli.from
      /\ cli'.left = cli.left /\ cli'.moved = cli.moved /\ cli'.rolledBack = cli.rolledBack
      /\ \/ cli'.told = cli.told /\ prev' = [at |-> head, attached |-> attached]
         \/ ~cli'.told /\ prev' = prev
  BY DEF RecordPrevious, Goto, UpgradeTypes, CommandState, Steps
<1>2. UNCHANGED <<head, attached, tip, dist, running, schema, cutShort, made, patches, letGo>>
  BY DEF RecordPrevious, source, site, fixed
<1>3. UpgradeTypes'
  <2>1. prev' \in [at : Commit, attached : BOOLEAN] \union {NoRef}
    BY <1>1 DEF UpgradeTypes
  <2> QED BY <1>1, <1>2, <2>1 DEF UpgradeTypes
<1>4. cli'.told => prev'.at = head /\ cli.told
  <2>1. CASE cli'.told = cli.told /\ prev' = [at |-> head, attached |-> attached]
    <3>1. prev'.at = head
      BY <2>1
    <3>2. cli'.told => cli.told
      BY <2>1
    <3> QED BY <3>1, <3>2
  <2>2. CASE ~cli'.told /\ prev' = prev
    BY <2>2
  <2> QED BY <1>1, <2>1, <2>2
<1>5. StepsFollow' /\ WayBackIsKnown' /\ RejectedReleaseIsLeft'
  <2>1. StepsFollow' /\ RejectedReleaseIsLeft'
    BY <1>1, <1>2 DEF UpgradeInv, StepsFollow, RejectedReleaseIsLeft, Upgrades
  <2>2. WayBackIsKnown'
    BY <1>1, <1>2, <1>4 DEF UpgradeInv, StepsFollow, WayBackIsKnown, Upgrades, Returning
  <2> QED BY <2>1, <2>2
<1>6. LossIsAgreed' /\ LocalWorkIsKept'
  BY <1>1, <1>2 DEF LossIsAgreed, LocalWorkIsKept, UpgradeInv
<1>7. SchemaFollows'
  <2>1. \A c : Fits(c)' <=> Fits(c)
    BY <1>2 DEF Fits
  <2>2. ~Migrating
    BY <1>1 DEF Migrating
  <2>3. prev' # NoRef => Fits(prev'.at)
    BY <1>1, <2>2 DEF SchemaFollows, UpgradeInv
  <2> QED BY <1>1, <1>2, <2>1, <2>2, <2>3 DEF SchemaFollows, UpgradeInv
<1> QED BY <1>3, <1>5, <1>6, <1>7 DEF UpgradeInv

LEMMA UpgradeChecksOut ==
  ASSUME UpgradeTypes, UpgradeInv, Checkout
  PROVE  UpgradeTypes' /\ UpgradeInv'
<1>1. /\ cli \in CommandState /\ cli' \in CommandState
      /\ cli'.step = "build" /\ cli.step = "checkout" /\ cli'.moved = TRUE
      /\ cli'.mode = cli.mode /\ cli'.target = cli.target /\ cli'.from = cli.from
      /\ cli'.left = cli.left /\ cli'.told = cli.told /\ cli'.rolledBack = cli.rolledBack
  BY DEF Checkout, UpgradeTypes, CommandState, Steps
<1>2. /\ head' = cli.target /\ UNCHANGED <<prev, dist, running, schema, cutShort, made, patches>>
      /\ letGo' = IF cli.mode = "back" THEN letGo \union (head.fixes \ cli.target.fixes) ELSE letGo
  BY DEF Checkout, site
<1>3. UpgradeTypes'
  <2>1. attached' \in BOOLEAN /\ cli.target \in Commit /\ tip' \in {cli.target, tip}
    BY DEF Checkout, UpgradeTypes, CommandState
  <2>2. head.fixes \subseteq Fixes
    BY DEF UpgradeTypes, Commit
  <2> QED BY <1>1, <1>2, <2>1, <2>2 DEF UpgradeTypes
<1>4. StepsFollow' /\ RejectedReleaseIsLeft'
  BY <1>1, <1>2 DEF UpgradeInv, StepsFollow, RejectedReleaseIsLeft, Upgrades
<1>5. WayBackIsKnown'
  BY <1>1, <1>2 DEF UpgradeInv, WayBackIsKnown, Upgrades, Returning
<1>6. LossIsAgreed' /\ LocalWorkIsKept'
  BY <1>1, <1>2 DEF LossIsAgreed, LocalWorkIsKept, UpgradeInv
<1>7. SchemaFollows'
  <2>1. \A c : Fits(c)' <=> Fits(c)
    BY <1>2 DEF Fits
  <2>2. ~Migrating /\ (Migrating' <=> cli.mode # "back")
    BY <1>1 DEF Migrating
  <2>3. Fits(head') \/ Migrating'
    BY <1>1, <1>2, <2>2 DEF SchemaFollows, UpgradeInv
  <2> QED BY <1>1, <1>2, <2>1, <2>2, <2>3 DEF SchemaFollows, UpgradeInv
<1> QED BY <1>3, <1>4, <1>5, <1>6, <1>7 DEF UpgradeInv

LEMMA UpgradeBuilds ==
  ASSUME UpgradeTypes, UpgradeInv, Build
  PROVE  UpgradeTypes' /\ UpgradeInv'
<1>1. PICK s \in {"restart", "migrate"} : Goto(s) /\ (s = "restart" <=> cli.mode = "back")
  BY DEF Build
<1>2. /\ cli \in CommandState /\ cli' \in CommandState /\ cli'.step = s /\ cli.step = "build"
      /\ Remembered(cli') = Remembered(cli)
  BY <1>1, GotoIs DEF Build, UpgradeTypes, Steps
<1>3. dist' = head /\ UNCHANGED <<head, attached, tip, prev, running, schema, cutShort, made, patches, letGo>>
  BY DEF Build, source, fixed
<1>4. UpgradeTypes'
  BY <1>2, <1>3 DEF UpgradeTypes
<1>5. StepsFollow' /\ RejectedReleaseIsLeft' /\ WayBackIsKnown'
  BY <1>1, <1>2, <1>3 DEF Remembered, UpgradeInv, StepsFollow, WayBackIsKnown, RejectedReleaseIsLeft, Upgrades, Returning
<1>6. LossIsAgreed' /\ LocalWorkIsKept'
  BY <1>1, <1>2, <1>3 DEF LossIsAgreed, LocalWorkIsKept, UpgradeInv
<1>7. SchemaFollows'
  <2>1. \A c : Fits(c)' <=> Fits(c)
    BY <1>3 DEF Fits
  <2>2. Migrating' <=> Migrating
    BY <1>1, <1>2 DEF Migrating, Remembered
  <2>3. ~(cli'.step \in {"record", "checkout"})
    BY <1>2, <1>1
  <2> QED BY <1>2, <1>3, <2>1, <2>2, <2>3 DEF SchemaFollows, UpgradeInv
<1> QED BY <1>4, <1>5, <1>6, <1>7 DEF UpgradeInv

LEMMA UpgradeMigrates ==
  ASSUME UpgradeTypes, UpgradeInv, Migrate
  PROVE  UpgradeTypes' /\ UpgradeInv'
<1>1. PICK s \in {"idle", "restart"} : Goto(s)
  BY DEF Migrate
<1>2. /\ cli \in CommandState /\ cli' \in CommandState /\ cli'.step = s /\ cli.step = "migrate"
      /\ Remembered(cli') = Remembered(cli)
  BY <1>1, GotoIs DEF Migrate, UpgradeTypes, Steps
<1>3. UNCHANGED <<head, attached, tip, prev, dist, running, made, patches, letGo>>
  BY DEF Migrate, source, fixed
<1>4. /\ head.base \in Releases /\ schema \in Releases /\ Releases \subseteq Nat \ {0}
      /\ schema' \in Releases /\ schema <= schema' /\ cutShort \subseteq cutShort' /\ cutShort' \subseteq Releases
      /\ head.base <= schema' \/ head.base \in cutShort'
  <2>1. head.base \in Releases /\ schema \in Releases /\ cutShort \subseteq Releases
    BY DEF UpgradeTypes, Commit
  <2>2. \A n \in schema .. (head.base - 1) : n \in Releases
    <3>1. head.base \in Nat \ {0} /\ schema \in Nat \ {0} /\ 1 .. head.base \subseteq Releases
      BY <2>1, UpgradeAssumption
    <3> QED BY <3>1
  <2>3. Releases \subseteq Nat \ {0} /\ schema \in Nat /\ head.base \in Nat
    BY <2>1, UpgradeAssumption
  <2>4. CASE /\ schema' = IF head.base > schema THEN head.base ELSE schema
             /\ UNCHANGED cutShort
    BY <2>1, <2>3, <2>4
  <2>5. CASE /\ schema < head.base /\ schema' \in schema .. (head.base - 1)
             /\ cutShort' = cutShort \union {head.base}
    <3>1. schema' \in Releases
      BY <2>2, <2>5
    <3>2. schema <= schema'
      BY <2>3, <2>5
    <3> QED BY <2>1, <2>3, <2>5, <3>1, <3>2
  <2> QED BY <2>4, <2>5 DEF Migrate
<1>5. UpgradeTypes'
  BY <1>2, <1>3, <1>4 DEF UpgradeTypes
<1>6. StepsFollow' /\ WayBackIsKnown'
  BY <1>1, <1>2, <1>3 DEF Remembered, UpgradeInv, StepsFollow, WayBackIsKnown, Upgrades, Returning
<1>7. RejectedReleaseIsLeft' /\ LossIsAgreed' /\ LocalWorkIsKept'
  BY <1>1, <1>2, <1>3 DEF Remembered, StepsFollow, RejectedReleaseIsLeft, LossIsAgreed, LocalWorkIsKept, UpgradeInv
<1>8. SchemaFollows'
  <2>1. \A c : Fits(c) /\ c.base \in Nat => Fits(c)'
    BY <1>4, UpgradeAssumption DEF Fits
  <2>2. \A c : c.base = head.base => Fits(c)'
    BY <1>4 DEF Fits
  <2>3. head.base \in Nat /\ dist.base \in Nat /\ running.base \in Nat
        /\ (prev # NoRef => prev.at.base \in Nat)
    BY UpgradeAssumption DEF UpgradeTypes, Commit
  <2>4. ~(cli'.step \in {"record", "checkout"})
    BY <1>2, <1>1
  <2> QED BY <1>3, <2>1, <2>2, <2>3, <2>4 DEF SchemaFollows, UpgradeInv
<1> QED BY <1>5, <1>6, <1>7, <1>8 DEF UpgradeInv

LEMMA UpgradeRestarts ==
  ASSUME UpgradeTypes, UpgradeInv, RestartWorker
  PROVE  UpgradeTypes' /\ UpgradeInv'
<1>1. /\ cli \in CommandState /\ cli' \in CommandState
      /\ cli'.step \in {"gate", "idle"} /\ cli.step = "restart"
      /\ cli'.step = "gate" => cli.mode # "back" /\ cli.moved
      /\ cli'.mode = cli.mode /\ cli'.target = cli.target /\ cli'.from = cli.from
      /\ cli'.left = cli.left /\ cli'.told = cli.told /\ cli'.moved = cli.moved
      /\ cli'.rolledBack <=> cli.mode = "back"
      /\ running' = IF cli'.restarted THEN dist ELSE running
  <2>1. PICK restarted, healthy \in BOOLEAN :
          /\ cli' = [cli EXCEPT
               !.step = IF cli.mode # "back" /\ cli.moved /\ healthy /\ cli.verify THEN "gate" ELSE "idle",
               !.restarted = restarted, !.rolledBack = cli.mode = "back"]
          /\ running' = IF restarted THEN dist ELSE running
    BY DEF RestartWorker
  <2>2. cli \in CommandState /\ cli.step = "restart"
    BY DEF RestartWorker, UpgradeTypes
  <2> QED BY <2>1, <2>2 DEF CommandState, Steps
<1>2. UNCHANGED <<head, attached, tip, prev, dist, schema, cutShort, made, patches, letGo>>
  BY DEF RestartWorker, source, fixed
<1>3. UpgradeTypes'
  BY <1>1, <1>2 DEF UpgradeTypes
<1>4. StepsFollow'
  BY <1>1, <1>2 DEF UpgradeInv, StepsFollow, Upgrades
<1>5. WayBackIsKnown' /\ RejectedReleaseIsLeft'
  BY <1>1, <1>2 DEF UpgradeInv, StepsFollow, WayBackIsKnown, RejectedReleaseIsLeft, Upgrades, Returning
<1>6. LossIsAgreed' /\ LocalWorkIsKept'
  BY <1>1, <1>2 DEF LossIsAgreed, LocalWorkIsKept, UpgradeInv
<1>7. SchemaFollows'
  <2>1. \A c : Fits(c)' <=> Fits(c)
    BY <1>2 DEF Fits
  <2>2. ~Migrating
    BY <1>1 DEF Migrating
  <2> QED BY <1>1, <1>2, <2>1, <2>2 DEF SchemaFollows, UpgradeInv
<1> QED BY <1>3, <1>4, <1>5, <1>6, <1>7 DEF UpgradeInv

LEMMA UpgradeGates ==
  ASSUME UpgradeTypes, UpgradeInv, Gate \/ ReadPrevious
  PROVE  UpgradeTypes' /\ UpgradeInv'
<1>0. cli \in CommandState
  BY DEF UpgradeTypes
<1>1. UNCHANGED <<head, attached, tip, prev, dist, running, schema, cutShort, made, patches, letGo>>
  BY DEF Gate, ReadPrevious, source, site, fixed
<1>2. \A c : Fits(c)' <=> Fits(c)
  BY <1>1 DEF Fits
<1>3. CASE Goto("idle")
  <2>1. cli' \in CommandState /\ cli'.step = "idle" /\ cli'.rolledBack = cli.rolledBack /\ ~cli.rolledBack
        /\ ~Migrating
    BY <1>0, <1>3, GotoIs DEF Gate, ReadPrevious, UpgradeInv, StepsFollow, Migrating, Remembered, Steps
  <2>2. StepsFollow' /\ WayBackIsKnown' /\ RejectedReleaseIsLeft' /\ LossIsAgreed' /\ LocalWorkIsKept'
    BY <1>1, <2>1 DEF UpgradeInv, StepsFollow, WayBackIsKnown, RejectedReleaseIsLeft, LossIsAgreed, LocalWorkIsKept
  <2> QED BY <1>1, <1>2, <2>1, <2>2 DEF UpgradeTypes, UpgradeInv, SchemaFollows
<1>4. CASE Gate /\ ~Goto("idle")
  <2>1. /\ cli' \in CommandState /\ cli.step = "gate" /\ cli'.step = "back" /\ cli'.mode = "back"
        /\ cli'.left = head /\ cli'.from = cli.from /\ cli'.told = cli.told /\ cli'.moved = cli.moved
        /\ cli'.rolledBack = cli.rolledBack
    BY <1>0, <1>4 DEF Gate, CommandState, UpgradeTypes, Steps, Modes
  <2>2. Upgrades /\ cli.moved
    BY <1>0, <2>1 DEF UpgradeInv, StepsFollow, Upgrades, CommandState, Modes
  <2>3. StepsFollow' /\ RejectedReleaseIsLeft' /\ LossIsAgreed' /\ LocalWorkIsKept'
    BY <1>1, <2>1 DEF UpgradeInv, StepsFollow, RejectedReleaseIsLeft, LossIsAgreed, LocalWorkIsKept
  <2>4. WayBackIsKnown'
    BY <1>1, <2>1, <2>2 DEF UpgradeInv, WayBackIsKnown, Returning, Upgrades
  <2>5. SchemaFollows'
    BY <1>1, <1>2, <2>1 DEF UpgradeInv, SchemaFollows, Migrating
  <2> QED BY <1>1, <2>1, <2>3, <2>4, <2>5 DEF UpgradeTypes, UpgradeInv
<1>5. CASE ReadPrevious /\ ~Goto("idle")
  <2>1. /\ cli.step = "back" /\ prev # NoRef
        /\ cli' = [cli EXCEPT !.step = "record", !.target = prev.at, !.reattach = prev.attached]
    BY <1>5 DEF ReadPrevious
  <2>2. prev.at \in Commit /\ prev.attached \in BOOLEAN
    BY <2>1 DEF UpgradeTypes
  <2>3. /\ cli' \in CommandState /\ cli'.step = "record" /\ cli'.target = prev.at
        /\ cli'.mode = cli.mode /\ cli'.from = cli.from /\ cli'.left = cli.left
        /\ cli'.moved = cli.moved /\ cli'.told = cli.told /\ cli'.rolledBack = cli.rolledBack
    BY <1>0, <2>1, <2>2 DEF CommandState, Steps
  <2>4. cli.mode = "back" /\ head = cli.left
    BY <2>1 DEF UpgradeInv, StepsFollow
  <2>5. StepsFollow' /\ RejectedReleaseIsLeft' /\ LossIsAgreed' /\ LocalWorkIsKept'
    BY <1>1, <2>1, <2>3, <2>4 DEF UpgradeInv, StepsFollow, RejectedReleaseIsLeft, LossIsAgreed, LocalWorkIsKept, Upgrades
  <2>6. WayBackIsKnown'
    BY <1>1, <2>1, <2>3, <2>4 DEF UpgradeInv, WayBackIsKnown, Returning, Upgrades
  <2>7. SchemaFollows'
    BY <1>1, <1>2, <2>1, <2>3, <2>4 DEF UpgradeInv, SchemaFollows, Migrating
  <2> QED BY <1>1, <2>3, <2>5, <2>6, <2>7 DEF UpgradeTypes, UpgradeInv
<1> QED BY <1>3, <1>4, <1>5

LEMMA UpgradeDies ==
  ASSUME UpgradeTypes, UpgradeInv, CommandDies
  PROVE  UpgradeTypes' /\ UpgradeInv'
<1>1. /\ cli \in CommandState /\ cli' \in CommandState /\ cli'.step = "idle" /\ cli.step # "idle"
      /\ Remembered(cli') = Remembered(cli)
  BY GotoIs DEF CommandDies, UpgradeTypes, Steps
<1>2. UNCHANGED <<head, attached, tip, prev, dist, running, schema, made, patches, letGo>>
  BY DEF CommandDies, source, site, fixed
<1>3. /\ cutShort' = IF Migrating THEN cutShort \union {head.base} ELSE cutShort
      /\ head.base \in Releases
  BY DEF CommandDies, Migrating, UpgradeTypes, Commit
<1>4. UpgradeTypes'
  BY <1>1, <1>2, <1>3 DEF UpgradeTypes
<1>5. StepsFollow' /\ WayBackIsKnown' /\ RejectedReleaseIsLeft' /\ LossIsAgreed' /\ LocalWorkIsKept'
  BY <1>1, <1>2 DEF Remembered, UpgradeInv, StepsFollow, WayBackIsKnown, RejectedReleaseIsLeft, LossIsAgreed, LocalWorkIsKept
<1>6. SchemaFollows'
  <2>1. \A c : Fits(c) => Fits(c)'
    BY <1>2, <1>3 DEF Fits
  <2>2. \A c : Migrating /\ c.base = head.base => Fits(c)'
    BY <1>2, <1>3 DEF Fits
  <2> QED BY <1>1, <1>2, <2>1, <2>2 DEF UpgradeInv, SchemaFollows
<1> QED BY <1>4, <1>5, <1>6 DEF UpgradeInv

LEMMA UpgradeRest ==
  ASSUME UpgradeTypes, UpgradeInv, WorkerComesBack \/ CommitFix
  PROVE  UpgradeTypes' /\ UpgradeInv'
<1>1. CASE WorkerComesBack
  <2>1. running' = dist /\ running # dist
        /\ UNCHANGED <<head, attached, tip, prev, dist, schema, made, patches, letGo, cutShort, cli>>
    BY <1>1 DEF WorkerComesBack, source, fixed
  <2>2. UpgradeTypes' /\ StepsFollow' /\ LossIsAgreed' /\ LocalWorkIsKept'
    BY <2>1 DEF UpgradeTypes, UpgradeInv, StepsFollow, LossIsAgreed, LocalWorkIsKept, Upgrades
  <2>3. WayBackIsKnown' /\ RejectedReleaseIsLeft'
    BY <2>1 DEF UpgradeInv, WayBackIsKnown, RejectedReleaseIsLeft, Upgrades, Returning
  <2>4. SchemaFollows'
    <3>1. (Migrating' <=> Migrating) /\ \A c : Fits(c)' <=> Fits(c)
      BY <2>1 DEF Migrating, Fits
    <3> QED BY <2>1, <3>1 DEF UpgradeInv, SchemaFollows
  <2> QED BY <2>2, <2>3, <2>4 DEF UpgradeInv
<1>2. CASE CommitFix
  <2>1. PICK f \in Fixes : /\ f \notin made /\ cli.step = "idle"
           /\ head' = [head EXCEPT !.fixes = @ \union {f}]
           /\ tip' = (IF attached THEN head' ELSE tip)
           /\ dist' = head' /\ running' = head' /\ cli' = NoCommand(head') /\ made' = made \union {f}
           /\ UNCHANGED <<attached, prev, schema, patches, letGo, cutShort>>
    BY <1>2 DEF CommitFix
  <2>2. head' \in Commit /\ head'.base = head.base /\ head'.fixes = head.fixes \union {f}
    BY <2>1 DEF UpgradeTypes, Commit
  <2>3. cli' \in CommandState /\ cli'.step = "idle" /\ cli'.rolledBack = FALSE
    BY <2>1, <2>2 DEF NoCommand, CommandState, Steps, Modes
  <2>4. UpgradeTypes'
    BY <2>1, <2>2, <2>3 DEF UpgradeTypes
  <2>5. StepsFollow' /\ WayBackIsKnown' /\ RejectedReleaseIsLeft' /\ LossIsAgreed' /\ LocalWorkIsKept'
    BY <2>1, <2>2, <2>3 DEF UpgradeInv, StepsFollow, WayBackIsKnown, RejectedReleaseIsLeft, LossIsAgreed, LocalWorkIsKept
  <2>6. SchemaFollows'
    <3>1. Fits(head) /\ \A c : Fits(c)' <=> Fits(c)
      BY <2>1 DEF UpgradeInv, SchemaFollows, Migrating, Fits
    <3>2. Fits(head') /\ (prev # NoRef => Fits(prev.at))
      BY <2>2, <3>1 DEF Fits, UpgradeInv, SchemaFollows
    <3> QED BY <2>1, <2>3, <3>1, <3>2 DEF SchemaFollows
  <2> QED BY <2>4, <2>5, <2>6 DEF UpgradeInv
<1> QED BY <1>1, <1>2

LEMMA UpgradeStep ==
  UpgradeTypes /\ UpgradeInv /\ UpgradeNext => UpgradeTypes' /\ UpgradeInv'
BY UpgradeIssues, UpgradeGuards, UpgradeRecords, UpgradeChecksOut, UpgradeBuilds, UpgradeMigrates,
   UpgradeRestarts, UpgradeGates, UpgradeDies, UpgradeRest DEF UpgradeNext, Command

LEMMA UpgradeInvSuffices == UpgradeTypes /\ UpgradeInv => ReleasesAreReversible
<1> SUFFICES ASSUME UpgradeTypes, UpgradeInv PROVE ReleasesAreReversible
  OBVIOUS
<1>1. UpgradeTypeOK
  BY DEF UpgradeTypes, UpgradeTypeOK, CommandState
<1>2. SchemaFitsCode
  BY DEF UpgradeInv, SchemaFollows, SchemaFitsCode, Migrating, Fits
<1> QED BY <1>1, <1>2 DEF UpgradeInv, ReleasesAreReversible

-----------------------------------------------------------------------------
(* Schedules *)

ProcState ==
  [at : {"free", "next", "list", "remove", "write"}, todo : SUBSET Skills,
   skill : Skills \union {"none"}, stale : SUBSET (Skills \X Nat), write : SUBSET (Skills \X Nat),
   job : {"none", "boot", "register", "deactivate"}]

ScheduleTypes ==
  /\ manifest \in [Skills -> Manifests] /\ queue \subseteq Skills \X Nat
  /\ worker \in [Procs -> ProcState] /\ settled \subseteq Skills
  /\ {namedByKey, quiet, healed} \subseteq BOOLEAN

AtRest == \A p \in Procs : worker[p].at = "free"

\* While it is quiet one process works at most, and what was settled or healed is
\* left alone until the next process begins.
OneProcess ==
  /\ quiet => \A p, q \in Procs : worker[p].at # "free" /\ worker[q].at # "free" => p = q
  /\ healed \/ settled # {} => AtRest

\* The self-heal has written what it has passed, and removes of the skill it is
\* at only the key that is not one of several.
BootProgress ==
  /\ worker[Boot].at # "free" => worker[Boot].job = "boot"
  /\ worker[Boot].at = "next" => worker[Boot].write = {}
  /\ quiet /\ worker[Boot].at # "free" =>
       /\ worker[Boot].at \in {"list", "remove"} =>
            worker[Boot].write = Keys(worker[Boot].skill, manifest[worker[Boot].skill])
       /\ worker[Boot].at = "remove" => worker[Boot].stale \subseteq {<<worker[Boot].skill, 0>>}
       /\ \A s \in Skills \ worker[Boot].todo :
            Keys(s, manifest[s]) \subseteq
              queue \union (IF s = worker[Boot].skill THEN worker[Boot].write ELSE {})

OwnKeys(s) == {k \in queue : k[1] = s}

\* A registration writes what the manifest says after it has removed what it has found.
Registered(p) ==
  LET w == worker[p]
      keys == Keys(w.skill, manifest[w.skill])
  IN  quiet /\ w.at # "free" /\ w.job = "register" =>
        /\ w.skill \in Skills /\ w.write \subseteq keys
        /\ w.at \in {"list", "remove"} => w.write = keys
        /\ w.at = "remove" /\ namedByKey => OwnKeys(w.skill) \subseteq w.stale
        /\ w.at = "write" => keys \subseteq queue \union w.write
        /\ w.at = "write" /\ namedByKey => OwnKeys(w.skill) \subseteq keys

Registrations ==
  \A p \in Registrars : worker[p].job # "boot" /\ worker[p].at # "next" /\ Registered(p)

ScheduleInv == OneProcess /\ BootProgress /\ Registrations /\ SchedulesFollowManifests

\* The keys of a skill are its own.
LEMMA KeysOf ==
  ASSUME NEW s \in Skills, NEW m \in Manifests
  PROVE  Keys(s, m) \subseteq Skills \X Nat /\ \A k \in Keys(s, m) : k[1] = s
<1>1. m.crons \in Nat
  <2>1. MaxCrons \in Nat
    BY SkillSchedulesAssumption
  <2>2. CASE m = [triggered |-> FALSE, crons |-> 0]
    BY <2>2
  <2>3. CASE m \in [triggered : {TRUE}, crons : 0 .. MaxCrons]
    BY <2>1, <2>3
  <2> QED BY <2>2, <2>3 DEF Manifests
<1> QED BY <1>1 DEF Keys

LEMMA SchedulesStart == SchedulesInit => ScheduleTypes /\ ScheduleInv
<1> SUFFICES ASSUME SchedulesInit PROVE ScheduleTypes /\ ScheduleInv
  OBVIOUS
<1>1. Free \in ProcState /\ Free.at = "free" /\ Free.job = "none" /\ Free.write = {}
  BY DEF Free, ProcState
<1>2. \A p \in Procs : worker[p] = Free
  BY DEF SchedulesInit
<1>3. worker \in [Procs -> ProcState]
  BY <1>1 DEF SchedulesInit
<1>4. ScheduleTypes
  BY <1>3 DEF ScheduleTypes, SchedulesInit
<1>5. Boot \in Procs /\ Registrars \subseteq Procs
  BY DEF Procs
<1>6. OneProcess /\ BootProgress /\ Registrations /\ SchedulesFollowManifests
  BY <1>1, <1>2, <1>5 DEF OneProcess, AtRest, BootProgress, Registrations, Registered,
     SchedulesFollowManifests, SchedulesInit
<1> QED BY <1>4, <1>6 DEF ScheduleInv

\* While one process takes a step the others are at rest, if it is quiet afterwards.
LEMMA OthersRest ==
  ASSUME ScheduleTypes, ScheduleInv, NEW p \in Procs,
         (worker[p].at # "free" /\ (quiet' => quiet)) \/ (worker[p].at = "free" /\ NewJob),
         \A q \in Procs \ {p} : worker'[q] = worker[q]
  PROVE  /\ quiet' => \A q \in Procs \ {p} : worker'[q].at = "free"
         /\ p # Boot => BootProgress'
         /\ \A q \in Registrars \ {p} : worker'[q].job # "boot" /\ worker'[q].at # "next" /\ Registered(q)'
<1>1. ASSUME quiet', NEW q \in Procs \ {p} PROVE worker'[q].at = "free"
  BY <1>1 DEF NewJob, ScheduleInv, OneProcess
<1>2. p # Boot => BootProgress'
  <2> SUFFICES ASSUME p # Boot PROVE BootProgress'
    OBVIOUS
  <2>1. worker'[Boot] = worker[Boot] /\ (quiet' => worker'[Boot].at = "free")
    BY <1>1 DEF Procs
  <2> QED BY <2>1 DEF BootProgress, ScheduleInv
<1>3. ASSUME NEW q \in Registrars \ {p}
      PROVE  worker'[q].job # "boot" /\ worker'[q].at # "next" /\ Registered(q)'
  <2>1. worker'[q] = worker[q] /\ (quiet' => worker'[q].at = "free")
    BY <1>1, <1>3 DEF Procs
  <2>2. Registered(q)'
    BY <2>1 DEF Registered
  <2> QED BY <1>3, <2>1, <2>2 DEF ScheduleInv, Registrations
<1> QED BY <1>1, <1>2, <1>3

\* A step of a process that is at work keeps what it says of that process.
LEMMA WorkingKeeps ==
  ASSUME ScheduleTypes, ScheduleInv, NEW p \in Procs, worker[p].at # "free", quiet' => quiet,
         \A q \in Procs \ {p} : worker'[q] = worker[q],
         UNCHANGED <<healed, settled>>,
         p = Boot => BootProgress',
         p # Boot => worker'[p].job # "boot" /\ worker'[p].at # "next" /\ Registered(p)'
  PROVE  ScheduleInv'
<1>1. healed = FALSE /\ settled = {}
  BY DEF ScheduleInv, OneProcess, AtRest, ScheduleTypes
<1>2. quiet' => \A q \in Procs \ {p} : worker'[q].at = "free"
  BY OthersRest
<1>3. OneProcess'
  BY <1>1, <1>2 DEF OneProcess
<1>4. SchedulesFollowManifests'
  BY <1>1 DEF SchedulesFollowManifests
<1>5. BootProgress' /\ Registrations'
  <2>1. p # Boot => BootProgress'
    BY OthersRest
  <2>2. \A q \in Registrars \ {p} : worker'[q].job # "boot" /\ worker'[q].at # "next" /\ Registered(q)'
    BY OthersRest
  <2>3. Boot \notin Registrars
    BY SkillSchedulesAssumption
  <2> QED BY <2>1, <2>2, <2>3 DEF Registrations
<1> QED BY <1>3, <1>4, <1>5 DEF ScheduleInv

\* What a process that begins is to do.
Begins(p, w) ==
  /\ worker[p].at = "free" /\ NewJob /\ worker' = [worker EXCEPT ![p] = w] /\ w.at # "free"
  /\ \/ p = Boot /\ w.at = "next" /\ w.todo = Skills /\ w.job = "boot" /\ w.write = {}
     \/ /\ p \in Registrars /\ w.skill \in Skills /\ w.at = "list"
        /\ \/ w.write = Keys(w.skill, manifest[w.skill]) /\ w.job = "register"
           \/ w.job = "deactivate"

LEMMA JobsBeginSo ==
  ASSUME ScheduleTypes,
         StartBoot \/ \E p \in Procs : StartRegister(p) \/ StartDeactivate(p)
  PROVE  /\ \E p \in Procs, w \in ProcState : Begins(p, w)
         /\ healed' = FALSE /\ settled' = {} /\ UNCHANGED <<manifest, queue, namedByKey>>
<1>1. CASE StartBoot
  <2> DEFINE w == [Free EXCEPT !.at = "next", !.todo = Skills, !.job = "boot"]
  <2>1. w \in ProcState
    BY DEF ProcState, Free
  <2>2. w.at = "next" /\ w.todo = Skills /\ w.job = "boot" /\ w.write = {}
    BY DEF Free
  <2>3. worker' = [worker EXCEPT ![Boot] = w]
    BY <1>1 DEF StartBoot
  <2> HIDE DEF w
  <2>4. Begins(Boot, w)
    BY <1>1, <2>2, <2>3 DEF StartBoot, Begins
  <2> QED BY <1>1, <2>1, <2>4 DEF StartBoot, Unsettle, Procs
<1>2. ASSUME NEW p \in Procs, StartRegister(p)
      PROVE  (\E w \in ProcState : Begins(p, w)) /\ Unsettle /\ UNCHANGED <<manifest, queue, namedByKey>>
  <2>1. PICK s \in Skills : worker' = [worker EXCEPT ![p] =
          [Free EXCEPT !.at = "list", !.skill = s, !.write = Keys(s, manifest[s]), !.job = "register"]]
    BY <1>2 DEF StartRegister
  <2> DEFINE w == [Free EXCEPT !.at = "list", !.skill = s, !.write = Keys(s, manifest[s]), !.job = "register"]
  <2>2. w \in ProcState
    <3>1. Keys(s, manifest[s]) \subseteq Skills \X Nat
      BY KeysOf DEF ScheduleTypes
    <3> QED BY <3>1 DEF ProcState, Free
  <2>3. w.at = "list" /\ w.skill = s /\ w.write = Keys(s, manifest[s]) /\ w.job = "register"
    BY DEF Free
  <2>4. worker' = [worker EXCEPT ![p] = w]
    BY <2>1
  <2> HIDE DEF w
  <2>5. Begins(p, w)
    BY <1>2, <2>3, <2>4 DEF StartRegister, Begins
  <2> QED BY <1>2, <2>2, <2>5 DEF StartRegister
<1>3. ASSUME NEW p \in Procs, StartDeactivate(p)
      PROVE  (\E w \in ProcState : Begins(p, w)) /\ Unsettle /\ UNCHANGED <<manifest, queue, namedByKey>>
  <2>1. PICK s \in Skills : worker' = [worker EXCEPT ![p] =
          [Free EXCEPT !.at = "list", !.skill = s, !.job = "deactivate"]]
    BY <1>3 DEF StartDeactivate
  <2> DEFINE w == [Free EXCEPT !.at = "list", !.skill = s, !.job = "deactivate"]
  <2>2. w \in ProcState
    BY DEF ProcState, Free
  <2>3. w.at = "list" /\ w.skill = s /\ w.job = "deactivate"
    BY DEF Free
  <2>4. worker' = [worker EXCEPT ![p] = w]
    BY <2>1
  <2> HIDE DEF w
  <2>5. Begins(p, w)
    BY <1>3, <2>3, <2>4 DEF StartDeactivate, Begins
  <2> QED BY <1>3, <2>2, <2>5 DEF StartDeactivate
<1> QED BY <1>1, <1>2, <1>3 DEF Unsettle

LEMMA JobsBegin ==
  ASSUME ScheduleTypes, ScheduleInv,
         StartBoot \/ \E p \in Procs : StartRegister(p) \/ StartDeactivate(p)
  PROVE  ScheduleTypes' /\ ScheduleInv'
<1>1. PICK p \in Procs, w \in ProcState :
        /\ Begins(p, w)
        /\ healed' = FALSE /\ settled' = {} /\ UNCHANGED <<manifest, queue, namedByKey>>
  BY JobsBeginSo
<1>2. worker' \in [Procs -> ProcState] /\ worker'[p] = w /\ \A q \in Procs \ {p} : worker'[q] = worker[q]
  BY <1>1 DEF ScheduleTypes, Begins
<1>3. ScheduleTypes'
  <2>1. quiet' \in BOOLEAN
    BY <1>1 DEF NewJob, Begins
  <2> QED BY <1>1, <1>2, <2>1 DEF ScheduleTypes
<1>4. /\ quiet' => \A q \in Procs \ {p} : worker'[q].at = "free"
      /\ p # Boot => BootProgress'
      /\ \A q \in Registrars \ {p} : worker'[q].job # "boot" /\ worker'[q].at # "next" /\ Registered(q)'
  BY <1>1, <1>2, OthersRest DEF Begins
<1>5. OneProcess' /\ SchedulesFollowManifests'
  BY <1>1, <1>4 DEF OneProcess, SchedulesFollowManifests
<1>6. CASE p = Boot
  <2>1. w.at = "next" /\ w.todo = Skills /\ w.job = "boot" /\ w.write = {} /\ Boot \notin Registrars
    BY <1>1, <1>6, SkillSchedulesAssumption DEF Begins
  <2>2. BootProgress'
    BY <1>2, <1>6, <2>1 DEF BootProgress
  <2> QED BY <1>3, <1>4, <1>5, <1>6, <2>1, <2>2 DEF ScheduleInv, Registrations
<1>7. CASE p # Boot
  <2>1. w.skill \in Skills /\ w.at = "list" /\ w.job # "boot"
        /\ (w.job = "register" => w.write = Keys(w.skill, manifest[w.skill]))
    BY <1>1, <1>7 DEF Begins
  <2>2. Registered(p)'
    BY <1>1, <1>2, <2>1 DEF Registered
  <2> QED BY <1>2, <1>3, <1>4, <1>5, <1>7, <2>1, <2>2 DEF ScheduleInv, Registrations
<1> QED BY <1>6, <1>7

LEMMA ManifestsChange ==
  ASSUME ScheduleTypes, ScheduleInv, WriteManifest
  PROVE  ScheduleTypes' /\ ScheduleInv'
<1>1. /\ manifest' \in [Skills -> Manifests] /\ quiet' = FALSE /\ healed' = FALSE /\ settled' = {}
      /\ UNCHANGED <<queue, namedByKey, worker>>
  BY DEF WriteManifest, Unsettle, ScheduleTypes
<1>2. ScheduleTypes'
  BY <1>1 DEF ScheduleTypes
<1>3. OneProcess' /\ BootProgress' /\ Registrations' /\ SchedulesFollowManifests'
  BY <1>1 DEF ScheduleInv, OneProcess, BootProgress, Registrations, Registered, SchedulesFollowManifests
<1> QED BY <1>2, <1>3 DEF ScheduleInv

\* What a call to Redis leaves of the quiet.
LEMMA RedisCall ==
  ASSUME ScheduleTypes, RedisFine \/ RedisFault
  PROVE  quiet' \in BOOLEAN /\ (quiet' => quiet)
<1>1. quiet \in BOOLEAN
  BY DEF ScheduleTypes
<1>2. CASE RedisFine
  <2>1. quiet' = quiet
    BY <1>2 DEF RedisFine
  <2> QED BY <1>1, <2>1
<1>3. CASE RedisFault
  BY <1>3 DEF RedisFault
<1> QED BY <1>2, <1>3

LEMMA BootTakesNext ==
  ASSUME ScheduleTypes, ScheduleInv, NextManifest
  PROVE  ScheduleTypes' /\ ScheduleInv'
<1>1. PICK s \in worker[Boot].todo : /\ worker[Boot].at = "next"
        /\ worker' = [worker EXCEPT ![Boot].todo = @ \ {s}, ![Boot].skill = s,
                              ![Boot].write = Keys(s, manifest[s]),
                              ![Boot].at = CASE manifest[s].crons = 0 -> "next"
                                             [] manifest[s].crons = 1 -> "write"
                                             [] OTHER -> "list"]
        /\ RedisFine /\ UNCHANGED <<manifest, queue, namedByKey, jobs, edits, healed, settled>>
  BY DEF NextManifest
<1>2. Boot \in Procs /\ worker[Boot] \in ProcState /\ worker[Boot].todo \subseteq Skills /\ s \in Skills
  BY <1>1 DEF Procs, ScheduleTypes, ProcState
<1>3. Keys(s, manifest[s]) \subseteq Skills \X Nat
  BY <1>2, KeysOf DEF ScheduleTypes
<1>4. /\ worker'[Boot].todo = worker[Boot].todo \ {s} /\ worker'[Boot].skill = s
      /\ worker'[Boot].write = Keys(s, manifest[s]) /\ worker'[Boot].job = worker[Boot].job
      /\ worker'[Boot].at \in {"next", "write", "list"}
      /\ worker'[Boot].at = "next" => manifest[s].crons = 0
      /\ worker'[Boot] \in ProcState
      /\ \A q \in Procs \ {Boot} : worker'[q] = worker[q]
      /\ worker' \in [Procs -> ProcState]
  <2> HIDE DEF Keys
  <2> DEFINE a == CASE manifest[s].crons = 0 -> "next" [] manifest[s].crons = 1 -> "write" [] OTHER -> "list"
  <2>1. a \in {"next", "write", "list"} /\ (a = "next" => manifest[s].crons = 0)
    OBVIOUS
  <2>2. worker' = [worker EXCEPT ![Boot].todo = @ \ {s}, ![Boot].skill = s,
                              ![Boot].write = Keys(s, manifest[s]), ![Boot].at = a]
    BY <1>1
  <2> HIDE DEF a
  <2>3. worker' \in [Procs -> ProcState]
    <3> DEFINE todo == worker[Boot].todo \ {s}
               w == [worker[Boot] EXCEPT !.todo = todo, !.skill = s, !.write = Keys(s, manifest[s]), !.at = a]
    <3>1. todo \in SUBSET Skills
      BY <1>2
    <3> HIDE DEF todo
    <3>2. w \in ProcState
      BY <1>2, <1>3, <2>1, <3>1 DEF ProcState
    <3>3. worker' = [worker EXCEPT ![Boot] = w]
      BY <2>2 DEF todo
    <3> HIDE DEF w
    <3> QED BY <3>2, <3>3 DEF ScheduleTypes
  <2>4. \A q \in Procs \ {Boot} : worker'[q] = worker[q]
    BY <2>2 DEF ScheduleTypes
  <2>5. /\ worker'[Boot].todo = worker[Boot].todo \ {s} /\ worker'[Boot].skill = s
        /\ worker'[Boot].write = Keys(s, manifest[s]) /\ worker'[Boot].job = worker[Boot].job
        /\ worker'[Boot].at = a
    BY <1>2, <2>2 DEF ScheduleTypes, ProcState
  <2> QED BY <1>2, <2>1, <2>3, <2>4, <2>5
<1>5. ScheduleTypes'
  BY <1>1, <1>4 DEF ScheduleTypes, RedisFine
<1>6. BootProgress'
  <2>1. worker'[Boot].at = "next" => worker'[Boot].write = {}
    BY <1>4 DEF Keys
  <2>2. worker[Boot].job = "boot" /\ worker[Boot].write = {}
    BY <1>1 DEF ScheduleInv, BootProgress
  <2>3. ASSUME quiet', NEW t \in Skills \ worker'[Boot].todo
        PROVE  Keys(t, manifest[t]) \subseteq queue \union (IF t = s THEN Keys(s, manifest[s]) ELSE {})
    <3>1. CASE t = s
      BY <3>1
    <3>2. CASE t # s
      <4>1. t \in Skills \ worker[Boot].todo /\ quiet
        BY <1>1, <1>4, <2>3, <3>2 DEF RedisFine
      <4> QED BY <1>1, <2>2, <4>1 DEF ScheduleInv, BootProgress
    <3> QED BY <3>1, <3>2
  <2> QED BY <1>1, <1>4, <2>1, <2>2, <2>3 DEF BootProgress
<1>7. worker[Boot].at # "free" /\ (quiet' => quiet)
  BY <1>1 DEF RedisFine
<1> QED BY <1>1, <1>2, <1>4, <1>5, <1>6, <1>7, WorkingKeeps

LEMMA ProcessLists ==
  ASSUME ScheduleTypes, ScheduleInv, NEW p \in Procs, List(p)
  PROVE  ScheduleTypes' /\ ScheduleInv'
<1>1. /\ worker[p].at = "list" /\ worker[p] \in ProcState
      /\ UNCHANGED <<manifest, queue, namedByKey, healed, settled>>
      /\ quiet' \in BOOLEAN /\ (quiet' => quiet)
  BY RedisCall DEF List, ScheduleTypes
<1>2. PICK stale \in SUBSET (Skills \X Nat), stage \in {"remove", "write"} :
        /\ worker' = [worker EXCEPT ![p].at = stage, ![p].stale = stale]
        /\ quiet' => /\ stage = "remove"
                     /\ stale = IF p = Boot THEN ByName(worker[p].skill) ELSE ByPrefix(worker[p].skill)
  <2>1. {ByName(worker[p].skill), ByPrefix(worker[p].skill)} \subseteq SUBSET (Skills \X Nat)
    BY DEF ByName, ByPrefix, ScheduleTypes
  <2>2. CASE RedisFine /\ worker' = [worker EXCEPT ![p].at = "remove",
             ![p].stale = IF p = Boot THEN ByName(worker[p].skill) ELSE ByPrefix(worker[p].skill)]
    BY <2>1, <2>2
  <2>3. CASE RedisFault /\ worker' = [worker EXCEPT ![p].at = "write"]
    <3>1. worker' = [worker EXCEPT ![p].at = "write", ![p].stale = worker[p].stale]
      BY <2>3, <1>1 DEF ScheduleTypes
    <3>2. quiet' = FALSE
      BY <2>3 DEF RedisFault
    <3>3. worker[p].stale \in SUBSET (Skills \X Nat)
      BY <1>1 DEF ProcState
    <3> QED BY <3>1, <3>2, <3>3
  <2> QED BY <2>2, <2>3 DEF List
<1>3. /\ worker'[p].at = stage /\ worker'[p].stale = stale /\ worker'[p].skill = worker[p].skill
      /\ worker'[p].todo = worker[p].todo /\ worker'[p].write = worker[p].write /\ worker'[p].job = worker[p].job
      /\ worker' \in [Procs -> ProcState]
      /\ \A q \in Procs \ {p} : worker'[q] = worker[q]
  BY <1>1, <1>2 DEF ScheduleTypes, ProcState
<1>4. ScheduleTypes'
  BY <1>1, <1>3 DEF ScheduleTypes
<1>5. p = Boot => BootProgress'
  BY <1>1, <1>2, <1>3 DEF ScheduleInv, BootProgress, ByName
<1>6. p # Boot => worker'[p].job # "boot" /\ worker'[p].at # "next" /\ Registered(p)'
  <2> SUFFICES ASSUME p # Boot PROVE worker'[p].job # "boot" /\ worker'[p].at # "next" /\ Registered(p)'
    OBVIOUS
  <2>1. worker[p].job # "boot" /\ Registered(p)
    BY DEF Procs, ScheduleInv, Registrations
  <2>2. quiet' /\ namedByKey => OwnKeys(worker[p].skill) \subseteq worker'[p].stale
    BY <1>2, <1>3 DEF OwnKeys, ByPrefix
  <2> QED BY <1>1, <1>2, <1>3, <2>1, <2>2 DEF Registered, OwnKeys
<1> QED BY <1>1, <1>3, <1>4, <1>5, <1>6, WorkingKeeps

LEMMA ProcessRemoves ==
  ASSUME ScheduleTypes, ScheduleInv, NEW p \in Procs, Remove(p)
  PROVE  ScheduleTypes' /\ ScheduleInv'
<1>1. /\ worker[p].at = "remove" /\ worker[p] \in ProcState
      /\ UNCHANGED <<manifest, namedByKey, healed, settled>>
      /\ quiet' \in BOOLEAN /\ (quiet' => quiet)
  BY RedisCall DEF Remove, ScheduleTypes
<1>2. PICK gone \in SUBSET worker[p].stale, stage \in {"remove", "write"} :
        /\ worker' = [worker EXCEPT ![p].at = stage, ![p].stale = worker[p].stale \ gone]
        /\ queue' = queue \ gone
        /\ quiet' /\ stage = "write" => worker[p].stale = {}
  <2>1. ASSUME NEW k \in worker[p].stale, queue' = queue \ {k}, RedisFine,
               worker' = [worker EXCEPT ![p].stale = @ \ {k}]
        PROVE  worker' = [worker EXCEPT ![p].at = "remove", ![p].stale = worker[p].stale \ {k}]
    BY <1>1, <2>1 DEF ScheduleTypes
  <2>2. ASSUME worker' = [worker EXCEPT ![p].at = "write"]
        PROVE  worker' = [worker EXCEPT ![p].at = "write", ![p].stale = worker[p].stale \ {}]
    BY <1>1, <2>2 DEF ScheduleTypes
  <2>3. CASE \E k \in worker[p].stale :
          /\ queue' = queue \ {k} /\ RedisFine
          /\ worker' = [worker EXCEPT ![p].stale = @ \ {k}]
    <3>1. PICK k \in worker[p].stale :
          /\ queue' = queue \ {k} /\ RedisFine
          /\ worker' = [worker EXCEPT ![p].stale = @ \ {k}]
      BY <2>3
    <3>2. worker' = [worker EXCEPT ![p].at = "remove", ![p].stale = worker[p].stale \ {k}]
      BY <2>1, <3>1
    <3>3. {k} \in SUBSET worker[p].stale
      BY <3>1
    <3> QED BY <3>1, <3>2, <3>3
  <2>4. CASE worker' = [worker EXCEPT ![p].at = "write"] /\ (worker[p].stale = {} \/ RedisFault) /\ UNCHANGED queue
    <3>1. worker' = [worker EXCEPT ![p].at = "write", ![p].stale = worker[p].stale \ {}]
      BY <2>2, <2>4
    <3>2. queue' = queue \ {} /\ (quiet' => worker[p].stale = {})
      BY <2>4 DEF RedisFault
    <3>3. {} \in SUBSET worker[p].stale
      OBVIOUS
    <3> QED BY <3>1, <3>2, <3>3
  <2> QED BY <2>3, <2>4 DEF Remove
<1>3. /\ worker'[p].at = stage /\ worker'[p].stale = worker[p].stale \ gone /\ worker'[p].skill = worker[p].skill
      /\ worker'[p].todo = worker[p].todo /\ worker'[p].write = worker[p].write /\ worker'[p].job = worker[p].job
      /\ worker' \in [Procs -> ProcState]
      /\ \A q \in Procs \ {p} : worker'[q] = worker[q]
  BY <1>1, <1>2 DEF ScheduleTypes, ProcState
<1>4. ScheduleTypes'
  BY <1>1, <1>2, <1>3 DEF ScheduleTypes
<1>5. p = Boot => BootProgress'
  <2> SUFFICES ASSUME p = Boot PROVE BootProgress'
    OBVIOUS
  <2>1. ASSUME quiet', NEW s \in Skills \ worker[Boot].todo
        PROVE  Keys(s, manifest[s]) \subseteq queue' \union (IF s = worker[Boot].skill THEN worker[Boot].write ELSE {})
    <3>1. Keys(s, manifest[s]) \subseteq queue \union (IF s = worker[Boot].skill THEN worker[Boot].write ELSE {})
          /\ worker[Boot].write = Keys(worker[Boot].skill, manifest[worker[Boot].skill])
          /\ worker[Boot].stale \subseteq {<<worker[Boot].skill, 0>>}
      BY <1>1, <2>1 DEF ScheduleInv, BootProgress
    <3>2. CASE s = worker[Boot].skill
      BY <3>1, <3>2
    <3>3. CASE s # worker[Boot].skill
      <4>1. \A k \in Keys(s, manifest[s]) : k[1] = s
        BY KeysOf DEF ScheduleTypes
      <4>2. \A k \in gone : k[1] # s
        BY <1>2, <3>1, <3>3
      <4> QED BY <1>2, <3>1, <3>3, <4>1, <4>2
    <3> QED BY <3>2, <3>3
  <2>2. worker[Boot].job = "boot"
    BY <1>1 DEF ScheduleInv, BootProgress
  <2>3. quiet' => /\ worker[Boot].write = Keys(worker[Boot].skill, manifest[worker[Boot].skill])
                  /\ worker'[Boot].stale \subseteq {<<worker[Boot].skill, 0>>}
    BY <1>1, <1>3 DEF ScheduleInv, BootProgress
  <2> QED BY <1>1, <1>2, <1>3, <2>1, <2>2, <2>3 DEF BootProgress
<1>6. p # Boot => worker'[p].job # "boot" /\ worker'[p].at # "next" /\ Registered(p)'
  <2> SUFFICES ASSUME p # Boot PROVE worker'[p].job # "boot" /\ worker'[p].at # "next" /\ Registered(p)'
    OBVIOUS
  <2>1. worker[p].job # "boot" /\ Registered(p)
    BY DEF Procs, ScheduleInv, Registrations
  <2>2. ASSUME quiet', worker[p].job = "register"
        PROVE  /\ worker[p].skill \in Skills
               /\ worker[p].write = Keys(worker[p].skill, manifest[worker[p].skill])
               /\ namedByKey => OwnKeys(worker[p].skill) \subseteq worker[p].stale
    BY <1>1, <2>1, <2>2 DEF Registered
  <2>3. OwnKeys(worker[p].skill)' = OwnKeys(worker[p].skill) \ gone
    BY <1>2, <1>3 DEF OwnKeys
  <2> QED BY <1>1, <1>2, <1>3, <2>1, <2>2, <2>3 DEF Registered
<1> QED BY <1>1, <1>3, <1>4, <1>5, <1>6, WorkingKeeps

LEMMA ProcessWrites ==
  ASSUME ScheduleTypes, ScheduleInv, NEW p \in Procs, Upsert(p)
  PROVE  ScheduleTypes' /\ ScheduleInv'
<1>1. PICK k \in worker[p].write :
        /\ (RedisFine /\ queue' = queue \union {k}) \/ (p = Boot /\ RedisFault /\ UNCHANGED queue)
        /\ worker' = [worker EXCEPT ![p].write = @ \ {k}]
  BY DEF Upsert
<1>2. /\ worker[p].at = "write" /\ worker[p] \in ProcState /\ k \in Skills \X Nat
      /\ UNCHANGED <<manifest, namedByKey, healed, settled>>
      /\ quiet' \in BOOLEAN /\ (quiet' => quiet)
  <2>1. worker[p] \in ProcState /\ worker[p].write \subseteq Skills \X Nat
    BY DEF ScheduleTypes, ProcState
  <2> QED BY <1>1, <2>1, RedisCall DEF Upsert
<1>3. /\ worker'[p].write = worker[p].write \ {k}
      /\ worker'[p].at = worker[p].at /\ worker'[p].stale = worker[p].stale /\ worker'[p].skill = worker[p].skill
      /\ worker'[p].todo = worker[p].todo /\ worker'[p].job = worker[p].job
      /\ worker' \in [Procs -> ProcState]
      /\ \A q \in Procs \ {p} : worker'[q] = worker[q]
  BY <1>1, <1>2 DEF ScheduleTypes, ProcState
<1>4. (queue' = queue \union {k} \/ queue' = queue) /\ (quiet' => queue' = queue \union {k})
  BY <1>1 DEF RedisFault
<1>5. ScheduleTypes'
  BY <1>2, <1>3, <1>4 DEF ScheduleTypes
<1>6. p = Boot => BootProgress'
  <2> SUFFICES ASSUME p = Boot PROVE BootProgress'
    OBVIOUS
  <2>1. worker[Boot].job = "boot"
    BY <1>2 DEF ScheduleInv, BootProgress
  <2>2. ASSUME quiet', NEW s \in Skills \ worker[Boot].todo
        PROVE  Keys(s, manifest[s]) \subseteq queue' \union (IF s = worker[Boot].skill THEN worker'[Boot].write ELSE {})
    <3>1. Keys(s, manifest[s]) \subseteq queue \union (IF s = worker[Boot].skill THEN worker[Boot].write ELSE {})
      BY <1>2, <2>2 DEF ScheduleInv, BootProgress
    <3> QED BY <1>3, <1>4, <2>2, <3>1
  <2> QED BY <1>2, <1>3, <2>1, <2>2 DEF BootProgress
<1>7. p # Boot => worker'[p].job # "boot" /\ worker'[p].at # "next" /\ Registered(p)'
  <2> SUFFICES ASSUME p # Boot PROVE worker'[p].job # "boot" /\ worker'[p].at # "next" /\ Registered(p)'
    OBVIOUS
  <2>1. worker[p].job # "boot" /\ Registered(p)
    BY DEF Procs, ScheduleInv, Registrations
  <2>2. ASSUME quiet', worker[p].job = "register"
        PROVE  /\ worker[p].skill \in Skills
               /\ worker[p].write \subseteq Keys(worker[p].skill, manifest[worker[p].skill])
               /\ Keys(worker[p].skill, manifest[worker[p].skill]) \subseteq queue \union worker[p].write
               /\ namedByKey => OwnKeys(worker[p].skill) \subseteq Keys(worker[p].skill, manifest[worker[p].skill])
    BY <1>2, <2>1, <2>2 DEF Registered
  <2>3. quiet' => OwnKeys(worker[p].skill)' \subseteq OwnKeys(worker[p].skill) \union {k}
    BY <1>3, <1>4 DEF OwnKeys
  <2> QED BY <1>1, <1>2, <1>3, <1>4, <2>1, <2>2, <2>3 DEF Registered
<1> QED BY <1>2, <1>3, <1>5, <1>6, <1>7, WorkingKeeps

\* A process that ends leaves the others at rest, if it was quiet.
LEMMA ProcessEnds ==
  ASSUME ScheduleTypes, ScheduleInv, NEW p \in Procs, worker[p].at # "free",
         worker' = [worker EXCEPT ![p] = Free], quiet' \in BOOLEAN, quiet' => quiet,
         UNCHANGED <<manifest, queue, namedByKey>>,
         healed' \in BOOLEAN, settled' \subseteq Skills,
         healed' \/ settled' # {} => quiet,
         SchedulesFollowManifests'
  PROVE  ScheduleTypes' /\ ScheduleInv'
<1>1. Free \in ProcState /\ Free.at = "free" /\ Free.job = "none"
  BY DEF Free, ProcState
<1>2. worker' \in [Procs -> ProcState] /\ worker'[p] = Free /\ \A q \in Procs \ {p} : worker'[q] = worker[q]
  BY <1>1 DEF ScheduleTypes
<1>3. ScheduleTypes'
  BY <1>2 DEF ScheduleTypes
<1>4. quiet => \A q \in Procs : worker'[q].at = "free"
  BY <1>1, <1>2 DEF ScheduleInv, OneProcess
<1>5. OneProcess'
  BY <1>4 DEF OneProcess, AtRest
<1>6. BootProgress'
  <2>1. CASE p = Boot
    BY <1>1, <1>2, <2>1 DEF BootProgress
  <2>2. CASE p # Boot
    BY <1>2, <2>2, OthersRest
  <2> QED BY <2>1, <2>2
<1>7. Registrations'
  <2>1. \A q \in Registrars \ {p} : worker'[q].job # "boot" /\ worker'[q].at # "next" /\ Registered(q)'
    BY <1>2, OthersRest
  <2>2. worker'[p].job # "boot" /\ worker'[p].at # "next" /\ Registered(p)'
    BY <1>1, <1>2 DEF Registered
  <2> QED BY <2>1, <2>2 DEF Registrations
<1> QED BY <1>3, <1>5, <1>6, <1>7 DEF ScheduleInv

LEMMA NobodySettled ==
  ASSUME ScheduleTypes, ScheduleInv, NEW p \in Procs, worker[p].at # "free"
  PROVE  healed = FALSE /\ settled = {}
BY DEF ScheduleInv, OneProcess, AtRest, ScheduleTypes

LEMMA ProcessDone ==
  ASSUME ScheduleTypes, ScheduleInv, NEW p \in Procs, EndSkill(p)
  PROVE  ScheduleTypes' /\ ScheduleInv'
<1>1. /\ worker[p].at = "write" /\ worker[p].write = {} /\ worker[p] \in ProcState
      /\ quiet' = quiet /\ UNCHANGED <<manifest, queue, namedByKey, healed>>
      /\ healed = FALSE /\ settled = {}
  BY NobodySettled DEF EndSkill, RedisFine, ScheduleTypes
<1>2. CASE p = Boot
  <2>1. worker' = [worker EXCEPT ![Boot].at = "next"] /\ UNCHANGED settled
    BY <1>2 DEF EndSkill
  <2>2. /\ worker'[Boot].at = "next" /\ worker'[Boot].write = {} /\ worker'[Boot].skill = worker[Boot].skill
        /\ worker'[Boot].todo = worker[Boot].todo /\ worker'[Boot].job = worker[Boot].job
        /\ worker' \in [Procs -> ProcState]
        /\ \A q \in Procs \ {Boot} : worker'[q] = worker[q]
    BY <1>1, <1>2, <2>1 DEF ScheduleTypes, ProcState
  <2>3. ScheduleTypes'
    BY <1>1, <2>1, <2>2 DEF ScheduleTypes
  <2>4. BootProgress'
    BY <1>1, <1>2, <2>2 DEF ScheduleInv, BootProgress
  <2> QED BY <1>1, <1>2, <2>1, <2>2, <2>3, <2>4, WorkingKeeps
<1>3. CASE p # Boot
  <2>1. worker' = [worker EXCEPT ![p] = Free]
        /\ settled' = IF quiet /\ worker[p].job = "register" THEN {worker[p].skill} ELSE {}
    BY <1>3 DEF EndSkill
  <2>2. Registered(p)
    BY <1>3 DEF Procs, ScheduleInv, Registrations
  <2>3. SchedulesFollowManifests' /\ settled' \subseteq Skills
    <3>1. CASE quiet /\ worker[p].job = "register"
      <4> DEFINE s == worker[p].skill
      <4>1. /\ s \in Skills /\ Keys(s, manifest[s]) \subseteq queue
            /\ namedByKey => OwnKeys(s) \subseteq Keys(s, manifest[s])
        BY <1>1, <2>2, <3>1 DEF Registered
      <4>2. \A k \in Keys(s, manifest[s]) : k[1] = s
        BY <4>1, KeysOf DEF ScheduleTypes
      <4>3. settled' = {s}
        BY <2>1, <3>1
      <4> HIDE DEF s
      <4>4. namedByKey => {k \in queue : k[1] = s} = Keys(s, manifest[s])
        BY <4>1, <4>2 DEF OwnKeys
      <4> QED BY <1>1, <4>1, <4>3, <4>4 DEF SchedulesFollowManifests
    <3>2. CASE ~(quiet /\ worker[p].job = "register")
      BY <1>1, <2>1, <3>2 DEF SchedulesFollowManifests
    <3> QED BY <3>1, <3>2
  <2>4. quiet \in BOOLEAN /\ (settled' # {} => quiet)
    BY <2>1 DEF ScheduleTypes
  <2> QED BY <1>1, <2>1, <2>3, <2>4, ProcessEnds
<1> QED BY <1>2, <1>3

LEMMA BootDone ==
  ASSUME ScheduleTypes, ScheduleInv, EndBoot
  PROVE  ScheduleTypes' /\ ScheduleInv'
<1>1. /\ worker[Boot].at = "next" /\ worker[Boot].todo = {} /\ worker' = [worker EXCEPT ![Boot] = Free]
      /\ healed' = quiet /\ quiet' = quiet /\ UNCHANGED <<manifest, queue, namedByKey, settled>>
  BY DEF EndBoot, RedisFine
<1>2. Boot \in Procs /\ settled = {} /\ quiet \in BOOLEAN
  BY <1>1, NobodySettled DEF Procs, ScheduleTypes
<1>3. worker[Boot].write = {}
      /\ (quiet => \A s \in Skills : Keys(s, manifest[s]) \subseteq
             queue \union (IF s = worker[Boot].skill THEN worker[Boot].write ELSE {}))
  BY <1>1 DEF ScheduleInv, BootProgress
<1>4. SchedulesFollowManifests'
  <2>1. quiet => \A s \in Skills : Keys(s, manifest[s]) \subseteq queue
    BY <1>3
  <2> QED BY <1>1, <1>2, <2>1 DEF SchedulesFollowManifests
<1> QED BY <1>1, <1>2, <1>4, ProcessEnds

LEMMA ProcessIsKilled ==
  ASSUME ScheduleTypes, ScheduleInv, NEW p \in Procs, ProcessDies(p)
  PROVE  ScheduleTypes' /\ ScheduleInv'
<1>1. /\ worker[p].at # "free" /\ worker' = [worker EXCEPT ![p] = Free] /\ quiet' = FALSE
      /\ UNCHANGED <<manifest, queue, namedByKey, healed, settled>>
  BY DEF ProcessDies, RedisFault
<1>2. healed = FALSE /\ settled = {}
  BY <1>1, NobodySettled
<1>3. SchedulesFollowManifests'
  BY <1>1, <1>2 DEF SchedulesFollowManifests
<1> QED BY <1>1, <1>2, <1>3, ProcessEnds

LEMMA SchedulesStep ==
  ScheduleTypes /\ ScheduleInv /\ SchedulesNext => ScheduleTypes' /\ ScheduleInv'
BY JobsBegin, ManifestsChange, BootTakesNext, ProcessLists, ProcessRemoves, ProcessWrites, ProcessDone,
   BootDone, ProcessIsKilled DEF SchedulesNext, ScheduleStep

-----------------------------------------------------------------------------
(* The library *)

\* What can be contributed: a skill has a skill.yaml.
Skilled == {c \in Contents : c[Yaml] # 0}

Proposal ==
  [version : {VersionOf[v] : v \in Variants}, content : Skilled, status : {"pending", "rejected"}]

LibraryTypes ==
  /\ shelf \in Seq(Skilled) /\ canonical \in Seq(Skilled) /\ proposals \in Seq(Proposal)
  /\ disk \in Contents /\ landed \in Contents /\ crossed \in BOOLEAN
  /\ client \in [Clients -> [at : {"shell", "contribute", "install", "promote", "push", "accept"},
                            content : Contents, todo : SUBSET SkillFiles]]
  /\ \A c \in Clients : client[c].at = "contribute" => client[c].content \in Skilled

\* Commands that never overlapped: one is at work at most, and what it has looked
\* up is still so.
OneCommand ==
  ~crossed =>
    /\ \A c, d \in Clients : client[c].at # "shell" /\ client[d].at # "shell" => c = d
    /\ \A c \in Clients :
         /\ client[c].at = "contribute" => client[c].content \notin Elements(shelf)
         /\ client[c].at = "promote" => client[c].content \notin Elements(canonical)
         /\ client[c].at = "push" => \A i \in DOMAIN proposals :
              proposals[i].status = "pending" => proposals[i].version # Version(client[c].content)
         /\ client[c].at = "install" => \A f \in SkillFiles \ client[c].todo :
              client[c].content[f] \in {0, disk[f]}

\* What is promoted and proposed was contributed, and what was installed is left
\* alone until the next command begins.
LookedUp ==
  /\ \A c \in Clients : client[c].at \in {"promote", "push"} => client[c].content \in Elements(shelf)
  /\ landed # Nothing => \A c \in Clients : client[c].at = "shell"

LibraryInv == OneCommand /\ LookedUp /\ LibraryIsOrderly

LEMMA AppendKeeps ==
  ASSUME NEW T, NEW s \in Seq(T), NEW e \in T
  PROVE  /\ Append(s, e) \in Seq(T) /\ Elements(Append(s, e)) = Elements(s) \union {e}
         /\ DOMAIN s = 1 .. Len(s) /\ Len(s) \in Nat
         /\ DOMAIN Append(s, e) = 1 .. Len(s) + 1
         /\ \A i \in 1 .. Len(s) : Append(s, e)[i] = s[i]
         /\ Append(s, e)[Len(s) + 1] = e
         /\ Distinct(s) /\ e \notin Elements(s) => Distinct(Append(s, e))
<1>1. DOMAIN s = 1 .. Len(s) /\ Len(s) \in Nat
  BY LenProperties
<1>2. /\ Append(s, e) \in Seq(T) /\ Len(Append(s, e)) = Len(s) + 1
      /\ \A i \in 1 .. Len(s) : Append(s, e)[i] = s[i]
      /\ Append(s, e)[Len(s) + 1] = e
  BY AppendProperties
<1>3. DOMAIN Append(s, e) = 1 .. Len(s) + 1
  BY <1>2, LenProperties
<1> DEFINE a == Append(s, e)
<1> HIDE DEF a
<1>4. Elements(a) = Elements(s) \union {e}
  <2>1. \A i \in DOMAIN a : a[i] \in Elements(s) \union {e}
    BY <1>1, <1>2, <1>3 DEF Elements, a
  <2>2. \A i \in DOMAIN s : i \in DOMAIN a /\ a[i] = s[i]
    BY <1>1, <1>2, <1>3 DEF a
  <2>3. Len(s) + 1 \in DOMAIN a /\ a[Len(s) + 1] = e
    BY <1>1, <1>2, <1>3 DEF a
  <2> QED BY <2>1, <2>2, <2>3 DEF Elements
<1>5. Distinct(s) /\ e \notin Elements(s) => Distinct(a)
  <2> SUFFICES ASSUME Distinct(s), e \notin Elements(s), NEW i \in DOMAIN a, NEW j \in DOMAIN a, a[i] = a[j]
               PROVE  i = j
    BY DEF Distinct
  <2>1. \A k \in DOMAIN a : (k \in DOMAIN s /\ a[k] = s[k]) \/ (k = Len(s) + 1 /\ a[k] = e)
    BY <1>1, <1>2, <1>3 DEF a
  <2>2. \A k \in DOMAIN s : s[k] # e
    BY DEF Elements
  <2> QED BY <2>1, <2>2 DEF Distinct
<1> QED BY <1>1, <1>2, <1>3, <1>4, <1>5 DEF a

LEMMA NewestIs ==
  ASSUME LibraryTypes, shelf # <<>>
  PROVE  Newest(shelf) \in Skilled /\ Newest(shelf) \in Elements(shelf)
<1>1. Len(shelf) \in Nat \ {0} /\ DOMAIN shelf = 1 .. Len(shelf) /\ shelf \in Seq(Skilled)
  BY EmptySeq, LenProperties DEF LibraryTypes
<1>2. Len(shelf) \in 1 .. Len(shelf)
  BY <1>1
<1> QED BY <1>1, <1>2, ElementOfSeq DEF Newest, Elements

\* Of the rows of the pinned version there is a newest.
LEMMA PinnedIsResolved ==
  ASSUME LibraryTypes, pin # 0, Resolved # Nothing
  PROVE  Version(Resolved) = pin
<1> DEFINE rows == {i \in DOMAIN shelf : pin = 0 \/ Version(shelf[i]) = pin}
           last == CHOOSE i \in rows : \A j \in rows : j <= i
<1>1. Resolved = IF rows = {} THEN Nothing ELSE shelf[last]
  BY DEF Resolved
<1>2. DOMAIN shelf = 1 .. Len(shelf) /\ Len(shelf) \in Nat
  BY LenProperties DEF LibraryTypes
<1>3. rows \in SUBSET (1 .. Len(shelf)) /\ \A i \in rows : Version(shelf[i]) = pin
  BY <1>2
<1> HIDE DEF rows
<1>4. rows # {}
  BY <1>1
<1>5. \E i \in rows : \A j \in rows : j <= i
  BY <1>2, <1>3, <1>4, IntervalMax
<1>6. last \in rows
  BY <1>5
<1> QED BY <1>1, <1>3, <1>4, <1>6

LEMMA LibraryStart == LibraryInit => LibraryTypes /\ LibraryInv
<1> SUFFICES ASSUME LibraryInit PROVE LibraryTypes /\ LibraryInv
  OBVIOUS
<1>1. Nothing \in Contents /\ \A f \in SkillFiles : Nothing[f] = 0
  BY DEF Nothing, Contents
<1>2. AtShell.at = "shell" /\ AtShell \in [at : {"shell", "contribute", "install", "promote", "push", "accept"},
                                           content : Contents, todo : SUBSET SkillFiles]
  BY <1>1 DEF AtShell
<1>3. \A c \in Clients : client[c].at = "shell"
  BY <1>2 DEF LibraryInit
<1>4. LibraryTypes
  <2>1. shelf \in Seq(Skilled) /\ canonical \in Seq(Skilled) /\ proposals \in Seq(Proposal)
    BY EmptySeq DEF LibraryInit
  <2>2. client \in [Clients -> [at : {"shell", "contribute", "install", "promote", "push", "accept"},
                            content : Contents, todo : SUBSET SkillFiles]]
    BY <1>2 DEF LibraryInit
  <2> QED BY <1>1, <1>3, <2>1, <2>2 DEF LibraryTypes, LibraryInit
<1>5. OneCommand /\ LookedUp
  BY <1>3 DEF OneCommand, LookedUp, LibraryInit
<1>6. DOMAIN shelf = {} /\ DOMAIN canonical = {} /\ DOMAIN proposals = {}
  BY DEF LibraryInit
<1>7. LibraryIsOrderly
  <2>1. Elements(canonical) = {} /\ {p.content : p \in Elements(proposals)} = {}
    BY <1>6 DEF Elements
  <2>2. Distinct(shelf) /\ Distinct(canonical)
    BY <1>6 DEF Distinct
  <2>3. \A f \in SkillFiles : landed[f] \in {0, disk[f]}
    BY <1>1 DEF LibraryInit
  <2> QED BY <1>4, <1>6, <2>1, <2>2, <2>3, PinnedIsResolved DEF LibraryIsOrderly
<1> QED BY <1>4, <1>5, <1>7 DEF LibraryInv

Places == {"shell", "contribute", "install", "promote", "push", "accept"}

\* A proposal may be rejected, and nothing else happens to it.
Settling ==
  /\ proposals' \in Seq(Proposal) /\ DOMAIN proposals' = DOMAIN proposals
  /\ \A i \in DOMAIN proposals :
       /\ proposals'[i].version = proposals[i].version /\ proposals'[i].content = proposals[i].content
       /\ proposals'[i].status = "pending" => proposals[i].status = "pending"

\* A command that begins has looked up what it is going to write.
LEMMA CommandBegins ==
  ASSUME LibraryTypes, LibraryInv, NEW c \in Clients, NEW stage \in Places, NEW content \in Contents,
         NEW todo \in SUBSET SkillFiles, Begin(c, stage, content, todo),
         UNCHANGED <<shelf, canonical>>, disk' \in Contents, Settling,
         stage = "contribute" => content \in Skilled /\ content \notin Elements(shelf),
         stage = "promote" => content \in Elements(shelf) /\ content \notin Elements(canonical),
         stage = "push" => /\ content \in Elements(shelf)
                        /\ \A i \in DOMAIN proposals :
                             proposals[i].status = "pending" => proposals[i].version # Version(content),
         stage = "install" => \A f \in SkillFiles \ todo : content[f] \in {0, disk'[f]}
  PROVE  LibraryTypes' /\ LibraryInv'
<1>1. /\ client' = [client EXCEPT ![c] = [at |-> stage, content |-> content, todo |-> todo]]
      /\ client[c].at = "shell" /\ landed' = Nothing
      /\ crossed' = (crossed \/ \E d \in Clients : client[d].at # "shell")
  BY DEF Begin
<1>2. /\ client'[c].at = stage /\ client'[c].content = content /\ client'[c].todo = todo
      /\ client' \in [Clients -> [at : Places, content : Contents, todo : SUBSET SkillFiles]]
      /\ \A d \in Clients \ {c} : client'[d] = client[d]
  BY <1>1 DEF LibraryTypes, Places
<1>3. Nothing \in Contents /\ \A f \in SkillFiles : Nothing[f] = 0
  BY DEF Nothing, Contents
<1>4. crossed' \in BOOLEAN /\ (~crossed' => ~crossed /\ \A d \in Clients : client[d].at = "shell")
  BY <1>1 DEF LibraryTypes
<1>5. LibraryTypes'
  BY <1>1, <1>2, <1>3, <1>4 DEF LibraryTypes, Settling, Places
<1>6. OneCommand'
  <2>1. ~crossed' => \A d \in Clients : client'[d].at # "shell" => d = c
    BY <1>2, <1>4
  <2>2. stage = "push" => \A i \in DOMAIN proposals' :
              proposals'[i].status = "pending" => proposals'[i].version # Version(content)
    BY DEF Settling
  <2> QED BY <1>2, <2>1, <2>2 DEF OneCommand, Version
<1>7. LookedUp'
  BY <1>1, <1>2 DEF LookedUp, LibraryInv
<1>8. LibraryIsOrderly'
  <2>1. ~crossed' => /\ Distinct(shelf) /\ Distinct(canonical)
                     /\ \A i, j \in DOMAIN proposals' :
                          /\ proposals'[i].status = "pending" /\ proposals'[j].status = "pending"
                          /\ proposals'[i].version = proposals'[j].version
                          => i = j
    BY <1>4 DEF LibraryInv, LibraryIsOrderly, Settling
  <2>2. {p.content : p \in Elements(proposals')} \subseteq {p.content : p \in Elements(proposals)}
    BY DEF Settling, Elements
  <2>3. Elements(canonical) \union {p.content : p \in Elements(proposals)} \subseteq Elements(shelf)
    BY DEF LibraryInv, LibraryIsOrderly
  <2>4. (Resolved # Nothing /\ pin # 0 => Version(Resolved) = pin)'
    BY <1>5, PinnedIsResolved, PTL
  <2>5. \A f \in SkillFiles : landed'[f] \in {0, disk'[f]}
    BY <1>1, <1>3
  <2> QED BY <2>1, <2>2, <2>3, <2>4, <2>5 DEF LibraryIsOrderly
<1> QED BY <1>5, <1>6, <1>7, <1>8 DEF LibraryInv

\* Of commands that never overlapped, the one that is at work is alone.
LEMMA CommandWorks ==
  ASSUME LibraryTypes, LibraryInv, NEW c \in Clients, client[c].at # "shell"
  PROVE  /\ landed = Nothing
         /\ ~crossed => \A d \in Clients \ {c} : client[d].at = "shell"
BY DEF LibraryInv, OneCommand, LookedUp

\* A command that ends leaves what it has written.
LEMMA CommandEnds ==
  ASSUME LibraryTypes, LibraryInv, NEW c \in Clients, NEW stage \in Places \ {"shell"}, End(c, stage),
         UNCHANGED disk, landed' \in Contents, landed' # Nothing => ~crossed,
         shelf' \in Seq(Skilled), canonical' \in Seq(Skilled), proposals' \in Seq(Proposal),
         Elements(shelf) \subseteq Elements(shelf'),
         ~crossed => /\ Distinct(shelf') /\ Distinct(canonical')
                     /\ \A i, j \in DOMAIN proposals' :
                          /\ proposals'[i].status = "pending" /\ proposals'[j].status = "pending"
                          /\ proposals'[i].version = proposals'[j].version
                          => i = j,
         Elements(canonical') \union {p.content : p \in Elements(proposals')} \subseteq Elements(shelf'),
         \A f \in SkillFiles : landed'[f] \in {0, disk'[f]}
  PROVE  LibraryTypes' /\ LibraryInv'
<1>1. /\ client[c].at = stage /\ client' = [client EXCEPT ![c] = AtShell] /\ crossed' = crossed
  BY DEF End
<1>2. AtShell.at = "shell" /\ AtShell \in [at : Places, content : Contents, todo : SUBSET SkillFiles]
  BY DEF AtShell, Nothing, Contents, Places
<1>3. /\ client'[c].at = "shell"
      /\ client' \in [Clients -> [at : Places, content : Contents, todo : SUBSET SkillFiles]]
      /\ \A d \in Clients \ {c} : client'[d] = client[d]
  BY <1>1, <1>2 DEF LibraryTypes, Places
<1>4. LibraryTypes'
  BY <1>1, <1>3 DEF LibraryTypes, Places
<1>5. ~crossed => \A d \in Clients : client'[d].at = "shell"
  BY <1>1, <1>3, CommandWorks
<1>6. OneCommand'
  BY <1>1, <1>5 DEF OneCommand
<1>7. LookedUp'
  BY <1>3, <1>5 DEF LookedUp, LibraryInv
<1>8. (Resolved # Nothing /\ pin # 0 => Version(Resolved) = pin)'
  BY <1>4, PinnedIsResolved, PTL
<1>9. LibraryIsOrderly'
  BY <1>1, <1>8 DEF LibraryIsOrderly
<1> QED BY <1>4, <1>6, <1>7, <1>9 DEF LibraryInv

\* What the library holds before a step.
LEMMA LibraryHolds ==
  ASSUME LibraryTypes, LibraryInv
  PROVE  /\ shelf \in Seq(Skilled) /\ canonical \in Seq(Skilled) /\ proposals \in Seq(Proposal)
         /\ landed \in Contents /\ disk \in Contents
         /\ ~crossed => /\ Distinct(shelf) /\ Distinct(canonical)
                        /\ \A i, j \in DOMAIN proposals :
                             /\ proposals[i].status = "pending" /\ proposals[j].status = "pending"
                             /\ proposals[i].version = proposals[j].version
                             => i = j
         /\ Elements(canonical) \union {p.content : p \in Elements(proposals)} \subseteq Elements(shelf)
         /\ \A f \in SkillFiles : landed[f] \in {0, disk[f]}
         /\ UNCHANGED proposals => Settling
BY DEF LibraryTypes, LibraryInv, LibraryIsOrderly, Settling

LEMMA CommandsBegin ==
  ASSUME LibraryTypes, LibraryInv,
         Edit \/ \E c \in Clients : \/ Contribute(c) \/ StartInstall(c) \/ Promote(c) \/ Push(c)
                                    \/ Accept(c) \/ Reject(c) \/ Pin(c)
  PROVE  LibraryTypes' /\ LibraryInv'
<1>1. Nothing \in Contents /\ {} \in SUBSET SkillFiles /\ disk \in Contents
  BY DEF Nothing, Contents, LibraryTypes
<1>2. CASE Edit
  <2>1. PICK c \in Clients, content \in Contents :
          disk' = content /\ Begin(c, "shell", Nothing, {}) /\ UNCHANGED <<shelf, canonical, proposals, pin>>
    BY <1>2 DEF Edit
  <2> QED BY <1>1, <2>1, CommandBegins, LibraryHolds DEF Places
<1>3. ASSUME NEW c \in Clients, Contribute(c) PROVE LibraryTypes' /\ LibraryInv'
  <2>1. disk \in Skilled /\ disk \notin Elements(shelf)
    BY <1>1, <1>3 DEF Contribute, Known, Skilled
  <2> QED BY <1>1, <1>3, <2>1, CommandBegins, LibraryHolds DEF Places, Contribute
<1>4. ASSUME NEW c \in Clients, StartInstall(c) PROVE LibraryTypes' /\ LibraryInv'
  <2>1. Newest(shelf) \in Contents
    BY <1>4, NewestIs DEF StartInstall, Skilled
  <2> DEFINE todo == {f \in SkillFiles : Newest(shelf)[f] # 0}
  <2>2. todo \in SUBSET SkillFiles /\ \A f \in SkillFiles \ todo : Newest(shelf)[f] = 0
    OBVIOUS
  <2>3. Begin(c, "install", Newest(shelf), todo) /\ UNCHANGED <<shelf, canonical, proposals, pin, disk>>
    BY <1>4 DEF StartInstall
  <2> HIDE DEF todo
  <2> QED BY <1>1, <2>1, <2>2, <2>3, CommandBegins, LibraryHolds DEF Places
<1>5. ASSUME NEW c \in Clients, Promote(c) PROVE LibraryTypes' /\ LibraryInv'
  <2>1. Newest(shelf) \in Contents /\ Newest(shelf) \in Elements(shelf) /\ Newest(shelf) \notin Elements(canonical)
    BY <1>5, NewestIs DEF Promote, Skilled
  <2> QED BY <1>1, <1>5, <2>1, CommandBegins, LibraryHolds DEF Places, Promote
<1>6. ASSUME NEW c \in Clients, Push(c) PROVE LibraryTypes' /\ LibraryInv'
  <2>1. Newest(shelf) \in Contents /\ Newest(shelf) \in Elements(shelf)
    BY <1>6, NewestIs DEF Push, Skilled
  <2>2. \A i \in DOMAIN proposals :
          proposals[i].status = "pending" => proposals[i].version # Version(Newest(shelf))
    BY <1>6 DEF Push, Elements
  <2> QED BY <1>1, <1>6, <2>1, <2>2, CommandBegins, LibraryHolds DEF Places, Push
<1>7. ASSUME NEW c \in Clients, Accept(c) PROVE LibraryTypes' /\ LibraryInv'
  BY <1>1, <1>7, CommandBegins, LibraryHolds DEF Places, Accept
<1>8. ASSUME NEW c \in Clients, Reject(c) PROVE LibraryTypes' /\ LibraryInv'
  <2>1. PICK i \in DOMAIN proposals : proposals' = [proposals EXCEPT ![i].status = "rejected"]
    BY <1>8 DEF Reject
  <2>2. DOMAIN proposals = 1 .. Len(proposals) /\ proposals \in Seq(Proposal) /\ proposals[i] \in Proposal
    BY <2>1, LenProperties, ElementOfSeq DEF LibraryTypes
  <2> DEFINE e == [proposals[i] EXCEPT !.status = "rejected"]
  <2>3. /\ e \in Proposal /\ e.status = "rejected" /\ e.version = proposals[i].version
        /\ e.content = proposals[i].content
    BY <2>2 DEF Proposal
  <2>4. proposals' = [proposals EXCEPT ![i] = e]
    BY <2>1
  <2> HIDE DEF e
  <2>5. proposals' \in Seq(Proposal) /\ DOMAIN proposals' = DOMAIN proposals
        /\ \A j \in DOMAIN proposals : proposals'[j] = IF j = i THEN e ELSE proposals[j]
    BY <2>1, <2>2, <2>3, <2>4, ExceptSeq
  <2>6. Settling
    BY <2>3, <2>5 DEF Settling
  <2> QED BY <1>1, <1>8, <2>6, CommandBegins DEF Places, Reject
<1>9. ASSUME NEW c \in Clients, Pin(c) PROVE LibraryTypes' /\ LibraryInv'
  BY <1>1, <1>9, CommandBegins, LibraryHolds DEF Places, Pin
<1> QED BY <1>2, <1>3, <1>4, <1>5, <1>6, <1>7, <1>8, <1>9

LEMMA ContentIsRegistered ==
  ASSUME LibraryTypes, LibraryInv, NEW c \in Clients, Register(c)
  PROVE  LibraryTypes' /\ LibraryInv'
<1> DEFINE e == client[c].content
<1>1. End(c, "contribute") /\ shelf' = Append(shelf, e) /\ UNCHANGED <<canonical, proposals, pin, disk, landed>>
      /\ client[c].at = "contribute" /\ e \in Skilled
  BY DEF Register, End, LibraryTypes
<1>2. ~crossed => e \notin Elements(shelf)
  BY <1>1 DEF LibraryInv, OneCommand
<1> HIDE DEF e
<1>3. /\ shelf' \in Seq(Skilled) /\ Elements(shelf') = Elements(shelf) \union {e}
      /\ (Distinct(shelf) /\ e \notin Elements(shelf) => Distinct(shelf'))
  BY <1>1, AppendKeeps DEF LibraryTypes
<1>4. landed = Nothing
  BY <1>1, CommandWorks
<1>5. LibraryTypes' /\ LibraryInv'
  BY <1>1, <1>2, <1>3, <1>4, CommandEnds, LibraryHolds DEF Places
<1> QED BY <1>5

LEMMA ContentIsCanonical ==
  ASSUME LibraryTypes, LibraryInv, NEW c \in Clients, RegisterCanonical(c)
  PROVE  LibraryTypes' /\ LibraryInv'
<1> DEFINE e == client[c].content
<1>1. End(c, "promote") /\ canonical' = Append(canonical, e) /\ UNCHANGED <<shelf, proposals, pin, disk, landed>>
      /\ client[c].at = "promote"
  BY DEF RegisterCanonical, End
<1>2. (~crossed => e \notin Elements(canonical)) /\ e \in Elements(shelf)
  BY <1>1 DEF LibraryInv, OneCommand, LookedUp
<1>3. e \in Skilled
  BY <1>2, LenProperties, ElementOfSeq DEF Elements, LibraryTypes
<1> HIDE DEF e
<1>4. /\ canonical' \in Seq(Skilled) /\ Elements(canonical') = Elements(canonical) \union {e}
      /\ (Distinct(canonical) /\ e \notin Elements(canonical) => Distinct(canonical'))
  BY <1>1, <1>3, AppendKeeps DEF LibraryTypes
<1>5. landed = Nothing
  BY <1>1, CommandWorks
<1>6. LibraryTypes' /\ LibraryInv'
  BY <1>1, <1>2, <1>4, <1>5, CommandEnds, LibraryHolds DEF Places
<1> QED BY <1>6

LEMMA VersionIsProposed ==
  ASSUME LibraryTypes, LibraryInv, NEW c \in Clients, Propose(c)
  PROVE  LibraryTypes' /\ LibraryInv'
<1> DEFINE e == client[c].content
           p == [version |-> Version(e), content |-> e, status |-> "pending"]
<1>1. End(c, "push") /\ proposals' = Append(proposals, p) /\ UNCHANGED <<shelf, canonical, pin, disk, landed>>
      /\ client[c].at = "push"
  BY DEF Propose, End
<1>2. /\ ~crossed => \A i \in DOMAIN proposals :
            proposals[i].status = "pending" => proposals[i].version # Version(e)
      /\ e \in Elements(shelf)
  BY <1>1 DEF LibraryInv, OneCommand, LookedUp
<1>3. e \in Skilled
  BY <1>2, LenProperties, ElementOfSeq DEF Elements, LibraryTypes
<1>4. p \in Proposal /\ p.version = Version(e) /\ p.content = e /\ p.status = "pending"
  <2>1. e[Yaml] \in Variants
    BY <1>3, SkillLibraryAssumption DEF Skilled, Contents
  <2>2. Version(e) \in {VersionOf[v] : v \in Variants}
    BY <2>1 DEF Version
  <2> HIDE DEF e
  <2> QED BY <1>3, <2>2 DEF Proposal
<1> HIDE DEF e, p
<1>5. /\ proposals' \in Seq(Proposal) /\ Elements(proposals') = Elements(proposals) \union {p}
      /\ DOMAIN proposals = 1 .. Len(proposals) /\ Len(proposals) \in Nat
      /\ DOMAIN proposals' = 1 .. Len(proposals) + 1
      /\ \A i \in 1 .. Len(proposals) : proposals'[i] = proposals[i]
      /\ proposals'[Len(proposals) + 1] = p
  BY <1>1, <1>4, AppendKeeps DEF LibraryTypes
<1>6. \A i \in DOMAIN proposals' :
        (i \in DOMAIN proposals /\ proposals'[i] = proposals[i]) \/ (i = Len(proposals) + 1 /\ proposals'[i] = p)
  BY <1>5
<1>7. ~crossed => \A i, j \in DOMAIN proposals' :
        /\ proposals'[i].status = "pending" /\ proposals'[j].status = "pending"
        /\ proposals'[i].version = proposals'[j].version
        => i = j
  BY <1>2, <1>4, <1>6, LibraryHolds
<1>8. {q.content : q \in Elements(proposals')} \subseteq {q.content : q \in Elements(proposals)} \union {e}
  BY <1>4, <1>5
<1>9. landed = Nothing
  BY <1>1, CommandWorks
<1>10. LibraryTypes' /\ LibraryInv'
  BY <1>1, <1>2, <1>5, <1>7, <1>8, <1>9, CommandEnds, LibraryHolds DEF Places
<1> QED BY <1>10

LEMMA FilesAreWritten ==
  ASSUME LibraryTypes, LibraryInv, NEW c \in Clients, WriteFile(c)
  PROVE  LibraryTypes' /\ LibraryInv'
<1>1. PICK f \in client[c].todo :
        /\ client[c].at = "install" /\ disk' = [disk EXCEPT ![f] = client[c].content[f]]
        /\ client' = [client EXCEPT ![c].todo = @ \ {f}]
        /\ UNCHANGED <<shelf, canonical, proposals, pin, crossed, landed>>
  BY DEF WriteFile
<1>2. client[c].content \in Contents /\ f \in SkillFiles
  BY <1>1 DEF LibraryTypes
<1>3. /\ disk' \in Contents /\ disk'[f] = client[c].content[f]
      /\ \A g \in SkillFiles \ {f} : disk'[g] = disk[g]
  BY <1>1, <1>2 DEF LibraryTypes, Contents
<1>4. /\ client'[c].at = "install" /\ client'[c].content = client[c].content
      /\ client'[c].todo = client[c].todo \ {f}
      /\ client' \in [Clients -> [at : Places, content : Contents, todo : SUBSET SkillFiles]]
      /\ \A d \in Clients \ {c} : client'[d] = client[d]
  BY <1>1 DEF LibraryTypes, Places
<1>5. landed = Nothing /\ (~crossed => \A d \in Clients \ {c} : client[d].at = "shell")
  BY <1>1, CommandWorks
<1>6. LibraryTypes'
  BY <1>1, <1>3, <1>4 DEF LibraryTypes, Places
<1>7. OneCommand'
  <2>1. ~crossed => \A g \in SkillFiles \ client'[c].todo : client[c].content[g] \in {0, disk'[g]}
    <3> SUFFICES ASSUME ~crossed, NEW g \in SkillFiles, g \notin client'[c].todo
                 PROVE  client[c].content[g] \in {0, disk'[g]}
      OBVIOUS
    <3>1. CASE g = f
      BY <1>3, <3>1
    <3>2. CASE g # f
      <4>1. g \in SkillFiles \ client[c].todo
        BY <1>4, <3>2
      <4> QED BY <1>1, <1>3, <3>2, <4>1 DEF LibraryInv, OneCommand
    <3> QED BY <3>1, <3>2
  <2> QED BY <1>1, <1>4, <1>5, <2>1 DEF OneCommand
<1>8. LookedUp'
  BY <1>1, <1>4, <1>5 DEF LibraryInv, LookedUp
<1>9. LibraryIsOrderly'
  <2>1. \A g \in SkillFiles : landed'[g] \in {0, disk'[g]}
    BY <1>1, <1>5 DEF Nothing
  <2>2. (Resolved # Nothing /\ pin # 0 => Version(Resolved) = pin)'
    BY <1>6, PinnedIsResolved, PTL
  <2> QED BY <1>1, <2>1, <2>2 DEF LibraryInv, LibraryIsOrderly
<1> QED BY <1>6, <1>7, <1>8, <1>9 DEF LibraryInv

LEMMA CommandsEnd ==
  ASSUME LibraryTypes, LibraryInv, NEW c \in Clients, EndInstall(c) \/ AcceptThrows(c) \/ CommandFails(c)
  PROVE  LibraryTypes' /\ LibraryInv'
<1>1. CASE EndInstall(c)
  <2>1. /\ client[c].todo = {} /\ End(c, "install") /\ client[c].at = "install"
        /\ landed' = IF crossed THEN Nothing ELSE client[c].content
        /\ UNCHANGED <<shelf, canonical, proposals, pin, disk>>
    BY <1>1 DEF EndInstall, End
  <2>2. client[c].content \in Contents /\ Nothing \in Contents /\ \A f \in SkillFiles : Nothing[f] = 0
    BY DEF LibraryTypes, Nothing, Contents
  <2>3. \A f \in SkillFiles : landed'[f] \in {0, disk'[f]}
    BY <2>1, <2>2 DEF LibraryInv, OneCommand
  <2>4. landed' \in Contents /\ (landed' # Nothing => ~crossed)
    BY <2>1, <2>2
  <2> QED BY <2>1, <2>3, <2>4, CommandEnds, LibraryHolds DEF Places
<1>2. CASE AcceptThrows(c) \/ CommandFails(c)
  <2>1. PICK stage \in Places \ {"shell"} : End(c, stage) /\ UNCHANGED <<shelf, canonical, proposals, pin, disk, landed>>
    BY <1>2 DEF AcceptThrows, CommandFails, Places
  <2>2. landed = Nothing
    BY <2>1, CommandWorks DEF End
  <2> QED BY <2>1, <2>2, CommandEnds, LibraryHolds
<1> QED BY <1>1, <1>2

LEMMA LibraryStep ==
  LibraryTypes /\ LibraryInv /\ LibraryNext => LibraryTypes' /\ LibraryInv'
BY CommandsBegin, ContentIsRegistered, ContentIsCanonical, VersionIsProposed, FilesAreWritten, CommandsEnd
   DEF LibraryNext, ClientStep

-----------------------------------------------------------------------------
(* The conformance suite *)

Job == {"probe", "other"}
Judged == {"none", "pass", "fail", "skip"}
Before == {"infra", "expiry", "reap1"}
Reaped == {"reap2", "count"}
Unasked == {"shell", "poll", "ai", "match"}
Asked == {"matching", "cancel", "end"}

SuiteTypes ==
  /\ at \in Before \union Reaped \union Unasked \union Asked
  /\ verdict \in [Checks -> Judged] /\ broken \in SUBSET Static
  /\ line \in Seq(Job) /\ active \in Job \union {"none"}
  /\ probeRun \in {"none", "running", "completed", "failed"}
  /\ age \in Nat /\ waited \in Nat /\ inWindow \in Nat /\ othersDone \in Nat /\ upsets \in Nat
  /\ up \in BOOLEAN /\ held \in BOOLEAN /\ reaped \in BOOLEAN
  /\ expired \in [there : BOOLEAN, handled : BOOLEAN, alerts : Nat, taken : BOOLEAN]
  /\ match \in {"none", "pending", "resolved", "cancelled"}

\* A worker that is down or held back, and a probe that failed, are upsets; and
\* a worker that is down has no job.
UpsetsAreCounted ==
  /\ ~up \/ held \/ probeRun = "failed" => upsets > 0
  /\ ~up => active = "none"

\* The suite has one probe: in the queue, or with the worker, or done.
ProbeIsOne ==
  /\ \A i, j \in DOMAIN line : line[i] = "probe" /\ line[j] = "probe" => i = j
  /\ \A i \in DOMAIN line : line[i] = "probe" => at = "poll" /\ probeRun = "none"
  /\ active = "probe" => probeRun = "running"
  /\ at = "poll" /\ upsets = 0 /\ probeRun = "none" => \E i \in DOMAIN line : line[i] = "probe"
  /\ at = "poll" /\ upsets = 0 /\ probeRun = "running" => active = "probe"
  /\ at \in Before \union Reaped \union {"shell"} =>
       probeRun = "none" /\ waited = 0 /\ inWindow = 0

\* Without an upset, a window in which no run of others ended is no longer than
\* the run of the job that the worker has, and that ends within a window.
WindowIsRun ==
  upsets = 0 =>
    /\ age < Window
    /\ at = "poll" /\ ~Decided /\ othersDone = 0 =>
         inWindow = 0 \/ (active # "none" /\ inWindow <= age)

\* The suite's expired waitpoint is its own, unless the worker's reaper took it.
ExpiredIsOwn ==
  /\ expired.there => at \in {"reap1"} \union Reaped
  /\ ~reaped =>
       /\ ~expired.taken
       /\ at \in Before => expired.alerts = 0 /\ ~expired.handled
       /\ at \in Reaped => expired.alerts = 1 /\ expired.handled
       /\ at \in Unasked \union Asked => expired.alerts = 0

\* The message is found, unless something is upset.
MatchIsAnswered ==
  /\ match # "none" => at \in Asked
  /\ at \in {"cancel", "end"} /\ match = "pending" => upsets > 0

Excused == broken # {} \/ upsets > 0 \/ reaped

\* A verdict has its reason from its check on.
VerdictsHaveReason ==
  /\ \A c \in Checks : verdict[c] = "fail" =>
       Excused \/ (c = "shell-roundtrip" /\ waited >= HardCap)
  /\ verdict["shell-roundtrip"] = "pass" => at \in Asked \union {"ai", "match"} /\ probeRun = "completed"

SuiteInv ==
  /\ UpsetsAreCounted /\ ProbeIsOne /\ WindowIsRun
  /\ ExpiredIsOwn /\ MatchIsAnswered /\ VerdictsHaveReason

LEMMA SuiteInitially == ConformanceInit => SuiteTypes /\ SuiteInv
<1> SUFFICES ASSUME ConformanceInit PROVE SuiteTypes /\ SuiteInv
  OBVIOUS
<1> USE DEF ConformanceInit, Before, Reaped, Unasked, Asked
<1>1. SuiteTypes
  <2>1. line \in Seq(Job) /\ DOMAIN line = {}
    OBVIOUS
  <2>2. verdict \in [Checks -> Judged] /\ broken \in SUBSET Static
    BY DEF Judged, Static
  <2> QED BY <2>1, <2>2 DEF SuiteTypes
<1>2. Window \in Nat /\ 0 < Window
  BY ConformanceAssumption
<1>3. UpsetsAreCounted /\ ProbeIsOne /\ WindowIsRun
  BY <1>2 DEF UpsetsAreCounted, ProbeIsOne, WindowIsRun, Decided
<1>4. ExpiredIsOwn /\ MatchIsAnswered
  BY DEF ExpiredIsOwn, MatchIsAnswered
<1>5. VerdictsHaveReason
  BY DEF VerdictsHaveReason, Checks
<1> QED BY <1>1, <1>3, <1>4, <1>5 DEF SuiteInv

\* What a check says is recorded for it alone.
LEMMA JudgeIs ==
  ASSUME SuiteTypes, NEW c \in Checks, NEW v \in Judged, Judge(c, v)
  PROVE  /\ verdict' \in [Checks -> Judged] /\ verdict'[c] = v
         /\ \A d \in Checks : d # c => verdict'[d] = verdict[d]
BY DEF SuiteTypes, Judge

\* The queue gains a job at its end, loses the one at its head, or the probe.
LEMMA LineNext ==
  ASSUME SuiteTypes, [ConformanceNext]_conformanceVars
  PROVE  /\ line' \in Seq(Job)
         /\ AddProbe /\ line' # line =>
              /\ Len(line') = Len(line) + 1 /\ line'[Len(line')] = "probe"
              /\ \A i \in DOMAIN line : line'[i] = line[i]
         /\ OtherJob =>
              /\ Len(line') = Len(line) + 1 /\ line'[Len(line')] = "other"
              /\ \A i \in DOMAIN line : line'[i] = line[i]
         /\ TakeJob =>
              /\ Len(line) > 0 /\ Len(line') = Len(line) - 1
              /\ \A i \in DOMAIN line' : line'[i] = line[i + 1]
         /\ AbandonProbe => \A i \in DOMAIN line' : line'[i] = "other"
         /\ AddProbe \/ OtherJob \/ TakeJob \/ AbandonProbe \/ line' = line
<1> USE DEF SuiteTypes, Job
<1>1. ASSUME NEW j \in Job, line' = Append(line, j)
      PROVE  line' \in Seq(Job) /\ Len(line') = Len(line) + 1 /\ line'[Len(line')] = j
             /\ \A i \in DOMAIN line : line'[i] = line[i]
  BY <1>1
<1>5. AbandonProbe => line' \in Seq(Job) /\ \A i \in DOMAIN line' : line'[i] = "other"
  <2> SUFFICES ASSUME AbandonProbe
               PROVE  line' \in Seq(Job) /\ \A i \in DOMAIN line' : line'[i] = "other"
    OBVIOUS
  <2>1. line' = [i \in 1 .. Cardinality(Others) |-> "other"]
    BY DEF AbandonProbe
  <2>2. IsFiniteSet(DOMAIN line)
    BY FS_Interval, Len(line) \in Int, 1 \in Int
  <2>3. Cardinality(Others) \in Nat
    BY <2>2, FS_Subset, FS_CardinalityType DEF Others
  <2> QED BY <2>1, <2>3
<1>6. AddProbe => line' \in Seq(Job)
  BY <1>1 DEF AddProbe
<1>7. AddProbe \/ OtherJob \/ TakeJob \/ AbandonProbe \/ line' = line
  BY DEF ConformanceNext, SuiteStep, WorkerStep, InfraChecks, CreateExpired, SuiteReaps, CountAlerts,
         ReadProbe, WaitForProbe, AiPillar, RegisterMatch, PollMatch, CancelMatch, JobEnds, Matcher,
         WorkerReaps, Upset, Recover, conformanceVars, queueVars
<1>8. AddProbe /\ line' # line => line' = Append(line, "probe")
  BY DEF AddProbe
<1>9. OtherJob => line' = Append(line, "other")
  BY DEF OtherJob
<1>10. TakeJob => line' = Tail(line) /\ line # <<>>
  BY DEF TakeJob
<1>11. line # <<>> => Len(line) > 0 /\ Len(Tail(line)) = Len(line) - 1 /\ Tail(line) \in Seq(Job)
                      /\ \A i \in DOMAIN Tail(line) : Tail(line)[i] = line[i + 1]
  OBVIOUS
<1>12. line' \in Seq(Job)
  BY <1>1, <1>5, <1>6, <1>7, <1>9, <1>10, <1>11
<1> HIDE DEF SuiteTypes, Job
<1>13. "probe" \in Job /\ "other" \in Job
  BY DEF Job
<1> QED BY <1>1, <1>5, <1>7, <1>8, <1>9, <1>10, <1>11, <1>12, <1>13

\* What makes check c fail now.
Grounds(c) ==
  \/ c \in Static /\ broken # {}
  \/ c = "worker-health" /\ ~up
  \/ c = "waitpoint-expiry" /\ CountAlerts /\ expired.alerts # 1
  \/ c = "shell-roundtrip" /\ ((ReadProbe /\ probeRun = "failed") \/ AbandonProbe)
  \/ c = "waitpoint-roundtrip" /\ (~up \/ upsets > 0)

\* A verdict is given for one check, but for the first ones, and on its grounds.
LEMMA VerdictNext ==
  ASSUME SuiteTypes, [ConformanceNext]_conformanceVars
  PROVE  /\ verdict' \in [Checks -> Judged]
         /\ \A c \in Checks : verdict'[c] = "fail" => verdict[c] = "fail" \/ Grounds(c)
         /\ verdict'["shell-roundtrip"] = "pass" =>
              \/ verdict["shell-roundtrip"] = "pass" /\ ~InfraChecks
              \/ ReadProbe /\ probeRun = "completed"
<1> USE DEF Judged
<1>0. "shell-roundtrip" \in Checks /\ "waitpoint-roundtrip" \in Checks
      /\ "waitpoint-expiry" \in Checks /\ "ai-pillar" \in Checks /\ "ai-pillar" \in Static
  BY DEF Checks, Static
<1>1. CASE InfraChecks
  <2>1. \A c \in Checks : verdict'[c] = (CASE c = "worker-health" -> IF up THEN "pass" ELSE "fail"
                             [] c \in Static \ {"ai-pillar"} -> StaticVerdict(c)
                             [] OTHER -> "none")
    BY <1>1 DEF InfraChecks
  <2>2. \A c \in Static : StaticVerdict(c) \in Judged /\ (StaticVerdict(c) = "fail" => broken # {})
    BY DEF StaticVerdict
  <2>3. "shell-roundtrip" # "worker-health" /\ "shell-roundtrip" \notin Static
        /\ "worker-health" \notin Static
    BY DEF Static
  <2>4. \A c \in Checks : /\ verdict'[c] \in Judged
                          /\ verdict'[c] = "fail" => Grounds(c)
    BY <2>1, <2>2, <2>3 DEF Grounds
  <2>5. verdict'["shell-roundtrip"] = "none"
    BY <1>0, <2>1, <2>3
  <2>6. verdict' = [c \in Checks |-> verdict'[c]]
    BY <1>1 DEF InfraChecks
  <2>7. verdict' \in [Checks -> Judged]
    BY <2>4, <2>6
  <2> QED BY <2>4, <2>5, <2>7
<1>2. ASSUME NEW c \in Checks, NEW v \in Judged, Judge(c, v), ~InfraChecks,
             v = "fail" => Grounds(c),
             c = "shell-roundtrip" /\ v = "pass" => ReadProbe /\ probeRun = "completed"
      PROVE  /\ verdict' \in [Checks -> Judged]
             /\ \A d \in Checks : verdict'[d] = "fail" => verdict[d] = "fail" \/ Grounds(d)
             /\ verdict'["shell-roundtrip"] = "pass" =>
                  \/ verdict["shell-roundtrip"] = "pass" /\ ~InfraChecks
                  \/ ReadProbe /\ probeRun = "completed"
  BY <1>0, <1>2, JudgeIs
<1>3. at # "infra" => ~InfraChecks
  BY DEF InfraChecks
<1>4. CASE CountAlerts
  BY <1>0, <1>2, <1>3, <1>4 DEF CountAlerts, Grounds
<1>5. CASE AddProbe /\ verdict' # verdict
  BY <1>0, <1>2, <1>3, <1>5 DEF AddProbe
<1>6. CASE ReadProbe
  BY <1>0, <1>2, <1>3, <1>6 DEF ReadProbe, Decided, Grounds
<1>7. CASE AbandonProbe
  BY <1>0, <1>2, <1>3, <1>7 DEF AbandonProbe, Grounds
<1>8. CASE AiPillar
  <2>1. StaticVerdict("ai-pillar") \in {"pass", "fail"}
        /\ (StaticVerdict("ai-pillar") = "fail" => broken # {})
    BY DEF StaticVerdict
  <2> QED BY <1>0, <1>2, <1>3, <1>8, <2>1 DEF AiPillar, Grounds
<1>9. CASE RegisterMatch /\ verdict' # verdict
  <2>1. \E v \in {"fail", "skip"} : Judge("waitpoint-roundtrip", v) /\ (v = "fail" => ~up)
    BY <1>9 DEF RegisterMatch, Judge
  <2> QED BY <1>0, <1>2, <1>3, <1>9, <2>1 DEF RegisterMatch, Grounds
<1>10. CASE PollMatch
  BY <1>0, <1>2, <1>3, <1>10 DEF PollMatch, Grounds
<1>11. CASE verdict' = verdict /\ ~InfraChecks
  BY <1>11 DEF SuiteTypes
<1>12. \/ CountAlerts \/ ReadProbe \/ AbandonProbe \/ AiPillar \/ PollMatch
       \/ AddProbe \/ RegisterMatch \/ verdict' = verdict \/ InfraChecks
  BY DEF ConformanceNext, SuiteStep, WorkerStep, CreateExpired, SuiteReaps, WaitForProbe, CancelMatch,
         TakeJob, JobEnds, Matcher, OtherJob, WorkerReaps, Upset, Recover, conformanceVars, suiteVars
<1> QED BY <1>1, <1>4, <1>5, <1>6, <1>7, <1>8, <1>9, <1>10, <1>11, <1>12

LEMMA SuiteTypesNext ==
  ASSUME SuiteTypes, [ConformanceNext]_conformanceVars
  PROVE  SuiteTypes'
<1> USE DEF Before, Reaped, Unasked, Asked
<1>1. verdict' \in [Checks -> Judged] /\ line' \in Seq(Job) /\ broken' = broken
  <2>1. broken' = broken
    BY DEF ConformanceNext, SuiteStep, WorkerStep, InfraChecks, CreateExpired, SuiteReaps, CountAlerts,
           AddProbe, ReadProbe, AbandonProbe, WaitForProbe, AiPillar, RegisterMatch, PollMatch,
           CancelMatch, TakeJob, JobEnds, Matcher, WorkerReaps, OtherJob, Upset, Recover, conformanceVars
  <2> QED BY <2>1, VerdictNext, LineNext
<1>2. at' \in Before \union Reaped \union Unasked \union Asked
      /\ match' \in {"none", "pending", "resolved", "cancelled"}
  BY DEF SuiteTypes, ConformanceNext, SuiteStep, WorkerStep, InfraChecks, CreateExpired, SuiteReaps,
         CountAlerts, AddProbe, ReadProbe, AbandonProbe, WaitForProbe, AiPillar, RegisterMatch,
         PollMatch, CancelMatch, TakeJob, JobEnds, Matcher, WorkerReaps, OtherJob, Upset, Recover,
         conformanceVars, suiteVars, waitpointVars
<1>3. expired' \in [there : BOOLEAN, handled : BOOLEAN, alerts : Nat, taken : BOOLEAN]
      /\ reaped' \in BOOLEAN
  <2>1. CASE expired' = expired /\ reaped' = reaped
    BY <2>1 DEF SuiteTypes
  <2> DEFINE E == [there : BOOLEAN, handled : BOOLEAN, alerts : Nat, taken : BOOLEAN]
  <2>0. expired \in E /\ expired.alerts \in Nat
    BY DEF SuiteTypes
  <2>a. \A b, c \in BOOLEAN, n \in Nat :
          /\ [expired EXCEPT !.there = b] \in E
          /\ [expired EXCEPT !.alerts = n, !.handled = b] \in E
          /\ [expired EXCEPT !.there = b, !.alerts = n] \in E
          /\ [expired EXCEPT !.taken = b] \in E
          /\ [expired EXCEPT !.taken = b, !.alerts = n, !.handled = c] \in E
    BY <2>0
  <2>b. expired.there \in BOOLEAN /\ expired.alerts + 1 \in Nat
    BY <2>0
  <2> HIDE DEF E
  <2>c. TRUE \in BOOLEAN /\ FALSE \in BOOLEAN /\ 0 \in Nat /\ reaped \in BOOLEAN
    BY DEF SuiteTypes
  <2>2. CASE CreateExpired \/ SuiteReaps \/ CountAlerts
    <3>1. reaped' = reaped
      BY <2>2 DEF CreateExpired, SuiteReaps, CountAlerts
    <3>2. \/ expired' = expired
          \/ expired' = [expired EXCEPT !.there = TRUE]
          \/ expired' = [expired EXCEPT !.alerts = expired.alerts + 1, !.handled = TRUE]
          \/ expired' = [expired EXCEPT !.there = FALSE, !.alerts = 0]
      BY <2>2 DEF CreateExpired, SuiteReaps, CountAlerts
    <3>3. /\ [expired EXCEPT !.there = TRUE] \in E
          /\ [expired EXCEPT !.alerts = expired.alerts + 1, !.handled = TRUE] \in E
          /\ [expired EXCEPT !.there = FALSE, !.alerts = 0] \in E
      BY <2>0, <2>b DEF E
    <3>4. expired' \in E
      BY <2>0, <3>2, <3>3
    <3> QED BY <2>c, <3>1, <3>4 DEF E
  <2>3. CASE WorkerReaps
    BY <2>0, <2>3, <2>a, <2>b DEF SuiteTypes, WorkerReaps
  <2> QED BY <2>1, <2>2, <2>3 DEF E, ConformanceNext, SuiteStep, WorkerStep, InfraChecks, AddProbe,
         ReadProbe, AbandonProbe, WaitForProbe, AiPillar, RegisterMatch, PollMatch, CancelMatch, TakeJob,
         JobEnds, Matcher, OtherJob, Upset, Recover, conformanceVars, waitpointVars
<1>4. up' \in BOOLEAN /\ held' \in BOOLEAN /\ upsets' \in Nat
  <2>1. CASE JobEnds \/ Upset \/ Recover
    <3>1. upsets' = upsets \/ upsets' = upsets + 1
      BY <2>1 DEF JobEnds, Upset, Recover
    <3>2. up' = up \/ up' = TRUE \/ up' = FALSE
      BY <2>1 DEF JobEnds, Upset, Recover
    <3>3. held' = held \/ held' = TRUE \/ held' = FALSE
      BY <2>1 DEF JobEnds, Upset, Recover
    <3>4. up \in BOOLEAN /\ held \in BOOLEAN /\ upsets \in Nat
      BY DEF SuiteTypes
    <3>5. up' \in BOOLEAN /\ held' \in BOOLEAN
      BY <3>2, <3>3, <3>4, ZenonT(30)
    <3>6. upsets' \in Nat
      BY <3>1, <3>4
    <3> QED BY <3>5, <3>6
  <2>2. CASE UNCHANGED workerVars
    BY <2>2 DEF SuiteTypes, workerVars
  <2> QED BY <2>1, <2>2 DEF ConformanceNext, SuiteStep, WorkerStep, InfraChecks, CreateExpired, SuiteReaps,
         CountAlerts, AddProbe, ReadProbe, AbandonProbe, WaitForProbe, AiPillar, RegisterMatch,
         PollMatch, CancelMatch, TakeJob, Matcher, WorkerReaps, OtherJob, conformanceVars
<1>5. active' \in Job \union {"none"} /\ probeRun' \in {"none", "running", "completed", "failed"}
  <2>1. CASE TakeJob
    <3>1. Head(line) \in Job
      BY <2>1 DEF TakeJob, SuiteTypes
    <3> QED BY <2>1, <3>1 DEF TakeJob, SuiteTypes
  <2>2. CASE ~TakeJob
    BY <2>2 DEF SuiteTypes, ConformanceNext, SuiteStep, WorkerStep, InfraChecks, CreateExpired,
         SuiteReaps, CountAlerts, AddProbe, ReadProbe, AbandonProbe, WaitForProbe, AiPillar,
         RegisterMatch, PollMatch, CancelMatch, JobEnds, Matcher, WorkerReaps, OtherJob, Upset, Recover,
         conformanceVars, queueVars
  <2> QED BY <2>1, <2>2
<1>6. age' \in Nat /\ waited' \in Nat /\ inWindow' \in Nat /\ othersDone' \in Nat
  BY DEF SuiteTypes, ConformanceNext, SuiteStep, WorkerStep, InfraChecks, CreateExpired, SuiteReaps,
         CountAlerts, AddProbe, ReadProbe, AbandonProbe, WaitForProbe, AiPillar, RegisterMatch,
         PollMatch, CancelMatch, TakeJob, JobEnds, Matcher, WorkerReaps, OtherJob, Upset, Recover,
         conformanceVars, suiteVars, queueVars
<1> QED BY <1>1, <1>2, <1>3, <1>4, <1>5, <1>6 DEF SuiteTypes

LEMMA UpsetsNext ==
  ASSUME SuiteTypes, UpsetsAreCounted, [ConformanceNext]_conformanceVars
  PROVE  UpsetsAreCounted' /\ upsets <= upsets' /\ (reaped => reaped') /\ broken' = broken
BY DEF UpsetsAreCounted, SuiteTypes, ConformanceNext, SuiteStep, WorkerStep, InfraChecks, CreateExpired,
       SuiteReaps, CountAlerts, AddProbe, ReadProbe, AbandonProbe, WaitForProbe, AiPillar, RegisterMatch,
       PollMatch, CancelMatch, TakeJob, JobEnds, Matcher, WorkerReaps, OtherJob, Upset, Recover,
       conformanceVars, queueVars, waitpointVars, workerVars

LEMMA ProbeNext ==
  ASSUME SuiteTypes, SuiteInv, [ConformanceNext]_conformanceVars
  PROVE  ProbeIsOne'
<1> USE DEF Before, Reaped, Unasked, Asked
<1>0. SuiteTypes' /\ UpsetsAreCounted' /\ upsets <= upsets'
  BY SuiteTypesNext, UpsetsNext DEF SuiteInv
<1>1. DOMAIN line = 1 .. Len(line) /\ Len(line) \in Nat
      /\ DOMAIN line' = 1 .. Len(line') /\ Len(line') \in Nat
  BY <1>0 DEF SuiteTypes
<1>2. CASE AddProbe /\ line' # line
  <2>1. /\ Len(line') = Len(line) + 1 /\ line'[Len(line')] = "probe"
        /\ \A i \in DOMAIN line : line'[i] = line[i] /\ line[i] # "probe"
    BY <1>2, LineNext DEF SuiteInv, ProbeIsOne, AddProbe
  <2>2. /\ at = "shell" /\ at' = "poll" /\ probeRun = "none" /\ probeRun' = probeRun
        /\ active' = active /\ active # "probe"
    BY <1>2 DEF AddProbe, SuiteInv, ProbeIsOne
  <2>3. \A i \in DOMAIN line' : line'[i] = "probe" <=> i = Len(line) + 1
    BY <1>1, <2>1
  <2>4. Len(line) + 1 \in DOMAIN line'
    BY <1>1, <2>1
  <2> QED BY <2>2, <2>3, <2>4 DEF ProbeIsOne
<1>3. CASE OtherJob /\ line' # line
  <2>0. /\ Len(line') = Len(line) + 1 /\ line'[Len(line')] = "other"
        /\ \A i \in DOMAIN line : line'[i] = line[i]
    BY <1>3, LineNext
  <2>1. /\ Len(line') = Len(line) + 1 /\ line'[Len(line')] = "other"
        /\ \A i \in DOMAIN line : line'[i] = line[i]
        /\ DOMAIN line \subseteq DOMAIN line'
    BY <1>1, <2>0
  <2>2. \A i \in DOMAIN line' : line'[i] = "probe" => i \in DOMAIN line
    BY <1>1, <2>1
  <2>3. UNCHANGED <<at, waited, inWindow, probeRun, active, upsets, up>>
    BY <1>3 DEF OtherJob, suiteVars, workerVars
  <2> QED BY <2>1, <2>2, <2>3 DEF SuiteInv, ProbeIsOne
<1>4. CASE TakeJob /\ line' # line
  <2>0. /\ Len(line) > 0 /\ Len(line') = Len(line) - 1
        /\ \A i \in DOMAIN line' : line'[i] = line[i + 1]
    BY <1>4, LineNext
  <2>1. /\ Len(line) > 0 /\ Len(line') = Len(line) - 1
        /\ \A i \in DOMAIN line' : line'[i] = line[i + 1] /\ i + 1 \in DOMAIN line
    BY <1>1, <2>0
  <2>2. /\ UNCHANGED <<at, waited, inWindow, upsets>> /\ active = "none" /\ active' = line[1]
        /\ probeRun' = IF active' = "probe" THEN "running" ELSE probeRun
    BY <1>4 DEF TakeJob, suiteVars, workerVars, SuiteTypes
  <2>3. 1 \in DOMAIN line
    BY <1>1, <2>1
  <2>4. \A i \in DOMAIN line : i # 1 => i - 1 \in DOMAIN line' /\ line'[i - 1] = line[i]
    <3> SUFFICES ASSUME NEW i \in DOMAIN line, i # 1
                 PROVE  i - 1 \in DOMAIN line' /\ line'[i - 1] = line[i]
      OBVIOUS
    <3>1. i - 1 \in DOMAIN line' /\ (i - 1) + 1 = i
      BY <1>1, <2>1
    <3> QED BY <2>1, <3>1
  <2>5. \A i, j \in DOMAIN line' : line'[i] = "probe" /\ line'[j] = "probe" => i = j
    BY <1>1, <2>1 DEF SuiteInv, ProbeIsOne
  <2>6. CASE active' = "probe"
    <3>0. line[1] = "probe"
      BY <2>2, <2>6
    <3>1. \A i \in DOMAIN line' : line'[i] # "probe"
      <4>1. \A i \in DOMAIN line : line[i] = "probe" => i = 1
        BY <2>3, <3>0 DEF SuiteInv, ProbeIsOne
      <4>2. \A i \in DOMAIN line' : i + 1 # 1
        BY <1>1
      <4> QED BY <2>1, <4>1, <4>2
    <3>2. at = "poll" /\ probeRun' = "running"
      BY <2>2, <2>3, <2>6 DEF SuiteInv, ProbeIsOne
    <3> QED BY <2>2, <2>6, <3>1, <3>2 DEF ProbeIsOne
  <2>7. CASE active' # "probe"
    <3>1. probeRun' = probeRun /\ line[1] # "probe"
      BY <2>2, <2>7
    <3>2. \A i \in DOMAIN line' : line'[i] = "probe" => at = "poll" /\ probeRun = "none"
      BY <2>1 DEF SuiteInv, ProbeIsOne
    <3>3. (\E i \in DOMAIN line : line[i] = "probe") => \E i \in DOMAIN line' : line'[i] = "probe"
      BY <2>4, <3>1
    <3>4. ~(at = "poll" /\ upsets = 0 /\ probeRun = "running")
      BY <2>2 DEF SuiteInv, ProbeIsOne
    <3> QED BY <2>2, <2>5, <2>7, <3>1, <3>2, <3>3, <3>4 DEF SuiteInv, ProbeIsOne
  <2> QED BY <2>6, <2>7
<1>5. CASE AbandonProbe
  <2>1. UNCHANGED <<active, probeRun>> /\ at' = "ai"
    BY <1>5 DEF AbandonProbe
  <2>2. \A i \in DOMAIN line' : line'[i] = "other"
    <3>1. line' = [i \in 1 .. Cardinality(Others) |-> "other"]
      BY <1>5 DEF AbandonProbe
    <3> QED BY <3>1
  <2> QED BY <2>1, <2>2 DEF SuiteInv, ProbeIsOne
<1>6. CASE line' = line
  <2>1. CASE ReadProbe
    <3>1. probeRun # "none" /\ at' = "ai" /\ UNCHANGED <<active, probeRun>>
      BY <2>1 DEF ReadProbe, Decided, queueVars
    <3>2. \A i \in DOMAIN line' : line'[i] # "probe"
      BY <1>6, <3>1 DEF SuiteInv, ProbeIsOne
    <3> QED BY <3>1, <3>2 DEF SuiteInv, ProbeIsOne
  <2>2. CASE JobEnds
    <3>1. UNCHANGED <<at, waited, inWindow>> /\ active # "none" /\ active' = "none"
      BY <2>2 DEF JobEnds
    <3>2. CASE active = "probe"
      <4>1. probeRun = "running" /\ probeRun' \in {"completed", "failed"}
        BY <2>2, <3>2 DEF JobEnds, SuiteInv, ProbeIsOne
      <4> QED BY <1>6, <3>1, <4>1 DEF SuiteInv, ProbeIsOne
    <3>3. CASE active # "probe"
      <4>1. probeRun' = probeRun /\ upsets' = upsets
        BY <2>2, <3>3 DEF JobEnds
      <4> QED BY <1>6, <3>1, <3>3, <4>1 DEF SuiteInv, ProbeIsOne
    <3> QED BY <3>2, <3>3
  <2>3. CASE Upset \/ Recover
    <3>1. UNCHANGED <<at, waited, inWindow>> /\ active' \in {active, "none"}
      BY <2>3 DEF Upset, Recover, suiteVars
    <3>2. CASE Upset
      <4>1. upsets' # 0 /\ probeRun' = probeRun
        BY <3>2 DEF Upset, SuiteTypes
      <4> QED BY <1>6, <3>1, <4>1 DEF SuiteInv, ProbeIsOne
    <3>3. CASE Recover
      <4>1. upsets' # 0 /\ upsets' = upsets /\ active' = active
        BY <3>3 DEF Recover, SuiteInv, UpsetsAreCounted
      <4>2. probeRun' = probeRun \/ (probeRun = "running" /\ ~up)
        BY <3>3 DEF Recover
      <4>3. ~up => active # "probe"
        BY DEF SuiteInv, UpsetsAreCounted
      <4> QED BY <1>6, <3>1, <4>1, <4>2, <4>3 DEF SuiteInv, ProbeIsOne
    <3> QED BY <2>3, <3>2, <3>3
  <2>4. CASE InfraChecks \/ CreateExpired \/ SuiteReaps \/ CountAlerts
    <3>1. UNCHANGED <<waited, inWindow, active, probeRun, upsets>>
          /\ at \in Before \union Reaped /\ at' \in Before \union Reaped \union {"shell"}
      BY <2>4 DEF InfraChecks, CreateExpired, SuiteReaps, CountAlerts, queueVars, workerVars
    <3> QED BY <1>6, <3>1 DEF SuiteInv, ProbeIsOne
  <2>5. CASE WaitForProbe
    <3>1. UNCHANGED <<at, active, probeRun, upsets>> /\ at = "poll"
      BY <2>5 DEF WaitForProbe, workerVars
    <3> QED BY <1>6, <3>1 DEF SuiteInv, ProbeIsOne
  <2>6. CASE AddProbe \/ AiPillar \/ RegisterMatch \/ PollMatch \/ CancelMatch
    <3>0. line # Append(line, "probe")
      <4> SUFFICES ASSUME line = Append(line, "probe") PROVE FALSE
        OBVIOUS
      <4>1. Len(Append(line, "probe")) = Len(line) + 1
        BY DEF SuiteTypes, Job
      <4> QED BY <1>1, <4>1
    <3>1. UNCHANGED <<active, probeRun>> /\ at # "poll" /\ at' \in {"ai", "match"} \union Asked
      BY <1>6, <2>6, <3>0 DEF AddProbe, AiPillar, RegisterMatch, PollMatch, CancelMatch, queueVars
    <3> QED BY <1>6, <3>1 DEF SuiteInv, ProbeIsOne
  <2>7. CASE UNCHANGED <<at, waited, inWindow, active, probeRun, upsets>>
    BY <1>6, <2>7 DEF SuiteInv, ProbeIsOne
  <2>8. CASE TakeJob
    <3>1. Len(line') = Len(line) - 1 /\ Len(line) \in Nat
      BY <2>8 DEF TakeJob, SuiteTypes
    <3> QED BY <1>6, <3>1
  <2> QED BY <1>5, <2>1, <2>2, <2>3, <2>4, <2>5, <2>6, <2>7, <2>8 DEF ConformanceNext, SuiteStep, WorkerStep,
         Matcher, WorkerReaps, OtherJob, conformanceVars, suiteVars, queueVars, workerVars
<1> QED BY <1>2, <1>3, <1>4, <1>5, <1>6, LineNext

LEMMA WindowNext ==
  ASSUME SuiteTypes, SuiteInv, [ConformanceNext]_conformanceVars
  PROVE  WindowIsRun'
<1> SUFFICES ASSUME upsets' = 0
             PROVE  /\ age' < Window
                    /\ at' = "poll" /\ ~Decided' /\ othersDone' = 0 =>
                         inWindow' = 0 \/ (active' # "none" /\ inWindow' <= age')
  BY DEF WindowIsRun
<1>1. upsets = 0 /\ Window \in Nat /\ 1 < Window
  BY UpsetsNext, ConformanceAssumption DEF SuiteTypes, SuiteInv
<1>2. /\ age \in Nat /\ age < Window /\ inWindow \in Nat
      /\ at = "poll" /\ ~Decided /\ othersDone = 0 =>
           inWindow = 0 \/ (active # "none" /\ inWindow <= age)
  BY <1>1 DEF SuiteTypes, SuiteInv, WindowIsRun
<1>3. up /\ ~held
  BY <1>1 DEF SuiteInv, UpsetsAreCounted, SuiteTypes
<1>4. CASE AddProbe
  <2>1. inWindow' = 0 /\ age' = age
    BY <1>4 DEF AddProbe, SuiteInv, ProbeIsOne
  <2> QED BY <1>2, <2>1
<1>5. CASE WaitForProbe
  <2>1. at = "poll" /\ ~Decided /\ probeRun # "completed" /\ probeRun # "failed"
    BY <1>5 DEF WaitForProbe, Decided
  <2>2. active # "none"
    <3> SUFFICES ASSUME active = "none" PROVE FALSE
      OBVIOUS
    <3>1. line = <<>>
      BY <1>3, <1>5 DEF WaitForProbe
    <3>2. DOMAIN line = {}
      BY <3>1
    <3>3. probeRun = "none" \/ probeRun = "running"
      BY <2>1 DEF SuiteTypes
    <3> QED BY <1>1, <2>1, <3>2, <3>3 DEF SuiteInv, ProbeIsOne
  <2>3. age' = age + 1 /\ age < Window - 1 /\ active' = active /\ probeRun' = probeRun
    BY <1>1, <1>2, <1>5, <2>2 DEF WaitForProbe
  <2>4. \/ inWindow' = 1
        \/ inWindow' = inWindow + 1 /\ othersDone' = othersDone
    BY <1>5 DEF WaitForProbe
  <2>5. age' < Window
    BY <1>1, <1>2, <2>3
  <2>6. othersDone' = 0 => inWindow' <= age'
    BY <1>2, <2>1, <2>2, <2>3, <2>4
  <2> QED BY <2>2, <2>3, <2>5, <2>6
<1>6. CASE TakeJob
  <2>1. age' = 0 /\ UNCHANGED <<at, inWindow, othersDone>> /\ active = "none"
    BY <1>6 DEF TakeJob, suiteVars
  <2>2. Decided => Decided'
    BY <1>6 DEF TakeJob, Decided, SuiteInv, ProbeIsOne, SuiteTypes
  <2> QED BY <1>1, <1>2, <2>1, <2>2
<1>7. CASE JobEnds
  <2>1. age' = 0 /\ UNCHANGED <<at, inWindow>>
    BY <1>7 DEF JobEnds
  <2>2. CASE active = "probe"
    <3>1. Decided'
      BY <1>7, <2>2 DEF JobEnds, Decided
    <3> QED BY <1>1, <2>1, <3>1
  <2>3. CASE active # "probe"
    <3>1. at = "poll" => othersDone' = 1
      BY <1>7, <2>3 DEF JobEnds, SuiteTypes, Job
    <3> QED BY <1>1, <2>1, <3>1
  <2> QED BY <2>2, <2>3
<1>8. CASE Upset \/ Recover
  BY <1>1, <1>3, <1>8 DEF Upset, Recover
<1>9. CASE UNCHANGED <<age, inWindow, othersDone, active, probeRun>> /\ (at' = "poll" => at = "poll")
  <2>1. Decided' = Decided
    BY <1>9 DEF Decided
  <2> QED BY <1>2, <1>9, <2>1
<1>10. \/ AddProbe \/ WaitForProbe \/ TakeJob \/ JobEnds \/ Upset \/ Recover
       \/ UNCHANGED <<age, inWindow, othersDone, active, probeRun>> /\ (at' = "poll" => at = "poll")
  BY DEF ConformanceNext, SuiteStep, WorkerStep, InfraChecks, CreateExpired, SuiteReaps, CountAlerts,
         ReadProbe, AbandonProbe, AiPillar, RegisterMatch, PollMatch, CancelMatch, Matcher,
         WorkerReaps, OtherJob, conformanceVars, suiteVars, queueVars
<1> QED BY <1>4, <1>5, <1>6, <1>7, <1>8, <1>9, <1>10

LEMMA ExpiredNext ==
  ASSUME SuiteTypes, SuiteInv, [ConformanceNext]_conformanceVars
  PROVE  ExpiredIsOwn'
<1> USE DEF Before, Reaped, Unasked, Asked
<1>0. ExpiredIsOwn /\ expired.alerts \in Nat
      /\ expired \in [there : BOOLEAN, handled : BOOLEAN, alerts : Nat, taken : BOOLEAN]
  BY DEF SuiteInv, SuiteTypes
<1>1. CASE CreateExpired
  <2>1. expired'.there /\ expired'.alerts = expired.alerts /\ expired'.handled = expired.handled
        /\ expired'.taken = expired.taken /\ reaped' = reaped /\ at = "expiry" /\ at' = "reap1"
    BY <1>0, <1>1 DEF CreateExpired
  <2> QED BY <1>0, <2>1 DEF ExpiredIsOwn
<1>2. CASE SuiteReaps
  <2>1. expired'.there = expired.there /\ expired'.taken = expired.taken /\ reaped' = reaped
        /\ \/ at = "reap1" /\ at' = "reap2"
           \/ at = "reap2" /\ at' = "count"
    BY <1>0, <1>2 DEF SuiteReaps
  <2>2. IF expired.handled
        THEN expired'.alerts = expired.alerts /\ expired'.handled = expired.handled
        ELSE expired'.alerts = expired.alerts + 1 /\ expired'.handled
    BY <1>0, <1>2 DEF SuiteReaps
  <2> QED BY <1>0, <2>1, <2>2 DEF ExpiredIsOwn
<1>3. CASE CountAlerts
  <2>1. ~expired'.there /\ expired'.alerts = 0 /\ expired'.taken = expired.taken /\ reaped' = reaped
        /\ at' = "shell"
    BY <1>0, <1>3 DEF CountAlerts
  <2> QED BY <1>0, <2>1 DEF ExpiredIsOwn
<1>4. CASE WorkerReaps
  <2>1. expired'.there = expired.there /\ at' = at
    BY <1>0, <1>4 DEF WorkerReaps, suiteVars
  <2>2. reaped'
    BY <1>0, <1>4 DEF WorkerReaps, ExpiredIsOwn
  <2> QED BY <1>0, <2>1, <2>2 DEF ExpiredIsOwn
<1>5. CASE UNCHANGED <<expired, reaped>> /\ (at' = at \/ (at = "infra" /\ at' = "expiry")
              \/ {at, at'} \subseteq Unasked \union Asked)
  BY <1>0, <1>5 DEF ExpiredIsOwn
<1>6. \/ CreateExpired \/ SuiteReaps \/ CountAlerts \/ WorkerReaps
      \/ UNCHANGED <<expired, reaped>> /\ (at' = at \/ (at = "infra" /\ at' = "expiry")
              \/ {at, at'} \subseteq Unasked \union Asked)
  BY DEF ConformanceNext, SuiteStep, WorkerStep, InfraChecks, AddProbe, ReadProbe, AbandonProbe,
         WaitForProbe, AiPillar, RegisterMatch, PollMatch, CancelMatch, TakeJob, JobEnds, Matcher,
         OtherJob, Upset, Recover, conformanceVars, suiteVars, waitpointVars
<1> QED BY <1>1, <1>2, <1>3, <1>4, <1>5, <1>6

LEMMA MatchNext ==
  ASSUME SuiteTypes, SuiteInv, [ConformanceNext]_conformanceVars
  PROVE  MatchIsAnswered'
<1> USE DEF Before, Reaped, Unasked, Asked
<1>0. MatchIsAnswered /\ upsets \in Nat /\ upsets' \in Nat /\ upsets <= upsets' /\ (~up => upsets > 0)
  BY SuiteTypesNext, UpsetsNext DEF SuiteInv, SuiteTypes, UpsetsAreCounted
<1>1. CASE RegisterMatch
  BY <1>0, <1>1 DEF RegisterMatch, MatchIsAnswered
<1>2. CASE PollMatch
  BY <1>0, <1>2 DEF PollMatch, MatchIsAnswered, waitpointVars, workerVars
<1>3. CASE CancelMatch
  BY <1>0, <1>3 DEF CancelMatch, MatchIsAnswered, workerVars
<1>4. CASE Matcher
  BY <1>0, <1>4 DEF Matcher, MatchIsAnswered, suiteVars
<1>5. CASE match' = match /\ (at' = at \/ (at \notin Asked /\ at' \notin Asked))
  BY <1>0, <1>5 DEF MatchIsAnswered
<1>6. \/ RegisterMatch \/ PollMatch \/ CancelMatch \/ Matcher
      \/ match' = match /\ (at' = at \/ (at \notin Asked /\ at' \notin Asked))
  BY DEF ConformanceNext, SuiteStep, WorkerStep, InfraChecks, CreateExpired, SuiteReaps, CountAlerts,
         AddProbe, ReadProbe, AbandonProbe, WaitForProbe, AiPillar, TakeJob, JobEnds, WorkerReaps,
         OtherJob, Upset, Recover, conformanceVars, suiteVars, waitpointVars
<1> QED BY <1>1, <1>2, <1>3, <1>4, <1>5, <1>6

LEMMA VerdictsNext ==
  ASSUME SuiteTypes, SuiteInv, [ConformanceNext]_conformanceVars
  PROVE  VerdictsHaveReason'
<1> USE DEF Before, Reaped, Unasked, Asked
<1>0. /\ VerdictsHaveReason
      /\ Excused => Excused'
      /\ upsets \in Nat /\ upsets' \in Nat /\ upsets <= upsets'
  BY SuiteTypesNext, UpsetsNext DEF SuiteInv, SuiteTypes, Excused
<1>1. waited \in Nat /\ waited' \in Nat /\ HardCap \in Nat
      /\ (waited' = waited \/ waited' = waited + 1)
  <2>1. waited' = waited \/ waited' = waited + 1
    BY DEF ConformanceNext, SuiteStep, WorkerStep, InfraChecks, CreateExpired, SuiteReaps,
         CountAlerts, AddProbe, ReadProbe, AbandonProbe, WaitForProbe, AiPillar, RegisterMatch,
         PollMatch, CancelMatch, TakeJob, JobEnds, Matcher, WorkerReaps, OtherJob, Upset, Recover,
         conformanceVars, suiteVars
  <2> QED BY <2>1, SuiteTypesNext, ConformanceAssumption DEF SuiteTypes
<1>2. ASSUME NEW c \in Checks, Grounds(c)
      PROVE  Excused' \/ (c = "shell-roundtrip" /\ waited' >= HardCap)
  <2>1. CASE c \in Static \/ c = "worker-health" \/ c = "waitpoint-roundtrip"
    <3>1. Excused
      BY <1>2, <2>1 DEF Grounds, Excused, SuiteInv, UpsetsAreCounted, Static
    <3> QED BY <1>0, <3>1
  <2>2. CASE c = "waitpoint-expiry"
    <3>1. at = "count" /\ expired.alerts # 1
      BY <1>2, <2>2 DEF Grounds, CountAlerts, Static
    <3>2. reaped
      BY <3>1 DEF SuiteInv, ExpiredIsOwn
    <3> QED BY <1>0, <3>2 DEF Excused
  <2>3. CASE c = "shell-roundtrip"
    <3>1. CASE probeRun = "failed"
      BY <1>0, <3>1 DEF SuiteInv, UpsetsAreCounted, Excused
    <3>2. CASE probeRun # "failed"
      <4>1. at = "poll" /\ ~Decided /\ GiveUp /\ waited' = waited
        BY <1>2, <2>3, <3>2 DEF Grounds, Static, AbandonProbe
      <4>2. waited >= HardCap \/ upsets # 0
        BY <4>1, ConformanceAssumption DEF GiveUp, SuiteInv, WindowIsRun, SuiteTypes
      <4> QED BY <1>0, <2>3, <4>1, <4>2 DEF Excused
    <3> QED BY <3>1, <3>2
  <2> QED BY <2>1, <2>2, <2>3 DEF Checks
<1>3. \A c \in Checks : verdict'[c] = "fail" =>
        Excused' \/ (c = "shell-roundtrip" /\ waited' >= HardCap)
  <2> SUFFICES ASSUME NEW c \in Checks, verdict'[c] = "fail"
               PROVE  Excused' \/ (c = "shell-roundtrip" /\ waited' >= HardCap)
    OBVIOUS
  <2>1. verdict[c] = "fail" \/ Grounds(c)
    BY VerdictNext
  <2>2. verdict[c] = "fail" => Excused \/ (c = "shell-roundtrip" /\ waited >= HardCap)
    BY <1>0 DEF VerdictsHaveReason
  <2> QED BY <1>0, <1>1, <1>2, <2>1, <2>2
<1>4. verdict'["shell-roundtrip"] = "pass" => at' \in Asked \union {"ai", "match"} /\ probeRun' = "completed"
  <2> SUFFICES ASSUME verdict'["shell-roundtrip"] = "pass"
               PROVE  at' \in Asked \union {"ai", "match"} /\ probeRun' = "completed"
    OBVIOUS
  <2>1. CASE ReadProbe /\ probeRun = "completed"
    BY <2>1 DEF ReadProbe, queueVars
  <2>2. CASE verdict["shell-roundtrip"] = "pass"
    <3>1. at \in Asked \union {"ai", "match"} /\ probeRun = "completed"
      BY <2>2 DEF SuiteInv, VerdictsHaveReason
    <3>2. at' \in Asked \union {"ai", "match"}
      BY <3>1 DEF ConformanceNext, SuiteStep, WorkerStep, InfraChecks, CreateExpired, SuiteReaps,
         CountAlerts, AddProbe, ReadProbe, AbandonProbe, WaitForProbe, AiPillar, RegisterMatch,
         PollMatch, CancelMatch, TakeJob, JobEnds, Matcher, WorkerReaps, OtherJob, Upset, Recover,
         conformanceVars, suiteVars
    <3>3. active # "probe" /\ \A i \in DOMAIN line : line[i] # "probe"
      BY <3>1 DEF SuiteInv, ProbeIsOne
    <3>4. CASE TakeJob
      <4>1. active' # "probe"
        BY <3>3, <3>4 DEF TakeJob, SuiteTypes
      <4> QED BY <3>1, <3>2, <3>4, <4>1 DEF TakeJob
    <3>5. CASE ~TakeJob
      BY <3>1, <3>2, <3>3, <3>5 DEF ConformanceNext, SuiteStep, WorkerStep, InfraChecks, CreateExpired,
         SuiteReaps, CountAlerts, AddProbe, ReadProbe, AbandonProbe, WaitForProbe, AiPillar,
         RegisterMatch, PollMatch, CancelMatch, JobEnds, Matcher, WorkerReaps, OtherJob, Upset, Recover,
         conformanceVars, queueVars
    <3> QED BY <3>4, <3>5
  <2> QED BY <2>1, <2>2, VerdictNext
<1> QED BY <1>3, <1>4 DEF VerdictsHaveReason

\* A release is rejected for a cause, and the suite leaves nothing behind
\* (conformance.ts:251-410, 494-571), for any windows, caps and backlogs.
THEOREM VerdictsAreFair == ConformanceInit /\ [][ConformanceNext]_conformanceVars => []VerdictIsFair
<1>1. SuiteTypes /\ SuiteInv /\ [ConformanceNext]_conformanceVars => SuiteTypes' /\ SuiteInv'
  BY SuiteTypesNext, UpsetsNext, ProbeNext, WindowNext, ExpiredNext, MatchNext, VerdictsNext DEF SuiteInv
<1>2. SuiteTypes /\ SuiteInv => VerdictIsFair
  <2> SUFFICES ASSUME SuiteTypes, SuiteInv, at = "end" PROVE VerdictIsFair
    BY DEF VerdictIsFair
  <2>1. ExitCode = 1 => \E c \in Checks : verdict[c] = "fail"
    BY DEF ExitCode
  <2>2. ExitCode = 1 => broken # {} \/ upsets > 0 \/ reaped \/ waited >= HardCap
    BY <2>1 DEF SuiteInv, VerdictsHaveReason, Excused
  <2>3. \A i \in DOMAIN line : line[i] # "probe"
    BY DEF SuiteInv, ProbeIsOne
  <2>4. ~expired.there /\ (expired.alerts > 0 => reaped)
    BY DEF SuiteInv, ExpiredIsOwn, Before, Reaped, Unasked, Asked, SuiteTypes
  <2>5. verdict["shell-roundtrip"] = "pass" => probeRun = "completed"
    BY DEF SuiteInv, VerdictsHaveReason
  <2>6. match = "pending" => upsets > 0
    BY DEF SuiteInv, MatchIsAnswered
  <2> QED BY <2>2, <2>3, <2>4, <2>5, <2>6 DEF VerdictIsFair
<1> QED BY <1>1, <1>2, SuiteInitially, PTL

-----------------------------------------------------------------------------
(* Watchdogs *)

Statuses == {"critical", "degraded", "healthy"}

WatchTypes ==
  /\ now \in Nat /\ serving \in BOOLEAN /\ watched \subseteq Loops
  /\ due \in [Loops -> Nat] /\ polling \subseteq watched
  /\ found \in [Loops -> SUBSET (Statuses \union ({"cron", "output"} \X Int))]
  /\ \A w \in {"cron", "output"} : found[w] \subseteq {"cron", "output"} \X Int
  /\ posted \subseteq {"cron", "output"} \X Int
  /\ next \in Int /\ produced \in Int
  /\ recent \in [{"critical", "degraded"} -> Int] /\ told \in [{"critical", "degraded"} -> Int]
  /\ \A s \in {"critical", "degraded"} : recent[s] <= now
  /\ sick \in Nat /\ sick <= now /\ trouble \in Nat

\* A loop that is followed has a timer, which runs out within its interval.
TimersRun ==
  /\ \A w \in watched : due[w] <= now + Interval(w) /\ (serving => now <= due[w])
  /\ ~serving => polling = {} /\ trouble > 0 /\ \A s \in {"critical", "degraded"} : recent[s] = Never

\* What is overdue since base is posted, or will be by a poll that comes early
\* enough: one interval behind base, and one more for each fault.
Timely(w, base, key) ==
  LET allowed == Interval(w) * trouble IN
  \/ key \in posted
  \/ ~serving /\ now - base <= allowed
  \/ serving /\ w \notin polling /\ due[w] - base <= Interval(w) + allowed
  \/ serving /\ w \in polling /\ key \in found[w] /\ now - base <= Interval(w) + allowed
  \/ serving /\ w \in polling /\ key \notin found[w] /\ now - base <= allowed

FiringsAreTimely == "cron" \in watched /\ next # NoNext => Timely("cron", next + Grace * Period, <<"cron", next>>)
OutputsAreTimely ==
  "output" \in watched /\ produced # Never => Timely("output", produced + MaxSilence, <<"output", produced>>)

\* A firing that is told, or about to be, was late.
LateIsLate ==
  trouble = 0 =>
    /\ next # NoNext /\ found["output"] \intersect ({"cron"} \X Int) = {}
    /\ \A k \in posted \union found["cron"] : k \in {"cron"} \X Int =>
         \/ k[2] = next /\ now - next > Grace * Period
         \/ \E f \in fired : f[1] = k[2] /\ f[2] - f[1] > Grace * Period

\* When the health monitor looks again, and when it is free to tell status s.
NextLook(s) ==
  IF ~serving THEN now + 1 ELSE IF "health" \in polling /\ s \in found["health"] THEN now ELSE due["health"]
MayTell(s) == IF recent[s] = Never THEN NextLook(s) ELSE recent[s] + DedupeWindow(s)

\* A status that nobody was told of will be told in time.
IllnessIsTimely ==
  /\ "health" \in polling => \E s \in Statuses : found["health"] = {s}
  /\ LET s == Status
         latest == sick + (1 + DedupeWindow(s)) * (1 + trouble)
     IN s # "healthy" /\ "health" \in watched /\ world.postgres /\ told[s] < sick
          => NextLook(s) <= latest /\ MayTell(s) <= latest

WatchInv == TimersRun /\ FiringsAreTimely /\ OutputsAreTimely /\ LateIsLate /\ IllnessIsTimely

LEMMA Products ==
  /\ Grace * Period \in Nat
  /\ \A w \in Loops : Interval(w) \in Nat /\ Interval(w) > 0
  /\ \A s \in Statuses : DedupeWindow(s) \in Nat /\ DedupeWindow(s) > 0
  /\ MaxSilence \in Nat
BY WatchdogsAssumption, SMT DEF Loops, Interval, Statuses, DedupeWindow

LEMMA FaultsAllow ==
  ASSUME NEW i \in Nat, NEW t \in Nat
  PROVE  i * t \in Nat /\ i * (t + 1) = i * t + i
OBVIOUS

LEMMA NextFireIsAhead == now \in Nat => NextFire \in Int /\ NextFire > now
<1> SUFFICES ASSUME now \in Nat PROVE NextFire \in Int /\ NextFire > now
  OBVIOUS
<1>1. Period \in Nat /\ Period > 0
  BY WatchdogsAssumption
<1> DEFINE q == now \div Period
<1>2. q \in Int /\ Period * q + (now % Period) = now /\ now % Period < Period /\ now % Period >= 0
  BY <1>1
<1>3. Period * (q + 1) = Period * q + Period /\ Period * q \in Int
  BY <1>1, <1>2
<1> QED BY <1>1, <1>2, <1>3 DEF NextFire

LEMMA FreshIsTimely ==
  ASSUME WatchTypes, TimersRun, NEW w \in {"cron", "output"}, w \in watched,
         NEW base \in Int, base >= now, NEW key
  PROVE  Timely(w, base, key)
<1>1. Interval(w) \in Nat /\ Interval(w) * trouble \in Nat
  BY Products, FaultsAllow DEF WatchTypes, Loops
<1>2. now \in Nat /\ due[w] \in Nat /\ due[w] <= now + Interval(w) /\ serving \in BOOLEAN
  BY DEF WatchTypes, TimersRun, Loops
<1> QED BY <1>1, <1>2 DEF Timely

LEMMA TimelySuffices ==
  ASSUME WatchTypes, TimersRun, NEW w \in {"cron", "output"}, w \in watched,
         NEW base \in Int, NEW key, Timely(w, base, key),
         now - base > Interval(w) + Interval(w) * trouble
  PROVE  key \in posted
<1>1. Interval(w) \in Nat /\ Interval(w) * trouble \in Nat
  BY Products, FaultsAllow DEF WatchTypes, Loops
<1>2. now \in Nat /\ due[w] \in Nat /\ (serving => now <= due[w])
  BY DEF WatchTypes, TimersRun, Loops
<1> QED BY <1>1, <1>2 DEF Timely

\* What a poll of loop w looks for.
Sought(w) == IF w = "cron" THEN OverdueCrons ELSE StaleOutputs

LEMMA PollIsTimely ==
  ASSUME WatchTypes, TimersRun, WatchTypes', NEW w \in {"cron", "output"},
         NEW base \in Int, NEW key, Timely(w, base, key),
         now - base > 0 => key \in Sought(w), Poll(w, Sought(w))
  PROVE  Timely(w, base, key)'
<1> DEFINE i == Interval(w)
           a == i * trouble
<1>1. i \in Nat /\ i > 0 /\ a \in Nat /\ i * (trouble + 1) = a + i
  BY Products, FaultsAllow DEF WatchTypes, Loops
<1>2. /\ serving /\ serving' = serving /\ now' = now /\ posted' = posted /\ w \in watched
      /\ due'[w] = now + i /\ now <= due[w] /\ now \in Nat /\ due[w] \in Nat
  BY DEF Poll, Tick, WatchTypes, TimersRun, outputVars, Loops
<1>3. CASE key \in posted
  BY <1>2, <1>3 DEF Timely
<1>4. CASE key \notin posted /\ w \in polling
  <2>1. w \in polling' /\ found' = found /\ trouble' = trouble
    BY <1>4 DEF Poll
  <2> QED BY <1>4, <1>2, <2>1 DEF Timely
<1>5. CASE key \notin posted /\ w \notin polling
  <2>1. now - base <= i + a
    <3>1. due[w] - base <= i + a
      BY <1>5, <1>2 DEF Timely
    <3> QED BY <3>1, <1>1, <1>2
  <2>2. CASE trouble' = trouble + 1 /\ UNCHANGED <<polling, found>>
    <3>1. w \notin polling' /\ due'[w] - base <= i + i * trouble'
      <4>1. i * trouble' = a + i
        BY <2>2, <1>1
      <4> QED BY <4>1, <2>2, <1>5, <1>1, <1>2, <2>1
    <3> QED BY <3>1, <1>2 DEF Timely
  <2>3. CASE /\ UNCHANGED trouble /\ found' = [found EXCEPT ![w] = Sought(w)]
             /\ polling' = IF Sought(w) = {} THEN polling ELSE polling \union {w}
    <3>1. found'[w] = Sought(w)
      BY <2>3 DEF WatchTypes, Loops
    <3>2. CASE key \in Sought(w)
      BY <3>1, <3>2, <2>3, <2>1, <1>2 DEF Timely
    <3>3. CASE key \notin Sought(w)
      <4>1. now - base <= 0
        BY <3>3, <1>2
      <4>2. now' - base <= i * trouble' /\ due'[w] - base <= i + i * trouble'
        BY <4>1, <2>3, <1>1, <1>2
      <4> QED BY <4>2, <3>1, <3>3, <1>2 DEF Timely
    <3> QED BY <3>2, <3>3
  <2>4. \/ trouble' = trouble + 1 /\ UNCHANGED <<polling, found>>
        \/ /\ UNCHANGED trouble /\ found' = [found EXCEPT ![w] = Sought(w)]
           /\ polling' = IF Sought(w) = {} THEN polling ELSE polling \union {w}
    BY <1>5 DEF Poll, Works, Trouble
  <2> QED BY <2>2, <2>3, <2>4
<1> QED BY <1>3, <1>4, <1>5

LEMMA EmitIsTimely ==
  ASSUME WatchTypes, TimersRun, NEW w \in {"cron", "output"}, w \in watched,
         NEW base \in Int, NEW key, Timely(w, base, key), Emit(w)
  PROVE  Timely(w, base, key)'
<1> DEFINE i == Interval(w)
           a == i * trouble
<1>1. i \in Nat /\ i > 0 /\ a \in Nat /\ i * (trouble + 1) = a + i
  BY Products, FaultsAllow DEF WatchTypes, Loops
<1>2. /\ serving /\ serving' = serving /\ now' = now /\ w \in polling /\ w \notin polling'
      /\ due'[w] = due[w] /\ due[w] <= now + i /\ now \in Nat /\ due[w] \in Nat
  BY DEF Emit, WatchTypes, TimersRun, Loops
<1>3. CASE posted' = posted \union found[w] /\ UNCHANGED trouble
  <2>1. CASE key \in posted \/ key \in found[w]
    BY <2>1, <1>3 DEF Timely
  <2>2. CASE key \notin posted /\ key \notin found[w]
    <3>1. now - base <= a
      BY <2>2, <1>2 DEF Timely
    <3>2. due'[w] - base <= i + i * trouble'
      BY <3>1, <1>3, <1>1, <1>2
    <3> QED BY <3>2, <1>2 DEF Timely
  <2> QED BY <2>1, <2>2
<1>4. CASE trouble' = trouble + 1 /\ UNCHANGED posted
  <2>1. CASE key \in posted
    BY <2>1, <1>4 DEF Timely
  <2>2. CASE key \notin posted
    <3>1. now - base <= i + a
      BY <2>2, <1>1, <1>2 DEF Timely
    <3>2. i * trouble' = a + i
      BY <1>4, <1>1
    <3>3. due'[w] - base <= i + i * trouble'
      BY <3>1, <3>2, <1>1, <1>2
    <3> QED BY <3>3, <1>2 DEF Timely
  <2> QED BY <2>1, <2>2
<1> QED BY <1>3, <1>4 DEF Emit, Works, Trouble

\* A step of another loop, of the scheduler or of the workspace.
LEMMA OthersAreTimely ==
  ASSUME WatchTypes, NEW w \in {"cron", "output"}, NEW base \in Int, NEW key, Timely(w, base, key),
         trouble' \in {trouble, trouble + 1}, posted \subseteq posted', UNCHANGED <<now, serving>>,
         due'[w] = due[w], (w \in polling') = (w \in polling), found'[w] = found[w],
         due[w] \in Nat
  PROVE  Timely(w, base, key)'
<1> DEFINE i == Interval(w)
           a == i * trouble
<1>1. i \in Nat /\ a \in Nat /\ i * (trouble + 1) = a + i /\ now \in Nat
  BY Products, FaultsAllow DEF WatchTypes, Loops
<1> DEFINE b == i * trouble'
<1>2. b \in Nat /\ a <= b
  <2>1. CASE trouble' = trouble
    BY <2>1, <1>1
  <2>2. CASE trouble' = trouble + 1
    <3>1. b = a + i
      BY <2>2, <1>1
    <3> QED BY <3>1, <1>1
  <2> QED BY <2>1, <2>2
<1> HIDE DEF a, b, i
<1>3. \/ key \in posted
      \/ ~serving /\ now - base <= a
      \/ serving /\ w \notin polling /\ due[w] - base <= i + a
      \/ serving /\ w \in polling /\ key \in found[w] /\ now - base <= i + a
      \/ serving /\ w \in polling /\ key \notin found[w] /\ now - base <= a
  BY DEF Timely, a, i
<1>4. \/ key \in posted'
      \/ ~serving' /\ now' - base <= b
      \/ serving' /\ w \notin polling' /\ due'[w] - base <= i + b
      \/ serving' /\ w \in polling' /\ key \in found'[w] /\ now' - base <= i + b
      \/ serving' /\ w \in polling' /\ key \notin found'[w] /\ now' - base <= b
  BY <1>1, <1>2, <1>3
<1> QED BY <1>4 DEF Timely, b, i

LEMMA ProcessIsTimely ==
  ASSUME WatchTypes, TimersRun, NEW w \in {"cron", "output"}, w \in watched,
         NEW base \in Int, NEW key, Timely(w, base, key), Crashes \/ Restarts \/ Clock
  PROVE  Timely(w, base, key)'
<1> DEFINE i == Interval(w)
           a == i * trouble
           b == i * trouble'
<1>1. i \in Nat /\ i > 0 /\ a \in Nat /\ i * (trouble + 1) = a + i
  BY Products, FaultsAllow DEF WatchTypes, Loops
<1>2. now \in Nat /\ due[w] \in Nat /\ posted' = posted /\ w \in Loops /\ (serving => now <= due[w])
  BY DEF WatchTypes, TimersRun, Loops, Crashes, Restarts, Clock, outputVars
<1>3. trouble' = trouble + 1 => b = a + i
  BY <1>1
<1>4. trouble' = trouble => b = a
  OBVIOUS
<1> HIDE DEF a, b
<1>5. SUFFICES ASSUME key \notin posted PROVE Timely(w, base, key)'
  BY <1>2 DEF Timely
<1>6. /\ ~serving => now - base <= a
      /\ serving /\ w \notin polling => due[w] - base <= i + a
      /\ serving /\ w \in polling => now - base <= i + a
      /\ serving /\ w \in polling /\ key \notin found[w] => now - base <= a
  BY <1>1, <1>2, <1>5 DEF Timely, a
<1>7. CASE Crashes
  <2>1. serving /\ ~serving' /\ now' = now /\ trouble' = trouble + 1
    BY <1>7 DEF Crashes, Trouble
  <2>2. now' - base <= b
    BY <2>1, <1>1, <1>2, <1>3, <1>6
  <2> QED BY <2>1, <2>2 DEF Timely, b
<1>8. CASE Restarts
  <2>1. ~serving /\ serving' /\ polling' = polling /\ trouble' = trouble /\ due'[w] = now + i /\ w \notin polling
    BY <1>8, <1>2 DEF Restarts, TimersRun
  <2>2. due'[w] - base <= i + b
    BY <2>1, <1>1, <1>2, <1>4, <1>6
  <2> QED BY <2>1, <2>2 DEF Timely, b
<1>9. CASE Clock
  <2>1. /\ now' = now + 1 /\ serving' = serving /\ polling' = polling /\ found' = found /\ due' = due
        /\ serving => due[w] > now
    BY <1>9 DEF Clock, loopVars
  <2>2. \/ serving /\ polling = {} /\ trouble' = trouble
        \/ trouble' = trouble + 1
    BY <1>9 DEF Clock, Works, Trouble
  <2>3. CASE serving /\ polling = {} /\ trouble' = trouble
    <3>1. due'[w] - base <= i + b
      BY <2>1, <2>3, <1>4, <1>6
    <3> QED BY <3>1, <2>1, <2>3 DEF Timely, b
  <2>4. CASE trouble' = trouble + 1
    <3>1. /\ ~serving => now' - base <= b
          /\ serving /\ w \notin polling => due[w] - base <= i + b
          /\ serving /\ w \in polling => now' - base <= i + b
          /\ serving /\ w \in polling /\ key \notin found[w] => now' - base <= b
      BY <2>1, <2>4, <1>1, <1>2, <1>3, <1>6
    <3> QED BY <3>1, <2>1 DEF Timely, b, WatchTypes
  <2> QED BY <2>2, <2>3, <2>4
<1> QED BY <1>7, <1>8, <1>9

LEMMA StatusIs == Status \in Statuses
BY DEF Status, Statuses

LEMMA SoughtIs ==
  ASSUME WatchTypes
  PROVE  OverdueCrons \subseteq {"cron"} \X Int /\ StaleOutputs \subseteq {"output"} \X Int
<1>1. now - Period \in Int
  BY WatchdogsAssumption DEF WatchTypes
<1> QED BY <1>1 DEF WatchTypes, OverdueCrons, StaleOutputs

LEMMA WatchStart == WatchdogsInit => WatchTypes /\ WatchInv
<1> SUFFICES ASSUME WatchdogsInit PROVE WatchTypes /\ WatchInv
  OBVIOUS
<1> USE Products
<1>1. Period \in Nat /\ Period > 0
  BY WatchdogsAssumption
<1>2. WatchTypes
  BY <1>1 DEF WatchdogsInit, WatchTypes, Loops, Never
<1>3. TimersRun
  BY <1>2 DEF WatchdogsInit, TimersRun, WatchTypes, Loops
<1>4. FiringsAreTimely
  BY <1>1, <1>2, <1>3, FreshIsTimely DEF FiringsAreTimely, WatchdogsInit
<1>5. OutputsAreTimely
  BY <1>2, <1>3, FreshIsTimely DEF OutputsAreTimely, WatchdogsInit
<1>6. LateIsLate
  BY <1>1 DEF LateIsLate, WatchdogsInit, Loops, NoNext
<1>7. IllnessIsTimely
  <2>1. Status = "healthy"
    <3>1. /\ world.results = <<>> /\ world.silent = "no" /\ world.api = "ok" /\ world.redis
          /\ world.budget = "none" /\ ~world.short
      BY DEF WatchdogsInit, Well
    <3>2. /\ StaleSkills = {} /\ ApiCredit = {} /\ Redis = {} /\ SpendBudget = {}
          /\ SystemResources = {}
      BY <3>1 DEF StaleSkills, Verdicts, ApiCredit, Redis, SpendBudget, SystemResources
    <3>3. SuccessRate = {}
      BY <3>1 DEF SuccessRate
    <3>4. SubSeq(world.results, 1, IF Len(world.results) < 5 THEN Len(world.results) ELSE 5) = <<>>
      BY <3>1
    <3>5. Failed(<<>>) = 0
      <4>1. {i \in DOMAIN <<>> : <<>>[i] = "failed"} = {}
        OBVIOUS
      <4> QED BY <4>1, FS_EmptySet DEF Failed
    <3>6. ConsecutiveFailures = {}
      <4>1. ~(Failed(SubSeq(world.results, 1, IF Len(world.results) < 5 THEN Len(world.results) ELSE 5)) >= 3)
        <5> DEFINE five == SubSeq(world.results, 1, IF Len(world.results) < 5 THEN Len(world.results) ELSE 5)
        <5>1. five = <<>>
          BY <3>4
        <5> HIDE DEF five
        <5>2. Failed(five) = 0
          BY <5>1, <3>5
        <5>3. ~(Failed(five) >= 3)
          BY <5>2
        <5> QED BY <5>3 DEF five
      <4> QED BY <4>1 DEF ConsecutiveFailures
    <3> QED BY <3>2, <3>3, <3>6 DEF Status, Alerts
  <2> QED BY <2>1 DEF IllnessIsTimely, WatchdogsInit
<1> QED BY <1>2, <1>3, <1>4, <1>5, <1>6, <1>7 DEF WatchInv

LEMMA WatchTypesStep == WatchTypes /\ WatchdogsNext => WatchTypes'
<1> SUFFICES ASSUME WatchTypes, WatchdogsNext PROVE WatchTypes'
  OBVIOUS
<1>0. /\ now \in Nat /\ now + 1 \in Nat /\ trouble \in Nat /\ trouble + 1 \in Nat
      /\ \A w \in Loops : now + Interval(w) \in Nat
  BY Products DEF WatchTypes
<1>1. ASSUME NEW w \in {"cron", "output"}, Poll(w, Sought(w)) PROVE WatchTypes'
  <2>1. Sought(w) \subseteq {"cron", "output"} \X Int
    BY SoughtIs DEF Sought
  <2>2. due' \in [Loops -> Nat] /\ polling' \subseteq watched /\ trouble' \in Nat
    BY <1>0, <1>1 DEF Poll, Tick, Works, Trouble, WatchTypes
  <2>3. found' \in [Loops -> SUBSET (Statuses \union ({"cron", "output"} \X Int))]
    BY <1>1, <2>1 DEF Poll, WatchTypes
  <2>4. \A v \in {"cron", "output"} : found'[v] \subseteq {"cron", "output"} \X Int
    BY <1>1, <2>1 DEF Poll, WatchTypes, Loops
  <2> QED BY <1>1, <2>2, <2>3, <2>4 DEF Poll, WatchTypes, cronVars, outputVars, healthVars
<1>2. ASSUME NEW w \in {"cron", "output"}, Emit(w) PROVE WatchTypes'
  <2>1. polling' \subseteq watched /\ trouble' \in Nat
    BY <1>0, <1>2 DEF Emit, Works, Trouble, WatchTypes
  <2>2. found' \in [Loops -> SUBSET (Statuses \union ({"cron", "output"} \X Int))]
    BY <1>2 DEF Emit, WatchTypes
  <2> QED BY <1>2, <2>1, <2>2 DEF Emit, WatchTypes, cronVars, healthVars
<1>3. CASE RunHealthCheck
  <2>1. due' \in [Loops -> Nat] /\ polling' \subseteq watched /\ trouble' \in Nat
    BY <1>0, <1>3 DEF RunHealthCheck, Tick, Works, Trouble, WatchTypes, Loops
  <2>2. found' \in [Loops -> SUBSET (Statuses \union ({"cron", "output"} \X Int))]
    BY <1>3, StatusIs DEF RunHealthCheck, WatchTypes
  <2>3. \A v \in {"cron", "output"} : found'[v] = found[v]
    BY <1>3 DEF RunHealthCheck, WatchTypes, Loops
  <2> QED BY <1>3, <2>1, <2>2, <2>3 DEF RunHealthCheck, WatchTypes, cronVars, outputVars, healthVars
<1>4. CASE RecordAndSendAlerts
  <2>1. polling' \subseteq watched /\ trouble' \in Nat
    BY <1>0, <1>4 DEF RecordAndSendAlerts, Notify, Works, Trouble, WatchTypes
  <2>2. found' \in [Loops -> SUBSET (Statuses \union ({"cron", "output"} \X Int))]
    BY <1>4 DEF RecordAndSendAlerts, WatchTypes
  <2>3. /\ recent' \in [{"critical", "degraded"} -> Int] /\ told' \in [{"critical", "degraded"} -> Int]
        /\ \A s \in {"critical", "degraded"} : recent'[s] <= now
    <3>1. \/ UNCHANGED <<recent, told>>
          \/ \E s \in found["health"] : /\ recent' = [recent EXCEPT ![s] = now]
                                        /\ told' = [told EXCEPT ![s] = now] \/ told' = told
      BY <1>4 DEF RecordAndSendAlerts, Notify
    <3> QED BY <1>0, <3>1 DEF WatchTypes
  <2> QED BY <1>4, <2>1, <2>2, <2>3 DEF RecordAndSendAlerts, WatchTypes, cronVars, outputVars
<1>5. CASE Fires
  BY <1>0, <1>5, NextFireIsAhead DEF Fires, WatchTypes, loopVars, healthVars
<1>6. CASE LosesNext
  BY <1>0, <1>6 DEF LosesNext, Trouble, WatchTypes, NoNext, loopVars, outputVars, healthVars
<1>7. CASE WorldChanges
  BY <1>0, <1>7 DEF WorldChanges, WatchTypes, loopVars, cronVars, outputVars
<1>8. CASE Crashes
  <2>1. /\ polling' \subseteq watched /\ trouble' \in Nat /\ serving' \in BOOLEAN
        /\ found' \in [Loops -> SUBSET (Statuses \union ({"cron", "output"} \X Int))]
    BY <1>0, <1>8 DEF Crashes, Trouble, WatchTypes
  <2>2. /\ recent' \in [{"critical", "degraded"} -> Int]
        /\ \A s \in {"critical", "degraded"} : recent'[s] <= now
    <3>1. recent' = [s \in {"critical", "degraded"} |-> Never] /\ Never \in Int /\ Never <= now
      BY <1>0, <1>8 DEF Crashes, WatchTypes, Never
    <3> HIDE DEF Never
    <3> QED BY <3>1
  <2>3. \A v \in {"cron", "output"} : found'[v] = {}
    BY <1>8 DEF Crashes, Loops
  <2> QED BY <1>8, <2>1, <2>2, <2>3 DEF Crashes, WatchTypes, cronVars, outputVars
<1>9. CASE Restarts
  BY <1>0, <1>9, NextFireIsAhead DEF Restarts, WatchTypes, outputVars, healthVars
<1>10. CASE Clock
  BY <1>0, <1>10 DEF Clock, Works, Trouble, WatchTypes, loopVars, cronVars, outputVars, healthVars
<1> QED
  BY <1>1, <1>2, <1>3, <1>4, <1>5, <1>6, <1>7, <1>8, <1>9, <1>10
  DEF WatchdogsNext, CheckSchedulerHealth, EmitOverdueAlerts, CheckOutputStaleness, EmitStaleAlerts, Sought

LEMMA TimersStep == WatchTypes /\ TimersRun /\ WatchdogsNext => TimersRun'
<1> SUFFICES ASSUME WatchTypes, TimersRun, WatchdogsNext PROVE TimersRun'
  OBVIOUS
<1>0. /\ now \in Nat /\ trouble \in Nat /\ watched \subseteq Loops
      /\ \A w \in Loops : due[w] \in Nat /\ Interval(w) \in Nat /\ Interval(w) > 0
  BY Products DEF WatchTypes
<1>1. ASSUME NEW w \in watched, Tick(w), UNCHANGED <<now, serving, watched>> PROVE TimersRun'
  <2>1. \A v \in watched : due'[v] = IF v = w THEN now + Interval(w) ELSE due[v]
    BY <1>0, <1>1 DEF Tick, WatchTypes
  <2>2. serving'
    BY <1>1 DEF Tick
  <2> QED BY <2>1, <2>2, <1>0, <1>1 DEF TimersRun
<1>2. ASSUME UNCHANGED <<now, serving, watched, due>>, serving PROVE TimersRun'
  BY <1>2 DEF TimersRun
<1>3. CASE \E w \in {"cron", "output"} : Poll(w, Sought(w))
  BY <1>1, <1>3 DEF Poll, Tick
<1>4. CASE RunHealthCheck
  BY <1>1, <1>4 DEF RunHealthCheck, Tick
<1>5. CASE (\E w \in {"cron", "output"} : Emit(w)) \/ RecordAndSendAlerts \/ Fires
  BY <1>2, <1>5 DEF Emit, RecordAndSendAlerts, Fires, loopVars
<1>6. CASE LosesNext \/ WorldChanges
  <2>1. UNCHANGED <<now, serving, watched, due, polling, recent>> /\ trouble' \in {trouble, trouble + 1}
    BY <1>6 DEF LosesNext, WorldChanges, Trouble, loopVars, healthVars
  <2> QED BY <2>1, <1>0 DEF TimersRun
<1>7. CASE Crashes
  <2>1. /\ UNCHANGED <<now, watched, due>> /\ ~serving' /\ polling' = {} /\ trouble' = trouble + 1
        /\ recent' = [s \in {"critical", "degraded"} |-> Never]
    BY <1>7 DEF Crashes, Trouble, WatchTypes
  <2> HIDE DEF Never
  <2> QED BY <2>1, <1>0 DEF TimersRun
<1>8. CASE Restarts
  <2>1. /\ UNCHANGED <<now, watched>> /\ serving' /\ \A w \in Loops : due'[w] = now + Interval(w)
    BY <1>8 DEF Restarts
  <2> QED BY <2>1, <1>0 DEF TimersRun
<1>9. CASE Clock
  <2>1. /\ UNCHANGED <<serving, watched, due, polling, recent>> /\ now' = now + 1
        /\ serving => \A w \in watched : due[w] > now
        /\ trouble' = trouble \/ trouble' = trouble + 1
    BY <1>9 DEF Clock, Works, Trouble, loopVars, healthVars
  <2> QED BY <2>1, <1>0 DEF TimersRun
<1> QED
  BY <1>3, <1>4, <1>5, <1>6, <1>7, <1>8, <1>9
  DEF WatchdogsNext, CheckSchedulerHealth, EmitOverdueAlerts, CheckOutputStaleness, EmitStaleAlerts, Sought

\* The steps of the two loops that post, and what they leave alone.
LEMMA LoopsAreTimely ==
  ASSUME WatchTypes, TimersRun, WatchTypes', WatchdogsNext,
         NEW w \in {"cron", "output"}, w \in watched, NEW base \in Int, NEW key,
         Timely(w, base, key), now - base > 0 => key \in Sought(w)
  PROVE  Timely(w, base, key)'
<1>0. due[w] \in Nat
  BY DEF WatchTypes, Loops
<1>1. CASE Poll(w, Sought(w))
  BY <1>1, PollIsTimely
<1>2. CASE Emit(w)
  BY <1>2, EmitIsTimely
<1>3. CASE \E v \in {"cron", "output"} \ {w} : Poll(v, Sought(v)) \/ Emit(v)
  <2>1. PICK v \in {"cron", "output"} \ {w} : Poll(v, Sought(v)) \/ Emit(v)
    BY <1>3
  <2>2. /\ trouble' \in {trouble, trouble + 1} /\ posted \subseteq posted' /\ UNCHANGED <<now, serving>>
        /\ due'[w] = due[w] /\ (w \in polling') = (w \in polling) /\ found'[w] = found[w]
    <3>1. CASE Poll(v, Sought(v))
      BY <3>1 DEF Poll, Tick, Works, Trouble, WatchTypes, outputVars
    <3>2. CASE Emit(v)
      BY <3>2 DEF Emit, Works, Trouble, WatchTypes
    <3> QED BY <2>1, <3>1, <3>2
  <2> QED BY <2>2, <1>0, OthersAreTimely
<1>4. CASE RunHealthCheck \/ RecordAndSendAlerts
  <2>1. /\ trouble' \in {trouble, trouble + 1} /\ posted' = posted /\ UNCHANGED <<now, serving>>
        /\ due'[w] = due[w] /\ (w \in polling') = (w \in polling) /\ found'[w] = found[w]
    BY <1>4 DEF RunHealthCheck, RecordAndSendAlerts, Notify, Tick, Works, Trouble, WatchTypes, outputVars
  <2> QED BY <2>1, <1>0, OthersAreTimely
<1>5. CASE Fires \/ LosesNext \/ WorldChanges
  <2>1. /\ trouble' \in {trouble, trouble + 1} /\ posted' = posted /\ UNCHANGED <<now, serving>>
        /\ due' = due /\ polling' = polling /\ found' = found
    BY <1>5 DEF Fires, LosesNext, WorldChanges, Trouble, loopVars, outputVars
  <2> QED BY <2>1, <1>0, OthersAreTimely
<1>6. CASE Crashes \/ Restarts \/ Clock
  BY <1>6, ProcessIsTimely
<1> QED
  BY <1>1, <1>2, <1>3, <1>4, <1>5, <1>6
  DEF WatchdogsNext, CheckSchedulerHealth, EmitOverdueAlerts, CheckOutputStaleness, EmitStaleAlerts, Sought

LEMMA WatchedStays == WatchdogsNext => watched' = watched
BY DEF WatchdogsNext, CheckSchedulerHealth, EmitOverdueAlerts, CheckOutputStaleness, EmitStaleAlerts,
       Poll, Emit, RunHealthCheck, RecordAndSendAlerts, Fires, LosesNext, WorldChanges, Crashes,
       Restarts, Clock

\* What was scheduled or produced just now is not overdue.
LEMMA FreshStep ==
  ASSUME WatchTypes', TimersRun', NEW w \in {"cron", "output"}, w \in watched',
         NEW base \in Int, base >= now', NEW key
  PROVE  Timely(w, base, key)'
<1>1. Interval(w) \in Nat /\ Interval(w) * trouble' \in Nat
  BY Products, FaultsAllow DEF WatchTypes, Loops
<1>2. now' \in Nat /\ due'[w] \in Nat /\ due'[w] <= now' + Interval(w) /\ serving' \in BOOLEAN
  BY DEF WatchTypes, TimersRun, Loops
<1> QED BY <1>1, <1>2 DEF Timely

LEMMA FiringsStep ==
  ASSUME WatchTypes, TimersRun, WatchTypes', TimersRun', FiringsAreTimely, WatchdogsNext
  PROVE  FiringsAreTimely'
<1>1. SUFFICES ASSUME "cron" \in watched', next' # NoNext, NEW n \in Int, n = next'
               PROVE  Timely("cron", n + Grace * Period, <<"cron", n>>)'
  BY DEF FiringsAreTimely, Timely, WatchTypes
<1>2. now \in Nat /\ next \in Int /\ n + Grace * Period \in Int /\ Grace * Period \in Nat
  BY Products DEF WatchTypes
<1>3. CASE next' = next
  <2>1. now - (n + Grace * Period) > 0 => <<"cron", n>> \in Sought("cron")
    BY <1>1, <1>2, <1>3 DEF Sought, OverdueCrons
  <2>2. Timely("cron", n + Grace * Period, <<"cron", n>>)
    BY <1>1, <1>3, WatchedStays DEF FiringsAreTimely
  <2> QED BY <2>1, <2>2, <1>1, <1>2, WatchedStays, LoopsAreTimely
<1>4. CASE next' # next
  <2>1. next' = NextFire /\ now' = now
    BY <1>1, <1>4
    DEF WatchdogsNext, CheckSchedulerHealth, EmitOverdueAlerts, CheckOutputStaleness, EmitStaleAlerts,
        Poll, Emit, RunHealthCheck, RecordAndSendAlerts, Fires, LosesNext, WorldChanges, Crashes,
        Restarts, Clock, cronVars
  <2>2. n + Grace * Period >= now'
    BY <2>1, <1>1, <1>2, NextFireIsAhead
  <2> QED BY <2>2, <1>1, <1>2, FreshStep
<1> QED BY <1>3, <1>4

LEMMA OutputsStep ==
  ASSUME WatchTypes, TimersRun, WatchTypes', TimersRun', OutputsAreTimely, WatchdogsNext
  PROVE  OutputsAreTimely'
<1>1. SUFFICES ASSUME "output" \in watched', produced' # Never, NEW n \in Int, n = produced'
               PROVE  Timely("output", n + MaxSilence, <<"output", n>>)'
  BY DEF OutputsAreTimely, Timely, WatchTypes
<1>2. now \in Nat /\ produced \in Int /\ n + MaxSilence \in Int /\ MaxSilence \in Nat
  BY Products DEF WatchTypes
<1>3. CASE produced' = produced
  <2>1. now - (n + MaxSilence) > 0 => <<"output", n>> \in Sought("output")
    BY <1>1, <1>2, <1>3 DEF Sought, StaleOutputs
  <2>2. Timely("output", n + MaxSilence, <<"output", n>>)
    BY <1>1, <1>3, WatchedStays DEF OutputsAreTimely
  <2> QED BY <2>1, <2>2, <1>1, <1>2, WatchedStays, LoopsAreTimely
<1>4. CASE produced' # produced
  <2>1. produced' = now /\ now' = now
    BY <1>1, <1>4
    DEF WatchdogsNext, CheckSchedulerHealth, EmitOverdueAlerts, CheckOutputStaleness, EmitStaleAlerts,
        Poll, Emit, RunHealthCheck, RecordAndSendAlerts, Fires, LosesNext, WorldChanges, Crashes,
        Restarts, Clock, outputVars
  <2> QED BY <2>1, <1>1, <1>2, FreshStep
<1> QED BY <1>3, <1>4

LEMMA LateStep ==
  ASSUME WatchTypes, TimersRun, WatchTypes', LateIsLate, WatchdogsNext
  PROVE  LateIsLate'
<1>0. now \in Nat /\ next \in Int /\ Grace * Period \in Nat /\ trouble \in Nat
  BY Products DEF WatchTypes
<1>1. SUFFICES ASSUME trouble' = 0 PROVE LateIsLate'
  BY DEF LateIsLate
<1>2. trouble = 0 /\ serving /\ serving'
  <2>1. trouble' \in {trouble, trouble + 1}
    BY DEF WatchdogsNext, CheckSchedulerHealth, EmitOverdueAlerts, CheckOutputStaleness, EmitStaleAlerts,
           Poll, Emit, RunHealthCheck, RecordAndSendAlerts, Notify, Fires, LosesNext, WorldChanges, Crashes,
           Restarts, Clock, Works, Trouble
  <2>2. trouble = 0
    BY <2>1, <1>0, <1>1
  <2>3. serving
    BY <2>2 DEF TimersRun, WatchTypes
  <2>4. ~Crashes
    BY <1>1, <2>2 DEF Crashes, Trouble
  <2>5. serving'
    BY <2>3, <2>4
    DEF WatchdogsNext, CheckSchedulerHealth, EmitOverdueAlerts, CheckOutputStaleness, EmitStaleAlerts,
        Poll, Emit, Tick, RunHealthCheck, RecordAndSendAlerts, Fires, LosesNext, WorldChanges,
        Restarts, Clock
  <2> QED BY <2>2, <2>3, <2>5
<1> DEFINE Late(k) == \/ k[2] = next /\ now - next > Grace * Period
                      \/ \E f \in fired : f[1] = k[2] /\ f[2] - f[1] > Grace * Period
<1>3. /\ next # NoNext /\ found["output"] \intersect ({"cron"} \X Int) = {}
      /\ \A k \in posted \union found["cron"] : k \in {"cron"} \X Int => Late(k)
  BY <1>2 DEF LateIsLate
<1>4. CASE /\ UNCHANGED <<next, fired>>
           /\ now' = now \/ now' = now + 1
           /\ posted' \union found'["cron"] \subseteq posted \union found["cron"] \union OverdueCrons
                                                  \union found["output"]
           /\ found'["output"] \subseteq found["output"] \union StaleOutputs
  <2>1. \A k \in OverdueCrons : k[2] = next /\ now - next > Grace * Period
    BY <1>3 DEF OverdueCrons
  <2>2. ASSUME NEW k \in posted' \union found'["cron"], k \in {"cron"} \X Int PROVE Late(k)
    <3>1. k \notin found["output"]
      BY <1>3, <2>2
    <3> QED BY <1>3, <1>4, <2>1, <2>2, <3>1
  <2>3. ASSUME NEW k, Late(k)
        PROVE  \/ k[2] = next /\ now' - next > Grace * Period
               \/ \E f \in fired : f[1] = k[2] /\ f[2] - f[1] > Grace * Period
    BY <1>0, <1>4, <2>3
  <2> HIDE DEF Late
  <2>4. ASSUME NEW k \in posted' \union found'["cron"], k \in {"cron"} \X Int
        PROVE  \/ k[2] = next' /\ now' - next' > Grace * Period
               \/ \E f \in fired' : f[1] = k[2] /\ f[2] - f[1] > Grace * Period
    <3>1. Late(k)
      BY <2>2, <2>4
    <3> QED BY <3>1, <2>3, <1>4
  <2>5. next' # NoNext
    BY <1>3, <1>4
  <2>6. found'["output"] \intersect ({"cron"} \X Int) = {}
    BY <1>3, <1>4, SoughtIs
  <2> QED BY <2>4, <2>5, <2>6 DEF LateIsLate
<1>5. CASE CheckSchedulerHealth
  <2>1. /\ found'["cron"] = found["cron"] \/ found'["cron"] = OverdueCrons
        /\ found'["output"] = found["output"]
    BY <1>5 DEF CheckSchedulerHealth, Poll, WatchTypes, Loops
  <2> QED BY <2>1, <1>4, <1>5 DEF CheckSchedulerHealth, Poll, cronVars, outputVars
<1>6. CASE CheckOutputStaleness
  <2>1. /\ found'["cron"] = found["cron"]
        /\ found'["output"] = found["output"] \/ found'["output"] = StaleOutputs
    BY <1>6 DEF CheckOutputStaleness, Poll, WatchTypes, Loops
  <2> QED BY <2>1, <1>4, <1>6 DEF CheckOutputStaleness, Poll, cronVars, outputVars
<1>7. CASE EmitOverdueAlerts
  <2>1. found'["cron"] = {} /\ found'["output"] = found["output"] /\ posted' \subseteq posted \union found["cron"]
    BY <1>7 DEF EmitOverdueAlerts, Emit, WatchTypes, Loops
  <2> QED BY <2>1, <1>4, <1>7 DEF EmitOverdueAlerts, Emit, cronVars
<1>8. CASE EmitStaleAlerts
  <2>1. found'["cron"] = found["cron"] /\ found'["output"] = {} /\ posted' \subseteq posted \union found["output"]
    BY <1>8 DEF EmitStaleAlerts, Emit, WatchTypes, Loops
  <2> QED BY <2>1, <1>4, <1>8 DEF EmitStaleAlerts, Emit, cronVars
<1>9. CASE RunHealthCheck \/ RecordAndSendAlerts
  <2>1. found'["cron"] = found["cron"] /\ found'["output"] = found["output"]
    BY <1>9 DEF RunHealthCheck, RecordAndSendAlerts, WatchTypes, Loops
  <2> QED BY <2>1, <1>4, <1>9 DEF RunHealthCheck, RecordAndSendAlerts, cronVars, outputVars
<1>10. CASE WorldChanges \/ Clock
  BY <1>4, <1>10 DEF WorldChanges, Clock, loopVars, cronVars, outputVars
<1>11. CASE Fires
  <2>1. /\ fired' = fired \union {<<next, now>>} /\ next' = NextFire /\ posted' = posted /\ found' = found
    BY <1>11 DEF Fires, loopVars
  <2>2. next' # NoNext
    BY <2>1, <1>0, NextFireIsAhead DEF NoNext
  <2>3. ASSUME NEW k \in posted' \union found'["cron"], k \in {"cron"} \X Int
        PROVE  \E f \in fired' : f[1] = k[2] /\ f[2] - f[1] > Grace * Period
    <3>1. Late(k)
      BY <1>3, <2>1, <2>3
    <3>2. CASE k[2] = next /\ now - next > Grace * Period
      <4> DEFINE f == <<next, now>>
      <4>1. f \in fired' /\ f[1] = k[2] /\ f[2] - f[1] > Grace * Period
        BY <2>1, <3>2
      <4> QED BY <4>1
    <3>3. CASE \E f \in fired : f[1] = k[2] /\ f[2] - f[1] > Grace * Period
      BY <2>1, <3>3
    <3> QED BY <3>1, <3>2, <3>3
  <2>4. found'["output"] \intersect ({"cron"} \X Int) = {}
    BY <1>3, <2>1
  <2> QED BY <2>2, <2>3, <2>4 DEF LateIsLate
<1>12. CASE LosesNext \/ Crashes \/ Restarts
  BY <1>0, <1>1, <1>2, <1>12 DEF LosesNext, Crashes, Restarts, Trouble
<1> QED
  BY <1>5, <1>6, <1>7, <1>8, <1>9, <1>10, <1>11, <1>12 DEF WatchdogsNext

LEMMA StatusStays == UNCHANGED world => Status' = Status
BY DEF Status, Alerts, SuccessRate, ConsecutiveFailures, StaleSkills, ApiCredit, Redis, SpendBudget,
       SystemResources, Failed

\* When the monitor looks, in the terms of its variables.
LEMMA LooksAhead ==
  ASSUME WatchTypes, TimersRun, "health" \in watched, NEW s \in {"critical", "degraded"}
  PROVE  /\ now \in Nat /\ due["health"] \in Nat /\ recent[s] \in Int /\ recent[s] <= now
         /\ NextLook(s) \in Int /\ now <= NextLook(s) /\ NextLook(s) <= now + 1
         /\ MayTell(s) \in Int /\ DedupeWindow(s) \in Nat /\ DedupeWindow(s) > 0
<1>1. now \in Nat /\ due["health"] \in Nat /\ recent[s] \in Int /\ recent[s] <= now
  BY DEF WatchTypes, Loops
<1>2. due["health"] <= now + 1 /\ (serving => now <= due["health"])
  BY DEF TimersRun, Interval
<1>3. DedupeWindow(s) \in Nat /\ DedupeWindow(s) > 0
  BY Products DEF Statuses
<1>4. NextLook(s) \in Int /\ now <= NextLook(s) /\ NextLook(s) <= now + 1
  BY <1>1, <1>2 DEF NextLook
<1> QED BY <1>1, <1>3, <1>4 DEF MayTell

\* A step within one spell of an illness that nobody was told of.
LEMMA LooksStep ==
  ASSUME WatchTypes, TimersRun, IllnessIsTimely, WatchdogsNext, WatchTypes', TimersRun',
         "health" \in watched, NEW s \in {"critical", "degraded"}, s = Status,
         world.postgres, told'[s] < sick,
         NEW l \in Int, NextLook(s) <= l, MayTell(s) <= l,
         NEW m \in Int, trouble' = trouble => m = l,
         trouble' = trouble + 1 => m = l + 1 + DedupeWindow(s)
  PROVE  NextLook(s)' <= m /\ MayTell(s)' <= m
<1>0. /\ now \in Nat /\ due["health"] \in Nat /\ recent[s] \in Int /\ recent[s] <= now
      /\ NextLook(s) \in Int /\ now <= NextLook(s) /\ NextLook(s) <= now + 1
      /\ MayTell(s) \in Int /\ DedupeWindow(s) \in Nat /\ DedupeWindow(s) > 0
  BY LooksAhead
<1>1. due["health"] <= now + 1 /\ (serving => now <= due["health"])
  BY DEF TimersRun, Interval
<1>2. trouble \in Nat /\ sick \in Nat /\ sick <= now
  BY DEF WatchTypes
<1> HIDE DEF Never
<1>3. CASE /\ UNCHANGED <<now, serving, recent>> /\ trouble' \in {trouble, trouble + 1}
           /\ due'["health"] = due["health"]
           /\ ("health" \in polling') = ("health" \in polling) /\ found'["health"] = found["health"]
  <2>1. NextLook(s)' = NextLook(s) /\ MayTell(s)' = MayTell(s)
    BY <1>3 DEF NextLook, MayTell, DedupeWindow
  <2> QED BY <2>1, <1>0, <1>2, <1>3
<1>4. CASE \E w \in {"cron", "output"} : Poll(w, Sought(w)) \/ Emit(w)
  <2>1. PICK w \in {"cron", "output"} : Poll(w, Sought(w)) \/ Emit(w)
    BY <1>4
  <2>2. CASE Poll(w, Sought(w))
    BY <2>2, <1>3 DEF Poll, Tick, Works, Trouble, WatchTypes, healthVars
  <2>3. CASE Emit(w)
    BY <2>3, <1>3 DEF Emit, Works, Trouble, WatchTypes, healthVars
  <2> QED BY <2>1, <2>2, <2>3
<1>5. CASE Fires \/ LosesNext \/ WorldChanges
  BY <1>3, <1>5 DEF Fires, LosesNext, WorldChanges, Trouble, loopVars, healthVars
<1>6. CASE RunHealthCheck
  <2>1. /\ serving /\ serving' = serving /\ now' = now /\ recent' = recent
        /\ due'["health"] = now + 1
    BY <1>6 DEF RunHealthCheck, Tick, Interval, healthVars, WatchTypes, Loops
  <2>2. CASE Works /\ found' = [found EXCEPT !["health"] = {Status}] /\ polling' = polling \union {"health"}
    <3>1. s \in found'["health"]
      BY <2>2 DEF WatchTypes, Loops
    <3>2. NextLook(s)' = now /\ m = l
      BY <2>1, <2>2, <3>1 DEF NextLook, Works
    <3> QED BY <3>2, <2>1, <1>0 DEF MayTell, DedupeWindow
  <2>3. CASE trouble' = trouble + 1 /\ UNCHANGED <<polling, found>>
    <3>1. NextLook(s)' <= now + 1 /\ NextLook(s)' \in Int
      BY <2>1, <2>3, <1>0 DEF NextLook
    <3>2. MayTell(s)' = IF recent[s] = Never THEN NextLook(s)' ELSE MayTell(s)
      BY <2>1 DEF MayTell, DedupeWindow
    <3> QED BY <3>1, <3>2, <2>3, <1>0
  <2> QED BY <1>6, <2>2, <2>3 DEF RunHealthCheck, Trouble
<1>7. CASE RecordAndSendAlerts
  <2>1. /\ serving /\ serving' = serving /\ now' = now /\ "health" \in polling /\ "health" \notin polling'
        /\ due' = due
    BY <1>7 DEF RecordAndSendAlerts, WatchTypes
  <2>2. NextLook(s)' = due["health"]
    BY <2>1 DEF NextLook
  <2>3. CASE trouble' = trouble + 1 /\ UNCHANGED <<recent, told>>
    <3>1. MayTell(s)' = IF recent[s] = Never THEN NextLook(s)' ELSE MayTell(s)
      BY <2>3 DEF MayTell, DedupeWindow
    <3> QED BY <3>1, <2>2, <2>3, <1>0, <1>1
  <2>4. CASE s \in found["health"] /\ Notify(s)
    <3>1. CASE IsDuplicate(s)
      <4>1. UNCHANGED <<recent, trouble>> /\ recent[s] # Never /\ now + 1 <= recent[s] + DedupeWindow(s)
        BY <1>0, <2>4, <3>1 DEF Notify, IsDuplicate
      <4>2. MayTell(s)' = MayTell(s) /\ now + 1 <= MayTell(s)
        BY <4>1, <1>0 DEF MayTell, DedupeWindow
      <4> QED BY <4>1, <4>2, <2>2, <1>0, <1>1
    <3>2. CASE ~IsDuplicate(s)
      <4>1. recent' = [recent EXCEPT ![s] = now] /\ ((Works /\ told' = [told EXCEPT ![s] = now]) \/ Trouble)
        BY <2>4, <3>2 DEF Notify
      <4>2. recent'[s] = now
        BY <4>1 DEF WatchTypes
      <4>3. trouble' = trouble + 1
        <5>1. told' # [told EXCEPT ![s] = now]
          BY <1>0, <1>2 DEF WatchTypes
        <5> QED BY <4>1, <5>1 DEF Trouble
      <4>4. MayTell(s)' <= now + DedupeWindow(s) \/ MayTell(s)' = NextLook(s)'
        BY <4>2, <1>0 DEF MayTell, DedupeWindow
      <4>5. MayTell(s)' \in Int
        BY <4>2, <2>2, <1>0 DEF MayTell, DedupeWindow
      <4> QED BY <4>3, <4>4, <4>5, <2>2, <1>0, <1>1
    <3> QED BY <3>1, <3>2
  <2>5. CASE s \notin found["health"] /\ \E x \in found["health"] : Notify(x)
    <3>1. recent'[s] = recent[s] /\ trouble' \in {trouble, trouble + 1}
      BY <2>5 DEF Notify, Works, Trouble, WatchTypes
    <3>2. NextLook(s) = due["health"]
      BY <2>1, <2>5 DEF NextLook
    <3>3. MayTell(s)' = MayTell(s)
      BY <3>1, <3>2, <2>2 DEF MayTell, DedupeWindow
    <3> QED BY <3>1, <3>2, <3>3, <2>2, <1>0, <1>2
  <2>6. \/ trouble' = trouble + 1 /\ UNCHANGED <<recent, told>>
        \/ \E x \in found["health"] : Notify(x)
    BY <1>7 DEF RecordAndSendAlerts, Trouble
  <2>7. s \in found["health"] => found["health"] = {s}
    BY <2>1 DEF IllnessIsTimely
  <2> QED BY <2>3, <2>4, <2>5, <2>6, <2>7
<1>8. CASE Crashes
  <2>1. ~serving' /\ now' = now /\ trouble' = trouble + 1 /\ recent'[s] = Never
    BY <1>8 DEF Crashes, Trouble, WatchTypes
  <2>2. NextLook(s)' = now + 1 /\ MayTell(s)' = now + 1
    BY <2>1 DEF NextLook, MayTell
  <2> QED BY <2>1, <2>2, <1>0
<1>9. CASE Restarts
  <2>1. /\ ~serving /\ serving' /\ now' = now /\ trouble' = trouble /\ recent' = recent
        /\ due'["health"] = now + 1 /\ polling' = polling
    BY <1>9 DEF Restarts, healthVars, Interval, Loops
  <2>2. polling = {} /\ recent[s] = Never
    BY <2>1 DEF TimersRun
  <2>3. NextLook(s)' = NextLook(s) /\ MayTell(s)' = NextLook(s)
    BY <2>1, <2>2 DEF NextLook, MayTell
  <2> QED BY <2>1, <2>3, <1>0
<1>10. CASE Clock
  <2>1. /\ now' = now + 1 /\ UNCHANGED <<serving, polling, found, due, recent>>
        /\ serving => due["health"] > now
    BY <1>10 DEF Clock, loopVars, healthVars
  <2>2. CASE serving /\ polling = {} /\ trouble' = trouble
    <3>1. NextLook(s)' = NextLook(s) /\ MayTell(s)' = MayTell(s)
      BY <2>1, <2>2 DEF NextLook, MayTell, DedupeWindow
    <3> QED BY <3>1, <2>2, <1>0
  <2>3. CASE trouble' = trouble + 1
    <3>1. NextLook(s)' <= NextLook(s) + 1 /\ NextLook(s)' \in Int
      BY <2>1, <1>0 DEF NextLook
    <3>2. MayTell(s)' = IF recent[s] = Never THEN NextLook(s)' ELSE MayTell(s)
      BY <2>1 DEF MayTell, DedupeWindow
    <3> QED BY <3>1, <3>2, <2>3, <1>0
  <2> QED BY <1>10, <2>2, <2>3 DEF Clock, Works, Trouble
<1> QED
  BY <1>4, <1>5, <1>6, <1>7, <1>8, <1>9, <1>10
  DEF WatchdogsNext, CheckSchedulerHealth, EmitOverdueAlerts, CheckOutputStaleness, EmitStaleAlerts, Sought

\* What a poll has found is one status.
LEMMA FoundIsOne ==
  ASSUME WatchTypes, IllnessIsTimely, WatchdogsNext, "health" \in polling'
  PROVE  \E s \in Statuses : found'["health"] = {s}
<1>1. CASE RunHealthCheck
  <2>1. CASE found' = [found EXCEPT !["health"] = {Status}]
    BY <2>1, StatusIs DEF WatchTypes, Loops
  <2>2. CASE UNCHANGED <<polling, found>>
    BY <2>2 DEF IllnessIsTimely
  <2> QED BY <1>1, <2>1, <2>2 DEF RunHealthCheck
<1>2. CASE ~RunHealthCheck
  <2>1. "health" \in polling /\ found'["health"] = found["health"]
    BY <1>2
    DEF WatchdogsNext, CheckSchedulerHealth, EmitOverdueAlerts, CheckOutputStaleness, EmitStaleAlerts,
        Poll, Emit, RecordAndSendAlerts, Fires, LosesNext, WorldChanges, Crashes,
        Restarts, Clock, loopVars, WatchTypes, Loops
  <2> QED BY <2>1 DEF IllnessIsTimely
<1> QED BY <1>1, <1>2

LEMMA IllnessStep ==
  ASSUME WatchTypes, TimersRun, WatchTypes', TimersRun', IllnessIsTimely, WatchdogsNext
  PROVE  IllnessIsTimely'
<1>1. "health" \in polling' => \E s \in Statuses : found'["health"] = {s}
  BY FoundIsOne
<1> DEFINE latest(s) == sick + (1 + DedupeWindow(s)) * (1 + trouble)
<1>2. ASSUME NEW s \in {"critical", "degraded"}, s = Status', "health" \in watched', world'.postgres,
             told'[s] < sick'
      PROVE  NextLook(s)' <= latest(s)' /\ MayTell(s)' <= latest(s)'
  <2> DEFINE w == 1 + DedupeWindow(s)
  <2>0. /\ w \in Nat /\ now \in Nat /\ sick \in Nat /\ trouble \in Nat /\ "health" \in watched
        /\ recent[s] \in Int /\ recent[s] <= now /\ NextLook(s) \in Int /\ NextLook(s) <= now + 1
        /\ MayTell(s) \in Int /\ DedupeWindow(s) \in Nat /\ DedupeWindow(s) > 0
    BY <1>2, WatchedStays, LooksAhead DEF WatchTypes
  <2>1. /\ w * (1 + trouble) \in Nat /\ w * trouble \in Nat
        /\ w * (1 + (trouble + 1)) = w * (1 + trouble) + w
        /\ w * (1 + trouble) = w + w * trouble
    BY <2>0, FaultsAllow
  <2>2. latest(s)' = sick' + w * (1 + trouble')
    BY DEF DedupeWindow
  <2>3. CASE sick' = now /\ WorldChanges
    <3>1. UNCHANGED <<now, serving, polling, found, due, recent, trouble>>
      BY <2>3 DEF WorldChanges, loopVars
    <3>2. NextLook(s)' = NextLook(s) /\ MayTell(s)' = MayTell(s)
      BY <3>1 DEF NextLook, MayTell, DedupeWindow
    <3>3. latest(s)' >= now + w
      <4>1. latest(s)' = now + (w + w * trouble)
        BY <2>1, <2>2, <2>3, <3>1
      <4> HIDE DEF latest, w
      <4> QED BY <4>1, <2>0, <2>1
    <3>4. latest(s)' \in Int
      BY <2>0, <2>1, <2>2, <2>3, <3>1
    <3>5. MayTell(s) <= now + w
      BY <2>0 DEF MayTell
    <3> HIDE DEF latest
    <3> QED BY <2>0, <3>2, <3>3, <3>4, <3>5
  <2>4. CASE sick' = sick /\ Status' = Status /\ world'.postgres = world.postgres
    <3>1. told'[s] < sick /\ world.postgres /\ s = Status
      BY <1>2, <2>4
    <3>2. told[s] < sick
      <4>1. told'[s] = told[s] \/ told'[s] = now
        BY DEF WatchdogsNext, CheckSchedulerHealth, EmitOverdueAlerts, CheckOutputStaleness, EmitStaleAlerts,
               Poll, Emit, RunHealthCheck, RecordAndSendAlerts, Notify, Fires, LosesNext, WorldChanges,
               Crashes, Restarts, Clock, healthVars, WatchTypes
      <4> QED BY <3>1, <4>1, <2>0 DEF WatchTypes
    <3>3. NextLook(s) <= latest(s) /\ MayTell(s) <= latest(s)
      BY <2>0, <3>1, <3>2 DEF IllnessIsTimely
    <3>4. latest(s) \in Int /\ latest(s)' \in Int
      <4>1. w * (1 + trouble') \in Int
        BY <2>0 DEF WatchTypes
      <4> QED BY <2>0, <2>1, <2>2, <2>4, <4>1
    <3>5. /\ trouble' = trouble => latest(s)' = latest(s)
          /\ trouble' = trouble + 1 => latest(s)' = latest(s) + 1 + DedupeWindow(s)
      BY <2>0, <2>1, <2>2, <2>4
    <3> HIDE DEF latest
    <3>6. ASSUME NEW l \in Int, l = latest(s), NEW m \in Int, m = latest(s)'
          PROVE  NextLook(s)' <= m /\ MayTell(s)' <= m
      BY <2>0, <3>1, <3>3, <3>5, <3>6, LooksStep
    <3> QED BY <3>4, <3>6
  <2>5. \/ sick' = now /\ WorldChanges
        \/ sick' = sick /\ Status' = Status /\ world'.postgres = world.postgres
    <3>1. CASE WorldChanges
      BY <3>1 DEF WorldChanges
    <3>2. CASE ~WorldChanges
      <4>1. UNCHANGED <<world, sick>>
        BY <3>2
        DEF WatchdogsNext, CheckSchedulerHealth, EmitOverdueAlerts, CheckOutputStaleness, EmitStaleAlerts,
            Poll, Emit, RunHealthCheck, RecordAndSendAlerts, Fires, LosesNext,
            Crashes, Restarts, Clock, healthVars
      <4> QED BY <4>1, StatusStays
    <3> QED BY <3>1, <3>2
  <2> QED BY <2>3, <2>4, <2>5
<1>3. Status' \in Statuses
  BY DEF Status, Statuses
<1> QED BY <1>1, <1>2, <1>3 DEF IllnessIsTimely, Statuses, NextLook, MayTell, DedupeWindow

LEMMA WatchStep == WatchTypes /\ WatchInv /\ WatchdogsNext => WatchTypes' /\ WatchInv'
<1> SUFFICES ASSUME WatchTypes, WatchInv, WatchdogsNext PROVE WatchTypes' /\ WatchInv'
  OBVIOUS
<1>1. WatchTypes' /\ TimersRun'
  BY WatchTypesStep, TimersStep DEF WatchInv
<1>2. FiringsAreTimely'
  BY <1>1, FiringsStep DEF WatchInv
<1>3. OutputsAreTimely'
  BY <1>1, OutputsStep DEF WatchInv
<1>4. LateIsLate'
  BY <1>1, LateStep DEF WatchInv
<1>5. IllnessIsTimely'
  BY <1>1, IllnessStep DEF WatchInv
<1> QED BY <1>1, <1>2, <1>3, <1>4, <1>5 DEF WatchInv

LEMMA WatchInvSuffices == WatchTypes /\ WatchInv => TroubleIsReported
<1> SUFFICES ASSUME WatchTypes, WatchInv PROVE TroubleIsReported
  OBVIOUS
<1>0. now \in Nat /\ next \in Int /\ produced \in Int /\ trouble \in Nat /\ Grace * Period \in Nat /\ MaxSilence \in Nat
  BY Products DEF WatchTypes
<1>1. ASSUME "cron" \in watched, next # NoNext, now - next > Grace * Period + 1 + trouble
      PROVE  <<"cron", next>> \in posted
  <2>1. Timely("cron", next + Grace * Period, <<"cron", next>>)
    BY <1>1 DEF WatchInv, FiringsAreTimely
  <2>2. Interval("cron") = 1 /\ 1 * trouble = trouble
    BY <1>0 DEF Interval
  <2>3. now - (next + Grace * Period) > Interval("cron") + Interval("cron") * trouble
    BY <1>0, <1>1, <2>2
  <2> QED BY <1>0, <1>1, <2>1, <2>3, TimelySuffices DEF WatchInv
<1>2. ASSUME "output" \in watched, produced # Never,
             now - produced > MaxSilence + OutputInterval * (1 + trouble)
      PROVE  <<"output", produced>> \in posted
  <2>1. Timely("output", produced + MaxSilence, <<"output", produced>>)
    BY <1>2 DEF WatchInv, OutputsAreTimely
  <2>2. /\ Interval("output") = OutputInterval /\ OutputInterval \in Nat /\ OutputInterval * trouble \in Nat
        /\ OutputInterval * (1 + trouble) = OutputInterval + OutputInterval * trouble
    BY <1>0, WatchdogsAssumption, FaultsAllow DEF Interval
  <2>3. now - (produced + MaxSilence) > Interval("output") + Interval("output") * trouble
    BY <1>0, <1>2, <2>2
  <2> QED BY <1>0, <1>2, <2>1, <2>3, TimelySuffices DEF WatchInv
<1>3. ASSUME NEW s, s = Status, s # "healthy", "health" \in watched, world.postgres,
             now - sick > (1 + DedupeWindow(s)) * (1 + trouble)
      PROVE  told[s] >= sick
  <2>1. s \in {"critical", "degraded"}
    BY <1>3, StatusIs DEF Statuses
  <2>2. now <= NextLook(s) /\ NextLook(s) \in Int /\ told[s] \in Int /\ sick \in Nat
        /\ (1 + DedupeWindow(s)) * (1 + trouble) \in Int
    BY <1>0, <1>3, <2>1, LooksAhead DEF WatchInv, WatchTypes
  <2>3. told[s] < sick => NextLook(s) <= sick + (1 + DedupeWindow(s)) * (1 + trouble)
    BY <1>3 DEF WatchInv, IllnessIsTimely
  <2> QED BY <1>0, <1>3, <2>2, <2>3
<1>4. ASSUME NEW k \in posted, k[1] = "cron", trouble = 0
      PROVE  k[2] = next \/ \E f \in fired : f[1] = k[2] /\ f[2] - f[1] > Grace * Period
  <2>1. k \in {"cron"} \X Int
    BY <1>4 DEF WatchTypes
  <2> QED BY <1>4, <2>1 DEF WatchInv, LateIsLate
<1> QED BY <1>1, <1>2, <1>3, <1>4 DEF TroubleIsReported

-----------------------------------------------------------------------------
(* The run *)

\* Whatever else happens on the machine, and however often migrations and
\* init are started, killed and started again: marks tell what was executed,
\* in order, and credentials stay (migrations.ts, init.ts).
THEOREM InstallationSound == Spec => []InstallationIsSound
<1> DEFINE Inv == MigrationInv /\ InstallInv
<1>1. Init => Inv
  BY MigrationStart, InstallStart DEF Init
<1>2. Inv /\ [Next]_vars => Inv'
  <2> SUFFICES ASSUME Inv, [Next]_vars PROVE Inv'
    OBVIOUS
  <2>1. UNCHANGED migrationVars => MigrationInv'
    BY DEF migrationVars, MigrationInv, MigrationTypes, MigrationsAreExecuted, Upward
  <2>2. UNCHANGED installVars => InstallInv'
    BY DEF installVars, credentials, InstallInv, InstallTypes, EnvInv, CommandInv, KeyInv
  <2>3. \/ MigrationsNext /\ UNCHANGED installVars
        \/ InstallNext /\ UNCHANGED migrationVars
        \/ UNCHANGED <<migrationVars, installVars>>
    BY DEF Next, OfUpgrade, OfMigrate, OfInstall, OfSchedules, OfLibrary, OfProcesses,
           OfWatchdogs, vars, commandVars
  <2>4. MigrationsNext => MigrationInv'
    BY MigrationStep DEF MigrationsNext
  <2> QED BY <2>1, <2>2, <2>3, <2>4, InstallStep
<1>3. Inv => InstallationIsSound
  BY InstallInvSuffices DEF MigrationInv, InstallationIsSound
<1> QED BY <1>1, <1>2, <1>3, PTL DEF Spec

\* One process works for the workspace at a time, and what a shutdown sweeps
\* away or a boot reconciles is never a run at work (worker.ts, bullmq/worker.ts).
THEOREM WorkersSound == Spec => []OnlyOneWorks
<1>1. Init => WorkerInv
  BY WorkerStart DEF Init
<1>2. WorkerInv /\ [Next]_vars => WorkerInv'
  <2>1. UNCHANGED processesVars /\ WorkerInv => WorkerInv'
    BY DEF processesVars, processVars, workVars, beatVars, hostVars, WorkerInv, ProcessTypes, PortHeld
  <2>2. [Next]_vars => WorkerNext \/ UNCHANGED processesVars
    BY DEF Next, OfUpgrade, OfMigrate, OfInstall, OfSchedules, OfLibrary, OfProcesses,
           OfWatchdogs, vars, runningVars
  <2> QED BY <2>1, <2>2, ProcessStep
<1> QED BY <1>1, <1>2, WorkerInvSuffices, PTL DEF Spec

\* A release whose conformance gate fails is left for the commit the upgrade
\* came from, hotfixes of the box are kept, and between commands the schema
\* has what the worker's code expects (upgrade.ts), for any releases,
\* hotfixes, commands and faults.
THEOREM UpgradesStayReversible == Spec => []ReleasesAreReversible
<1>1. Init => UpgradeTypes /\ UpgradeInv
  BY UpgradeInitially DEF Init
<1>2. UpgradeTypes /\ UpgradeInv /\ [Next]_vars => UpgradeTypes' /\ UpgradeInv'
  <2>1. [Next]_vars => UpgradeNext \/ UNCHANGED upgradeVars
    BY DEF Next, OfUpgrade, OfMigrate, OfInstall, OfSchedules, OfLibrary, OfProcesses,
           OfWatchdogs, vars, commandVars
  <2>2. UNCHANGED upgradeVars => UNCHANGED <<head, attached, tip, prev, dist, running, schema,
                                             patches, made, letGo, cli, commands, faults, cutShort>>
    BY DEF upgradeVars, source, site, fixed, budget
  <2>3. UpgradeTypes /\ UpgradeInv /\ UNCHANGED upgradeVars => UpgradeTypes' /\ UpgradeInv'
    BY <2>2 DEF UpgradeTypes, UpgradeInv, StepsFollow, WayBackIsKnown, RejectedReleaseIsLeft,
                LossIsAgreed, LocalWorkIsKept, SchemaFollows, Fits, Migrating, Upgrades, Returning
  <2> QED BY <2>1, <2>3, UpgradeStep
<1> QED BY <1>1, <1>2, UpgradeInvSuffices, PTL DEF Spec

\* A schedule that was registered, and one that was healed, is what the manifest
\* says, and the library keeps each content once and in order (register-skill.ts,
\* worker.ts, library.ts, propagate.ts, skill-versions.ts), for any skills,
\* names that begin alike, processes, operators and failures.
THEOREM SkillsStayManaged == Spec => []SkillsAreManaged
<1> DEFINE Inv == ScheduleTypes /\ ScheduleInv /\ LibraryTypes /\ LibraryInv
<1>1. Init => Inv
  BY SchedulesStart, LibraryStart DEF Init
<1>2. Inv /\ [Next]_vars => Inv'
  <2>1. [Next]_vars => \/ SchedulesNext /\ UNCHANGED libraryVars
                       \/ LibraryNext /\ UNCHANGED scheduleVars
                       \/ UNCHANGED <<scheduleVars, libraryVars>>
    BY DEF Next, OfUpgrade, OfMigrate, OfInstall, OfSchedules, OfLibrary, OfProcesses,
           OfWatchdogs, vars, commandVars
  <2>2. ScheduleTypes /\ ScheduleInv /\ UNCHANGED scheduleVars => ScheduleTypes' /\ ScheduleInv'
    BY DEF scheduleVars, ScheduleTypes, ScheduleInv, OneProcess, AtRest, BootProgress,
           Registrations, Registered, OwnKeys, SchedulesFollowManifests
  <2>3. LibraryTypes /\ LibraryInv /\ UNCHANGED libraryVars => LibraryTypes' /\ LibraryInv'
    <3> SUFFICES ASSUME LibraryTypes, LibraryInv, UNCHANGED libraryVars
                 PROVE  LibraryTypes' /\ LibraryInv'
      OBVIOUS
    <3>1. UNCHANGED <<shelf, canonical, proposals, pin, disk, client, crossed, landed>>
      BY DEF libraryVars
    <3>2. LibraryTypes' /\ OneCommand' /\ LookedUp'
      BY <3>1 DEF LibraryTypes, LibraryInv, OneCommand, LookedUp
    <3>3. (Resolved # Nothing /\ pin # 0 => Version(Resolved) = pin)'
      BY <3>2, PinnedIsResolved, PTL
    <3> QED BY <3>1, <3>2, <3>3 DEF LibraryInv, LibraryIsOrderly
  <2> QED BY <2>1, <2>2, <2>3, SchedulesStep, LibraryStep
<1>3. Inv => SkillsAreManaged
  BY DEF SkillsAreManaged, ScheduleInv, LibraryInv
<1> QED BY <1>1, <1>2, <1>3, PTL DEF Spec

\* A firing that was missed, an output that is silent and a workspace that
\* stays ill are told in time, and no firing is told that was not late
\* (scheduler-watchdog.ts, output-staleness-watchdog.ts, health-monitor.ts,
\* notifications.ts), for any periods, intervals and windows, and any number
\* of faults.
THEOREM TroubleStaysReported == Spec => []TroubleIsReported
<1> DEFINE Inv == WatchTypes /\ WatchInv
<1>1. Init => Inv
  BY WatchStart DEF Init
<1>2. Inv /\ [Next]_vars => Inv'
  <2>1. [Next]_vars => WatchdogsNext \/ UNCHANGED watchVars
    BY DEF Next, OfUpgrade, OfMigrate, OfInstall, OfSchedules, OfLibrary, OfProcesses,
           OfWatchdogs, vars, runningVars
  <2>2. UNCHANGED watchVars /\ Inv => Inv'
    <3> SUFFICES ASSUME UNCHANGED watchVars, Inv PROVE Inv'
      OBVIOUS
    <3>1. /\ UNCHANGED <<now, serving, watched, due, polling, found, next, fired, produced, posted>>
          /\ UNCHANGED <<world, recent, told, sick, trouble>>
      BY DEF watchVars, loopVars, cronVars, outputVars, healthVars
    <3>2. Status' = Status
      BY <3>1, StatusStays
    <3>3. WatchTypes' /\ TimersRun'
      BY <3>1 DEF WatchTypes, WatchInv, TimersRun
    <3>4. FiringsAreTimely' /\ OutputsAreTimely' /\ LateIsLate'
      BY <3>1 DEF WatchInv, FiringsAreTimely, OutputsAreTimely, Timely, LateIsLate
    <3>5. IllnessIsTimely'
      BY <3>1, <3>2 DEF WatchInv, IllnessIsTimely, NextLook, MayTell, DedupeWindow
    <3> QED BY <3>3, <3>4, <3>5 DEF WatchInv
  <2> QED BY <2>1, <2>2, WatchStep
<1> QED BY <1>1, <1>2, WatchInvSuffices, PTL DEF Spec
=============================================================================
