------------------------------ MODULE Install ------------------------------
(***************************************************************************)
(* `nexaas init` (cli/src/init.ts), which may be run again over an         *)
(* existing installation and may die between any two steps.  It creates    *)
(* credentials that others hold from then on: the password of the database *)
(* role, the bearer token of the worker's API, the fleet token, the        *)
(* operator's key. A credential is a number; 0 stands for none.            *)
(***************************************************************************)
EXTENDS Integers, Sequences

CONSTANTS
  MaxInits,       \* bound on runs of init
  MaxInitFaults   \* bound on killed runs, failed statements and unreachable services

ASSUME InstallAssumption == MaxInits \in Nat /\ MaxInitFaults \in Nat

VARIABLES
  role,           \* the password of the database role
  envFile,        \* the .env: [db, bearer, fleet], fleet the tokens in their order, or NoEnv
  keyFile,        \* the operator's key: [private, public]
  keyRows,        \* operator_keys
  workerEnv,      \* the .env the running worker has read, or NoEnv
  init,           \* the command: its next step and the values it holds
  inits, initFaults,
  minted,         \* how many credentials were ever generated
  bearers         \* history: bearer tokens that were ever in the .env

credentials == <<role, envFile, keyFile, keyRows>>
installVars == <<credentials, workerEnv, init, inits, initFaults, minted, bearers>>

NoEnv == [db |-> 0, bearer |-> 0, fleet |-> <<>>]
Idle == [step |-> "idle", db |-> 0]

InstallInit ==
  /\ role = 0 /\ envFile = NoEnv /\ keyFile = [private |-> 0, public |-> 0] /\ keyRows = <<>>
  /\ workerEnv = NoEnv /\ init = Idle /\ inits = 0 /\ initFaults = 0
  /\ minted = 0 /\ bearers = {}

Step(here, next) == init.step = here /\ init' = [init EXCEPT !.step = next]
InitFine == initFaults' = initFaults
InitFault == initFaults < MaxInitFaults /\ initFaults' = initFaults + 1
Mint == minted' = minted + 1
Keep(c) == UNCHANGED <<c, inits>>

\* The URL of the .env wins; else a new password is set for the role, errors ignored.
ChooseDatabase ==
  /\ init.step = "idle" /\ inits < MaxInits /\ inits' = inits + 1
  /\ \/ /\ envFile # NoEnv
        /\ init' = [step |-> "migrate", db |-> envFile.db]
        /\ UNCHANGED <<role, minted>>
     \/ /\ envFile = NoEnv /\ Mint
        /\ role' = minted' /\ init' = [step |-> "migrate", db |-> minted']
  /\ InitFine /\ UNCHANGED <<envFile, keyFile, keyRows, workerEnv, bearers>>

\* schema.sql, the migrations and the rows of the workspace; a failed migration ends init.
SetUpDatabase ==
  /\ \/ Step("migrate", "env") /\ InitFine
     \/ Step("migrate", "idle") /\ InitFault
  /\ Keep(<<credentials, workerEnv, minted, bearers>>)

\* The .env is written anew around the values found in the old one: of several lines
\* of a name the first is found.
WriteEnv ==
  /\ Step("env", "fleet") /\ InitFine
  /\ IF envFile.bearer = 0 THEN Mint ELSE UNCHANGED minted
  /\ envFile' = [db |-> init.db,
                 bearer |-> IF envFile.bearer = 0 THEN minted' ELSE envFile.bearer,
                 fleet |-> IF envFile.fleet = <<>> THEN <<>> ELSE <<Head(envFile.fleet)>>]
  /\ bearers' = bearers \union {envFile'.bearer}
  /\ Keep(<<role, keyFile, keyRows, workerEnv>>)

\* With a bootstrap secret: the token that the fleet endpoint issues is appended.
RegisterFleet ==
  /\ Step("fleet", "key") /\ InitFine
  /\ \/ Mint /\ envFile' = [envFile EXCEPT !.fleet = Append(@, minted')]
     \/ UNCHANGED <<envFile, minted>>
  /\ Keep(<<role, keyFile, keyRows, workerEnv, bearers>>)

\* Two files, and only the first is looked for.
WritePrivateKey ==
  /\ IF keyFile.private = 0
     THEN Step("key", "public") /\ Mint /\ keyFile' = [keyFile EXCEPT !.private = minted']
     ELSE Step("key", "register") /\ UNCHANGED <<keyFile, minted>>
  /\ InitFine /\ Keep(<<role, envFile, keyRows, workerEnv, bearers>>)

WritePublicKey ==
  /\ Step("public", "register") /\ InitFine
  /\ keyFile' = [keyFile EXCEPT !.public = keyFile.private]
  /\ Keep(<<role, envFile, keyRows, workerEnv, minted, bearers>>)

\* Without a public key the command throws here.  operator_keys has no unique column
\* but its id, so that ON CONFLICT never applies.
RegisterKey ==
  /\ IF keyFile.public = 0
     THEN Step("register", "idle") /\ UNCHANGED keyRows
     ELSE Step("register", "start") /\ keyRows' = Append(keyRows, keyFile.public)
  /\ InitFine /\ Keep(<<role, envFile, keyFile, workerEnv, minted, bearers>>)

\* systemctl start does nothing for a worker that runs; a failed start ends init.
StartService ==
  /\ \/ Step("start", "verify") /\ InitFine
        /\ workerEnv' = IF workerEnv = NoEnv THEN envFile ELSE workerEnv
     \/ Step("start", "idle") /\ InitFault /\ UNCHANGED workerEnv
  /\ Keep(<<credentials, minted, bearers>>)

\* The conformance gate decides the exit code and changes nothing.
VerifyInstall ==
  /\ Step("verify", "idle") /\ InitFine
  /\ Keep(<<credentials, workerEnv, minted, bearers>>)

InitDies ==
  /\ init.step # "idle" /\ InitFault /\ init' = Idle
  /\ Keep(<<credentials, workerEnv, minted, bearers>>)

\* systemd restarts the worker, which reads the .env again.
WorkerRestarts ==
  /\ workerEnv \notin {NoEnv, envFile} /\ workerEnv' = envFile
  /\ InitFine /\ Keep(<<credentials, init, minted, bearers>>)

InstallNext ==
  \/ ChooseDatabase \/ SetUpDatabase \/ WriteEnv \/ RegisterFleet
  \/ WritePrivateKey \/ WritePublicKey \/ RegisterKey \/ StartService \/ VerifyInstall
  \/ InitDies \/ WorkerRestarts

(* However often init is run, cut short and run again: the database        *)
(* accepts the password in the .env and in the running worker, the bearer  *)
(* token that peers were given stays, and a registered key is the one in   *)
(* the files (init.ts:177-181, 283-291: re-running must not rotate         *)
(* credentials).                                                           *)
InstallIsRepeatable ==
  /\ \A e \in {envFile, workerEnv} : e # NoEnv => e.db = role /\ bearers = {e.bearer}
  /\ keyFile.public \in {0, keyFile.private}
  /\ \A i \in DOMAIN keyRows : keyRows[i] = keyFile.public
=============================================================================
