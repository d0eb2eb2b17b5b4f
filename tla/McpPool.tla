------------------------------- MODULE McpPool -------------------------------
(***************************************************************************)
(* One MCP server and the runs that call its tools                         *)
(* (runtime/src/mcp/pool.ts and client.ts). Runs share one long-lived      *)
(* client, or spawn one each; a client is a child process, or a session    *)
(* over HTTP, which may die, hang, answer late or survive SIGTERM.         *)
(*                                                                         *)
(* The code between two awaits is one step; that is what keeps acquire()   *)
(* from spawning twice.                                                    *)
(***************************************************************************)
EXTENDS Integers, FiniteSets

CONSTANTS
  Runs,         \* ai-skill runs
  MaxClients,   \* bound on clients ever created
  MaxDeaths,    \* bound on children that die, and on transport errors
  NoClient

ASSUME McpPoolAssumption ==
  IsFiniteSet(Runs) /\ MaxClients \in Nat /\ MaxDeaths \in Nat /\ NoClient \notin 1..MaxClients

VARIABLES
  pooled,       \* NEXAAS_MCP_POOL_ENABLED
  http,         \* the transport; neither ever changes
  clients,      \* clients[c]: the client and its server's process
  shared,       \* the pool's client, or NoClient
  pending,      \* the client that the pool is connecting, or NoClient
  users,        \* users[r]: [at, client]
  spawned, deaths,
  closing       \* the worker shuts down

poolVars == <<pooled, http, clients, shared, pending, users, spawned, deaths, closing>>

Clients == 1..MaxClients
Unborn == [child |-> "none", phase |-> "none", disposed |-> FALSE]
AtRest == [at |-> "out", client |-> NoClient]

PoolInit ==
  /\ pooled \in BOOLEAN /\ http \in BOOLEAN
  /\ clients = [c \in Clients |-> Unborn]
  /\ shared = NoClient /\ pending = NoClient
  /\ users = [r \in Runs |-> AtRest]
  /\ spawned = 0 /\ deaths = 0 /\ closing = FALSE

fixedPool == <<pooled, http>>

\* isHealthy
Healthy(c) == ~clients[c].disposed /\ clients[c].child = "alive"

\* disconnect: SIGTERM, or the session is closed, which nothing delays.
Disconnected(c, state) ==
  [state EXCEPT ![c].disposed = TRUE,
                ![c].child = IF @ # "alive" THEN @ ELSE IF http THEN "gone" ELSE "term"]

\* acquire: the healthy client of the pool; else that is dropped, and a client that is
\* being connected is waited for, or a new one is spawned.
AcquireAlways(r) ==
  /\ users[r].at = "out" /\ spawned < MaxClients /\ spawned' = spawned + 1
  /\ clients' = [clients EXCEPT ![spawned'] = [child |-> "alive", phase |-> "init", disposed |-> FALSE]]
  /\ pending' = (IF pooled THEN spawned' ELSE pending)
  /\ users' = [users EXCEPT ![r] = [at |-> "wait", client |-> spawned']]
  /\ UNCHANGED <<fixedPool, shared, deaths, closing>>

Acquire(r) ==
  /\ users[r].at = "out"
  /\ \/ /\ pooled /\ shared # NoClient /\ Healthy(shared)
        /\ users' = [users EXCEPT ![r] = [at |-> "have", client |-> shared]]
        /\ UNCHANGED <<clients, shared, pending, spawned>>
     \/ /\ ~(pooled /\ shared # NoClient /\ Healthy(shared))
        /\ LET dropped == IF pooled /\ shared # NoClient THEN Disconnected(shared, clients) ELSE clients IN
           \/ /\ pooled /\ pending # NoClient
              /\ clients' = dropped
              /\ users' = [users EXCEPT ![r] = [at |-> "wait", client |-> pending]]
              /\ UNCHANGED <<pending, spawned>>
           \/ /\ ~pooled \/ pending = NoClient
              /\ spawned < MaxClients /\ spawned' = spawned + 1
              /\ clients' = [dropped EXCEPT ![spawned'] =
                               [child |-> "alive", phase |-> "init", disposed |-> FALSE]]
              /\ pending' = (IF pooled THEN spawned' ELSE pending)
              /\ users' = [users EXCEPT ![r] = [at |-> "wait", client |-> spawned']]
        /\ shared' = IF pooled THEN NoClient ELSE shared
  /\ UNCHANGED <<fixedPool, deaths, closing>>

\* connect: initialize is answered, then tools/list; then the client is the pool's.
Handshake(c) ==
  /\ clients[c].child = "alive"
  /\ \/ /\ clients[c].phase = "init"
        /\ clients' = [clients EXCEPT ![c].phase = "list"]
        /\ UNCHANGED <<shared, pending, users>>
     \/ /\ clients[c].phase = "list"
        /\ clients' = [clients EXCEPT ![c].phase = "ready"]
        /\ shared' = (IF pooled THEN c ELSE shared)
        /\ pending' = (IF pooled THEN NoClient ELSE pending)
        /\ users' = [r \in Runs |-> IF users[r] = [at |-> "wait", client |-> c]
                                  THEN [users[r] EXCEPT !.at = "have"] ELSE users[r]]
  /\ UNCHANGED <<fixedPool, spawned, deaths, closing>>

\* A handshake that times out, or whose server is gone: disconnect, then the error.
AbortConnect(c) ==
  /\ clients[c].phase \in {"init", "list"}
  /\ clients' = [Disconnected(c, clients) EXCEPT ![c].phase = "aborted"]
  /\ UNCHANGED <<fixedPool, shared, pending, users, spawned, deaths, closing>>

ConnectFailsStuck(c) ==
  /\ clients[c].phase = "aborted" /\ clients[c].child = "gone"
  /\ clients' = [clients EXCEPT ![c].phase = "failed"]
  /\ users' = [r \in Runs |-> IF users[r] = [at |-> "wait", client |-> c] THEN AtRest ELSE users[r]]
  /\ UNCHANGED <<fixedPool, shared, pending, spawned, deaths, closing>>

\* The error goes to all that wait, and the next to ask connects anew.
ConnectFails(c) ==
  /\ clients[c].phase = "aborted" /\ clients[c].child = "gone"
  /\ clients' = [clients EXCEPT ![c].phase = "failed"]
  /\ pending' = (IF pooled THEN NoClient ELSE pending)
  /\ users' = [r \in Runs |-> IF users[r] = [at |-> "wait", client |-> c] THEN AtRest ELSE users[r]]
  /\ UNCHANGED <<fixedPool, shared, spawned, deaths, closing>>

\* callTool: a client that is disconnected, or whose child is gone, refuses at once; a
\* transport error does not keep an HTTP client from being used.
CallTool(r) ==
  /\ users[r].at = "have"
  /\ IF http THEN clients[users[r].client].child = "alive" ELSE ~clients[users[r].client].disposed
  /\ users' = [users EXCEPT ![r].at = "call"]
  /\ UNCHANGED <<fixedPool, clients, shared, pending, spawned, deaths, closing>>

\* The answer, an error, or the timeout, after which the client is used as before.
CallEnds(r) ==
  /\ users[r].at = "call" /\ users' = [users EXCEPT ![r].at = "have"]
  /\ UNCHANGED <<fixedPool, clients, shared, pending, spawned, deaths, closing>>

\* releaseMcpClient: nothing for the pool's client, else it is disconnected.
Release(r) ==
  /\ users[r].at = "have"
  /\ IF pooled
     THEN users' = [users EXCEPT ![r] = AtRest] /\ UNCHANGED clients
     ELSE users' = [users EXCEPT ![r].at = "release"] /\ clients' = Disconnected(users[r].client, clients)
  /\ UNCHANGED <<fixedPool, shared, pending, spawned, deaths, closing>>

Released(r) ==
  /\ users[r].at = "release" /\ clients[users[r].client].child = "gone"
  /\ users' = [users EXCEPT ![r] = AtRest]
  /\ UNCHANGED <<fixedPool, clients, shared, pending, spawned, deaths, closing>>

Rejected(c) == [r \in Runs |-> IF users[r] = [at |-> "call", client |-> c]
                               THEN [users[r] EXCEPT !.at = "have"] ELSE users[r]]

\* The child dies, or after SIGTERM or SIGKILL is gone: every request is rejected.
Exit(c) ==
  /\ clients[c].child \in {"alive", "term"} /\ ~http
  /\ IF clients[c].child = "term" THEN UNCHANGED deaths
                                  ELSE deaths < MaxDeaths /\ deaths' = deaths + 1
  /\ clients' = [clients EXCEPT ![c].child = "gone", ![c].disposed = TRUE]
  /\ users' = Rejected(c)
  /\ UNCHANGED <<fixedPool, shared, pending, spawned, closing>>

\* onerror of the HTTP transport: requests under way are left to their timeouts.
TransportError(c) ==
  /\ http /\ clients[c].child = "alive" /\ ~clients[c].disposed
  /\ deaths < MaxDeaths /\ deaths' = deaths + 1
  /\ clients' = [clients EXCEPT ![c].disposed = TRUE]
  /\ UNCHANGED <<fixedPool, shared, pending, users, spawned, closing>>

\* shutdownMcpPool, once the jobs are done or the drain has timed out.
Shutdown ==
  /\ ~closing /\ closing' = TRUE
  /\ clients' = IF shared = NoClient THEN clients ELSE Disconnected(shared, clients)
  /\ shared' = NoClient /\ pending' = NoClient
  /\ UNCHANGED <<fixedPool, users, spawned, deaths>>

ClientStep(c) == Handshake(c) \/ AbortConnect(c) \/ ConnectFails(c) \/ Exit(c) \/ TransportError(c)
RunStep(r) == Acquire(r) \/ CallTool(r) \/ CallEnds(r) \/ Release(r) \/ Released(r)
PoolNext == Shutdown \/ (\E c \in Clients : ClientStep(c)) \/ (\E r \in Runs : RunStep(r))

PoolSpec == PoolInit /\ [][PoolNext]_poolVars

Alive == {c \in Clients : clients[c].child = "alive"}

(* Until the pool is shut down, every server that runs is one that         *)
(* somebody will disconnect or use again: the pool's own, the one being    *)
(* connected, or that of a run that holds it, and the pool never has two;  *)
(* a run holds the client it asked for; and no call and no connection      *)
(* waits for a child that is gone (pool.ts:40-62, client.ts:133-137,       *)
(* 165-169).                                                               *)
PoolIsSound ==
  /\ ~closing /\ pooled => Alive \subseteq {shared, pending}
  /\ ~pooled => \A c \in Alive : Cardinality({r \in Runs : users[r].client = c}) = 1
  /\ \A r \in Runs :
       /\ users[r].at = "call" => clients[users[r].client].child # "gone" \/ http
       /\ users[r].at = "wait" => clients[users[r].client].phase \in {"init", "list", "aborted"}
       /\ users[r].at \in {"have", "call"} => clients[users[r].client].phase = "ready"

(* Nobody waits for a server for ever: a run that asked for a client gets  *)
(* one or an error, and ends; and a child that was told to terminate is    *)
(* gone.                                                                   *)
ServersComeAndGo ==
  /\ \A r \in Runs : users[r].at = "wait" ~> users[r].at # "wait"
  /\ \A c \in Clients : clients[c].child = "term" ~> clients[c].child = "gone"
=============================================================================
