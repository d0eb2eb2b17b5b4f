----------------------------- MODULE Operations -----------------------------
(***************************************************************************)
(* What reaches outside the worker and is waited for: the conformance      *)
(* suite, which judges a worker through its queue and its API, and the MCP *)
(* servers that runs share. A behaviour is about one of them.              *)
(***************************************************************************)
EXTENDS Conformance, McpPool

VARIABLE part  \* what the behaviour is about

vars == <<part, conformanceVars, poolVars>>

Init ==
  /\ part \in {"suite", "servers"} /\ ConformanceInit /\ PoolInit
  /\ part # "suite" => broken = {}
  /\ part # "servers" => pooled /\ http

OfSuite == part = "suite" /\ UNCHANGED <<part, poolVars>>
OfServers == part = "servers" /\ UNCHANGED <<part, conformanceVars>>

Next == (OfSuite /\ ConformanceNext) \/ (OfServers /\ PoolNext)

\* The suite and the worker's loop go on. Handshakes and calls are answered or time out, a
\* terminated child is killed after 3 s, and a run gives back what it has.
Spec ==
  /\ Init /\ [][Next]_vars
  /\ WF_vars(OfSuite /\ SuiteStep) /\ WF_vars(OfSuite /\ WorkerStep)
  /\ \A c \in Clients :
       /\ WF_vars(OfServers /\ (Handshake(c) \/ AbortConnect(c)))
       /\ WF_vars(OfServers /\ ConnectFails(c))
       /\ WF_vars(OfServers /\ clients[c].child = "term" /\ Exit(c))
  /\ \A r \in Runs :
       /\ WF_vars(OfServers /\ CallEnds(r)) /\ WF_vars(OfServers /\ Release(r))
       /\ WF_vars(OfServers /\ Released(r))

(* Nothing that others wait for goes on for ever: the suite, the           *)
(* connection to a server, and the end of one.                             *)
WaitsEnd == (part = "suite" => SuiteEnds) /\ ServersComeAndGo
=============================================================================
