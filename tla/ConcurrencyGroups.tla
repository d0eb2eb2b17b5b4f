------------------------- MODULE ConcurrencyGroups -------------------------
(***************************************************************************)
(* Skill concurrency groups, packages/runtime/src/concurrency-groups.ts.   *)
(*                                                                         *)
(* withGroups(groups, fn) serialises skills that share a resource.  Every  *)
(* group has a chain of promises: a caller replaces the tail of the chain  *)
(* by its own promise, awaits the former tail, and resolves its promise on *)
(* release.  Groups are taken one after the other in sorted order.  All of *)
(* it runs inside a BullMQ job, so that a waiting caller occupies one of   *)
(* the worker's `concurrency' slots (bullmq/worker.ts).                    *)
(*                                                                         *)
(* A group name is represented by its rank in the sort order of names.  A  *)
(* promise is represented by the call that created it: a call makes one    *)
(* promise per group.  Code between two awaits runs without interruption,  *)
(* hence one action from each await to the next.                           *)
(***************************************************************************)
EXTENDS Integers, FiniteSets

CONSTANTS
  Call,         \* invocations of withGroups, one per attempt of a job
  NumGroups,    \* how many group names the manifests declare
  Groups,       \* Groups[c]: the group names call c passes, resolved
  Concurrency,  \* slots of the BullMQ worker
  NoCall        \* stands for an already resolved promise

Group == 1 .. NumGroups

ASSUME GroupsAssumption ==
  /\ NumGroups \in Nat
  /\ Groups \in [Call -> SUBSET Group]
  /\ Concurrency \in Nat \ {0}
  /\ NoCall \notin Call

VARIABLES
  st,      \* st[c]: where call c is
  at,      \* at[c]: the group whose chain c is awaiting or awaited last
  prev,    \* prev[c]: creator of the promise c awaits (local `prev')
  held,    \* held[c]: groups with an entry in c's local `releases'
  tail,    \* the module-level Map `locks': creator of each group's tail
  ticket,  \* history: position of c in the arrival order of group g
  issued   \* history: number of arrivals at group g

vars == <<st, at, prev, held, tail, ticket, issued>>

Init ==
  /\ st = [c \in Call |-> "new"]
  /\ at = [c \in Call |-> 0]
  /\ prev = [c \in Call |-> NoCall]
  /\ held = [c \in Call |-> {}]
  /\ tail = [g \in Group |-> NoCall]
  /\ ticket = [c \in Call |-> [g \in Group |-> 0]]
  /\ issued = [g \in Group |-> 0]

\* A call that occupies a slot of the worker.
Active(c) == st[c] \in {"waiting", "running"}

\* The job's promise for g is resolved once the call has left g behind.
Released(c) == st[c] \in {"done", "lost"}

\* The groups the loop still has to take once c holds g.
Rest(c, g) == Groups[c] \ (held[c] \union {g})

\* Mutant of Least: groups taken in the order a manifest lists them, where
\* one that names both the first and the last group lists the last one first.
LeastUnsorted(S) ==
  IF {1, NumGroups} \subseteq S THEN NumGroups
  ELSE CHOOSE g \in S : \A h \in S : g <= h

\* The next group of the sorted loop.
Least(S) == CHOOSE g \in S : \A h \in S : g <= h

\* Mutant of JoinChain: the await comes before the Map is updated, so that
\* two callers can read the same tail.
JoinChainLate(c, g) ==
  /\ st' = [st EXCEPT ![c] = "waiting"]
  /\ at' = [at EXCEPT ![c] = g]
  /\ prev' = [prev EXCEPT ![c] = tail[g]]
  /\ tail' = [tail EXCEPT ![g] = IF @ = NoCall THEN c ELSE @]
  /\ issued' = [issued EXCEPT ![g] = @ + 1]
  /\ ticket' = [ticket EXCEPT ![c][g] = issued[g] + 1]

\* Synchronous part of one loop iteration: read the tail, install the own
\* promise as the new tail, and start awaiting the former one.
JoinChain(c, g) ==
  /\ st' = [st EXCEPT ![c] = "waiting"]
  /\ at' = [at EXCEPT ![c] = g]
  /\ prev' = [prev EXCEPT ![c] = tail[g]]
  /\ tail' = [tail EXCEPT ![g] = c]
  /\ issued' = [issued EXCEPT ![g] = @ + 1]
  /\ ticket' = [ticket EXCEPT ![c][g] = issued[g] + 1]

\* The job is taken by a free slot.  Without groups the call bypasses the
\* semaphore; otherwise it joins the chain of its least group.
EnterFree(c) ==
  /\ st[c] = "new"
  /\ Cardinality({d \in Call : Active(d)}) < Concurrency
  /\ Groups[c] = {}
  /\ st' = [st EXCEPT ![c] = "running"]
  /\ UNCHANGED <<at, prev, held, tail, ticket, issued>>

EnterGroups(c) ==
  /\ st[c] = "new"
  /\ Cardinality({d \in Call : Active(d)}) < Concurrency
  /\ Groups[c] # {}
  /\ JoinChain(c, Least(Groups[c]))
  /\ UNCHANGED held

\* Mutant of Granted: a release that wakes nobody up unless the chain was
\* already empty.
GrantedOnlyIfFree(c) == prev[c] = NoCall

\* The awaited promise is resolved.
Granted(c) == prev[c] # NoCall => Released(prev[c])

\* `await prev' returns: the group is held and the loop goes on to the next
\* group, or, when this was the last one, fn starts.
AcquireMore(c) ==
  /\ st[c] = "waiting"
  /\ Granted(c)
  /\ held' = [held EXCEPT ![c] = @ \union {at[c]}]
  /\ Rest(c, at[c]) # {}
  /\ JoinChain(c, Least(Rest(c, at[c])))

AcquireLast(c) ==
  /\ st[c] = "waiting"
  /\ Granted(c)
  /\ held' = [held EXCEPT ![c] = @ \union {at[c]}]
  /\ Rest(c, at[c]) = {}
  /\ st' = [st EXCEPT ![c] = "running"]
  /\ UNCHANGED <<at, prev, tail, ticket, issued>>

\* fn returns or throws; the finally block releases every held group and
\* drops the map entry of each group whose tail is still the own promise.
Finish(c) ==
  /\ st[c] = "running"
  /\ st' = [st EXCEPT ![c] = "done"]
  /\ held' = [held EXCEPT ![c] = {}]
  /\ tail' = [g \in Group |->
                IF g \in held[c] /\ tail[g] = c THEN NoCall ELSE tail[g]]
  /\ UNCHANGED <<at, prev, ticket, issued>>

\* The worker process dies: the locks live in its memory only.
Crash ==
  /\ \E c \in Call : Active(c)
  /\ st' = [c \in Call |-> IF Active(c) THEN "lost" ELSE st[c]]
  /\ held' = [c \in Call |-> {}]
  /\ tail' = [g \in Group |-> NoCall]
  /\ UNCHANGED <<at, prev, ticket, issued>>

Step(c) ==
  \/ EnterFree(c)
  \/ EnterGroups(c)
  \/ AcquireMore(c)
  \/ AcquireLast(c)
  \/ Finish(c)

Next == Crash \/ \E c \in Call : Step(c)

Spec == Init /\ [][Next]_vars

\* The JavaScript scheduler runs every continuation whose promise is
\* resolved, and every skill ends: the executors bound it by a timeout.
\* Nothing is assumed of the arrival of jobs or of crashes.
Fairness ==
  \A c \in Call : WF_vars(AcquireMore(c) \/ AcquireLast(c)) /\ WF_vars(Finish(c))

LiveSpec == Spec /\ Fairness

-----------------------------------------------------------------------------
(* Properties *)

\* Every variable stays in its type.
TypeOK ==
  /\ st \in [Call -> {"new", "waiting", "running", "done", "lost"}]
  /\ at \in [Call -> 0 .. NumGroups]
  /\ prev \in [Call -> Call \union {NoCall}]
  /\ held \in [Call -> SUBSET Group]
  /\ tail \in [Group -> Call \union {NoCall}]
  /\ ticket \in [Call -> [Group -> Nat]]
  /\ issued \in [Group -> Nat]

\* Two skills that declare a common group never run at the same time, which
\* is what concurrency_groups promises (concurrency-groups.ts, header).
MutualExclusion ==
  \A c, d \in Call :
    c # d /\ st[c] = "running" /\ st[d] = "running" => Groups[c] \cap Groups[d] = {}

\* Call c is in the chain of g: it holds g or awaits its turn there.
InChain(c, g) == Active(c) /\ (g \in held[c] \/ (st[c] = "waiting" /\ at[c] = g))

\* Groups are granted in the order of arrival: when c arrived at g before d
\* and has not released g, d does not hold g.
FifoGrant ==
  \A c, d \in Call, g \in Group :
    InChain(c, g) /\ InChain(d, g) /\ ticket[c][g] < ticket[d][g] => g \notin held[d]

\* t is the promise of the latest arrival in the chain of g, if any.
IsLatest(t, g) ==
  /\ t = NoCall => \A c \in Call : ~InChain(c, g)
  /\ t # NoCall =>
       /\ InChain(t, g)
       /\ \A c \in Call : InChain(c, g) => ticket[c][g] <= ticket[t][g]

\* The garbage collection of map entries never loses a chain: a group has no
\* tail exactly when nobody holds it or waits for it, and otherwise the tail
\* is the promise of the latest arrival.
TailIsLatest == \A g \in Group : IsLatest(tail[g], g)

\* Sorted acquisition excludes deadlock: as long as a call waits, some call
\* is running its skill or has been granted the group it awaits.
NoCircularWait ==
  (\E c \in Call : st[c] = "waiting")
    => \E c \in Call : st[c] = "running" \/ (st[c] = "waiting" /\ Granted(c))

\* Nobody starves in a chain: a call that waits for a group eventually runs,
\* unless the process dies first.
WaiterRuns ==
  \A c \in Call : st[c] = "waiting" ~> st[c] \in {"running", "lost"}

=============================================================================
