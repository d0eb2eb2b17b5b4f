----------------------------- MODULE PaDelivery -----------------------------
(***************************************************************************)
(* Notifications to a user's personal assistant.  POST                     *)
(* /api/pa/:user/notify (api/pa-notify.ts) writes a pending drawer and a   *)
(* delivery marker; the consumers of a thread, which are skills of the     *)
(* workspace, lease markers and report back with the helpers of            *)
(* pa/delivery.ts; the notification dispatcher returns leases that were    *)
(* held for too long.                                                      *)
(*                                                                         *)
(* A drawer is named after the request that wrote it.  Every statement is  *)
(* an action.  What a consumer does between claim and report is external.  *)
(***************************************************************************)
EXTENDS Integers, Sequences, FiniteSets

CONSTANTS
  Request,      \* notify requests of one user
  Key,          \* Key[r]: the idempotency key of r, or NoKey
  NoKey,
  Thread,       \* Thread[r]: the thread r is addressed to
  Consumer,     \* delivery workers
  MaxRetries,   \* NEXAAS_PA_MAX_RETRIES
  MaxCrashes,   \* bound on crashes of consumers
  MaxOverruns,  \* bound on leases that end while their consumer is at work
  None          \* no drawer

ASSUME PaDeliveryAssumption ==
  /\ MaxRetries \in Nat \ {0}
  /\ MaxCrashes \in Nat
  /\ MaxOverruns \in Nat
  /\ None \notin Request
  /\ IsFiniteSet(Request) /\ IsFiniteSet(Consumer)

VARIABLES
  notify,    \* notify[r]: next statement of the endpoint
  pending,   \* drawers written to notifications.pending.pa-routed.*
  aged,      \* those of them written more than an hour ago
  status,    \* status[r]: status of the marker
  retries,   \* retries[r]: retries of the marker
  released,  \* markers whose release_at is past
  line,      \* markers in the order of claimed_at
  lease,     \* lease[c]: what consumer c is doing, for which drawer
  sends,     \* history: sends[r], successful sends of the drawer
  failures,  \* history: failures[r], failed attempts that were reported
  alerts,    \* alerts[r]: pa_delivery_dead rows in ops_alerts
  crashes, overruns

endpoint == <<notify, pending, aged>>
marker == <<status, retries, released, line>>
history == <<sends, failures, crashes, overruns>>
vars == <<endpoint, marker, lease, alerts, history>>

NoLease == [at |-> "idle", drawer |-> None, retries |-> 0]

Init ==
  /\ notify = [r \in Request |-> "new"]
  /\ pending = {}
  /\ aged = {}
  /\ status = [r \in Request |-> "none"]
  /\ retries = [r \in Request |-> 0]
  /\ released = {}
  /\ line = <<>>
  /\ lease = [c \in Consumer |-> NoLease]
  /\ sends = [r \in Request |-> 0]
  /\ failures = [r \in Request |-> 0]
  /\ alerts = [r \in Request |-> 0]
  /\ crashes = 0
  /\ overruns = 0

-----------------------------------------------------------------------------
(* The endpoint *)

\* findRecentByIdempotency: a pending drawer of the last hour with the key.
Prior(r) == {s \in pending \ aged : Key[r] # NoKey /\ Key[s] = Key[r]}

\* A repeated key answers with the earlier notification.
Check(r) ==
  /\ notify[r] = "new"
  /\ notify' = [notify EXCEPT ![r] = IF Prior(r) = {} THEN "write" ELSE "hit"]
  /\ UNCHANGED <<pending, aged, marker, lease, alerts, history>>

WritePending(r) ==
  /\ notify[r] = "write"
  /\ pending' = pending \union {r}
  /\ notify' = [notify EXCEPT ![r] = "mark"]
  /\ UNCHANGED <<aged, marker, lease, alerts, history>>

\* enqueueDelivery, best effort: the INSERT may fail.  What follows, the
\* audit drawer, changes nothing here.
EnqueueDelivery(r) ==
  /\ notify[r] = "mark"
  /\ notify' = [notify EXCEPT ![r] = "queued"]
  /\ status' = [status EXCEPT ![r] = "null"]
  /\ line' = Append(line, r)
  /\ UNCHANGED <<pending, aged, retries, released, lease, alerts, history>>

EnqueueFails(r) ==
  /\ notify[r] = "mark"
  /\ notify' = [notify EXCEPT ![r] = "queued"]
  /\ UNCHANGED <<pending, aged, marker, lease, alerts, history>>

Age(r) ==
  /\ r \in pending \ aged
  /\ aged' = aged \union {r}
  /\ UNCHANGED <<notify, pending, marker, lease, alerts, history>>

\* The hold of the urgency tier ends.
Release(r) ==
  /\ status[r] # "none" /\ r \notin released
  /\ released' = released \union {r}
  /\ UNCHANGED <<endpoint, status, retries, line, lease, alerts, history>>

-----------------------------------------------------------------------------
(* The helpers *)

\* Mutant of Eligible: a fresh marker is not eligible (issue #182).
EligibleNotNull(r) == status[r] = "failed" /\ retries[r] < MaxRetries /\ r \in released

\* Mutant of Eligible: a marker claimed by somebody else is taken as well.
EligibleClaimed(r) ==
  status[r] \in {"null", "claimed", "failed"} /\ retries[r] < MaxRetries /\ r \in released

\* What claimNextDelivery may lease.
Eligible(r) ==
  status[r] \in {"null", "failed"} /\ retries[r] < MaxRetries /\ r \in released

\* The place of the oldest eligible marker of thread t, by claimed_at.
NextOf(t) ==
  {i \in DOMAIN line :
    /\ Thread[line[i]] = t /\ Eligible(line[i])
    /\ \A k \in DOMAIN line : Thread[line[k]] = t /\ Eligible(line[k]) => i <= k}

Others(i) == SubSeq(line, 1, i - 1) \o SubSeq(line, i + 1, Len(line))

\* claimNextDelivery: one statement, so that rows locked by another claim
\* are rows that are not eligible any more.
ClaimNextDelivery(c, t) ==
  \E i \in NextOf(t) : LET r == line[i] IN
    /\ lease[c].at = "idle"
    /\ status' = [status EXCEPT ![r] = "claimed"]
    /\ line' = Append(Others(i), r)
    /\ lease' = [lease EXCEPT ![c] = [at |-> "send", drawer |-> r, retries |-> retries[r]]]
    /\ UNCHANGED <<endpoint, retries, released, alerts, history>>

\* The channel accepts the message or refuses it.
Send(c) ==
  /\ lease[c].at = "send"
  /\ \/ /\ lease' = [lease EXCEPT ![c].at = "sent"]
        /\ sends' = [sends EXCEPT ![lease[c].drawer] = @ + 1]
     \/ /\ lease' = [lease EXCEPT ![c].at = "failed"]
        /\ UNCHANGED sends
  /\ UNCHANGED <<endpoint, marker, alerts, failures, crashes, overruns>>

MarkDeliverySent(c) ==
  /\ lease[c].at = "sent"
  /\ status' = [status EXCEPT ![lease[c].drawer] = "sent"]
  /\ lease' = [lease EXCEPT ![c] = NoLease]
  /\ UNCHANGED <<endpoint, retries, released, line, alerts, history>>

\* The retries of the claim, not those of the row, are counted on.
NextRetry(c) == lease[c].retries + 1

MarkDeliveryFailed(c) ==
  LET r == lease[c].drawer
      terminal == NextRetry(c) >= MaxRetries
  IN
  /\ lease[c].at = "failed"
  /\ status' = [status EXCEPT ![r] = IF terminal THEN "dead" ELSE "failed"]
  /\ retries' = [retries EXCEPT ![r] = NextRetry(c)]
  /\ failures' = [failures EXCEPT ![r] = @ + 1]
  /\ lease' = [lease EXCEPT ![c] = IF terminal THEN [@ EXCEPT !.at = "alert"] ELSE NoLease]
  /\ UNCHANGED <<endpoint, released, line, alerts, sends, crashes, overruns>>

DeadAlert(c) ==
  /\ lease[c].at = "alert"
  /\ alerts' = [alerts EXCEPT ![lease[c].drawer] = @ + 1]
  /\ lease' = [lease EXCEPT ![c] = NoLease]
  /\ UNCHANGED <<endpoint, marker, history>>

ConsumerCrash(c) ==
  /\ lease[c].at # "idle"
  /\ crashes < MaxCrashes
  /\ crashes' = crashes + 1
  /\ lease' = [lease EXCEPT ![c] = NoLease]
  /\ UNCHANGED <<endpoint, marker, alerts, sends, failures, overruns>>

\* Somebody has leased r and not reported yet.
Held(r) == \E c \in Consumer : lease[c].drawer = r /\ lease[c].at \in {"send", "sent", "failed"}

\* Mutant of Reaped: a lease that ended is an attempt that failed.
ReapedCounts(S) ==
  /\ status' = [r \in Request |-> IF r \in S THEN "failed" ELSE status[r]]
  /\ retries' = [r \in Request |-> IF r \in S THEN retries[r] + 1 ELSE retries[r]]
  /\ UNCHANGED <<released, line>>

Reaped(S) ==
  /\ status' = [r \in Request |-> IF r \in S THEN "failed" ELSE status[r]]
  /\ UNCHANGED <<retries, released, line>>

\* reapStaleDeliveryClaims: S are the leases older than two minutes.  The
\* consumer of such a lease is dead, or slow and still at work.
ReapStaleClaims(S) ==
  LET slow == {r \in S : Held(r)} IN
  /\ S # {} /\ \A r \in S : status[r] = "claimed"
  /\ overruns + Cardinality(slow) <= MaxOverruns
  /\ overruns' = overruns + Cardinality(slow)
  /\ Reaped(S)
  /\ UNCHANGED <<endpoint, lease, alerts, sends, failures, crashes>>

-----------------------------------------------------------------------------
Endpoint(r) == Check(r) \/ WritePending(r) \/ EnqueueDelivery(r) \/ EnqueueFails(r)

Work(c) ==
  \/ \E r \in Request : ClaimNextDelivery(c, Thread[r])
  \/ Send(c)
  \/ MarkDeliverySent(c)
  \/ MarkDeliveryFailed(c)
  \/ DeadAlert(c)

Reap == \E S \in SUBSET Request : ReapStaleClaims(S)

Next ==
  \/ \E r \in Request : Endpoint(r) \/ Age(r) \/ Release(r)
  \/ \E c \in Consumer : Work(c) \/ ConsumerCrash(c)
  \/ Reap

Spec == Init /\ [][Next]_vars

\* Time passes, the consumers keep claiming and come back from their sends,
\* and the dispatcher returns the leases of dead consumers on its ticks.
Fairness ==
  /\ \A r \in Request : WF_vars(Release(r))
  /\ \A c \in Consumer : WF_vars(Work(c))
  /\ \A r \in Request : WF_vars(~Held(r) /\ ReapStaleClaims({r}))

LiveSpec == Spec /\ Fairness

-----------------------------------------------------------------------------
(* Properties *)

Statuses == {"none", "null", "claimed", "sent", "failed", "dead"}

\* Every variable stays in its type.
TypeOK ==
  /\ notify \in [Request -> {"new", "write", "hit", "mark", "queued"}]
  /\ pending \subseteq Request
  /\ aged \subseteq Request
  /\ status \in [Request -> Statuses]
  /\ retries \in [Request -> 0 .. MaxRetries]
  /\ released \subseteq Request
  /\ line \in Seq(Request)
  /\ lease \in [Consumer -> [at : {"idle", "send", "sent", "failed", "alert"},
                             drawer : Request \union {None},
                             retries : 0 .. MaxRetries - 1]]
  /\ sends \in [Request -> Nat]
  /\ failures \in [Request -> Nat]
  /\ alerts \in [Request -> Nat]
  /\ crashes \in 0 .. MaxCrashes
  /\ overruns \in 0 .. MaxOverruns

\* At least once does not mean arbitrarily often: a message reaches the user
\* a second time only for a consumer that crashed or outlived its lease, and
\* once more for each such event, whatever the reports that arrive late.
DuplicatesAreAccountedFor ==
  TypeOK /\ \A r \in Request : sends[r] <= 1 + crashes + overruns

\* A delivery is given up only after MAX_RETRIES reported failures; leases
\* that end do not count (delivery.ts, markDeliveryFailed).
DeadOnlyAfterFailures ==
  \A r \in Request : status[r] = "dead" => failures[r] >= MaxRetries

\* Every marker ends up sent or dead, or its message has been sent: nothing
\* stays behind in the lease of a dead consumer.
Delivered ==
  \A r \in Request : status[r] = "null" ~> status[r] = "dead" \/ sends[r] > 0

=============================================================================
