------------------------- MODULE NotificationProofs -------------------------
(***************************************************************************)
(* Proofs about notifications.  PaDelivery: how often a message may reach  *)
(* the user, and when a delivery is given up, for any number of requests   *)
(* and consumers and any bounds on crashes and overrun leases.             *)
(* NotificationDispatch: how often a message is posted, for any drawers,   *)
(* keys, batch size, attempts and faults.                                  *)
(***************************************************************************)
EXTENDS PaDelivery, NotificationDispatch, FiniteSetTheorems, TLAPS

-----------------------------------------------------------------------------
(* Types *)

\* A consumer that is at work has leased a drawer.
LeasesName == \A c \in Consumer : lease[c].at # "idle" => lease[c].drawer \in Request

Typed == TypeOK /\ LeasesName

\* Moving a marker to the end of the line leaves a sequence of markers.
LEMMA OthersType ==
  ASSUME line \in Seq(Request), NEW i \in DOMAIN line
  PROVE  Others(i) \in Seq(Request)
<1>1. i \in 1 .. Len(line)
  OBVIOUS
<1>2. SubSeq(line, 1, i - 1) \in Seq(Request) /\ SubSeq(line, i + 1, Len(line)) \in Seq(Request)
  BY <1>1
<1> QED BY <1>2 DEF Others

\* What a claim reads: an eligible marker of the thread.
LEMMA NextIsEligible ==
  ASSUME TypeOK, NEW t, NEW i \in NextOf(t)
  PROVE  /\ i \in DOMAIN line /\ line[i] \in Request
         /\ status[line[i]] \in {"null", "failed"}
         /\ retries[line[i]] \in 0 .. MaxRetries - 1
<1>1. i \in DOMAIN line /\ line[i] \in Request
  BY DEF NextOf, TypeOK
<1>2. status[line[i]] \in {"null", "failed"} /\ retries[line[i]] < MaxRetries
  BY DEF NextOf, Eligible
<1>3. retries[line[i]] \in 0 .. MaxRetries /\ MaxRetries \in Nat
  BY <1>1, PaDeliveryAssumption DEF TypeOK
<1> QED BY <1>1, <1>2, <1>3

\* A send changes where the consumer is, and nothing else of its lease.
LEMMA SendFrame ==
  ASSUME TypeOK, NEW c \in Consumer, Send(c)
  PROVE  \E at \in {"sent", "failed"} :
           /\ lease' = [lease EXCEPT ![c] = [lease[c] EXCEPT !.at = at]]
           /\ IF at = "sent"
              THEN sends' = [sends EXCEPT ![lease[c].drawer] = sends[lease[c].drawer] + 1]
              ELSE sends' = sends
           /\ lease[c].at = "send" /\ lease'[c].at = at
           /\ UNCHANGED <<endpoint, marker, alerts, failures, crashes, overruns>>
<1>1. PICK at \in {"sent", "failed"} :
        /\ lease' = [lease EXCEPT ![c] = [lease[c] EXCEPT !.at = at]]
        /\ IF at = "sent"
           THEN sends' = [sends EXCEPT ![lease[c].drawer] = sends[lease[c].drawer] + 1]
           ELSE sends' = sends
        /\ lease[c].at = "send"
        /\ UNCHANGED <<endpoint, marker, alerts, failures, crashes, overruns>>
  BY DEF Send
<1>2. lease'[c].at = at
  BY <1>1 DEF TypeOK
<1> QED BY <1>1, <1>2

\* The initial state is well typed.
LEMMA TypedInit == Init => Typed
BY PaDeliveryAssumption DEF Init, Typed, TypeOK, LeasesName, NoLease, Statuses

\* The endpoint and the clock keep the types.
LEMMA TypedEndpoint ==
  ASSUME Typed, NEW r \in Request, Endpoint(r) \/ Age(r) \/ Release(r)
  PROVE  Typed'
<1> USE DEF Typed, TypeOK, LeasesName, marker, history, Statuses
<1>1. CASE Check(r)
  BY <1>1 DEF Check
<1>2. CASE WritePending(r)
  BY <1>2 DEF WritePending
<1>3. CASE EnqueueDelivery(r)
  BY <1>3 DEF EnqueueDelivery
<1>4. CASE EnqueueFails(r)
  BY <1>4 DEF EnqueueFails
<1>5. CASE Age(r)
  BY <1>5 DEF Age
<1>6. CASE Release(r)
  BY <1>6 DEF Release, endpoint
<1> QED BY <1>1, <1>2, <1>3, <1>4, <1>5, <1>6 DEF Endpoint

\* The consumers keep the types.
LEMMA TypedWork ==
  ASSUME Typed, NEW c \in Consumer, Work(c) \/ ConsumerCrash(c)
  PROVE  Typed'
<1>0. \A t : \A i \in NextOf(t) : /\ i \in DOMAIN line /\ line[i] \in Request
                                /\ retries[line[i]] \in 0 .. MaxRetries - 1
  BY NextIsEligible DEF Typed
<1> USE PaDeliveryAssumption DEF Typed, TypeOK, LeasesName, endpoint, marker, history, Statuses, NoLease
<1> DEFINE Lease == [at : {"idle", "send", "sent", "failed", "alert"},
                     drawer : Request \union {None}, retries : 0 .. MaxRetries - 1]
<1>1. ASSUME NEW t, ClaimNextDelivery(c, t) PROVE Typed'
  <2>1. PICK i \in NextOf(t) :
          /\ status' = [status EXCEPT ![line[i]] = "claimed"]
          /\ line' = Append(Others(i), line[i])
          /\ lease' = [lease EXCEPT ![c] = [at |-> "send", drawer |-> line[i],
                                            retries |-> retries[line[i]]]]
          /\ UNCHANGED <<endpoint, retries, released, alerts, history>>
    BY <1>1 DEF ClaimNextDelivery
  <2>2. i \in DOMAIN line /\ line[i] \in Request /\ retries[line[i]] \in 0 .. MaxRetries - 1
    BY <1>0, <2>1
  <2>3. line' \in Seq(Request)
    BY <2>1, <2>2, OthersType
  <2> QED BY <2>1, <2>2, <2>3
<1>2. CASE Send(c)
  <2>1. PICK at \in {"sent", "failed"} :
          /\ lease' = [lease EXCEPT ![c] = [lease[c] EXCEPT !.at = at]]
          /\ IF at = "sent"
             THEN sends' = [sends EXCEPT ![lease[c].drawer] = sends[lease[c].drawer] + 1]
             ELSE sends' = sends
          /\ lease[c].at = "send"
          /\ UNCHANGED <<endpoint, marker, alerts, failures, crashes, overruns>>
    BY <1>2, SendFrame
  <2>2. lease[c].drawer \in Request /\ lease[c] \in Lease
    BY <2>1
  <2>3. [lease[c] EXCEPT !.at = at] \in Lease
    BY <2>2
  <2>4. lease' \in [Consumer -> Lease] /\ LeasesName'
    BY <2>1, <2>2, <2>3
  <2>5. sends' \in [Request -> Nat]
    <3>1. sends' = sends \/ sends' = [sends EXCEPT ![lease[c].drawer] = sends[lease[c].drawer] + 1]
      BY <2>1
    <3>2. PICK q \in Request : q = lease[c].drawer
      BY <2>2
    <3>3. sends \in [Request -> Nat] /\ sends[q] + 1 \in Nat
      OBVIOUS
    <3> QED BY <3>1, <3>2, <3>3
  <2> QED BY <2>1, <2>4, <2>5
<1>3. CASE MarkDeliverySent(c)
  BY <1>3 DEF MarkDeliverySent
<1>4. CASE MarkDeliveryFailed(c)
  <2>1. /\ lease[c].drawer \in Request /\ lease[c] \in Lease
        /\ NextRetry(c) \in 0 .. MaxRetries
    BY <1>4 DEF MarkDeliveryFailed, NextRetry
  <2>2. [lease[c] EXCEPT !.at = "alert"] \in Lease
    BY <2>1
  <2>3. lease' = [lease EXCEPT ![c] = IF NextRetry(c) >= MaxRetries
                                      THEN [lease[c] EXCEPT !.at = "alert"] ELSE NoLease]
    BY <1>4 DEF MarkDeliveryFailed
  <2>4. lease' \in [Consumer -> Lease] /\ LeasesName'
    BY SMTT(30), <2>1, <2>2, <2>3
  <2>5. /\ status' \in [Request -> Statuses] /\ retries' \in [Request -> 0 .. MaxRetries]
        /\ failures' \in [Request -> Nat]
    BY SMTT(30), <1>4, <2>1 DEF MarkDeliveryFailed
  <2>6. UNCHANGED <<endpoint, released, line, alerts, sends, crashes, overruns>>
    BY <1>4 DEF MarkDeliveryFailed
  <2> QED BY <2>4, <2>5, <2>6
<1>5. CASE DeadAlert(c)
  BY <1>5 DEF DeadAlert
<1>6. CASE ConsumerCrash(c)
  BY <1>6 DEF ConsumerCrash
<1> QED BY <1>1, <1>2, <1>3, <1>4, <1>5, <1>6 DEF Work

\* The reaper keeps the types.
LEMMA TypedReap ==
  ASSUME Typed, NEW S \in SUBSET Request, ReapStaleClaims(S)
  PROVE  Typed'
<1>1. IsFiniteSet({r \in S : Held(r)})
  BY PaDeliveryAssumption, FS_Subset
<1>2. Cardinality({r \in S : Held(r)}) \in Nat
  BY <1>1, FS_CardinalityType
<1>3. overruns' \in 0 .. MaxOverruns
  BY <1>2, PaDeliveryAssumption DEF ReapStaleClaims, Typed, TypeOK
<1>4. status' \in [Request -> Statuses]
  BY DEF ReapStaleClaims, Reaped, Typed, TypeOK, Statuses
<1>5. UNCHANGED <<endpoint, lease, alerts, sends, failures, crashes, retries, released, line>>
  BY DEF ReapStaleClaims, Reaped
<1> QED BY <1>3, <1>4, <1>5 DEF Typed, TypeOK, LeasesName, endpoint

\* Types hold, and consumers at work hold a drawer, in every reachable state.
THEOREM TypesHold == Spec => []Typed
<1>1. Typed /\ [Next]_vars => Typed'
  <2> SUFFICES ASSUME Typed, [Next]_vars PROVE Typed'
    OBVIOUS
  <2>1. ASSUME NEW r \in Request, Endpoint(r) \/ Age(r) \/ Release(r) PROVE Typed'
    BY <2>1, TypedEndpoint
  <2>2. ASSUME NEW c \in Consumer, Work(c) \/ ConsumerCrash(c) PROVE Typed'
    BY <2>2, TypedWork
  <2>3. ASSUME NEW S \in SUBSET Request, ReapStaleClaims(S) PROVE Typed'
    BY <2>3, TypedReap
  <2>4. CASE UNCHANGED vars
    BY <2>4 DEF vars, endpoint, marker, history, Typed, TypeOK, LeasesName
  <2> QED BY <2>1, <2>2, <2>3, <2>4 DEF Next, Reap
<1> QED BY <1>1, TypedInit, PTL DEF Spec

-----------------------------------------------------------------------------
(* Giving up *)

Working == {"send", "sent", "failed"}

\* A retry is counted, in the row or in the claim that read the row, only for
\* a failure that was reported.
RetriesAreFailures ==
  /\ \A r \in Request : retries[r] <= failures[r]
  /\ \A c \in Consumer : lease[c].at \in Working => lease[c].retries <= failures[lease[c].drawer]

GiveUpInv == RetriesAreFailures /\ DeadOnlyAfterFailures

LEMMA GiveUpWork ==
  ASSUME Typed, GiveUpInv, NEW c \in Consumer, Work(c) \/ ConsumerCrash(c)
  PROVE  GiveUpInv'
<1> USE PaDeliveryAssumption
    DEF Typed, TypeOK, LeasesName, GiveUpInv, RetriesAreFailures, DeadOnlyAfterFailures,
        Working, NoLease, marker, history
<1>1. ASSUME NEW t, ClaimNextDelivery(c, t) PROVE GiveUpInv'
  <2>1. PICK i \in NextOf(t) :
          /\ status' = [status EXCEPT ![line[i]] = "claimed"]
          /\ lease' = [lease EXCEPT ![c] = [at |-> "send", drawer |-> line[i],
                                            retries |-> retries[line[i]]]]
          /\ UNCHANGED <<retries, failures>>
    BY <1>1 DEF ClaimNextDelivery
  <2>2. line[i] \in Request
    BY <2>1, NextIsEligible
  <2> QED BY <2>1, <2>2
<1>2. CASE Send(c)
  <2>1. \A d \in Consumer : /\ lease'[d].drawer = lease[d].drawer
                            /\ lease'[d].retries = lease[d].retries
                            /\ lease'[d].at \in Working => lease[d].at \in Working
    <3>1. PICK at \in {"sent", "failed"} :
            /\ lease' = [lease EXCEPT ![c] = [lease[c] EXCEPT !.at = at]]
            /\ lease[c].at = "send"
      BY <1>2, SendFrame
    <3>2. lease'[c] = [lease[c] EXCEPT !.at = at] /\ \A d \in Consumer \ {c} : lease'[d] = lease[d]
      BY <3>1
    <3> QED BY <3>1, <3>2
  <2>2. UNCHANGED <<status, retries, failures>>
    BY <1>2 DEF Send
  <2> QED BY <2>1, <2>2
<1>3. CASE MarkDeliverySent(c)
  BY <1>3 DEF MarkDeliverySent
<1>4. CASE MarkDeliveryFailed(c)
  <2> DEFINE r == lease[c].drawer
  <2>1. r \in Request /\ lease[c].retries <= failures[r] /\ lease[c].retries \in Nat
    BY <1>4 DEF MarkDeliveryFailed
  <2>2. /\ retries' = [retries EXCEPT ![r] = NextRetry(c)]
        /\ failures' = [failures EXCEPT ![r] = failures[r] + 1]
        /\ status' = [status EXCEPT ![r] = IF NextRetry(c) >= MaxRetries THEN "dead" ELSE "failed"]
        /\ NextRetry(c) = lease[c].retries + 1
    BY <1>4 DEF MarkDeliveryFailed, NextRetry
  <2>3. \A d \in Consumer : lease'[d].at \in Working => d # c /\ lease'[d] = lease[d]
    BY <1>4 DEF MarkDeliveryFailed
  <2>4. \A s \in Request : failures[s] <= failures'[s]
    BY <2>1, <2>2
  <2>5. \A s \in Request : retries'[s] <= failures'[s]
    BY <2>1, <2>2
  <2>6. \A s \in Request : status'[s] = "dead" => failures'[s] >= MaxRetries
    BY <2>1, <2>2
  <2>7. ASSUME NEW d \in Consumer, lease'[d].at \in Working
        PROVE  lease'[d].retries <= failures'[lease'[d].drawer]
    <3>1. lease'[d] = lease[d] /\ lease[d].at \in Working
      BY <2>3, <2>7
    <3>2. lease[d].drawer \in Request /\ lease[d].retries \in Nat
      BY <3>1
    <3> QED BY SMTT(30), <3>1, <3>2, <2>4, <2>2, <2>1
  <2> QED BY <2>5, <2>6, <2>7
<1>5. CASE DeadAlert(c)
  BY <1>5 DEF DeadAlert
<1>6. CASE ConsumerCrash(c)
  BY <1>6 DEF ConsumerCrash
<1> QED BY <1>1, <1>2, <1>3, <1>4, <1>5, <1>6 DEF Work

\* The endpoint, the clock and the reaper touch neither retries nor failures,
\* and none of them makes a row dead.
LEMMA GiveUpRest ==
  ASSUME Typed, GiveUpInv,
         UNCHANGED <<retries, failures, lease>>,
         \A r \in Request : status'[r] = "dead" => status[r] = "dead"
  PROVE  GiveUpInv'
BY DEF GiveUpInv, RetriesAreFailures, DeadOnlyAfterFailures

\* A delivery is given up only after MaxRetries failures were reported for it,
\* however many leases ended, whichever report came late and counted from the
\* retries it had claimed (markDeliveryFailed, reapStaleDeliveryClaims).
THEOREM GivenUpAfterFailures == Spec => []DeadOnlyAfterFailures
<1>1. Init => GiveUpInv
  BY PaDeliveryAssumption
     DEF Init, GiveUpInv, RetriesAreFailures, DeadOnlyAfterFailures, NoLease, Working
<1>2. Typed /\ GiveUpInv /\ [Next]_vars => GiveUpInv'
  <2> SUFFICES ASSUME Typed, GiveUpInv, [Next]_vars PROVE GiveUpInv'
    OBVIOUS
  <2>1. ASSUME NEW r \in Request, Endpoint(r) \/ Age(r) \/ Release(r) PROVE GiveUpInv'
    <3>1. UNCHANGED <<retries, failures, lease>>
          /\ \A s \in Request : status'[s] = "dead" => status[s] = "dead"
      BY <2>1 DEF Typed, TypeOK, Endpoint, Check, WritePending, EnqueueDelivery, EnqueueFails,
                  Age, Release, marker, history, endpoint
    <3> QED BY <3>1, GiveUpRest
  <2>2. ASSUME NEW c \in Consumer, Work(c) \/ ConsumerCrash(c) PROVE GiveUpInv'
    BY <2>2, GiveUpWork
  <2>3. ASSUME NEW S \in SUBSET Request, ReapStaleClaims(S) PROVE GiveUpInv'
    <3>1. UNCHANGED <<retries, failures, lease>>
          /\ \A s \in Request : status'[s] = "dead" => status[s] = "dead"
      BY <2>3 DEF Typed, TypeOK, ReapStaleClaims, Reaped
    <3> QED BY <3>1, GiveUpRest
  <2>4. CASE UNCHANGED vars
    BY <2>4, GiveUpRest DEF vars, marker, history
  <2> QED BY <2>1, <2>2, <2>3, <2>4 DEF Next, Reap
<1>3. GiveUpInv => DeadOnlyAfterFailures
  BY DEF GiveUpInv
<1> QED BY <1>1, <1>2, <1>3, TypesHold, PTL DEF Spec

-----------------------------------------------------------------------------
(* Duplicates *)

\* Leases of r whose message may still go out, or come back as failed.
Risk(r) == {c \in Consumer : lease[c].drawer = r /\ lease[c].at \in {"send", "failed"}}

\* r can still be leased, now or when its dead consumer has been noticed.
Open(r) ==
  \/ status[r] \in {"none", "null", "failed"}
  \/ status[r] = "claimed" /\ ~Held(r)

Chance(r) == Cardinality(Risk(r)) + (IF Open(r) THEN 1 ELSE 0)

\* A marker that the endpoint has not written yet has no state, and is leased
\* by nobody.
Unmarked ==
  /\ \A r \in Request : notify[r] # "queued" => status[r] = "none"
  /\ \A c \in Consumer : lease[c].at # "idle" => status[lease[c].drawer] # "none"

\* The sends that are still possible are paid for like those that were made.
SendsArePaid ==
  \A r \in Request : sends[r] + Chance(r) <= 1 + crashes + overruns

DupInv == Unmarked /\ SendsArePaid

LEMMA RiskIsFinite ==
  \A r : IsFiniteSet(Risk(r)) /\ Cardinality(Risk(r)) \in Nat
BY PaDeliveryAssumption, FS_Subset, FS_CardinalityType DEF Risk

LEMMA CountersAreNat ==
  Typed => /\ crashes \in Nat /\ overruns \in Nat
           /\ \A r \in Request : sends[r] \in Nat
BY PaDeliveryAssumption DEF Typed, TypeOK

\* A drawer whose risk and openness do not grow, and that is not sent again,
\* stays paid.
LEMMA StaysPaid ==
  ASSUME Typed, Typed', SendsArePaid, NEW r \in Request,
         sends'[r] = sends[r], crashes' >= crashes, overruns' >= overruns,
         Risk(r)' \subseteq Risk(r), Open(r)' => Open(r)
  PROVE  sends'[r] + Chance(r)' <= 1 + crashes' + overruns'
<1>1. Cardinality(Risk(r)') <= Cardinality(Risk(r))
  BY RiskIsFinite, FS_Subset
<1>2. Cardinality(Risk(r)') \in Nat /\ Cardinality(Risk(r)) \in Nat
  BY RiskIsFinite, FS_Subset, FS_CardinalityType
<1>3. sends[r] + (Cardinality(Risk(r)) + (IF Open(r) THEN 1 ELSE 0)) <= 1 + crashes + overruns
  BY DEF SendsArePaid, Chance
<1>4. /\ sends[r] \in Nat /\ crashes \in Nat /\ overruns \in Nat
      /\ crashes' \in Nat /\ overruns' \in Nat
  BY PaDeliveryAssumption DEF Typed, TypeOK
<1>5. sends'[r] + (Cardinality(Risk(r)') + (IF Open(r)' THEN 1 ELSE 0)) <= 1 + crashes' + overruns'
  BY <1>1, <1>2, <1>3, <1>4
<1> QED BY <1>5 DEF Chance

\* A fault may open a drawer once more.
LEMMA FaultPays ==
  ASSUME Typed, Typed', SendsArePaid, NEW r \in Request,
         sends'[r] = sends[r], crashes' + overruns' > crashes + overruns,
         Risk(r)' \subseteq Risk(r)
  PROVE  sends'[r] + Chance(r)' <= 1 + crashes' + overruns'
<1>1. Cardinality(Risk(r)') <= Cardinality(Risk(r))
  BY RiskIsFinite, FS_Subset
<1>2. Cardinality(Risk(r)') \in Nat /\ Cardinality(Risk(r)) \in Nat
  BY RiskIsFinite, FS_Subset, FS_CardinalityType
<1>3. sends[r] + Cardinality(Risk(r)) <= 1 + crashes + overruns
  BY <1>2, CountersAreNat DEF SendsArePaid, Chance
<1>4. /\ sends[r] \in Nat /\ crashes \in Nat /\ overruns \in Nat
      /\ crashes' \in Nat /\ overruns' \in Nat
  BY PaDeliveryAssumption DEF Typed, TypeOK
<1>5. PICK few \in Nat, many \in Nat, open \in {0, 1} :
         /\ few = Cardinality(Risk(r)') /\ many = Cardinality(Risk(r))
         /\ open = IF Open(r)' THEN 1 ELSE 0
  BY <1>2
<1>6. PICK s \in Nat, c \in Nat, o \in Nat, d \in Nat, p \in Nat :
         /\ s = sends[r] /\ c = crashes /\ o = overruns /\ d = crashes' /\ p = overruns'
  BY <1>4
<1>7. few <= many /\ s + many <= 1 + c + o /\ d + p > c + o
  <2>1. few <= many
    BY <1>1, <1>5
  <2>2. s + many <= 1 + c + o
    BY <1>3, <1>5, <1>6
  <2>3. d + p > c + o
    BY <1>6
  <2> QED BY <2>1, <2>2, <2>3
<1>8. s + (few + open) <= 1 + d + p
  <2>1. open <= 1
    OBVIOUS
  <2>2. s + many <= 1 + c + o /\ 1 + (1 + c + o) <= 1 + d + p
    BY <1>7
  <2>3. s + few <= s + many
    BY <1>7
  <2>4. PICK x \in Nat, y \in Nat, z \in Nat :
           x = s + few /\ y = 1 + c + o /\ z = 1 + d + p
    OBVIOUS
  <2>5. x <= y /\ 1 + y <= z
    BY <2>2, <2>3, <2>4
  <2>6. x + open <= z
    BY <2>1, <2>5
  <2> QED BY <2>4, <2>6
<1>9. sends'[r] + (few + open) <= 1 + crashes' + overruns'
  BY <1>6, <1>8
<1> QED BY <1>5, <1>9 DEF Chance

\* A claim turns the chance that an open drawer is into the risk of a lease.
LEMMA ClaimPays ==
  ASSUME Typed, Typed', SendsArePaid, NEW c \in Consumer, NEW t, ClaimNextDelivery(c, t)
  PROVE  SendsArePaid'
<1>1. PICK i \in NextOf(t) :
        /\ lease[c].at = "idle"
        /\ status' = [status EXCEPT ![line[i]] = "claimed"]
        /\ lease' = [lease EXCEPT ![c] = [at |-> "send", drawer |-> line[i],
                                          retries |-> retries[line[i]]]]
        /\ UNCHANGED <<sends, crashes, overruns>>
  BY DEF ClaimNextDelivery, history
<1>0. PICK q \in Request : q = line[i]
  BY <1>1, NextIsEligible DEF Typed
<1>2. q = line[i] /\ status[q] \in {"null", "failed"}
  BY <1>0, <1>1, NextIsEligible DEF Typed
<1>3. /\ status' = [status EXCEPT ![q] = "claimed"]
      /\ lease'[c].at = "send" /\ lease'[c].drawer = q
      /\ \A d \in Consumer \ {c} : lease'[d] = lease[d]
  BY <1>0, <1>1 DEF Typed, TypeOK
<1>4. ASSUME NEW r \in Request \ {q}
      PROVE  Risk(r)' \subseteq Risk(r) /\ (Open(r)' => Open(r))
  <2>1. status'[r] = status[r]
    BY <1>3 DEF Typed, TypeOK
  <2>2. Risk(r)' \subseteq Risk(r)
    BY <1>3 DEF Risk
  <2>3. Held(r) => Held(r)'
    BY <1>1, <1>3 DEF Held
  <2> QED BY <2>1, <2>2, <2>3 DEF Open
<1>5. sends'[q] + Chance(q)' <= 1 + crashes' + overruns'
  <2>1. Risk(q)' = Risk(q) \union {c} /\ c \notin Risk(q)
    BY <1>1, <1>3 DEF Risk
  <2>2. Cardinality(Risk(q)') = Cardinality(Risk(q)) + 1
    BY <2>1, RiskIsFinite, FS_AddElement
  <2>3. Open(q) /\ sends[q] \in Nat
    BY <1>2, CountersAreNat DEF Open
  <2>4. ~Open(q)'
    BY <1>2, <1>3 DEF Open, Held, Typed, TypeOK
  <2>5. sends[q] + (Cardinality(Risk(q)) + 1) <= 1 + crashes + overruns
    BY <2>3, <1>0 DEF SendsArePaid, Chance
  <2>6. Chance(q)' = Cardinality(Risk(q)') /\ UNCHANGED <<sends, crashes, overruns>>
    BY <2>2, <2>4, <1>1, RiskIsFinite DEF Chance
  <2> QED BY <2>2, <2>5, <2>6, <1>2, RiskIsFinite, CountersAreNat
<1>6. ASSUME NEW r \in Request PROVE sends'[r] + Chance(r)' <= 1 + crashes' + overruns'
  <2>1. CASE r = q
    BY <2>1, <1>5
  <2>2. CASE r # q
    BY <2>2, <1>4, <1>1, StaysPaid, CountersAreNat
  <2> QED BY <2>1, <2>2
<1> QED BY <1>6 DEF SendsArePaid

\* A send uses up the risk of its lease.
LEMMA SendPays ==
  ASSUME Typed, Typed', SendsArePaid, NEW c \in Consumer, Send(c)
  PROVE  SendsArePaid'
<1>0. PICK q \in Request : q = lease[c].drawer
  BY DEF Send, MarkDeliveryFailed, Typed, LeasesName
<1>1. q = lease[c].drawer /\ lease[c].at = "send" /\ UNCHANGED <<status, crashes, overruns>>
  BY <1>0 DEF Send, Typed, LeasesName, marker
<1>2. \A d \in Consumer : lease'[d].drawer = lease[d].drawer /\ (d # c => lease'[d] = lease[d])
  BY SMTT(30) DEF Send, Typed, TypeOK
<1>3. lease'[c].at \in {"sent", "failed"}
  BY DEF Send, Typed, TypeOK
<1>4. \A r : Held(r)' <=> Held(r)
  BY <1>1, <1>2, <1>3 DEF Held
<1>5. \A r : Risk(r)' \subseteq Risk(r)
  BY <1>1, <1>2 DEF Risk
<1>6. \A r \in Request : Open(r)' <=> Open(r)
  BY <1>1, <1>4 DEF Open
<1>7. CASE lease'[c].at = "sent"
  <2>1. sends' = [sends EXCEPT ![q] = sends[q] + 1]
    BY <1>7, <1>0 DEF Send, Typed, TypeOK
  <2>2. Risk(q)' = Risk(q) \ {c} /\ c \in Risk(q)
    BY <1>1, <1>2, <1>7 DEF Risk
  <2>3. Cardinality(Risk(q)') = Cardinality(Risk(q)) - 1
    BY <2>2, RiskIsFinite, FS_RemoveElement
  <2>4. sends'[q] + Chance(q)' <= 1 + crashes' + overruns'
    <3>1. sends[q] + (Cardinality(Risk(q)) + (IF Open(q) THEN 1 ELSE 0)) <= 1 + crashes + overruns
      BY <1>1 DEF SendsArePaid, Chance
    <3>2. sends'[q] = sends[q] + 1 /\ sends[q] \in Nat /\ crashes \in Nat /\ overruns \in Nat
      BY SMTT(30), <2>1, <1>1, PaDeliveryAssumption DEF Typed, TypeOK
    <3>3. Chance(q)' = Cardinality(Risk(q)) - 1 + (IF Open(q) THEN 1 ELSE 0)
      BY <2>3, <1>6, <1>1 DEF Chance
    <3> QED BY <3>1, <3>2, <3>3, <1>1, RiskIsFinite
  <2>5. ASSUME NEW r \in Request PROVE sends'[r] + Chance(r)' <= 1 + crashes' + overruns'
    <3>1. CASE r = q
      BY <3>1, <2>4
    <3>2. CASE r # q
      <4>1. sends'[r] = sends[r]
        BY <3>2, <2>1 DEF Typed, TypeOK
      <4> QED BY <4>1, <1>1, <1>5, <1>6, StaysPaid, CountersAreNat
    <3> QED BY <3>1, <3>2
  <2> QED BY <2>5 DEF SendsArePaid
<1>8. CASE lease'[c].at = "failed"
  <2>1. sends' = sends
    BY <1>8, SendFrame DEF Typed, TypeOK
  <2>2. ASSUME NEW r \in Request PROVE sends'[r] + Chance(r)' <= 1 + crashes' + overruns'
    BY <2>1, <1>1, <1>5, <1>6, StaysPaid, CountersAreNat
  <2> QED BY <2>2 DEF SendsArePaid
<1> QED BY <1>3, <1>7, <1>8

\* A failed attempt that is reported gives its risk back to the drawer, even
\* when it overwrites the claim of another consumer.
LEMMA FailurePays ==
  ASSUME Typed, Typed', SendsArePaid, NEW c \in Consumer, MarkDeliveryFailed(c)
  PROVE  SendsArePaid'
<1>0. PICK q \in Request : q = lease[c].drawer
  BY DEF Send, MarkDeliveryFailed, Typed, LeasesName
<1>1. q = lease[c].drawer /\ lease[c].at = "failed" /\ UNCHANGED <<sends, crashes, overruns>>
  BY <1>0 DEF MarkDeliveryFailed, Typed, LeasesName
<1>2. lease'[c].at \in {"alert", "idle"} /\ \A d \in Consumer \ {c} : lease'[d] = lease[d]
  BY DEF MarkDeliveryFailed, Typed, TypeOK, NoLease
<1>3. \A r \in Request \ {q} : status'[r] = status[r]
  BY <1>0 DEF MarkDeliveryFailed, Typed, TypeOK
<1>4. \A r \in Request \ {q} : Risk(r)' \subseteq Risk(r) /\ (Held(r) => Held(r)')
  BY <1>1, <1>2 DEF Risk, Held
<1>5. sends'[q] + Chance(q)' <= 1 + crashes' + overruns'
  <2>1. Risk(q)' = Risk(q) \ {c} /\ c \in Risk(q)
    BY <1>1, <1>2 DEF Risk
  <2>2. Cardinality(Risk(q)') = Cardinality(Risk(q)) - 1
    BY <2>1, RiskIsFinite, FS_RemoveElement
  <2>3. sends[q] + Cardinality(Risk(q)) <= 1 + crashes + overruns
    BY <1>1, RiskIsFinite, CountersAreNat DEF SendsArePaid, Chance
  <2>4. Chance(q)' <= Cardinality(Risk(q)) /\ Chance(q)' \in Int
    BY <2>2, RiskIsFinite DEF Chance
  <2> QED BY <2>3, <2>4, <1>1, RiskIsFinite, CountersAreNat
<1>6. ASSUME NEW r \in Request PROVE sends'[r] + Chance(r)' <= 1 + crashes' + overruns'
  <2>1. CASE r = q
    BY <2>1, <1>5
  <2>2. CASE r # q
    <3>1. Open(r)' => Open(r)
      BY <2>2, <1>3, <1>4 DEF Open
    <3> QED BY <2>2, <3>1, <1>1, <1>4, StaysPaid, CountersAreNat
  <2> QED BY <2>1, <2>2
<1> QED BY <1>6 DEF SendsArePaid

\* The consumers keep the account.
LEMMA WorkPays ==
  ASSUME Typed, Typed', SendsArePaid, NEW c \in Consumer, Work(c) \/ ConsumerCrash(c)
  PROVE  SendsArePaid'
<1>1. CASE MarkDeliverySent(c)
  <2>0. PICK q \in Request : q = lease[c].drawer
    BY <1>1 DEF MarkDeliverySent, Typed, LeasesName
  <2>1. /\ q = lease[c].drawer /\ lease[c].at = "sent" /\ UNCHANGED <<sends, crashes, overruns>>
        /\ status' = [status EXCEPT ![q] = "sent"]
        /\ lease'[c].at = "idle" /\ \A d \in Consumer \ {c} : lease'[d] = lease[d]
    BY <1>1, <2>0 DEF MarkDeliverySent, Typed, TypeOK, LeasesName, NoLease, history
  <2>2. ASSUME NEW r \in Request PROVE sends'[r] + Chance(r)' <= 1 + crashes' + overruns'
    <3>1. Risk(r)' \subseteq Risk(r)
      BY <2>1 DEF Risk
    <3>2. Open(r)' => Open(r)
      <4>1. CASE r = q
        BY <2>1, <4>1 DEF Open, Typed, TypeOK
      <4>2. CASE r # q
        BY <2>1, <4>2 DEF Open, Held, Typed, TypeOK
      <4> QED BY <4>1, <4>2
    <3> QED BY <2>1, <3>1, <3>2, StaysPaid, CountersAreNat
  <2> QED BY <2>2 DEF SendsArePaid
<1>2. CASE DeadAlert(c)
  <2>1. /\ lease[c].at = "alert" /\ UNCHANGED <<sends, crashes, overruns, status>>
        /\ lease'[c].at = "idle" /\ \A d \in Consumer \ {c} : lease'[d] = lease[d]
    BY <1>2 DEF DeadAlert, Typed, TypeOK, NoLease, marker, history
  <2>2. ASSUME NEW r \in Request PROVE sends'[r] + Chance(r)' <= 1 + crashes' + overruns'
    <3>1. Risk(r)' \subseteq Risk(r)
      BY <2>1 DEF Risk
    <3>2. Open(r)' => Open(r)
      BY <2>1 DEF Open, Held
    <3> QED BY <2>1, <3>1, <3>2, StaysPaid, CountersAreNat
  <2> QED BY <2>2 DEF SendsArePaid
<1>3. CASE ConsumerCrash(c)
  <2>1. /\ UNCHANGED <<sends, overruns>> /\ crashes' = crashes + 1
        /\ lease'[c].at = "idle" /\ \A d \in Consumer \ {c} : lease'[d] = lease[d]
    BY <1>3 DEF ConsumerCrash, Typed, TypeOK, NoLease
  <2>2. ASSUME NEW r \in Request PROVE sends'[r] + Chance(r)' <= 1 + crashes' + overruns'
    <3>1. Risk(r)' \subseteq Risk(r)
      BY <2>1 DEF Risk
    <3> QED BY <2>1, <3>1, FaultPays, CountersAreNat
  <2> QED BY <2>2 DEF SendsArePaid
<1> QED BY <1>1, <1>2, <1>3, ClaimPays, SendPays, FailurePays DEF Work

\* The reaper opens the drawers of dead consumers, which were open before, and
\* those of slow ones, each of which is a fault.
LEMMA ReapPays ==
  ASSUME Typed, Typed', SendsArePaid, NEW S \in SUBSET Request, ReapStaleClaims(S)
  PROVE  SendsArePaid'
<1> DEFINE slow == {r \in S : Held(r)}
<1>1. /\ UNCHANGED <<sends, crashes, lease>> /\ overruns' = overruns + Cardinality(slow)
      /\ \A r \in S : status[r] = "claimed"
      /\ \A r \in Request : status'[r] = IF r \in S THEN "failed" ELSE status[r]
  BY DEF ReapStaleClaims, Reaped
<1>2. IsFiniteSet(slow) /\ Cardinality(slow) \in Nat
  BY PaDeliveryAssumption, FS_Subset, FS_CardinalityType
<1>3. ASSUME NEW r \in Request PROVE sends'[r] + Chance(r)' <= 1 + crashes' + overruns'
  <2>1. Risk(r)' \subseteq Risk(r)
    BY <1>1 DEF Risk
  <2>2. CASE r \in slow
    <3>1. Cardinality(slow) # 0
      BY <2>2, <1>2, FS_EmptySet
    <3> HIDE DEF slow
    <3> QED BY <3>1, <1>1, <1>2, <2>1, FaultPays, CountersAreNat
  <2>3. CASE r \notin slow
    <3>1. Open(r)' => Open(r)
      BY <2>3, <1>1 DEF Open, Held
    <3> HIDE DEF slow
    <3> QED BY <3>1, <1>1, <1>2, <2>1, StaysPaid, CountersAreNat
  <2> QED BY <2>2, <2>3
<1> QED BY <1>3 DEF SendsArePaid

\* The endpoint writes a marker once, for a drawer that could be sent anyway.
LEMMA EndpointPays ==
  ASSUME Typed, Typed', DupInv, NEW q \in Request, Endpoint(q) \/ Age(q) \/ Release(q)
  PROVE  DupInv'
<1>1. UNCHANGED <<lease, sends, crashes, overruns>>
  BY DEF Endpoint, Check, WritePending, EnqueueDelivery, EnqueueFails, Age, Release, history
<1>2. ASSUME NEW r \in Request
      PROVE  \/ status'[r] = status[r] /\ (notify[r] = "queued" => notify'[r] = "queued")
             \/ status[r] = "none" /\ status'[r] = "null" /\ notify'[r] = "queued"
  BY ZenonT(30) DEF Endpoint, Check, WritePending, EnqueueDelivery, EnqueueFails, Age, Release, marker,
         endpoint, Typed, TypeOK, DupInv, Unmarked
<1>3. Unmarked'
  BY <1>1, <1>2 DEF DupInv, Unmarked, Typed, LeasesName
<1>4. ASSUME NEW r \in Request PROVE sends'[r] + Chance(r)' <= 1 + crashes' + overruns'
  <2>1. Risk(r)' \subseteq Risk(r) /\ (Open(r)' => Open(r))
    BY <1>1, <1>2 DEF Risk, Open, Held
  <2> QED BY <1>1, <2>1, StaysPaid, CountersAreNat DEF DupInv
<1> QED BY <1>3, <1>4 DEF DupInv, SendsArePaid

\* The consumers only change markers that were written.
LEMMA WorkUnmarked ==
  ASSUME Typed, Unmarked, NEW c \in Consumer, Work(c) \/ ConsumerCrash(c)
  PROVE  Unmarked'
<1> DEFINE Marks ==
      /\ \A r \in Request : (status'[r] = "none") = (status[r] = "none")
      /\ \A d \in Consumer \ {c} : lease'[d] = lease[d]
      /\ \/ lease'[c].at = "idle"
         \/ lease'[c].drawer = lease[c].drawer /\ lease[c].at # "idle"
         \/ lease'[c].drawer \in Request /\ status[lease'[c].drawer] # "none"
<1>0. \A t : \A i \in NextOf(t) : line[i] \in Request /\ status[line[i]] \in {"null", "failed"}
  BY NextIsEligible DEF Typed
<1>1. UNCHANGED notify
  BY DEF Work, ClaimNextDelivery, Send, MarkDeliverySent, MarkDeliveryFailed, DeadAlert,
         ConsumerCrash, endpoint
<1>2. Marks
  <2> USE DEF Typed, TypeOK, LeasesName, Unmarked, NoLease, marker
  <2>1. ASSUME NEW t, ClaimNextDelivery(c, t) PROVE Marks
    <3>1. PICK i \in NextOf(t) :
            /\ status' = [status EXCEPT ![line[i]] = "claimed"]
            /\ lease' = [lease EXCEPT ![c] = [at |-> "send", drawer |-> line[i],
                                              retries |-> retries[line[i]]]]
      BY <2>1 DEF ClaimNextDelivery
    <3>2. line[i] \in Request /\ status[line[i]] \in {"null", "failed"}
      BY <3>1, <1>0
    <3> QED BY <3>1, <3>2
  <2>2. CASE Send(c)
    <3>1. /\ status' = status /\ lease[c].at = "send" /\ lease'[c].drawer = lease[c].drawer
          /\ \A d \in Consumer \ {c} : lease'[d] = lease[d]
      BY <2>2, SendFrame
    <3> QED BY <3>1
  <2>3. CASE MarkDeliverySent(c)
    BY <2>3 DEF MarkDeliverySent
  <2>4. CASE MarkDeliveryFailed(c)
    <3>1. /\ lease'[c].at = "idle" \/ lease'[c].drawer = lease[c].drawer
          /\ \A d \in Consumer \ {c} : lease'[d] = lease[d]
          /\ lease[c].at = "failed"
      BY <2>4 DEF MarkDeliveryFailed
    <3>2. \A r \in Request : (status'[r] = "none") = (status[r] = "none")
      BY <2>4 DEF MarkDeliveryFailed
    <3> QED BY <3>1, <3>2
  <2>5. CASE DeadAlert(c)
    BY <2>5 DEF DeadAlert
  <2>6. CASE ConsumerCrash(c)
    BY <2>6 DEF ConsumerCrash
  <2> QED BY <2>1, <2>2, <2>3, <2>4, <2>5, <2>6 DEF Work
<1>3. \A d \in Consumer : lease'[d].at # "idle" => status'[lease'[d].drawer] # "none"
  <2>1. ASSUME NEW d \in Consumer, lease'[d].at # "idle"
        PROVE  lease'[d].drawer \in Request /\ status[lease'[d].drawer] # "none"
    BY <1>2, <2>1 DEF Unmarked, Typed, LeasesName
  <2> QED BY <2>1, <1>2
<1> QED BY <1>1, <1>2, <1>3 DEF Unmarked

\* A message reaches the user once, and once more for each consumer that
\* crashed or outlived its lease, whatever the reports that arrive late
\* (claimNextDelivery, markDeliverySent, markDeliveryFailed,
\* reapStaleDeliveryClaims).
THEOREM SendsAreAccountedFor == Spec => []DuplicatesAreAccountedFor
<1>1. Typed /\ Init => DupInv
  <2> SUFFICES ASSUME Typed, Init PROVE DupInv
    OBVIOUS
  <2>1. ASSUME NEW r \in Request PROVE sends[r] + Chance(r) <= 1 + crashes + overruns
    <3>1. Risk(r) = {}
      BY DEF Init, Risk, NoLease
    <3>2. Cardinality(Risk(r)) = 0
      BY <3>1, FS_EmptySet
    <3> QED BY <3>2 DEF Init, Chance
  <2> QED BY <2>1 DEF Init, DupInv, Unmarked, SendsArePaid, NoLease
<1>2. Typed /\ Typed' /\ DupInv /\ [Next]_vars => DupInv'
  <2> SUFFICES ASSUME Typed, Typed', DupInv, [Next]_vars PROVE DupInv'
    OBVIOUS
  <2>1. ASSUME NEW r \in Request, Endpoint(r) \/ Age(r) \/ Release(r) PROVE DupInv'
    BY <2>1, EndpointPays
  <2>2. ASSUME NEW c \in Consumer, Work(c) \/ ConsumerCrash(c) PROVE DupInv'
    BY <2>2, WorkPays, WorkUnmarked DEF DupInv
  <2>3. ASSUME NEW S \in SUBSET Request, ReapStaleClaims(S) PROVE DupInv'
    <3>1. Unmarked'
      BY <2>3 DEF ReapStaleClaims, Reaped, DupInv, Unmarked, endpoint, Typed, TypeOK, LeasesName
    <3> QED BY <2>3, <3>1, ReapPays DEF DupInv
  <2>4. CASE UNCHANGED vars
    <3>1. UNCHANGED <<notify, status, lease, sends, crashes, overruns>>
      BY <2>4 DEF vars, endpoint, marker, history
    <3>2. ASSUME NEW r \in Request PROVE sends'[r] + Chance(r)' <= 1 + crashes' + overruns'
      <4>1. Risk(r)' \subseteq Risk(r) /\ (Open(r)' => Open(r))
        BY <3>1 DEF Risk, Open, Held
      <4> QED BY <3>1, <4>1, StaysPaid, CountersAreNat DEF DupInv
    <3> QED BY <3>1, <3>2 DEF DupInv, Unmarked, SendsArePaid
  <2> QED BY <2>1, <2>2, <2>3, <2>4 DEF Next, Reap
<1>3. Typed /\ DupInv => DuplicatesAreAccountedFor
  <2> SUFFICES ASSUME Typed, DupInv, NEW r \in Request
               PROVE  sends[r] <= 1 + crashes + overruns
    BY DEF Typed, DuplicatesAreAccountedFor
  <2> QED BY RiskIsFinite, CountersAreNat DEF DupInv, SendsArePaid, Chance
<1> QED BY <1>1, <1>2, <1>3, TypesHold, PTL DEF Spec

-----------------------------------------------------------------------------
(* The dispatcher: posts are accounted for *)

\* What is true of the key of the drawer the tick is at.
CurrentInv(d) ==
  LET k == KeyOf[d]
  IN  /\ pc # "look" => Kind[d] \in {"bound", "pa"}
      /\ pc \in {"paclaim", "pamark", "claim"} => Kind[d] = "pa"
      /\ pc \in {"paclaim", "pamark", "mark", "receipt"} => posts[k] > 0
      /\ pc \in {"send", "mark", "pamark"} => dispatch[k] = "claimed"
      /\ pc = "receipt" => dispatch[k] = "delivered"

\* The faults pay for the posts of a drawer that is not out, and for the first post of the
\* assistant when the channel is to follow, unless this tick made it.
Paid(d) ==
  LET k == KeyOf[d]
  IN  /\ pc = "fail" => posts[k] <= faults
      /\ Kind[d] = "pa" /\ pc \in {"claim", "send"} => posts[k] <= faults /\ (posts[k] = faults => k \in fresh)

Marking(k) == \E d \in batch : Current(d) /\ KeyOf[d] = k /\ pc \in {"mark", "paclaim", "pamark"}

\* A message that no fault pays for is out, or about to be marked so; and if the tick meets
\* another drawer of its key for the assistant, the key was queued by this tick.
PostsInv(k) ==
  /\ posts[k] <= 1 + faults
  /\ posts[k] > faults =>
       /\ dispatch[k] = "delivered" \/ Marking(k)
       /\ \A d \in batch : KeyOf[d] = k /\ Kind[d] = "pa" => k \in fresh

DispatchInv ==
  /\ DispatchTypeOK
  /\ batch = {} => pc = "look"
  /\ fresh \subseteq queued
  /\ \A k \in Keys : k \in queued \/ dispatch[k] = "delivered" => posts[k] > 0
  /\ \A d \in batch : Current(d) => CurrentInv(d) /\ (OneRoute(KeyOf[d]) => Paid(d))
  /\ \A k \in Keys : OneRoute(k) => PostsInv(k)

\* What the assumptions say of the drawers.
LEMMA DrawerFacts ==
  ASSUME DispatchTypeOK
  PROVE  /\ N \in Nat /\ MaxFaults \in Nat /\ written \in Nat /\ faults \in Nat
         /\ \A d \in Drawer : KeyOf[d] \in Keys
         /\ batch \subseteq Drawer /\ \A d \in batch : d \in Nat /\ KeyOf[d] \in Keys
<1>1. N \in Nat /\ MaxFaults \in Nat
  BY NotificationDispatchAssumption
<1>2. written \in Nat /\ faults \in Nat /\ written <= N
  BY <1>1 DEF DispatchTypeOK
<1>3. \A d \in Drawer : KeyOf[d] \in Keys
  BY DEF Keys
<1>4. batch \subseteq Drawer /\ \A d \in batch : d \in Nat
  BY <1>1, <1>2 DEF DispatchTypeOK, Drawer
<1> QED BY <1>1, <1>2, <1>3, <1>4

\* The tick is at one drawer.
LEMMA CurrentIsOne ==
  ASSUME DispatchTypeOK, NEW d \in batch, NEW e \in batch, Current(d), Current(e)
  PROVE  d = e
<1> QED BY DrawerFacts DEF Current

\* A post, counted.
LEMMA PostedType ==
  ASSUME DispatchTypeOK, NEW k \in Keys, posts' = [posts EXCEPT ![k] = posts[k] + 1]
  PROVE  /\ posts' \in [Keys -> Nat] /\ posts'[k] = posts[k] + 1
         /\ \A q \in Keys : posts'[q] >= posts[q] /\ (q # k => posts'[q] = posts[q])
<1> QED BY DEF DispatchTypeOK

\* What queueing a notification leaves.
LEMMA QueueType ==
  ASSUME DispatchTypeOK, NEW k \in Keys, Queue(k)
  PROVE  posts' \in [Keys -> Nat] /\ queued' \subseteq Keys /\ fresh' \subseteq Keys
<1> QED BY PostedType DEF Queue, DispatchTypeOK, assistant

\* The types of the dispatcher hold in every step.
LEMMA DispatchTypeNext ==
  ASSUME DispatchTypeOK, [DispatchNext]_dispatchVars
  PROVE  DispatchTypeOK'
<1>1. /\ N \in Nat /\ MaxFaults \in Nat /\ written \in Nat /\ faults \in Nat
      /\ \A d \in batch : KeyOf[d] \in Keys
  BY DrawerFacts
<1>2. ASSUME faults < MaxFaults, faults' = faults + 1 PROVE faults' \in 0 .. MaxFaults
  BY <1>1, <1>2
<1>3. CASE Write
  BY <1>1, <1>3 DEF Write, DispatchTypeOK, rows, assistant
<1>4. ASSUME NEW d \in Drawer, BecomeDue(d) PROVE DispatchTypeOK'
  BY <1>4 DEF BecomeDue, DispatchTypeOK, rows, assistant
<1>5. ASSUME NEW k \in Keys, BecomeStale(k) \/ Forget(k) PROVE DispatchTypeOK'
  BY <1>5 DEF BecomeStale, Forget, DispatchTypeOK, rows, assistant
<1>6. CASE Tick
  <2>1. quarantined' \subseteq Drawer
    <3>1. 1 .. written \subseteq Drawer
      BY <1>1 DEF DispatchTypeOK, Drawer
    <3>2. Malformed \subseteq Drawer
      BY <3>1 DEF Malformed
    <3> QED BY <1>6, <3>2 DEF Tick, DispatchTypeOK
  <2>2. batch' \subseteq 1 .. written'
    BY <1>6 DEF Tick, Oldest, Selectable, Visible, DispatchTypeOK
  <2>3. dispatch' \in [Keys -> {"none", "claimed", "delivered", "failed"}]
    BY <1>6 DEF Tick, DispatchTypeOK
  <2>4. stale' \subseteq {k \in Keys : dispatch'[k] = "claimed"}
    BY <1>6 DEF Tick, Lapsed, DispatchTypeOK
  <2> QED BY <1>6, <2>1, <2>2, <2>3, <2>4 DEF Tick, DispatchTypeOK, rows, assistant
<1>7. ASSUME NEW d \in batch, Skip(d) \/ Receipt(d) PROVE DispatchTypeOK'
  BY <1>7 DEF Skip, Receipt, NextDrawer, DispatchTypeOK, rows, assistant
<1>8. ASSUME NEW d \in batch, PaNotify(d) \/ PaFallsThrough(d) PROVE DispatchTypeOK'
  <2>1. posts' \in [Keys -> Nat] /\ queued' \subseteq Keys /\ fresh' \subseteq Keys
    BY <1>1, <1>8, QueueType DEF PaNotify, PaFallsThrough, DispatchTypeOK, assistant
  <2>2. faults' \in 0 .. MaxFaults
    BY <1>2, <1>8 DEF PaNotify, PaFallsThrough, DispatchTypeOK
  <2>3. pc' \in {"paclaim", "claim"} /\ UNCHANGED <<written, due, quarantined, rows, batch>>
    BY <1>8 DEF PaNotify, PaFallsThrough, AfterRewireError
  <2> QED BY <2>1, <2>2, <2>3 DEF DispatchTypeOK, rows
<1>9. ASSUME NEW d \in batch, Claim(d) PROVE DispatchTypeOK'
  <2> DEFINE k == KeyOf[d]
  <2>1. dispatch' \in [Keys -> {"none", "claimed", "delivered", "failed"}] /\ attempts' \in [Keys -> Nat]
    <3>1. /\ dispatch' = [dispatch EXCEPT ![k] = ClaimedBy(k)] /\ ClaimedBy(k) \in {"claimed", "delivered"}
          /\ attempts' = [attempts EXCEPT ![k] = attempts[k] + 1]
      BY <1>9 DEF Claim, ClaimedBy
    <3> QED BY <1>1, <3>1 DEF DispatchTypeOK
  <2>2. stale' \subseteq {q \in Keys : dispatch'[q] = "claimed"}
    BY <1>9 DEF Claim, DispatchTypeOK
  <2>3. pc' \in {"look", "send", "pamark"} /\ batch' \subseteq batch
    BY <1>9 DEF Claim, NextDrawer
  <2> QED BY <1>9, <2>1, <2>2, <2>3 DEF Claim, DispatchTypeOK, assistant
<1>10. ASSUME NEW d \in batch, Post(d) \/ PostTimesOut(d) PROVE DispatchTypeOK'
  <2>1. posts' \in [Keys -> Nat]
    BY <1>1, <1>10, PostedType DEF Post, PostTimesOut
  <2>2. faults' \in 0 .. MaxFaults
    BY <1>2, <1>10 DEF Post, PostTimesOut, DispatchTypeOK
  <2>3. pc' \in {"mark", "fail"} /\ UNCHANGED <<written, due, quarantined, rows, batch, assistant>>
    BY <1>10 DEF Post, PostTimesOut
  <2> QED BY <2>1, <2>2, <2>3 DEF DispatchTypeOK, rows, assistant
<1>11. ASSUME NEW d \in batch, PostRefused(d) \/ FailInside(d) PROVE DispatchTypeOK'
  <2>1. faults' \in 0 .. MaxFaults
    BY <1>2, <1>11 DEF PostRefused, FailInside, DispatchTypeOK
  <2>2. pc' = "fail" /\ UNCHANGED <<written, due, quarantined, rows, batch, posts, assistant>>
    BY <1>11 DEF PostRefused, FailInside
  <2> QED BY <2>1, <2>2 DEF DispatchTypeOK, rows, assistant
<1>12. ASSUME NEW d \in batch, MarkDelivered(d) \/ MarkFailed(d) PROVE DispatchTypeOK'
  <2>1. /\ dispatch' \in [Keys -> {"none", "claimed", "delivered", "failed"}]
        /\ stale' \subseteq {q \in Keys : dispatch'[q] = "claimed"}
    BY <1>12 DEF MarkDelivered, MarkFailed, DispatchTypeOK
  <2>2. pc' \in {"look", "receipt", "failreceipt"} /\ batch' \subseteq batch
    BY <1>12 DEF MarkDelivered, MarkFailed, NextDrawer
  <2> QED BY <1>12, <2>1, <2>2 DEF MarkDelivered, MarkFailed, DispatchTypeOK, assistant
<1>13. CASE Abort
  BY <1>2, <1>13 DEF Abort, DispatchTypeOK, rows, assistant
<1>14. CASE UNCHANGED dispatchVars
  BY <1>14 DEF dispatchVars, DispatchTypeOK, rows, assistant
<1> QED BY <1>3, <1>4, <1>5, <1>6, <1>7, <1>8, <1>9, <1>10, <1>11, <1>12, <1>13, <1>14
        DEF DispatchNext, Dispatch

\* The invariant behind a step that leaves the tick between two drawers, or over.
LEMMA BetweenDrawers ==
  ASSUME DispatchTypeOK', pc' = "look", fresh' \subseteq queued',
         \A k \in Keys : k \in queued' \/ dispatch'[k] = "delivered" => posts'[k] > 0,
         \A k \in Keys : OneRoute(k) =>
           /\ posts'[k] <= 1 + faults'
           /\ posts'[k] > faults' =>
                /\ dispatch'[k] = "delivered"
                /\ \A d \in batch' : KeyOf[d] = k /\ Kind[d] = "pa" => k \in fresh'
  PROVE  DispatchInv'
<1>1. \A k \in Keys : OneRoute(k) => PostsInv(k)'
  BY DEF PostsInv
<1>2. \A d \in batch' : CurrentInv(d)' /\ Paid(d)'
  BY DEF CurrentInv, Paid
<1> QED BY <1>1, <1>2 DEF DispatchInv

\* The invariant behind a step of the drawer d at which the tick stays.
LEMMA AtDrawer ==
  ASSUME DispatchTypeOK, DispatchTypeOK', NEW d \in batch, Current(d), batch' = batch,
         fresh' \subseteq queued',
         \A k \in Keys : k \in queued' \/ dispatch'[k] = "delivered" => posts'[k] > 0,
         CurrentInv(d)', OneRoute(KeyOf[d]) => Paid(d)',
         \A k \in Keys : OneRoute(k) =>
           /\ posts'[k] <= 1 + faults'
           /\ posts'[k] > faults' =>
                /\ \/ dispatch'[k] = "delivered"
                   \/ k = KeyOf[d] /\ pc' \in {"mark", "paclaim", "pamark"}
                /\ \A e \in batch : KeyOf[e] = k /\ Kind[e] = "pa" => k \in fresh'
  PROVE  DispatchInv'
<1>1. \A e \in batch : Current(e)' <=> Current(e)
  BY DEF Current
<1>2. \A e \in batch : Current(e) => e = d
  BY CurrentIsOne
<1>3. \A k \in Keys : OneRoute(k) => PostsInv(k)'
  BY <1>1 DEF PostsInv, Marking
<1>4. \A e \in batch' : Current(e)' => CurrentInv(e)' /\ (OneRoute(KeyOf[e]) => Paid(e)')
  BY <1>1, <1>2
<1> QED BY <1>3, <1>4 DEF DispatchInv

\* What the invariant says where the tick is at d.
LEMMA AtDrawerInv ==
  ASSUME DispatchInv, NEW d \in batch, Current(d)
  PROVE  /\ DispatchTypeOK /\ KeyOf[d] \in Keys /\ fresh \subseteq queued /\ faults \in Nat
         /\ \A k \in Keys : posts[k] \in Nat
         /\ \A k \in Keys : k \in queued \/ dispatch[k] = "delivered" => posts[k] > 0
         /\ CurrentInv(d) /\ (OneRoute(KeyOf[d]) => Paid(d))
         /\ \A k \in Keys : OneRoute(k) =>
              /\ posts[k] <= 1 + faults
              /\ posts[k] > faults =>
                   /\ \/ dispatch[k] = "delivered"
                      \/ k = KeyOf[d] /\ pc \in {"mark", "paclaim", "pamark"}
                   /\ \A e \in batch : KeyOf[e] = k /\ Kind[e] = "pa" => k \in fresh
<1>1. DispatchTypeOK /\ KeyOf[d] \in Keys /\ faults \in Nat /\ \A k \in Keys : posts[k] \in Nat
  <2>1. DispatchTypeOK
    BY DEF DispatchInv
  <2> QED BY <2>1, DrawerFacts DEF DispatchTypeOK
<1>2. \A e \in batch : Current(e) => e = d
  BY <1>1, CurrentIsOne
<1> QED BY <1>1, <1>2 DEF DispatchInv, PostsInv, Marking

\* The surroundings post nothing.
LEMMA DispatchSurroundings ==
  ASSUME DispatchInv, DispatchTypeOK',
         Write \/ (\E d \in Drawer : BecomeDue(d)) \/ (\E k \in Keys : BecomeStale(k) \/ Forget(k))
  PROVE  DispatchInv'
<1>1. UNCHANGED <<dispatch, batch, pc, posts, fresh, faults>>
  BY DEF Write, BecomeDue, BecomeStale, Forget, rows, assistant
<1>2. fresh' \subseteq queued' /\ queued' \subseteq queued
  BY DEF Write, BecomeDue, BecomeStale, Forget, assistant, DispatchInv
<1>3. \A d \in batch : /\ Current(d)' <=> Current(d)
                       /\ CurrentInv(d) => CurrentInv(d)'
                       /\ Paid(d) => Paid(d)'
  BY <1>1 DEF Current, CurrentInv, Paid
<1>4. \A k \in Keys : PostsInv(k) => PostsInv(k)'
  BY <1>1, <1>3 DEF PostsInv, Marking
<1> QED BY <1>1, <1>2, <1>3, <1>4 DEF DispatchInv

\* The next tick takes only keys whose posts the faults pay for.
LEMMA DispatchTick ==
  ASSUME DispatchInv, DispatchTypeOK', Tick
  PROVE  DispatchInv'
<1>1. /\ pc' = "look" /\ pc = "look" /\ fresh' = {} /\ UNCHANGED <<posts, queued, faults>>
  BY DEF Tick
<1>2. \A k \in Keys : dispatch'[k] = "delivered" <=> dispatch[k] = "delivered"
  BY DEF Tick, Lapsed, DispatchInv, DispatchTypeOK
<1>3. \A k \in Keys : ~Marking(k)
  BY <1>1 DEF Marking
<1>4. ASSUME NEW k \in Keys, NEW d \in batch', KeyOf[d] = k, Kind[d] = "pa"
      PROVE  dispatch[k] # "delivered"
  <2>1. d \in Selectable
    BY DEF Tick, Oldest
  <2>2. Retryable(k)
    BY <1>4, <2>1 DEF Selectable
  <2> QED BY <2>2 DEF Retryable, Lapsed
<1>5. ASSUME NEW k \in Keys, OneRoute(k), posts'[k] > faults'
      PROVE  /\ dispatch'[k] = "delivered"
             /\ \A d \in batch' : KeyOf[d] = k /\ Kind[d] = "pa" => k \in fresh'
  <2>1. dispatch[k] = "delivered"
    BY <1>1, <1>3, <1>5 DEF DispatchInv, PostsInv
  <2> QED BY <1>2, <1>4, <2>1
<1>6. \A k \in Keys : OneRoute(k) => posts'[k] <= 1 + faults'
  BY <1>1 DEF DispatchInv, PostsInv
<1>7. \A k \in Keys : k \in queued' \/ dispatch'[k] = "delivered" => posts'[k] > 0
  BY <1>1, <1>2 DEF DispatchInv
<1> QED BY <1>1, <1>5, <1>6, <1>7, BetweenDrawers

\* The steps that end with the next drawer.
LEMMA DispatchLeaves ==
  ASSUME DispatchInv, DispatchTypeOK', NEW d \in batch, Skip(d) \/ Receipt(d)
  PROVE  DispatchInv'
<1>1. /\ Current(d) /\ batch' = batch \ {d} /\ pc' = "look" /\ pc \in {"look", "receipt", "failreceipt"}
      /\ UNCHANGED <<dispatch, posts, queued, fresh, faults>>
  BY DEF Skip, Receipt, NextDrawer, rows, assistant
<1>2. \A k \in Keys : OneRoute(k) =>
        /\ posts[k] <= 1 + faults
        /\ posts[k] > faults =>
             /\ dispatch[k] = "delivered"
             /\ \A e \in batch : KeyOf[e] = k /\ Kind[e] = "pa" => k \in fresh
  BY <1>1, AtDrawerInv
<1>3. /\ fresh \subseteq queued
      /\ \A k \in Keys : k \in queued \/ dispatch[k] = "delivered" => posts[k] > 0
  BY DEF DispatchInv
<1> QED BY <1>1, <1>2, <1>3, BetweenDrawers

\* Queueing a notification: a post that the faults do not pay for is fresh.
LEMMA QueuePays ==
  ASSUME DispatchInv, NEW d \in batch, Current(d), pc = "look", Kind[d] = "pa", Queue(KeyOf[d])
  PROVE  LET k == KeyOf[d]
         IN  /\ k \in queued' /\ posts'[k] > 0 /\ fresh \subseteq fresh' /\ fresh' \subseteq queued'
             /\ \A q \in Keys : q # k => posts'[q] = posts[q] /\ (q \in queued' <=> q \in queued)
             /\ OneRoute(k) => /\ posts'[k] <= 1 + faults
                               /\ posts'[k] > faults => k \in fresh'
             /\ posts'[k] \in Nat
<1> DEFINE k == KeyOf[d]
<1>1. /\ DispatchTypeOK /\ k \in Keys /\ fresh \subseteq queued /\ faults \in Nat /\ posts[k] \in Nat
      /\ k \in queued => posts[k] > 0
  BY AtDrawerInv
<1>2. OneRoute(k) => /\ posts[k] <= 1 + faults
                     /\ posts[k] > faults => k \in fresh
  BY AtDrawerInv
<1> HIDE DEF k
<1>3. CASE k \in queued
  <2>1. UNCHANGED <<posts, queued, fresh>>
    BY <1>3 DEF Queue, assistant, k
  <2> QED BY <1>1, <1>2, <1>3, <2>1 DEF k
<1>4. CASE k \notin queued
  <2>1. /\ posts' = [posts EXCEPT ![k] = posts[k] + 1]
        /\ queued' = queued \union {k} /\ fresh' = fresh \union {k}
    BY <1>4 DEF Queue, k
  <2>2. posts'[k] = posts[k] + 1 /\ \A q \in Keys : q # k => posts'[q] = posts[q]
    BY <1>1, <2>1, PostedType
  <2>3. OneRoute(k) => posts[k] <= faults
    BY <1>1, <1>2, <1>4
  <2> QED BY <1>1, <2>1, <2>2, <2>3 DEF k
<1> QED BY <1>3, <1>4

\* The assistant is notified, or the attempt fails.
LEMMA DispatchPa ==
  ASSUME DispatchInv, DispatchTypeOK', NEW d \in batch, PaNotify(d) \/ PaFallsThrough(d)
  PROVE  DispatchInv'
<1> DEFINE k == KeyOf[d]
<1>1. /\ Current(d) /\ pc = "look" /\ Kind[d] = "pa" /\ batch' = batch /\ UNCHANGED dispatch
      /\ Queue(k) \/ UNCHANGED <<posts, queued, fresh>>
      /\ \/ pc' = "paclaim" /\ faults' = faults /\ Queue(k)
         \/ pc' = "claim" /\ faults' = faults + 1
  BY DEF PaNotify, PaFallsThrough, AfterRewireError, rows, assistant
<1>2. /\ DispatchTypeOK /\ k \in Keys /\ fresh \subseteq queued /\ faults \in Nat
      /\ \A q \in Keys : posts[q] \in Nat
      /\ \A q \in Keys : q \in queued \/ dispatch[q] = "delivered" => posts[q] > 0
      /\ \A q \in Keys : OneRoute(q) =>
           /\ posts[q] <= 1 + faults
           /\ posts[q] > faults =>
                /\ dispatch[q] = "delivered"
                /\ \A e \in batch : KeyOf[e] = q /\ Kind[e] = "pa" => q \in fresh
  BY <1>1, AtDrawerInv
<1>3. /\ fresh \subseteq fresh' /\ fresh' \subseteq queued' /\ posts'[k] \in Nat
      /\ k \in queued' \/ dispatch[k] = "delivered" => posts'[k] > 0
      /\ Queue(k) => posts'[k] > 0
      /\ \A q \in Keys : q # k => posts'[q] = posts[q] /\ (q \in queued' <=> q \in queued)
      /\ OneRoute(k) => /\ posts'[k] <= 1 + faults
                        /\ posts'[k] > faults => k \in fresh'
  <2>1. CASE Queue(k)
    BY <1>1, <2>1, QueuePays
  <2>2. CASE UNCHANGED <<posts, queued, fresh>> /\ ~Queue(k)
    BY <1>1, <1>2, <2>2
  <2> QED BY <1>1, <2>1, <2>2
<1> HIDE DEF k
<1>4. faults' \in Nat /\ faults' >= faults
  BY <1>1, <1>2
<1>5. \A q \in Keys : q \in queued' \/ dispatch'[q] = "delivered" => posts'[q] > 0
  BY <1>1, <1>2, <1>3
<1>6. ASSUME NEW q \in Keys, OneRoute(q)
      PROVE  /\ posts'[q] <= 1 + faults'
             /\ posts'[q] > faults' =>
                  /\ \/ dispatch'[q] = "delivered"
                     \/ q = k /\ pc' \in {"mark", "paclaim", "pamark"}
                  /\ \A e \in batch : KeyOf[e] = q /\ Kind[e] = "pa" => q \in fresh'
  <2>1. CASE q # k
    <3>1. posts'[q] = posts[q] /\ posts[q] \in Nat
      BY <1>2, <1>3, <2>1
    <3>2. posts'[q] <= 1 + faults'
      BY <1>2, <1>4, <1>6, <3>1
    <3>3. posts'[q] > faults' => posts[q] > faults
      BY <1>2, <1>4, <3>1
    <3> QED BY <1>1, <1>2, <1>3, <1>6, <3>2, <3>3
  <2>2. CASE q = k /\ pc' = "paclaim" /\ faults' = faults
    BY <1>3, <1>6, <2>2
  <2>3. CASE q = k /\ faults' = faults + 1
    BY <1>2, <1>3, <1>6, <2>3
  <2> QED BY <1>1, <2>1, <2>2, <2>3
<1>7. CurrentInv(d)' /\ (OneRoute(k) => Paid(d)')
  <2>1. CASE pc' = "paclaim" /\ Queue(k)
    BY <1>1, <1>3, <2>1 DEF CurrentInv, Paid, k
  <2>2. CASE pc' = "claim" /\ faults' = faults + 1
    <3>1. OneRoute(k) => posts'[k] <= faults' /\ (posts'[k] = faults' => k \in fresh')
      BY <1>2, <1>3, <2>2
    <3> QED BY <1>1, <2>2, <3>1 DEF CurrentInv, Paid, k
  <2> QED BY <1>1, <2>1, <2>2
<1> QED BY <1>1, <1>2, <1>3, <1>5, <1>6, <1>7, AtDrawer DEF k

\* The claim: what is delivered is left alone.
LEMMA DispatchClaim ==
  ASSUME DispatchInv, DispatchTypeOK', NEW d \in batch, Claim(d)
  PROVE  DispatchInv'
<1> DEFINE k == KeyOf[d]
<1>1. /\ Current(d) /\ UNCHANGED <<posts, queued, fresh, faults>>
      /\ dispatch' = [dispatch EXCEPT ![k] = ClaimedBy(k)]
      /\ pc \in {"look", "claim", "paclaim"} /\ (pc = "look" => Kind[d] = "bound")
      /\ IF ClaimedBy(k) = "delivered"
         THEN batch' = batch \ {d} /\ pc' = "look"
         ELSE batch' = batch /\ pc' = (IF pc = "paclaim" THEN "pamark" ELSE "send")
  BY DEF Claim, NextDrawer, assistant
<1>2. /\ DispatchTypeOK /\ k \in Keys /\ fresh \subseteq queued /\ faults \in Nat
      /\ \A q \in Keys : posts[q] \in Nat
      /\ \A q \in Keys : q \in queued \/ dispatch[q] = "delivered" => posts[q] > 0
      /\ CurrentInv(d) /\ (OneRoute(k) => Paid(d))
      /\ \A q \in Keys : OneRoute(q) =>
           /\ posts[q] <= 1 + faults
           /\ posts[q] > faults =>
                /\ dispatch[q] = "delivered" \/ (q = k /\ pc = "paclaim")
                /\ \A e \in batch : KeyOf[e] = q /\ Kind[e] = "pa" => q \in fresh
  BY <1>1, AtDrawerInv
<1>3. CASE dispatch[k] = "delivered"
  <2>1. dispatch' = dispatch /\ batch' = batch \ {d} /\ pc' = "look"
    BY <1>1, <1>2, <1>3 DEF ClaimedBy, DispatchTypeOK
  <2> HIDE DEF k
  <2> QED BY <1>1, <1>2, <1>3, <2>1, BetweenDrawers
<1>4. CASE dispatch[k] # "delivered"
  <2>1. /\ batch' = batch /\ pc' = (IF pc = "paclaim" THEN "pamark" ELSE "send")
        /\ dispatch' = [dispatch EXCEPT ![k] = "claimed"]
    BY <1>1, <1>4 DEF ClaimedBy
  <2>2. /\ dispatch'[k] = "claimed"
        /\ \A q \in Keys : q # k => dispatch'[q] = dispatch[q]
    BY <1>2, <2>1 DEF DispatchTypeOK
  <2>3. CurrentInv(d)'
    BY <1>1, <1>2, <2>1, <2>2 DEF CurrentInv
  <2>4. OneRoute(k) => Paid(d)'
    BY <1>1, <1>2, <2>1 DEF Paid
  <2> HIDE DEF k
  <2>5. \A q \in Keys : q \in queued' \/ dispatch'[q] = "delivered" => posts'[q] > 0
    BY <1>1, <1>2, <2>2
  <2>6. \A q \in Keys : OneRoute(q) =>
           /\ posts'[q] <= 1 + faults'
           /\ posts'[q] > faults' =>
                /\ \/ dispatch'[q] = "delivered"
                   \/ q = k /\ pc' \in {"mark", "paclaim", "pamark"}
                /\ \A e \in batch : KeyOf[e] = q /\ Kind[e] = "pa" => q \in fresh'
    BY <1>1, <1>2, <1>4, <2>1, <2>2
  <2> QED BY <1>1, <1>2, <2>1, <2>3, <2>4, <2>5, <2>6, AtDrawer DEF k
<1> QED BY <1>3, <1>4

\* The send: the message is posted, refused, or posted and cut off.
LEMMA DispatchPost ==
  ASSUME DispatchInv, DispatchTypeOK', NEW d \in batch, Post(d) \/ PostRefused(d) \/ PostTimesOut(d)
  PROVE  DispatchInv'
<1> DEFINE k == KeyOf[d]
<1>1. /\ Current(d) /\ pc = "send" /\ batch' = batch /\ UNCHANGED <<dispatch, queued, fresh>>
      /\ \/ pc' = "mark" /\ posts' = [posts EXCEPT ![k] = posts[k] + 1] /\ faults' = faults
         \/ pc' = "fail" /\ posts' = posts /\ faults' = faults
         \/ pc' = "fail" /\ posts' = [posts EXCEPT ![k] = posts[k] + 1] /\ faults' = faults + 1
  BY DEF Post, PostRefused, PostTimesOut, rows, assistant
<1>2. /\ DispatchTypeOK /\ k \in Keys /\ fresh \subseteq queued /\ faults \in Nat
      /\ \A q \in Keys : posts[q] \in Nat
      /\ \A q \in Keys : q \in queued \/ dispatch[q] = "delivered" => posts[q] > 0
      /\ CurrentInv(d) /\ (OneRoute(k) => Paid(d))
      /\ \A q \in Keys : OneRoute(q) =>
           /\ posts[q] <= 1 + faults
           /\ posts[q] > faults =>
                /\ dispatch[q] = "delivered"
                /\ \A e \in batch : KeyOf[e] = q /\ Kind[e] = "pa" => q \in fresh
  BY <1>1, AtDrawerInv
<1>3. dispatch[k] = "claimed" /\ Kind[d] \in {"bound", "pa"}
  BY <1>1, <1>2 DEF CurrentInv
<1>4. OneRoute(k) => /\ posts[k] <= faults
                     /\ Kind[d] = "pa" /\ posts[k] = faults => k \in fresh
  BY <1>1, <1>2, <1>3 DEF Paid
<1>5. /\ \A q \in Keys : q # k => posts'[q] = posts[q]
      /\ posts'[k] = posts[k] + 1 \/ (posts'[k] = posts[k] /\ pc' = "fail" /\ faults' = faults)
  BY <1>1, <1>2, PostedType
<1>6. \A q \in Keys : posts'[q] \in Nat /\ posts'[q] >= posts[q]
  BY <1>2, <1>5
<1> HIDE DEF k
<1>7. \A q \in Keys : q \in queued' \/ dispatch'[q] = "delivered" => posts'[q] > 0
  BY <1>1, <1>2, <1>6
<1>8. CurrentInv(d)'
  <2>1. pc' = "mark" => posts'[k] > 0
    BY <1>1, <1>2, <1>5
  <2> QED BY <1>1, <1>3, <2>1 DEF CurrentInv, k
<1>9. OneRoute(k) => Paid(d)'
  <2>1. OneRoute(k) /\ pc' = "fail" => posts'[k] <= faults'
    BY <1>1, <1>2, <1>4, <1>5
  <2> QED BY <1>1, <2>1 DEF Paid, k
<1>10. ASSUME NEW q \in Keys, OneRoute(q)
       PROVE  /\ posts'[q] <= 1 + faults'
              /\ posts'[q] > faults' =>
                   /\ \/ dispatch'[q] = "delivered"
                      \/ q = k /\ pc' \in {"mark", "paclaim", "pamark"}
                   /\ \A e \in batch : KeyOf[e] = q /\ Kind[e] = "pa" => q \in fresh'
  <2>1. CASE q # k
    <3>1. posts'[q] = posts[q] /\ faults' >= faults /\ faults' \in Nat /\ posts[q] \in Nat
      BY <1>1, <1>2, <1>5, <2>1
    <3>2. posts'[q] <= 1 + faults' /\ (posts'[q] > faults' => posts[q] > faults)
      BY <1>2, <1>10, <3>1
    <3> QED BY <1>1, <1>2, <1>10, <3>2
  <2>2. CASE q = k /\ pc' = "fail"
    <3>1. posts'[q] <= faults'
      BY <1>1, <1>2, <1>4, <1>5, <1>10, <2>2
    <3>2. faults' \in Nat /\ posts'[q] \in Nat
      BY <1>1, <1>2, <1>6
    <3> QED BY <3>1, <3>2
  <2>3. CASE q = k /\ pc' = "mark" /\ faults' = faults
    <3>1. posts'[k] = posts[k] + 1
      BY <1>5, <2>3
    <3>2. posts'[k] <= 1 + faults'
      BY <1>2, <1>4, <1>10, <2>3, <3>1
    <3>3. ASSUME NEW e \in batch, KeyOf[e] = k, Kind[e] = "pa", posts'[k] > faults' PROVE k \in fresh'
      <4>1. Kind[d] = "pa"
        <5>1. d \in Drawer /\ e \in Drawer
          BY <1>2, DrawerFacts
        <5> QED BY <1>3, <1>10, <2>3, <3>3, <5>1 DEF OneRoute, k
      <4>2. posts[k] = faults
        BY <1>2, <1>4, <1>10, <2>3, <3>1, <3>3
      <4> QED BY <1>1, <1>4, <1>10, <2>3, <4>1, <4>2
    <3> QED BY <2>3, <3>2, <3>3
  <2> QED BY <1>1, <2>1, <2>2, <2>3
<1> QED BY <1>1, <1>2, <1>7, <1>8, <1>9, <1>10, AtDrawer DEF k

\* The marks, in time or late.
LEMMA DispatchMarks ==
  ASSUME DispatchInv, DispatchTypeOK', NEW d \in batch,
         MarkDelivered(d) \/ MarkFailed(d) \/ FailInside(d)
  PROVE  DispatchInv'
<1> DEFINE k == KeyOf[d]
<1>1. Current(d) /\ UNCHANGED <<posts, queued, fresh>>
  BY DEF MarkDelivered, MarkFailed, FailInside, rows, assistant
<1>2. /\ DispatchTypeOK /\ k \in Keys /\ fresh \subseteq queued /\ faults \in Nat
      /\ \A q \in Keys : posts[q] \in Nat
      /\ \A q \in Keys : q \in queued \/ dispatch[q] = "delivered" => posts[q] > 0
      /\ CurrentInv(d) /\ (OneRoute(k) => Paid(d))
      /\ \A q \in Keys : OneRoute(q) =>
           /\ posts[q] <= 1 + faults
           /\ posts[q] > faults =>
                /\ \/ dispatch[q] = "delivered"
                   \/ q = k /\ pc \in {"mark", "paclaim", "pamark"}
                /\ \A e \in batch : KeyOf[e] = q /\ Kind[e] = "pa" => q \in fresh
  BY <1>1, AtDrawerInv
<1>3. CASE MarkDelivered(d)
  <2>1. /\ dispatch' = [dispatch EXCEPT ![k] = "delivered"] /\ faults' = faults
        /\ pc \in {"mark", "pamark"}
        /\ \/ pc = "mark" /\ pc' = "receipt" /\ batch' = batch
           \/ pc = "pamark" /\ pc' = "look" /\ batch' = batch \ {d}
    BY <1>3 DEF MarkDelivered, NextDrawer
  <2>2. /\ dispatch'[k] = "delivered"
        /\ \A q \in Keys : q # k => dispatch'[q] = dispatch[q]
    BY <1>2, <2>1 DEF DispatchTypeOK
  <2>3. posts[k] > 0 /\ Kind[d] \in {"bound", "pa"}
    BY <1>2, <2>1 DEF CurrentInv
  <2>4. pc' = "receipt" => CurrentInv(d)' /\ Paid(d)'
    BY <1>1, <2>2, <2>3 DEF CurrentInv, Paid
  <2> HIDE DEF k
  <2>5. \A q \in Keys : q \in queued' \/ dispatch'[q] = "delivered" => posts'[q] > 0
    BY <1>1, <1>2, <2>2, <2>3
  <2>6. \A q \in Keys : OneRoute(q) =>
           /\ posts'[q] <= 1 + faults'
           /\ posts'[q] > faults' =>
                /\ dispatch'[q] = "delivered"
                /\ \A e \in batch : KeyOf[e] = q /\ Kind[e] = "pa" => q \in fresh'
    BY <1>1, <1>2, <2>1, <2>2
  <2>7. CASE pc' = "receipt"
    BY <1>1, <1>2, <2>1, <2>4, <2>5, <2>6, <2>7, AtDrawer DEF k
  <2>8. CASE pc' = "look"
    BY <1>1, <1>2, <2>1, <2>5, <2>6, <2>8, BetweenDrawers
  <2> QED BY <2>1, <2>7, <2>8
<1>4. CASE MarkFailed(d)
  <2>1. /\ dispatch' = [dispatch EXCEPT ![k] = "failed"] /\ faults' = faults
        /\ pc = "fail" /\ pc' = "failreceipt" /\ batch' = batch
    BY <1>4 DEF MarkFailed
  <2>2. /\ dispatch'[k] = "failed"
        /\ \A q \in Keys : q # k => dispatch'[q] = dispatch[q]
    BY <1>2, <2>1 DEF DispatchTypeOK
  <2>3. CurrentInv(d)' /\ Paid(d)'
    BY <1>2, <2>1 DEF CurrentInv, Paid
  <2>4. OneRoute(k) => posts[k] <= faults
    BY <1>2, <2>1 DEF Paid
  <2> HIDE DEF k
  <2>5. \A q \in Keys : q \in queued' \/ dispatch'[q] = "delivered" => posts'[q] > 0
    BY <1>1, <1>2, <2>2
  <2>6. ASSUME NEW q \in Keys, OneRoute(q), posts[q] > faults
        PROVE  /\ dispatch'[q] = "delivered"
               /\ \A e \in batch : KeyOf[e] = q /\ Kind[e] = "pa" => q \in fresh'
    <3>1. q # k
      BY <1>2, <2>4, <2>6
    <3> QED BY <1>1, <1>2, <2>2, <2>6, <3>1
  <2> QED BY <1>1, <1>2, <2>1, <2>3, <2>5, <2>6, AtDrawer DEF k
<1>5. CASE FailInside(d)
  <2>1. /\ dispatch' = dispatch /\ faults' = faults + 1
        /\ pc \in {"mark", "receipt"} /\ pc' = "fail" /\ batch' = batch
    BY <1>5 DEF FailInside, rows
  <2>2. \A q \in Keys : OneRoute(q) => posts'[q] <= faults' /\ posts'[q] <= 1 + faults' /\ ~(posts'[q] > faults')
    BY <1>1, <1>2, <2>1
  <2>3. CurrentInv(d)' /\ (OneRoute(k) => Paid(d)')
    BY <1>2, <2>1, <2>2 DEF CurrentInv, Paid
  <2> HIDE DEF k
  <2> QED BY <1>1, <1>2, <2>1, <2>2, <2>3, AtDrawer DEF k
<1> QED BY <1>3, <1>4, <1>5

\* A tick that is given up is a fault.
LEMMA DispatchAbort ==
  ASSUME DispatchInv, DispatchTypeOK', Abort
  PROVE  DispatchInv'
<1>1. /\ pc' = "look" /\ batch' = {} /\ UNCHANGED <<dispatch, posts, queued, fresh>> /\ faults' = faults + 1
  BY DEF Abort, rows, assistant
<1>2. DispatchTypeOK /\ faults \in Nat /\ \A k \in Keys : posts[k] \in Nat
  <2>1. DispatchTypeOK
    BY DEF DispatchInv
  <2> QED BY <2>1, DrawerFacts DEF DispatchTypeOK
<1>3. \A k \in Keys : OneRoute(k) => posts[k] <= 1 + faults
  BY DEF DispatchInv, PostsInv
<1>4. \A k \in Keys : OneRoute(k) => posts'[k] <= 1 + faults' /\ ~(posts'[k] > faults')
  BY <1>1, <1>2, <1>3
<1>5. /\ fresh \subseteq queued
      /\ \A k \in Keys : k \in queued \/ dispatch[k] = "delivered" => posts[k] > 0
  BY DEF DispatchInv
<1> QED BY <1>1, <1>4, <1>5, BetweenDrawers

\* A message is posted twice only for a fault, and a delivered one is out (notification-
\* dispatcher.ts), for any drawers, keys, batch size, attempts and faults.
THEOREM PostsStayAccountedFor == DispatchSpec => []PostsAreAccountedFor
<1>1. DispatchInit => DispatchInv
  <2> SUFFICES ASSUME DispatchInit PROVE DispatchInv
    OBVIOUS
  <2>1. N \in Nat /\ MaxFaults \in Nat
    BY NotificationDispatchAssumption
  <2>2. DispatchTypeOK
    BY <2>1, NotificationDispatchAssumption DEF DispatchInit, DispatchTypeOK, Drawer
  <2>3. \A k \in Keys : posts[k] = 0 /\ faults = 0 /\ dispatch[k] = "none"
    BY DEF DispatchInit
  <2>4. \A k \in Keys : PostsInv(k)
    BY <2>3 DEF PostsInv
  <2> QED BY <2>2, <2>3, <2>4 DEF DispatchInit, DispatchInv
<1>2. DispatchInv /\ [DispatchNext]_dispatchVars => DispatchInv'
  <2> SUFFICES ASSUME DispatchInv, [DispatchNext]_dispatchVars PROVE DispatchInv'
    OBVIOUS
  <2>1. DispatchTypeOK'
    BY DispatchTypeNext DEF DispatchInv
  <2>2. CASE UNCHANGED dispatchVars
    <3>1. UNCHANGED <<dispatch, batch, pc, posts, queued, fresh, faults>>
      BY <2>2 DEF dispatchVars, rows, assistant
    <3> QED BY <2>1, <3>1 DEF DispatchInv, CurrentInv, Paid, PostsInv, Marking, Current
  <2>3. ASSUME NEW d \in batch,
               Dispatch(d) \/ PaFallsThrough(d) \/ PostTimesOut(d) \/ FailInside(d)
        PROVE  DispatchInv'
    BY <2>1, <2>3, DispatchLeaves, DispatchPa, DispatchClaim, DispatchPost, DispatchMarks DEF Dispatch
  <2> QED BY <2>1, <2>2, <2>3, DispatchSurroundings, DispatchTick, DispatchAbort DEF DispatchNext
<1>3. DispatchInv => PostsAreAccountedFor
  BY DEF DispatchInv, PostsInv, PostsAreAccountedFor
<1> QED BY <1>1, <1>2, <1>3, PTL DEF DispatchSpec

=============================================================================
