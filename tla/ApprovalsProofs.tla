-------------------------- MODULE ApprovalsProofs --------------------------
(***************************************************************************)
(* Proofs about Approvals: its types, the single decision of a waitpoint,  *)
(* the resumption that follows it, and the refinement of                   *)
(* WaitpointDecision, for any number of waitpoints, clicks, calls and      *)
(* overlapping runs of the reaper, and any bound on faults.                *)
(***************************************************************************)
EXTENDS Approvals, FiniteSetTheorems, TLAPS

\* The initial state is well typed.
THEOREM TypeInit == Init => TypeOK
<1> SUFFICES ASSUME Init PROVE TypeOK
  OBVIOUS
<1> USE ApprovalsAssumption DEF Init
<1>1. Idle \in [at : {"idle", "next", "effect", "stamp", "stamping"},
                cur : Waitpoint \union {None}, todo : SUBSET Waitpoint]
  BY DEF Idle
<1>2. outbox \in Seq(Row) /\ relay \in [rows : SUBSET (DOMAIN outbox), added : BOOLEAN]
  OBVIOUS
<1>3. jobs \subseteq JobIds /\ retained \subseteq JobIds
  BY DEF JobIds
<1> QED BY <1>1, <1>2, <1>3 DEF TypeOK

\* Opening a waitpoint and its timeout keep the types.
LEMMA TypeOpening ==
  ASSUME TypeOK, NEW w \in Waitpoint, Opening(w)
  PROVE  TypeOK'
<1> USE ApprovalsAssumption DEF TypeOK, human, reaper, relaying, opening
<1>1. CASE OpenWaitpoint(w)
  BY <1>1 DEF OpenWaitpoint
<1>2. CASE MarkWaiting(w)
  BY <1>2 DEF MarkWaiting, Run
<1>3. CASE WriteRequest(w)
  BY <1>3 DEF WriteRequest
<1>4. CASE Expire(w)
  BY <1>4 DEF Expire
<1> QED BY <1>1, <1>2, <1>3, <1>4 DEF Opening

\* The statements of an answer keep the types.
LEMMA TypeAnswer ==
  ASSUME TypeOK, NEW a \in Actor, Answer(a) \/ FailAnswer(a)
  PROVE  TypeOK'
<1> USE ApprovalsAssumption DEF TypeOK, human, reaper, relaying, opening
<1>1. CASE Claim(a)
  BY <1>1 DEF Claim
<1>2. CASE NotFound(a)
  BY <1>2 DEF NotFound
<1>3. CASE WriteResolution(a)
  BY <1>3 DEF WriteResolution, AfterResolution
<1>4. CASE Enqueue(a)
  <2> DEFINE how == Strategy[Target[a]][Pick[a]]
             row == [wp |-> Target[a], choice |-> Pick[a], how |-> how,
                     sent |-> 0, done |-> FALSE]
  <2>1. outbox' = (IF Queues(how) THEN Append(outbox, row) ELSE outbox)
        /\ pc' = [pc EXCEPT ![a] = IF a \in Click THEN "mark" ELSE "end"]
        /\ UNCHANGED <<emit, expired, open, handled, winner, resolution, arrived,
                       marker, batch, tick, alerts, relay, jobs, retained,
                       runStatus, faults>>
    BY <1>4 DEF Enqueue
  <2>2. Queues(how) => row \in Row
    BY DEF Queues, Row
  <2>3. outbox' \in Seq(Row) /\ DOMAIN outbox \subseteq DOMAIN outbox'
    BY <2>1, <2>2
  <2> QED BY <2>1, <2>3
<1>5. CASE FailAnswer(a)
  BY <1>5 DEF FailAnswer
<1> QED BY <1>1, <1>2, <1>3, <1>4, <1>5 DEF Answer

\* The statements of the resolver keep the types.
LEMMA TypeResolver ==
  ASSUME TypeOK, Poll \/ \E c \in Click : Arrive(c) \/ Resolver(c)
  PROVE  TypeOK'
<1> USE ApprovalsAssumption DEF TypeOK, human, reaper, relaying, opening
<1>1. CASE Poll
  BY <1>1 DEF Poll, Pending
<1>2. ASSUME NEW c \in Click, Arrive(c) PROVE TypeOK'
  <2>1. Cardinality({d \in Click : arrived[d] # 0}) \in Nat
    BY FS_CardinalityType, FS_Subset
  <2> QED BY <1>2, <2>1 DEF Arrive
<1>3. ASSUME NEW c \in Click, IgnoreUndeclared(c) PROVE TypeOK'
  BY <1>3 DEF IgnoreUndeclared
<1>4. ASSUME NEW c \in Click, MarkResolved(c) PROVE TypeOK'
  BY <1>4 DEF MarkResolved, Actor
<1> QED BY <1>1, <1>2, <1>3, <1>4 DEF Resolver

\* A reaper run that leaves a waitpoint keeps its type.
LEMMA TypeAdvance ==
  ASSUME TypeOK, NEW t \in Tick, NEW w \in Waitpoint, Advance(t, w)
  PROVE  tick' \in [Tick -> [at : {"idle", "next", "effect", "stamp", "stamping"},
                            cur : Waitpoint \union {None}, todo : SUBSET Waitpoint]]
<1> QED BY DEF TypeOK, Advance, Idle

\* A reaper run that goes on to a statement keeps its type.
LEMMA TypeAt ==
  ASSUME TypeOK, NEW t \in Tick, NEW w \in Waitpoint,
         NEW step \in {"effect", "stamp", "stamping"}, At(t, w, step)
  PROVE  tick' \in [Tick -> [at : {"idle", "next", "effect", "stamp", "stamping"},
                            cur : Waitpoint \union {None}, todo : SUBSET Waitpoint]]
<1> QED BY DEF TypeOK, At

\* A run of the reaper that is past its policy works on a waitpoint.
TickBusy ==
  \A t \in Tick : tick[t].at \in {"effect", "stamp", "stamping"} => tick[t].cur \in Waitpoint

\* The statements of the reaper keep the types.
LEMMA TypeTick ==
  ASSUME TypeOK, TickBusy, NEW t \in Tick,
         TickStep(t) \/ \E w \in Waitpoint : FailTick(t, w)
  PROVE  TypeOK'
<1> USE ApprovalsAssumption DEF human, reaper, relaying, opening
<1>1. CASE TickStart(t)
  BY <1>1 DEF TypeOK, TickStart, Overdue
<1>2. ASSUME NEW w \in Waitpoint, TickResolve(t, w) PROVE TypeOK'
  <2>1. CASE Claimable(w)
    <3>1. At(t, w, "effect")
      BY <1>2, <2>1 DEF TickResolve
    <3>2. tick' \in [Tick -> [at : {"idle", "next", "effect", "stamp", "stamping"},
                               cur : Waitpoint \union {None}, todo : SUBSET Waitpoint]]
      BY <3>1, TypeAt
    <3>3. winner' \in [Waitpoint -> Actor \union Tick \union {None}]
      BY ZenonT(30), <1>2, <2>1 DEF TypeOK, TickResolve
    <3> QED BY <1>2, <2>1, <3>2, <3>3 DEF TypeOK, TickResolve
  <2>2. CASE ~Claimable(w)
    <3>1. Advance(t, w)
      BY <1>2, <2>2 DEF TickResolve
    <3> QED BY <1>2, <2>2, <3>1, TypeAdvance DEF TypeOK, TickResolve
  <2> QED BY <2>1, <2>2
<1>3. ASSUME NEW w \in Waitpoint, TickCancel(t, w) PROVE TypeOK'
  <2>1. CASE StillOpen(w)
    <3>1. At(t, w, "effect")
      BY <1>3, <2>1 DEF TickCancel
    <3>2. tick' \in [Tick -> [at : {"idle", "next", "effect", "stamp", "stamping"},
                               cur : Waitpoint \union {None}, todo : SUBSET Waitpoint]]
      BY <3>1, TypeAt
    <3>3. winner' \in [Waitpoint -> Actor \union Tick \union {None}]
      BY ZenonT(30), <1>3, <2>1 DEF TypeOK, TickCancel
    <3> QED BY <1>3, <2>1, <3>2, <3>3 DEF TypeOK, TickCancel
  <2>2. CASE ~StillOpen(w)
    <3>1. At(t, w, "stamp")
      BY <1>3, <2>2 DEF TickCancel
    <3> QED BY <1>3, <2>2, <3>1, TypeAt DEF TypeOK, TickCancel
  <2> QED BY <2>1, <2>2
<1>4. ASSUME NEW w \in Waitpoint, TickEscalate(t, w) PROVE TypeOK'
  BY <1>4, TypeAt DEF TypeOK, TickEscalate
<1>5. CASE TickEffect(t)
  <2>1. tick[t].cur \in Waitpoint
    BY <1>5 DEF TickEffect, TickBusy
  <2> DEFINE w == tick[t].cur
  <2>2. At(t, w, "stamp")
    BY <1>5 DEF TickEffect
  <2>3. CASE Policy[w] = "auto_cancel"
    <3>1. runStatus' \in [Run -> {"running", "waiting", "cancelled"}]
      BY <1>5, <2>1, <2>3 DEF TypeOK, TickEffect, Run
    <3> QED BY <1>5, <2>1, <2>2, <2>3, <3>1, TypeAt DEF TypeOK, TickEffect
  <2>4. CASE Policy[w] # "auto_cancel"
    <3>1. [wp |-> w, by |-> t, choice |-> Policy[w]]
            \in [wp : Waitpoint, by : Actor \union Tick, choice : Choice \union Policies]
      BY <2>1
    <3> QED BY <1>5, <2>1, <2>2, <2>4, <3>1, TypeAt DEF TypeOK, TickEffect
  <2> QED BY <2>3, <2>4
<1>6. CASE StampStart(t)
  <2>1. tick[t].cur \in Waitpoint
    BY <1>6 DEF StampStart, TickBusy
  <2> QED BY <1>6, <2>1, TypeAt DEF TypeOK, StampStart
<1>7. CASE StampCommit(t)
  <2>1. tick[t].cur \in Waitpoint
    BY <1>7 DEF StampCommit, TickBusy
  <2> QED BY <1>7, <2>1, TypeAdvance DEF TypeOK, StampCommit
<1>8. ASSUME NEW w \in Waitpoint, FailTick(t, w) PROVE TypeOK'
  BY <1>8, TypeAdvance DEF TypeOK, FailTick
<1> QED BY <1>1, <1>2, <1>3, <1>4, <1>5, <1>6, <1>7, <1>8 DEF TickStep

\* The statements of the relay keep the types.
LEMMA TypeRelay ==
  ASSUME TypeOK, RelayStep \/ \E i \in relay.rows : FailRelay(i)
  PROVE  TypeOK'
<1> USE ApprovalsAssumption DEF TypeOK, human, reaper, relaying, opening
<1>1. CASE RelayPoll
  BY <1>1 DEF RelayPoll, Unprocessed
<1>2. ASSUME NEW i \in relay.rows, RelayAdd(i) PROVE TypeOK'
  <2>1. i \in DOMAIN outbox /\ outbox[i] \in Row /\ i \in Nat
    OBVIOUS
  <2>2. JobId(i) \in JobIds
    BY <2>1 DEF JobId, JobIds, Run, Row
  <2>3. outbox[i].sent \in Nat
    BY <2>1 DEF Row
  <2>4. \A n \in Nat : [outbox[i] EXCEPT !.sent = n] \in Row
    BY <2>1 DEF Row
  <2>5. outbox' \in Seq(Row) /\ DOMAIN outbox' = DOMAIN outbox
    <3> DEFINE n == IF JobId(i) \in jobs \union retained
                    THEN outbox[i].sent ELSE outbox[i].sent + 1
    <3>1. outbox' = [outbox EXCEPT ![i] = [outbox[i] EXCEPT !.sent = n]]
      BY <1>2 DEF RelayAdd
    <3>2. n \in Nat
      BY <2>3
    <3>3. [outbox[i] EXCEPT !.sent = n] \in Row
      BY <2>4, <3>2
    <3> HIDE DEF n
    <3> QED BY <2>1, <3>1, <3>3
  <2> QED BY <1>2, <2>1, <2>2, <2>5 DEF RelayAdd
<1>3. ASSUME NEW i \in relay.rows, RelayMark(i) PROVE TypeOK'
  <2>1. i \in DOMAIN outbox /\ outbox[i] \in Row
    OBVIOUS
  <2>2. [outbox[i] EXCEPT !.done = TRUE] \in Row
    BY <2>1 DEF Row
  <2>3. outbox' \in Seq(Row) /\ DOMAIN outbox' = DOMAIN outbox
    BY <1>3, <2>1, <2>2 DEF RelayMark
  <2> QED BY <1>3, <2>3 DEF RelayMark, Settled
<1>4. ASSUME NEW i \in relay.rows, FailRelay(i) PROVE TypeOK'
  BY <1>4 DEF FailRelay, Settled
<1> QED BY <1>1, <1>2, <1>3, <1>4 DEF RelayStep

\* Jobs, retention and crashes keep the types.
LEMMA TypeBackground ==
  ASSUME TypeOK,
         \/ \E j \in jobs : RunJob(j)
         \/ \E j \in retained : Evict(j)
         \/ Crash
         \/ UNCHANGED vars
  PROVE  TypeOK'
<1> USE ApprovalsAssumption DEF TypeOK, human, reaper, relaying, opening
<1>1. ASSUME NEW j \in jobs, RunJob(j) PROVE TypeOK'
  BY <1>1 DEF RunJob
<1>2. ASSUME NEW j \in retained, Evict(j) PROVE TypeOK'
  BY <1>2 DEF Evict
<1>3. CASE Crash
  BY <1>3 DEF Crash, Idle
<1>4. CASE UNCHANGED vars
  BY <1>4 DEF vars
<1> QED BY <1>1, <1>2, <1>3, <1>4

-----------------------------------------------------------------------------
(* The inductive invariant *)

\* The signal is set only between the opening and the win.
Closed ==
  \A w \in Waitpoint :
    /\ emit[w] = "none" => ~open[w] /\ winner[w] = None
    /\ open[w] => winner[w] = None

\* An answer that is past its claim won, and left its resolution behind.
Acting ==
  \A a \in Actor :
    /\ pc[a] \in {"drawer", "outbox", "mark"} => winner[Target[a]] = a
    /\ pc[a] \in {"outbox", "mark"} =>
         /\ a \in Click \union Api
         /\ [wp |-> Target[a], by |-> a, choice |-> Pick[a]] \in resolution

\* So did a run of the reaper.
TickWon == \A t \in Tick : tick[t].at = "effect" => winner[tick[t].cur] = t

\* A resolution is the winner's, and the winner determines it.
ResolutionsWon ==
  \A r \in resolution :
    /\ winner[r.wp] = r.by
    /\ r.by \in Actor => r.choice = Pick[r.by]
    /\ r.by \in Tick => r.choice = Policy[r.wp] /\ Policy[r.wp] # "auto_cancel"

\* A row is the winner's, who is past enqueueResumption for good.
RowsFollow ==
  \A i \in DOMAIN outbox :
    /\ winner[outbox[i].wp] \in Click \union Api
    /\ Target[winner[outbox[i].wp]] = outbox[i].wp
    /\ outbox[i].choice = Pick[winner[outbox[i].wp]]
    /\ pc[winner[outbox[i].wp]] \notin {"drawer", "outbox"}
    /\ [wp |-> outbox[i].wp, by |-> winner[outbox[i].wp],
        choice |-> outbox[i].choice] \in resolution
    /\ \A k \in DOMAIN outbox : outbox[k].wp = outbox[i].wp => k = i

IndInv ==
  TypeOK /\ TickBusy /\ Closed /\ Acting /\ TickWon /\ ResolutionsWon /\ RowsFollow

\* The inductive invariant holds initially.
LEMMA IndInit == Init => IndInv
<1> SUFFICES ASSUME Init PROVE IndInv
  OBVIOUS
<1>1. TypeOK
  BY TypeInit
<1>2. TickBusy /\ Closed /\ Acting /\ TickWon /\ ResolutionsWon /\ RowsFollow
  BY DEF Init, Idle, TickBusy, Closed, Acting, TickWon, ResolutionsWon, RowsFollow
<1> QED BY <1>1, <1>2 DEF IndInv

\* A step that nobody wins and that records nothing keeps the invariant.
LEMMA Frame ==
  ASSUME IndInv, TypeOK', TickBusy',
         winner' = winner, resolution' = resolution,
         \A w \in Waitpoint : (open'[w] => winner[w] = None)
                             /\ (emit'[w] = "none" => emit[w] = "none" /\ ~open'[w]),
         \A a \in Actor : pc'[a] \in {"drawer", "outbox", "mark"} => pc'[a] = pc[a],
         \A t \in Tick : tick'[t].at = "effect" =>
                           tick[t].at = "effect" /\ tick'[t].cur = tick[t].cur,
         DOMAIN outbox' = DOMAIN outbox,
         \A i \in DOMAIN outbox : outbox'[i].wp = outbox[i].wp
                               /\ outbox'[i].choice = outbox[i].choice
  PROVE  IndInv'
<1>1. Closed'
  BY DEF IndInv, Closed
<1>2. Acting'
  BY DEF IndInv, Acting
<1>3. TickWon'
  BY DEF IndInv, TickWon
<1>4. ResolutionsWon'
  BY DEF IndInv, ResolutionsWon
<1>5. RowsFollow'
  <2>1. ASSUME NEW i \in DOMAIN outbox
        PROVE  winner[outbox[i].wp] \in Actor
    BY DEF IndInv, RowsFollow, Actor
  <2> QED BY <2>1 DEF IndInv, RowsFollow
<1> QED BY <1>1, <1>2, <1>3, <1>4, <1>5 DEF IndInv

\* Who wins finds the waitpoint untouched: no answer, resolution or row.
LEMMA Untouched ==
  ASSUME IndInv, NEW w \in Waitpoint, open[w]
  PROVE  /\ emit[w] # "none" /\ winner[w] = None
         /\ \A a \in Actor : pc[a] \in {"drawer", "outbox", "mark"} => Target[a] # w
         /\ \A t \in Tick : tick[t].at = "effect" => tick[t].cur # w
         /\ \A r \in resolution : r.wp # w
         /\ \A i \in DOMAIN outbox : outbox[i].wp # w
<1> USE ApprovalsAssumption
<1>1. winner[w] = None /\ None \notin Actor \union Tick
  BY DEF IndInv, Closed
<1>2. \A r \in resolution : r.by \in Actor \union Tick
  BY DEF IndInv, TypeOK
<1>3. \A a \in Actor : pc[a] \in {"drawer", "outbox", "mark"} => Target[a] # w
  BY <1>1 DEF IndInv, Acting
<1>4. \A t \in Tick : tick[t].at = "effect" => tick[t].cur # w
  BY <1>1 DEF IndInv, TickWon
<1>5. \A r \in resolution : r.wp # w
  BY <1>1, <1>2 DEF IndInv, ResolutionsWon
<1>6. \A i \in DOMAIN outbox : outbox[i].wp # w
  BY <1>1 DEF IndInv, RowsFollow, Actor
<1> QED BY <1>1, <1>3, <1>4, <1>5, <1>6 DEF IndInv, Closed

\* The step of the winner.
LEMMA Win ==
  ASSUME IndInv, TypeOK', TickBusy',
         NEW w \in Waitpoint, NEW x \in Actor \union Tick, open[w],
         open' = [open EXCEPT ![w] = FALSE], winner' = [winner EXCEPT ![w] = x],
         resolution' = resolution, emit' = emit, outbox' = outbox,
         \A a \in Actor : pc'[a] = pc[a] \/ (a = x /\ pc'[a] = "drawer" /\ Target[a] = w),
         \A t \in Tick : \/ tick'[t] = tick[t]
                         \/ t = x /\ tick'[t].at = "effect" /\ tick'[t].cur = w
  PROVE  IndInv'
<1> USE ApprovalsAssumption
<1>1. /\ open \in [Waitpoint -> BOOLEAN]
      /\ winner \in [Waitpoint -> Actor \union Tick \union {None}]
      /\ \A a \in Actor : Target[a] \in Waitpoint
      /\ \A r \in resolution : r.wp \in Waitpoint
  BY DEF IndInv, TypeOK
<1>10. \A i \in DOMAIN outbox : outbox[i].wp \in Waitpoint
  <2>1. \A i \in DOMAIN outbox : outbox[i] \in Row
    BY DEF IndInv, TypeOK
  <2> QED BY <2>1 DEF Row
<1>11. \A t \in Tick : tick[t].at = "effect" => tick[t].cur \in Waitpoint
  BY DEF IndInv, TickBusy
<1>12. /\ emit[w] # "none" /\ winner[w] = None
      /\ \A a \in Actor : pc[a] \in {"drawer", "outbox", "mark"} => Target[a] # w
      /\ \A t \in Tick : tick[t].at = "effect" => tick[t].cur # w
  BY Untouched
<1>13. \A r \in resolution : r.wp # w
  BY Untouched
<1>14. \A i \in DOMAIN outbox : outbox[i].wp # w
  BY Untouched
<1>2. Closed'
  BY <1>1, <1>12 DEF IndInv, Closed
<1>3. Acting'
  BY <1>1, <1>12 DEF IndInv, Acting
<1>4. TickWon'
  BY <1>1, <1>11, <1>12 DEF IndInv, TickWon
<1>5. ResolutionsWon'
  <2>1. \A r \in resolution : winner'[r.wp] = winner[r.wp]
    BY <1>1, <1>13
  <2> QED BY <2>1 DEF IndInv, ResolutionsWon
<1>6. RowsFollow'
  <2>1. ASSUME NEW i \in DOMAIN outbox
        PROVE  /\ winner'[outbox[i].wp] = winner[outbox[i].wp]
               /\ winner[outbox[i].wp] \in Actor
               /\ winner[outbox[i].wp] = x => Target[x] # w
    <3>1. outbox[i].wp # w /\ outbox[i].wp \in Waitpoint
      BY <1>10, <1>14
    <3>2. winner[outbox[i].wp] \in Actor /\ Target[winner[outbox[i].wp]] = outbox[i].wp
      BY DEF IndInv, RowsFollow, Actor
    <3> QED BY <1>1, <3>1, <3>2
  <2> QED BY <2>1 DEF IndInv, RowsFollow
<1> QED BY <1>2, <1>3, <1>4, <1>5, <1>6 DEF IndInv

\* Opening a waitpoint keeps the inductive invariant.
LEMMA IndOpening ==
  ASSUME IndInv, NEW w \in Waitpoint, Opening(w)
  PROVE  IndInv'
<1> USE ApprovalsAssumption DEF human, reaper, relaying, opening
<1>1. TypeOK'
  BY TypeOpening DEF IndInv
<1>2. tick' = tick /\ pc' = pc /\ winner' = winner /\ resolution' = resolution
      /\ outbox' = outbox
  BY DEF Opening, OpenWaitpoint, MarkWaiting, WriteRequest, Expire
<1>3. TickBusy'
  BY <1>2 DEF IndInv, TickBusy
<1>4. \A v \in Waitpoint : (open'[v] => winner[v] = None)
                         /\ (emit'[v] = "none" => emit[v] = "none" /\ ~open'[v])
  <2>1. emit \in [Waitpoint -> {"none", "waiting", "request", "done", "lost"}]
        /\ open \in [Waitpoint -> BOOLEAN] /\ Closed
    BY DEF IndInv, TypeOK
  <2>2. CASE OpenWaitpoint(w)
    BY <2>1, <2>2 DEF OpenWaitpoint, Closed
  <2>3. CASE MarkWaiting(w)
    BY <2>1, <2>3 DEF MarkWaiting, Closed
  <2>4. CASE WriteRequest(w)
    BY <2>1, <2>4 DEF WriteRequest, Closed
  <2>5. CASE Expire(w)
    BY <2>1, <2>5 DEF Expire, Closed
  <2> QED BY <2>2, <2>3, <2>4, <2>5 DEF Opening
<1> QED BY <1>1, <1>2, <1>3, <1>4, Frame

\* The claim of a waitpoint keeps it: nobody had won before.
LEMMA IndClaim ==
  ASSUME IndInv, TypeOK', NEW a \in Actor, Claim(a)
  PROVE  IndInv'
<1>1. /\ Target[a] \in Waitpoint /\ open[Target[a]]
      /\ pc \in [Actor -> {"idle", "drawer", "outbox", "mark", "end"}]
  BY ApprovalsAssumption DEF IndInv, TypeOK, Claim, Claimable
<1>2. PICK w \in Waitpoint : w = Target[a]
  BY <1>1
<1>3. /\ open' = [open EXCEPT ![w] = FALSE] /\ winner' = [winner EXCEPT ![w] = a]
      /\ resolution' = resolution /\ emit' = emit /\ outbox' = outbox
      /\ pc' = [pc EXCEPT ![a] = "drawer"] /\ tick' = tick
  BY <1>2 DEF Claim, reaper
<1>4. TickBusy'
  BY <1>3 DEF IndInv, TickBusy
<1>5. \A b \in Actor : pc'[b] = pc[b] \/ (b = a /\ pc'[b] = "drawer" /\ Target[b] = w)
  BY <1>1, <1>2, <1>3
<1>6. \A t \in Tick : \/ tick'[t] = tick[t]
                      \/ t = a /\ tick'[t].at = "effect" /\ tick'[t].cur = w
  BY <1>3
<1>7. open[w] /\ a \in Actor \union Tick
  BY <1>1, <1>2
<1> HIDE DEF Actor
<1> QED BY <1>3, <1>4, <1>5, <1>6, <1>7, Win

\* The other statements of an answer keep it.
LEMMA IndAnswer ==
  ASSUME IndInv, NEW a \in Actor, Answer(a) \/ FailAnswer(a)
  PROVE  IndInv'
<1> USE ApprovalsAssumption DEF human, reaper, relaying, opening
<1>1. TypeOK'
  BY TypeAnswer DEF IndInv
<1>2. tick' = tick
  BY DEF Answer, Claim, NotFound, WriteResolution, Enqueue, FailAnswer
<1>3. TickBusy'
  BY <1>2 DEF IndInv, TickBusy
<1>4. pc \in [Actor -> {"idle", "drawer", "outbox", "mark", "end"}]
      /\ Target[a] \in Waitpoint
  BY DEF IndInv, TypeOK
<1>5. CASE Claim(a)
  BY <1>1, <1>5, IndClaim
<1>6. CASE NotFound(a) \/ FailAnswer(a)
  <2>1. /\ winner' = winner /\ resolution' = resolution /\ outbox' = outbox
        /\ open' = open /\ emit' = emit
    BY <1>6 DEF NotFound, FailAnswer
  <2>2. \A b \in Actor : pc'[b] \in {"drawer", "outbox", "mark"} => pc'[b] = pc[b]
    BY <1>4, <1>6 DEF NotFound, FailAnswer
  <2> QED BY <1>1, <1>2, <1>3, <2>1, <2>2, Frame DEF IndInv, Closed
<1>7. CASE WriteResolution(a)
  <2> DEFINE rec == [wp |-> Target[a], by |-> a, choice |-> Pick[a]]
  <2>1. /\ pc[a] = "drawer" /\ winner[Target[a]] = a
        /\ resolution' = resolution \union {rec}
        /\ pc' = [pc EXCEPT ![a] = AfterResolution(a)]
        /\ winner' = winner /\ open' = open /\ emit' = emit /\ outbox' = outbox
    BY <1>7 DEF WriteResolution, IndInv, Acting
  <2>2. AfterResolution(a) \in {"end", "outbox"} /\ (a \in Library => AfterResolution(a) = "end")
    BY DEF AfterResolution
  <2>3. Closed' /\ TickWon'
    BY <2>1, <1>2 DEF IndInv, Closed, TickWon
  <2>4. Acting'
    BY <2>1, <2>2, <1>4 DEF IndInv, Acting, Actor
  <2>5. ResolutionsWon'
    BY <2>1 DEF IndInv, ResolutionsWon
  <2>6. RowsFollow'
    <3>1. ASSUME NEW i \in DOMAIN outbox PROVE winner[outbox[i].wp] # a
      BY <2>1 DEF IndInv, RowsFollow
    <3>2. ASSUME NEW i \in DOMAIN outbox PROVE winner[outbox[i].wp] \in Actor
      BY DEF IndInv, RowsFollow, Actor
    <3> QED BY <2>1, <3>1, <3>2, <1>4 DEF IndInv, RowsFollow
  <2> QED BY <1>1, <1>3, <2>3, <2>4, <2>5, <2>6 DEF IndInv
<1>8. CASE Enqueue(a)
  <2> DEFINE how == Strategy[Target[a]][Pick[a]]
             row == [wp |-> Target[a], choice |-> Pick[a], how |-> how,
                     sent |-> 0, done |-> FALSE]
  <2>1. /\ pc[a] = "outbox" /\ winner[Target[a]] = a /\ a \in Click \union Api
        /\ [wp |-> Target[a], by |-> a, choice |-> Pick[a]] \in resolution
        /\ outbox' = (IF Queues(how) THEN Append(outbox, row) ELSE outbox)
        /\ pc' = [pc EXCEPT ![a] = IF a \in Click THEN "mark" ELSE "end"]
        /\ winner' = winner /\ open' = open /\ emit' = emit /\ resolution' = resolution
    BY <1>8 DEF Enqueue, IndInv, Acting
  <2>2. Closed' /\ TickWon' /\ ResolutionsWon'
    BY <2>1, <1>2 DEF IndInv, Closed, TickWon, ResolutionsWon
  <2>3. Acting'
    BY <2>1, <1>4 DEF IndInv, Acting
  <2>4. pc'[a] \notin {"drawer", "outbox"}
    BY <2>1, <1>4
  <2>5. ASSUME NEW i \in DOMAIN outbox
        PROVE  /\ winner[outbox[i].wp] \in Actor /\ winner[outbox[i].wp] # a
               /\ pc'[winner[outbox[i].wp]] \notin {"drawer", "outbox"}
               /\ outbox[i].wp # Target[a]
    <3>1. winner[outbox[i].wp] \in Actor /\ pc[winner[outbox[i].wp]] \notin {"drawer", "outbox"}
      BY DEF IndInv, RowsFollow, Actor
    <3> QED BY <2>1, <3>1, <1>4
  <2>6. RowsFollow'
    <3>1. CASE ~Queues(how)
      BY <2>1, <2>5, <3>1 DEF IndInv, RowsFollow
    <3>2. CASE Queues(how)
      <4>1. outbox \in Seq(Row)
        BY DEF IndInv, TypeOK
      <4>2. /\ outbox' = Append(outbox, row)
            /\ DOMAIN outbox' = DOMAIN outbox \union {Len(outbox) + 1}
            /\ \A i \in DOMAIN outbox : outbox'[i] = outbox[i]
            /\ outbox'[Len(outbox) + 1] = row
        <5>1. outbox' = Append(outbox, row)
          BY <2>1, <3>2
        <5> QED BY <4>1, <5>1
      <4>3. row.wp = Target[a] /\ row.choice = Pick[a]
        OBVIOUS
      <4> HIDE DEF row
      <4>4. ASSUME NEW i \in DOMAIN outbox'
            PROVE  /\ winner[outbox'[i].wp] \in Click \union Api
                   /\ Target[winner[outbox'[i].wp]] = outbox'[i].wp
                   /\ outbox'[i].choice = Pick[winner[outbox'[i].wp]]
                   /\ pc'[winner[outbox'[i].wp]] \notin {"drawer", "outbox"}
                   /\ [wp |-> outbox'[i].wp, by |-> winner[outbox'[i].wp],
                       choice |-> outbox'[i].choice] \in resolution
        <5>1. CASE i \in DOMAIN outbox
          BY <2>5, <4>2, <5>1 DEF IndInv, RowsFollow
        <5>2. CASE i = Len(outbox) + 1
          BY <2>1, <2>4, <4>2, <4>3, <5>2
        <5> QED BY <4>2, <5>1, <5>2
      <4>5. ASSUME NEW i \in DOMAIN outbox', NEW k \in DOMAIN outbox',
                   outbox'[k].wp = outbox'[i].wp
            PROVE  k = i
        <5>1. CASE i \in DOMAIN outbox /\ k \in DOMAIN outbox
          BY <4>2, <4>5, <5>1 DEF IndInv, RowsFollow
        <5>2. CASE i \notin DOMAIN outbox \/ k \notin DOMAIN outbox
          BY <2>5, <4>2, <4>3, <4>5, <5>2
        <5> QED BY <5>1, <5>2
      <4> QED BY <2>1, <4>4, <4>5 DEF RowsFollow
    <3> QED BY <3>1, <3>2
  <2> QED BY <1>1, <1>3, <2>2, <2>3, <2>6 DEF IndInv
<1> QED BY <1>5, <1>6, <1>7, <1>8 DEF Answer

\* The statements of the resolver keep it.
LEMMA IndResolver ==
  ASSUME IndInv, Poll \/ \E c \in Click : Arrive(c) \/ Resolver(c)
  PROVE  IndInv'
<1> USE ApprovalsAssumption DEF human, reaper, relaying, opening
<1>1. TypeOK'
  BY TypeResolver DEF IndInv
<1>2. /\ tick' = tick /\ winner' = winner /\ resolution' = resolution
      /\ outbox' = outbox /\ open' = open /\ emit' = emit
  BY DEF Poll, Arrive, Resolver, IgnoreUndeclared, MarkResolved
<1>3. TickBusy'
  BY <1>2 DEF IndInv, TickBusy
<1>4. pc \in [Actor -> {"idle", "drawer", "outbox", "mark", "end"}]
  BY DEF IndInv, TypeOK
<1>5. \A b \in Actor : pc'[b] \in {"drawer", "outbox", "mark"} => pc'[b] = pc[b]
  BY <1>4 DEF Poll, Arrive, Resolver, IgnoreUndeclared, MarkResolved
<1> QED BY <1>1, <1>2, <1>3, <1>5, Frame DEF IndInv, Closed

\* The statements of the reaper keep it.
LEMMA IndTick ==
  ASSUME IndInv, NEW t \in Tick, TickStep(t) \/ \E w \in Waitpoint : FailTick(t, w)
  PROVE  IndInv'
<1> USE ApprovalsAssumption DEF human, reaper, relaying, opening
<1>1. TypeOK'
  BY TypeTick DEF IndInv
<1>2. pc' = pc /\ outbox' = outbox /\ emit' = emit
  BY DEF TickStep, TickStart, TickResolve, TickCancel, TickEscalate, TickEffect,
         StampStart, StampCommit, FailTick
<1>3. tick \in [Tick -> [at : {"idle", "next", "effect", "stamp", "stamping"},
                        cur : Waitpoint \union {None}, todo : SUBSET Waitpoint]]
  BY DEF IndInv, TypeOK
<1>4. ASSUME NEW w \in Waitpoint, Advance(t, w)
      PROVE  TickBusy' /\ \A u \in Tick : tick'[u].at = "effect" => tick'[u] = tick[u]
  <2>1. \A u \in Tick : tick'[u] = tick[u] \/ tick'[u].at \in {"idle", "next"}
    BY <1>3, <1>4 DEF Advance, Idle
  <2> QED BY <2>1 DEF IndInv, TickBusy
<1>5. ASSUME NEW w \in Waitpoint, NEW step \in {"effect", "stamp", "stamping"}, At(t, w, step)
      PROVE  TickBusy' /\ \A u \in Tick : \/ tick'[u] = tick[u]
                                          \/ u = t /\ tick'[u].at = step /\ tick'[u].cur = w
  <2>1. \A u \in Tick : \/ tick'[u] = tick[u]
                        \/ u = t /\ tick'[u].at = step /\ tick'[u].cur = w
    <3>1. tick' = [tick EXCEPT ![t] = [at |-> step, cur |-> w, todo |-> tick[t].todo]]
      BY <1>5 DEF At
    <3> QED BY <1>3, <3>1
  <2> QED BY <2>1 DEF IndInv, TickBusy
<1>6. ASSUME TickBusy', winner' = winner, resolution' = resolution, open' = open,
             \A u \in Tick : tick'[u].at = "effect" => tick'[u] = tick[u]
      PROVE  IndInv'
  BY <1>1, <1>2, <1>6, Frame DEF IndInv, Closed
<1>7. ASSUME NEW w \in Waitpoint, open[w], At(t, w, "effect"),
             open' = [open EXCEPT ![w] = FALSE], winner' = [winner EXCEPT ![w] = t],
             resolution' = resolution
      PROVE  IndInv'
  <2>1. TickBusy' /\ \A u \in Tick : \/ tick'[u] = tick[u]
                                     \/ u = t /\ tick'[u].at = "effect" /\ tick'[u].cur = w
    BY <1>5, <1>7
  <2>2. \A b \in Actor : pc'[b] = pc[b] \/ (b = t /\ pc'[b] = "drawer" /\ Target[b] = w)
    BY <1>2
  <2>3. t \in Actor \union Tick
    OBVIOUS
  <2> QED BY <1>1, <1>2, <1>7, <2>1, <2>2, <2>3, Win
<1>8. CASE TickStart(t)
  <2>1. tick' = [tick EXCEPT ![t] = [at |-> "next", cur |-> None, todo |-> Overdue]]
        /\ winner' = winner /\ resolution' = resolution /\ open' = open
    BY <1>8 DEF TickStart
  <2>2. \A u \in Tick : tick'[u] = tick[u] \/ tick'[u].at = "next"
    BY <1>3, <2>1
  <2>3. TickBusy' /\ \A u \in Tick : tick'[u].at = "effect" => tick'[u] = tick[u]
    BY <2>2 DEF IndInv, TickBusy
  <2> QED BY <1>6, <2>1, <2>3
<1>9. ASSUME NEW w \in Waitpoint, TickResolve(t, w) PROVE IndInv'
  <2>1. CASE Claimable(w)
    BY <1>7, <1>9, <2>1 DEF TickResolve, Claimable
  <2>2. CASE ~Claimable(w)
    <3>1. Advance(t, w) /\ winner' = winner /\ resolution' = resolution /\ open' = open
      BY <1>9, <2>2 DEF TickResolve
    <3> QED BY <1>4, <1>6, <3>1
  <2> QED BY <2>1, <2>2
<1>10. ASSUME NEW w \in Waitpoint, TickCancel(t, w) PROVE IndInv'
  <2>1. CASE StillOpen(w)
    BY <1>7, <1>10, <2>1 DEF TickCancel, StillOpen
  <2>2. CASE ~StillOpen(w)
    <3>1. At(t, w, "stamp") /\ winner' = winner /\ resolution' = resolution /\ open' = open
      BY <1>10, <2>2 DEF TickCancel
    <3>2. TickBusy' /\ \A u \in Tick : tick'[u].at = "effect" => tick'[u] = tick[u]
      BY <1>5, <3>1
    <3> QED BY <1>6, <3>1, <3>2
  <2> QED BY <2>1, <2>2
<1>11. ASSUME NEW w \in Waitpoint, TickEscalate(t, w) PROVE IndInv'
  <2>1. At(t, w, "stamp") /\ winner' = winner /\ resolution' = resolution /\ open' = open
    BY <1>11 DEF TickEscalate
  <2>2. TickBusy' /\ \A u \in Tick : tick'[u].at = "effect" => tick'[u] = tick[u]
    BY <1>5, <2>1
  <2> QED BY <1>6, <2>1, <2>2
<1>12. CASE TickEffect(t)
  <2> DEFINE w == tick[t].cur
  <2>1. /\ w \in Waitpoint /\ winner[w] = t /\ At(t, w, "stamp")
        /\ winner' = winner /\ open' = open
    BY <1>12 DEF TickEffect, IndInv, TickBusy, TickWon
  <2>2. TickBusy' /\ \A u \in Tick : tick'[u].at = "effect" => tick'[u] = tick[u]
    BY <1>5, <2>1
  <2>3. CASE Policy[w] = "auto_cancel"
    <3>1. resolution' = resolution
      BY <1>12, <2>3 DEF TickEffect
    <3> QED BY <1>6, <2>1, <2>2, <3>1
  <2>4. CASE Policy[w] # "auto_cancel"
    <3> DEFINE rec == [wp |-> w, by |-> t, choice |-> Policy[w]]
    <3>1. resolution' = resolution \union {rec}
      BY <1>12, <2>4 DEF TickEffect
    <3>2. Closed' /\ Acting' /\ RowsFollow'
      BY <1>2, <2>1, <3>1 DEF IndInv, Closed, Acting, RowsFollow
    <3>3. TickWon'
      BY <2>1, <2>2 DEF IndInv, TickWon
    <3>4. rec.wp = w /\ rec.by = t /\ rec.choice = Policy[w] /\ t \notin Actor
      OBVIOUS
    <3> HIDE DEF rec
    <3>5. ResolutionsWon'
      BY <2>1, <2>4, <3>1, <3>4 DEF IndInv, ResolutionsWon
    <3> QED BY <1>1, <2>2, <3>2, <3>3, <3>5 DEF IndInv
  <2> QED BY <2>3, <2>4
<1>13. CASE StampStart(t)
  <2> DEFINE w == tick[t].cur
  <2>1. /\ w \in Waitpoint /\ At(t, w, "stamping")
        /\ winner' = winner /\ resolution' = resolution /\ open' = open
    BY <1>13 DEF StampStart, IndInv, TickBusy
  <2>2. TickBusy' /\ \A u \in Tick : tick'[u].at = "effect" => tick'[u] = tick[u]
    BY <1>5, <2>1
  <2> QED BY <1>6, <2>1, <2>2
<1>14. CASE StampCommit(t)
  <2> DEFINE w == tick[t].cur
  <2>1. /\ w \in Waitpoint /\ Advance(t, w)
        /\ winner' = winner /\ resolution' = resolution /\ open' = open
    BY <1>14 DEF StampCommit, IndInv, TickBusy
  <2> QED BY <1>4, <1>6, <2>1
<1>15. ASSUME NEW w \in Waitpoint, FailTick(t, w) PROVE IndInv'
  <2>1. /\ Advance(t, w)
        /\ winner' = winner /\ resolution' = resolution /\ open' = open
    BY <1>15 DEF FailTick
  <2> QED BY <1>4, <1>6, <2>1
<1> QED BY <1>8, <1>9, <1>10, <1>11, <1>12, <1>13, <1>14, <1>15 DEF TickStep

\* The statements of the relay keep it.
LEMMA IndRelay ==
  ASSUME IndInv,
         \/ RelayStep
         \/ \E i \in relay.rows : FailRelay(i)
         \/ \E j \in jobs : RunJob(j)
         \/ \E j \in retained : Evict(j)
         \/ UNCHANGED vars
  PROVE  IndInv'
<1> USE ApprovalsAssumption DEF human, reaper, relaying, opening
<1>1. TypeOK'
  BY TypeRelay, TypeBackground DEF IndInv
<1>2. /\ tick' = tick /\ winner' = winner /\ resolution' = resolution
      /\ open' = open /\ emit' = emit /\ pc' = pc
  BY DEF RelayStep, RelayPoll, RelayAdd, RelayMark, FailRelay, RunJob, Evict, vars
<1>3. TickBusy'
  BY <1>2 DEF IndInv, TickBusy
<1>4. DOMAIN outbox' = DOMAIN outbox
      /\ \A i \in DOMAIN outbox : outbox'[i].wp = outbox[i].wp /\ outbox'[i].choice = outbox[i].choice
  <2>1. CASE outbox' = outbox
    BY <2>1
  <2>2. ASSUME NEW i \in relay.rows, RelayAdd(i)
        PROVE  /\ DOMAIN outbox' = DOMAIN outbox
               /\ \A k \in DOMAIN outbox : outbox'[k].wp = outbox[k].wp
                                         /\ outbox'[k].choice = outbox[k].choice
    BY <2>2 DEF RelayAdd
  <2>3. ASSUME NEW i \in relay.rows, RelayMark(i)
        PROVE  /\ DOMAIN outbox' = DOMAIN outbox
               /\ \A k \in DOMAIN outbox : outbox'[k].wp = outbox[k].wp
                                         /\ outbox'[k].choice = outbox[k].choice
    BY <2>3 DEF RelayMark
  <2> QED BY <2>1, <2>2, <2>3 DEF RelayStep, RelayPoll, FailRelay, RunJob, Evict, vars
<1> QED BY <1>1, <1>2, <1>3, <1>4, Frame DEF IndInv, Closed

\* A crash keeps it: what it loses decides nothing.
LEMMA IndCrash ==
  ASSUME IndInv, Crash
  PROVE  IndInv'
<1> USE ApprovalsAssumption
<1>1. TypeOK'
  BY TypeBackground DEF IndInv
<1>2. /\ winner' = winner /\ resolution' = resolution /\ outbox' = outbox /\ open' = open
      /\ emit' = [w \in Waitpoint |-> IF emit[w] \in {"waiting", "request"} THEN "lost" ELSE emit[w]]
      /\ pc' = [a \in Actor |-> IF pc[a] = "idle" THEN "idle"
                              ELSE IF a \in Click /\ marker[a] = "none" THEN "idle" ELSE "end"]
      /\ tick' = [t \in Tick |-> Idle]
  BY DEF Crash
<1>3. TickBusy'
  BY <1>2 DEF TickBusy, Idle
<1>4. \A w \in Waitpoint : (open'[w] => winner[w] = None)
                         /\ (emit'[w] = "none" => emit[w] = "none" /\ ~open'[w])
  BY <1>2 DEF IndInv, Closed
<1>5. \A a \in Actor : pc'[a] \in {"drawer", "outbox", "mark"} => pc'[a] = pc[a]
  BY <1>2
<1>6. \A t \in Tick : tick'[t].at = "effect" =>
                    tick[t].at = "effect" /\ tick'[t].cur = tick[t].cur
  BY <1>2 DEF Idle
<1> QED BY <1>1, <1>2, <1>3, <1>4, <1>5, <1>6, Frame

\* Every step keeps the inductive invariant.
LEMMA IndNext == IndInv /\ [Next]_vars => IndInv'
<1> SUFFICES ASSUME IndInv, [Next]_vars PROVE IndInv'
  OBVIOUS
<1>1. ASSUME NEW w \in Waitpoint, Opening(w) PROVE IndInv'
  BY <1>1, IndOpening
<1>2. ASSUME Poll \/ \E c \in Click : Arrive(c) \/ Resolver(c) PROVE IndInv'
  BY <1>2, IndResolver
<1>3. ASSUME NEW a \in Actor, Answer(a) \/ FailAnswer(a) PROVE IndInv'
  BY <1>3, IndAnswer
<1>4. ASSUME NEW t \in Tick, TickStep(t) \/ \E w \in Waitpoint : FailTick(t, w) PROVE IndInv'
  BY <1>4, IndTick
<1>5. ASSUME \/ RelayStep
             \/ \E i \in relay.rows : FailRelay(i)
             \/ \E j \in jobs : RunJob(j)
             \/ \E j \in retained : Evict(j)
             \/ UNCHANGED vars
      PROVE  IndInv'
  BY <1>5, IndRelay
<1>6. CASE Crash
  BY <1>6, IndCrash
<1> QED BY <1>1, <1>2, <1>3, <1>4, <1>5, <1>6 DEF Next

\* The inductive invariant behind the theorems below: the claim of
\* resolveWaitpoint decides every race.
THEOREM IndInvIsInvariant == Spec => []IndInv
<1> QED BY IndInit, IndNext, PTL DEF Spec

\* Every state of the approval round trip is well typed (TypeOK).
THEOREM TypeCorrect == Spec => []TypeOK
<1>1. IndInv => TypeOK
  BY DEF IndInv
<1> QED BY <1>1, IndInvIsInvariant, PTL

\* However many answers and reaper runs race for a waitpoint, one of them
\* records one resolution (resolveWaitpoint's claim).
THEOREM Resolved == Spec => []OneResolution
<1>1. IndInv => OneResolution
  <2> SUFFICES ASSUME IndInv PROVE OneResolution
    OBVIOUS
  <2>1. ASSUME NEW r \in resolution
        PROVE  /\ r = [wp |-> r.wp, by |-> r.by, choice |-> r.choice]
               /\ r.wp \in Waitpoint /\ r.by \in Actor \union Tick
               /\ winner[r.wp] = r.by /\ ~open[r.wp]
               /\ r.by \in Actor => r.choice = Pick[r.by]
               /\ r.by \in Tick => r.choice = Policy[r.wp]
    <3>1. r \in [wp : Waitpoint, by : Actor \union Tick, choice : Choice \union Policies]
      BY DEF IndInv, TypeOK
    <3>2. winner[r.wp] = r.by /\ (r.by \in Actor => r.choice = Pick[r.by])
          /\ (r.by \in Tick => r.choice = Policy[r.wp])
      BY DEF IndInv, ResolutionsWon
    <3>3. ~open[r.wp]
      BY <3>1, <3>2, ApprovalsAssumption DEF IndInv, Closed
    <3> QED BY <3>1, <3>2, <3>3
  <2> QED BY <2>1 DEF OneResolution
<1> QED BY <1>1, IndInvIsInvariant, PTL

\* Work is resumed at most once per waitpoint, by its winner, with the
\* recorded decision (enqueueResumption).
THEOREM Resumed == Spec => []ResumptionFollowsDecision
<1>1. IndInv => ResumptionFollowsDecision
  BY DEF IndInv, RowsFollow, ResumptionFollowsDecision
<1> QED BY <1>1, IndInvIsInvariant, PTL

\* A timeout cancels no run whose waitpoint somebody answered (issue #261).
THEOREM CancelSafe == Spec => CancelOnlyUnanswered
<1> DEFINE Unanswered(r) ==
      \E t \in Tick, w \in Waitpoint :
        /\ RunOf[w] = r /\ winner[w] = t
        /\ \A s \in resolution : s.wp # w
        /\ \A a \in Actor : Target[a] = w => pc[a] \notin {"drawer", "outbox", "mark"}
<1>1. ASSUME IndInv, NEW t \in Tick, NEW r \in Run, TickEffect(t),
             runStatus'[r] = "cancelled", runStatus[r] # "cancelled"
      PROVE  Unanswered(r)
  <2> DEFINE w == tick[t].cur
  <2>1. w \in Waitpoint /\ winner[w] = t /\ t \notin Actor
    BY <1>1, ApprovalsAssumption DEF TickEffect, IndInv, TickBusy, TickWon
  <2>2. Policy[w] = "auto_cancel" /\ RunOf[w] = r
    BY <1>1 DEF TickEffect, IndInv, TypeOK
  <2> HIDE DEF w
  <2>3. ASSUME NEW s \in resolution, s.wp = w PROVE FALSE
    <3>1. s.by = t /\ (s.by \in Tick => Policy[s.wp] # "auto_cancel")
      BY <1>1, <2>1, <2>3 DEF IndInv, ResolutionsWon
    <3> QED BY <2>2, <2>3, <3>1
  <2>4. ASSUME NEW a \in Actor, Target[a] = w, pc[a] \in {"drawer", "outbox", "mark"}
        PROVE  FALSE
    BY <1>1, <2>1, <2>4 DEF IndInv, Acting
  <2> QED BY <2>1, <2>2, <2>3, <2>4
<1>2. ASSUME IndInv, [Next]_vars, NEW r \in Run,
             runStatus'[r] = "cancelled", runStatus[r] # "cancelled"
      PROVE  \E t \in Tick : TickEffect(t)
  <2>1. runStatus \in [Run -> {"running", "waiting", "cancelled"}] /\ runStatus' # runStatus
    BY <1>2 DEF IndInv, TypeOK
  <2>2. ASSUME NEW w \in Waitpoint, Opening(w) PROVE FALSE
    <3>1. MarkWaiting(w)
      BY <2>1, <2>2 DEF Opening, OpenWaitpoint, WriteRequest, Expire
    <3> QED BY <1>2, <2>1, <3>1 DEF MarkWaiting
  <2>3. ASSUME NEW j \in jobs, RunJob(j) PROVE FALSE
    BY <1>2, <2>1, <2>3 DEF RunJob
  <2>4. ASSUME NEW t \in Tick, TickStep(t) PROVE TickEffect(t)
    BY <2>1, <2>4 DEF TickStep, TickStart, TickResolve, TickCancel, TickEscalate,
                      StampStart, StampCommit
  <2>5. ASSUME NEW t \in Tick, NEW w \in Waitpoint, FailTick(t, w) PROVE FALSE
    BY <2>1, <2>5 DEF FailTick
  <2>6. ASSUME NEW a \in Actor, Answer(a) \/ FailAnswer(a) PROVE FALSE
    BY <2>1, <2>6 DEF Answer, Claim, NotFound, WriteResolution, Enqueue, FailAnswer
  <2>7. ASSUME Poll \/ \E c \in Click : Arrive(c) \/ Resolver(c) PROVE FALSE
    BY <2>1, <2>7 DEF Poll, Arrive, Resolver, IgnoreUndeclared, MarkResolved
  <2>8. ASSUME \/ RelayStep
               \/ \E i \in relay.rows : FailRelay(i)
               \/ \E j \in retained : Evict(j)
               \/ Crash
               \/ UNCHANGED vars
        PROVE  FALSE
    BY <2>1, <2>8 DEF RelayStep, RelayPoll, RelayAdd, RelayMark, FailRelay, Evict, Crash, vars
  <2> QED BY <1>2, <2>2, <2>3, <2>4, <2>5, <2>6, <2>7, <2>8 DEF Next
<1>3. IndInv /\ [Next]_vars =>
        [\A r \in Run : runStatus'[r] = "cancelled" /\ runStatus[r] # "cancelled"
                       => Unanswered(r)]_vars
  BY <1>1, <1>2
<1> QED BY <1>3, IndInvIsInvariant, PTL DEF Spec, CancelOnlyUnanswered

-----------------------------------------------------------------------------
(* The job of a handler *)

\* BullMQ knows the job of every handler row that is sent and unprocessed, and
\* only such jobs: that the row's id is still known is what lets the relay send
\* a row again.
JobsKnown ==
  /\ \A j \in (jobs \union retained) \cap Nat :
       j \in DOMAIN outbox /\ outbox[j].how = "handler" /\ outbox[j].sent = 1
  /\ \A i \in DOMAIN outbox : outbox[i].how = "handler" =>
       /\ outbox[i].sent \in {0, 1}
       /\ outbox[i].done => outbox[i].sent = 1
       /\ outbox[i].sent = 1 => outbox[i].done \/ i \in jobs \union retained
       /\ Current(i) /\ relay.added => outbox[i].sent = 1
  /\ \A i \in relay.rows : ~outbox[i].done

\* What a step can do to the outbox, the relay and BullMQ.
LEMMA RelayFrame ==
  ASSUME [Next]_vars
  PROVE  \/ UNCHANGED <<outbox, relay, jobs, retained>>
         \/ (\E a \in Actor : Enqueue(a)) \/ RelayPoll
         \/ (\E i \in relay.rows : RelayAdd(i) \/ RelayMark(i) \/ FailRelay(i))
         \/ (\E j \in jobs : RunJob(j)) \/ (\E j \in retained : Evict(j)) \/ Crash
<1> USE DEF relaying
<1>1. ASSUME NEW w \in Waitpoint, Opening(w) PROVE UNCHANGED <<outbox, relay, jobs, retained>>
  BY <1>1 DEF Opening, OpenWaitpoint, MarkWaiting, WriteRequest, Expire
<1>2. ASSUME Poll \/ \E c \in Click : Arrive(c) \/ Resolver(c)
      PROVE  UNCHANGED <<outbox, relay, jobs, retained>>
  BY <1>2 DEF Poll, Arrive, Resolver, IgnoreUndeclared, MarkResolved
<1>3. ASSUME NEW a \in Actor, Answer(a) \/ FailAnswer(a), ~Enqueue(a)
      PROVE  UNCHANGED <<outbox, relay, jobs, retained>>
  BY <1>3 DEF Answer, Claim, NotFound, WriteResolution, FailAnswer
<1>4. ASSUME NEW t \in Tick, TickStep(t) \/ \E w \in Waitpoint : FailTick(t, w)
      PROVE  UNCHANGED <<outbox, relay, jobs, retained>>
  BY <1>4 DEF TickStep, TickStart, TickEffect, StampStart, StampCommit, TickResolve,
              TickCancel, TickEscalate, FailTick
<1>5. UNCHANGED vars => UNCHANGED <<outbox, relay, jobs, retained>>
  BY DEF vars
<1> QED BY <1>1, <1>2, <1>3, <1>4, <1>5 DEF Next, RelayStep

\* The relay, BullMQ and its failures keep what is known of jobs.
LEMMA JobsStayKnown == TypeOK /\ JobsKnown /\ [Next]_vars => JobsKnown'
<1> SUFFICES ASSUME TypeOK, JobsKnown, [Next]_vars PROVE JobsKnown'
  OBVIOUS
<1> DEFINE Ids == jobs \union retained
<1>1. /\ outbox \in Seq(Row) /\ relay.rows \subseteq DOMAIN outbox
      /\ \A i \in DOMAIN outbox : outbox[i].wp \in Waitpoint /\ outbox[i].sent \in Nat
      /\ Run \cap Nat = {}
  <2>1. outbox \in Seq(Row) /\ relay.rows \subseteq DOMAIN outbox /\ Run \cap Nat = {}
    BY ApprovalsAssumption DEF TypeOK
  <2>2. \A i \in DOMAIN outbox : outbox[i] \in Row
    BY <2>1
  <2> QED BY <2>1, <2>2 DEF Row
<1>2. CASE UNCHANGED <<outbox, relay, jobs, retained>>
  BY <1>2 DEF JobsKnown, Current
<1>3. ASSUME NEW a \in Actor, Enqueue(a) PROVE JobsKnown'
  <2> DEFINE row == [wp |-> Target[a], choice |-> Pick[a],
                     how |-> Strategy[Target[a]][Pick[a]], sent |-> 0, done |-> FALSE]
  <2>1. UNCHANGED <<relay, jobs, retained>> /\ (outbox' = outbox \/ outbox' = Append(outbox, row))
    BY <1>3 DEF Enqueue, relaying
  <2>2. CASE outbox' = outbox
    BY <2>1, <2>2 DEF JobsKnown, Current
  <2>3. CASE outbox' = Append(outbox, row)
    <3>1. row.sent = 0 /\ row.done = FALSE
      OBVIOUS
    <3> HIDE DEF row
    <3>2. /\ DOMAIN outbox' = DOMAIN outbox \union {Len(outbox) + 1}
          /\ \A k \in DOMAIN outbox : outbox'[k] = outbox[k]
          /\ outbox'[Len(outbox) + 1] = row
          /\ Len(outbox) + 1 \notin DOMAIN outbox
      BY <1>1, <2>3
    <3>3. Len(outbox) + 1 \notin relay.rows
      BY <1>1, <3>2
    <3> QED BY <1>1, <2>1, <3>1, <3>2, <3>3 DEF JobsKnown, Current
  <2> QED BY <2>1, <2>2, <2>3
<1>4. CASE RelayPoll
  BY <1>4 DEF RelayPoll, Unprocessed, JobsKnown
<1>5. ASSUME NEW i \in relay.rows, RelayAdd(i) PROVE JobsKnown'
  <2> DEFINE ignored == JobId(i) \in Ids
             n == IF ignored THEN outbox[i].sent ELSE outbox[i].sent + 1
  <2>1. /\ i \in DOMAIN outbox /\ i \in Nat /\ ~outbox[i].done /\ Current(i)
        /\ relay'.rows = relay.rows /\ retained' = retained
        /\ jobs' = IF ignored THEN jobs ELSE jobs \union {JobId(i)}
    BY <1>1, <1>5 DEF RelayAdd, JobsKnown, TypeOK
  <2>2. outbox' = [outbox EXCEPT ![i] = [outbox[i] EXCEPT !.sent = n]]
    BY <1>5 DEF RelayAdd
  <2>3. /\ DOMAIN outbox' = DOMAIN outbox
        /\ \A k \in DOMAIN outbox : k # i => outbox'[k] = outbox[k]
        /\ outbox'[i].how = outbox[i].how /\ outbox'[i].done = outbox[i].done
        /\ outbox'[i].sent = n
    <3>1. outbox[i] \in Row
      BY <1>1, <2>1
    <3> HIDE DEF n
    <3> QED BY <1>1, <2>1, <2>2, <3>1 DEF Row
  <2>4. CASE outbox[i].how = "handler"
    <3>1. JobId(i) = i
      BY <2>4 DEF JobId
    <3>2. n = 1 /\ i \in jobs' \union retained'
      BY <2>1, <2>4, <3>1 DEF JobsKnown
    <3>3. \A j \in (jobs' \union retained') \cap Nat : j = i \/ j \in Ids
      BY <2>1, <3>1
    <3>4. \A j \in Ids : j \in jobs' \union retained'
      BY <2>1
    <3>5. \A k \in relay.rows : Current(k) <=> k = i
      BY <1>1, <2>1 DEF Current
    <3>6. \A k \in DOMAIN outbox : Current(k)' => k = i
      BY <1>1, <2>1 DEF Current
    <3> HIDE DEF n, ignored
    <3> QED BY <1>1, <2>1, <2>3, <2>4, <3>2, <3>3, <3>4, <3>6 DEF JobsKnown
  <2>5. CASE outbox[i].how # "handler"
    <3>1. JobId(i) \in Run
      BY <1>1, <2>1, <2>5 DEF JobId, Run
    <3>2. \A j \in Nat : j \in jobs' \union retained' <=> j \in Ids
      BY <1>1, <2>1, <3>1
    <3>3. \A k \in DOMAIN outbox : Current(k)' => k = i
      BY <1>1, <2>1 DEF Current
    <3>4. \A j \in DOMAIN outbox : j \in Nat
      BY <1>1
    <3> HIDE DEF n, ignored
    <3> QED BY <1>1, <2>1, <2>3, <2>5, <3>2, <3>3, <3>4 DEF JobsKnown
  <2> QED BY <2>4, <2>5
<1>6. ASSUME NEW i \in relay.rows, RelayMark(i) PROVE JobsKnown'
  <2>1. /\ i \in DOMAIN outbox /\ Current(i) /\ relay.added
        /\ outbox' = [outbox EXCEPT ![i].done = TRUE]
        /\ relay'.rows = relay.rows \ {i} /\ ~relay'.added
        /\ UNCHANGED <<jobs, retained>>
    BY <1>1, <1>6 DEF RelayMark, MaySettle, Settled
  <2>2. /\ DOMAIN outbox' = DOMAIN outbox
        /\ \A k \in DOMAIN outbox : k # i => outbox'[k] = outbox[k]
        /\ outbox'[i].how = outbox[i].how /\ outbox'[i].sent = outbox[i].sent
        /\ outbox'[i].done
    <3>1. outbox[i] \in Row
      BY <1>1, <2>1
    <3>2. outbox' = [outbox EXCEPT ![i] = [outbox[i] EXCEPT !.done = TRUE]]
      BY <2>1
    <3> QED BY <1>1, <2>1, <3>1, <3>2 DEF Row
  <2> QED BY <1>1, <2>1, <2>2 DEF JobsKnown
<1>7. ASSUME NEW i \in relay.rows, FailRelay(i) PROVE JobsKnown'
  BY <1>7 DEF FailRelay, Settled, JobsKnown
<1>8. ASSUME NEW j \in jobs, RunJob(j) PROVE JobsKnown'
  <2>1. UNCHANGED <<outbox, relay>> /\ jobs' \union retained' = Ids
    BY <1>8 DEF RunJob
  <2> QED BY <2>1 DEF JobsKnown, Current
<1>9. ASSUME NEW j \in retained, Evict(j) PROVE JobsKnown'
  <2>1. /\ UNCHANGED <<outbox, relay, jobs>> /\ retained' = retained \ {j}
        /\ \A i \in DOMAIN outbox : JobId(i) = j => outbox[i].done
    BY <1>9 DEF Evict
  <2>2. \A i \in DOMAIN outbox : outbox[i].how = "handler" /\ i = j => outbox[i].done
    BY <2>1 DEF JobId
  <2> QED BY <2>1, <2>2 DEF JobsKnown, Current
<1>10. CASE Crash
  BY <1>10 DEF Crash, JobsKnown
<1> QED BY <1>2, <1>3, <1>4, <1>5, <1>6, <1>7, <1>8, <1>9, <1>10, RelayFrame

\* However often the relay sends a row again, after a failure or a crash, the
\* handler skill is queued once, and before its row is processed (outbox-relay.ts).
THEOREM HandlersRunOnce == Spec => []HandlerRunsOnce
<1>1. Init => JobsKnown
  <2>1. Init => jobs = {} /\ retained \cap Nat = {} /\ outbox = <<>> /\ relay.rows = {}
    BY ApprovalsAssumption DEF Init
  <2> QED BY <2>1 DEF JobsKnown
<1>2. JobsKnown => HandlerRunsOnce
  BY DEF JobsKnown, HandlerRunsOnce
<1> QED BY <1>1, <1>2, JobsStayKnown, TypeCorrect, PTL DEF Spec

-----------------------------------------------------------------------------
(* The end of a click *)

\* The decision of a click that has come to its mark, or is past it, is in the
\* outbox.
ClickBehind ==
  \A c \in Click :
    /\ pc[c] = "mark" /\ Queues(Strategy[Target[c]][Pick[c]]) => Resumes(c)
    /\ marker[c] = "resolved" =>
         winner[Target[c]] = c /\ (Queues(Strategy[Target[c]][Pick[c]]) => Resumes(c))

\* A row, once written, is never taken back or changed but for its progress.
LEMMA RowsStay ==
  ASSUME TypeOK, [Next]_vars
  PROVE  \A c \in Click : Resumes(c) => Resumes(c)'
<1> SUFFICES \A i \in DOMAIN outbox :
               i \in DOMAIN outbox' /\ outbox'[i].wp = outbox[i].wp /\ outbox'[i].choice = outbox[i].choice
  BY DEF Resumes
<1>1. outbox \in Seq(Row) /\ relay.rows \subseteq DOMAIN outbox
  BY DEF TypeOK
<1>2. ASSUME NEW a \in Actor, Enqueue(a)
      PROVE  \A i \in DOMAIN outbox : i \in DOMAIN outbox' /\ outbox'[i] = outbox[i]
  <2> DEFINE row == [wp |-> Target[a], choice |-> Pick[a],
                     how |-> Strategy[Target[a]][Pick[a]], sent |-> 0, done |-> FALSE]
  <2>1. outbox' = outbox \/ outbox' = Append(outbox, row)
    BY <1>2 DEF Enqueue
  <2> HIDE DEF row
  <2> QED BY <1>1, <2>1
<1>3. ASSUME NEW i \in relay.rows, RelayAdd(i) \/ RelayMark(i) \/ FailRelay(i)
      PROVE  \A k \in DOMAIN outbox :
               k \in DOMAIN outbox' /\ outbox'[k].wp = outbox[k].wp /\ outbox'[k].choice = outbox[k].choice
  <2>1. CASE RelayAdd(i)
    BY <1>1, <2>1 DEF RelayAdd
  <2>2. CASE RelayMark(i)
    BY <1>1, <2>2 DEF RelayMark
  <2>3. CASE FailRelay(i)
    BY <2>3 DEF FailRelay
  <2> QED BY <1>3, <2>1, <2>2, <2>3
<1> QED BY <1>2, <1>3, RelayFrame DEF RelayPoll, RunJob, Evict, Crash

\* Who has won stays the winner.
LEMMA WinnersStay ==
  ASSUME IndInv, [Next]_vars, NEW v \in Waitpoint, winner[v] # None
  PROVE  winner'[v] = winner[v]
<1>1. ASSUME NEW w \in Waitpoint, NEW x, open[w], winner' = [winner EXCEPT ![w] = x]
      PROVE  winner'[v] = winner[v]
  BY <1>1 DEF IndInv, Closed, TypeOK
<1>2. ASSUME NEW a \in Actor, Claim(a) PROVE winner'[v] = winner[v]
  BY <1>2, <1>1, ApprovalsAssumption DEF Claim, Claimable
<1>3. ASSUME NEW t \in Tick, NEW w \in Waitpoint, TickResolve(t, w) \/ TickCancel(t, w)
      PROVE  winner'[v] = winner[v]
  BY <1>3, <1>1 DEF TickResolve, TickCancel, Claimable, StillOpen
<1>4. \/ UNCHANGED winner
      \/ \E a \in Actor : Claim(a)
      \/ \E t \in Tick, w \in Waitpoint : TickResolve(t, w) \/ TickCancel(t, w)
  BY DEF Next, vars, Opening, OpenWaitpoint, MarkWaiting, WriteRequest, Expire, Arrive, Resolver,
         IgnoreUndeclared, MarkResolved, Poll, Answer, NotFound, WriteResolution, Enqueue,
         FailAnswer, TickStep, TickStart, TickEffect, StampStart, StampCommit, TickEscalate,
         FailTick, RelayStep, RelayPoll, RelayAdd, RelayMark, FailRelay, RunJob, Evict, Crash
<1> QED BY <1>2, <1>3, <1>4

\* Where the marks of clicks and of the resolver come from.
LEMMA ClickFrame ==
  ASSUME IndInv, [Next]_vars, NEW c \in Click
  PROVE  /\ pc'[c] = "mark" => pc[c] = "mark" \/ Enqueue(c)
         /\ marker'[c] = "resolved" => marker[c] = "resolved" \/ (pc[c] = "mark" /\ UNCHANGED winner)
<1> USE DEF IndInv, TypeOK, human
<1>1. c \in Actor
  BY DEF Actor
<1>2. ASSUME NEW a \in Actor, Answer(a) \/ FailAnswer(a)
      PROVE  /\ pc'[c] = "mark" => pc[c] = "mark" \/ Enqueue(c)
             /\ marker'[c] = "resolved" => marker[c] = "resolved"
  BY ZenonT(30), <1>1, <1>2 DEF Answer, Claim, NotFound, WriteResolution, AfterResolution, Enqueue, FailAnswer
<1>3. ASSUME NEW d \in Click, Resolver(d)
      PROVE  /\ pc'[c] = "mark" => pc[c] = "mark"
             /\ marker'[c] = "resolved" => marker[c] = "resolved" \/ (pc[c] = "mark" /\ UNCHANGED winner)
  BY <1>1, <1>3 DEF Resolver, IgnoreUndeclared, MarkResolved, Actor
<1>4. CASE Crash
  BY <1>1, <1>4 DEF Crash
<1>5. ASSUME NEW w \in Waitpoint, Opening(w) PROVE UNCHANGED <<pc, marker>>
  BY <1>5 DEF Opening, OpenWaitpoint, MarkWaiting, WriteRequest, Expire
<1>6. ASSUME Poll \/ \E d \in Click : Arrive(d) PROVE UNCHANGED <<pc, marker>>
  BY <1>6 DEF Poll, Arrive
<1>7. ASSUME NEW t \in Tick, TickStep(t) \/ \E w \in Waitpoint : FailTick(t, w)
      PROVE  UNCHANGED <<pc, marker>>
  BY <1>7 DEF TickStep, TickStart, TickEffect, StampStart, StampCommit, TickResolve,
              TickCancel, TickEscalate, FailTick
<1>8. ASSUME \/ RelayStep
             \/ \E i \in relay.rows : FailRelay(i)
             \/ \E j \in jobs : RunJob(j)
             \/ \E j \in retained : Evict(j)
             \/ UNCHANGED vars
      PROVE  UNCHANGED <<pc, marker>>
  BY <1>8 DEF RelayStep, RelayPoll, RelayAdd, RelayMark, FailRelay, RunJob, Evict, vars
<1> HIDE DEF IndInv, TypeOK, human
<1> QED BY <1>2, <1>3, <1>4, <1>5, <1>6, <1>7, <1>8 DEF Next

\* What a click queues is in the outbox when its statement is done.
LEMMA EnqueueResumes ==
  ASSUME IndInv, NEW c \in Click, Enqueue(c), Queues(Strategy[Target[c]][Pick[c]])
  PROVE  Resumes(c)'
<1> DEFINE row == [wp |-> Target[c], choice |-> Pick[c],
                   how |-> Strategy[Target[c]][Pick[c]], sent |-> 0, done |-> FALSE]
<1>1. outbox' = Append(outbox, row) /\ outbox \in Seq(Row)
  BY DEF Enqueue, IndInv, TypeOK
<1>2. row.wp = Target[c] /\ row.choice = Pick[c]
  OBVIOUS
<1> HIDE DEF row
<1>3. Len(outbox) + 1 \in DOMAIN outbox' /\ outbox'[Len(outbox) + 1] = row
  BY <1>1
<1> QED BY <1>2, <1>3 DEF Resumes

\* A click is marked resolved only when it has won and its decision is in the
\* outbox (resolvePendingApprovals).
THEOREM ResolvedClicksResume == Spec => []ResolvedClickResumes
<1>1. Init => ClickBehind
  BY DEF Init, ClickBehind, Actor
<1>2. IndInv /\ ClickBehind /\ [Next]_vars => ClickBehind'
  <2> SUFFICES ASSUME IndInv, ClickBehind, [Next]_vars, NEW c \in Click
               PROVE  /\ pc'[c] = "mark" /\ Queues(Strategy[Target[c]][Pick[c]]) => Resumes(c)'
                      /\ marker'[c] = "resolved" =>
                           /\ winner'[Target[c]] = c
                           /\ Queues(Strategy[Target[c]][Pick[c]]) => Resumes(c)'
    BY DEF ClickBehind
  <2>1. Resumes(c) => Resumes(c)'
    BY RowsStay DEF IndInv
  <2>2. c \in Actor /\ Target[c] \in Waitpoint /\ c # None
    BY ApprovalsAssumption DEF Actor
  <2>3. winner[Target[c]] = c => winner'[Target[c]] = c
    BY <2>2, WinnersStay
  <2>4. pc[c] = "mark" => winner[Target[c]] = c
    BY <2>2 DEF IndInv, Acting
  <2> QED BY <2>1, <2>3, <2>4, ClickFrame, EnqueueResumes DEF ClickBehind
<1>3. ClickBehind => ResolvedClickResumes
  BY DEF ClickBehind, ResolvedClickResumes, Queues
<1> QED BY <1>1, <1>2, <1>3, IndInvIsInvariant, PTL DEF Spec

-----------------------------------------------------------------------------
(* Refinement of WaitpointDecision *)

\* The decision changes only by a win, and the effect only by the relay.
LEMMA EffectIsDecision ==
  ASSUME IndInv, NEW w \in Waitpoint
  PROVE  /\ DecisionOf(w) \in Choice \union Policies \union {None}
         /\ winner[w] = None <=> DecisionOf(w) = None
         /\ \A i \in DOMAIN outbox : outbox[i].wp = w => outbox[i].choice = DecisionOf(w)
         /\ EffectOf(w) = None \/ EffectOf(w) = DecisionOf(w)
<1> USE ApprovalsAssumption
<1>1. winner[w] \in Actor \union Tick \union {None}
  BY DEF IndInv, TypeOK
<1>2. DecisionOf(w) \in Choice \union Policies \union {None}
      /\ (winner[w] = None <=> DecisionOf(w) = None)
  BY <1>1 DEF DecisionOf
<1>3. \A i \in DOMAIN outbox : outbox[i].wp = w => outbox[i].choice = DecisionOf(w)
  <2> SUFFICES ASSUME NEW i \in DOMAIN outbox, outbox[i].wp = w
               PROVE  outbox[i].choice = DecisionOf(w)
    OBVIOUS
  <2>1. winner[w] \in Actor /\ outbox[i].choice = Pick[winner[w]]
    BY DEF IndInv, RowsFollow, Actor
  <2>2. winner[w] # None
    BY <2>1
  <2> QED BY <2>1, <2>2 DEF DecisionOf
<1>4. EffectOf(w) = None \/ EffectOf(w) = DecisionOf(w)
  <2> DEFINE sent == {i \in DOMAIN outbox : outbox[i].wp = w /\ outbox[i].sent > 0}
  <2>1. CASE sent = {}
    BY <2>1 DEF EffectOf
  <2>2. CASE sent # {}
    <3> DEFINE i == CHOOSE i \in sent : TRUE
    <3>1. i \in sent
      BY <2>2
    <3>2. EffectOf(w) = outbox[i].choice
      BY <2>2 DEF EffectOf
    <3> QED BY <1>3, <3>1, <3>2
  <2> QED BY <2>1, <2>2
<1> QED BY <1>2, <1>3, <1>4

\* A step that keeps the winners and what the rows sent shows no change.
LEMMA EffectStable ==
  ASSUME NEW w \in Waitpoint, DOMAIN outbox' = DOMAIN outbox,
         \A i \in DOMAIN outbox :
           /\ outbox'[i].wp = outbox[i].wp /\ outbox'[i].choice = outbox[i].choice
           /\ outbox[i].wp = w => outbox'[i].sent = outbox[i].sent
  PROVE  EffectOf(w)' = EffectOf(w)
<1> DEFINE sent == {i \in DOMAIN outbox : outbox[i].wp = w /\ outbox[i].sent > 0}
<1>1. sent' = sent
  OBVIOUS
<1>2. EffectOf(w) = IF sent = {} THEN None ELSE outbox[CHOOSE i \in sent : TRUE].choice
  BY DEF EffectOf
<1>3. EffectOf(w)' = IF sent' = {} THEN None ELSE outbox'[CHOOSE i \in sent' : TRUE].choice
  BY DEF EffectOf
<1>4. sent # {} => (CHOOSE i \in sent : TRUE) \in DOMAIN outbox
  OBVIOUS
<1> HIDE DEF sent
<1> QED BY <1>1, <1>2, <1>3, <1>4

\* What WaitpointDecision sees of w depends on its winner only.
LEMMA DecisionStable ==
  ASSUME NEW w \in Waitpoint, winner'[w] = winner[w]
  PROVE  DecisionOf(w)' = DecisionOf(w)
<1> QED BY DEF DecisionOf

\* A win decides its waitpoint and nothing else.
LEMMA WinDecides ==
  ASSUME IndInv, IndInv', NEW w \in Waitpoint, NEW x \in Actor \union Tick, open[w],
         winner' = [winner EXCEPT ![w] = x], outbox' = outbox
  PROVE  WD!Decide(w)
<1> USE ApprovalsAssumption
<1>1. /\ winner \in [Waitpoint -> Actor \union Tick \union {None}] /\ winner[w] = None
      /\ None \notin Actor \union Tick
  BY DEF IndInv, TypeOK, Closed
<1>2. winner'[w] = x /\ \A v \in Waitpoint : v # w => winner'[v] = winner[v]
  BY <1>1
<1>3. DecisionOf(w) = None
  BY <1>1 DEF DecisionOf
<1>4. DecisionOf(w)' \in Choice \union Policies \union {None}
      /\ (winner'[w] = None <=> DecisionOf(w)' = None)
  <2>1. DecisionOf(w) \in Choice \union Policies \union {None}
        /\ (winner[w] = None <=> DecisionOf(w) = None)
    BY EffectIsDecision
  <2> QED BY <1>1, <1>2 DEF DecisionOf, IndInv, TypeOK
<1>5. DecisionOf(w)' \in Choice \union Policies
  BY <1>1, <1>2, <1>4
<1>6. \A v \in Waitpoint : v # w => DecisionOf(v)' = DecisionOf(v)
  BY <1>2, DecisionStable
<1>7. [v \in Waitpoint |-> DecisionOf(v)'] =
        [[v \in Waitpoint |-> DecisionOf(v)] EXCEPT ![w] = DecisionOf(w)']
  BY <1>6
<1>8. [v \in Waitpoint |-> EffectOf(v)'] = [v \in Waitpoint |-> EffectOf(v)]
  BY EffectStable
<1> QED BY <1>3, <1>5, <1>7, <1>8 DEF WD!Decide

\* The relay adds the first job of a row: the decision takes effect.
LEMMA RelayTakesEffect ==
  ASSUME IndInv, NEW i \in relay.rows, RelayAdd(i)
  PROVE  WD!DNext \/ UNCHANGED WD!dvars
<1> USE ApprovalsAssumption
<1>1. i \in DOMAIN outbox /\ outbox \in Seq(Row) /\ outbox[i] \in Row /\ winner' = winner
  BY DEF IndInv, TypeOK, RelayAdd
<1>2. PICK w \in Waitpoint : w = outbox[i].wp
  BY <1>1 DEF Row
<1>3. \A v \in Waitpoint : DecisionOf(v)' = DecisionOf(v)
  BY <1>1, DecisionStable
<1>4. /\ DOMAIN outbox' = DOMAIN outbox
      /\ \A k \in DOMAIN outbox : k # i => outbox'[k] = outbox[k]
      /\ outbox'[i].wp = outbox[i].wp /\ outbox'[i].choice = outbox[i].choice
      /\ outbox'[i].sent \in {outbox[i].sent, outbox[i].sent + 1}
  <2> DEFINE n == IF JobId(i) \in jobs \union retained
                  THEN outbox[i].sent ELSE outbox[i].sent + 1
  <2>1. outbox' = [outbox EXCEPT ![i] = [outbox[i] EXCEPT !.sent = n]]
    BY DEF RelayAdd
  <2>2. n \in {outbox[i].sent, outbox[i].sent + 1}
    OBVIOUS
  <2>3. outbox[i].wp \in Waitpoint /\ outbox[i] = [wp |-> outbox[i].wp, choice |-> outbox[i].choice,
          how |-> outbox[i].how, sent |-> outbox[i].sent, done |-> outbox[i].done]
    BY <1>1 DEF Row
  <2> HIDE DEF n
  <2> QED BY <1>1, <2>1, <2>2, <2>3
<1>5. \A v \in Waitpoint : v # w => EffectOf(v)' = EffectOf(v)
  <2> SUFFICES ASSUME NEW v \in Waitpoint, v # w PROVE EffectOf(v)' = EffectOf(v)
    OBVIOUS
  <2>1. \A k \in DOMAIN outbox :
          /\ outbox'[k].wp = outbox[k].wp /\ outbox'[k].choice = outbox[k].choice
          /\ outbox[k].wp = v => outbox'[k].sent = outbox[k].sent
    BY <1>2, <1>4
  <2> QED BY <1>4, <2>1, EffectStable
<1>6. /\ outbox[i].choice = DecisionOf(w) /\ DecisionOf(w) # None
      /\ EffectOf(w) = None \/ EffectOf(w) = DecisionOf(w)
  <2>1. outbox[i].choice # None
    BY <1>1 DEF Row
  <2> QED BY <1>1, <1>2, <2>1, EffectIsDecision
<1>7. EffectOf(w)' = EffectOf(w) \/ EffectOf(w)' = DecisionOf(w)
  <2>1. CASE outbox'[i].sent = outbox[i].sent
    <3>1. \A k \in DOMAIN outbox :
            /\ outbox'[k].wp = outbox[k].wp /\ outbox'[k].choice = outbox[k].choice
            /\ outbox[k].wp = w => outbox'[k].sent = outbox[k].sent
      BY <1>4, <2>1
    <3> QED BY <1>4, <3>1, EffectStable
  <2>2. CASE outbox'[i].sent = outbox[i].sent + 1
    <3> DEFINE sent == {k \in DOMAIN outbox' : outbox'[k].wp = w /\ outbox'[k].sent > 0}
    <3>1. i \in sent
      BY <1>1, <1>2, <1>4, <2>2 DEF Row
    <3>2. \A k \in sent : k = i
      <4>1. \A k \in DOMAIN outbox : outbox[k].wp = outbox[i].wp => k = i
        BY <1>1 DEF IndInv, RowsFollow
      <4> QED BY <1>2, <1>4, <4>1
    <3>3. EffectOf(w)' = IF sent = {} THEN None ELSE outbox'[CHOOSE k \in sent : TRUE].choice
      BY DEF EffectOf
    <3>4. (CHOOSE k \in sent : TRUE) = i
      BY <3>1, <3>2
    <3> HIDE DEF sent
    <3> QED BY <3>1, <3>3, <3>4, <1>4, <1>6
  <2> QED BY <1>4, <2>1, <2>2
<1>8. CASE EffectOf(w)' = EffectOf(w)
  <2>1. UNCHANGED WD!dvars
    BY <1>3, <1>5, <1>8 DEF WD!dvars
  <2> QED BY <2>1
<1>9. CASE EffectOf(w) = None /\ EffectOf(w)' = DecisionOf(w)
  <2>1. [v \in Waitpoint |-> EffectOf(v)'] =
          [[v \in Waitpoint |-> EffectOf(v)] EXCEPT ![w] = DecisionOf(w)]
    BY <1>5, <1>9
  <2>2. [v \in Waitpoint |-> DecisionOf(v)'] = [v \in Waitpoint |-> DecisionOf(v)]
    BY <1>3
  <2>3. WD!TakeEffect(w)
    BY <1>6, <1>9, <2>1, <2>2 DEF WD!TakeEffect
  <2> QED BY <2>3 DEF WD!DNext
<1> QED BY <1>6, <1>7, <1>8, <1>9

\* A new outbox row changes no decision and no effect.
LEMMA EnqueueShowsNothing ==
  ASSUME IndInv, NEW a \in Actor, Enqueue(a)
  PROVE  UNCHANGED WD!dvars
<1>1. outbox \in Seq(Row) /\ winner' = winner
  BY DEF IndInv, TypeOK, Enqueue
<1>2. \A v \in Waitpoint : DecisionOf(v)' = DecisionOf(v)
  BY <1>1, DecisionStable
<1>3. ASSUME NEW v \in Waitpoint PROVE EffectOf(v)' = EffectOf(v)
  <2> DEFINE row == [wp |-> Target[a], choice |-> Pick[a],
                     how |-> Strategy[Target[a]][Pick[a]], sent |-> 0, done |-> FALSE]
             sent == {k \in DOMAIN outbox : outbox[k].wp = v /\ outbox[k].sent > 0}
             sentNext == {k \in DOMAIN outbox' : outbox'[k].wp = v /\ outbox'[k].sent > 0}
  <2>1. outbox' = outbox \/ outbox' = Append(outbox, row)
    BY DEF Enqueue
  <2>2. CASE outbox' = outbox
    BY <2>2, EffectStable
  <2>3. CASE outbox' = Append(outbox, row)
    <3>1. row.sent = 0
      OBVIOUS
    <3> HIDE DEF row
    <3>2. /\ DOMAIN outbox' = DOMAIN outbox \union {Len(outbox) + 1}
          /\ \A k \in DOMAIN outbox : outbox'[k] = outbox[k]
          /\ outbox'[Len(outbox) + 1] = row
      BY <1>1, <2>3
    <3>3. sentNext = sent
      BY <3>1, <3>2
    <3>4. EffectOf(v) = IF sent = {} THEN None ELSE outbox[CHOOSE i \in sent : TRUE].choice
      BY DEF EffectOf
    <3>5. EffectOf(v)' = IF sentNext = {} THEN None ELSE outbox'[CHOOSE i \in sentNext : TRUE].choice
      BY DEF EffectOf
    <3>6. sent # {} => (CHOOSE i \in sent : TRUE) \in DOMAIN outbox
      OBVIOUS
    <3> HIDE DEF sent, sentNext
    <3> QED BY <3>2, <3>3, <3>4, <3>5, <3>6
  <2> QED BY <2>1, <2>2, <2>3
<1> QED BY <1>2, <1>3 DEF WD!dvars

\* A step that changes neither winners nor rows shows nothing.
LEMMA ShowsNothing ==
  ASSUME winner' = winner, outbox' = outbox
  PROVE  UNCHANGED WD!dvars
<1>1. \A v \in Waitpoint : DecisionOf(v)' = DecisionOf(v) /\ EffectOf(v)' = EffectOf(v)
  BY DecisionStable, EffectStable
<1> QED BY <1>1 DEF WD!dvars

\* Every step is a step of WaitpointDecision or a stutter.
LEMMA StepRefines ==
  ASSUME IndInv, IndInv', [Next]_vars
  PROVE  [WD!DNext]_WD!dvars
<1> USE ApprovalsAssumption DEF human, reaper, relaying, opening
<1>1. ASSUME NEW a \in Actor, Claim(a) PROVE WD!DNext
  <2>1. PICK w \in Waitpoint : w = Target[a]
    BY DEF IndInv, TypeOK
  <2>2. /\ open[w] /\ winner' = [winner EXCEPT ![w] = a] /\ outbox' = outbox
        /\ a \in Actor \union Tick
    BY <1>1, <2>1 DEF Claim, Claimable
  <2>3. WD!Decide(w)
    BY <2>2, WinDecides
  <2> QED BY <2>3 DEF WD!DNext
<1>2. ASSUME NEW t \in Tick, NEW w \in Waitpoint, TickResolve(t, w) \/ TickCancel(t, w)
      PROVE  WD!DNext \/ UNCHANGED WD!dvars
  <2>1. outbox' = outbox /\ (winner' = winner \/ (open[w] /\ winner' = [winner EXCEPT ![w] = t]))
    BY <1>2 DEF TickResolve, TickCancel, Claimable, StillOpen
  <2>2. CASE winner' = winner
    BY <2>1, <2>2, ShowsNothing
  <2>3. CASE open[w] /\ winner' = [winner EXCEPT ![w] = t]
    <3>1. WD!Decide(w)
      BY <2>1, <2>3, WinDecides
    <3> QED BY <3>1 DEF WD!DNext
  <2> QED BY <2>1, <2>2, <2>3
<1>3. ASSUME NEW i \in relay.rows, RelayAdd(i) PROVE WD!DNext \/ UNCHANGED WD!dvars
  BY <1>3, RelayTakesEffect
<1>4. ASSUME NEW i \in relay.rows, RelayMark(i) PROVE UNCHANGED WD!dvars
  <2>1. i \in DOMAIN outbox /\ winner' = winner
    BY <1>4 DEF IndInv, TypeOK, RelayMark
  <2>2. DOMAIN outbox' = DOMAIN outbox
        /\ \A k \in DOMAIN outbox :
             /\ outbox'[k].wp = outbox[k].wp /\ outbox'[k].choice = outbox[k].choice
             /\ outbox'[k].sent = outbox[k].sent
    BY <1>4, <2>1 DEF RelayMark
  <2>3. \A v \in Waitpoint : DecisionOf(v)' = DecisionOf(v) /\ EffectOf(v)' = EffectOf(v)
    BY <2>1, <2>2, DecisionStable, EffectStable
  <2> QED BY <2>3 DEF WD!dvars
<1>5. ASSUME NEW a \in Actor, Enqueue(a) PROVE UNCHANGED WD!dvars
  BY <1>5, EnqueueShowsNothing
<1>6. ASSUME NEW w \in Waitpoint, Opening(w) PROVE winner' = winner /\ outbox' = outbox
  BY <1>6 DEF Opening, OpenWaitpoint, MarkWaiting, WriteRequest, Expire
<1>7. ASSUME Poll \/ \E c \in Click : Arrive(c) \/ Resolver(c)
      PROVE  winner' = winner /\ outbox' = outbox
  BY <1>7 DEF Poll, Arrive, Resolver, IgnoreUndeclared, MarkResolved
<1>8. ASSUME NEW a \in Actor, NotFound(a) \/ WriteResolution(a) \/ FailAnswer(a)
      PROVE  winner' = winner /\ outbox' = outbox
  BY <1>8 DEF NotFound, WriteResolution, FailAnswer
<1>10. ASSUME \/ RelayPoll
              \/ \E i \in relay.rows : FailRelay(i)
              \/ \E j \in jobs : RunJob(j)
              \/ \E j \in retained : Evict(j)
              \/ Crash
              \/ UNCHANGED vars
       PROVE  winner' = winner /\ outbox' = outbox
  BY <1>10 DEF RelayPoll, FailRelay, RunJob, Evict, Crash, vars
<1>11. ASSUME NEW t \in Tick, TickStep(t) \/ \E w \in Waitpoint : FailTick(t, w)
       PROVE  WD!DNext \/ UNCHANGED WD!dvars
  <2>1. CASE \E w \in Waitpoint : TickResolve(t, w) \/ TickCancel(t, w)
    BY <1>2, <2>1
  <2>2. CASE TickStart(t) \/ TickEffect(t) \/ StampStart(t) \/ StampCommit(t)
             \/ \E w \in Waitpoint : TickEscalate(t, w) \/ FailTick(t, w)
    <3>1. winner' = winner /\ outbox' = outbox
      BY <2>2 DEF TickStart, TickEscalate, TickEffect, StampStart, StampCommit, FailTick
    <3> QED BY <3>1, ShowsNothing
  <2> QED BY <1>11, <2>1, <2>2 DEF TickStep
<1>12. ASSUME NEW a \in Actor, Answer(a) \/ FailAnswer(a)
       PROVE  WD!DNext \/ UNCHANGED WD!dvars
  BY <1>1, <1>5, <1>8, <1>12, ShowsNothing DEF Answer
<1>13. ASSUME RelayStep PROVE WD!DNext \/ UNCHANGED WD!dvars
  BY <1>3, <1>4, <1>10, <1>13, ShowsNothing DEF RelayStep
<1> QED BY <1>6, <1>7, <1>10, <1>11, <1>12, <1>13, ShowsNothing DEF Next

\* The approval round trip implements the abstract decision: one outcome per
\* waitpoint, and only that outcome takes effect as a job, once.
THEOREM Refines == Spec => ImplementsDecision
<1>1. Init => WD!DInit
  BY DEF Init, WD!DInit, DecisionOf, EffectOf
<1>2. IndInv /\ IndInv' /\ [Next]_vars => [WD!DNext]_WD!dvars
  BY StepRefines
<1> QED BY <1>1, <1>2, IndInvIsInvariant, PTL DEF Spec, ImplementsDecision, WD!DSpec
=============================================================================
