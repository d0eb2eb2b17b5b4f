---------------------------- MODULE RuntimeProofs ----------------------------
(***************************************************************************)
(* Proofs about the components that a run of a skill passes through: the   *)
(* agentic loop with its caps, the queue with the pauses for the budget    *)
(* and for rate limits, the clients of an MCP server, and the ways in:     *)
(* messages, batches and requests.  Each is proved on its own, for any     *)
(* models, prices, limits, slots, runs, messages, items, calls and bounds; *)
(* the modules that compose them for TLC take its steps one component at a *)
(* time, which is proved of the ways in as well.                           *)
(***************************************************************************)
EXTENDS AgenticLoop, QueuePause, McpPool, Ingress, NatMinMax, SequenceTheorems, TLAPS

-----------------------------------------------------------------------------
(* The agentic loop *)

Running == {"start", "turn", "call"}

\* A link of the chain serves while turns are made.
Served == loop \in {"turn", "call", "tools"} => link \in Links

\* A turn begins below the cap, and what was billed exceeds it by a turn at
\* most.
BelowCap ==
  /\ cost = billed
  /\ loop \in Running => cost < MaxSpend
  /\ \E charge \in Charges \union {0} : billed < MaxSpend + charge

\* The streak counts calls that failed one after the other, up to the last.
StreakIsReal ==
  /\ \A k \in DOMAIN calls : k > Len(calls) - errors => calls[k]
  /\ stop = "error_streak" => errors >= MaxErrors /\ loop \in {"end", "done", "thrown"}

LoopInv ==
  LoopTypeOK /\ Served /\ turns <= MaxTurns /\ BelowCap /\ StreakIsReal

LEMMA LoopInitially == LoopInit => LoopInv
<1> SUFFICES ASSUME LoopInit PROVE LoopInv
  OBVIOUS
<1>1. LoopTypeOK /\ Served
  <2>1. calls \in Seq(BOOLEAN)
    BY DEF LoopInit
  <2>2. {turns, link, attempt, tokens, cost, same, errors, asked, recorded, billed} \subseteq Nat
    BY DEF LoopInit
  <2>3. loop = "start" /\ stop = "max_turns" /\ good = FALSE
    BY DEF LoopInit
  <2> QED BY <2>1, <2>2, <2>3 DEF LoopTypeOK, Served
<1>2. MaxSpend \in Nat \ {0} /\ MaxTurns \in Nat
  BY AgenticLoopAssumption
<1> QED BY <1>1, <1>2 DEF LoopInit, LoopInv, BelowCap, StreakIsReal, Running

\* A turn is charged what its model charges.
LEMMA ChargeOfTurn ==
  ASSUME link \in Links, NEW u \in Usage
  PROVE  u * Price[Models[link]] \in Nat /\ u * Price[Models[link]] \in Charges
<1>1. link \in DOMAIN Models /\ Models[link] \in DOMAIN Price
  BY AgenticLoopAssumption DEF Links
<1>2. Price[Models[link]] \in Nat /\ u \in Nat
  BY <1>1, AgenticLoopAssumption
<1> QED BY <1>2 DEF Charges

\* A response is counted at the rate of the model that served it.
LEMMA LoopRespond ==
  ASSUME LoopInv, NEW u \in Usage, NEW n \in 0 .. MaxTools, NEW ends \in BOOLEAN,
         Respond(u, n, ends)
  PROVE  LoopInv'
<1> DEFINE charge == u * Price[Models[link]]
<1>1. loop = "call" /\ link \in Links /\ n \in Nat /\ MaxSpend \in Nat /\ u \in Nat
  BY AgenticLoopAssumption DEF Respond, LoopInv, Served
<1>2. charge \in Nat /\ charge \in Charges
  BY <1>1, ChargeOfTurn
<1>3. cost' = cost + charge /\ billed' = billed + charge /\ tokens' = tokens + u
  BY DEF Respond, CostOf
<1> HIDE DEF charge
<1>4. cost \in Nat /\ billed \in Nat /\ tokens \in Nat /\ cost = billed /\ cost < MaxSpend
  BY <1>1 DEF LoopInv, LoopTypeOK, BelowCap, Running
<1>5. BelowCap'
  <2>1. billed' < MaxSpend + charge
    BY <1>1, <1>2, <1>3, <1>4
  <2>2. loop' \notin Running
    BY DEF Respond, Running
  <2> QED BY <1>2, <1>3, <1>4, <2>1, <2>2 DEF BelowCap, Charges
<1>6. LoopTypeOK'
  BY SMTT(30), <1>1, <1>2, <1>3, <1>4 DEF Respond, LoopInv, LoopTypeOK
<1>7. Served' /\ turns' <= MaxTurns /\ StreakIsReal'
  BY <1>1 DEF Respond, LoopInv, Served, StreakIsReal, Links
<1> QED BY <1>5, <1>6, <1>7 DEF LoopInv

\* A failed call extends the streak, and a good one ends it.
LEMMA LoopUseTool ==
  ASSUME LoopInv, NEW again \in BOOLEAN, NEW failed \in BOOLEAN, UseTool(again, failed)
  PROVE  LoopInv'
<1>1. calls \in Seq(BOOLEAN) /\ errors \in Nat /\ calls' = Append(calls, failed)
      /\ errors' = IF failed THEN errors + 1 ELSE 0
  BY DEF UseTool, LoopInv, LoopTypeOK
<1>2. \A k \in DOMAIN calls' : k > Len(calls') - errors' => calls'[k]
  <2> SUFFICES ASSUME NEW k \in DOMAIN calls', k > Len(calls') - errors' PROVE calls'[k]
    OBVIOUS
  <2>1. Len(calls') = Len(calls) + 1 /\ k \in 1 .. Len(calls) + 1 /\ Len(calls) \in Nat
    BY <1>1
  <2>2. CASE failed
    <3>1. CASE k = Len(calls) + 1
      BY <1>1, <2>1, <2>2, <3>1
    <3>2. CASE k # Len(calls) + 1
      <4>1. k \in 1 .. Len(calls) /\ k > Len(calls) - errors
        BY <1>1, <2>1, <2>2, <3>2
      <4>2. calls[k] /\ calls'[k] = calls[k]
        BY <1>1, <4>1 DEF LoopInv, StreakIsReal
      <4> QED BY <4>2
    <3> QED BY <3>1, <3>2
  <2>3. CASE ~failed
    BY <1>1, <2>1, <2>3
  <2> QED BY <2>2, <2>3
<1>3. StreakIsReal'
  BY <1>2 DEF UseTool, LoopInv, StreakIsReal
<1>4. LoopTypeOK'
  <2>1. calls' \in Seq(BOOLEAN)
    BY <1>1
  <2> QED BY SMTT(30), <1>1, <2>1 DEF UseTool, LoopInv, LoopTypeOK
<1>5. Served' /\ BelowCap' /\ turns' <= MaxTurns
  BY DEF UseTool, LoopInv, Served, BelowCap, Links, Charges, Running
<1> QED BY <1>3, <1>4, <1>5 DEF LoopInv

\* A turn that none of the guards stops is followed by another one.
LEMMA LoopTurnEnds ==
  ASSUME LoopInv, TurnEnds
  PROVE  LoopInv'
<1>0. /\ DOMAIN Guards = 1 .. 4 /\ Guards[1] = "repetition" /\ Guards[2] = "error_streak"
      /\ Guards[3] = "spend_cap" /\ Guards[4] = "token_cap"
  BY DEF Guards
<1>1. /\ UNCHANGED <<turns, link, attempt, tokens, cost, same, good, asked, recorded, billed, calls>>
      /\ loop = "tools"
      /\ \/ \E i \in DOMAIN Guards : /\ Trips(Guards[i]) /\ loop' = "end" /\ stop' = Guards[i]
                                     /\ errors' = errors
         \/ /\ \A i \in DOMAIN Guards : ~Trips(Guards[i])
            /\ loop' = "turn" /\ stop' = stop
            /\ errors' = IF good THEN 0 ELSE errors
  BY DEF TurnEnds
<1>2. CASE \E i \in DOMAIN Guards : /\ Trips(Guards[i]) /\ loop' = "end" /\ stop' = Guards[i]
                                    /\ errors' = errors
  <2>1. PICK i \in DOMAIN Guards : /\ Trips(Guards[i]) /\ loop' = "end" /\ stop' = Guards[i]
                                   /\ errors' = errors
    BY <1>2
  <2>2. stop' = "error_streak" => errors >= MaxErrors
    BY <2>1 DEF Trips
  <2>3. stop' \in {"repetition", "error_streak", "spend_cap", "token_cap"}
    BY <1>0, <2>1
  <2> QED BY <1>1, <2>1, <2>2, <2>3
          DEF LoopInv, LoopTypeOK, Served, BelowCap, StreakIsReal, Links, Charges, Running
<1>3. CASE /\ \A i \in DOMAIN Guards : ~Trips(Guards[i])
           /\ loop' = "turn" /\ stop' = stop
           /\ errors' = IF good THEN 0 ELSE errors
  <2>1. ~Trips("spend_cap")
    BY <1>0, <1>3
  <2>2. cost < MaxSpend
    BY SMTT(30), <2>1, AgenticLoopAssumption DEF Trips, LoopInv, LoopTypeOK
  <2>3. stop # "error_streak"
    BY <1>1 DEF LoopInv, StreakIsReal
  <2>4. StreakIsReal'
    <3>1. \A k \in DOMAIN calls' : k > Len(calls') - errors' => k > Len(calls) - errors \/ k > Len(calls)
      BY <1>1, <1>3 DEF LoopInv, LoopTypeOK
    <3> QED BY <3>1, <1>1, <1>3, <2>3 DEF LoopInv, StreakIsReal, LoopTypeOK
  <2>5. LoopTypeOK'
    BY <1>1, <1>3 DEF LoopInv, LoopTypeOK
  <2> QED BY <1>1, <1>3, <2>2, <2>4, <2>5
          DEF LoopInv, Served, BelowCap, Links, Charges, Running
<1> QED BY <1>1, <1>2, <1>3

\* The other steps of the loop change neither cost nor results.
LEMMA LoopRest ==
  ASSUME LoopInv,
         \/ Start \/ NextTurn \/ CallFails \/ Fallback \/ RateLimited
         \/ AuditFails \/ RecordSpend \/ UNCHANGED loopVars
  PROVE  LoopInv'
<1>1. /\ UNCHANGED <<cost, billed, calls, errors, stop, tokens, same, asked>>
      /\ turns' \in Nat /\ link' \in Nat /\ attempt' \in Nat /\ recorded' \in Nat
      /\ good' \in BOOLEAN
      /\ loop' \in {"turn", "call", "end", "done", "thrown", "limited", loop}
      /\ turns' <= MaxTurns
      /\ Served'
      /\ loop' \in Running => loop \in Running
      /\ loop \in {"end", "done", "thrown"} => loop' \in {"end", "done", "thrown"}
  <2>a. Links \subseteq Nat /\ MaxTurns \in Nat
    BY AgenticLoopAssumption DEF Links
  <2>b. /\ turns \in Nat /\ link \in Nat /\ attempt \in Nat /\ recorded \in Nat /\ cost \in Nat
        /\ good \in BOOLEAN /\ turns <= MaxTurns /\ Served
        /\ loop \in {"start", "turn", "call", "tools", "end", "done", "thrown", "limited"}
    BY DEF LoopInv, LoopTypeOK
  <2> USE <2>a, <2>b DEF Served, Running
  <2>1. CASE Start
    <3>1. link' \in Links \/ (loop' = "thrown" /\ link' = link)
      BY <2>1 DEF Start, NextLink
    <3> QED BY <2>1, <3>1 DEF Start
  <2>2. CASE NextTurn
    <3>1. /\ UNCHANGED <<cost, billed, calls, errors, stop, tokens, same, asked, link, recorded>>
          /\ loop = "turn" /\ attempt' = 1 /\ good' = FALSE
          /\ \/ turns < MaxTurns /\ loop' = "call" /\ turns' = turns + 1
             \/ loop' = "end" /\ turns' = turns
      BY <2>2 DEF NextTurn
    <3>2. turns' \in Nat /\ turns' <= MaxTurns
      BY <3>1
    <3> QED BY <3>1, <3>2
  <2>3. CASE CallFails
    BY <2>3 DEF CallFails
  <2>4. CASE Fallback
    <3>1. link' \in Links \/ (loop' = "thrown" /\ link' = link)
      BY <2>4 DEF Fallback, NextLink
    <3>2. /\ UNCHANGED <<cost, billed, calls, errors, stop, tokens, same, asked, turns, good, recorded>>
          /\ loop = "call" /\ loop' \in {"call", "thrown"} /\ attempt' \in Nat
      BY <2>4 DEF Fallback
    <3> QED BY <3>1, <3>2
  <2>5. CASE RateLimited
    BY <2>5 DEF RateLimited
  <2>6. CASE AuditFails
    BY <2>6 DEF AuditFails
  <2>7. CASE RecordSpend
    BY <2>7 DEF RecordSpend
  <2>8. CASE UNCHANGED loopVars
    BY <2>8 DEF loopVars
  <2> QED BY <2>1, <2>2, <2>3, <2>4, <2>5, <2>6, <2>7, <2>8
<1>2. LoopTypeOK'
  BY <1>1 DEF LoopInv, LoopTypeOK
<1>3. BelowCap' /\ StreakIsReal'
  BY <1>1 DEF LoopInv, BelowCap, StreakIsReal, Charges, Links
<1> QED BY <1>1, <1>2, <1>3 DEF LoopInv

\* A run costs what its models charged, each at its own rate; it exceeds its
\* cap by less than some turn, makes no more turns than it may, and stops with
\* an error streak only after so many calls that failed in a row
\* (runAgenticLoop, costOf, overSpendCap).
THEOREM SpendStaysCapped == LoopSpec => []SpendIsCapped
<1>1. LoopInv /\ [LoopStep]_loopVars => LoopInv'
  <2> SUFFICES ASSUME LoopInv, [LoopStep]_loopVars PROVE LoopInv'
    OBVIOUS
  <2>1. ASSUME NEW u \in Usage, NEW n \in 0 .. MaxTools, NEW ends \in BOOLEAN,
               Respond(u, n, ends)
        PROVE  LoopInv'
    BY <2>1, LoopRespond
  <2>2. ASSUME NEW again \in BOOLEAN, NEW failed \in BOOLEAN, UseTool(again, failed)
        PROVE  LoopInv'
    BY <2>2, LoopUseTool
  <2>3. CASE TurnEnds
    BY <2>3, LoopTurnEnds
  <2> QED BY <2>1, <2>2, <2>3, LoopRest DEF LoopStep
<1>2. LoopInv => SpendIsCapped
  <2> SUFFICES ASSUME LoopInv PROVE SpendIsCapped
    OBVIOUS
  <2>1. ASSUME stop = "error_streak", NEW k \in DOMAIN calls, k > Len(calls) - MaxErrors
        PROVE  calls[k]
    <3>0. calls \in Seq(BOOLEAN) /\ errors \in Nat /\ MaxErrors \in Nat
      BY AgenticLoopAssumption DEF LoopInv, LoopTypeOK
    <3>1. errors >= MaxErrors /\ Len(calls) \in Nat /\ k \in 1 .. Len(calls)
      BY <2>1, <3>0 DEF LoopInv, StreakIsReal
    <3> QED BY <2>1, <3>0, <3>1 DEF LoopInv, StreakIsReal
  <2> QED BY <2>1 DEF LoopInv, BelowCap, SpendIsCapped
<1> QED BY <1>1, <1>2, LoopInitially, PTL DEF LoopSpec

-----------------------------------------------------------------------------
(* The queue and its pauses *)

ActRow == [step : Steps, day : Nat]
SlotStates == {"idle", "check", "skipping", "gate", "run"}
BudgetSteps == {"marker?", "pause", "write"}

LEMMA PauseConstants ==
  /\ Budget \in Nat /\ Budget > 0 /\ RunCap \in Nat /\ RunCap > 0
  /\ TurnCost \in Nat /\ TurnCost > 0 /\ MostOfARun \in Nat /\ TalkCost \in Nat
  /\ Monitor \notin Slot /\ IsFiniteSet(Slot) /\ Slot \subseteq Party /\ Monitor \in Party
  /\ IsFiniteSet(Talk)
<1>1. {Budget, RunCap, TurnCost, TalkCost} \subseteq Nat \ {0}
  BY QueuePauseAssumption
<1>2. /\ Budget \in Nat /\ Budget > 0 /\ RunCap \in Nat /\ RunCap > 0
      /\ TurnCost \in Nat /\ TurnCost > 0 /\ TalkCost \in Nat
  BY <1>1
<1> QED BY <1>2, QueuePauseAssumption DEF Party, MostOfARun

\* Where a party stands after a step of a pause or a resume.
LEMMA GotoFrame ==
  ASSUME PauseTypeOK, NEW p \in Party, NEW st \in Steps, Goto(p, st)
  PROVE  /\ act' \in [Party -> ActRow]
         /\ act'[p].step = st /\ (st # "none" => act'[p].day = act[p].day)
         /\ st = "none" => act'[p] = NoAct
         /\ \A q \in Party : q # p => act'[q] = act[q]
<1> DEFINE new == IF st = "none" THEN NoAct ELSE [act[p] EXCEPT !.step = st]
<1>1. act \in [Party -> ActRow] /\ act[p] \in ActRow
  BY DEF PauseTypeOK, ActRow
<1>2. act' = [act EXCEPT ![p] = new]
  BY DEF Goto
<1>3. new \in ActRow /\ new.step = st /\ (st # "none" => new.day = act[p].day)
      /\ (st = "none" => new = NoAct)
  BY <1>1 DEF ActRow, NoAct, Steps
<1> HIDE DEF new
<1> QED BY <1>1, <1>2, <1>3

\* Where a slot stands when its pause is over.
LEMMA AfterActFrame ==
  ASSUME PauseTypeOK, NEW p \in Party, NEW threw \in BOOLEAN, AfterAct(p, threw)
  PROVE  /\ slot' \in [Slot -> SlotStates]
         /\ \A s \in Slot : \/ slot'[s] = slot[s] /\ (s = p => slot[s] # "skipping")
                            \/ s = p /\ slot[s] = "skipping" /\ slot'[s] \in {"gate", "idle"}
BY DEF AfterAct, PauseTypeOK, SlotStates

\* The counters of the bounds.
LEMMA ErrFrame ==
  ASSUME PauseTypeOK, Err \/ NoErr
  PROVE  errs' \in Nat /\ errs' >= errs
BY DEF PauseTypeOK, Err, NoErr

\* The operator, the clock and the slots keep the types.
LEMMA PauseTypeSlots ==
  ASSUME PauseTypeOK,
         SetOverride \/ NextDay \/ \E s \in Slot : SlotStep(s)
  PROVE  PauseTypeOK'
<1>0. errs' \in Nat
  BY ErrFrame DEF SetOverride, NextDay, SlotStep, Take, PreRun, Gate, Turn, Finish, Throw
<1> USE PauseConstants, <1>0
    DEF PauseTypeOK, account, work, talks, flags
<1>1. CASE SetOverride
  BY <1>1 DEF SetOverride
<1>2. CASE NextDay
  <2>1. day' = day + 1 /\ spent' = 0 /\ override' = FALSE /\ waived' = FALSE
        /\ UNCHANGED <<work, talks, flags, timer, strays, act, up, stops, crossing>>
    BY <1>2 DEF NextDay
  <2>2. day' \in Nat /\ spent' \in Nat
    BY <2>1
  <2> QED BY <2>1, <2>2
<1>3. ASSUME NEW s \in Slot, Take(s) PROVE PauseTypeOK'
  BY <1>3 DEF Take
<1>4. ASSUME NEW s \in Slot, PreRun(s) PROVE PauseTypeOK'
  BY <1>4 DEF PreRun, Steps
<1>5. ASSUME NEW s \in Slot, Gate(s) PROVE PauseTypeOK'
  BY <1>5 DEF Gate
<1>6. ASSUME NEW s \in Slot, Turn(s) PROVE PauseTypeOK'
  BY <1>6 DEF Turn
<1>7. ASSUME NEW s \in Slot, Finish(s) PROVE PauseTypeOK'
  BY <1>7 DEF Finish
<1>8. ASSUME NEW s \in Slot, NEW limited \in BOOLEAN, Throw(s, limited) PROVE PauseTypeOK'
  <2>1. bill' = [bill EXCEPT ![s] = 0] /\ slot' = [slot EXCEPT ![s] = "idle"]
        /\ UNCHANGED <<account, runs, talks, flags, strays, up, stops, crossing>>
        /\ timer' \in {timer, FALSE}
        /\ act' \in {act, [act EXCEPT ![s] = [step |-> "limit", day |-> day]]}
    BY <1>8 DEF Throw
  <2>2. bill' \in [Slot -> Nat] /\ slot' \in [Slot -> SlotStates]
    BY <2>1 DEF SlotStates
  <2>3. act' \in [Party -> ActRow]
    BY <2>1 DEF ActRow, Steps
  <2>4. {day, spent, runs, errs, stops, strays, marker}' \subseteq Nat
    BY <2>1
  <2>5. {override, waived, paused, timer, up, crossing}' \subseteq BOOLEAN
    BY <2>1
  <2>6. UNCHANGED <<talk, tab>>
    BY <2>1 DEF talks
  <2> QED BY <2>2, <2>3, <2>4, <2>5, <2>6 DEF SlotStates, ActRow
<1> QED BY <1>1, <1>2, <1>3, <1>4, <1>5, <1>6, <1>7, <1>8 DEF SlotStep

\* The steps of pauses and resumes keep the types.
LEMMA PauseTypeSteps ==
  ASSUME PauseTypeOK,
         MonitorStep \/ Timers \/ Stop \/ Restart \/ \E s \in Slot : PauseStep(s)
  PROVE  PauseTypeOK'
<1>0. errs' \in Nat
  BY ErrFrame DEF MonitorStep, Timers, Stop, Restart, PauseStep, Tick, BudgetResumes, ClearMarker,
                  TimerEnds, ReadMarker, BudgetPauses, WriteMarker, LimitPauses, StartTimer
<1>a. \A p \in Party : \A st \in Steps : Goto(p, st) => act' \in [Party -> ActRow]
  BY GotoFrame
<1>b. \A p \in Party : \A threw \in BOOLEAN : AfterAct(p, threw) => slot' \in [Slot -> SlotStates]
  BY AfterActFrame
<1> USE PauseConstants, <1>0, <1>a, <1>b
    DEF PauseTypeOK, account, work, talks, flags, Steps, ActRow, SlotStates
<1>1. ASSUME NEW p \in Party, ReadMarker(p) PROVE PauseTypeOK'
  BY ZenonT(30), <1>1 DEF ReadMarker
<1>2. ASSUME NEW p \in Party, BudgetPauses(p) PROVE PauseTypeOK'
  BY ZenonT(30), <1>2 DEF BudgetPauses, Crosses
<1>3. ASSUME NEW p \in Party, WriteMarker(p) PROVE PauseTypeOK'
  BY ZenonT(30), <1>3 DEF WriteMarker
<1>4. ASSUME NEW s \in Slot, LimitPauses(s) PROVE PauseTypeOK'
  BY ZenonT(30), <1>4 DEF LimitPauses
<1>5. ASSUME NEW s \in Slot, StartTimer(s) PROVE PauseTypeOK'
  <2>1. UNCHANGED <<account, work, talks, flags, up, stops, crossing>> /\ Goto(s, "none")
        /\ (strays' = strays \/ strays' = strays + 1) /\ timer' \in {timer, TRUE}
    BY <1>5 DEF StartTimer
  <2>2. strays' \in Nat
    BY <2>1
  <2> QED BY <2>1, <2>2
<1>6. CASE Tick
  BY <1>6 DEF Tick
<1>7. CASE BudgetResumes
  BY ZenonT(30), <1>7 DEF BudgetResumes, Crosses
<1>8. CASE ClearMarker
  BY <1>8 DEF ClearMarker
<1>9. ASSUME NEW tracked \in BOOLEAN, TimerEnds(tracked) PROVE PauseTypeOK'
  <2>1. UNCHANGED <<account, work, talks, marker, act, up, stops, crossing>> /\ timer' = FALSE
        /\ paused' \in {paused, FALSE}
        /\ \/ strays' = strays \/ strays' = strays - 1 + 1
           \/ strays > 0 /\ strays' = strays - 1 + 0
    BY <1>9 DEF TimerEnds
  <2>2. strays' \in Nat
    BY <2>1
  <2> QED BY <2>1, <2>2
<1>10. CASE Stop
  <2>1. UNCHANGED <<account, runs, flags, crossing>> /\ up' = FALSE /\ timer' = FALSE
        /\ strays' = 0 /\ stops' = stops + 1
        /\ slot' = [s \in Slot |-> "idle"] /\ bill' = [s \in Slot |-> 0]
        /\ talk' = [u \in Talk |-> "idle"] /\ tab' = [u \in Talk |-> 0]
        /\ act' = [p \in Party |-> NoAct]
    BY <1>10 DEF Stop
  <2>2. stops' \in Nat /\ NoAct \in ActRow
    BY <2>1 DEF NoAct
  <2>3. /\ slot' \in [Slot -> SlotStates] /\ bill' \in [Slot -> Nat] /\ act' \in [Party -> ActRow]
        /\ talk' \in [Talk -> {"idle", "look", "gate", "run"}] /\ tab' \in [Talk -> Nat]
    BY <2>1, <2>2
  <2>4. {day', spent', runs', errs', stops', strays', marker'} \subseteq Nat
    BY <2>1, <2>2
  <2>5. {override', waived', paused', timer', up', crossing'} \subseteq BOOLEAN
    BY <2>1
  <2> QED BY <2>3, <2>4, <2>5
<1>11. CASE Restart
  BY <1>11 DEF Restart, Reconciled
<1> QED BY <1>1, <1>2, <1>3, <1>4, <1>5, <1>6, <1>7, <1>8, <1>9, <1>10, <1>11
        DEF MonitorStep, Timers, PauseStep

\* Conversations and sub-agents keep the types.
LEMMA PauseTypeTalks ==
  ASSUME PauseTypeOK, NEW u \in Talk, TalkStep(u)
  PROVE  PauseTypeOK'
<1>0. errs' \in Nat
  BY ErrFrame DEF TalkStep, Hear, Look, TalkGate, TalkTurn, TalkEnds
<1> USE PauseConstants, <1>0 DEF PauseTypeOK, account, work, flags
<1>1. CASE Hear(u)
  BY <1>1 DEF Hear
<1>2. CASE Look(u)
  BY <1>2 DEF Look
<1>3. CASE TalkGate(u)
  BY <1>3 DEF TalkGate
<1>4. CASE TalkTurn(u)
  BY <1>4 DEF TalkTurn
<1>5. CASE TalkEnds(u)
  BY <1>5 DEF TalkEnds
<1> QED BY <1>1, <1>2, <1>3, <1>4, <1>5 DEF TalkStep

\* The pauses are well typed in every reachable state.
THEOREM PauseTypes == PauseSpec => []PauseTypeOK
<1>1. PauseInit => PauseTypeOK
  <2> SUFFICES ASSUME PauseInit PROVE PauseTypeOK
    OBVIOUS
  <2>1. NoAct \in [step : Steps, day : Nat]
    BY DEF NoAct, Steps
  <2>2. {day, spent, runs, errs, stops, strays, marker} \subseteq Nat
    BY DEF PauseInit
  <2>3. {override, waived, paused, timer, up, crossing} \subseteq BOOLEAN
    BY DEF PauseInit
  <2> QED BY <2>1, <2>2, <2>3 DEF PauseInit, PauseTypeOK
<1>2. PauseTypeOK /\ [PauseNext]_pauseVars => PauseTypeOK'
  <2> SUFFICES ASSUME PauseTypeOK, [PauseNext]_pauseVars PROVE PauseTypeOK'
    OBVIOUS
  <2>1. CASE UNCHANGED pauseVars
    BY <2>1 DEF pauseVars, account, work, talks, flags, PauseTypeOK
  <2> QED BY <2>1, PauseTypeSlots, PauseTypeTalks, PauseTypeSteps DEF PauseNext
<1> QED BY <1>1, <1>2, PTL DEF PauseSpec

-----------------------------------------------------------------------------
(* The overshoot of the budget *)

AtWork == {s \in Slot : slot[s] = "run"}
Talking == {u \in Talk : talk[u] = "run"}

\* What the runs and conversations under way may still add is part of the
\* account of the day.
RunsAreCovered ==
  ~waived => spent + Cardinality(AtWork) * MostOfARun + Cardinality(Talking) * TalkCost
               < Budget + Cardinality(Slot) * MostOfARun + Cardinality(Talk) * TalkCost

BillsAreBounded ==
  /\ \A s \in Slot : bill[s] <= MostOfARun /\ (slot[s] # "run" => bill[s] = 0)
  /\ \A u \in Talk : tab[u] <= TalkCost /\ (talk[u] # "run" => tab[u] = 0)

OverInv == BillsAreBounded /\ (override => waived) /\ RunsAreCovered

LEMMA TimesMono ==
  ASSUME NEW m \in Nat, NEW n \in Nat, NEW k \in Nat, m <= n
  PROVE  m * k <= n * k
<1>1. PICK d \in Nat : n = m + d
  BY n - m \in Nat
<1>2. (m + d) * k = m * k + d * k /\ d * k \in Nat /\ m * k \in Nat
  OBVIOUS
<1> QED BY <1>1, <1>2

LEMMA TimesNext ==
  ASSUME NEW n \in Nat, NEW k \in Nat
  PROVE  (n + 1) * k = n * k + k /\ n * k \in Nat
OBVIOUS

\* What a subset of callers costs, and what it costs when one of them has ended.
LEMMA SomeCostLess ==
  ASSUME NEW all, IsFiniteSet(all), NEW some \in SUBSET all, NEW k \in Nat
  PROVE  /\ Cardinality(some) * k \in Nat /\ Cardinality(all) * k \in Nat
         /\ Cardinality(some) * k <= Cardinality(all) * k
<1>1. /\ Cardinality(some) \in Nat /\ Cardinality(all) \in Nat
      /\ Cardinality(some) <= Cardinality(all)
  BY FS_Subset, FS_CardinalityType
<1> QED BY <1>1, TimesMono, TimesNext

LEMMA OneCostsLess ==
  ASSUME NEW some, IsFiniteSet(some), NEW c \in some, NEW k \in Nat
  PROVE  /\ Cardinality(some) * k = Cardinality(some \ {c}) * k + k
         /\ Cardinality(some \ {c}) * k \in Nat
<1> DEFINE n == Cardinality(some \ {c})
<1>1. n \in Nat /\ Cardinality(some) = n + 1
  <2>1. IsFiniteSet(some \ {c}) /\ Cardinality(some \ {c}) = Cardinality(some) - 1
    BY FS_RemoveElement
  <2>2. Cardinality(some) \in Nat /\ n \in Nat
    BY <2>1, FS_CardinalityType
  <2> QED BY <2>1, <2>2
<1> HIDE DEF n
<1>2. (n + 1) * k = n * k + k /\ n * k \in Nat
  BY <1>1, TimesNext
<1> QED BY <1>1, <1>2 DEF n

\* The four sums of the account are numbers, and what is under way is less than
\* what may be.
LEMMA UnderWay ==
  /\ Cardinality(AtWork) * MostOfARun \in Nat /\ Cardinality(Slot) * MostOfARun \in Nat
  /\ Cardinality(Talking) * TalkCost \in Nat /\ Cardinality(Talk) * TalkCost \in Nat
  /\ Cardinality(AtWork) * MostOfARun <= Cardinality(Slot) * MostOfARun
  /\ Cardinality(Talking) * TalkCost <= Cardinality(Talk) * TalkCost
<1>1. AtWork \in SUBSET Slot /\ Talking \in SUBSET Talk
  BY DEF AtWork, Talking
<1>2. /\ Cardinality(AtWork) * MostOfARun \in Nat /\ Cardinality(Slot) * MostOfARun \in Nat
      /\ Cardinality(AtWork) * MostOfARun <= Cardinality(Slot) * MostOfARun
  BY <1>1, SomeCostLess, PauseConstants
<1>3. /\ Cardinality(Talking) * TalkCost \in Nat /\ Cardinality(Talk) * TalkCost \in Nat
      /\ Cardinality(Talking) * TalkCost <= Cardinality(Talk) * TalkCost
  BY <1>1, SomeCostLess, PauseConstants
<1> QED BY <1>2, <1>3

\* While the budget is not used up, whatever is under way is covered.
Within == spent \in Nat /\ (~waived => spent < Budget)

LEMMA WithinBudget == Within => RunsAreCovered
BY UnderWay, PauseConstants DEF RunsAreCovered, Within

\* Steps that touch neither spend nor runs.
LEMMA OverFrame ==
  ASSUME OverInv, UNCHANGED <<spent, override, waived, bill, tab>>,
         \A s \in Slot : slot'[s] = "run" <=> slot[s] = "run",
         \A u \in Talk : talk'[u] = "run" <=> talk[u] = "run"
  PROVE  OverInv'
<1>1. AtWork' = AtWork /\ Talking' = Talking
  BY DEF AtWork, Talking
<1> QED BY <1>1 DEF OverInv, BillsAreBounded, RunsAreCovered

\* A day without an override begins with nothing spent.
LEMMA OverDay ==
  ASSUME PauseTypeOK, PauseTypeOK', OverInv, SetOverride \/ NextDay
  PROVE  OverInv'
<1>1. CASE SetOverride
  BY <1>1 DEF SetOverride, OverInv, BillsAreBounded, RunsAreCovered, talks
<1>2. CASE NextDay
  <2>1. /\ UNCHANGED <<slot, bill, talk, tab>>
        /\ spent' = 0 /\ override' = FALSE /\ waived' = FALSE
    BY <1>2 DEF NextDay, work, talks
  <2>2. Within'
    BY <2>1, PauseConstants DEF Within
  <2>3. RunsAreCovered'
    BY <2>2, WithinBudget, PTL
  <2> QED BY <2>1, <2>3 DEF OverInv, BillsAreBounded
<1> QED BY <1>1, <1>2

\* A run, or a conversation, begins while the budget is not used up.
LEMMA OverGate ==
  ASSUME PauseTypeOK, PauseTypeOK', OverInv,
         \/ \E s \in Slot : Gate(s)
         \/ \E u \in Talk : TalkGate(u)
  PROVE  OverInv'
<1>1. /\ UNCHANGED <<spent, override, waived, bill, tab>>
      /\ \A s \in Slot : bill[s] # 0 => slot'[s] = slot[s]
      /\ \A u \in Talk : tab[u] # 0 => talk'[u] = talk[u]
  <2>1. ASSUME NEW s \in Slot, Gate(s)
        PROVE  /\ UNCHANGED <<spent, override, waived, bill, tab, talk>> /\ slot[s] = "gate"
               /\ \A r \in Slot : r # s => slot'[r] = slot[r]
    BY <2>1 DEF Gate, account, talks, PauseTypeOK
  <2>2. ASSUME NEW u \in Talk, TalkGate(u)
        PROVE  /\ UNCHANGED <<spent, override, waived, bill, tab, slot>> /\ talk[u] = "gate"
               /\ \A v \in Talk : v # u => talk'[v] = talk[v]
    BY <2>2 DEF TalkGate, account, work, PauseTypeOK
  <2> QED BY <2>1, <2>2 DEF OverInv, BillsAreBounded
<1>2. BillsAreBounded'
  BY <1>1 DEF OverInv, BillsAreBounded
<1>3. CASE GateOpen
  <2>1. Within'
    BY <1>1, <1>3, PauseConstants DEF GateOpen, Exceeded, OverInv, PauseTypeOK, Within
  <2>2. RunsAreCovered'
    BY <2>1, WithinBudget, PTL
  <2> QED BY <1>1, <1>2, <2>2 DEF OverInv
<1>4. CASE ~GateOpen
  <2>1. ASSUME NEW s \in Slot, Gate(s) PROVE OverInv'
    <3>1. slot' = [slot EXCEPT ![s] = "idle"] /\ slot[s] = "gate" /\ talk' = talk
      BY <1>4, <2>1 DEF Gate, talks
    <3> QED BY <1>1, <3>1, OverFrame DEF PauseTypeOK
  <2>2. ASSUME NEW u \in Talk, TalkGate(u) PROVE OverInv'
    <3>1. talk' = [talk EXCEPT ![u] = "idle"] /\ talk[u] = "gate" /\ slot' = slot
      BY <1>4, <2>2 DEF TalkGate, work
    <3> QED BY <1>1, <3>1, OverFrame DEF PauseTypeOK
  <2> QED BY <2>1, <2>2
<1> QED BY <1>3, <1>4

\* A run has no turn at its cap, and ends with at most what was set aside.
LEMMA OverRun ==
  ASSUME PauseTypeOK, OverInv, NEW s \in Slot,
         Turn(s) \/ Finish(s) \/ \E limited \in BOOLEAN : Throw(s, limited)
  PROVE  OverInv'
<1>0. UNCHANGED <<override, waived, talk, tab>> /\ Talking' = Talking
  BY DEF Turn, Finish, Throw, account, talks, Talking
<1>1. CASE Turn(s)
  <2>1. /\ UNCHANGED <<spent, slot>> /\ slot[s] = "run"
        /\ bill[s] \in Nat /\ bill[s] < RunCap /\ bill' = [bill EXCEPT ![s] = bill[s] + TurnCost]
    BY <1>1 DEF Turn, account, PauseTypeOK
  <2>2. bill[s] + TurnCost <= MostOfARun
    BY <2>1, PauseConstants DEF MostOfARun
  <2>3. BillsAreBounded'
    BY <1>0, <2>1, <2>2 DEF OverInv, BillsAreBounded, PauseTypeOK
  <2>4. AtWork' = AtWork
    BY <2>1 DEF AtWork
  <2> QED BY <1>0, <2>1, <2>3, <2>4 DEF OverInv, RunsAreCovered
<1>2. CASE Finish(s) \/ \E limited \in BOOLEAN : Throw(s, limited)
  <2>1. /\ slot[s] = "run" /\ bill' = [bill EXCEPT ![s] = 0] /\ slot' = [slot EXCEPT ![s] = "idle"]
        /\ (spent' = spent + bill[s] \/ spent' = spent)
    BY <1>2 DEF Finish, Throw, account
  <2>2. AtWork' = AtWork \ {s} /\ s \in AtWork /\ IsFiniteSet(AtWork)
    BY <2>1, PauseConstants, FS_Subset DEF AtWork, PauseTypeOK
  <2>3. /\ Cardinality(AtWork) * MostOfARun = Cardinality(AtWork') * MostOfARun + MostOfARun
        /\ Cardinality(AtWork') * MostOfARun \in Nat
    BY <2>2, OneCostsLess, PauseConstants
  <2>4. bill[s] \in Nat /\ bill[s] <= MostOfARun /\ spent \in Nat /\ 0 <= MostOfARun
    BY PauseConstants DEF OverInv, BillsAreBounded, PauseTypeOK
  <2>5. RunsAreCovered'
    BY <1>0, <2>1, <2>3, <2>4, UnderWay, PauseConstants DEF OverInv, RunsAreCovered
  <2>6. BillsAreBounded'
    BY <1>0, <2>1, <2>4 DEF OverInv, BillsAreBounded, PauseTypeOK
  <2> QED BY <1>0, <2>5, <2>6 DEF OverInv
<1> QED BY <1>1, <1>2

\* A conversation has no more turns than it may, and ends with at most their cost.
LEMMA OverTalk ==
  ASSUME PauseTypeOK, OverInv, NEW u \in Talk, TalkTurn(u) \/ TalkEnds(u)
  PROVE  OverInv'
<1>0. UNCHANGED <<override, waived, slot, bill>> /\ AtWork' = AtWork
  BY DEF TalkTurn, TalkEnds, account, work, AtWork
<1>1. CASE TalkTurn(u)
  <2>1. /\ UNCHANGED <<spent, talk>> /\ talk[u] = "run"
        /\ tab[u] + TurnCost <= TalkCost /\ tab' = [tab EXCEPT ![u] = tab[u] + TurnCost]
    BY <1>1 DEF TalkTurn, account
  <2>2. BillsAreBounded'
    BY <1>0, <2>1 DEF OverInv, BillsAreBounded, PauseTypeOK
  <2>3. Talking' = Talking
    BY <2>1 DEF Talking
  <2> QED BY <1>0, <2>1, <2>2, <2>3 DEF OverInv, RunsAreCovered
<1>2. CASE TalkEnds(u)
  <2>1. /\ talk[u] = "run" /\ tab' = [tab EXCEPT ![u] = 0] /\ talk' = [talk EXCEPT ![u] = "idle"]
        /\ (spent' = spent + tab[u] \/ spent' = spent)
    BY <1>2 DEF TalkEnds
  <2>2. Talking' = Talking \ {u} /\ u \in Talking /\ IsFiniteSet(Talking)
    BY <2>1, PauseConstants, FS_Subset DEF Talking, PauseTypeOK
  <2>3. /\ Cardinality(Talking) * TalkCost = Cardinality(Talking') * TalkCost + TalkCost
        /\ Cardinality(Talking') * TalkCost \in Nat
    BY <2>2, OneCostsLess, PauseConstants
  <2>4. tab[u] \in Nat /\ tab[u] <= TalkCost /\ spent \in Nat /\ 0 <= TalkCost
    BY PauseConstants DEF OverInv, BillsAreBounded, PauseTypeOK
  <2>5. RunsAreCovered'
    BY <1>0, <2>1, <2>3, <2>4, UnderWay, PauseConstants DEF OverInv, RunsAreCovered
  <2>6. BillsAreBounded'
    BY <1>0, <2>1, <2>4 DEF OverInv, BillsAreBounded, PauseTypeOK
  <2> QED BY <1>0, <2>5, <2>6 DEF OverInv
<1> QED BY <1>1, <1>2

\* A worker that dies takes its runs and conversations with it.
LEMMA OverStop ==
  ASSUME PauseTypeOK, OverInv, Stop
  PROVE  OverInv'
<1>1. /\ UNCHANGED <<spent, override, waived>>
      /\ slot' = [s \in Slot |-> "idle"] /\ bill' = [s \in Slot |-> 0]
      /\ talk' = [u \in Talk |-> "idle"] /\ tab' = [u \in Talk |-> 0]
  BY DEF Stop, account
<1>2. AtWork' = {} /\ Talking' = {}
  BY <1>1 DEF AtWork, Talking
<1>3. Cardinality(AtWork') * MostOfARun = 0 /\ Cardinality(Talking') * TalkCost = 0
  BY <1>2, FS_EmptySet, PauseConstants
<1>4. RunsAreCovered'
  BY <1>1, <1>3, UnderWay, PauseConstants DEF OverInv, RunsAreCovered, PauseTypeOK
<1>5. BillsAreBounded'
  BY <1>1, PauseConstants DEF BillsAreBounded
<1> QED BY <1>1, <1>4, <1>5 DEF OverInv

\* Everything else leaves spend and runs alone.
LEMMA OverRest ==
  ASSUME PauseTypeOK, OverInv,
         \/ \E s \in Slot : Take(s) \/ PreRun(s) \/ PauseStep(s)
         \/ \E u \in Talk : Hear(u) \/ Look(u)
         \/ MonitorStep \/ Timers \/ Restart \/ UNCHANGED pauseVars
  PROVE  OverInv'
<1>1. \A p \in Party : \A threw \in BOOLEAN : AfterAct(p, threw) =>
        \A s \in Slot : slot'[s] = "run" <=> slot[s] = "run"
  BY AfterActFrame
<1>2. ASSUME NEW p \in Party, PauseStep(p) PROVE OverInv'
  <2>1. UNCHANGED <<spent, override, waived, bill, talk, tab>>
    BY <1>2 DEF PauseStep, ReadMarker, BudgetPauses, WriteMarker, LimitPauses, StartTimer, account, work, talks
  <2>2. \/ slot' = slot
        \/ \E threw \in BOOLEAN : AfterAct(p, threw)
    BY <1>2 DEF PauseStep, ReadMarker, BudgetPauses, WriteMarker, LimitPauses, StartTimer, work
  <2> QED BY <2>1, <2>2, <1>1, OverFrame
<1>3. ASSUME NEW s \in Slot, Take(s) \/ PreRun(s) PROVE OverInv'
  <2>1. UNCHANGED <<spent, override, waived, bill, talk, tab>>
    BY <1>3 DEF Take, PreRun, account, talks
  <2>2. \A r \in Slot : slot'[r] = "run" <=> slot[r] = "run"
    BY <1>3 DEF Take, PreRun, PauseTypeOK
  <2> QED BY <2>1, <2>2, OverFrame
<1>4. ASSUME NEW u \in Talk, Hear(u) \/ Look(u) PROVE OverInv'
  <2>1. UNCHANGED <<spent, override, waived, bill, tab, slot>>
    BY <1>4 DEF Hear, Look, account, work
  <2>2. \A v \in Talk : talk'[v] = "run" <=> talk[v] = "run"
    BY <1>4 DEF Hear, Look, PauseTypeOK
  <2> QED BY <2>1, <2>2, OverFrame
<1>5. ASSUME Tick \/ BudgetResumes \/ ClearMarker \/ Timers \/ Restart \/ UNCHANGED pauseVars
      PROVE  OverInv'
  <2>1. UNCHANGED <<spent, override, waived, bill, slot, talk, tab>>
    BY <1>5 DEF Tick, BudgetResumes, ClearMarker, Timers, TimerEnds, Restart, pauseVars, account, work, talks
  <2> QED BY <2>1, OverFrame
<1> QED BY <1>2, <1>3, <1>4, <1>5, PauseConstants DEF MonitorStep

\* On a day without an override, the budget is exceeded by less than what can be
\* under way: a run in every slot of the worker, at its cap and a turn over, and
\* conversations and sub-agents that make all their turns; for any number of
\* them, although nobody looks at the budget between two turns
\* (assertWithinBudget, recordSpend, handlePaMessage, subagent).
THEOREM OvershootStaysBounded == PauseSpec => []OvershootIsBounded
<1>1. PauseInit => OverInv
  <2> SUFFICES ASSUME PauseInit PROVE OverInv
    OBVIOUS
  <2>1. RunsAreCovered
    BY WithinBudget, PauseConstants DEF PauseInit, Within
  <2> QED BY <2>1, PauseConstants DEF PauseInit, OverInv, BillsAreBounded
<1>2. PauseTypeOK /\ PauseTypeOK' /\ OverInv /\ [PauseNext]_pauseVars => OverInv'
  <2> SUFFICES ASSUME PauseTypeOK, PauseTypeOK', OverInv, [PauseNext]_pauseVars PROVE OverInv'
    OBVIOUS
  <2> QED BY OverDay, OverGate, OverRun, OverTalk, OverStop, OverRest DEF PauseNext, SlotStep, TalkStep
<1>3. PauseTypeOK /\ OverInv => OvershootIsBounded
  <2> SUFFICES ASSUME PauseTypeOK, OverInv PROVE OvershootIsBounded
    OBVIOUS
  <2>1. ~waived => spent < Budget + Cardinality(Slot) * MostOfARun + Cardinality(Talk) * TalkCost
    BY UnderWay, PauseConstants DEF OverInv, RunsAreCovered, PauseTypeOK
  <2> QED BY <2>1 DEF OverInv, BillsAreBounded, OvershootIsBounded
<1> QED BY <1>1, <1>2, <1>3, PauseTypes, PTL DEF PauseSpec

-----------------------------------------------------------------------------
(* The owners of a pause *)

\* A dead worker has nothing in its memory.
DeadIsIdle ==
  ~up => /\ \A p \in Party : act[p] = NoAct
         /\ \A s \in Slot : slot[s] = "idle"

\* Every marker that is written names a day.
DaysAreReal ==
  day > 0 /\ \A p \in Party : act[p].step \in BudgetSteps => act[p].day > 0

\* A slot is skipping its run while it carries out a pause for the budget, and
\* idle while it backs off; the monitor alone resumes, and never backs off.
PartsAreFixed ==
  /\ \A s \in Slot : /\ act[s].step \notin {"resume", "clear"}
                     /\ slot[s] = "skipping" <=> act[s].step \in BudgetSteps
                     /\ act[s].step \in {"limit", "time"} => slot[s] = "idle"
  /\ act[Monitor].step \notin {"limit", "time"}

\* Unless they crossed, nobody is about to write a marker that the monitor is
\* about to clear.
NoCrossing ==
  errs = 0 /\ ~crossing /\ act[Monitor].step = "clear" =>
    \A p \in Party : act[p].step # "write"

\* The marker that the monitor is about to clear owns nothing any more.
Owned ==
  errs = 0 /\ ~crossing /\ up /\ paused =>
    \/ marker # 0 /\ act[Monitor].step # "clear"
    \/ timer \/ strays > 0
    \/ \E p \in Party : act[p].step \in {"write", "limit", "time"}

OwnShape == DeadIsIdle /\ DaysAreReal /\ PartsAreFixed
OwnInv == OwnShape /\ NoCrossing /\ Owned

\* A failed statement excuses everything after it.
LEMMA ErrsStay ==
  ASSUME PauseTypeOK, Err
  PROVE  errs' # 0
BY DEF PauseTypeOK, Err

\* Steps that change no part of it.
LEMMA OwnFrame ==
  ASSUME OwnInv, UNCHANGED <<paused, marker, timer, strays, act, up, crossing>>,
         day' >= day, day \in Nat, day' \in Nat, errs' \in Nat, errs \in Nat, errs' >= errs,
         \A s \in Slot : /\ slot'[s] = "skipping" <=> slot[s] = "skipping"
                         /\ slot'[s] = "idle" \/ (slot[s] # "idle" /\ up) \/ (act[s] = NoAct /\ up)
  PROVE  OwnInv'
<1>1. errs' = 0 => errs = 0
  OBVIOUS
<1>2. DeadIsIdle'
  BY DEF OwnInv, OwnShape, DeadIsIdle
<1>3. DaysAreReal'
  BY DEF OwnInv, OwnShape, DaysAreReal
<1>4. PartsAreFixed'
  BY DEF OwnInv, OwnShape, PartsAreFixed, NoAct
<1> QED BY <1>1, <1>2, <1>3, <1>4 DEF OwnInv, OwnShape, NoCrossing, Owned

\* The operator, the clock, and the steps of runs and conversations that begin no
\* pause.
LEMMA OwnRuns ==
  ASSUME PauseTypeOK, OwnInv,
         \/ SetOverride \/ NextDay
         \/ \E s \in Slot : Take(s) \/ Gate(s) \/ Turn(s) \/ Finish(s)
         \/ \E u \in Talk : TalkStep(u)
  PROVE  OwnInv'
<1> DEFINE Steady(s) ==
      /\ slot'[s] = "skipping" <=> slot[s] = "skipping"
      /\ slot'[s] = "idle" \/ (slot[s] # "idle" /\ up) \/ (act[s] = NoAct /\ up)
<1>1. UNCHANGED <<paused, marker, timer, strays, act, up, crossing>>
  BY DEF SetOverride, NextDay, Take, Gate, Turn, Finish, flags,
         TalkStep, Hear, Look, TalkGate, TalkTurn, TalkEnds
<1>2. errs \in Nat /\ errs' \in Nat /\ errs' >= errs
  BY ErrFrame DEF SetOverride, NextDay, Take, Gate, Turn, Finish, PauseTypeOK,
                  TalkStep, Hear, Look, TalkGate, TalkTurn, TalkEnds
<1>3. day \in Nat /\ day' \in Nat /\ day' >= day
  BY DEF SetOverride, NextDay, Take, Gate, Turn, Finish, PauseTypeOK, account,
         TalkStep, Hear, Look, TalkGate, TalkTurn, TalkEnds
<1>4. ASSUME NEW s \in Slot
      PROVE  Steady(s)
  <2>1. ~up => slot[s] = "idle" /\ \A r \in Slot : slot[r] = "idle"
    BY DEF OwnInv, OwnShape, DeadIsIdle
  <2>2. \/ slot' = slot
        \/ \E r \in Slot, v \in {"idle", "run"} :
             slot[r] \in {"gate", "run"} /\ slot' = [slot EXCEPT ![r] = v]
        \/ \E r \in Slot, v \in {"check", "gate"} :
             /\ slot[r] = "idle" /\ act[r] = NoAct /\ up
             /\ slot' = [slot EXCEPT ![r] = v]
    BY DEF SetOverride, NextDay, Take, Gate, Turn, Finish, work,
           TalkStep, Hear, Look, TalkGate, TalkTurn, TalkEnds
  <2>3. CASE slot' = slot
    <3>1. slot'[s] = slot[s]
      BY <2>3
    <3>2. slot[s] = "idle" \/ up
      BY <2>1
    <3> QED BY <3>1, <3>2
  <2>4. ASSUME NEW r \in Slot, NEW v \in {"idle", "run"},
               slot[r] \in {"gate", "run"}, slot' = [slot EXCEPT ![r] = v]
        PROVE  Steady(s)
    <3>1. slot'[s] = IF s = r THEN v ELSE slot[s]
      BY <2>4 DEF PauseTypeOK
    <3> QED BY <2>1, <2>4, <3>1
  <2>5. ASSUME NEW r \in Slot, NEW v \in {"check", "gate"},
               slot[r] = "idle", act[r] = NoAct, up, slot' = [slot EXCEPT ![r] = v]
        PROVE  Steady(s)
    <3>1. slot'[s] = IF s = r THEN v ELSE slot[s]
      BY <2>5 DEF PauseTypeOK
    <3> QED BY <2>1, <2>5, <3>1
  <2> QED BY <2>2, <2>3, <2>4, <2>5
<1> QED BY <1>1, <1>2, <1>3, <1>4, OwnFrame

\* A run that is over budget begins a pause, and one that meets a rate limit.
LEMMA OwnBegins ==
  ASSUME PauseTypeOK, OwnInv, NEW s \in Slot,
         PreRun(s) \/ \E limited \in BOOLEAN : Throw(s, limited)
  PROVE  OwnInv'
<1>0. errs \in Nat /\ errs' \in Nat /\ errs' >= errs /\ s \in Party /\ Monitor \in Party /\ s # Monitor
  BY ErrFrame, PauseConstants DEF PreRun, Throw, PauseTypeOK
<1>1. UNCHANGED <<day, paused, marker, strays, up, crossing>> /\ day > 0
  BY DEF PreRun, Throw, account, flags, OwnInv, OwnShape, DaysAreReal
<1>2. up /\ slot[s] \in {"check", "run"}
  BY DEF PreRun, Throw, OwnInv, OwnShape, DeadIsIdle
<1>3. act[s].step \notin {"marker?", "pause", "write", "limit", "time", "resume", "clear"}
  BY <1>2 DEF OwnInv, OwnShape, PartsAreFixed, BudgetSteps
<1>4. PICK st \in {"none", "marker?", "limit"}, v \in {"skipping", "gate", "idle"} :
        /\ \/ st = "none" /\ act' = act /\ v # "skipping" /\ timer' = timer
           \/ st # "none" /\ act' = [act EXCEPT ![s] = [step |-> st, day |-> day]]
              /\ (st = "marker?" <=> v = "skipping") /\ (st = "limit" => v = "idle")
              /\ (st # "limit" => timer' = timer)
        /\ slot' = [slot EXCEPT ![s] = v]
  BY DEF PreRun, Throw
<1>5. \A q \in Party : q # s => act'[q] = act[q]
  BY <1>4 DEF PauseTypeOK
<1>6. act'[s].step \in {"none", "marker?", "limit"} /\ (act'[s].step = "marker?" => act'[s].day = day)
      /\ (act'[s].step = "marker?" <=> slot'[s] = "skipping")
      /\ (act'[s].step = "limit" => slot'[s] = "idle")
  <2>1. slot'[s] = v
    BY <1>4 DEF PauseTypeOK
  <2>2. CASE st = "none"
    BY <2>1, <2>2, <1>3, <1>4, <1>0 DEF PauseTypeOK, Steps
  <2>3. CASE st # "none"
    <3>1. act'[s] = [step |-> st, day |-> day]
      BY <2>3, <1>4, <1>0 DEF PauseTypeOK
    <3> QED BY <3>1, <2>1, <2>3, <1>4
  <2> QED BY <2>2, <2>3
<1>7. \A r \in Slot : r # s => slot'[r] = slot[r]
  BY <1>4 DEF PauseTypeOK
<1>8. DeadIsIdle' /\ DaysAreReal' /\ PartsAreFixed'
  BY <1>0, <1>1, <1>2, <1>5, <1>6, <1>7, PauseConstants
     DEF OwnInv, OwnShape, DeadIsIdle, DaysAreReal, PartsAreFixed, BudgetSteps
<1>9. NoCrossing'
  BY <1>0, <1>1, <1>5, <1>6 DEF OwnInv, NoCrossing
<1>10. timer' = timer \/ act'[s].step = "limit"
  BY <1>4, <1>0 DEF PauseTypeOK
<1>11. Owned'
  <2>1. \A p \in Party : act[p].step \in {"write", "limit", "time"} => act'[p] = act[p]
    BY <1>3, <1>5
  <2> QED BY <2>1, <1>0, <1>1, <1>5, <1>10 DEF OwnInv, Owned
<1> QED BY <1>8, <1>9, <1>11 DEF OwnInv, OwnShape

\* The back-off passes the pause from a step to the timer.
LEMMA OwnBackoff ==
  ASSUME PauseTypeOK, PauseTypeOK', OwnInv, NEW s \in Slot, LimitPauses(s) \/ StartTimer(s)
  PROVE  OwnInv'
<1>0. errs \in Nat /\ errs' \in Nat /\ errs' >= errs /\ s \in Party /\ Monitor \in Party /\ s # Monitor
  BY ErrFrame, PauseConstants DEF LimitPauses, StartTimer, PauseTypeOK
<1>1. UNCHANGED <<day, slot, marker, up, crossing>> /\ act[s].step \in {"limit", "time"}
  BY DEF LimitPauses, StartTimer, account, work, flags
<1>2. PICK st \in {"none", "time"} : Goto(s, st)
        /\ \/ LimitPauses(s) /\ st = "time" /\ UNCHANGED <<timer, strays>>
           \/ st = "none" /\ paused' = paused /\ (errs' # 0 \/ timer')
  BY ErrsStay DEF LimitPauses, StartTimer, flags
<1>3. /\ act'[s].step = st /\ (st = "none" => act'[s] = NoAct)
      /\ \A q \in Party : q # s => act'[q] = act[q]
  BY <1>2, <1>0, GotoFrame DEF Steps
<1>4. up /\ slot[s] = "idle"
  BY <1>0, <1>1 DEF OwnInv, OwnShape, DeadIsIdle, PartsAreFixed, NoAct
<1>5. DeadIsIdle' /\ DaysAreReal' /\ PartsAreFixed'
  BY <1>0, <1>1, <1>2, <1>3, <1>4, PauseConstants
     DEF OwnInv, OwnShape, DeadIsIdle, DaysAreReal, PartsAreFixed, BudgetSteps
<1>6. NoCrossing'
  BY <1>0, <1>1, <1>3 DEF OwnInv, NoCrossing
<1>7. Owned'
  BY <1>0, <1>1, <1>2, <1>3 DEF OwnInv, Owned
<1> QED BY <1>5, <1>6, <1>7 DEF OwnInv, OwnShape

\* Where a pause for the budget, or a resume, may go.
LEMMA OwnParty ==
  ASSUME PauseTypeOK, OwnShape, NEW p \in Party, NEW st \in Steps, Goto(p, st),
         act[p].step \in BudgetSteps \union {"resume", "clear"},
         st \in BudgetSteps \union {"none", "clear"}, st = "clear" => p = Monitor,
         UNCHANGED <<day, up>>,
         \/ st \in BudgetSteps /\ act[p].step \in BudgetSteps /\ slot' = slot
         \/ st \in {"none", "clear"} /\ p = Monitor /\ slot' = slot
         \/ st = "none" /\ \E threw \in BOOLEAN : AfterAct(p, threw)
  PROVE  /\ OwnShape' /\ up
         /\ act'[p].step = st
         /\ \A q \in Party : q # p => act'[q] = act[q]
<1>0. Monitor \in Party /\ Monitor \notin Slot /\ Slot \subseteq Party
  BY PauseConstants
<1>1. /\ act'[p].step = st /\ (st # "none" => act'[p].day = act[p].day)
      /\ (st = "none" => act'[p] = NoAct)
      /\ \A q \in Party : q # p => act'[q] = act[q]
  BY GotoFrame
<1>2. up
  BY <1>0 DEF OwnShape, DeadIsIdle, NoAct, BudgetSteps
<1>3. \A s \in Slot : s # p => slot'[s] = slot[s]
  BY AfterActFrame
<1>4. ASSUME p \in Slot
      PROVE  slot'[p] = "skipping" <=> act'[p].step \in BudgetSteps
  <2>1. act[p].step \in BudgetSteps /\ slot[p] = "skipping"
    BY <1>4 DEF OwnShape, PartsAreFixed
  <2>2. CASE st \in BudgetSteps /\ slot' = slot
    BY <1>1, <2>1, <2>2
  <2>3. CASE st = "none" /\ \E threw \in BOOLEAN : AfterAct(p, threw)
    <3>1. slot'[p] \in {"gate", "idle"}
      BY <1>4, <2>1, <2>3, AfterActFrame
    <3> QED BY <1>1, <2>3, <3>1 DEF BudgetSteps
  <2> QED BY <1>0, <1>4, <2>2, <2>3
<1>5. DeadIsIdle' /\ DaysAreReal'
  BY <1>0, <1>1, <1>2 DEF OwnShape, DeadIsIdle, DaysAreReal, BudgetSteps
<1>6. PartsAreFixed'
  BY <1>0, <1>1, <1>3, <1>4 DEF OwnShape, PartsAreFixed, BudgetSteps
<1> QED BY <1>1, <1>2, <1>5, <1>6 DEF OwnShape

\* The statements of a pause for the budget.
LEMMA OwnPause ==
  ASSUME PauseTypeOK, PauseTypeOK', OwnInv, NEW p \in Party,
         ReadMarker(p) \/ BudgetPauses(p) \/ WriteMarker(p)
  PROVE  OwnInv'
<1>0. errs \in Nat /\ errs' \in Nat /\ errs' >= errs /\ Monitor \in Party /\ marker \in Nat
  BY ErrFrame, PauseConstants DEF ReadMarker, BudgetPauses, WriteMarker, PauseTypeOK
<1>1. UNCHANGED <<day, up, timer, strays>> /\ act[p].step \in BudgetSteps
  BY DEF ReadMarker, BudgetPauses, WriteMarker, account, BudgetSteps, flags
<1>2. act[p].day > 0
  BY <1>1 DEF OwnInv, OwnShape, DaysAreReal
<1>3. CASE ReadMarker(p)
  <2>1. PICK st \in {"none", "pause"} :
          /\ Goto(p, st) /\ act[p].step = "marker?" /\ UNCHANGED <<paused, marker, crossing>>
          /\ \/ st = "pause" /\ slot' = slot
             \/ st = "none" /\ \E threw \in BOOLEAN : AfterAct(p, threw)
    BY <1>3 DEF ReadMarker, flags
  <2>2. OwnShape' /\ act'[p].step = st /\ \A q \in Party : q # p => act'[q] = act[q]
    BY <1>1, <2>1, OwnParty DEF OwnInv, BudgetSteps, Steps
  <2> QED BY <1>0, <1>1, <2>1, <2>2 DEF OwnInv, NoCrossing, Owned
<1>4. CASE BudgetPauses(p)
  <2>1. PICK st \in {"none", "write"} :
          /\ Goto(p, st) /\ act[p].step = "pause" /\ Crosses(p, {"resume", "clear"})
          /\ marker' = marker
          /\ \/ st = "write" /\ slot' = slot
             \/ st = "none" /\ errs' # 0 /\ \E threw \in BOOLEAN : AfterAct(p, threw)
    BY <1>4, ErrsStay DEF BudgetPauses
  <2>2. OwnShape' /\ act'[p].step = st /\ \A q \in Party : q # p => act'[q] = act[q]
    BY <1>1, <2>1, OwnParty DEF OwnInv, BudgetSteps, Steps
  <2>3. ~crossing' => ~crossing /\ act'[Monitor].step # "clear"
    BY <1>0, <2>1, <2>2 DEF Crosses
  <2> QED BY <1>0, <1>1, <2>1, <2>2, <2>3 DEF OwnInv, NoCrossing, Owned
<1>5. CASE WriteMarker(p)
  <2>1. /\ Goto(p, "none") /\ act[p].step = "write" /\ UNCHANGED <<paused, crossing>>
        /\ marker' = act[p].day \/ errs' # 0
        /\ \E threw \in BOOLEAN : AfterAct(p, threw)
    BY <1>5, ErrsStay DEF WriteMarker
  <2>2. OwnShape' /\ act'[p].step = "none" /\ \A q \in Party : q # p => act'[q] = act[q]
    BY <1>1, <2>1, OwnParty DEF OwnInv, BudgetSteps, Steps
  <2>3. errs = 0 /\ ~crossing => act[Monitor].step # "clear"
    BY <2>1 DEF OwnInv, NoCrossing
  <2> QED BY <1>0, <1>1, <1>2, <2>1, <2>2, <2>3 DEF OwnInv, NoCrossing, Owned
<1> QED BY <1>3, <1>4, <1>5

\* The monitor's tick and its resume.
LEMMA OwnMonitor ==
  ASSUME PauseTypeOK, PauseTypeOK', OwnInv, Tick \/ BudgetResumes \/ ClearMarker
  PROVE  OwnInv'
<1>0. errs \in Nat /\ errs' \in Nat /\ errs' >= errs /\ Monitor \in Party /\ marker \in Nat
      /\ Monitor \notin Slot
  BY ErrFrame, PauseConstants DEF Tick, BudgetResumes, ClearMarker, PauseTypeOK
<1>1. UNCHANGED <<day, up, timer, strays, slot>>
  BY DEF Tick, BudgetResumes, ClearMarker, account, work
<1>2. CASE Tick
  <2>1. PICK st \in {"marker?", "resume"} :
          /\ act' = [act EXCEPT ![Monitor] = [step |-> st, day |-> day]]
          /\ UNCHANGED <<paused, marker, crossing>> /\ act[Monitor] = NoAct /\ up
    BY <1>2 DEF Tick, flags
  <2>2. /\ act'[Monitor].step = st /\ act'[Monitor].day = day
        /\ \A q \in Party : q # Monitor => act'[q] = act[q]
    BY <1>0, <2>1 DEF PauseTypeOK
  <2>3. OwnShape'
    BY <1>0, <1>1, <2>1, <2>2, PauseConstants
       DEF OwnInv, OwnShape, DeadIsIdle, DaysAreReal, PartsAreFixed, BudgetSteps
  <2> QED BY <1>0, <1>1, <2>1, <2>2, <2>3 DEF OwnInv, NoCrossing, Owned, NoAct
<1>3. CASE BudgetResumes
  <2>1. PICK st \in {"none", "clear"} :
          /\ Goto(Monitor, st) /\ act[Monitor].step = "resume" /\ Crosses(Monitor, {"pause", "write"})
          /\ marker' = marker
          /\ (st = "clear" /\ paused' = FALSE) \/ (st = "none" /\ errs' # 0)
    BY <1>3, ErrsStay DEF BudgetResumes
  <2>2. OwnShape' /\ act'[Monitor].step = st /\ \A q \in Party : q # Monitor => act'[q] = act[q]
    BY <1>0, <1>1, <2>1, OwnParty DEF OwnInv, BudgetSteps, Steps
  <2>3. ~crossing' /\ st = "clear" => \A q \in Party : act'[q].step # "write"
    BY <2>1, <2>2 DEF Crosses
  <2> QED BY <1>0, <1>1, <2>1, <2>2, <2>3 DEF OwnInv, NoCrossing, Owned
<1>4. CASE ClearMarker
  <2>1. /\ Goto(Monitor, "none") /\ act[Monitor].step = "clear" /\ UNCHANGED <<paused, crossing>>
    BY <1>4 DEF ClearMarker
  <2>2. OwnShape' /\ act'[Monitor].step = "none" /\ \A q \in Party : q # Monitor => act'[q] = act[q]
    BY <1>0, <1>1, <2>1, OwnParty DEF OwnInv, BudgetSteps, Steps
  <2> QED BY <1>0, <1>1, <2>1, <2>2 DEF OwnInv, NoCrossing, Owned
<1> QED BY <1>2, <1>3, <1>4

\* Timers that end, and the worker that stops and starts.
LEMMA OwnRestart ==
  ASSUME PauseTypeOK, PauseTypeOK', OwnInv, Timers \/ Stop \/ Restart \/ UNCHANGED pauseVars
  PROVE  OwnInv'
<1>0. errs \in Nat /\ errs' \in Nat /\ (errs' = 0 => errs = 0) /\ Monitor \in Party
  <2>1. CASE Timers \/ Stop \/ Restart
    BY <2>1, ErrFrame, PauseConstants DEF Timers, TimerEnds, Stop, Restart, PauseTypeOK
  <2>2. CASE UNCHANGED pauseVars
    BY <2>2, PauseConstants DEF pauseVars, PauseTypeOK
  <2> QED BY <2>1, <2>2
<1>1. CASE Timers
  <2>1. /\ UNCHANGED <<day, slot, marker, act, up, crossing>>
        /\ paused' = FALSE \/ errs' # 0
    BY <1>1, ErrsStay DEF Timers, TimerEnds, account, work
  <2> QED BY <1>0, <2>1
          DEF OwnInv, OwnShape, DeadIsIdle, DaysAreReal, PartsAreFixed, NoCrossing, Owned
<1>2. CASE Stop
  <2>1. /\ up' = FALSE /\ slot' = [s \in Slot |-> "idle"] /\ act' = [p \in Party |-> NoAct]
        /\ UNCHANGED <<day, crossing>>
    BY <1>2 DEF Stop, account
  <2>2. \A p \in Party : act'[p] = NoAct /\ act'[p].step = "none"
    BY <2>1 DEF NoAct
  <2>3. OwnShape'
    BY <1>0, <2>1, <2>2, PauseConstants
       DEF OwnInv, OwnShape, DeadIsIdle, DaysAreReal, PartsAreFixed, BudgetSteps
  <2> QED BY <1>0, <2>1, <2>2, <2>3 DEF OwnInv, NoCrossing, Owned
<1>3. CASE Restart
  <2>1. /\ ~up /\ UNCHANGED <<day, slot, act, crossing, marker>>
        /\ paused' = Reconciled \/ errs' # 0
    BY <1>3, ErrsStay DEF Restart, account, work
  <2>2. \A p \in Party : act'[p] = NoAct /\ act'[p].step = "none"
    BY <2>1 DEF OwnInv, OwnShape, DeadIsIdle, NoAct
  <2>3. OwnShape'
    BY <1>0, <2>1, <2>2
       DEF OwnInv, OwnShape, DeadIsIdle, DaysAreReal, PartsAreFixed, BudgetSteps
  <2> QED BY <1>0, <2>1, <2>2, <2>3 DEF OwnInv, NoCrossing, Owned, Reconciled
<1>4. CASE UNCHANGED pauseVars
  BY <1>4 DEF pauseVars, account, work, flags,
              OwnInv, OwnShape, DeadIsIdle, DaysAreReal, PartsAreFixed, NoCrossing, Owned
<1> QED BY <1>1, <1>2, <1>3, <1>4

\* A queue that is paused has an owner who will resume it: the marker of the
\* budget, a timer of the back-off, or a pause in progress; but for a statement
\* that failed, or a pause that overlapped a resume (pauseQueueFor,
\* pauseForBudgetBreach, resumeAfterBudgetPause, reconcileUnownedQueuePause).
THEOREM PausesStayOwned == PauseSpec => []PausesAreOwned
<1>1. PauseInit => OwnInv
  <2> SUFFICES ASSUME PauseInit PROVE OwnInv
    OBVIOUS
  <2>1. \A p \in Party : act[p] = NoAct /\ act[p].step = "none"
    BY DEF PauseInit, NoAct
  <2> QED BY <2>1, PauseConstants
          DEF PauseInit, OwnInv, OwnShape, DeadIsIdle, DaysAreReal, PartsAreFixed, NoCrossing, Owned,
              BudgetSteps
<1>2. PauseTypeOK /\ PauseTypeOK' /\ OwnInv /\ [PauseNext]_pauseVars => OwnInv'
  <2> SUFFICES ASSUME PauseTypeOK, PauseTypeOK', OwnInv, [PauseNext]_pauseVars PROVE OwnInv'
    OBVIOUS
  <2> QED BY OwnRuns, OwnBegins, OwnBackoff, OwnPause, OwnMonitor, OwnRestart, PauseConstants
          DEF PauseNext, SlotStep, PauseStep, MonitorStep
<1>3. OwnInv => PausesAreOwned
  BY DEF OwnInv, Owned, PausesAreOwned
<1> QED BY <1>1, <1>2, <1>3, PauseTypes, PTL DEF PauseSpec

-----------------------------------------------------------------------------
(* The clients of an MCP server *)

Phases == {"none", "init", "list", "ready", "aborted", "failed"}
Connecting == {"init", "list", "aborted"}

PoolTypeOK ==
  /\ pooled \in BOOLEAN /\ http \in BOOLEAN /\ closing \in BOOLEAN
  /\ clients \in [Clients -> [child : {"none", "alive", "term", "gone"},
                              phase : Phases, disposed : BOOLEAN]]
  /\ shared \in Clients \union {NoClient} /\ pending \in Clients \union {NoClient}
  /\ users \in [Runs -> [at : {"out", "wait", "have", "call", "release"},
                         client : Clients \union {NoClient}]]
  /\ spawned \in 0..MaxClients

\* A client that is not alive is disposed.
ClientsAreBorn ==
  \A c \in Clients : /\ c > spawned => clients[c] = Unborn
                     /\ clients[c].child \in {"term", "gone"} => clients[c].disposed

\* The pool's client is connected, and none other is being connected beside it.
PoolShape ==
  /\ shared # NoClient => clients[shared].phase = "ready"
  /\ pending # NoClient => clients[pending].phase \in Connecting
  /\ shared = NoClient \/ pending = NoClient
  /\ ~pooled => shared = NoClient /\ pending = NoClient
  /\ pooled /\ ~closing => \A c \in Clients : clients[c].phase \in Connecting => c = pending

\* A run waits for a client that is being connected, and holds one that is.
UsersAreServed ==
  \A r \in Runs :
    /\ users[r].at = "out" <=> users[r].client = NoClient
    /\ users[r].at = "wait" => clients[users[r].client].phase \in Connecting
    /\ users[r].at \in {"have", "call", "release"} => clients[users[r].client].phase = "ready"
    /\ users[r].at = "call" => clients[users[r].client].child # "gone" \/ http

\* Without a pool no two runs hold one client.
OwnersAreAlone ==
  ~pooled => \A r, q \in Runs :
    users[r].client = users[q].client /\ users[r].client # NoClient => r = q

\* A server that runs is the pool's, or some run's.
ServersAreKept ==
  \A c \in Clients : clients[c].child = "alive" =>
    /\ pooled /\ ~closing => c \in {shared, pending}
    /\ ~pooled => \E r \in Runs : users[r].client = c

PoolInv == ClientsAreBorn /\ PoolShape /\ UsersAreServed /\ OwnersAreAlone /\ ServersAreKept

\* What disconnect leaves of a client, and of the others.
LEMMA DisconnectedIs ==
  ASSUME PoolTypeOK, NEW c \in Clients
  PROVE  LET gone == Disconnected(c, clients) IN
         /\ gone \in [Clients -> [child : {"none", "alive", "term", "gone"},
                                  phase : Phases, disposed : BOOLEAN]]
         /\ gone[c].disposed /\ gone[c].phase = clients[c].phase /\ gone[c].child # "alive"
         /\ clients[c].child # "alive" => gone[c].child = clients[c].child
         /\ gone[c].child = "gone" => http \/ clients[c].child = "gone"
         /\ \A d \in Clients : d # c => gone[d] = clients[d]
<1> DEFINE left == IF clients[c].child # "alive" THEN clients[c].child
                   ELSE IF http THEN "gone" ELSE "term"
           one  == [[clients[c] EXCEPT !.disposed = TRUE] EXCEPT !.child = left]
<1>1. Disconnected(c, clients) = [clients EXCEPT ![c] = one]
  BY DEF Disconnected, PoolTypeOK
<1>2. clients[c] \in [child : {"none", "alive", "term", "gone"}, phase : Phases, disposed : BOOLEAN]
  BY DEF PoolTypeOK
<1>3. left \in {"none", "alive", "term", "gone"} /\ left # "alive"
      /\ (left = "gone" => http \/ clients[c].child = "gone")
  BY <1>2
<1>4. one \in [child : {"none", "alive", "term", "gone"}, phase : Phases, disposed : BOOLEAN]
      /\ one.disposed /\ one.phase = clients[c].phase /\ one.child = left
  BY <1>2, <1>3
<1> HIDE DEF one, left
<1> QED BY <1>1, <1>3, <1>4 DEF PoolTypeOK, left

\* Client c is as before, but for its end.
Fades(c) ==
  /\ \/ clients'[c].phase = clients[c].phase
     \/ clients[c].phase \in Connecting /\ clients'[c].phase = "aborted"
  /\ clients'[c].child = "alive" => clients[c].child = "alive"
  /\ clients'[c].child \in {"term", "gone"} => clients'[c].disposed
  /\ c > spawned => clients'[c] = clients[c]

\* Run r holds what it held, or lets go of a client that is not alive or not
\* its own.
Keeps(r) ==
  /\ \/ users'[r].at = users[r].at /\ users'[r].client = users[r].client
     \/ /\ users[r].at \in {"have", "call"} /\ users'[r].at \in {"have", "call", "release"}
        /\ users'[r].client = users[r].client
     \/ /\ users[r].at \in {"have", "release"} /\ users'[r] = AtRest
        /\ pooled \/ clients'[users[r].client].child # "alive"
  /\ users'[r].at = "call" => clients'[users[r].client].child # "gone" \/ http

\* Calls, releases and deaths: no client is connected or taken.
LEMMA PoolQuiet ==
  ASSUME PoolTypeOK, PoolTypeOK', PoolInv,
         UNCHANGED <<fixedPool, shared, pending, spawned, closing>>,
         \A c \in Clients : Fades(c), \A r \in Runs : Keeps(r)
  PROVE  PoolInv'
<1> USE DEF fixedPool
<1>1. ClientsAreBorn'
  BY DEF PoolInv, ClientsAreBorn, Fades
<1>2. PoolShape'
  BY DEF PoolInv, PoolShape, Connecting, PoolTypeOK, Fades
<1>3. UsersAreServed'
  BY DEF PoolInv, UsersAreServed, Connecting, PoolTypeOK, Fades, Keeps, AtRest
<1>4. OwnersAreAlone'
  BY DEF PoolInv, OwnersAreAlone, Keeps, AtRest
<1>5. ServersAreKept'
  BY DEF PoolInv, ServersAreKept, Fades, Keeps
<1> QED BY <1>1, <1>2, <1>3, <1>4, <1>5 DEF PoolInv

\* A client that did not change fades, and a run that did not holds.
LEMMA QuietFrame ==
  ASSUME PoolTypeOK, PoolInv
  PROVE  /\ \A c \in Clients : clients'[c] = clients[c] => Fades(c)
         /\ \A r \in Runs : users'[r] = users[r] /\ users[r].at # "call" => Keeps(r)
         /\ \A r \in Runs : UNCHANGED <<clients, fixedPool>> /\ users'[r] = users[r] => Keeps(r)
BY DEF PoolInv, ClientsAreBorn, UsersAreServed, Fades, Keeps

LEMMA PoolUser ==
  ASSUME PoolTypeOK, PoolInv, NEW r \in Runs
  PROVE  /\ users[r] \in [at : {"out", "wait", "have", "call", "release"},
                          client : Clients \union {NoClient}]
         /\ users[r].at # "out" => users[r].client \in Clients
BY McpPoolAssumption DEF PoolTypeOK, PoolInv, UsersAreServed

LEMMA PoolCalls ==
  ASSUME PoolTypeOK, PoolInv, NEW r \in Runs, CallTool(r) \/ CallEnds(r)
  PROVE  PoolTypeOK' /\ PoolInv'
<1>0. UNCHANGED <<fixedPool, clients, shared, pending, spawned, closing>>
  BY DEF CallTool, CallEnds
<1>1. PICK v \in {"have", "call"} :
        /\ users' = [users EXCEPT ![r] = [users[r] EXCEPT !.at = v]]
        /\ users[r].at \in {"have", "call"}
        /\ v = "call" =>
             IF http THEN clients[users[r].client].child = "alive" ELSE ~clients[users[r].client].disposed
  BY DEF CallTool, CallEnds
<1>3. /\ users'[r].at = v /\ users'[r].client = users[r].client
      /\ \A q \in Runs : q # r => users'[q] = users[q]
  BY <1>1, PoolUser DEF PoolTypeOK
<1>4. [users[r] EXCEPT !.at = v] \in
        [at : {"out", "wait", "have", "call", "release"}, client : Clients \union {NoClient}]
  BY <1>1, PoolUser
<1>5. PoolTypeOK'
  BY <1>0, <1>1, <1>4 DEF PoolTypeOK, fixedPool
<1>7. v = "call" => clients'[users[r].client].child # "gone"
  BY <1>0, <1>1, PoolUser DEF PoolInv, ClientsAreBorn
<1>8. Keeps(r)
  BY <1>1, <1>3, <1>7 DEF Keeps
<1>9. \A q \in Runs : Keeps(q)
  BY <1>0, <1>3, <1>8, QuietFrame
<1>10. \A c \in Clients : Fades(c)
  BY <1>0, QuietFrame
<1> QED BY <1>0, <1>5, <1>9, <1>10, PoolQuiet

LEMMA PoolReleases ==
  ASSUME PoolTypeOK, PoolInv, NEW r \in Runs, Release(r) \/ Released(r)
  PROVE  PoolTypeOK' /\ PoolInv'
<1> DEFINE c == users[r].client
<1>0. UNCHANGED <<fixedPool, shared, pending, spawned, closing>> /\ users[r].at \in {"have", "release"}
  BY DEF Release, Released
<1>1. c \in Clients /\ users[r].client = c
  BY <1>0, PoolUser
<1> HIDE DEF c
<1>2. AtRest \in [at : {"out", "wait", "have", "call", "release"}, client : Clients \union {NoClient}]
      /\ [users[r] EXCEPT !.at = "release"] \in
           [at : {"out", "wait", "have", "call", "release"}, client : Clients \union {NoClient}]
  BY <1>0, PoolUser DEF AtRest
<1>3. CASE clients' = clients /\ users' = [users EXCEPT ![r] = AtRest]
           /\ (pooled \/ clients[c].child # "alive")
  <2>1. PoolTypeOK'
    BY <1>0, <1>2, <1>3 DEF PoolTypeOK, fixedPool
  <2>2. users'[r] = AtRest /\ \A q \in Runs : q # r => users'[q] = users[q]
    BY <1>3 DEF PoolTypeOK
  <2>3. Keeps(r)
    BY <1>0, <1>1, <1>3, <2>2 DEF Keeps, AtRest
  <2>4. \A q \in Runs : Keeps(q)
    BY <1>0, <1>3, <2>2, <2>3, QuietFrame
  <2>5. \A d \in Clients : Fades(d)
    BY <1>3, QuietFrame
  <2> QED BY <1>0, <2>1, <2>4, <2>5, PoolQuiet
<1>4. CASE /\ clients' = Disconnected(c, clients) /\ ~pooled /\ users[r].at = "have"
           /\ users' = [users EXCEPT ![r] = [users[r] EXCEPT !.at = "release"]]
  <2>1. PoolTypeOK'
    BY <1>0, <1>1, <1>2, <1>4, DisconnectedIs DEF PoolTypeOK, fixedPool
  <2>2. /\ users'[r].at = "release" /\ users'[r].client = c
        /\ \A q \in Runs : q # r => users'[q] = users[q] /\ users[q].client # c
    BY <1>1, <1>4, PoolUser, McpPoolAssumption DEF PoolTypeOK, PoolInv, OwnersAreAlone, Clients
  <2>3. Keeps(r)
    BY <1>1, <1>4, <2>2 DEF Keeps
  <2>4. ASSUME NEW q \in Runs, q # r PROVE Keeps(q)
    <3>1. users[q].at = "call" => users[q].client \in Clients /\ users[q].client # c
      BY <2>2, <2>4, PoolUser
    <3>2. users[q].at = "call" => clients'[users[q].client].child # "gone" \/ http
      BY <1>1, <1>4, <3>1, DisconnectedIs DEF PoolInv, UsersAreServed
    <3> QED BY <2>2, <2>4, <3>2 DEF Keeps
  <2>5. c <= spawned
    BY <1>1, <1>4 DEF PoolInv, ClientsAreBorn, UsersAreServed, Unborn, PoolTypeOK, Clients
  <2>6. Fades(c)
    BY <1>1, <1>4, <2>5, DisconnectedIs DEF Fades, Clients, PoolTypeOK
  <2>7. \A d \in Clients : Fades(d)
    BY <1>1, <1>4, <2>6, DisconnectedIs, QuietFrame
  <2> QED BY <1>0, <2>1, <2>3, <2>4, <2>7, PoolQuiet
<1> QED BY <1>0, <1>3, <1>4 DEF Release, Released, c

LEMMA PoolAbort ==
  ASSUME PoolTypeOK, PoolInv, NEW c \in Clients, AbortConnect(c)
  PROVE  PoolTypeOK' /\ PoolInv'
<1> DEFINE left == Disconnected(c, clients)
<1>0. UNCHANGED <<fixedPool, shared, pending, users, spawned, closing>> /\ clients[c].phase \in {"init", "list"}
  BY DEF AbortConnect
<1>1. clients' = [left EXCEPT ![c] = [left[c] EXCEPT !.phase = "aborted"]]
  BY DisconnectedIs DEF AbortConnect
<1>2. /\ left \in [Clients -> [child : {"none", "alive", "term", "gone"}, phase : Phases, disposed : BOOLEAN]]
      /\ left[c].disposed /\ left[c].child # "alive"
      /\ left[c].child = "gone" => http \/ clients[c].child = "gone"
      /\ \A d \in Clients : d # c => left[d] = clients[d]
  BY DisconnectedIs
<1> HIDE DEF left
<1>3. /\ clients'[c].phase = "aborted" /\ clients'[c].disposed /\ clients'[c].child = left[c].child
      /\ clients'[c] \in [child : {"none", "alive", "term", "gone"}, phase : Phases, disposed : BOOLEAN]
      /\ \A d \in Clients : d # c => clients'[d] = clients[d]
  BY <1>1, <1>2 DEF Phases
<1>4. clients' \in [Clients -> [child : {"none", "alive", "term", "gone"}, phase : Phases, disposed : BOOLEAN]]
  BY <1>1, <1>2, <1>3
<1>5. PoolTypeOK'
  BY <1>0, <1>4 DEF PoolTypeOK, fixedPool
<1>6. c <= spawned
  BY <1>0 DEF PoolInv, ClientsAreBorn, Unborn, PoolTypeOK, Clients
<1>7. Fades(c)
  BY <1>0, <1>2, <1>3, <1>6 DEF Fades, Connecting, Clients, PoolTypeOK
<1>8. \A d \in Clients : Fades(d)
  BY <1>3, <1>7, QuietFrame
<1>9. ASSUME NEW r \in Runs PROVE Keeps(r)
  <2>1. users[r].at = "call" => users[r].client \in Clients /\ users[r].client # c
    BY <1>0, PoolUser DEF PoolInv, UsersAreServed
  <2>2. users[r].at = "call" => clients'[users[r].client].child # "gone" \/ http
    BY <1>3, <2>1 DEF PoolInv, UsersAreServed
  <2> QED BY <1>0, <2>2 DEF Keeps
<1> QED BY <1>0, <1>5, <1>8, <1>9, PoolQuiet

LEMMA PoolEnds ==
  ASSUME PoolTypeOK, PoolInv, NEW c \in Clients, Exit(c) \/ TransportError(c)
  PROVE  PoolTypeOK' /\ PoolInv'
<1>0. UNCHANGED <<fixedPool, shared, pending, spawned, closing>> /\ clients[c].child \in {"alive", "term"}
  BY DEF Exit, TransportError
<1>1. clients[c] \in [child : {"none", "alive", "term", "gone"}, phase : Phases, disposed : BOOLEAN]
  BY DEF PoolTypeOK
<1>2. c <= spawned
  BY <1>0 DEF PoolInv, ClientsAreBorn, Unborn, PoolTypeOK, Clients
<1>3. CASE Exit(c)
  <2>1. clients' = [clients EXCEPT ![c] = [[clients[c] EXCEPT !.child = "gone"] EXCEPT !.disposed = TRUE]]
    BY <1>3 DEF Exit, PoolTypeOK
  <2>2. /\ clients'[c].child = "gone" /\ clients'[c].disposed /\ clients'[c].phase = clients[c].phase
        /\ \A d \in Clients : d # c => clients'[d] = clients[d]
        /\ clients' \in [Clients -> [child : {"none", "alive", "term", "gone"}, phase : Phases, disposed : BOOLEAN]]
    BY <1>1, <2>1 DEF PoolTypeOK
  <2>3. ASSUME NEW r \in Runs
        PROVE  /\ users'[r] \in [at : {"out", "wait", "have", "call", "release"},
                                 client : Clients \union {NoClient}]
               /\ users'[r].client = users[r].client
               /\ users'[r].at = users[r].at \/ (users[r].at = "call" /\ users'[r].at = "have")
               /\ users'[r].at = "call" => users[r].client # c
    <3>1. users'[r] = IF users[r] = [at |-> "call", client |-> c]
                      THEN [users[r] EXCEPT !.at = "have"] ELSE users[r]
      BY <1>3 DEF Exit, Rejected
    <3>2. users[r].at = "call" /\ users[r].client = c => users[r] = [at |-> "call", client |-> c]
      BY PoolUser
    <3>3. CASE users[r] = [at |-> "call", client |-> c]
      BY <3>1, <3>3, PoolUser
    <3>4. CASE users[r] # [at |-> "call", client |-> c]
      <4>1. users'[r] = users[r] /\ ~(users[r].at = "call" /\ users[r].client = c)
        BY <3>1, <3>2, <3>4
      <4> QED BY <4>1, PoolUser
    <3> QED BY <3>3, <3>4
  <2>4. users' \in [Runs -> [at : {"out", "wait", "have", "call", "release"},
                            client : Clients \union {NoClient}]]
    BY <1>3, <2>3 DEF Exit, Rejected
  <2>5. PoolTypeOK'
    BY <1>0, <2>2, <2>4 DEF PoolTypeOK, fixedPool
  <2>6. Fades(c)
    BY <1>2, <2>2 DEF Fades, Clients, PoolTypeOK
  <2>7. \A d \in Clients : Fades(d)
    BY <2>2, <2>6, QuietFrame
  <2>8. ASSUME NEW r \in Runs PROVE Keeps(r)
    <3>1. users'[r].at = "call" => users[r].at = "call" /\ users[r].client \in Clients \ {c}
      BY <2>3, PoolUser
    <3>2. users'[r].at = "call" => clients'[users[r].client].child # "gone" \/ http
      BY <2>2, <3>1 DEF PoolInv, UsersAreServed
    <3> QED BY <2>3, <3>2 DEF Keeps
  <2> QED BY <1>0, <2>5, <2>7, <2>8, PoolQuiet
<1>4. CASE TransportError(c)
  <2>1. clients' = [clients EXCEPT ![c] = [clients[c] EXCEPT !.disposed = TRUE]] /\ users' = users /\ http
    BY <1>4 DEF TransportError
  <2>2. /\ clients'[c].child = clients[c].child /\ clients'[c].disposed /\ clients'[c].phase = clients[c].phase
        /\ \A d \in Clients : d # c => clients'[d] = clients[d]
        /\ clients' \in [Clients -> [child : {"none", "alive", "term", "gone"}, phase : Phases, disposed : BOOLEAN]]
    BY <1>1, <2>1 DEF PoolTypeOK
  <2>3. PoolTypeOK'
    BY <1>0, <2>1, <2>2 DEF PoolTypeOK, fixedPool
  <2>4. Fades(c)
    BY <1>2, <2>2 DEF Fades, Clients, PoolTypeOK
  <2>5. \A d \in Clients : Fades(d)
    BY <2>2, <2>4, QuietFrame
  <2>6. \A r \in Runs : Keeps(r)
    BY <2>1 DEF Keeps
  <2> QED BY <1>0, <2>3, <2>5, <2>6, PoolQuiet
<1> QED BY <1>3, <1>4

\* What an answer to the connection of c does to the runs that wait for it.
LEMMA WaitersGet ==
  ASSUME PoolTypeOK, PoolInv, NEW c \in Clients,
         \/ users' = [r \in Runs |-> IF users[r] = [at |-> "wait", client |-> c]
                                    THEN [users[r] EXCEPT !.at = "have"] ELSE users[r]]
         \/ users' = [r \in Runs |-> IF users[r] = [at |-> "wait", client |-> c]
                                    THEN AtRest ELSE users[r]]
  PROVE  /\ users' \in [Runs -> [at : {"out", "wait", "have", "call", "release"},
                                client : Clients \union {NoClient}]]
         /\ \A r \in Runs :
              IF users[r].at = "wait" /\ users[r].client = c
              THEN users'[r] = [users[r] EXCEPT !.at = "have"] \/ users'[r] = AtRest
              ELSE users'[r] = users[r]
<1>1. \A r \in Runs : users[r] = [at |-> "wait", client |-> c] <=> users[r].at = "wait" /\ users[r].client = c
  BY PoolUser
<1>2. \A r \in Runs : IF users[r].at = "wait" /\ users[r].client = c
                     THEN users'[r] = [users[r] EXCEPT !.at = "have"] \/ users'[r] = AtRest
                     ELSE users'[r] = users[r]
  BY <1>1
<1>3. ASSUME NEW r \in Runs
      PROVE  users'[r] \in [at : {"out", "wait", "have", "call", "release"}, client : Clients \union {NoClient}]
  <2>1. AtRest \in [at : {"out", "wait", "have", "call", "release"}, client : Clients \union {NoClient}]
    BY DEF AtRest
  <2>2. [users[r] EXCEPT !.at = "have"] \in
          [at : {"out", "wait", "have", "call", "release"}, client : Clients \union {NoClient}]
    BY PoolUser
  <2> QED BY <1>2, <2>1, <2>2, PoolUser
<1> QED BY <1>2, <1>3

LEMMA PoolHandshake ==
  ASSUME PoolTypeOK, PoolInv, NEW c \in Clients, Handshake(c)
  PROVE  PoolTypeOK' /\ PoolInv'
<1>0. UNCHANGED <<fixedPool, spawned, closing>> /\ clients[c].child = "alive"
  BY DEF Handshake
<1>1. PICK v \in {"list", "ready"} :
        /\ clients' = [clients EXCEPT ![c] = [clients[c] EXCEPT !.phase = v]]
        /\ clients[c].phase \in {"init", "list"}
        /\ v = "list" => UNCHANGED <<shared, pending, users>>
        /\ v = "ready" =>
             /\ shared' = (IF pooled THEN c ELSE shared) /\ pending' = (IF pooled THEN NoClient ELSE pending)
             /\ users' = [r \in Runs |-> IF users[r] = [at |-> "wait", client |-> c]
                                        THEN [users[r] EXCEPT !.at = "have"] ELSE users[r]]
  BY DEF Handshake
<1>2. clients[c] \in [child : {"none", "alive", "term", "gone"}, phase : Phases, disposed : BOOLEAN]
  BY DEF PoolTypeOK
<1>3. /\ clients'[c].phase = v /\ clients'[c].child = "alive" /\ clients[c].phase \in Connecting
      /\ \A d \in Clients : d # c => clients'[d] = clients[d]
      /\ \A d \in Clients : clients'[d].child = clients[d].child
      /\ clients' \in [Clients -> [child : {"none", "alive", "term", "gone"}, phase : Phases, disposed : BOOLEAN]]
  BY <1>0, <1>1, <1>2 DEF PoolTypeOK, Phases, Connecting
<1>4. c <= spawned /\ c # NoClient /\ c # shared
  BY <1>0, <1>3, McpPoolAssumption DEF PoolInv, PoolShape, ClientsAreBorn, Unborn, PoolTypeOK, Clients, Connecting
<1>5. ClientsAreBorn'
  BY <1>0, <1>3, <1>4 DEF PoolInv, ClientsAreBorn, Clients, PoolTypeOK
<1>6. CASE v = "list"
  <2>1. PoolTypeOK'
    BY <1>0, <1>1, <1>3, <1>6 DEF PoolTypeOK, fixedPool
  <2>2. PoolShape'
    BY <1>0, <1>1, <1>3, <1>4, <1>6 DEF PoolInv, PoolShape, Connecting, PoolTypeOK, fixedPool
  <2>3. UsersAreServed'
    BY <1>0, <1>1, <1>3, <1>6, PoolUser DEF PoolInv, UsersAreServed, Connecting, fixedPool
  <2>4. OwnersAreAlone' /\ ServersAreKept'
    BY <1>0, <1>1, <1>3, <1>6 DEF PoolInv, OwnersAreAlone, ServersAreKept, fixedPool
  <2> QED BY <1>5, <2>1, <2>2, <2>3, <2>4 DEF PoolInv
<1>7. CASE v = "ready"
  <2>1. /\ users' \in [Runs -> [at : {"out", "wait", "have", "call", "release"}, client : Clients \union {NoClient}]]
        /\ \A r \in Runs : IF users[r].at = "wait" /\ users[r].client = c
                           THEN users'[r].at = "have" /\ users'[r].client = c
                           ELSE users'[r] = users[r]
    <3>1. \A r \in Runs : users[r] = [at |-> "wait", client |-> c]
                              <=> users[r].at = "wait" /\ users[r].client = c
      BY PoolUser
    <3> QED BY <1>1, <1>7, <3>1, WaitersGet, PoolUser
  <2>2. PoolTypeOK'
    BY <1>0, <1>1, <1>3, <1>7, <2>1 DEF PoolTypeOK, fixedPool
  <2>3. PoolShape'
    BY <1>0, <1>1, <1>3, <1>4, <1>7 DEF PoolInv, PoolShape, Connecting, PoolTypeOK, fixedPool
  <2>4. ASSUME NEW r \in Runs
        PROVE  /\ users'[r].at = "out" <=> users'[r].client = NoClient
               /\ users'[r].at = "wait" => clients'[users'[r].client].phase \in Connecting
               /\ users'[r].at \in {"have", "call", "release"} => clients'[users'[r].client].phase = "ready"
               /\ users'[r].at = "call" => clients'[users'[r].client].child # "gone" \/ http'
    <3>1. CASE users[r].at = "wait" /\ users[r].client = c
      BY <1>3, <1>4, <1>7, <2>1, <3>1
    <3>2. CASE ~(users[r].at = "wait" /\ users[r].client = c)
      BY <1>0, <1>3, <1>7, <2>1, <3>2, PoolUser DEF PoolInv, UsersAreServed, fixedPool
    <3> QED BY <3>1, <3>2
  <2>5. UsersAreServed'
    BY <2>4 DEF UsersAreServed
  <2>6. \A r \in Runs : users'[r].client = users[r].client
    BY <2>1
  <2>7. OwnersAreAlone'
    BY <1>0, <2>6 DEF PoolInv, OwnersAreAlone, fixedPool
  <2>8. ServersAreKept'
    <3>1. pooled /\ ~closing => pending = c /\ shared = NoClient
      BY <1>3, <1>4 DEF PoolInv, PoolShape
    <3>2. pooled /\ ~closing => \A d \in Clients : clients[d].child = "alive" => d = c
      BY <3>1, McpPoolAssumption DEF PoolInv, ServersAreKept, Clients
    <3> QED BY <1>0, <1>1, <1>3, <1>7, <2>6, <3>2 DEF PoolInv, ServersAreKept, fixedPool
  <2> QED BY <1>5, <2>2, <2>3, <2>5, <2>7, <2>8 DEF PoolInv
<1> QED BY <1>6, <1>7

LEMMA PoolFails ==
  ASSUME PoolTypeOK, PoolInv, NEW c \in Clients, ConnectFails(c)
  PROVE  PoolTypeOK' /\ PoolInv'
<1>0. /\ UNCHANGED <<fixedPool, shared, spawned, closing>> /\ clients[c].child = "gone"
      /\ clients[c].phase = "aborted" /\ pending' = (IF pooled THEN NoClient ELSE pending)
      /\ users' = [r \in Runs |-> IF users[r] = [at |-> "wait", client |-> c] THEN AtRest ELSE users[r]]
      /\ clients' = [clients EXCEPT ![c] = [clients[c] EXCEPT !.phase = "failed"]]
  BY DEF ConnectFails
<1>2. clients[c] \in [child : {"none", "alive", "term", "gone"}, phase : Phases, disposed : BOOLEAN]
  BY DEF PoolTypeOK
<1>3. /\ clients'[c].phase = "failed" /\ clients[c].phase \in Connecting
      /\ \A d \in Clients : d # c => clients'[d] = clients[d]
      /\ clients'[c].child = "gone" /\ clients'[c].disposed = clients[c].disposed
      /\ clients' \in [Clients -> [child : {"none", "alive", "term", "gone"}, phase : Phases, disposed : BOOLEAN]]
  BY <1>0, <1>2 DEF PoolTypeOK, Phases, Connecting
<1>4. c <= spawned /\ c # NoClient /\ c # shared
  BY <1>0, <1>3, McpPoolAssumption DEF PoolInv, PoolShape, ClientsAreBorn, Unborn, PoolTypeOK, Clients, Connecting
<1>5. ClientsAreBorn'
  BY <1>0, <1>3, <1>4 DEF PoolInv, ClientsAreBorn, Clients, PoolTypeOK
<1>6. /\ users' \in [Runs -> [at : {"out", "wait", "have", "call", "release"}, client : Clients \union {NoClient}]]
      /\ \A r \in Runs : IF users[r].at = "wait" /\ users[r].client = c
                         THEN users'[r] = AtRest ELSE users'[r] = users[r]
  <2>1. \A r \in Runs : users[r] = [at |-> "wait", client |-> c]
                            <=> users[r].at = "wait" /\ users[r].client = c
    BY PoolUser
  <2>2. AtRest \in [at : {"out", "wait", "have", "call", "release"}, client : Clients \union {NoClient}]
    BY DEF AtRest
  <2>3. \A r \in Runs : users'[r] = IF users[r].at = "wait" /\ users[r].client = c THEN AtRest ELSE users[r]
    BY <1>0, <2>1
  <2> QED BY <1>0, <2>2, <2>3, PoolUser
<1>7. PoolTypeOK'
  BY <1>0, <1>3, <1>6 DEF PoolTypeOK, fixedPool
<1>8. PoolShape'
  BY <1>0, <1>3, <1>4 DEF PoolInv, PoolShape, Connecting, PoolTypeOK, fixedPool
<1>9. ASSUME NEW r \in Runs
      PROVE  /\ users'[r].at = "out" <=> users'[r].client = NoClient
             /\ users'[r].at = "wait" => clients'[users'[r].client].phase \in Connecting
             /\ users'[r].at \in {"have", "call", "release"} => clients'[users'[r].client].phase = "ready"
             /\ users'[r].at = "call" => clients'[users'[r].client].child # "gone" \/ http'
  <2>1. CASE users[r].at = "wait" /\ users[r].client = c
    BY <1>6, <2>1 DEF AtRest
  <2>2. CASE ~(users[r].at = "wait" /\ users[r].client = c)
    BY <1>0, <1>3, <1>6, <2>2, PoolUser DEF PoolInv, UsersAreServed, fixedPool
  <2> QED BY <2>1, <2>2
<1>10. UsersAreServed'
  BY <1>9 DEF UsersAreServed
<1>11. OwnersAreAlone'
  BY <1>0, <1>6 DEF PoolInv, OwnersAreAlone, fixedPool, AtRest
<1>12. ServersAreKept'
  <2>1. ASSUME NEW d \in Clients, clients'[d].child = "alive"
        PROVE  d # c /\ clients[d].child = "alive"
    BY <1>3, <2>1
  <2>2. pooled /\ ~closing => pending = c /\ shared = NoClient
    BY <1>3, <1>4 DEF PoolInv, PoolShape
  <2>3. \A r \in Runs, d \in Clients : d # c /\ users[r].client = d => users'[r].client = d
    BY <1>6
  <2> QED BY <1>0, <2>1, <2>2, <2>3, McpPoolAssumption DEF PoolInv, ServersAreKept, fixedPool, Clients
<1> QED BY <1>5, <1>7, <1>8, <1>10, <1>11, <1>12 DEF PoolInv

LEMMA PoolShutdown ==
  ASSUME PoolTypeOK, PoolInv, Shutdown
  PROVE  PoolTypeOK' /\ PoolInv'
<1>0. UNCHANGED <<fixedPool, users, spawned>> /\ closing' = TRUE /\ shared' = NoClient /\ pending' = NoClient
  BY DEF Shutdown
<1>1. ASSUME NEW d \in Clients
      PROVE  /\ clients'[d].phase = clients[d].phase
             /\ clients'[d].child = "alive" => clients[d].child = "alive"
             /\ clients'[d].child \in {"term", "gone"} => clients'[d].disposed
             /\ clients'[d].child = "gone" => http \/ clients[d].child = "gone"
             /\ d > spawned => clients'[d] = clients[d]
  <2>1. CASE shared = NoClient
    BY <2>1 DEF Shutdown, PoolInv, ClientsAreBorn
  <2>2. CASE shared # NoClient
    <3>1. shared \in Clients /\ clients' = Disconnected(shared, clients)
      BY <2>2 DEF Shutdown, PoolTypeOK
    <3>2. shared <= spawned
      BY <2>2, <3>1 DEF PoolInv, PoolShape, ClientsAreBorn, Unborn, PoolTypeOK, Clients
    <3>3. PICK c \in Clients : c = shared
      BY <3>1
    <3> QED BY <3>1, <3>2, <3>3, DisconnectedIs DEF PoolInv, ClientsAreBorn, PoolTypeOK, Clients
  <2> QED BY <2>1, <2>2
<1>2. clients' \in [Clients -> [child : {"none", "alive", "term", "gone"}, phase : Phases, disposed : BOOLEAN]]
  <2>1. shared # NoClient => shared \in Clients
    BY DEF PoolTypeOK
  <2> QED BY <2>1, DisconnectedIs DEF Shutdown, PoolTypeOK
<1>3. PoolTypeOK'
  BY <1>0, <1>2 DEF PoolTypeOK, fixedPool
<1>4. ClientsAreBorn' /\ PoolShape'
  BY <1>0, <1>1 DEF PoolInv, ClientsAreBorn, PoolShape, fixedPool
<1>5. UsersAreServed'
  BY <1>0, <1>1, PoolUser DEF PoolInv, UsersAreServed, fixedPool
<1>6. OwnersAreAlone' /\ ServersAreKept'
  BY <1>0, <1>1 DEF PoolInv, OwnersAreAlone, ServersAreKept, fixedPool
<1> QED BY <1>3, <1>4, <1>5, <1>6 DEF PoolInv

\* A run takes a client of which others already have the use.
LEMMA PoolJoins ==
  ASSUME PoolTypeOK, PoolInv, NEW r \in Runs, users[r].at = "out", pooled,
         UNCHANGED <<fixedPool, clients, shared, pending, spawned, closing>>,
         NEW a \in {"wait", "have"}, NEW c \in Clients,
         a = "wait" => c = pending, a = "have" => c = shared,
         users' = [users EXCEPT ![r] = [at |-> a, client |-> c]]
  PROVE  PoolTypeOK' /\ PoolInv'
<1>1. /\ users'[r].at = a /\ users'[r].client = c
      /\ \A q \in Runs : q # r => users'[q] = users[q]
      /\ users' \in [Runs -> [at : {"out", "wait", "have", "call", "release"}, client : Clients \union {NoClient}]]
  BY DEF PoolTypeOK
<1>2. PoolTypeOK'
  BY <1>1 DEF PoolTypeOK, fixedPool
<1>3. c # NoClient
  BY McpPoolAssumption DEF Clients
<1>4. ClientsAreBorn' /\ PoolShape'
  BY DEF PoolInv, ClientsAreBorn, PoolShape, fixedPool
<1>5. UsersAreServed'
  BY <1>1, <1>3 DEF PoolInv, UsersAreServed, PoolShape, fixedPool
<1>6. OwnersAreAlone' /\ ServersAreKept'
  BY DEF PoolInv, OwnersAreAlone, ServersAreKept, fixedPool
<1> QED BY <1>2, <1>4, <1>5, <1>6 DEF PoolInv

\* A run spawns a client, and drops the pool's, which is unhealthy.
LEMMA PoolSpawns ==
  ASSUME PoolTypeOK, PoolInv, NEW r \in Runs, users[r].at = "out",
         UNCHANGED <<fixedPool, closing>>,
         NEW dropped, dropped = IF pooled /\ shared # NoClient THEN Disconnected(shared, clients) ELSE clients,
         ~pooled \/ pending = NoClient, spawned < MaxClients, spawned' = spawned + 1,
         clients' = [dropped EXCEPT ![spawned'] = [child |-> "alive", phase |-> "init", disposed |-> FALSE]],
         pending' = (IF pooled THEN spawned' ELSE pending),
         shared' = (IF pooled THEN NoClient ELSE shared),
         users' = [users EXCEPT ![r] = [at |-> "wait", client |-> spawned']]
  PROVE  PoolTypeOK' /\ PoolInv'
<1>1. PICK n \in Clients : n = spawned'
  BY McpPoolAssumption DEF PoolTypeOK, Clients
<1>2. clients[n] = Unborn /\ n # NoClient /\ n # shared /\ spawned \in Nat /\ n = spawned + 1
  <2>1. clients[n] = Unborn /\ n # NoClient /\ spawned \in Nat /\ n = spawned + 1
    BY <1>1, McpPoolAssumption DEF PoolTypeOK, PoolInv, ClientsAreBorn, Clients
  <2> QED BY <2>1 DEF PoolInv, PoolShape, Unborn
<1>3. /\ dropped \in [Clients -> [child : {"none", "alive", "term", "gone"}, phase : Phases, disposed : BOOLEAN]]
      /\ \A d \in Clients :
           /\ dropped[d].phase = clients[d].phase
           /\ dropped[d].child = "alive" => clients[d].child = "alive" /\ (pooled => d # shared)
           /\ dropped[d].child \in {"term", "gone"} => dropped[d].disposed
           /\ dropped[d].child = "gone" => http \/ clients[d].child = "gone"
           /\ d > n => dropped[d] = clients[d]
  <2>1. CASE pooled /\ shared # NoClient
    <3>1. PICK c \in Clients : c = shared
      BY <2>1 DEF PoolTypeOK
    <3>2. c <= spawned
      BY <2>1, <3>1 DEF PoolInv, PoolShape, ClientsAreBorn, Unborn, PoolTypeOK, Clients
    <3>3. dropped = Disconnected(c, clients)
      BY <2>1, <3>1
    <3> QED BY <1>2, <2>1, <3>1, <3>2, <3>3, DisconnectedIs DEF PoolInv, ClientsAreBorn, PoolTypeOK, Clients
  <2>2. CASE ~(pooled /\ shared # NoClient)
    <3>1. dropped = clients /\ \A d \in Clients : pooled => d # shared
      BY <2>2, McpPoolAssumption DEF Clients
    <3> QED BY <3>1 DEF PoolTypeOK, PoolInv, ClientsAreBorn
  <2> QED BY <2>1, <2>2
<1>4. /\ clients' \in [Clients -> [child : {"none", "alive", "term", "gone"}, phase : Phases, disposed : BOOLEAN]]
      /\ clients'[n].phase = "init" /\ clients'[n].child = "alive"
      /\ \A d \in Clients : d # n => clients'[d] = dropped[d]
  BY <1>1, <1>3 DEF Phases
<1>5. /\ users'[r].at = "wait" /\ users'[r].client = n
      /\ \A q \in Runs : q # r => users'[q] = users[q]
      /\ users' \in [Runs -> [at : {"out", "wait", "have", "call", "release"}, client : Clients \union {NoClient}]]
  BY <1>1 DEF PoolTypeOK
<1>6. PoolTypeOK'
  BY <1>1, <1>2, <1>4, <1>5, McpPoolAssumption DEF PoolTypeOK, fixedPool
<1>7. \A q \in Runs : users[q].at # "out" => users[q].client \in Clients \ {n}
  BY <1>2, PoolUser DEF PoolInv, UsersAreServed, Unborn, Connecting
<1>8. ClientsAreBorn'
  <2> SUFFICES ASSUME NEW d \in Clients
               PROVE  /\ d > spawned' => clients'[d] = Unborn
                      /\ clients'[d].child \in {"term", "gone"} => clients'[d].disposed
    BY DEF ClientsAreBorn
  <2>1. CASE d = n
    BY <1>1, <1>4, <2>1 DEF Clients
  <2>2. CASE d # n
    BY <1>1, <1>2, <1>3, <1>4, <2>2 DEF PoolInv, ClientsAreBorn, Clients
  <2> QED BY <2>1, <2>2
<1>9. PoolShape'
  <2>1. clients'[n].phase \in Connecting
    BY <1>4 DEF Connecting
  <2>2. ~pooled => shared' = NoClient /\ pending' = NoClient
    BY DEF PoolInv, PoolShape
  <2>3. pooled => shared' = NoClient /\ pending' = n
    BY <1>1
  <2>4. pooled /\ ~closing => \A d \in Clients : clients'[d].phase \in Connecting => d = n
    BY <1>3, <1>4, McpPoolAssumption DEF PoolInv, PoolShape, Clients
  <2> QED BY <2>1, <2>2, <2>3, <2>4 DEF PoolShape, fixedPool
<1>10. UsersAreServed'
  <2> SUFFICES ASSUME NEW q \in Runs
               PROVE  /\ users'[q].at = "out" <=> users'[q].client = NoClient
                      /\ users'[q].at = "wait" => clients'[users'[q].client].phase \in Connecting
                      /\ users'[q].at \in {"have", "call", "release"} => clients'[users'[q].client].phase = "ready"
                      /\ users'[q].at = "call" => clients'[users'[q].client].child # "gone" \/ http'
    BY DEF UsersAreServed
  <2>1. CASE q = r
    BY <1>2, <1>4, <1>5, <2>1 DEF Connecting
  <2>2. CASE q # r
    BY <1>3, <1>4, <1>5, <1>7, <2>2, PoolUser DEF PoolInv, UsersAreServed, fixedPool
  <2> QED BY <2>1, <2>2
<1>11. OwnersAreAlone'
  <2>1. \A q \in Runs : users[q].client # n
    BY <1>2, <1>7, PoolUser DEF PoolInv, UsersAreServed
  <2> QED BY <1>5, <2>1 DEF PoolInv, OwnersAreAlone, fixedPool
<1>12. ServersAreKept'
  <2> SUFFICES ASSUME NEW d \in Clients, clients'[d].child = "alive"
               PROVE  /\ pooled' /\ ~closing' => d \in {shared', pending'}
                      /\ ~pooled' => \E q \in Runs : users'[q].client = d
    BY DEF ServersAreKept
  <2>1. CASE d = n
    BY <1>1, <1>5, <2>1 DEF fixedPool
  <2>2. CASE d # n
    <3>1. clients[d].child = "alive" /\ (pooled => d # shared)
      BY <1>3, <1>4, <2>2
    <3>2. pooled => closing
      BY <3>1, McpPoolAssumption DEF PoolInv, ServersAreKept, Clients
    <3>3. ASSUME ~pooled PROVE \E q \in Runs : users'[q].client = d
      <4>1. PICK q \in Runs : users[q].client = d
        BY <3>1, <3>3 DEF PoolInv, ServersAreKept
      <4>2. q # r
        BY <4>1, McpPoolAssumption DEF PoolInv, UsersAreServed, Clients
      <4> QED BY <1>5, <4>1, <4>2
    <3> QED BY <3>2, <3>3 DEF fixedPool
  <2> QED BY <2>1, <2>2
<1> QED BY <1>6, <1>8, <1>9, <1>10, <1>11, <1>12 DEF PoolInv

LEMMA PoolAcquire ==
  ASSUME PoolTypeOK, PoolInv, NEW r \in Runs, Acquire(r)
  PROVE  PoolTypeOK' /\ PoolInv'
<1> DEFINE dropped == IF pooled /\ shared # NoClient THEN Disconnected(shared, clients) ELSE clients
<1>0. users[r].at = "out" /\ UNCHANGED <<fixedPool, closing>>
  BY DEF Acquire
<1>1. CASE /\ pooled /\ shared # NoClient
           /\ users' = [users EXCEPT ![r] = [at |-> "have", client |-> shared]]
           /\ UNCHANGED <<clients, shared, pending, spawned>>
  <2>1. shared \in Clients
    BY <1>1 DEF PoolTypeOK
  <2> QED BY <1>0, <1>1, <2>1, PoolJoins
<1>2. CASE /\ pooled /\ pending # NoClient /\ clients' = dropped
           /\ users' = [users EXCEPT ![r] = [at |-> "wait", client |-> pending]]
           /\ UNCHANGED <<pending, spawned>> /\ shared' = IF pooled THEN NoClient ELSE shared
  <2>1. pending \in Clients /\ shared = NoClient /\ shared' = shared /\ clients' = clients
    BY <1>2 DEF PoolTypeOK, PoolInv, PoolShape
  <2> QED BY <1>0, <1>2, <2>1, PoolJoins
<1>3. CASE /\ ~pooled \/ pending = NoClient
           /\ spawned < MaxClients /\ spawned' = spawned + 1
           /\ clients' = [dropped EXCEPT ![spawned'] =
                            [child |-> "alive", phase |-> "init", disposed |-> FALSE]]
           /\ pending' = (IF pooled THEN spawned' ELSE pending)
           /\ users' = [users EXCEPT ![r] = [at |-> "wait", client |-> spawned']]
           /\ shared' = IF pooled THEN NoClient ELSE shared
  <2>1. PICK left : left = dropped
    OBVIOUS
  <2> HIDE DEF dropped
  <2>2. clients' = [left EXCEPT ![spawned'] = [child |-> "alive", phase |-> "init", disposed |-> FALSE]]
    BY <1>3, <2>1
  <2>3. left = IF pooled /\ shared # NoClient THEN Disconnected(shared, clients) ELSE clients
    BY <2>1 DEF dropped
  <2> QED BY <1>0, <1>3, <2>2, <2>3, PoolSpawns
<1> QED BY <1>1, <1>2, <1>3 DEF Acquire

\* Until the pool is shut down, a server that runs is the pool's, or the one run's
\* that holds it; and no call and no connection waits for a child that is gone
\* (acquire, the slots of pool.ts, and the rejections in client.ts).
THEOREM PoolStaysSound == PoolSpec => []PoolIsSound
<1>1. PoolInit => PoolTypeOK /\ PoolInv
  <2> SUFFICES ASSUME PoolInit PROVE PoolTypeOK /\ PoolInv
    OBVIOUS
  <2>1. Unborn \in [child : {"none", "alive", "term", "gone"}, phase : Phases, disposed : BOOLEAN]
        /\ Unborn.child = "none" /\ Unborn.phase = "none"
    BY DEF Unborn, Phases
  <2>2. AtRest \in [at : {"out", "wait", "have", "call", "release"}, client : Clients \union {NoClient}]
        /\ AtRest.at = "out" /\ AtRest.client = NoClient
    BY DEF AtRest
  <2>3. PoolTypeOK
    <3>1. users \in [Runs -> [at : {"out", "wait", "have", "call", "release"}, client : Clients \union {NoClient}]]
      BY <2>2 DEF PoolInit
    <3>2. clients \in [Clients -> [child : {"none", "alive", "term", "gone"}, phase : Phases, disposed : BOOLEAN]]
      BY <2>1 DEF PoolInit
    <3>3. spawned \in 0..MaxClients
      BY McpPoolAssumption DEF PoolInit
    <3> QED BY <3>1, <3>2, <3>3 DEF PoolInit, PoolTypeOK
  <2>4. ClientsAreBorn /\ ServersAreKept
    BY <2>1 DEF PoolInit, ClientsAreBorn, ServersAreKept
  <2>5. PoolShape /\ UsersAreServed /\ OwnersAreAlone
    BY <2>1, <2>2 DEF PoolInit, PoolShape, UsersAreServed, OwnersAreAlone, Connecting
  <2> QED BY <2>3, <2>4, <2>5 DEF PoolInv
<1>2. PoolTypeOK /\ PoolInv /\ [PoolNext]_poolVars => PoolTypeOK' /\ PoolInv'
  <2> SUFFICES ASSUME PoolTypeOK, PoolInv, [PoolNext]_poolVars PROVE PoolTypeOK' /\ PoolInv'
    OBVIOUS
  <2>1. CASE UNCHANGED poolVars
    BY <2>1 DEF poolVars, PoolTypeOK, PoolInv, ClientsAreBorn, PoolShape, UsersAreServed,
                OwnersAreAlone, ServersAreKept
  <2>2. CASE PoolNext
    BY <2>2, PoolCalls, PoolReleases, PoolAbort, PoolEnds, PoolHandshake, PoolFails, PoolShutdown,
       PoolAcquire DEF PoolNext, ClientStep, RunStep
  <2> QED BY <2>1, <2>2
<1>3. PoolTypeOK /\ PoolInv => PoolIsSound
  <2> SUFFICES ASSUME PoolTypeOK, PoolInv PROVE PoolIsSound
    OBVIOUS
  <2>1. ~closing /\ pooled => Alive \subseteq {shared, pending}
    BY DEF Alive, PoolInv, ServersAreKept
  <2>2. ASSUME ~pooled, NEW c \in Alive
        PROVE  Cardinality({r \in Runs : users[r].client = c}) = 1
    <3>1. c \in Clients /\ c # NoClient /\ clients[c].child = "alive"
      BY McpPoolAssumption DEF Alive, Clients
    <3>2. PICK r \in Runs : users[r].client = c
      BY <2>2, <3>1 DEF PoolInv, ServersAreKept
    <3>3. {q \in Runs : users[q].client = c} = {r}
      BY <2>2, <3>1, <3>2 DEF PoolInv, OwnersAreAlone
    <3> QED BY <3>3, FS_Singleton
  <2>3. ASSUME NEW r \in Runs
        PROVE  /\ users[r].at = "call" => clients[users[r].client].child # "gone" \/ http
               /\ users[r].at = "wait" => clients[users[r].client].phase \in {"init", "list", "aborted"}
               /\ users[r].at \in {"have", "call"} => clients[users[r].client].phase = "ready"
    BY DEF PoolInv, UsersAreServed, Connecting
  <2> QED BY <2>1, <2>2, <2>3 DEF PoolIsSound
<1> QED BY <1>1, <1>2, <1>3, PTL DEF PoolSpec

-----------------------------------------------------------------------------
(* The inbound dispatcher *)

InboundTyped ==
  /\ InboundTypeOK /\ faults \in Nat /\ hits \in [Drawer -> Nat]
  /\ waiting \in [Drawer -> SUBSET Waiter] /\ owed \in [Drawer -> SUBSET Trigger]

\* A tick has a drawer in hand, and in front of it written drawers without rows.
TickIsSound ==
  /\ tick.pc \in {"idle", "load"} <=> tick.d = None
  /\ tick.pc = "idle" => tick.pending = {}
  /\ tick.d \notin tick.pending
  /\ \A d \in Drawer : at[d] = 0 => rows[d] = {} /\ tick.d # d /\ d \notin tick.pending
  /\ \A d \in tick.pending : rows[d] = {}

\* d may still get a run of t: it was not looked at, or t is left of its fan-out.
Due(d, t) ==
  IF tick.d = d
  THEN \/ tick.pc \in {"scan", "answer"}
       \/ t \in tick.todo /\ ~(tick.pc \in {"record", "catch"} /\ t = tick.t)
  ELSE rows[d] = {}

\* A run before the last attempt needs a fault; without one, the subscribers
\* that were gone through have one run each.
FanOutIsCounted(d) ==
  /\ \A t \in Trigger : jobs[d][t] <= 1 + hits[d]
  /\ \A t \in Trigger : Due(d, t) => jobs[d][t] <= hits[d]
  /\ \A t \in Trigger : <<t, "dispatched">> \in rows[d] => jobs[d][t] > 0
  /\ tick.d = d /\ tick.pc \in {"fan", "record", "catch"} => owed[d] = Subscribers(d)
  /\ tick.d = d /\ tick.pc \in {"record", "catch"} => tick.t \in tick.todo
  /\ tick.d = d /\ tick.pc = "record" => jobs[d][tick.t] > 0
  /\ tick.d = d /\ tick.pc = "catch" => hits[d] > 0
  /\ tick.d = d /\ tick.pc \in {"fan", "record"} /\ hits[d] = 0
       => \A t \in owed[d] \ tick.todo : jobs[d][t] = 1
  /\ tick.d # d /\ rows[d] # {} /\ hits[d] = 0 => \A t \in owed[d] : jobs[d][t] = 1

\* Waiters are known by their place, and an open one has no answer; so has the
\* one at the front when its signal was cleared.
WaitersAreKept ==
  /\ \A w \in Waiter : since[w] <= Count(since)
  /\ \A v, w \in Waiter : since[v] = since[w] /\ since[v] # 0 => v = w
  /\ \A w \in open : since[w] # 0 /\ answers[w] = {}
  /\ \A w \in tick.opens \union tick.scan : since[w] # 0
  /\ \A w \in Waiter : answers[w] # {} => since[w] # 0
  /\ \A w \in Waiter : \A d, e \in answers[w] : d = e
  /\ tick.pc = "answer" => tick.scan # {}
  /\ tick.pc = "answer" => \A w \in Waiter : FirstWaiter(w) => w \notin open /\ answers[w] = {}

Answered(d) == {w \in Waiter : d \in answers[w]}

\* The waiters of d may still be asked.
Asking(d) == IF tick.d = d THEN tick.pc \in {"scan", "answer"} /\ tick.scan # {}
             ELSE rows[d] = {}

\* Where the waiters are that a drawer without an answer may be for.
Listening(d) ==
  IF tick.d = d THEN IF tick.pc \in {"scan", "answer"} THEN tick.scan ELSE {}
  ELSE IF d \in tick.pending /\ tick.pc # "load" THEN tick.opens
  ELSE IF rows[d] # {} THEN {} ELSE Waiter

\* An answer more than one needs a fault; without one, who listened when d
\* arrived is asked, until somebody takes it.
DrawerIsOffered(d) ==
  /\ Cardinality(Answered(d)) <= 1 + hits[d]
  /\ Asking(d) => Cardinality(Answered(d)) <= hits[d]
  /\ \A w \in waiting[d] : since[w] # 0 /\ d \in Matches[w]
  /\ hits[d] = 0 /\ Answered(d) = {} => waiting[d] \cap open \subseteq late \union Listening(d)

InboundInv ==
  /\ TickIsSound /\ WaitersAreKept
  /\ \A d \in Drawer : FanOutIsCounted(d) /\ DrawerIsOffered(d)

\* What the polls and the faults leave alone.
LEMMA NextIs ==
  ASSUME InboundTyped, NEW k, k.pending \in SUBSET Drawer
  PROVE  \/ k.pending = {} /\ NextDrawer(k) = Idle
         \/ \E d \in k.pending :
              NextDrawer(k) = [k EXCEPT !.pc = "scan", !.d = d, !.pending = @ \ {d},
                                        !.scan = {w \in k.opens : d \in Matches[w]}]
<1>1. CASE k.pending = {}
  BY <1>1 DEF NextDrawer
<1>2. CASE k.pending # {}
  <2> DEFINE P == {at[e] : e \in k.pending}
  <2>1. P \in SUBSET Nat /\ P # {}
    BY <1>2 DEF InboundTyped, InboundTypeOK
  <2>2. PICK m \in P : \A n \in P : m <= n
    <3> HIDE DEF P
    <3> QED BY <2>1, NatMin
  <2>3. \E e \in k.pending : \A x \in k.pending : at[e] <= at[x]
    BY <2>2
  <2> DEFINE d == CHOOSE e \in k.pending : \A x \in k.pending : at[e] <= at[x]
  <2>4. d \in k.pending
    BY <2>3
  <2>5. NextDrawer(k) = [k EXCEPT !.pc = "scan", !.d = d, !.pending = @ \ {d},
                                  !.scan = {w \in k.opens : d \in Matches[w]}]
    BY <1>2 DEF NextDrawer
  <2> QED BY <2>4, <2>5
<1> QED BY <1>1, <1>2

LEMMA FaultIs ==
  ASSUME InboundTyped, NEW e \in Drawer \union {None}, Fault(e)
  PROVE  /\ faults' \in Nat /\ hits' \in [Drawer -> Nat]
         /\ \A d \in Drawer : hits'[d] = IF d = e THEN hits[d] + 1 ELSE hits[d]
BY InboundDispatchAssumption DEF Fault, InboundTyped

LEMMA CountIsNat ==
  ASSUME NEW S, IsFiniteSet(S), NEW f \in [S -> Nat]
  PROVE  Count(f) \in Nat
<1>1. {x \in S : f[x] > 0} \subseteq S /\ DOMAIN f = S
  OBVIOUS
<1> QED BY <1>1, FS_Subset, FS_CardinalityType DEF Count

Ticks == [pc : {"idle", "load", "scan", "answer", "fan", "record", "catch"},
          pending : SUBSET Drawer, opens : SUBSET Waiter, trigs : SUBSET Trigger,
          d : Drawer \union {None}, scan : SUBSET Waiter, todo : SUBSET Trigger,
          t : Trigger \union {None}]

LEMMA MovesAreTicks ==
  ASSUME InboundTyped, NEW k \in Ticks
  PROVE  NextDrawer(k) \in Ticks
<1>1. k.pending \in SUBSET Drawer /\ k.opens \in SUBSET Waiter
  BY DEF Ticks
<1>2. Idle \in Ticks
  BY DEF Idle, Ticks
<1>3. ASSUME NEW d \in k.pending
      PROVE  [k EXCEPT !.pc = "scan", !.d = d, !.pending = @ \ {d},
                       !.scan = {w \in k.opens : d \in Matches[w]}] \in Ticks
  BY <1>1 DEF Ticks
<1>4. CASE k.pending = {} /\ NextDrawer(k) = Idle
  BY <1>2, <1>4
<1>5. CASE \E d \in k.pending :
             NextDrawer(k) = [k EXCEPT !.pc = "scan", !.d = d, !.pending = @ \ {d},
                                       !.scan = {w \in k.opens : d \in Matches[w]}]
  <2>1. PICK d \in k.pending :
             NextDrawer(k) = [k EXCEPT !.pc = "scan", !.d = d, !.pending = @ \ {d},
                                       !.scan = {w \in k.opens : d \in Matches[w]}]
    BY <1>5
  <2> QED BY <1>3, <2>1
<1>6. \/ k.pending = {} /\ NextDrawer(k) = Idle
      \/ \E d \in k.pending :
             NextDrawer(k) = [k EXCEPT !.pc = "scan", !.d = d, !.pending = @ \ {d},
                                       !.scan = {w \in k.opens : d \in Matches[w]}]
  BY <1>1, NextIs
<1> QED BY <1>4, <1>5, <1>6

LEMMA InHand ==
  ASSUME InboundTyped, TickIsSound, tick.pc \notin {"idle", "load"}
  PROVE  tick.d \in Drawer /\ tick.d # None
<1>1. tick.d \in Drawer \union {None}
  BY DEF InboundTyped, InboundTypeOK
<1> QED BY <1>1 DEF TickIsSound

LEMMA RowsGrow ==
  ASSUME InboundTyped, NEW d \in Drawer, NEW t \in Trigger \union {None}, NEW s \in Statuses
  PROVE  /\ AddRow(d, t, s) \in SUBSET ((Trigger \union {None}) \X Statuses)
         /\ AddRow(d, t, s) # {}
         /\ \A r \in AddRow(d, t, s) : r \in rows[d] \/ r = <<t, s>>
         /\ rows[d] \subseteq AddRow(d, t, s)
<1>1. rows[d] \in SUBSET ((Trigger \union {None}) \X Statuses)
  BY DEF InboundTyped, InboundTypeOK
<1>2. <<t, s>> \in (Trigger \union {None}) \X Statuses
  OBVIOUS
<1> QED BY <1>1, <1>2 DEF AddRow

LEMMA InboundTypesNext ==
  ASSUME InboundTyped, TickIsSound, [InboundNext]_inboundVars
  PROVE  InboundTyped'
<1>1. /\ manifests \subseteq Trigger /\ index \subseteq SUBSET Trigger
      /\ at \in [Drawer -> Nat] /\ jobs \in [Drawer -> [Trigger -> Nat]]
      /\ rows \in [Drawer -> SUBSET ((Trigger \union {None}) \X Statuses)]
      /\ since \in [Waiter -> Nat] /\ answers \in [Waiter -> SUBSET Drawer]
      /\ open \subseteq Waiter /\ late \subseteq Waiter
      /\ held \subseteq Waiter /\ cancelling \subseteq Waiter /\ tick \in Ticks
      /\ faults \in Nat /\ hits \in [Drawer -> Nat]
      /\ waiting \in [Drawer -> SUBSET Waiter] /\ owed \in [Drawer -> SUBSET Trigger]
  BY DEF InboundTyped, InboundTypeOK, Ticks
<1>2. tick.d \in Drawer \union {None} /\ Idle \in Ticks /\ tick.scan \subseteq Waiter
  BY <1>1 DEF Ticks, Idle
<1>3. \A e \in Drawer \union {None} : Fault(e) => faults' \in Nat /\ hits' \in [Drawer -> Nat]
  BY FaultIs
<1>4. NoFault => faults' \in Nat /\ hits' \in [Drawer -> Nat]
  BY <1>1 DEF NoFault
<1>5. NextDrawer(tick) \in Ticks
  BY <1>1, MovesAreTicks
<1>6. ASSUME NEW d \in Drawer, WriteDrawer(d) PROVE InboundTyped'
  <2>1. Count(at) + 1 \in Nat
    BY <1>1, CountIsNat, InboundDispatchAssumption
  <2> QED BY <1>1, <1>4, <1>6, <2>1
          DEF WriteDrawer, InboundTyped, InboundTypeOK, files, waiters, Ticks
<1>7. ASSUME NEW t \in Trigger, EditManifests(t) PROVE InboundTyped'
  BY <1>1, <1>4, <1>7 DEF EditManifests, InboundTyped, InboundTypeOK, waiters, Ticks
<1>8. CASE IndexExpires
  BY <1>1, <1>4, <1>8 DEF IndexExpires, InboundTyped, InboundTypeOK, waiters, Ticks
<1>9. ASSUME NEW w \in Waiter, Register(w) PROVE InboundTyped'
  <2>1. Count(since) + 1 \in Nat
    BY <1>1, CountIsNat, InboundDispatchAssumption
  <2>2. faults' \in Nat /\ hits' \in [Drawer -> Nat]
    BY <1>3, <1>4, <1>9 DEF Register
  <2> QED BY <1>1, <1>9, <2>1, <2>2 DEF Register, InboundTyped, InboundTypeOK, files, Ticks
<1>10. ASSUME NEW w \in Waiter, Late(w) \/ CancelReads(w) \/ CancelWrites(w) PROVE InboundTyped'
  BY <1>1, <1>4, <1>10
     DEF Late, CancelReads, CancelWrites, InboundTyped, InboundTypeOK, files, Ticks
<1>11. CASE Poll
  <2>1. index' \subseteq SUBSET Trigger
    BY <1>1, <1>11 DEF Poll
  <2> DEFINE batch == Oldest(BatchSize, {d \in Drawer : Unseen(d)})
  <2>2. batch \in SUBSET Drawer
    BY DEF Oldest
  <2>3. [Idle EXCEPT !.pc = "load", !.pending = batch, !.trigs = UNION index'] \in Ticks
    BY <2>1, <2>2 DEF Idle, Ticks
  <2>4. tick' \in Ticks
    BY <1>2, <1>11, <2>3 DEF Poll
  <2> QED BY <1>1, <1>4, <1>11, <2>1, <2>4
          DEF Poll, InboundTyped, InboundTypeOK, waiters, Ticks
<1>12. CASE LoadOpen
  <2>1. [tick EXCEPT !.opens = open] \in Ticks
    BY <1>1 DEF Ticks
  <2>2. tick' \in Ticks
    BY <1>12, <2>1, MovesAreTicks DEF LoadOpen
  <2> QED BY <1>1, <1>4, <1>12, <2>2 DEF LoadOpen, InboundTyped, InboundTypeOK, files, waiters, Ticks
<1>13. ASSUME NEW w \in Waiter, TryResolve(w) PROVE InboundTyped'
  <2>1. tick' \in Ticks
    BY <1>1, <1>13 DEF TryResolve, Ticks
  <2> QED BY <1>1, <1>4, <1>13, <2>1 DEF TryResolve, InboundTyped, InboundTypeOK, files, Ticks
<1>14. ASSUME NEW w \in Waiter, NotResolved(w) \/ MatchAborts(w) PROVE InboundTyped'
  <2>1. tick' \in Ticks
    <3>1. tick' = [tick EXCEPT !.scan = tick.scan \ {w}] \/ tick' = [tick EXCEPT !.scan = {}]
      BY <1>14 DEF NotResolved, MatchAborts
    <3>2. \A S \in SUBSET Waiter : [tick EXCEPT !.scan = S] \in Ticks
      BY <1>1 DEF Ticks
    <3> QED BY <1>2, <3>1, <3>2
  <2>2. faults' \in Nat /\ hits' \in [Drawer -> Nat]
    BY <1>2, <1>3, <1>4, <1>14 DEF NotResolved, MatchAborts
  <2> QED BY <1>1, <1>14, <2>1, <2>2
          DEF NotResolved, MatchAborts, InboundTyped, InboundTypeOK, files, waiters, Ticks
<1>15. ASSUME NEW w \in Waiter, Answer(w) PROVE InboundTyped'
  <2>1. tick' \in Ticks
    <3>1. \/ tick' = [tick EXCEPT !.pc = "scan", !.scan = {}]
          \/ tick' = [tick EXCEPT !.pc = "scan", !.scan = tick.scan \ {w}]
      BY <1>15 DEF Answer, RestOfScan
    <3>2. \A S \in SUBSET Waiter : [tick EXCEPT !.pc = "scan", !.scan = S] \in Ticks
      BY <1>1 DEF Ticks
    <3> QED BY <1>2, <3>1, <3>2
  <2>2. faults' \in Nat /\ hits' \in [Drawer -> Nat]
    BY <1>2, <1>3, <1>4, <1>15 DEF Answer
  <2>3. tick.d \in Drawer
    BY <1>15, InHand DEF Answer
  <2>4. answers' \in [Waiter -> SUBSET Drawer]
    BY <1>1, <1>15, <2>3 DEF Answer
  <2> QED BY <1>1, <1>15, <2>1, <2>2, <2>4 DEF Answer, InboundTyped, InboundTypeOK, files, Ticks
<1>16. CASE StartFanOut
  <2>1. tick.d \in Drawer /\ Subscribers(tick.d) \in SUBSET Trigger
    BY <1>1, <1>16, InHand DEF StartFanOut, Subscribers, Ticks
  <2>2. tick' \in Ticks /\ owed' \in [Drawer -> SUBSET Trigger]
    BY <1>1, <1>16, <2>1 DEF StartFanOut, Ticks
  <2> QED BY <1>1, <1>4, <1>16, <2>2
          DEF StartFanOut, InboundTyped, InboundTypeOK, files, waiters, Ticks
<1>17. ASSUME NEW t \in Trigger \union {None}, NEW s \in Statuses, tick.d \in Drawer,
              rows' \in {rows, [rows EXCEPT ![tick.d] = AddRow(tick.d, t, s)]}
       PROVE  rows' \in [Drawer -> SUBSET ((Trigger \union {None}) \X Statuses)]
  <2>1. AddRow(tick.d, t, s) \in SUBSET ((Trigger \union {None}) \X Statuses)
    BY <1>17, RowsGrow
  <2> DEFINE R == SUBSET ((Trigger \union {None}) \X Statuses)
  <2>2. rows \in [Drawer -> R] /\ AddRow(tick.d, t, s) \in R
    BY <1>1, <2>1
  <2> HIDE DEF R
  <2>3. rows' \in [Drawer -> R]
    BY <1>17, <2>2
  <2> QED BY <2>3 DEF R
<1>18. CASE NoSubscriber
  <2>1. tick.d \in Drawer
    BY <1>18, InHand DEF NoSubscriber
  <2>2. rows' \in [Drawer -> SUBSET ((Trigger \union {None}) \X Statuses)]
    BY <1>17, <1>18, <2>1 DEF NoSubscriber, Statuses
  <2>3. tick' \in Ticks
    BY <1>2, <1>5, <1>18 DEF NoSubscriber
  <2>4. faults' \in Nat /\ hits' \in [Drawer -> Nat]
    BY <1>2, <1>3, <1>4, <1>18 DEF NoSubscriber
  <2> QED BY <1>1, <1>18, <2>2, <2>3, <2>4
          DEF NoSubscriber, InboundTyped, InboundTypeOK, files, waiters, Ticks
<1>19. ASSUME NEW t \in Trigger, Enqueue(t) PROVE InboundTyped'
  <2>1. tick.d \in Drawer
    BY <1>19, InHand DEF Enqueue
  <2>2. [jobs EXCEPT ![tick.d][t] = @ + 1] \in [Drawer -> [Trigger -> Nat]]
    BY <1>1, <2>1
  <2>3. jobs' \in [Drawer -> [Trigger -> Nat]]
    BY <1>1, <1>19, <2>2 DEF Enqueue
  <2>4. tick' \in Ticks
    <3>1. \/ tick' = [tick EXCEPT !.pc = "record", !.t = t]
          \/ tick' = [tick EXCEPT !.pc = "catch", !.t = t]
      BY <1>19 DEF Enqueue
    <3>2. \A p \in {"record", "catch"} : [tick EXCEPT !.pc = p, !.t = t] \in Ticks
      BY <1>1 DEF Ticks
    <3> QED BY <3>1, <3>2
  <2>5. faults' \in Nat /\ hits' \in [Drawer -> Nat]
    BY <1>2, <1>3, <1>4, <1>19 DEF Enqueue
  <2> QED BY <1>1, <1>19, <2>3, <2>4, <2>5
          DEF Enqueue, InboundTyped, InboundTypeOK, files, waiters, Ticks
<1>20. CASE Record \/ RecordFailed
  <2>1. tick.d \in Drawer /\ tick.t \in Trigger \union {None}
    BY <1>1, <1>20, InHand DEF Record, RecordFailed, Ticks
  <2>2. rows' \in [Drawer -> SUBSET ((Trigger \union {None}) \X Statuses)]
    BY <1>17, <1>20, <2>1 DEF Record, RecordFailed, Statuses
  <2>3. SubscriberDone \in Ticks /\ [tick EXCEPT !.pc = "catch"] \in Ticks
    BY <1>1, <1>5 DEF SubscriberDone, Ticks
  <2>4. tick' \in Ticks
    BY <1>2, <1>20, <2>3 DEF Record, RecordFailed
  <2>5. faults' \in Nat /\ hits' \in [Drawer -> Nat]
    BY <1>2, <1>3, <1>4, <1>20 DEF Record, RecordFailed
  <2> QED BY <1>1, <1>20, <2>2, <2>4, <2>5
          DEF Record, RecordFailed, InboundTyped, InboundTypeOK, files, waiters, Ticks
<1>21. CASE Crash
  <2>1. faults' \in Nat /\ hits' \in [Drawer -> Nat]
    BY <1>2, <1>3, <1>21 DEF Crash
  <2> QED BY <1>1, <1>2, <1>21, <2>1 DEF Crash, InboundTyped, InboundTypeOK, waiters, Ticks
<1>22. CASE UNCHANGED inboundVars
  BY <1>1, <1>22 DEF inboundVars, InboundTyped, InboundTypeOK, files, waiters, Ticks
<1> QED BY <1>6, <1>7, <1>8, <1>9, <1>10, <1>11, <1>12, <1>13, <1>14, <1>15, <1>16, <1>18,
           <1>19, <1>20, <1>21, <1>22
        DEF InboundNext, World, Dispatch, Match

\* Where a drawer is stays as it is, or a tick takes it or lets it go.
Taken(d) == tick.d # d /\ tick'.d = d /\ tick'.pc = "scan" /\ rows[d] = {}

\* Steps that do not work on a drawer leave its fan-out as it is.
LEMMA FanFrame ==
  ASSUME InboundTyped, InboundTyped', NEW d \in Drawer, FanOutIsCounted(d),
         rows'[d] = rows[d], jobs'[d] = jobs[d], owed'[d] = owed[d],
         \/ tick' = tick /\ hits'[d] = hits[d]
         \/ tick.d # d /\ tick'.d # d /\ hits'[d] = hits[d]
         \/ Taken(d) /\ hits'[d] = hits[d]
         \/ /\ tick.d = d /\ tick'.d = d /\ hits'[d] >= hits[d]
            /\ tick.pc \in {"scan", "answer"} /\ tick'.pc \in {"scan", "answer"}
  PROVE  FanOutIsCounted(d)'
<1>1. /\ hits[d] \in Nat /\ hits'[d] \in Nat
      /\ \A t \in Trigger : jobs[d][t] \in Nat /\ jobs'[d][t] \in Nat
  BY DEF InboundTyped, InboundTypeOK
<1>2. CASE tick' = tick /\ hits'[d] = hits[d]
  BY <1>2 DEF FanOutIsCounted, Due, Subscribers
<1>3. CASE tick.d # d /\ tick'.d # d /\ hits'[d] = hits[d]
  BY <1>3 DEF FanOutIsCounted, Due
<1>4. CASE Taken(d) /\ hits'[d] = hits[d]
  BY <1>4 DEF FanOutIsCounted, Due, Taken
<1>5. CASE /\ tick.d = d /\ tick'.d = d /\ hits'[d] >= hits[d]
           /\ tick.pc \in {"scan", "answer"} /\ tick'.pc \in {"scan", "answer"}
  <2>1. \A t \in Trigger : jobs[d][t] <= hits[d]
    BY <1>5 DEF FanOutIsCounted, Due
  <2>2. \A t \in Trigger : jobs'[d][t] <= hits'[d] /\ jobs'[d][t] <= 1 + hits'[d]
    BY <1>1, <1>5, <2>1
  <2>3. \A t \in Trigger : <<t, "dispatched">> \in rows'[d] => jobs'[d][t] > 0
    BY DEF FanOutIsCounted
  <2> QED BY <1>5, <2>2, <2>3 DEF FanOutIsCounted
<1> QED BY <1>2, <1>3, <1>4, <1>5

\* A fault while the drawer is in hand pays for what was begun.
LEMMA FanFaults ==
  ASSUME InboundTyped, InboundTyped', NEW d \in Drawer, FanOutIsCounted(d),
         jobs'[d] = jobs[d], tick'.d # d, hits'[d] = hits[d] + 1,
         \A t \in Trigger : <<t, "dispatched">> \in rows'[d] => jobs[d][t] > 0
  PROVE  FanOutIsCounted(d)'
<1>1. /\ hits[d] \in Nat /\ \A t \in Trigger : jobs[d][t] \in Nat
  BY DEF InboundTyped, InboundTypeOK
<1>2. \A t \in Trigger : jobs[d][t] <= 1 + hits[d]
  BY DEF FanOutIsCounted
<1>3. \A t \in Trigger : jobs'[d][t] <= hits'[d] /\ jobs'[d][t] <= 1 + hits'[d]
  BY <1>1, <1>2
<1>4. hits'[d] # 0
  BY <1>1
<1> QED BY <1>3, <1>4 DEF FanOutIsCounted

\* What a drawer is offered stays accounted for as long as its answers stay.
LEMMA OfferFrame ==
  ASSUME InboundTyped, InboundTyped', NEW d \in Drawer, DrawerIsOffered(d),
         waiting'[d] = waiting[d], hits'[d] >= hits[d],
         \A w \in Waiter : d \in answers'[w] <=> d \in answers[w],
         \A w \in waiting[d] : since[w] # 0 => since'[w] # 0,
         waiting[d] \cap open' \subseteq open, late \subseteq late',
         Asking(d)' => Asking(d) \/ hits'[d] > hits[d],
         hits'[d] = 0 => waiting[d] \cap open' \cap Listening(d) \subseteq late' \union Listening(d)'
  PROVE  DrawerIsOffered(d)'
<1>1. Answered(d)' = Answered(d) /\ IsFiniteSet(Answered(d))
  BY FS_Subset, InboundDispatchAssumption DEF Answered
<1>2. PICK n \in Nat : n = Cardinality(Answered(d)) /\ n = Cardinality(Answered(d)')
  BY <1>1, FS_CardinalityType
<1>3. hits[d] \in Nat /\ hits'[d] \in Nat
  BY DEF InboundTyped
<1>4. n <= 1 + hits[d] /\ (Asking(d) => n <= hits[d])
  BY <1>2 DEF DrawerIsOffered
<1>5. n <= 1 + hits'[d] /\ (Asking(d)' => n <= hits'[d])
  BY <1>3, <1>4
<1>6. \A w \in waiting'[d] : since'[w] # 0 /\ d \in Matches[w]
  BY DEF DrawerIsOffered
<1>7. hits'[d] = 0 /\ Answered(d)' = {} => waiting'[d] \cap open' \subseteq late' \union Listening(d)'
  <2>1. SUFFICES ASSUME hits'[d] = 0, Answered(d)' = {}, NEW w \in waiting[d] \cap open', w \notin late'
                 PROVE  w \in Listening(d)'
    OBVIOUS
  <2>2. hits[d] = 0 /\ Answered(d) = {}
    BY <1>1, <1>3, <2>1
  <2>3. w \in Listening(d)
    BY <2>1, <2>2 DEF DrawerIsOffered
  <2> QED BY <2>1, <2>3
<1> QED BY <1>2, <1>5, <1>6, <1>7 DEF DrawerIsOffered

\* How a tick goes on that has a drawer in hand: with it, with another, or not.
Onward ==
  \/ /\ tick'.d = tick.d /\ tick'.pending = tick.pending /\ tick'.opens = tick.opens
     /\ tick'.pc \notin {"idle", "load"}
  \/ tick' = Idle
  \/ tick' = NextDrawer(tick)

LEMMA OnwardIs ==
  ASSUME InboundTyped, TickIsSound, tick.pc \notin {"idle", "load"}, Onward
  PROVE  \/ /\ tick'.d = tick.d /\ tick'.pending = tick.pending /\ tick'.opens = tick.opens
            /\ tick'.pc \notin {"idle", "load"}
         \/ tick'.d = None /\ tick'.pc = "idle" /\ tick'.pending = {}
            /\ tick'.scan = {} /\ tick'.opens = {}
         \/ \E d \in tick.pending :
              /\ d # tick.d /\ tick'.d = d /\ tick'.pc = "scan" /\ tick'.pending = tick.pending \ {d}
              /\ tick'.opens = tick.opens /\ tick'.scan = {w \in tick.opens : d \in Matches[w]}
<1>1. tick \in Ticks /\ tick.pending \in SUBSET Drawer /\ tick.d \notin tick.pending
  BY DEF InboundTyped, InboundTypeOK, Ticks, TickIsSound
<1>2. CASE tick' = Idle
  BY <1>2 DEF Idle
<1>3. CASE tick' = NextDrawer(tick)
  <2>1. CASE NextDrawer(tick) = Idle
    BY <1>2, <1>3, <2>1
  <2>2. ASSUME NEW d \in tick.pending,
               tick' = [tick EXCEPT !.pc = "scan", !.d = d, !.pending = @ \ {d},
                                    !.scan = {w \in tick.opens : d \in Matches[w]}]
        PROVE  /\ d # tick.d /\ tick'.d = d /\ tick'.pc = "scan" /\ tick'.pending = tick.pending \ {d}
               /\ tick'.opens = tick.opens /\ tick'.scan = {w \in tick.opens : d \in Matches[w]}
    BY <1>1, <2>2 DEF Ticks
  <2> QED BY <1>1, <1>3, <2>1, <2>2, NextIs
<1> QED BY <1>2, <1>3 DEF Onward

\* The drawers that are not in hand.
LEMMA OthersKept ==
  ASSUME InboundTyped, InboundTyped', TickIsSound, tick.pc \notin {"idle", "load"}, Onward,
         NEW d \in Drawer, d # tick.d, FanOutIsCounted(d), DrawerIsOffered(d),
         rows'[d] = rows[d], jobs'[d] = jobs[d], hits'[d] = hits[d], owed'[d] = owed[d],
         waiting' = waiting, since' = since, open' \subseteq open, late' = late,
         \A w \in Waiter : d \in answers'[w] <=> d \in answers[w]
  PROVE  FanOutIsCounted(d)' /\ DrawerIsOffered(d)'
<1>1. hits[d] \in Nat
  BY DEF InboundTyped
<1>2. CASE /\ tick'.d = tick.d /\ tick'.pending = tick.pending /\ tick'.opens = tick.opens
           /\ tick'.pc \notin {"idle", "load"}
  <2>1. Asking(d)' => Asking(d)
    BY <1>2 DEF Asking
  <2>2. Listening(d)' = Listening(d)
    BY <1>2 DEF Listening
  <2> QED BY <1>1, <1>2, <2>1, <2>2, FanFrame, OfferFrame
<1>3. CASE tick'.d = None /\ tick'.pc = "idle" /\ tick'.pending = {}
  <2>1. d # None
    BY InboundDispatchAssumption
  <2>2. Asking(d)' => Asking(d)
    BY <1>3, <2>1 DEF Asking
  <2>3. waiting[d] \cap Listening(d) \subseteq Listening(d)'
    <3>1. waiting[d] \subseteq Waiter
      BY DEF InboundTyped
    <3>2. d \in tick.pending => rows[d] = {}
      BY DEF TickIsSound
    <3> QED BY <1>3, <2>1, <3>1, <3>2 DEF Listening
  <2> QED BY <1>1, <1>3, <2>1, <2>2, <2>3, FanFrame, OfferFrame
<1>4. CASE \E e \in tick.pending :
              /\ e # tick.d /\ tick'.d = e /\ tick'.pc = "scan" /\ tick'.pending = tick.pending \ {e}
              /\ tick'.opens = tick.opens /\ tick'.scan = {w \in tick.opens : e \in Matches[w]}
  <2>1. PICK e \in tick.pending :
              /\ e # tick.d /\ tick'.d = e /\ tick'.pc = "scan" /\ tick'.pending = tick.pending \ {e}
              /\ tick'.opens = tick.opens /\ tick'.scan = {w \in tick.opens : e \in Matches[w]}
    BY <1>4
  <2>2. rows[e] = {}
    BY DEF TickIsSound
  <2>3. Asking(d)' => Asking(d)
    BY <2>1, <2>2 DEF Asking
  <2>4. waiting[d] \cap Listening(d) \subseteq Listening(d)'
    <3>1. CASE d = e
      <4>1. Listening(d) = tick.opens /\ Listening(d)' = {w \in tick.opens : d \in Matches[w]}
        BY <2>1, <3>1 DEF Listening
      <4>2. \A w \in waiting[d] : d \in Matches[w]
        BY DEF DrawerIsOffered
      <4> QED BY <4>1, <4>2
    <3>2. CASE d # e
      BY <2>1, <3>2 DEF Listening
    <3> QED BY <3>1, <3>2
  <2>5. FanOutIsCounted(d)'
    <3>1. CASE d = e
      BY <2>1, <2>2, <3>1, FanFrame DEF Taken
    <3>2. CASE d # e
      BY <2>1, <3>2, FanFrame
    <3> QED BY <3>1, <3>2
  <2> QED BY <1>1, <2>3, <2>4, <2>5, OfferFrame
<1> QED BY <1>2, <1>3, <1>4, OnwardIs

\* Statements about no drawer, and those that do not fail, are charged to none.
LEMMA Uncharged ==
  ASSUME InboundTyped, NoFault \/ Fault(None)
  PROVE  hits' = hits
BY DEF NoFault, Fault

\* The world changes the waiters and the index, and no fan-out.
LEMMA WorldKeeps ==
  ASSUME InboundTyped, InboundTyped', InboundInv, World
  PROVE  InboundInv'
<1>1. /\ since \in [Waiter -> Nat] /\ since' \in [Waiter -> Nat] /\ at \in [Drawer -> Nat]
      /\ open \subseteq Waiter /\ waiting \in [Drawer -> SUBSET Waiter] /\ hits \in [Drawer -> Nat]
      /\ tick \in Ticks
  BY DEF InboundTyped, InboundTypeOK, Ticks
<1>2. tick' = tick /\ rows' = rows /\ jobs' = jobs /\ owed' = owed /\ answers' = answers /\ hits' = hits
  <2>1. tick' = tick /\ rows' = rows /\ jobs' = jobs /\ owed' = owed /\ answers' = answers
    BY DEF World, WriteDrawer, EditManifests, IndexExpires, Register, Late, CancelReads,
           CancelWrites, waiters
  <2>2. NoFault \/ Fault(None)
    BY DEF World, WriteDrawer, EditManifests, IndexExpires, Register, Late, CancelReads,
           CancelWrites
  <2> QED BY <2>1, <2>2, Uncharged
<1>3. \A d \in Drawer : FanOutIsCounted(d)'
  BY <1>2, FanFrame DEF InboundInv
<1>4. ASSUME since' = since, open' \subseteq open
      PROVE  WaitersAreKept'
  BY <1>2, <1>4 DEF InboundInv, WaitersAreKept, FirstWaiter
<1>5. ASSUME NEW d \in Drawer, rows[d] = {}, tick.d # d, d \notin tick.pending,
             \A w \in waiting'[d] : since'[w] # 0 /\ d \in Matches[w]
      PROVE  DrawerIsOffered(d)'
  <2>1. Answered(d)' = Answered(d) /\ Asking(d)' = Asking(d)
    BY <1>2 DEF Answered, Asking
  <2>2. Listening(d)' = Waiter
    BY <1>2, <1>5 DEF Listening
  <2>3. waiting'[d] \subseteq Waiter
    BY DEF InboundTyped
  <2> QED BY <1>2, <1>5, <2>1, <2>2, <2>3 DEF InboundInv, DrawerIsOffered
<1>6. ASSUME NEW d \in Drawer, waiting'[d] = waiting[d],
             \A w \in waiting[d] : since[w] # 0 => since'[w] # 0,
             waiting[d] \cap open' \subseteq open, late \subseteq late'
      PROVE  DrawerIsOffered(d)'
  <2>1. hits'[d] >= hits[d] /\ hits[d] \in Nat
    BY <1>1, <1>2
  <2>2. Asking(d)' = Asking(d) /\ Listening(d)' = Listening(d)
    BY <1>2 DEF Asking, Listening
  <2>3. \A w \in Waiter : d \in answers'[w] <=> d \in answers[w]
    BY <1>2
  <2> QED BY <1>2, <1>6, <2>1, <2>2, <2>3, OfferFrame DEF InboundInv
<1>7. ASSUME NEW d \in Drawer, WriteDrawer(d) PROVE InboundInv'
  <2>1. Count(at) + 1 # 0
    BY <1>1, CountIsNat, InboundDispatchAssumption
  <2>2. /\ \A e \in Drawer : e # d => at'[e] = at[e] /\ waiting'[e] = waiting[e]
        /\ at'[d] # 0 /\ at[d] = 0 /\ since' = since /\ open' = open /\ late' = late
        /\ waiting'[d] = {w \in open \ late : d \in Matches[w]}
    BY <1>1, <1>7, <2>1 DEF WriteDrawer, waiters
  <2>3. TickIsSound'
    BY <1>2, <2>2 DEF InboundInv, TickIsSound
  <2>4. DrawerIsOffered(d)'
    <3>1. rows[d] = {} /\ tick.d # d /\ d \notin tick.pending
      BY <2>2 DEF InboundInv, TickIsSound
    <3>2. \A w \in waiting'[d] : since'[w] # 0 /\ d \in Matches[w]
      BY <2>2 DEF InboundInv, WaitersAreKept
    <3> QED BY <1>5, <3>1, <3>2
  <2>5. \A e \in Drawer : DrawerIsOffered(e)'
    BY <1>6, <2>2, <2>4
  <2> QED BY <1>3, <1>4, <2>2, <2>3, <2>5 DEF InboundInv
<1>8. ASSUME at' = at PROVE TickIsSound'
  BY <1>2, <1>8 DEF InboundInv, TickIsSound
<1>9. ASSUME UNCHANGED <<at, waiting, since>>, open' \subseteq open, late \subseteq late'
      PROVE  InboundInv'
  BY <1>3, <1>4, <1>6, <1>8, <1>9 DEF InboundInv
<1>10. ASSUME NEW t \in Trigger, EditManifests(t) PROVE InboundInv'
  BY <1>9, <1>10 DEF EditManifests, waiters
<1>11. CASE IndexExpires
  BY <1>9, <1>11 DEF IndexExpires, waiters
<1>12. ASSUME NEW w \in Waiter, Late(w) \/ CancelReads(w) \/ CancelWrites(w) PROVE InboundInv'
  BY <1>9, <1>12 DEF Late, CancelReads, CancelWrites
<1>13. ASSUME NEW w \in Waiter, Register(w) PROVE InboundInv'
  <2>1. /\ since[w] = 0 /\ since'[w] = Count(since) + 1
        /\ \A v \in Waiter : v # w => since'[v] = since[v]
        /\ open' = open \union {w} /\ late' = late /\ at' = at /\ waiting' = waiting
    BY <1>1, <1>13 DEF Register
  <2>2. Count(since) \in Nat /\ Count(since') = Count(since) + 1
    <3> DEFINE S == {x \in Waiter : since[x] > 0}
    <3>1. DOMAIN since = Waiter /\ DOMAIN since' = Waiter
      BY <1>1
    <3>2. Count(since) \in Nat
      BY <1>1, CountIsNat, InboundDispatchAssumption
    <3>3. IsFiniteSet(S) /\ w \notin S
      BY <2>1, FS_Subset, InboundDispatchAssumption
    <3>4. {x \in Waiter : since'[x] > 0} = S \union {w}
      BY <1>1, <2>1, <3>2
    <3>5. Cardinality(S \union {w}) = Cardinality(S) + 1
      BY <3>3, FS_AddElement
    <3>6. Count(since) = Cardinality(S) /\ Count(since') = Cardinality(S \union {w})
      BY <3>1, <3>4 DEF Count
    <3> QED BY <3>2, <3>5, <3>6
  <2>3. /\ \A v \in Waiter : since'[v] <= Count(since')
        /\ \A u, v \in Waiter : since'[u] = since'[v] /\ since'[u] # 0 => u = v
    <3>1. \A v \in Waiter : since[v] <= Count(since)
      BY DEF InboundInv, WaitersAreKept
    <3>2. \A v \in Waiter : v # w => since'[v] # since'[w]
      BY <1>1, <2>1, <2>2, <3>1
    <3>3. \A v \in Waiter : since'[v] <= Count(since')
      BY <1>1, <2>1, <2>2, <3>1
    <3> QED BY <2>1, <3>2, <3>3 DEF InboundInv, WaitersAreKept
  <2>4. w \notin tick.opens \union tick.scan /\ answers[w] = {} /\ w \notin open
        /\ \A d \in Drawer : w \notin waiting[d]
    BY <2>1 DEF InboundInv, WaitersAreKept, DrawerIsOffered
  <2>5. since'[w] # 0
    BY <2>1, <2>2
  <2>6. tick.scan \subseteq Waiter /\ tick.opens \subseteq Waiter
    BY <1>1 DEF Ticks
  <2>7. \A v \in Waiter : FirstWaiter(v)' = FirstWaiter(v)
    BY <1>2, <2>1, <2>4, <2>6 DEF FirstWaiter
  <2>8. WaitersAreKept'
    <3>1. \A v \in open' : since'[v] # 0 /\ answers'[v] = {}
      BY <1>1, <1>2, <2>1, <2>4, <2>5 DEF InboundInv, WaitersAreKept
    <3>2. \A v \in tick'.opens \union tick'.scan : since'[v] # 0
      BY <1>2, <2>1, <2>4, <2>6 DEF InboundInv, WaitersAreKept
    <3>3. \A v \in Waiter : answers'[v] # {} => since'[v] # 0
      BY <1>2, <2>1, <2>4 DEF InboundInv, WaitersAreKept
    <3>4. tick'.pc = "answer" => tick'.scan # {}
      BY <1>2 DEF InboundInv, WaitersAreKept
    <3>5. ASSUME tick'.pc = "answer", NEW v \in Waiter, FirstWaiter(v)'
          PROVE  v \notin open' /\ answers'[v] = {}
      <4>1. FirstWaiter(v) /\ v # w
        BY <2>4, <2>7, <3>5 DEF FirstWaiter
      <4> QED BY <1>2, <2>1, <3>5, <4>1 DEF InboundInv, WaitersAreKept
    <3>6. \A v \in Waiter : \A d, e \in answers'[v] : d = e
      BY <1>2 DEF InboundInv, WaitersAreKept
    <3> QED BY <2>3, <3>1, <3>2, <3>3, <3>4, <3>5, <3>6 DEF WaitersAreKept
  <2>9. ASSUME NEW d \in Drawer PROVE DrawerIsOffered(d)'
    <3>1. waiting[d] \cap open' \subseteq open
      BY <2>1, <2>4
    <3>2. \A v \in waiting[d] : since[v] # 0 => since'[v] # 0
      BY <1>1, <2>1, <2>5
    <3> QED BY <1>6, <2>1, <3>1, <3>2
  <2> QED BY <1>3, <1>8, <2>1, <2>8, <2>9 DEF InboundInv
<1> QED BY <1>7, <1>10, <1>11, <1>12, <1>13 DEF World

\* A tick that goes on keeps its order, and its waiters.
LEMMA TickOnward ==
  ASSUME InboundTyped, InboundTyped', TickIsSound, tick.pc \notin {"idle", "load"}, Onward,
         at' = at, \A d \in Drawer : d # tick.d => rows'[d] = rows[d]
  PROVE  TickIsSound'
<1>1. tick.d \in Drawer /\ tick.d # None /\ tick.pending \subseteq Drawer
  BY InHand DEF InboundTyped, InboundTypeOK
<1>2. CASE /\ tick'.d = tick.d /\ tick'.pending = tick.pending
           /\ tick'.pc \notin {"idle", "load"}
  BY <1>1, <1>2 DEF TickIsSound
<1>3. CASE tick'.d = None /\ tick'.pc = "idle" /\ tick'.pending = {}
  BY <1>1, <1>3, InboundDispatchAssumption DEF TickIsSound
<1>4. CASE \E e \in tick.pending :
              e # tick.d /\ tick'.d = e /\ tick'.pc = "scan" /\ tick'.pending = tick.pending \ {e}
  BY <1>1, <1>4, InboundDispatchAssumption DEF TickIsSound
<1> QED BY <1>2, <1>3, <1>4, OnwardIs

LEMMA WaitersOnward ==
  ASSUME InboundTyped, InboundTyped', WaitersAreKept,
         since' = since, open' = open, answers' = answers, tick'.pc # "answer",
         tick'.scan \union tick'.opens \subseteq tick.scan \union tick.opens \union open
  PROVE  WaitersAreKept'
BY DEF WaitersAreKept

\* A poll takes the oldest drawers without a row, and loads the open waiters.
LEMMA PollKeeps ==
  ASSUME InboundTyped, InboundTyped', InboundInv, Poll \/ LoadOpen
  PROVE  InboundInv'
<1>1. /\ rows' = rows /\ jobs' = jobs /\ owed' = owed /\ hits' = hits /\ at' = at
      /\ waiting' = waiting /\ since' = since /\ open' = open /\ late' = late /\ answers' = answers
  BY Uncharged DEF Poll, LoadOpen, waiters
<1>2. /\ tick.d = None /\ tick \in Ticks /\ hits \in [Drawer -> Nat] /\ None \notin Drawer
      /\ open \subseteq Waiter
  BY InboundDispatchAssumption
     DEF Poll, LoadOpen, InboundInv, TickIsSound, InboundTyped, InboundTypeOK, Ticks
<1>3. ASSUME NEW d \in Drawer, Asking(d)' => Asking(d),
             waiting[d] \cap open \cap Listening(d) \subseteq late \union Listening(d)'
      PROVE  DrawerIsOffered(d)'
  <2>1. hits'[d] >= hits[d]
    BY <1>1, <1>2
  <2> QED BY <1>1, <1>3, <2>1, OfferFrame DEF InboundInv
<1>4. CASE Poll
  <2> DEFINE batch == Oldest(BatchSize, {d \in Drawer : Unseen(d)})
  <2>1. batch \subseteq {d \in Drawer : Unseen(d)}
    BY DEF Oldest
  <2>2. /\ tick.pc = "idle" /\ tick.pending = {}
        /\ \/ tick' = Idle
           \/ tick' = [Idle EXCEPT !.pc = "load", !.pending = batch, !.trigs = UNION index']
    BY <1>4 DEF Poll, InboundInv, TickIsSound
  <2>3. /\ tick'.d = None /\ tick'.scan = {} /\ tick'.opens = {}
        /\ \/ tick'.pc = "idle" /\ tick'.pending = {}
           \/ tick'.pc = "load" /\ tick'.pending = batch
    <3> HIDE DEF batch
    <3>1. CASE tick' = Idle
      BY <3>1 DEF Idle
    <3>2. CASE tick' = [Idle EXCEPT !.pc = "load", !.pending = batch, !.trigs = UNION index']
      BY <3>2 DEF Idle
    <3> QED BY <2>2, <3>1, <3>2
  <2>4. TickIsSound'
    <3>1. \A d \in tick'.pending : d \in Drawer /\ at[d] # 0 /\ rows[d] = {}
      <4>1. \A d \in batch : d \in Drawer /\ at[d] > 0 /\ rows[d] = {}
        BY <2>1 DEF Unseen
      <4> HIDE DEF batch
      <4> QED BY <2>3, <4>1
    <3>2. \A d \in Drawer : at[d] = 0 => rows[d] = {}
      BY DEF InboundInv, TickIsSound
    <3> HIDE DEF batch
    <3> QED BY <1>1, <1>2, <2>3, <3>1, <3>2 DEF TickIsSound
  <2>5. WaitersAreKept'
    BY <1>1, <2>3, WaitersOnward DEF InboundInv
  <2>6. ASSUME NEW d \in Drawer PROVE FanOutIsCounted(d)' /\ DrawerIsOffered(d)'
    <3>1. tick.d # d /\ tick'.d # d
      BY <1>2, <2>3
    <3>2. Asking(d)' = Asking(d) /\ Listening(d)' = Listening(d)
      BY <1>1, <2>2, <2>3, <3>1 DEF Asking, Listening
    <3> QED BY <1>1, <1>3, <3>1, <3>2, FanFrame DEF InboundInv
  <2> QED BY <2>4, <2>5, <2>6 DEF InboundInv
<1>5. CASE LoadOpen
  <2> DEFINE k == [tick EXCEPT !.opens = open]
  <2>1. k.pending = tick.pending /\ k.opens = open /\ k \in Ticks /\ tick.pc = "load"
        /\ tick.pending \in SUBSET Drawer /\ tick' = NextDrawer(k)
    BY <1>2, <1>5 DEF LoadOpen, Ticks
  <2> HIDE DEF k
  <2>2. \/ tick'.d = None /\ tick'.pc = "idle" /\ tick'.pending = {} /\ tick.pending = {}
           /\ tick'.scan = {} /\ tick'.opens = {}
        \/ \E e \in tick.pending :
             /\ tick'.d = e /\ tick'.pc = "scan" /\ tick'.pending = tick.pending \ {e}
             /\ tick'.opens = open /\ tick'.scan = {w \in open : e \in Matches[w]}
    <3>1. CASE k.pending = {} /\ NextDrawer(k) = Idle
      BY <2>1, <3>1 DEF Idle
    <3>2. ASSUME NEW e \in k.pending,
                 NextDrawer(k) = [k EXCEPT !.pc = "scan", !.d = e, !.pending = @ \ {e},
                                           !.scan = {w \in k.opens : e \in Matches[w]}]
          PROVE  /\ tick'.d = e /\ tick'.pc = "scan" /\ tick'.pending = tick.pending \ {e}
                 /\ tick'.opens = open /\ tick'.scan = {w \in open : e \in Matches[w]}
      BY <2>1, <3>2 DEF Ticks
    <3> QED BY <2>1, <3>1, <3>2, NextIs
  <2>3. TickIsSound'
    BY <1>1, <1>2, <2>1, <2>2 DEF InboundInv, TickIsSound
  <2>4. WaitersAreKept'
    BY <1>1, <2>2, WaitersOnward DEF InboundInv
  <2>5. ASSUME NEW d \in Drawer PROVE FanOutIsCounted(d)' /\ DrawerIsOffered(d)'
    <3>1. tick.d # d /\ \A e \in tick.pending : rows[e] = {}
      BY <1>2 DEF InboundInv, TickIsSound
    <3>2. FanOutIsCounted(d)'
      <4>1. \/ tick'.d # d
            \/ tick'.d = d /\ tick'.pc = "scan" /\ rows[d] = {}
        BY <1>2, <2>2, <3>1
      <4>2. FanOutIsCounted(d) /\ rows'[d] = rows[d] /\ jobs'[d] = jobs[d] /\ owed'[d] = owed[d]
            /\ hits'[d] = hits[d]
        BY <1>1 DEF InboundInv
      <4>3. CASE tick'.d # d
        BY <3>1, <4>2, <4>3, FanFrame
      <4>4. CASE tick'.d = d /\ tick'.pc = "scan" /\ rows[d] = {}
        <5>1. Taken(d)
          BY <3>1, <4>4 DEF Taken
        <5> QED BY <4>2, <5>1, FanFrame
      <4> QED BY <4>1, <4>3, <4>4
    <3>3. Asking(d)' => Asking(d)
      BY <1>1, <1>2, <2>2, <3>1 DEF Asking
    <3>4. waiting[d] \cap open \cap Listening(d) \subseteq late \union Listening(d)'
      <4>1. CASE d \in tick.pending
        <5>1. \A w \in waiting[d] : d \in Matches[w]
          BY DEF InboundInv, DrawerIsOffered
        <5>2. PICK e \in tick.pending :
             /\ tick'.d = e /\ tick'.pc = "scan" /\ tick'.pending = tick.pending \ {e}
             /\ tick'.opens = open /\ tick'.scan = {w \in open : e \in Matches[w]}
          BY <2>2, <4>1
        <5>3. waiting[d] \cap open \subseteq Listening(d)'
          BY <4>1, <5>1, <5>2 DEF Listening
        <5> QED BY <5>3
      <4>2. CASE d \notin tick.pending
        <5>1. tick'.d # d /\ d \notin tick'.pending
          BY <1>2, <2>2, <4>2
        <5> QED BY <1>1, <3>1, <4>2, <5>1 DEF Listening
      <4> QED BY <4>1, <4>2
    <3> QED BY <1>3, <3>2, <3>3, <3>4
  <2> QED BY <2>3, <2>4, <2>5 DEF InboundInv
<1> QED BY <1>4, <1>5

\* What the steps of a match have in common: they ask the waiters of one drawer.
LEMMA MatchIs ==
  ASSUME InboundTyped, TickIsSound, NEW w \in Waiter,
         TryResolve(w) \/ NotResolved(w) \/ MatchAborts(w) \/ Answer(w)
  PROVE  /\ tick.d \in Drawer /\ tick.pc \in {"scan", "answer"} /\ tick'.pc \in {"scan", "answer"}
         /\ tick'.d = tick.d /\ tick'.pending = tick.pending /\ tick'.opens = tick.opens
         /\ tick'.scan \subseteq tick.scan /\ w \in tick.scan
         /\ UNCHANGED <<at, rows, jobs, since, late, waiting, owed>> /\ open' \subseteq open
         /\ \A d \in Drawer : d # tick.d => hits'[d] = hits[d]
         /\ hits'[tick.d] >= hits[tick.d]
         /\ \A d \in Drawer, v \in Waiter : d # tick.d => (d \in answers'[v] <=> d \in answers[v])
<1>1. tick.d \in Drawer /\ tick.pc \in {"scan", "answer"} /\ w \in tick.scan
  BY InHand DEF TryResolve, NotResolved, MatchAborts, Answer, FirstWaiter
<1>2. tick \in Ticks /\ hits \in [Drawer -> Nat] /\ answers \in [Waiter -> SUBSET Drawer]
  BY DEF InboundTyped, InboundTypeOK, Ticks
<1>3. UNCHANGED <<at, rows, jobs, since, late, waiting, owed>> /\ open' \subseteq open
  BY DEF TryResolve, NotResolved, MatchAborts, Answer, waiters
<1>4. /\ tick'.pc \in {"scan", "answer"} /\ tick'.scan \subseteq tick.scan
      /\ tick'.d = tick.d /\ tick'.pending = tick.pending /\ tick'.opens = tick.opens
  <2>1. \/ tick' = [tick EXCEPT !.pc = "answer"]
        \/ tick' = [tick EXCEPT !.scan = tick.scan \ {w}]
        \/ tick' = [tick EXCEPT !.scan = {}]
        \/ tick' = [tick EXCEPT !.pc = "scan", !.scan = {}]
        \/ tick' = [tick EXCEPT !.pc = "scan", !.scan = tick.scan \ {w}]
    BY DEF TryResolve, NotResolved, MatchAborts, Answer, RestOfScan
  <2>2. \A p \in {"scan", "answer"}, S \in SUBSET Waiter :
          LET k == [tick EXCEPT !.pc = p, !.scan = S]
          IN k.pc = p /\ k.scan = S /\ k.d = tick.d /\ k.pending = tick.pending /\ k.opens = tick.opens
    BY <1>2 DEF Ticks
  <2>3. \E p \in {"scan", "answer"}, S \in SUBSET tick.scan : tick' = [tick EXCEPT !.pc = p, !.scan = S]
    <3>1. [tick EXCEPT !.pc = "answer"] = [tick EXCEPT !.pc = "answer", !.scan = tick.scan]
      BY <1>2 DEF Ticks
    <3>2. [tick EXCEPT !.scan = tick.scan \ {w}] = [tick EXCEPT !.pc = tick.pc, !.scan = tick.scan \ {w}]
      BY <1>2 DEF Ticks
    <3>3. [tick EXCEPT !.scan = {}] = [tick EXCEPT !.pc = tick.pc, !.scan = {}]
      BY <1>2 DEF Ticks
    <3> QED BY <1>1, <2>1, <3>1, <3>2, <3>3
  <2>4. tick.scan \subseteq Waiter
    BY <1>2 DEF Ticks
  <2> QED BY <2>2, <2>3, <2>4
<1>5. NoFault \/ Fault(tick.d)
  BY DEF TryResolve, NotResolved, MatchAborts, Answer
<1>6. \A d \in Drawer : hits'[d] = hits[d] \/ (d = tick.d /\ hits'[d] = hits[d] + 1)
  <2>1. CASE NoFault
    BY <2>1 DEF NoFault
  <2>2. CASE Fault(tick.d)
    BY <1>1, <2>2, FaultIs
  <2> QED BY <1>5, <2>1, <2>2
<1>7. \A d \in Drawer, v \in Waiter : d # tick.d => (d \in answers'[v] <=> d \in answers[v])
  <2>1. answers' = answers \/ answers' = [answers EXCEPT ![w] = @ \union {tick.d}]
    BY DEF TryResolve, NotResolved, MatchAborts, Answer, waiters
  <2> QED BY <1>2, <2>1
<1>8. hits'[tick.d] >= hits[tick.d]
  BY <1>1, <1>2, <1>6
<1> QED BY <1>1, <1>3, <1>4, <1>6, <1>7, <1>8

\* A match asks one waiter after the other, and the first that takes the drawer
\* ends it.
LEMMA MatchKeeps ==
  ASSUME InboundTyped, InboundTyped', InboundInv, NEW w \in Waiter,
         TryResolve(w) \/ NotResolved(w) \/ MatchAborts(w) \/ Answer(w)
  PROVE  InboundInv'
<1>1. /\ tick.d \in Drawer /\ tick.pc \in {"scan", "answer"} /\ tick'.pc \in {"scan", "answer"}
      /\ tick'.d = tick.d /\ tick'.pending = tick.pending /\ tick'.opens = tick.opens
      /\ tick'.scan \subseteq tick.scan /\ w \in tick.scan
      /\ UNCHANGED <<at, rows, jobs, since, late, waiting, owed>> /\ open' \subseteq open
      /\ \A d \in Drawer : d # tick.d => hits'[d] = hits[d]
      /\ hits'[tick.d] >= hits[tick.d]
      /\ \A d \in Drawer, v \in Waiter : d # tick.d => (d \in answers'[v] <=> d \in answers[v])
  BY MatchIs DEF InboundInv
<1>2. /\ since \in [Waiter -> Nat] /\ answers \in [Waiter -> SUBSET Drawer] /\ tick \in Ticks
      /\ hits \in [Drawer -> Nat] /\ hits' \in [Drawer -> Nat] /\ tick.scan \subseteq Waiter
  BY DEF InboundTyped, InboundTypeOK, Ticks
<1>3. Onward
  BY <1>1 DEF Onward
<1>4. TickIsSound'
  BY <1>1, <1>3, TickOnward DEF InboundInv
<1>5. ASSUME NEW d \in Drawer, d # tick.d PROVE FanOutIsCounted(d)' /\ DrawerIsOffered(d)'
  BY <1>1, <1>3, <1>5, OthersKept DEF InboundInv
<1>6. FanOutIsCounted(tick.d)'
  <2>1. PICK d \in Drawer : d = tick.d
    BY <1>1
  <2>2. FanOutIsCounted(d)'
    BY <1>1, <2>1, FanFrame DEF InboundInv
  <2> QED BY <1>1, <2>1, <2>2 DEF FanOutIsCounted, Due, Subscribers
<1>7. since[w] # 0 /\ (tick.pc = "answer" /\ FirstWaiter(w) => w \notin open /\ answers[w] = {})
  BY <1>1 DEF InboundInv, WaitersAreKept
\* An answer changes what is answered, the other steps who is left to ask.
<1>8. ASSUME answers' = answers,
             hits'[tick.d] = 0 => \A v \in tick.scan \cap open' : v \in late \/ v \in tick'.scan
      PROVE  DrawerIsOffered(tick.d)'
  <2>1. PICK d \in Drawer : d = tick.d
    BY <1>1
  <2>2. Asking(d)' => Asking(d)
    BY <1>1, <2>1 DEF Asking
  <2>3. Listening(d) = tick.scan /\ Listening(d)' = tick'.scan
    BY <1>1, <2>1 DEF Listening
  <2>4. DrawerIsOffered(d)'
    BY <1>1, <1>8, <2>1, <2>2, <2>3, OfferFrame DEF InboundInv
  <2>5. tick'.d = d
    BY <1>1, <2>1
  <2> QED BY <2>4, <2>5 DEF DrawerIsOffered, Answered, Asking, Listening
<1>9. CASE TryResolve(w)
  <2>1. /\ tick.pc = "scan" /\ FirstWaiter(w) /\ w \in open /\ open' = open \ {w}
        /\ tick'.pc = "answer" /\ tick'.scan = tick.scan /\ answers' = answers
    BY <1>2, <1>9 DEF TryResolve, Ticks
  <2>2. DrawerIsOffered(tick.d)'
    BY <1>8, <2>1
  <2>3. \A v \in Waiter : FirstWaiter(v)' => v = w
    <3>1. \A v \in Waiter : FirstWaiter(v) => since[v] = since[w]
      BY <1>2, <2>1 DEF FirstWaiter
    <3>2. \A v \in Waiter : FirstWaiter(v)' => FirstWaiter(v)
      BY <1>1, <2>1 DEF FirstWaiter
    <3> QED BY <1>7, <3>1, <3>2 DEF InboundInv, WaitersAreKept
  <2>4. WaitersAreKept'
    BY <1>1, <2>1, <2>3 DEF InboundInv, WaitersAreKept
  <2> QED BY <1>1, <1>4, <1>5, <1>6, <2>2, <2>4 DEF InboundInv
<1>10. CASE NotResolved(w) \/ MatchAborts(w)
  <2>1. /\ tick.pc = "scan" /\ tick'.pc = "scan" /\ open' = open /\ answers' = answers
    BY <1>2, <1>10 DEF NotResolved, MatchAborts, waiters, Ticks
  <2>2. hits'[tick.d] = 0 => w \notin open \ late /\ tick'.scan = tick.scan \ {w}
    <3>1. Fault(tick.d) => hits'[tick.d] = hits[tick.d] + 1
      BY <1>1, FaultIs
    <3>2. Fault(tick.d) => hits'[tick.d] # 0
      BY <1>1, <1>2, <3>1
    <3> QED BY <1>2, <1>10, <3>2 DEF NotResolved, MatchAborts, Ticks
  <2>3. DrawerIsOffered(tick.d)'
    BY <1>8, <2>1, <2>2
  <2>4. WaitersAreKept'
    BY <1>1, <2>1, WaitersOnward DEF InboundInv
  <2> QED BY <1>1, <1>4, <1>5, <1>6, <2>3, <2>4 DEF InboundInv
<1>11. CASE Answer(w)
  <2>1. tick.pc = "answer" /\ tick'.pc = "scan" /\ open' = open /\ w \notin open /\ answers[w] = {}
    <3>1. tick.pc = "answer" /\ FirstWaiter(w) /\ open' = open
      BY <1>11 DEF Answer
    <3>2. tick'.pc = "scan"
      BY <1>2, <1>11 DEF Answer, Ticks
    <3> QED BY <1>7, <3>1, <3>2
  <2>2. \/ answers' = answers /\ hits'[tick.d] = hits[tick.d] + 1
        \/ /\ answers' = [answers EXCEPT ![w] = @ \union {tick.d}]
           /\ \/ hits'[tick.d] = hits[tick.d] /\ tick'.scan = {}
              \/ hits'[tick.d] = hits[tick.d] + 1
    <3>1. Fault(tick.d) => hits'[tick.d] = hits[tick.d] + 1
      BY <1>1, FaultIs
    <3>2. NoFault => hits'[tick.d] = hits[tick.d]
      BY DEF NoFault
    <3>3. tick' = [tick EXCEPT !.pc = "scan", !.scan = {}] => tick'.scan = {}
      BY <1>2 DEF Ticks
    <3> QED BY <1>11, <3>1, <3>2, <3>3 DEF Answer, RestOfScan
  <2>3. \A v \in Waiter : v # w => answers'[v] = answers[v]
    BY <1>2, <2>2
  <2>4. answers'[w] = {} \/ answers'[w] = {tick.d}
    BY <1>2, <2>1, <2>2
  <2>5. WaitersAreKept'
    <3>1. \A v \in open' : since'[v] # 0 /\ answers'[v] = {}
      BY <1>1, <2>1, <2>3 DEF InboundInv, WaitersAreKept, InboundTyped, InboundTypeOK
    <3>2. \A v \in Waiter : answers'[v] # {} => since'[v] # 0
      BY <1>1, <1>7, <2>3 DEF InboundInv, WaitersAreKept
    <3>3. ASSUME NEW v \in Waiter, NEW d \in answers'[v], NEW e \in answers'[v] PROVE d = e
      <4>1. CASE v = w
        BY <2>4, <3>3, <4>1
      <4>2. CASE v # w
        BY <2>3, <3>3, <4>2 DEF InboundInv, WaitersAreKept
      <4> QED BY <4>1, <4>2
    <3>4. \A v \in tick'.opens \union tick'.scan : since'[v] # 0
      BY <1>1 DEF InboundInv, WaitersAreKept
    <3>5. /\ \A v \in Waiter : since'[v] <= Count(since')
          /\ \A u, v \in Waiter : since'[u] = since'[v] /\ since'[u] # 0 => u = v
      BY <1>1 DEF InboundInv, WaitersAreKept
    <3> QED BY <2>1, <3>1, <3>2, <3>3, <3>4, <3>5 DEF WaitersAreKept
  <2>6. DrawerIsOffered(tick.d)'
    <3>1. CASE answers' = answers /\ hits'[tick.d] = hits[tick.d] + 1
      <4>1. hits'[tick.d] # 0
        BY <1>1, <1>2, <3>1
      <4> QED BY <1>8, <3>1, <4>1
    <3>2. CASE /\ answers' = [answers EXCEPT ![w] = @ \union {tick.d}]
               /\ \/ hits'[tick.d] = hits[tick.d] /\ tick'.scan = {}
                  \/ hits'[tick.d] = hits[tick.d] + 1
      <4>1. PICK d \in Drawer : d = tick.d /\ d = tick'.d
        BY <1>1
      <4>2. Answered(d)' = Answered(d) \union {w} /\ IsFiniteSet(Answered(d)) /\ w \notin Answered(d)
        <5>1. Answered(d)' = Answered(d) \union {w}
          BY <1>2, <3>2, <4>1 DEF Answered
        <5>2. Answered(d) \subseteq Waiter
          BY DEF Answered
        <5> QED BY <2>1, <5>1, <5>2, FS_Subset, InboundDispatchAssumption DEF Answered
      <4>3. PICK n \in Nat : n = Cardinality(Answered(d)) /\ n + 1 = Cardinality(Answered(d)')
        BY <4>2, FS_CardinalityType, FS_AddElement
      <4>4. Asking(d)
        BY <1>1, <4>1 DEF Asking
      <4>5. n <= hits[d]
        BY <4>3, <4>4 DEF InboundInv, DrawerIsOffered
      <4>6. n + 1 <= 1 + hits'[d]
        BY <1>2, <3>2, <4>1, <4>5
      <4>7. Asking(d)' => n + 1 <= hits'[d]
        <5>1. CASE tick'.scan = {}
          BY <4>1, <5>1 DEF Asking
        <5>2. CASE hits'[d] = hits[d] + 1
          BY <1>2, <4>5, <5>2
        <5> QED BY <3>2, <4>1, <5>1, <5>2
      <4>8. Answered(d)' # {} /\ \A v \in waiting'[d] : since'[v] # 0 /\ d \in Matches[v]
        BY <1>1, <4>2 DEF InboundInv, DrawerIsOffered
      <4>9. DrawerIsOffered(d)'
        BY <4>3, <4>6, <4>7, <4>8 DEF DrawerIsOffered
      <4> QED BY <4>1, <4>9 DEF DrawerIsOffered, Answered, Asking, Listening
    <3> QED BY <2>2, <3>1, <3>2
  <2> QED BY <1>1, <1>4, <1>5, <1>6, <2>5, <2>6 DEF InboundInv
<1> QED BY <1>9, <1>10, <1>11

\* A fan-out goes through its subscribers, and leaves the waiters as they are.
LEMMA FanIs ==
  ASSUME InboundTyped, TickIsSound,
         \/ StartFanOut \/ NoSubscriber \/ (\E t \in Trigger : Enqueue(t))
         \/ Record \/ RecordFailed \/ (Crash /\ tick.pc # "load")
  PROVE  /\ tick.d \in Drawer /\ tick.pc \notin {"idle", "load"} /\ Onward
         /\ UNCHANGED <<at, waiters, waiting>> /\ tick'.pc # "answer"
         /\ tick'.scan \union tick'.opens \subseteq tick.scan \union tick.opens
         /\ \A d \in Drawer : d # tick.d =>
              /\ rows'[d] = rows[d] /\ jobs'[d] = jobs[d] /\ owed'[d] = owed[d] /\ hits'[d] = hits[d]
         /\ \/ NoFault /\ hits'[tick.d] = hits[tick.d]
            \/ Fault(tick.d) /\ hits'[tick.d] = hits[tick.d] + 1
<1>1. tick.d \in Drawer /\ tick.pc \notin {"idle", "load"}
  BY InHand DEF StartFanOut, NoSubscriber, Enqueue, Record, RecordFailed, Crash
<1>2. tick \in Ticks /\ hits \in [Drawer -> Nat] /\ owed \in [Drawer -> SUBSET Trigger]
      /\ jobs \in [Drawer -> [Trigger -> Nat]] /\ DOMAIN rows = Drawer
  BY DEF InboundTyped, InboundTypeOK, Ticks
<1>3. UNCHANGED <<at, waiters, waiting>>
  BY DEF StartFanOut, NoSubscriber, Enqueue, Record, RecordFailed, Crash
<1>4. /\ \/ /\ tick'.d = tick.d /\ tick'.pending = tick.pending /\ tick'.opens = tick.opens
            /\ tick'.pc \in {"fan", "record", "catch"} /\ tick'.scan = tick.scan
         \/ tick' = Idle
         \/ tick' = NextDrawer(tick)
  <2>1. CASE StartFanOut
    BY <1>2, <2>1 DEF StartFanOut, Ticks
  <2>2. CASE NoSubscriber \/ Crash
    BY <2>2 DEF NoSubscriber, Crash
  <2>3. ASSUME NEW t \in Trigger, Enqueue(t)
        PROVE  /\ tick'.d = tick.d /\ tick'.pending = tick.pending /\ tick'.opens = tick.opens
               /\ tick'.pc \in {"fan", "record", "catch"} /\ tick'.scan = tick.scan
    BY <1>2, <2>3 DEF Enqueue, Ticks
  <2>4. CASE tick' = SubscriberDone
    BY <1>2, <2>4 DEF SubscriberDone, Ticks
  <2>5. CASE tick' = [tick EXCEPT !.pc = "catch"]
    BY <1>2, <2>5 DEF Ticks
  <2> QED BY <2>1, <2>2, <2>3, <2>4, <2>5 DEF Record, RecordFailed
<1>5. Onward
  BY <1>4 DEF Onward
<1>6. tick'.pc # "answer" /\ tick'.scan \union tick'.opens \subseteq tick.scan \union tick.opens
  <2>1. CASE tick'.scan = tick.scan /\ tick'.opens = tick.opens /\ tick'.pc \in {"fan", "record", "catch"}
    BY <2>1
  <2>2. CASE tick' = Idle
    BY <2>2 DEF Idle
  <2>3. CASE tick' = NextDrawer(tick)
    <3>1. tick.pending \in SUBSET Drawer
      BY <1>2 DEF Ticks
    <3>2. ASSUME NEW e \in tick.pending,
                 NextDrawer(tick) = [tick EXCEPT !.pc = "scan", !.d = e, !.pending = @ \ {e},
                                                 !.scan = {w \in tick.opens : e \in Matches[w]}]
          PROVE  tick'.opens = tick.opens /\ tick'.scan \subseteq tick.opens /\ tick'.pc = "scan"
      BY <1>2, <2>3, <3>2 DEF Ticks
    <3> QED BY <2>2, <2>3, <3>1, <3>2, NextIs
  <2> QED BY <1>4, <2>1, <2>2, <2>3
<1>7. \A d \in Drawer : d # tick.d => rows'[d] = rows[d] /\ jobs'[d] = jobs[d] /\ owed'[d] = owed[d]
  BY <1>1, <1>2 DEF StartFanOut, NoSubscriber, Enqueue, Record, RecordFailed, Crash
<1>8. \/ NoFault /\ hits'[tick.d] = hits[tick.d]
      \/ Fault(tick.d) /\ hits'[tick.d] = hits[tick.d] + 1
  <2>1. NoFault \/ Fault(tick.d)
    BY DEF StartFanOut, NoSubscriber, Enqueue, Record, RecordFailed, Crash
  <2>2. NoFault => hits'[tick.d] = hits[tick.d]
    BY DEF NoFault
  <2> QED BY <1>1, <2>1, <2>2, FaultIs
<1>9. \A d \in Drawer : d # tick.d => hits'[d] = hits[d]
  <2>1. CASE NoFault
    BY <2>1 DEF NoFault
  <2>2. CASE Fault(tick.d)
    BY <1>1, <2>2, FaultIs
  <2> QED BY <1>8, <2>1, <2>2
<1> QED BY <1>1, <1>3, <1>5, <1>6, <1>7, <1>8, <1>9

\* The waiters of the drawer in hand were asked: nothing changes for them.
LEMMA FanOffers ==
  ASSUME InboundTyped, InboundTyped', InboundInv,
         tick.d \in Drawer, tick.pc \in {"scan", "fan", "record", "catch"},
         tick.pc = "scan" => tick.scan = {},
         UNCHANGED <<waiters, waiting>>,
         \/ hits'[tick.d] = hits[tick.d] + 1
         \/ /\ hits'[tick.d] = hits[tick.d]
            /\ \/ tick'.d = tick.d /\ tick'.pc \in {"fan", "record", "catch"}
               \/ tick'.d # tick.d /\ rows'[tick.d] # {}
  PROVE  \A d \in Drawer : d = tick.d => DrawerIsOffered(d)'
<1> SUFFICES ASSUME NEW d \in Drawer, d = tick.d PROVE DrawerIsOffered(d)'
  OBVIOUS
<1>1. hits[d] \in Nat /\ hits'[d] \in Nat /\ hits'[d] >= hits[d]
  BY DEF InboundTyped
<1>2. since' = since /\ open' = open /\ late' = late /\ answers' = answers
  BY DEF waiters
<1>3. ~Asking(d) /\ Listening(d) = {}
  BY DEF Asking, Listening
<1>4. Asking(d)' => hits'[d] > hits[d]
  BY <1>1 DEF Asking
<1> QED BY <1>1, <1>2, <1>3, <1>4, OfferFrame DEF InboundInv

\* What is true of the fan-out of the drawer in hand.
LEMMA FanCounts ==
  ASSUME InboundTyped, InboundTyped', InboundInv,
         \/ StartFanOut \/ NoSubscriber \/ (\E t \in Trigger : Enqueue(t))
         \/ Record \/ RecordFailed \/ (Crash /\ tick.pc # "load"),
         NEW d \in Drawer, d = tick.d
  PROVE  /\ FanOutIsCounted(d)'
         /\ \/ hits'[d] = hits[d] + 1
            \/ /\ hits'[d] = hits[d]
               /\ \/ tick'.d = d /\ tick'.pc \in {"fan", "record", "catch"}
                  \/ tick'.d # d /\ rows'[d] # {}
<1>1. /\ tick.pc \notin {"idle", "load"} /\ Onward
      /\ \/ NoFault /\ hits'[d] = hits[d]
         \/ Fault(d) /\ hits'[d] = hits[d] + 1
  BY FanIs DEF InboundInv
<1>2. /\ tick \in Ticks /\ hits[d] \in Nat /\ hits'[d] \in Nat /\ owed \in [Drawer -> SUBSET Trigger]
      /\ jobs \in [Drawer -> [Trigger -> Nat]] /\ jobs[d] \in [Trigger -> Nat]
      /\ jobs' \in [Drawer -> [Trigger -> Nat]] /\ DOMAIN rows = Drawer
      /\ \A t \in Trigger : jobs[d][t] \in Nat
      /\ Idle.d = None /\ None \notin Drawer /\ None \notin Trigger
  BY InboundDispatchAssumption DEF InboundTyped, InboundTypeOK, Ticks, Idle
<1>3. FanOutIsCounted(d) /\ TickIsSound
  BY DEF InboundInv
<1>4. tick' = NextDrawer(tick) => tick'.d # d
  <2> SUFFICES ASSUME tick' = NextDrawer(tick) PROVE tick'.d # d
    OBVIOUS
  <2>1. tick.pending \in SUBSET Drawer /\ d \notin tick.pending
    BY <1>2, <1>3 DEF TickIsSound, Ticks
  <2>2. ASSUME NEW e \in tick.pending,
               NextDrawer(tick) = [tick EXCEPT !.pc = "scan", !.d = e, !.pending = @ \ {e},
                                               !.scan = {w \in tick.opens : e \in Matches[w]}]
        PROVE  tick'.d = e
    BY <1>2, <2>2 DEF Ticks
  <2>3. CASE NextDrawer(tick) = Idle
    BY <1>2, <2>3
  <2>4. CASE \E e \in tick.pending :
               NextDrawer(tick) = [tick EXCEPT !.pc = "scan", !.d = e, !.pending = @ \ {e},
                                               !.scan = {w \in tick.opens : e \in Matches[w]}]
    BY <2>1, <2>2, <2>4
  <2>5. \/ NextDrawer(tick) = Idle
        \/ \E e \in tick.pending :
               NextDrawer(tick) = [tick EXCEPT !.pc = "scan", !.d = e, !.pending = @ \ {e},
                                               !.scan = {w \in tick.opens : e \in Matches[w]}]
    BY <2>1, NextIs
  <2> QED BY <2>3, <2>4, <2>5
<1>5. tick' = Idle => tick'.d # d
  BY <1>2
\* A drawer is let go after a fault, or with a row and a run for each subscriber.
<1>6. ASSUME tick'.d # d, jobs' = jobs, hits'[d] = hits[d] + 1,
             \A t \in Trigger : <<t, "dispatched">> \in rows'[d] => jobs[d][t] > 0
      PROVE  FanOutIsCounted(d)'
  BY <1>3, <1>6, FanFaults
<1>7. ASSUME tick'.d # d, jobs' = jobs, owed' = owed, hits'[d] = hits[d], rows'[d] # {},
             \A t \in Trigger : <<t, "dispatched">> \in rows'[d] => jobs[d][t] > 0,
             hits[d] = 0 => \A t \in owed[d] : jobs[d][t] = 1
      PROVE  FanOutIsCounted(d)'
  BY <1>3, <1>7 DEF FanOutIsCounted, Due
<1>8. CASE StartFanOut
  <2>1. /\ tick.pc = "scan" /\ rows' = rows /\ jobs' = jobs /\ hits'[d] = hits[d]
        /\ tick' = [tick EXCEPT !.pc = "fan", !.todo = Subscribers(d)]
        /\ owed'[d] = Subscribers(d)
    BY <1>2, <1>8 DEF StartFanOut, NoFault
  <2>2. /\ tick'.pc = "fan" /\ tick'.d = d /\ tick'.trigs = tick.trigs /\ tick'.todo = Subscribers(d)
    BY <1>2, <2>1 DEF Ticks
  <2>3. \A t \in Trigger : jobs[d][t] <= hits[d]
    BY <1>3, <2>1 DEF FanOutIsCounted, Due
  <2>4. Subscribers(d)' = Subscribers(d)
    BY <2>2 DEF Subscribers
  <2>5. FanOutIsCounted(d)'
    BY <1>3, <2>1, <2>2, <2>3, <2>4 DEF FanOutIsCounted, Due
  <2> QED BY <2>1, <2>2, <2>5
<1>9. ASSUME NEW t \in Trigger \union {None}, NEW s \in Statuses, t \in Trigger /\ s = "dispatched" => jobs[d][t] > 0,
             rows'[d] = rows[d] \/ rows'[d] = AddRow(d, t, s)
      PROVE  \A x \in Trigger : <<x, "dispatched">> \in rows'[d] => jobs[d][x] > 0
  <2>1. \A r \in rows'[d] : r \in rows[d] \/ r = <<t, s>>
    BY <1>9, RowsGrow
  <2> QED BY <1>3, <1>9, <2>1 DEF FanOutIsCounted
<1>10. CASE NoSubscriber
  <2>1. /\ tick.pc = "fan" /\ Subscribers(d) = {} /\ jobs' = jobs /\ owed' = owed /\ tick'.d # d
        /\ rows'[d] = rows[d] \/ rows'[d] = AddRow(d, None, "dispatched")
        /\ NoFault => rows'[d] = AddRow(d, None, "dispatched")
    <3>1. tick.pc = "fan" /\ Subscribers(d) = {} /\ jobs' = jobs /\ owed' = owed
      BY <1>10 DEF NoSubscriber
    <3>2. tick'.d # d
      BY <1>4, <1>5, <1>10 DEF NoSubscriber
    <3>3. /\ rows' = rows \/ rows' = [rows EXCEPT ![d] = AddRow(d, None, "dispatched")]
          /\ NoFault => rows' = [rows EXCEPT ![d] = AddRow(d, None, "dispatched")]
      <4>1. ~(NoFault /\ Fault(d))
        BY <1>2, FaultIs DEF NoFault, InboundTyped
      <4> QED BY <1>10, <4>1 DEF NoSubscriber
    <3> QED BY <1>2, <3>1, <3>2, <3>3
  <2>2. \A x \in Trigger : <<x, "dispatched">> \in rows'[d] => jobs[d][x] > 0
    BY <1>2, <1>9, <2>1 DEF Statuses
  <2>3. owed[d] = {}
    BY <1>3, <2>1 DEF FanOutIsCounted
  <2>4. NoFault => rows'[d] # {}
    BY <2>1, RowsGrow DEF Statuses
  <2> QED BY <1>1, <1>6, <1>7, <2>1, <2>2, <2>3, <2>4

<1>11. ASSUME NEW t \in Trigger, Enqueue(t)
       PROVE  /\ FanOutIsCounted(d)'
              /\ tick'.d = d /\ tick'.pc \in {"fan", "record", "catch"}
  <2>1. /\ tick.pc = "fan" /\ t \in tick.todo /\ rows' = rows /\ owed' = owed
        /\ tick'.d = d /\ tick'.todo = tick.todo /\ tick'.trigs = tick.trigs /\ tick'.t = t
        /\ tick'.pc \in {"record", "catch"}
    BY <1>2, <1>11 DEF Enqueue, Ticks
  <2>2. /\ \A x \in Trigger : x # t => jobs'[d][x] = jobs[d][x]
        /\ jobs'[d][t] \in {jobs[d][t], jobs[d][t] + 1}
        /\ tick'.pc = "record" => jobs'[d][t] = jobs[d][t] + 1
        /\ tick'.pc = "catch" => hits'[d] = hits[d] + 1
    <3> DEFINE added == [jobs EXCEPT ![d][t] = @ + 1]
    <3>1. added[d][t] = jobs[d][t] + 1 /\ \A x \in Trigger : x # t => added[d][x] = jobs[d][x]
      BY <1>2
    <3>2. \/ jobs' = added /\ tick' = [tick EXCEPT !.pc = "record", !.t = t]
          \/ jobs' \in {jobs, added} /\ tick' = [tick EXCEPT !.pc = "catch", !.t = t] /\ Fault(d)
      BY <1>11 DEF Enqueue
    <3> HIDE DEF added
    <3>3. CASE jobs' = added /\ tick' = [tick EXCEPT !.pc = "record", !.t = t]
      <4>1. tick'.pc = "record"
        BY <1>2, <3>3 DEF Ticks
      <4> QED BY <3>1, <3>3, <4>1
    <3>4. CASE jobs' \in {jobs, added} /\ tick' = [tick EXCEPT !.pc = "catch", !.t = t] /\ Fault(d)
      <4>1. tick'.pc = "catch"
        BY <1>2, <3>4 DEF Ticks
      <4>2. hits'[d] = hits[d] + 1
        BY <3>4, FaultIs
      <4> QED BY <3>1, <3>4, <4>1, <4>2
    <3> QED BY <3>2, <3>3, <3>4
  <2>3. /\ jobs[d][t] <= hits[d]
        /\ \A x \in tick.todo : jobs[d][x] <= hits[d]
        /\ \A x \in Trigger : jobs[d][x] <= 1 + hits[d]
    BY <1>2, <1>3, <2>1 DEF FanOutIsCounted, Due, Ticks
  <2>4. /\ \A x \in Trigger : jobs'[d][x] <= 1 + hits'[d] /\ jobs'[d][x] \in Nat
        /\ \A x \in Trigger : Due(d, x)' => jobs'[d][x] <= hits'[d]
    <3>1. hits'[d] >= hits[d]
      BY <1>1, <1>2
    <3>2. \A x \in Trigger : jobs'[d][x] <= 1 + hits'[d] /\ jobs'[d][x] \in Nat
      BY <1>2, <2>2, <2>3, <3>1
    <3>3. \A x \in Trigger : Due(d, x)' => x \in tick.todo /\ x # t
      BY <2>1 DEF Due
    <3> QED BY <1>2, <2>2, <2>3, <3>1, <3>2, <3>3
  <2>5. Subscribers(d)' = Subscribers(d) /\ owed[d] = Subscribers(d)
    BY <1>3, <2>1 DEF Subscribers, FanOutIsCounted
  <2>6. \A x \in Trigger : <<x, "dispatched">> \in rows'[d] => jobs'[d][x] > 0
    BY <1>2, <1>3, <2>1, <2>2 DEF FanOutIsCounted
  <2>7. tick'.pc = "record" => jobs'[d][tick'.t] > 0
    BY <1>2, <2>1, <2>2
  <2>8. tick'.pc = "catch" => hits'[d] > 0
    BY <1>2, <2>2
  <2>9. hits'[d] = 0 => \A x \in owed'[d] \ tick'.todo : jobs'[d][x] = 1
    <3> SUFFICES ASSUME hits'[d] = 0, NEW x \in owed[d] \ tick.todo PROVE jobs'[d][x] = 1
      BY <2>1
    <3>1. hits[d] = 0 /\ x # t /\ x \in Trigger
      BY <1>1, <1>2, <2>1
    <3> QED BY <1>3, <2>1, <2>2, <3>1 DEF FanOutIsCounted
  <2>10. FanOutIsCounted(d)'
    BY <2>1, <2>4, <2>5, <2>6, <2>7, <2>8, <2>9 DEF FanOutIsCounted
  <2> QED BY <2>1, <2>10
\* The subscriber t is done with.
<1>12. ASSUME tick' = SubscriberDone, tick.pc \in {"record", "catch"},
              jobs' = jobs, owed' = owed, hits'[d] = hits[d], rows'[d] # {},
              \A t \in Trigger : <<t, "dispatched">> \in rows'[d] => jobs[d][t] > 0
       PROVE  /\ FanOutIsCounted(d)'
              /\ \/ tick'.d = d /\ tick'.pc \in {"fan", "record", "catch"}
                 \/ tick'.d # d /\ rows'[d] # {}
  <2>1. tick.t \in tick.todo /\ owed[d] = Subscribers(d) /\ tick.todo \subseteq Trigger
    BY <1>2, <1>3, <1>12 DEF FanOutIsCounted, Ticks
  <2>2. hits[d] = 0 => \A x \in owed[d] \ (tick.todo \ {tick.t}) : jobs[d][x] = 1
    <3> SUFFICES ASSUME hits[d] = 0, NEW x \in owed[d] \ (tick.todo \ {tick.t}) PROVE jobs[d][x] = 1
      OBVIOUS
    <3>1. tick.pc = "record" /\ x \in Trigger
      BY <1>2, <1>3, <1>12 DEF FanOutIsCounted
    <3>2. CASE x = tick.t
      BY <1>2, <1>3, <3>1, <3>2 DEF FanOutIsCounted
    <3>3. CASE x # tick.t
      BY <1>3, <3>1, <3>3 DEF FanOutIsCounted
    <3> QED BY <3>2, <3>3
  <2>3. CASE tick.todo = {tick.t}
    <3>1. tick'.d # d
      BY <1>4, <1>12, <2>3 DEF SubscriberDone
    <3>2. hits[d] = 0 => \A x \in owed[d] : jobs[d][x] = 1
      BY <2>2, <2>3
    <3> QED BY <1>7, <1>12, <3>1, <3>2
  <2>4. CASE tick.todo # {tick.t}
    <3>1. /\ tick'.d = d /\ tick'.pc = "fan" /\ tick'.todo = tick.todo \ {tick.t}
          /\ tick'.trigs = tick.trigs
      BY <1>2, <1>12, <2>4 DEF SubscriberDone, Ticks
    <3>2. Subscribers(d)' = Subscribers(d)
      BY <3>1 DEF Subscribers
    <3>3. \A x \in Trigger : Due(d, x)' => Due(d, x)
      BY <1>12, <3>1 DEF Due
    <3>4. FanOutIsCounted(d)'
      BY <1>3, <1>12, <2>1, <2>2, <3>1, <3>2, <3>3 DEF FanOutIsCounted
    <3> QED BY <3>1, <3>4
  <2> QED BY <2>3, <2>4
\* The row of the subscriber t is not written for sure.
<1>13. ASSUME tick' = [tick EXCEPT !.pc = "catch"], tick.pc = "record",
              jobs' = jobs, owed' = owed, hits'[d] = hits[d] + 1,
              \A t \in Trigger : <<t, "dispatched">> \in rows'[d] => jobs[d][t] > 0
       PROVE  /\ FanOutIsCounted(d)'
              /\ tick'.d = d /\ tick'.pc \in {"fan", "record", "catch"}
  <2>1. /\ tick'.d = d /\ tick'.pc = "catch" /\ tick'.todo = tick.todo /\ tick'.t = tick.t
        /\ tick'.trigs = tick.trigs
    BY <1>2, <1>13 DEF Ticks
  <2>2. Subscribers(d)' = Subscribers(d)
    BY <2>1 DEF Subscribers
  <2>3. \A x \in Trigger : jobs'[d][x] <= hits'[d] /\ jobs'[d][x] <= 1 + hits'[d]
    <3>1. \A x \in Trigger : jobs[d][x] <= 1 + hits[d]
      BY <1>3 DEF FanOutIsCounted
    <3> QED BY <1>2, <1>13, <3>1
  <2>4. hits'[d] > 0
    BY <1>2, <1>13
  <2>5. FanOutIsCounted(d)'
    BY <1>3, <1>13, <2>1, <2>2, <2>3, <2>4 DEF FanOutIsCounted
  <2> QED BY <2>1, <2>5
<1>14. CASE Record
  <2>1. /\ tick.pc = "record" /\ jobs' = jobs /\ owed' = owed
        /\ rows'[d] = rows[d] \/ rows'[d] = AddRow(d, tick.t, "dispatched")
    BY <1>2, <1>14 DEF Record
  <2>2. tick.t \in Trigger /\ jobs[d][tick.t] > 0
    BY <1>2, <1>3, <2>1 DEF FanOutIsCounted, Ticks
  <2>3. \A x \in Trigger : <<x, "dispatched">> \in rows'[d] => jobs[d][x] > 0
    BY <1>9, <2>1, <2>2 DEF Statuses
  <2>4. CASE rows' = [rows EXCEPT ![d] = AddRow(d, tick.t, "dispatched")] /\ tick' = SubscriberDone /\ NoFault
    <3>1. rows'[d] # {}
      BY <1>2, <2>2, <2>4, RowsGrow DEF Statuses
    <3>2. hits'[d] = hits[d]
      BY <2>4 DEF NoFault
    <3> QED BY <1>12, <2>1, <2>3, <2>4, <3>1, <3>2
  <2>5. CASE tick' = [tick EXCEPT !.pc = "catch"] /\ Fault(d)
    <3>1. hits'[d] = hits[d] + 1
      BY <2>5, FaultIs
    <3> QED BY <1>13, <2>1, <2>3, <2>5, <3>1
  <2> QED BY <1>14, <2>4, <2>5 DEF Record
<1>15. CASE RecordFailed
  <2>1. /\ tick.pc = "catch" /\ jobs' = jobs /\ owed' = owed
        /\ rows'[d] = rows[d] \/ rows'[d] = AddRow(d, tick.t, "failed")
    BY <1>2, <1>15 DEF RecordFailed
  <2>2. tick.t \in Trigger
    BY <1>2, <1>3, <2>1 DEF FanOutIsCounted, Ticks
  <2>3. \A x \in Trigger : <<x, "dispatched">> \in rows'[d] => jobs[d][x] > 0
    BY <1>9, <2>1, <2>2 DEF Statuses
  <2>4. CASE rows' = [rows EXCEPT ![d] = AddRow(d, tick.t, "failed")] /\ tick' = SubscriberDone /\ NoFault
    <3>1. rows'[d] # {}
      BY <1>2, <2>2, <2>4, RowsGrow DEF Statuses
    <3>2. hits'[d] = hits[d]
      BY <2>4 DEF NoFault
    <3> QED BY <1>12, <2>1, <2>3, <2>4, <3>1, <3>2
  <2>5. CASE tick' = Idle /\ Fault(d)
    <3>1. hits'[d] = hits[d] + 1
      BY <2>5, FaultIs
    <3> QED BY <1>5, <1>6, <2>1, <2>3, <2>5, <3>1
  <2> QED BY <1>15, <2>4, <2>5 DEF RecordFailed
<1>16. CASE Crash
  <2>1. jobs' = jobs /\ rows' = rows /\ tick' = Idle /\ Fault(d)
    BY <1>16 DEF Crash
  <2>2. hits'[d] = hits[d] + 1
    BY <2>1, FaultIs
  <2>3. \A t \in Trigger : <<t, "dispatched">> \in rows'[d] => jobs[d][t] > 0
    BY <1>3, <2>1 DEF FanOutIsCounted
  <2> QED BY <1>5, <1>6, <2>1, <2>2, <2>3
<1> QED BY <1>1, <1>8, <1>10, <1>11, <1>14, <1>15, <1>16

\* A fan-out, and a crash with a drawer in hand.
LEMMA FanKeeps ==
  ASSUME InboundTyped, InboundTyped', InboundInv,
         \/ StartFanOut \/ NoSubscriber \/ (\E t \in Trigger : Enqueue(t))
         \/ Record \/ RecordFailed \/ (Crash /\ tick.pc # "load")
  PROVE  InboundInv'
<1>1. /\ tick.d \in Drawer /\ tick.pc \notin {"idle", "load"} /\ Onward
      /\ UNCHANGED <<at, waiters, waiting>> /\ tick'.pc # "answer"
      /\ \A d \in Drawer : d # tick.d =>
           /\ rows'[d] = rows[d] /\ jobs'[d] = jobs[d] /\ owed'[d] = owed[d] /\ hits'[d] = hits[d]
  BY FanIs DEF InboundInv
<1>2. since' = since /\ open' = open /\ late' = late /\ answers' = answers
  BY <1>1 DEF waiters
<1>3. TickIsSound'
  BY <1>1, TickOnward DEF InboundInv
<1>4. ASSUME NEW d \in Drawer, d # tick.d PROVE FanOutIsCounted(d)' /\ DrawerIsOffered(d)'
  BY <1>1, <1>2, <1>4, OthersKept DEF InboundInv
<1>5. ASSUME NEW d \in Drawer, d = tick.d PROVE FanOutIsCounted(d)'
  BY <1>5, FanCounts
<1>6. ASSUME NEW d \in Drawer, d = tick.d PROVE DrawerIsOffered(d)'
  <2>1. \/ hits'[d] = hits[d] + 1
        \/ /\ hits'[d] = hits[d]
           /\ \/ tick'.d = d /\ tick'.pc \in {"fan", "record", "catch"}
              \/ tick'.d # d /\ rows'[d] # {}
    BY <1>6, FanCounts
  <2>2. CASE ~Crash
    <3>1. tick.pc \in {"scan", "fan", "record", "catch"} /\ (tick.pc = "scan" => tick.scan = {})
      BY <2>2 DEF StartFanOut, NoSubscriber, Enqueue, Record, RecordFailed
    <3> QED BY <1>1, <1>6, <2>1, <3>1, FanOffers
  <2>3. CASE Crash
    <3>1. hits'[d] = hits[d] + 1 /\ hits[d] \in Nat /\ hits'[d] \in Nat
      BY <1>6, <2>3, FaultIs DEF Crash, InboundTyped
    <3>2. hits'[d] >= hits[d] /\ hits'[d] > hits[d] /\ hits'[d] # 0
      BY <3>1
    <3> QED BY <1>1, <1>2, <3>2, OfferFrame DEF InboundInv
  <2> QED BY <2>2, <2>3
<1>7. WaitersAreKept'
  <2>1. tick'.scan \union tick'.opens \subseteq tick.scan \union tick.opens
    BY FanIs DEF InboundInv
  <2> QED BY <1>1, <1>2, <2>1, WaitersOnward DEF InboundInv
<1> QED BY <1>3, <1>4, <1>5, <1>6, <1>7 DEF InboundInv

LEMMA InboundInvNext ==
  ASSUME InboundTyped, InboundTyped', InboundInv, [InboundNext]_inboundVars
  PROVE  InboundInv'
<1>1. CASE UNCHANGED inboundVars
  <2>1. /\ UNCHANGED <<at, rows, jobs, owed, hits, waiting, tick>>
        /\ UNCHANGED <<since, open, late, answers>>
    BY <1>1 DEF inboundVars, waiters
  <2>2. TickIsSound' /\ WaitersAreKept'
    BY <2>1 DEF InboundInv, TickIsSound, WaitersAreKept, FirstWaiter
  <2>3. ASSUME NEW d \in Drawer PROVE FanOutIsCounted(d)' /\ DrawerIsOffered(d)'
    <3>1. FanOutIsCounted(d)'
      BY <2>1, FanFrame DEF InboundInv
    <3>2. DrawerIsOffered(d)'
      BY <2>1 DEF InboundInv, DrawerIsOffered, Answered, Asking, Listening
    <3> QED BY <3>1, <3>2
  <2> QED BY <2>2, <2>3 DEF InboundInv
\* A crash with no drawer in hand.
<1>2. CASE Crash /\ tick.pc = "load"
  <2>1. /\ UNCHANGED <<at, rows, jobs, owed, waiting>> /\ tick' = Idle /\ hits' = hits
        /\ since' = since /\ open' = open /\ late' = late /\ answers' = answers /\ tick.d = None
    BY <1>2, Uncharged DEF Crash, waiters, InboundInv, TickIsSound
  <2>2. tick'.d = None /\ tick'.pc = "idle" /\ tick'.pending = {} /\ tick'.scan = {} /\ tick'.opens = {}
    BY <2>1 DEF Idle
  <2>3. TickIsSound' /\ WaitersAreKept'
    <3>1. TickIsSound'
      BY <2>1, <2>2, InboundDispatchAssumption DEF InboundInv, TickIsSound
    <3> QED BY <2>1, <2>2, <3>1, WaitersOnward DEF InboundInv
  <2>4. ASSUME NEW d \in Drawer PROVE FanOutIsCounted(d)' /\ DrawerIsOffered(d)'
    <3>1. tick.d # d /\ tick'.d # d
      BY <2>1, <2>2, InboundDispatchAssumption
    <3>2. FanOutIsCounted(d)'
      BY <2>1, <3>1, FanFrame DEF InboundInv
    <3>3. Asking(d)' = Asking(d) /\ Listening(d)' = Listening(d) /\ Answered(d)' = Answered(d)
      BY <1>2, <2>1, <2>2, <3>1 DEF Asking, Listening, Answered
    <3>4. DrawerIsOffered(d)'
      BY <2>1, <3>3 DEF InboundInv, DrawerIsOffered
    <3> QED BY <3>2, <3>4
  <2> QED BY <2>3, <2>4 DEF InboundInv
<1>3. CASE Match
  BY <1>3, MatchKeeps DEF Match
<1>4. CASE World
  BY <1>4, WorldKeeps
<1>5. CASE Poll \/ LoadOpen
  BY <1>5, PollKeeps
<1>6. CASE \/ StartFanOut \/ NoSubscriber \/ (\E t \in Trigger : Enqueue(t))
           \/ Record \/ RecordFailed \/ (Crash /\ tick.pc # "load")
  BY <1>6, FanKeeps
<1> QED BY <1>1, <1>2, <1>3, <1>4, <1>5, <1>6 DEF InboundNext, Dispatch

LEMMA InboundInvariant == InboundSpec => [](InboundTyped /\ InboundInv)
<1>1. InboundInit => InboundTyped /\ InboundInv
  <2> SUFFICES ASSUME InboundInit PROVE InboundTyped /\ InboundInv
    OBVIOUS
  <2>1. Idle \in Ticks /\ tick = Idle
    BY DEF InboundInit, Idle, Ticks
  <2>2. InboundTyped
    BY <2>1 DEF InboundInit, InboundTyped, InboundTypeOK, Ticks
  <2>3. /\ tick.pc = "idle" /\ tick.d = None /\ tick.pending = {} /\ tick.opens = {} /\ tick.scan = {}
    BY <2>1 DEF Idle
  <2>4. TickIsSound
    BY <2>3, InboundDispatchAssumption DEF InboundInit, TickIsSound
  <2>5. WaitersAreKept
    <3>1. Count(since) \in Nat
      BY <2>2, CountIsNat, InboundDispatchAssumption DEF InboundTyped, InboundTypeOK
    <3>2. \A w \in Waiter : since[w] = 0 /\ answers[w] = {}
      BY DEF InboundInit
    <3>3. \A w \in Waiter : since[w] <= Count(since)
      BY <3>1, <3>2
    <3> QED BY <2>3, <3>2, <3>3 DEF InboundInit, WaitersAreKept
  <2>6. ASSUME NEW d \in Drawer PROVE FanOutIsCounted(d) /\ DrawerIsOffered(d)
    <3>1. tick.d # d /\ rows[d] = {} /\ hits[d] = 0 /\ waiting[d] = {} /\ owed[d] = {}
          /\ \A t \in Trigger : jobs[d][t] = 0
      BY <2>3, InboundDispatchAssumption DEF InboundInit
    <3>2. Answered(d) = {}
      BY DEF InboundInit, Answered
    <3>3. Cardinality(Answered(d)) = 0
      BY <3>2, FS_EmptySet
    <3>4. FanOutIsCounted(d)
      BY <3>1 DEF FanOutIsCounted
    <3>5. DrawerIsOffered(d)
      BY <3>1, <3>3 DEF DrawerIsOffered
    <3> QED BY <3>4, <3>5
  <2> QED BY <2>2, <2>4, <2>5, <2>6 DEF InboundInv
<1>2. InboundTyped /\ InboundInv /\ [InboundNext]_inboundVars => InboundTyped' /\ InboundInv'
  BY InboundTypesNext, InboundInvNext DEF InboundInv
<1> QED BY <1>1, <1>2, PTL DEF InboundSpec

\* For any messages, subscribers and faults: no subscriber is run twice for a
\* message and none is left out, but for a fault in the middle of its fan-out,
\* and what is recorded as dispatched was enqueued (dispatchPendingInbound).
THEOREM FanOutStaysAccountedFor == InboundSpec => []FanOutIsAccountedFor
<1>1. InboundTyped /\ InboundInv => FanOutIsAccountedFor
  <2> SUFFICES ASSUME InboundTyped, InboundInv PROVE FanOutIsAccountedFor
    OBVIOUS
  <2>1. ASSUME NEW d \in Drawer, Settled(d) PROVE tick.d # d /\ rows[d] # {}
    BY <2>1, InboundDispatchAssumption DEF Settled, InboundInv, TickIsSound
  <2> QED BY <2>1 DEF InboundTyped, InboundInv, FanOutIsCounted, FanOutIsAccountedFor
<1> QED BY <1>1, InboundInvariant, PTL

\* For any messages, waiters and faults: a waiter is answered by one message, and
\* a message answers one waiter but for faults; without one, a message that came
\* when a waiter listened is not lost to it (matchDrawerAgainstWaitpoints).
THEOREM WaitersStayServed == InboundSpec => []WaitersAreServed
<1>1. InboundTyped /\ InboundInv => WaitersAreServed
  <2> SUFFICES ASSUME InboundTyped, InboundInv PROVE WaitersAreServed
    OBVIOUS
  <2>1. ASSUME NEW w \in Waiter PROVE Cardinality(answers[w]) <= 1
    <3>1. answers[w] = {} \/ \E d \in answers[w] : answers[w] = {d}
      BY DEF InboundInv, WaitersAreKept
    <3>2. Cardinality(answers[w]) \in {0, 1}
      BY <3>1, FS_EmptySet, FS_Singleton
    <3> QED BY <3>2
  <2>2. ASSUME NEW d \in Drawer
        PROVE  /\ Cardinality(Answered(d)) <= 1 + hits[d]
               /\ Settled(d) /\ hits[d] = 0 /\ Answered(d) = {}
                    => waiting[d] \ late \subseteq Waiter \ open
    <3>1. Settled(d) => tick.d # d /\ rows[d] # {}
      BY InboundDispatchAssumption DEF Settled, InboundInv, TickIsSound
    <3>2. d \in tick.pending => rows[d] = {}
      BY DEF InboundInv, TickIsSound
    <3>3. Settled(d) => Listening(d) = {}
      BY <3>1, <3>2 DEF Listening
    <3>4. waiting[d] \subseteq Waiter
      BY DEF InboundTyped
    <3> QED BY <3>3, <3>4 DEF InboundInv, DrawerIsOffered
  <2> QED BY <2>1, <2>2 DEF WaitersAreServed, Answered
<1> QED BY <1>1, InboundInvariant, PTL

-----------------------------------------------------------------------------
(* The batch dispatcher *)

Picked == {"items", "claim", "enqueue", "mark", "undo"}
Claimed == {"enqueue", "mark", "undo"}

\* An item may be given to a run: it is in no batch that counts, unless a failed
\* one could not be marked, and no run has it without a failure.
Ready(i) == fires[i] <= marred[i] /\ (Live(i) = {} \/ marred[i] > 1)

\* The items that were selected and not fired are ready, but for those of the
\* batch at hand.
SelectionIsReady ==
  /\ poll.pc \in {"idle", "select", "items"} => poll.batch = {}
  /\ poll.pc = "select" => poll.fired = {}
  /\ poll.pc \in Picked =>
       /\ \A i \in poll.items \ poll.fired : i \in poll.batch \/ Ready(i)
       /\ poll.single \subseteq poll.items \ (poll.fired \union poll.batch)
  /\ poll.pc = "claim" => \A i \in poll.batch : Ready(i)

\* The batch at hand is the last one claimed, and how far its run has come.
BatchIsLast ==
  /\ poll.pc \in Claimed =>
       /\ batches # <<>> /\ batches[Len(batches)].items = poll.batch
       /\ batches[Len(batches)].status # "failed"
       /\ \A i \in poll.batch : marred[i] < 2 => \A n \in Live(i) : n = Len(batches)
  /\ poll.pc \in {"enqueue", "undo"} => \A i \in poll.batch : fires[i] <= marred[i]
  /\ poll.pc = "undo" => \A i \in poll.batch : marred[i] > 0
  /\ poll.pc = "mark" => \A i \in poll.batch : fires[i] > 0

\* An item whose batches met no fault is in one at most, and ran once when it is.
ItemsAreKept ==
  \A i \in Item :
    /\ fires[i] <= 1 + marred[i]
    /\ marred[i] < 2 => \A m, n \in Live(i) : m = n
    /\ Live(i) # {} /\ i \notin poll.batch /\ marred[i] = 0 => fires[i] = 1
    /\ Live(i) = {} => fires[i] <= marred[i]

BatchInv == SelectionIsReady /\ BatchIsLast /\ ItemsAreKept
LEMMA BatchTypesNext ==
  ASSUME BatchTypeOK, [BatchNext]_batchVars
  PROVE  BatchTypeOK'
<1> USE BatchDispatchAssumption
<1> DEFINE Rows == [items : SUBSET Item, status : {"claimed", "dispatched", "failed"}]
<1>1. ASSUME NEW S \in SUBSET Item, FailWith(S)
      PROVE  fails' \in 0..MaxFails /\ marred' \in [Item -> Nat]
  BY <1>1 DEF FailWith, BatchTypeOK
<1>2. ASSUME Fine PROVE fails' \in 0..MaxFails /\ marred' \in [Item -> Nat]
  BY <1>2 DEF Fine, BatchTypeOK
<1>3. poll.batch \in SUBSET Item /\ poll.items \in SUBSET Item
  BY DEF BatchTypeOK
<1>4. Fired \in [Item -> Nat]
  BY DEF Fired, BatchTypeOK
<1>5. ASSUME NEW ok \in BOOLEAN
      PROVE  AfterBatch(ok) \in [pc : {"idle", "select", "items", "claim", "enqueue", "mark", "undo"},
               items : SUBSET Item, single : SUBSET Item, fired : SUBSET Item,
               batch : SUBSET Item, whole : BOOLEAN]
  BY DEF AfterBatch, NoPoll, BatchTypeOK
<1>6. ASSUME NEW s \in {"dispatched", "failed"} PROVE Marked(s) \in Seq(Rows)
  <2>1. batches \in Seq(Rows)
    BY DEF BatchTypeOK
  <2>2. Marked(s) = [batches EXCEPT ![Len(batches)] = [batches[Len(batches)] EXCEPT !.status = s]]
    BY DEF Marked
  <2>3. CASE Len(batches) \in DOMAIN batches
    <3>1. \A r \in Rows : [r EXCEPT !.status = s] \in Rows
      OBVIOUS
    <3> HIDE DEF Rows
    <3>2. [batches[Len(batches)] EXCEPT !.status = s] \in Rows
      BY <2>1, <2>3, <3>1
    <3> QED BY <2>1, <2>2, <2>3, <3>2
  <2>4. CASE Len(batches) \notin DOMAIN batches
    <3> HIDE DEF Rows
    <3>1. Marked(s) = batches
      BY <2>1, <2>2, <2>4
    <3> QED BY <2>1, <3>1
  <2> QED BY <2>3, <2>4
<1>7. ASSUME NEW i \in Item, Place(i) PROVE BatchTypeOK'
  <2>1. Cardinality({j \in Item : placed[j] > 0}) \in Nat
    BY FS_Subset, FS_CardinalityType
  <2> QED BY <1>2, <1>7, <2>1 DEF Place, BatchTypeOK, clock
<1>8. CASE Passes
  <2>1. old' \subseteq Item /\ due' \subseteq Item
    BY <1>8 DEF Passes, BatchTypeOK
  <2>2. past' \in BOOLEAN
    BY <1>8 DEF Passes, BatchTypeOK
  <2>3. crossed' \in BOOLEAN
    BY <1>8 DEF Passes, BatchTypeOK
  <2>4. crossings' \in 0..MaxCrossings
    <3>1. crossings \in 0..MaxCrossings /\ MaxCrossings \in Nat
      BY DEF BatchTypeOK
    <3>2. crossings' = crossings \/ (crossings < MaxCrossings /\ crossings' = crossings + 1)
      BY <1>8 DEF Passes
    <3> QED BY <3>1, <3>2
  <2> QED BY <1>2, <1>8, <2>1, <2>2, <2>3, <2>4 DEF Passes, BatchTypeOK
<1>9. CASE Expire \/ Begin
  BY <1>2, <1>9 DEF Expire, Begin, NoPoll, BatchTypeOK, clock
<1>10. CASE SelectItems
  BY <1>2, <1>10 DEF SelectItems, Selected, PerItemDue, Pending, BatchTypeOK, clock
<1>11. ASSUME NEW i \in Item, NextItem(i) PROVE BatchTypeOK'
  BY <1>2, <1>11 DEF NextItem, BatchTypeOK, clock
<1>12. CASE Evaluate
  BY <1>2, <1>12 DEF Evaluate, NoPoll, Remaining, BatchTypeOK, clock
<1>13. CASE Claim
  <2>1. [items |-> poll.batch, status |-> "claimed"] \in Rows
    BY <1>3
  <2>2. Append(batches, [items |-> poll.batch, status |-> "claimed"]) \in Seq(Rows)
    <3>1. batches \in Seq(Rows)
      BY DEF BatchTypeOK
    <3> HIDE DEF Rows
    <3> QED BY <2>1, <3>1
  <2>3. batches' \in Seq(Rows)
    BY <1>13, <2>2 DEF Claim, BatchTypeOK
  <2>4. poll' \in [pc : {"idle", "select", "items", "claim", "enqueue", "mark", "undo"},
               items : SUBSET Item, single : SUBSET Item, fired : SUBSET Item,
               batch : SUBSET Item, whole : BOOLEAN]
    BY <1>5, <1>13 DEF Claim, BatchTypeOK
  <2>5. fails' \in 0..MaxFails /\ marred' \in [Item -> Nat]
    BY <1>1, <1>2, <1>3, <1>13 DEF Claim
  <2> QED BY <1>13, <2>3, <2>4, <2>5 DEF Claim, BatchTypeOK, clock
<1>14. CASE EnqueueBatch
  <2>1. fails' \in 0..MaxFails /\ marred' \in [Item -> Nat]
    BY <1>1, <1>2, <1>3, <1>14 DEF EnqueueBatch
  <2> QED BY <1>4, <1>14, <2>1 DEF EnqueueBatch, BatchTypeOK, clock
<1>15. CASE MarkDispatched \/ Undo
  <2>1. fails' \in 0..MaxFails /\ marred' \in [Item -> Nat]
    BY <1>1, <1>2, <1>3, <1>15 DEF MarkDispatched, Undo
  <2>2. batches' \in Seq(Rows)
    BY <1>6, <1>15 DEF MarkDispatched, Undo, BatchTypeOK
  <2>3. poll' \in [pc : {"idle", "select", "items", "claim", "enqueue", "mark", "undo"},
               items : SUBSET Item, single : SUBSET Item, fired : SUBSET Item,
               batch : SUBSET Item, whole : BOOLEAN]
    BY <1>5, <1>15 DEF MarkDispatched, Undo, BatchTypeOK
  <2> QED BY <1>15, <2>1, <2>2, <2>3 DEF MarkDispatched, Undo, BatchTypeOK, clock
<1>16. CASE Die
  BY <1>1, <1>3, <1>16 DEF Die, NoPoll, BatchTypeOK, clock
<1>17. CASE UNCHANGED batchVars
  BY <1>17 DEF batchVars, clock, BatchTypeOK
<1> QED BY <1>7, <1>8, <1>9, <1>10, <1>11, <1>12, <1>13, <1>14, <1>15, <1>16, <1>17
        DEF BatchNext, PollStep

\* A batch that is marked is the last one, and only its status changes.
LEMMA MarkedIs ==
  ASSUME BatchTypeOK, batches # <<>>, NEW s \in {"dispatched", "failed"}
  PROVE  /\ DOMAIN Marked(s) = DOMAIN batches /\ Len(Marked(s)) = Len(batches)
         /\ Marked(s) # <<>> /\ Len(batches) \in DOMAIN batches
         /\ \A n \in DOMAIN batches : Marked(s)[n].items = batches[n].items
         /\ \A n \in DOMAIN batches : n # Len(batches) => Marked(s)[n].status = batches[n].status
         /\ Marked(s)[Len(batches)].status = s
<1> DEFINE Rows == [items : SUBSET Item, status : {"claimed", "dispatched", "failed"}]
<1>1. batches \in Seq(Rows)
  BY DEF BatchTypeOK
<1>2. Marked(s) = [batches EXCEPT ![Len(batches)] = [batches[Len(batches)] EXCEPT !.status = s]]
  BY DEF Marked
<1>3. \A r \in Rows : /\ [r EXCEPT !.status = s] \in Rows
                      /\ [r EXCEPT !.status = s].items = r.items
                      /\ [r EXCEPT !.status = s].status = s
  OBVIOUS
<1> HIDE DEF Rows
<1>4. Len(batches) \in DOMAIN batches /\ batches[Len(batches)] \in Rows
  BY <1>1
<1>5. /\ DOMAIN Marked(s) = DOMAIN batches /\ Len(Marked(s)) = Len(batches) /\ Marked(s) # <<>>
      /\ \A n \in DOMAIN batches : Marked(s)[n] = IF n = Len(batches)
           THEN [batches[Len(batches)] EXCEPT !.status = s] ELSE batches[n]
  BY <1>1, <1>2, <1>3, <1>4
<1> QED BY <1>3, <1>4, <1>5

\* What a claim, a mark and an undo do to the batches of an item.
LEMMA LiveAfter ==
  ASSUME BatchTypeOK, NEW i \in Item
  PROVE  /\ batches' = batches => Live(i)' = Live(i)
         /\ \A S \in SUBSET Item : batches' = Append(batches, [items |-> S, status |-> "claimed"])
              => Live(i)' = Live(i) \union (IF i \in S THEN {Len(batches')} ELSE {})
         /\ batches # <<>> /\ batches[Len(batches)].status # "failed" /\ batches' = Marked("dispatched")
              => Live(i)' = Live(i)
         /\ batches # <<>> /\ batches' = Marked("failed")
              => Live(i)' = Live(i) \ {Len(batches)}
<1> DEFINE Rows == [items : SUBSET Item, status : {"claimed", "dispatched", "failed"}]
<1>1. batches \in Seq(Rows)
  BY DEF BatchTypeOK
<1>2. batches' = batches => Live(i)' = Live(i)
  BY DEF Live
<1>3. ASSUME NEW S \in SUBSET Item, batches' = Append(batches, [items |-> S, status |-> "claimed"])
      PROVE  Live(i)' = Live(i) \union (IF i \in S THEN {Len(batches')} ELSE {})
  <2>1. PICK row : row = [items |-> S, status |-> "claimed"]
    OBVIOUS
  <2>2. /\ Len(batches') = Len(batches) + 1 /\ DOMAIN batches' = DOMAIN batches \union {Len(batches')}
        /\ batches'[Len(batches')] = row /\ \A n \in DOMAIN batches : batches'[n] = batches[n]
        /\ Len(batches') \notin DOMAIN batches
    <3>1. row \in Rows
      BY <2>1
    <3> HIDE DEF Rows
    <3> QED BY <1>1, <1>3, <2>1, <3>1
  <2> QED BY <2>1, <2>2 DEF Live
<1>4. ASSUME batches # <<>>, NEW s \in {"dispatched", "failed"}, batches' = Marked(s)
      PROVE  /\ DOMAIN batches' = DOMAIN batches /\ Len(batches) \in DOMAIN batches
             /\ \A n \in DOMAIN batches : batches'[n].items = batches[n].items
             /\ \A n \in DOMAIN batches : n # Len(batches) => batches'[n].status = batches[n].status
             /\ batches'[Len(batches)].status = s
  BY <1>4, MarkedIs
<1>5. batches # <<>> /\ batches[Len(batches)].status # "failed" /\ batches' = Marked("dispatched")
        => Live(i)' = Live(i)
  BY <1>4 DEF Live
<1>6. batches # <<>> /\ batches' = Marked("failed") => Live(i)' = Live(i) \ {Len(batches)}
  BY <1>4 DEF Live
<1> QED BY <1>2, <1>3, <1>5, <1>6

LEMMA BatchInvNext ==
  ASSUME BatchTypeOK, BatchTypeOK', BatchInv, [BatchNext]_batchVars
  PROVE  BatchInv'
<1> USE DEF BatchInv
<1>0. /\ fires \in [Item -> Nat] /\ marred \in [Item -> Nat] /\ poll.batch \subseteq Item
      /\ poll.items \subseteq Item
      /\ fires' \in [Item -> Nat] /\ marred' \in [Item -> Nat] /\ poll'.batch \subseteq Item
      /\ poll'.items \subseteq Item
      /\ poll.pc \in {"idle", "select", "items", "claim", "enqueue", "mark", "undo"}
  BY DEF BatchTypeOK
<1>1. batches' = batches => \A i \in Item : Live(i)' = Live(i)
  BY LiveAfter
<1>18. /\ \A k \in DOMAIN batches : batches[k].status \in {"claimed", "dispatched", "failed"}
       /\ batches # <<>> => Len(batches) \in DOMAIN batches
  <2> DEFINE Rows == [items : SUBSET Item, status : {"claimed", "dispatched", "failed"}]
  <2>1. batches \in Seq(Rows)
    BY DEF BatchTypeOK
  <2>2. \A r \in Rows : r.status \in {"claimed", "dispatched", "failed"}
    OBVIOUS
  <2> HIDE DEF Rows
  <2>3. \A k \in DOMAIN batches : batches[k] \in Rows
    BY <2>1
  <2>4. batches # <<>> => Len(batches) \in DOMAIN batches
    BY <2>1
  <2> QED BY <2>2, <2>3, <2>4
<1>2. ASSUME NEW S \in SUBSET Item, FailWith(S)
      PROVE  \A i \in Item : marred'[i] = IF i \in S THEN marred[i] + 1 ELSE marred[i]
  BY <1>2 DEF FailWith
<1>3. Fine => marred' = marred
  BY DEF Fine
<1>4. ASSUME UNCHANGED <<batches, poll, fires, marred>> PROVE BatchInv'
  <2>1. \A i \in Item : Live(i)' = Live(i) /\ Ready(i)' = Ready(i)
    BY <1>1, <1>4 DEF Ready
  <2>2. SelectionIsReady'
    BY <1>0, <1>4, <2>1 DEF SelectionIsReady, Picked
  <2>3. BatchIsLast'
    BY <1>0, <1>4, <2>1 DEF BatchIsLast, Claimed
  <2>4. ItemsAreKept'
    BY <1>4, <2>1 DEF ItemsAreKept
  <2> QED BY <2>2, <2>3, <2>4
\* A poll ends.
<1>5. ASSUME batches' = batches, fires' = fires, poll' = NoPoll \/ poll' = [NoPoll EXCEPT !.pc = "select"],
             \/ marred' = marred /\ poll.pc \in {"idle", "items"} /\ poll.batch = {}
             \/ \A i \in Item : marred'[i] = IF i \in poll.batch THEN marred[i] + 1 ELSE marred[i]
      PROVE  BatchInv'
  <2>1. poll'.pc \in {"idle", "select"} /\ poll'.batch = {} /\ poll'.fired = {}
    BY <1>5 DEF NoPoll
  <2>2. \A i \in Item : /\ marred'[i] >= marred[i]
                        /\ marred'[i] = 0 => marred[i] = 0 /\ i \notin poll.batch
    BY <1>0, <1>5
  <2>3. ItemsAreKept'
    BY <1>0, <1>1, <1>5, <2>2 DEF ItemsAreKept
  <2>4. SelectionIsReady' /\ BatchIsLast'
    BY <2>1 DEF SelectionIsReady, BatchIsLast, Picked, Claimed
  <2> QED BY <2>3, <2>4
<1>6. CASE Begin
  BY <1>3, <1>5, <1>6 DEF Begin, SelectionIsReady
<1>7. CASE Die
  BY <1>0, <1>2, <1>5, <1>7 DEF Die
<1>8. CASE SelectItems
  <2>1. /\ poll'.pc = "items" /\ poll'.items = Selected /\ poll'.single = PerItemDue
        /\ poll'.fired = poll.fired /\ poll'.batch = {} /\ UNCHANGED <<batches, fires, marred>>
    BY <1>3, <1>8 DEF SelectItems, SelectionIsReady, BatchTypeOK
  <2>2. \A i \in Selected : i \in Item /\ Live(i) = {}
    <3>1. ASSUME NEW k \in DOMAIN batches PROVE batches[k].status \in {"claimed", "dispatched", "failed"}
      BY <1>18
    <3>2. \A i \in Selected : i \in Item /\ i \in Pending
      BY DEF Selected, Pending
    <3>3. \A i \in Pending : Live(i) = {}
      BY <3>1 DEF Pending, Live, Blocking
    <3> QED BY <3>2, <3>3
  <2>3. \A i \in Selected : Ready(i)' 
    BY <1>1, <2>1, <2>2 DEF ItemsAreKept, Ready
  <2>4. poll'.fired = {}
    BY <1>8, <2>1 DEF SelectItems, SelectionIsReady
  <2>5. SelectionIsReady'
    BY <2>1, <2>3, <2>4 DEF SelectionIsReady, PerItemDue, Picked
  <2>6. ItemsAreKept'
    BY <1>1, <1>8, <2>1 DEF ItemsAreKept, SelectionIsReady, SelectItems
  <2>7. BatchIsLast'
    BY <2>1 DEF BatchIsLast, Claimed
  <2> QED BY <2>5, <2>6, <2>7
\* An item or the rest of them is taken to be claimed.
<1>9. ASSUME UNCHANGED <<batches, fires, marred>>, poll.pc = "items", poll'.pc = "claim",
             poll'.items = poll.items, poll'.fired = poll.fired,
             poll'.batch \subseteq poll.items \ poll.fired,
             poll'.single \subseteq poll.single \ poll'.batch
      PROVE  BatchInv'
  <2>1. \A i \in Item : Live(i)' = Live(i) /\ Ready(i)' = Ready(i)
    BY <1>1, <1>9 DEF Ready
  <2>2. poll.batch = {}
    BY <1>9 DEF SelectionIsReady
  <2>3. SelectionIsReady'
    BY <1>0, <1>9, <2>1, <2>2 DEF SelectionIsReady, Picked
  <2>4. ItemsAreKept'
    BY <1>9, <2>1, <2>2 DEF ItemsAreKept
  <2>5. BatchIsLast'
    BY <1>9 DEF BatchIsLast, Claimed
  <2> QED BY <2>3, <2>4, <2>5
<1>10. ASSUME NEW i \in Item, NextItem(i) PROVE BatchInv'
  <2>1. /\ UNCHANGED <<batches, fires, marred>> /\ poll.pc = "items" /\ i \in poll.single
        /\ poll'.pc = "claim" /\ poll'.items = poll.items /\ poll'.fired = poll.fired
        /\ poll'.batch = {i} /\ poll'.single = poll.single \ {i}
    BY <1>3, <1>10 DEF NextItem, BatchTypeOK
  <2>2. i \in poll.items \ poll.fired
    BY <2>1 DEF SelectionIsReady, Picked
  <2> QED BY <1>9, <2>1, <2>2
<1>11. CASE Evaluate
  <2>1. UNCHANGED <<batches, fires, marred>> /\ poll.pc = "items" /\ poll.single = {} /\ poll.batch = {}
    BY <1>3, <1>11 DEF Evaluate, SelectionIsReady
  <2>2. CASE poll' = NoPoll
    BY <1>5, <2>1, <2>2
  <2>3. CASE poll' = [poll EXCEPT !.pc = "claim", !.batch = Remaining, !.whole = TRUE]
    <3>1. /\ poll'.pc = "claim" /\ poll'.items = poll.items /\ poll'.fired = poll.fired
          /\ poll'.batch = poll.items \ poll.fired /\ poll'.single = {}
      BY <2>1, <2>3 DEF Remaining, BatchTypeOK
    <3> QED BY <1>9, <2>1, <3>1
  <2> QED BY <1>11, <2>2, <2>3 DEF Evaluate
\* A batch is done with, and its items are ready again or have fired.
<1>12. ASSUME NEW ok \in BOOLEAN, poll' = AfterBatch(ok), ItemsAreKept', poll.pc \in Picked,
              ~ok => \A i \in poll.batch : Ready(i)',
              \A i \in Item \ poll.batch : Ready(i) => Ready(i)'
       PROVE  BatchInv'
  <2>1. CASE poll.whole
    BY <1>12, <2>1 DEF AfterBatch, NoPoll, SelectionIsReady, BatchIsLast, Picked, Claimed
  <2>2. CASE ~poll.whole
    <3>1. /\ poll'.pc = "items" /\ poll'.items = poll.items /\ poll'.batch = {}
          /\ poll'.single = poll.single
          /\ poll'.fired = IF ok THEN poll.fired \union poll.batch ELSE poll.fired
      BY <1>12, <2>2 DEF AfterBatch, BatchTypeOK
    <3>2. \A i \in poll'.items \ poll'.fired : Ready(i)'
      BY <1>0, <1>12, <3>1 DEF SelectionIsReady
    <3>3. poll'.single \subseteq poll'.items \ poll'.fired
      BY <1>12, <3>1 DEF SelectionIsReady
    <3> QED BY <1>12, <3>1, <3>2, <3>3 DEF SelectionIsReady, BatchIsLast, Picked, Claimed
  <2> QED BY <2>1, <2>2
\* A batch goes on to another statement.
<1>13. ASSUME poll'.items = poll.items, poll'.single = poll.single, poll'.fired = poll.fired,
              poll'.batch = poll.batch, poll.pc \in Picked, poll'.pc \in Claimed,
              \A i \in Item \ poll.batch : Ready(i) => Ready(i)'
       PROVE  SelectionIsReady'
  BY <1>0, <1>13 DEF SelectionIsReady, Picked, Claimed
<1>14. CASE Claim
  <2>1. CASE poll' = AfterBatch(FALSE) /\ batches' = batches /\ FailWith(poll.batch)
    <3>1. fires' = fires /\ poll.pc = "claim"
      BY <1>14 DEF Claim
    <3>2. \A i \in Item : /\ Live(i)' = Live(i) /\ marred'[i] >= marred[i]
                          /\ i \notin poll.batch => marred'[i] = marred[i]
                          /\ i \in poll.batch => marred'[i] > 0
      BY <1>0, <1>1, <1>2, <2>1
    <3>3. \A i \in Item : Ready(i) => Ready(i)'
      BY <1>0, <3>1, <3>2 DEF Ready
    <3>4. ItemsAreKept'
      BY <1>0, <3>1, <3>2 DEF ItemsAreKept
    <3> QED BY <1>0, <1>12, <2>1, <3>1, <3>3, <3>4 DEF SelectionIsReady, Picked
  <2>2. CASE /\ batches' = Append(batches, [items |-> poll.batch, status |-> "claimed"])
             /\ poll' = [poll EXCEPT !.pc = "enqueue"] /\ Fine
    <3>1. /\ fires' = fires /\ marred' = marred /\ poll.pc = "claim" /\ poll'.pc = "enqueue"
          /\ poll'.items = poll.items /\ poll'.single = poll.single
          /\ poll'.fired = poll.fired /\ poll'.batch = poll.batch
      BY <1>3, <1>14, <2>2 DEF Claim, BatchTypeOK
    <3>2. \A i \in Item : Live(i)' = Live(i) \union (IF i \in poll.batch THEN {Len(batches')} ELSE {})
      BY <1>0, <2>2, LiveAfter
    <3>3. batches' # <<>> /\ batches'[Len(batches')] = [items |-> poll.batch, status |-> "claimed"]
      <4>1. batches \in Seq([items : SUBSET Item, status : {"claimed", "dispatched", "failed"}])
        BY DEF BatchTypeOK
      <4> QED BY <2>2, <4>1
    <3>4. \A i \in poll.batch : Ready(i)
      BY <3>1 DEF SelectionIsReady
    <3>5. SelectionIsReady'
      BY <1>13, <3>1, <3>2 DEF Ready, Picked, Claimed
    <3>6. BatchIsLast'
      BY <1>0, <3>1, <3>2, <3>3, <3>4 DEF BatchIsLast, Ready, Claimed
    <3>7. ItemsAreKept'
      BY <1>0, <3>1, <3>2, <3>4 DEF ItemsAreKept, Ready
    <3> QED BY <3>5, <3>6, <3>7
  <2> QED BY <1>14, <2>1, <2>2 DEF Claim
<1>15. CASE EnqueueBatch
  <2>1. /\ batches' = batches /\ poll.pc = "enqueue" /\ poll'.pc \in {"mark", "undo"}
        /\ poll'.items = poll.items /\ poll'.single = poll.single
        /\ poll'.fired = poll.fired /\ poll'.batch = poll.batch
    BY <1>15 DEF EnqueueBatch, BatchTypeOK
  <2>2. \A i \in Item \ poll.batch : fires'[i] = fires[i] /\ marred'[i] = marred[i]
    BY <1>0, <1>2, <1>3, <1>15 DEF EnqueueBatch, Fired
  <2>3. \A i \in poll.batch :
          \/ poll'.pc = "mark" /\ fires'[i] = fires[i] + 1 /\ marred'[i] = marred[i]
          \/ poll'.pc = "undo" /\ fires'[i] \in {fires[i], fires[i] + 1} /\ marred'[i] = marred[i] + 1
    <3>1. \A i \in poll.batch : Fired[i] = fires[i] + 1
      BY <1>0 DEF Fired
    <3>2. CASE fires' = Fired /\ poll' = [poll EXCEPT !.pc = "mark"] /\ Fine
      <4>1. poll'.pc = "mark" /\ marred' = marred
        BY <1>3, <3>2 DEF BatchTypeOK
      <4> QED BY <3>1, <3>2, <4>1
    <3>3. CASE fires' \in {fires, Fired} /\ poll' = [poll EXCEPT !.pc = "undo"] /\ FailWith(poll.batch)
      <4>1. poll'.pc = "undo" /\ \A i \in poll.batch : marred'[i] = marred[i] + 1
        BY <1>0, <1>2, <3>3 DEF BatchTypeOK
      <4> QED BY <3>1, <3>3, <4>1
    <3> QED BY <1>15, <3>2, <3>3 DEF EnqueueBatch
  <2>4. \A i \in Item : Live(i)' = Live(i)
    BY <1>1, <2>1
  <2>5. SelectionIsReady'
    BY <1>13, <2>1, <2>2, <2>4 DEF Ready, Picked, Claimed
  <2>6. BatchIsLast'
    <3>1. \A i \in poll.batch : fires[i] <= marred[i]
      BY <2>1 DEF BatchIsLast
    <3>2. /\ batches # <<>> /\ batches[Len(batches)].items = poll.batch
          /\ batches[Len(batches)].status # "failed"
          /\ \A i \in poll.batch : marred[i] < 2 => \A n \in Live(i) : n = Len(batches)
      BY <2>1 DEF BatchIsLast, Claimed
    <3>3. \A i \in poll.batch :
            /\ marred'[i] < 2 => marred[i] < 2
            /\ poll'.pc = "undo" => fires'[i] <= marred'[i] /\ marred'[i] > 0
            /\ poll'.pc = "mark" => fires'[i] > 0
      BY <1>0, <2>3, <3>1
    <3>4. \A i \in poll.batch : marred'[i] < 2 => \A n \in Live(i)' : n = Len(batches')
      BY <1>0, <2>1, <2>4, <3>2, <3>3
    <3> QED BY <2>1, <3>2, <3>3, <3>4 DEF BatchIsLast
  <2>7. ASSUME NEW i \in Item
        PROVE  /\ fires'[i] <= 1 + marred'[i]
               /\ marred'[i] < 2 => \A m, n \in Live(i)' : m = n
               /\ Live(i)' # {} /\ i \notin poll'.batch /\ marred'[i] = 0 => fires'[i] = 1
               /\ Live(i)' = {} => fires'[i] <= marred'[i]
    <3>1. CASE i \notin poll.batch
      BY <2>1, <2>2, <2>4, <3>1 DEF ItemsAreKept
    <3>2. CASE i \in poll.batch
      <4>1. Live(i) # {} /\ fires[i] <= marred[i]
        BY <2>1, <3>2 DEF BatchIsLast, Live, Claimed
      <4>2. marred'[i] < 2 => marred[i] < 2
        BY <1>0, <2>3, <3>2
      <4> QED BY <1>0, <2>1, <2>3, <2>4, <3>2, <4>1, <4>2 DEF ItemsAreKept
    <3> QED BY <3>1, <3>2
  <2>8. ItemsAreKept'
    BY <2>7 DEF ItemsAreKept
  <2> QED BY <2>5, <2>6, <2>8
<1>16. CASE MarkDispatched
  <2>1. /\ fires' = fires /\ poll.pc = "mark" /\ batches # <<>>
        /\ batches[Len(batches)].items = poll.batch /\ batches[Len(batches)].status # "failed"
    BY <1>16 DEF MarkDispatched, BatchIsLast, Claimed
  <2>2. \A i \in Item : Live(i)' = Live(i)
    BY <1>1, <1>16, <2>1, LiveAfter DEF MarkDispatched
  <2>3. \A i \in poll.batch : i \in Item /\ Live(i) # {} /\ fires[i] > 0
    BY <1>0, <2>1 DEF BatchIsLast, Live
  <2>4. CASE batches' = Marked("dispatched") /\ poll' = AfterBatch(TRUE) /\ Fine
    <3>1. marred' = marred
      BY <1>3, <2>4
    <3>2. ItemsAreKept'
      BY <1>0, <2>1, <2>2, <2>3, <3>1 DEF ItemsAreKept
    <3>3. \A i \in Item : Ready(i) => Ready(i)'
      BY <2>1, <2>2, <3>1 DEF Ready
    <3> QED BY <1>12, <2>1, <2>4, <3>2, <3>3 DEF Picked
  <2>5. CASE /\ batches' \in {batches, Marked("dispatched")}
             /\ poll' = [poll EXCEPT !.pc = "undo"] /\ FailWith(poll.batch)
    <3>1. /\ poll'.pc = "undo" /\ poll'.items = poll.items /\ poll'.single = poll.single
          /\ poll'.fired = poll.fired /\ poll'.batch = poll.batch
      BY <2>5 DEF BatchTypeOK
    <3>2. \A i \in Item : marred'[i] = IF i \in poll.batch THEN marred[i] + 1 ELSE marred[i]
      BY <1>0, <1>2, <2>5
    <3>3. /\ batches' # <<>> /\ Len(batches') = Len(batches)
          /\ batches'[Len(batches')].items = poll.batch /\ batches'[Len(batches')].status # "failed"
      <4>1. CASE batches' = batches
        BY <2>1, <4>1
      <4>2. CASE batches' = Marked("dispatched")
        BY <2>1, <4>2, MarkedIs
      <4> QED BY <2>5, <4>1, <4>2
    <3>4. SelectionIsReady'
      BY <1>13, <2>1, <2>2, <3>1, <3>2 DEF Ready, Picked, Claimed
    <3>5. BatchIsLast'
      <4>1. \A i \in poll.batch : /\ i \in Item /\ marred'[i] = marred[i] + 1
                                  /\ fires[i] <= 1 + marred[i] /\ Live(i)' = Live(i)
        BY <1>0, <2>2, <3>2 DEF ItemsAreKept
      <4>2. \A i \in poll.batch : fires'[i] <= marred'[i] /\ marred'[i] > 0 /\ (marred'[i] < 2 => marred[i] < 2)
        BY <1>0, <2>1, <4>1
      <4>3. \A i \in poll.batch : marred[i] < 2 => \A n \in Live(i) : n = Len(batches)
        BY <2>1 DEF BatchIsLast, Claimed
      <4>4. \A i \in poll.batch : marred'[i] < 2 => \A n \in Live(i)' : n = Len(batches')
        BY <3>3, <4>1, <4>2, <4>3
      <4> QED BY <3>1, <3>3, <4>2, <4>4 DEF BatchIsLast
    <3>6. ItemsAreKept'
      BY <1>0, <2>1, <2>2, <3>1, <3>2 DEF ItemsAreKept
    <3> QED BY <3>4, <3>5, <3>6
  <2> QED BY <1>16, <2>4, <2>5 DEF MarkDispatched
<1>17. CASE Undo
  <2>1. /\ fires' = fires /\ poll.pc = "undo" /\ batches # <<>> /\ poll' = AfterBatch(FALSE)
        /\ batches[Len(batches)].items = poll.batch
    BY <1>17 DEF Undo, BatchIsLast, Claimed
  <2>2. \A i \in Item : i \notin poll.batch => Len(batches) \notin Live(i)
    BY <2>1 DEF Live
  <2>3. \A i \in poll.batch : /\ i \in Item /\ fires[i] <= marred[i] /\ marred[i] > 0
                              /\ marred[i] < 2 => \A n \in Live(i) : n = Len(batches)
    BY <1>0, <2>1 DEF BatchIsLast, Claimed
  <2>4. CASE batches' = Marked("failed") /\ Fine
    <3>1. \A i \in Item : Live(i)' = IF i \in poll.batch THEN Live(i) \ {Len(batches)} ELSE Live(i)
      BY <2>1, <2>2, <2>4, LiveAfter
    <3>2. marred' = marred
      BY <1>3, <2>4
    <3>3. \A i \in poll.batch : Ready(i)'
      BY <1>0, <2>1, <2>3, <3>1, <3>2 DEF Ready
    <3>4. \A i \in Item \ poll.batch : Ready(i) => Ready(i)'
      BY <2>1, <3>1, <3>2 DEF Ready
    <3>5. ItemsAreKept'
      <4>1. ASSUME NEW i \in Item
            PROVE  /\ fires'[i] <= 1 + marred'[i]
                   /\ marred'[i] < 2 => \A m, n \in Live(i)' : m = n
                   /\ Live(i)' # {} /\ i \notin poll'.batch /\ marred'[i] = 0 => fires'[i] = 1
                   /\ Live(i)' = {} => fires'[i] <= marred'[i]
        <5>1. CASE i \in poll.batch
          <6>1. /\ marred'[i] = marred[i] /\ fires'[i] = fires[i] /\ Live(i)' = Live(i) \ {Len(batches)}
            BY <2>1, <3>1, <3>2, <5>1
          <6>2. fires'[i] <= marred'[i] /\ marred'[i] # 0 /\ fires'[i] <= 1 + marred'[i]
            BY <1>0, <2>3, <5>1, <6>1
          <6>3. marred'[i] < 2 => Live(i)' = {}
            BY <2>3, <5>1, <6>1
          <6> QED BY <6>2, <6>3
        <5>2. CASE i \notin poll.batch
          BY <2>1, <3>1, <3>2, <5>2 DEF ItemsAreKept
        <5> QED BY <5>1, <5>2
      <4> QED BY <4>1 DEF ItemsAreKept
    <3> QED BY <1>12, <2>1, <3>3, <3>4, <3>5 DEF Picked
  <2>5. CASE batches' = batches /\ FailWith(poll.batch)
    <3>1. \A i \in Item : /\ Live(i)' = Live(i)
                          /\ marred'[i] = IF i \in poll.batch THEN marred[i] + 1 ELSE marred[i]
      BY <1>0, <1>1, <1>2, <2>5
    <3>2. \A i \in poll.batch : Ready(i)'
      BY <1>0, <2>1, <2>3, <3>1 DEF Ready
    <3>3. \A i \in Item \ poll.batch : Ready(i) => Ready(i)'
      BY <2>1, <3>1 DEF Ready
    <3>4. ItemsAreKept'
      <4>1. ASSUME NEW i \in Item
            PROVE  /\ fires'[i] <= 1 + marred'[i]
                   /\ marred'[i] < 2 => \A m, n \in Live(i)' : m = n
                   /\ Live(i)' # {} /\ i \notin poll'.batch /\ marred'[i] = 0 => fires'[i] = 1
                   /\ Live(i)' = {} => fires'[i] <= marred'[i]
        <5>1. CASE i \in poll.batch
          <6>1. marred'[i] = marred[i] + 1 /\ fires'[i] = fires[i] /\ Live(i)' = Live(i)
            BY <2>1, <3>1, <5>1
          <6>2. marred'[i] # 0 /\ fires'[i] <= marred'[i] /\ (marred'[i] < 2 => marred[i] < 2)
            BY <1>0, <2>3, <5>1, <6>1
          <6> QED BY <1>0, <6>1, <6>2 DEF ItemsAreKept
        <5>2. CASE i \notin poll.batch
          BY <2>1, <3>1, <5>2 DEF ItemsAreKept
        <5> QED BY <5>1, <5>2
      <4> QED BY <4>1 DEF ItemsAreKept
    <3> QED BY <1>12, <2>1, <3>2, <3>3, <3>4 DEF Picked
  <2> QED BY <1>17, <2>4, <2>5 DEF Undo
<1> QED BY <1>4, <1>6, <1>7, <1>8, <1>10, <1>11, <1>14, <1>15, <1>16, <1>17
        DEF BatchNext, PollStep, Place, Passes, Expire, Fine, batchVars

\* An item is given to one run, and to another only after a failure in its batch;
\* it stays claimed without one only when the claim was interrupted: for any
\* items, conditions and failures (claimAndDispatch, dispatchPendingBatches).
THEOREM ItemsStayAccountedFor == BatchSpec => []ItemsAreAccountedFor
<1>1. BatchInit => BatchTypeOK /\ BatchInv
  <2> SUFFICES ASSUME BatchInit PROVE BatchTypeOK /\ BatchInv
    OBVIOUS
  <2>1. batches \in Seq([items : SUBSET Item, status : {"claimed", "dispatched", "failed"}])
    BY DEF BatchInit
  <2>2. BatchTypeOK
    <3>1. 0 \in Nat /\ 0 \in 0..MaxCrossings /\ 0 \in 0..MaxFails
      BY BatchDispatchAssumption
    <3>2. [i \in Item |-> 0] \in [Item -> Nat]
      OBVIOUS
    <3>3. NoPoll \in [pc : {"idle", "select", "items", "claim", "enqueue", "mark", "undo"},
               items : SUBSET Item, single : SUBSET Item, fired : SUBSET Item,
               batch : SUBSET Item, whole : BOOLEAN]
      BY DEF NoPoll
    <3> QED BY <2>1, <3>1, <3>2, <3>3 DEF BatchInit, BatchTypeOK
  <2>3. \A i \in Item : Live(i) = {} /\ fires[i] = 0 /\ marred[i] = 0
    BY DEF BatchInit, Live
  <2>4. poll.pc = "idle" /\ poll.batch = {}
    BY DEF BatchInit, NoPoll
  <2> QED BY <2>2, <2>3, <2>4 DEF BatchInv, SelectionIsReady, BatchIsLast, ItemsAreKept, Picked, Claimed
<1>2. BatchTypeOK /\ BatchInv /\ [BatchNext]_batchVars => BatchTypeOK' /\ BatchInv'
  BY BatchTypesNext, BatchInvNext
<1>3. BatchTypeOK /\ BatchInv => ItemsAreAccountedFor
  <2> SUFFICES ASSUME BatchTypeOK, BatchInv, NEW i \in Item
               PROVE  Cardinality(Live(i)) > 1 => marred[i] > 1
    BY DEF ItemsAreAccountedFor, BatchInv, ItemsAreKept
  <2>1. marred[i] \in Nat
    BY DEF BatchTypeOK
  <2>2. CASE \A m, n \in Live(i) : m = n
    <3>1. Live(i) = {} \/ \E n \in Live(i) : Live(i) = {n}
      BY <2>2
    <3>2. Cardinality(Live(i)) \in {0, 1}
      BY <3>1, FS_EmptySet, FS_Singleton
    <3> QED BY <3>2
  <2>3. CASE ~(\A m, n \in Live(i) : m = n)
    BY <2>1, <2>3 DEF BatchInv, ItemsAreKept
  <2> QED BY <2>2, <2>3
<1> QED BY <1>1, <1>2, <1>3, PTL DEF BatchSpec

-----------------------------------------------------------------------------
(* The trigger endpoint *)

\* The queue holds the id of every job that was started, and of one call each;
\* what was accepted has its id there.
IdsAreTaken ==
  /\ retained = {JobId(e) : e \in started}
  /\ \A c, e \in started : JobId(c) = JobId(e) => c = e
  /\ \A c \in Call : call[c] \in {"audit", "accepted"} => JobId(c) \in retained

LEMMA IdsInitially == TriggerInit => TriggerTypeOK /\ IdsAreTaken
BY DEF TriggerInit, TriggerTypeOK, IdsAreTaken

LEMMA IdsNext ==
  ASSUME TriggerTypeOK, IdsAreTaken, [TriggerNext]_triggerVars
  PROVE  TriggerTypeOK' /\ IdsAreTaken'
<1>1. ASSUME NEW c \in Call, Refuse(c) PROVE TriggerTypeOK' /\ IdsAreTaken'
  BY <1>1 DEF Refuse, TriggerTypeOK, IdsAreTaken
<1>2. ASSUME NEW c \in Call, Audit(c) PROVE TriggerTypeOK' /\ IdsAreTaken'
  BY <1>2 DEF Audit, TriggerTypeOK, IdsAreTaken
<1>3. ASSUME NEW c \in Call, AddJob(c) PROVE TriggerTypeOK' /\ IdsAreTaken'
  <2>1. TriggerTypeOK'
    BY <1>3 DEF AddJob, TriggerTypeOK
  <2>2. \A d \in Call : d # c => call'[d] = call[d]
    BY <1>3 DEF AddJob, TriggerTypeOK
  <2>3. CASE retained' = retained /\ started' = started /\ call'[c] = "error"
    <3>1. \A d \in Call : call'[d] \in {"audit", "accepted"} => JobId(d) \in retained'
      BY <2>2, <2>3 DEF IdsAreTaken
    <3>2. retained' = {JobId(e) : e \in started'}
      BY <2>3 DEF IdsAreTaken
    <3>3. \A d, e \in started' : JobId(d) = JobId(e) => d = e
      BY <2>3 DEF IdsAreTaken
    <3> QED BY <2>1, <3>1, <3>2, <3>3 DEF IdsAreTaken
  <2>4. CASE retained' = retained \union {JobId(c)}
             /\ started' = IF JobId(c) \in retained THEN started ELSE started \union {c}
    <3>1. retained' = {JobId(e) : e \in started'}
      BY <2>4 DEF IdsAreTaken
    <3>2. \A d, e \in started' : JobId(d) = JobId(e) => d = e
      BY <2>4 DEF IdsAreTaken
    <3>3. \A d \in Call : call'[d] \in {"audit", "accepted"} => JobId(d) \in retained'
      BY <2>2, <2>4 DEF IdsAreTaken
    <3> QED BY <2>1, <3>1, <3>2, <3>3 DEF IdsAreTaken
  <2> QED BY <1>3, <2>1, <2>3, <2>4 DEF AddJob, TriggerTypeOK
<1>4. CASE UNCHANGED triggerVars
  BY <1>4 DEF triggerVars, TriggerTypeOK, IdsAreTaken
<1> QED BY <1>1, <1>2, <1>3, <1>4 DEF TriggerNext

\* Requests of one skill with one key start one run, and what was accepted has
\* one (executeTrigger).
THEOREM RequestsStayCollapsed == TriggerSpec => []RequestsCollapse
<1>1. TriggerTypeOK /\ IdsAreTaken => RequestsCollapse
  <2> SUFFICES ASSUME TriggerTypeOK, IdsAreTaken PROVE RequestsCollapse
    OBVIOUS
  <2>1. \A c, e \in started :
          c # e /\ SkillOf[c] = SkillOf[e] => KeyOf[c] = NoRun \/ KeyOf[c] # KeyOf[e]
    BY DEF IdsAreTaken, JobId
  <2>2. ASSUME NEW c \in Call, call[c] = "accepted"
        PROVE  Cardinality({e \in started : JobId(e) = JobId(c)}) = 1
    <3>1. PICK e \in started : JobId(e) = JobId(c)
      BY <2>2 DEF IdsAreTaken
    <3>2. {d \in started : JobId(d) = JobId(c)} = {e}
      BY <3>1 DEF IdsAreTaken
    <3> QED BY <3>2, FS_Singleton
  <2> QED BY <2>1, <2>2 DEF RequestsCollapse
<1>2. TriggerTypeOK /\ IdsAreTaken /\ [TriggerNext]_triggerVars
        => TriggerTypeOK' /\ IdsAreTaken'
  BY IdsNext
<1> QED BY <1>1, <1>2, IdsInitially, PTL DEF TriggerSpec

-----------------------------------------------------------------------------
(* The ways in together *)

\* What the ways into the skill queue promise holds of them together, whichever
\* of them a worker exercises: they share nothing but the queue.
THEOREM IngressStaysSound ==
  Spec => [](FanOutIsAccountedFor /\ WaitersAreServed /\ ItemsAreAccountedFor /\ RequestsCollapse)
<1>1. Init => InboundInit /\ BatchInit /\ TriggerInit
  BY DEF Init
<1>2. [Next]_vars => /\ [InboundNext]_inboundVars
                     /\ [BatchNext]_batchVars
                     /\ [TriggerNext]_triggerVars
  BY DEF Next, Messages, Waitpoints, Batches, Requests, vars
<1>3. Spec => InboundSpec /\ BatchSpec /\ TriggerSpec
  BY <1>1, <1>2, PTL DEF Spec, InboundSpec, BatchSpec, TriggerSpec
<1> QED BY <1>3, FanOutStaysAccountedFor, WaitersStayServed, ItemsStayAccountedFor,
           RequestsStayCollapsed, PTL

=============================================================================
