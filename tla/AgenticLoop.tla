---------------------------- MODULE AgenticLoop ----------------------------
(***************************************************************************)
(* One run of runAgenticLoop (models/agentic-loop.ts) as executeAgentic    *)
(* (models/gateway.ts) starts it: turns of a model call and the tool calls *)
(* it asks for, with retries, a chain of fallback models, and the guards   *)
(* that stop a run which repeats itself, keeps failing or becomes          *)
(* expensive.                                                              *)
(***************************************************************************)
EXTENDS Integers, Sequences

CONSTANTS
  Models,       \* models of the tier, primary and fallbacks, in their order
  Anthropic,    \* those of the provider anthropic
  Price,        \* Price[m]: cost of one token, 0 when the registry has none
  Usage,        \* tokens a response may be billed for
  MaxTurns, MaxAttempts, MaxSame, MaxErrors,  \* limits of the run
  MaxSpend, MaxTokens,                        \* its caps
  MaxTools      \* bound on the tool calls of one turn

ASSUME AgenticLoopAssumption ==
  /\ Models \in Seq(DOMAIN Price) /\ Price \in [DOMAIN Price -> Nat]
  /\ Usage \subseteq Nat
  /\ {MaxTurns, MaxAttempts, MaxSame, MaxErrors, MaxTools, MaxSpend, MaxTokens} \subseteq Nat \ {0}

VARIABLES
  loop,    \* where the run is
  turns, link, attempt,      \* turns, model in use, attempts of the call
  tokens, cost,              \* tokens used and cost accrued
  same, errors, good,        \* the streaks, and whether the turn had a success
  asked,                     \* tool calls of the turn still to be made
  stop,                      \* stopReason
  recorded,                  \* cost handed to recordSpend
  billed,                    \* history: cost of all responses
  calls                      \* history: results of the tool calls, latest last

loopVars == <<loop, turns, link, attempt, tokens, cost, same, errors, good, asked,
              stop, recorded, billed, calls>>

\* resolveAgenticChain: models that do not speak the Messages API are left out.
Links == {i \in DOMAIN Models : Models[i] \in Anthropic}

\* The link that comes first among those after i.
NextLink(i, j) == j \in Links /\ j > i /\ \A k \in Links : k > i => j <= k

LoopInit ==
  /\ loop = "start" /\ stop = "max_turns"
  /\ turns = 0 /\ link = 0 /\ attempt = 1
  /\ tokens = 0 /\ cost = 0 /\ recorded = 0 /\ billed = 0
  /\ same = 0 /\ errors = 0 /\ good = FALSE /\ asked = 0
  /\ calls = <<>>

-----------------------------------------------------------------------------
\* executeAgentic refuses a tier without a model for this path.
Start ==
  /\ loop = "start"
  /\ \/ Links = {} /\ loop' = "thrown" /\ UNCHANGED link
     \/ loop' = "turn" /\ NextLink(0, link')
  /\ UNCHANGED <<turns, attempt, tokens, cost, same, errors, good, asked,
                 stop, recorded, billed, calls>>

NextTurn ==
  /\ loop = "turn"
  /\ IF turns < MaxTurns THEN loop' = "call" /\ turns' = turns + 1
     ELSE loop' = "end" /\ turns' = turns
  /\ attempt' = 1 /\ good' = FALSE
  /\ UNCHANGED <<link, tokens, cost, same, errors, asked, stop, recorded, billed, calls>>

\* retryMessagesCreate: connection errors, idle streams and 5xx are tried again.
CallFails ==
  /\ loop = "call" /\ attempt < MaxAttempts
  /\ attempt' = attempt + 1
  /\ UNCHANGED <<loop, turns, link, tokens, cost, same, errors, good, asked, stop,
                 recorded, billed, calls>>

\* The last attempt failed, or the error is not worth another one: the next
\* model takes over the conversation, unless it cannot be recorded.
Fallback ==
  /\ loop = "call"
  /\ \/ NextLink(link, link') /\ attempt' = 1 /\ UNCHANGED loop
     \/ loop' = "thrown" /\ UNCHANGED <<link, attempt>>
  /\ UNCHANGED <<turns, tokens, cost, same, errors, good, asked, stop, recorded,
                 billed, calls>>

\* A 429 is neither retried nor answered with another model.
RateLimited ==
  /\ loop = "call"
  /\ loop' = "limited"
  /\ UNCHANGED <<turns, link, attempt, tokens, cost, same, errors, good, asked, stop,
                 recorded, billed, calls>>

\* Mutant of CostOf: every turn is charged as if the primary had served it.
CostOfPrimary(u) == u * Price[Models[CHOOSE i \in Links : NextLink(0, i)]]

\* The turn is charged at the rate of the model that served it.
CostOf(u) == u * Price[Models[link]]

\* A response with n tool calls; without any, or with stop_reason end_turn, it
\* is the last one.
Respond(u, n, ends) ==
  /\ loop = "call"
  /\ tokens' = tokens + u
  /\ cost' = cost + CostOf(u)
  /\ billed' = billed + u * Price[Models[link]]
  /\ IF n = 0 \/ ends
     THEN loop' = "end" /\ stop' = "end_turn" /\ UNCHANGED asked
     ELSE loop' = "tools" /\ asked' = n /\ UNCHANGED stop
  /\ UNCHANGED <<turns, link, attempt, same, errors, good, recorded, calls>>

\* A tool call, the same as the one before or another one, and its result; an
\* exception of the tool is a result that says Error.
UseTool(again, failed) ==
  /\ loop = "tools" /\ asked > 0
  /\ again => same > 0
  /\ asked' = asked - 1
  /\ same' = IF again THEN same + 1 ELSE 1
  /\ errors' = IF failed THEN errors + 1 ELSE 0
  /\ good' = (good \/ ~failed)
  /\ calls' = Append(calls, failed)
  /\ UNCHANGED <<loop, turns, link, attempt, tokens, cost, stop, recorded, billed>>

\* The guards, in this order.
Guards == <<"repetition", "error_streak", "spend_cap", "token_cap">>

Trips(g) ==
  \/ g = "repetition" /\ same >= MaxSame
  \/ g = "error_streak" /\ errors >= MaxErrors
  \/ g = "spend_cap" /\ cost >= MaxSpend
  \/ g = "token_cap" /\ tokens >= MaxTokens

TurnEnds ==
  /\ loop = "tools" /\ asked = 0
  /\ \/ \E i \in DOMAIN Guards :
          /\ Trips(Guards[i]) /\ \A j \in 1 .. i - 1 : ~Trips(Guards[j])
          /\ loop' = "end" /\ stop' = Guards[i] /\ UNCHANGED errors
     \/ /\ \A i \in DOMAIN Guards : ~Trips(Guards[i])
        /\ loop' = "turn" /\ UNCHANGED stop
        /\ errors' = IF good THEN 0 ELSE errors
  /\ UNCHANGED <<turns, link, attempt, tokens, cost, same, good, asked, recorded,
                 billed, calls>>

\* An audit entry of the loop cannot be written: the run throws.
AuditFails ==
  /\ loop \in {"call", "tools", "end"}
  /\ loop' = "thrown"
  /\ UNCHANGED <<turns, link, attempt, tokens, cost, same, errors, good, asked, stop,
                 recorded, billed, calls>>

\* recordSpend, which swallows its own failure.
RecordSpend ==
  /\ loop = "end"
  /\ loop' = "done"
  /\ recorded' \in {0, cost}
  /\ UNCHANGED <<turns, link, attempt, tokens, cost, same, errors, good, asked, stop,
                 billed, calls>>

LoopStep ==
  \/ Start \/ NextTurn \/ CallFails \/ Fallback \/ RateLimited
  \/ (\E u \in Usage, n \in 0..MaxTools, ends \in BOOLEAN : Respond(u, n, ends))
  \/ (\E again, failed \in BOOLEAN : UseTool(again, failed))
  \/ TurnEnds \/ AuditFails \/ RecordSpend

LoopSpec == LoopInit /\ [][LoopStep]_loopVars

-----------------------------------------------------------------------------
(* Properties *)

LoopTypeOK ==
  /\ loop \in {"start", "turn", "call", "tools", "end", "done", "thrown", "limited"}
  /\ stop \in {"max_turns", "end_turn", "repetition", "error_streak", "spend_cap", "token_cap"}
  /\ {turns, link, attempt, tokens, cost, same, errors, asked, recorded, billed} \subseteq Nat
  /\ good \in BOOLEAN /\ calls \in Seq(BOOLEAN)

\* What a turn may cost.
Charges == {u * Price[Models[i]] : u \in Usage, i \in Links}

\* What a run costs is what its models charged, each at its own rate; it
\* exceeds the cap by less than some turn, and a run stops with an error streak
\* only when its last calls failed (overSpendCap, errorStreak).
SpendIsCapped ==
  /\ LoopTypeOK
  /\ cost = billed
  /\ \E charge \in Charges \union {0} : billed < MaxSpend + charge
  /\ turns <= MaxTurns
  /\ stop = "error_streak" => \A k \in DOMAIN calls : k > Len(calls) - MaxErrors => calls[k]
=============================================================================
