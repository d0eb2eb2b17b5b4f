--------------------------- MODULE BatchDispatch ---------------------------
(***************************************************************************)
(* Batch triggers (tasks/batch-dispatcher.ts).  Skills put items into the  *)
(* rooms pending.* of a bucket; a poll claims the items of a bucket for    *)
(* one run of the skill that consumes it: each item whose own deadline is  *)
(* past, and then the rest when a condition of the bucket holds.           *)
(*                                                                         *)
(* A tick goes through the buckets one after the other; this is one of     *)
(* them. It takes one time stamp when it starts and decides everything by  *)
(* it, so that time passes between ticks here.                             *)
(***************************************************************************)
EXTENDS Integers, Sequences, FiniteSets

CONSTANTS
  Item,          \* items of the bucket
  Subscriptions, \* triggers the bucket may have: the parsed conditions of
                 \* fire_when.any_of, on_empty, and whether the newest come first
  MinCount,      \* n of count_at_least
  MaxBatch,      \* MAX_BATCH_SIZE
  MaxCrossings,  \* bound on the times a cron expression matches
  MaxFails       \* bound on failed statements and crashes

Conditions == {"count_at_least", "oldest_age_at_least", "cron", "at", "at_from_field"}

ASSUME BatchDispatchAssumption ==
  /\ \A t \in Subscriptions : /\ t.conditions \in Seq(Conditions)
                               /\ t.onEmpty \in {"skip", "fire-with-empty"}
                               /\ t.newestFirst \in BOOLEAN
  /\ MaxBatch \in Nat \ {0} /\ MinCount \in Nat \ {0}
  /\ MaxCrossings \in Nat /\ MaxFails \in Nat /\ IsFiniteSet(Item)

VARIABLES
  sub,       \* the trigger of the bucket, which stays as it is
  placed,    \* placed[i]: position of i by created_at, 0 before
  old,       \* items older than the age of their bucket's condition
  due,       \* items whose at_from_field deadline is past
  past,      \* the date of the condition "at" is past
  crossed,   \* the cron matched since lastEvaluatedAt
  crossings, \* how often the cron matched
  cached,    \* the index is built and within its TTL
  batches,   \* rows of batch_dispatches
  poll,      \* the tick in progress
  fires,     \* history: fires[i], runs enqueued with i
  fails,     \* failed statements and crashes
  marred     \* history: marred[i], those of them with i in the batch at hand

clock == <<old, due, past, crossings>>
batchVars == <<sub, placed, clock, crossed, cached, batches, poll, fires, fails, marred>>

NoPoll == [pc |-> "idle", items |-> {}, single |-> {}, fired |-> {},
           batch |-> {}, whole |-> FALSE]

BatchInit ==
  /\ placed = [i \in Item |-> 0]
  /\ sub \in Subscriptions
  /\ old = {} /\ due = {} /\ past = FALSE /\ crossed = FALSE
  /\ crossings = 0
  /\ cached = FALSE
  /\ batches = <<>>
  /\ poll = NoPoll
  /\ fires = [i \in Item |-> 0]
  /\ fails = 0
  /\ marred = [i \in Item |-> 0]

FailWith(S) ==
  /\ fails < MaxFails
  /\ fails' = fails + 1
  /\ sub' = sub
  /\ marred' = [i \in Item |-> IF i \in S THEN marred[i] + 1 ELSE marred[i]]

Fine == UNCHANGED <<sub, fails, marred>>

Has(c) == \E k \in DOMAIN sub.conditions : sub.conditions[k] = c

-----------------------------------------------------------------------------
(* Items, time and the index *)

Place(i) ==
  /\ placed[i] = 0
  /\ placed' = [placed EXCEPT ![i] = Cardinality({j \in Item : placed[j] > 0}) + 1]
  /\ UNCHANGED <<clock, crossed, cached, batches, poll, fires>> /\ Fine

Passes ==
  /\ poll.pc = "idle"
  /\ \/ \E i \in Item : /\ placed[i] > 0 /\ i \notin old /\ Has("oldest_age_at_least")
                        /\ old' = old \union {i} /\ UNCHANGED <<due, past, crossed, crossings>>
     \/ \E i \in Item : /\ placed[i] > 0 /\ i \notin due /\ Has("at_from_field")
                        /\ due' = due \union {i} /\ UNCHANGED <<old, past, crossed, crossings>>
     \/ /\ Has("at") /\ ~past
        /\ past' = TRUE /\ UNCHANGED <<old, due, crossed, crossings>>
     \/ /\ Has("cron") /\ crossings < MaxCrossings
        /\ crossings' = crossings + 1 /\ crossed' = TRUE /\ UNCHANGED <<old, due, past>>
  /\ UNCHANGED <<placed, cached, batches, poll, fires>> /\ Fine

\* INDEX_TTL_MS passes, or invalidateBatchIndex is called.  What an index built
\* anew differs in is the cron.
Expire ==
  /\ poll.pc = "idle" /\ cached /\ Has("cron")
  /\ cached' = FALSE
  /\ UNCHANGED <<placed, clock, crossed, batches, poll, fires>> /\ Fine

-----------------------------------------------------------------------------
(* The poll *)

\* A rebuilt index parses the conditions again, with lastEvaluatedAt = now:
\* what a cron matched since the last poll is forgotten.
Begin ==
  /\ poll.pc = "idle"
  /\ cached' = TRUE
  /\ crossed' = (cached /\ crossed)
  /\ poll' = [NoPoll EXCEPT !.pc = "select"]
  /\ UNCHANGED <<placed, clock, batches, fires>> /\ Fine

\* Mutant of Blocking: items of a failed batch are not selected again.
BlockingFailed == {"claimed", "dispatched", "completed", "failed"}

\* Statuses whose items are not selected.
Blocking == {"claimed", "dispatched", "completed"}

Pending ==
  {i \in Item : /\ placed[i] > 0
                /\ \A k \in DOMAIN batches :
                     i \in batches[k].items => batches[k].status \notin Blocking}

\* selectPendingItems: the first MaxBatch of the bucket's order.
Selected ==
  {i \in Pending :
    Cardinality({j \in Pending : IF sub.newestFirst THEN placed[j] > placed[i]
                                 ELSE placed[j] < placed[i]}) < MaxBatch}

\* findPerItemDue
PerItemDue == {i \in Selected : Has("at_from_field") /\ i \in due}

SelectItems ==
  /\ poll.pc = "select"
  /\ poll' = [poll EXCEPT !.pc = "items", !.items = Selected, !.single = PerItemDue]
  /\ UNCHANGED <<placed, clock, crossed, cached, batches, fires>> /\ Fine

NextItem(i) ==
  /\ poll.pc = "items" /\ i \in poll.single
  /\ poll' = [poll EXCEPT !.pc = "claim", !.single = @ \ {i}, !.batch = {i}, !.whole = FALSE]
  /\ UNCHANGED <<placed, clock, crossed, cached, batches, fires>> /\ Fine

\* Mutant of Remaining: the items that fired by themselves stay.
RemainingAll == poll.items

\* What is left for the bucket; an item whose own batch failed stays.
Remaining == poll.items \ poll.fired

Empty == Remaining = {} /\ sub.onEmpty = "skip"

Holds(c) ==
  \/ c = "count_at_least" /\ Cardinality(Remaining) >= MinCount
  \/ c = "oldest_age_at_least" /\ Remaining \cap old # {}
  \/ c = "cron" /\ crossed
  \/ c = "at" /\ past

Holding == {k \in DOMAIN sub.conditions : Holds(sub.conditions[k])}

\* evaluateFireWhen stops at the first condition that holds; a cron it comes to
\* has been evaluated, and all of them when the bucket is empty.
CronEvaluated ==
  \/ Empty
  \/ \E k \in DOMAIN sub.conditions :
       sub.conditions[k] = "cron" /\ \A j \in Holding : k <= j

Evaluate ==
  /\ poll.pc = "items" /\ poll.single = {}
  /\ crossed' = (crossed /\ ~CronEvaluated)
  /\ poll' = IF ~Empty /\ Holding # {}
             THEN [poll EXCEPT !.pc = "claim", !.batch = Remaining, !.whole = TRUE]
             ELSE NoPoll
  /\ UNCHANGED <<placed, clock, cached, batches, fires>> /\ Fine

AfterBatch(ok) ==
  IF poll.whole THEN NoPoll
  ELSE [poll EXCEPT !.pc = "items", !.fired = IF ok THEN @ \union poll.batch ELSE @,
                    !.batch = {}]

\* claimBatch: a failed insert is swallowed.
Claim ==
  /\ poll.pc = "claim"
  /\ \/ /\ batches' = Append(batches, [items |-> poll.batch, status |-> "claimed"])
        /\ poll' = [poll EXCEPT !.pc = "enqueue"] /\ Fine
     \/ poll' = AfterBatch(FALSE) /\ batches' = batches /\ FailWith(poll.batch)
  /\ UNCHANGED <<placed, clock, crossed, cached, fires>>

Fired == [i \in Item |-> IF i \in poll.batch THEN fires[i] + 1 ELSE fires[i]]

\* The job may be added although the call fails.
EnqueueBatch ==
  /\ poll.pc = "enqueue"
  /\ \/ fires' = Fired /\ poll' = [poll EXCEPT !.pc = "mark"] /\ Fine
     \/ fires' \in {fires, Fired} /\ poll' = [poll EXCEPT !.pc = "undo"] /\ FailWith(poll.batch)
  /\ UNCHANGED <<placed, clock, crossed, cached, batches>>

Marked(s) == [batches EXCEPT ![Len(batches)].status = s]

\* markDispatched and its audit entry.
MarkDispatched ==
  /\ poll.pc = "mark"
  /\ \/ batches' = Marked("dispatched") /\ poll' = AfterBatch(TRUE) /\ Fine
     \/ /\ batches' \in {batches, Marked("dispatched")}
        /\ poll' = [poll EXCEPT !.pc = "undo"] /\ FailWith(poll.batch)
  /\ UNCHANGED <<placed, clock, crossed, cached, fires>>

\* The catch of claimAndDispatch, whose own failures are swallowed.
Undo ==
  /\ poll.pc = "undo"
  /\ \/ batches' = Marked("failed") /\ Fine
     \/ batches' = batches /\ FailWith(poll.batch)
  /\ poll' = AfterBatch(FALSE)
  /\ UNCHANGED <<placed, clock, crossed, cached, fires>>

\* The worker dies, or a select fails; a new process has no index.
Die ==
  /\ poll.pc # "idle"
  /\ FailWith(poll.batch)
  /\ poll' = NoPoll
  /\ cached' \in {cached, FALSE}
  /\ UNCHANGED <<placed, clock, crossed, batches, fires>>

-----------------------------------------------------------------------------
PollStep ==
  \/ Begin \/ SelectItems \/ (\E i \in Item : NextItem(i)) \/ Evaluate \/ Claim
  \/ EnqueueBatch \/ MarkDispatched \/ Undo

BatchNext == (\E i \in Item : Place(i)) \/ Passes \/ Expire \/ PollStep \/ Die

BatchSpec == BatchInit /\ [][BatchNext]_batchVars

-----------------------------------------------------------------------------
(* Properties *)

BatchTypeOK ==
  /\ placed \in [Item -> Nat] /\ fires \in [Item -> Nat] /\ marred \in [Item -> Nat]
  /\ old \subseteq Item /\ due \subseteq Item /\ past \in BOOLEAN /\ crossed \in BOOLEAN
  /\ cached \in BOOLEAN /\ crossings \in 0..MaxCrossings /\ fails \in 0..MaxFails
  /\ batches \in Seq([items : SUBSET Item, status : {"claimed", "dispatched", "failed"}])
  /\ poll \in [pc : {"idle", "select", "items", "claim", "enqueue", "mark", "undo"},
               items : SUBSET Item, single : SUBSET Item, fired : SUBSET Item,
               batch : SUBSET Item, whole : BOOLEAN]

Live(i) == {k \in DOMAIN batches : i \in batches[k].items /\ batches[k].status # "failed"}

\* An item is given to one run.  It fires again only after a failure in its own
\* batch; it is in two batches that count only when a failed batch could not
\* even be marked; and it stays claimed without a run only when the claim was
\* interrupted (claimAndDispatch, dispatchPendingBatches).
ItemsAreAccountedFor ==
  /\ BatchTypeOK
  /\ \A i \in Item :
       /\ fires[i] <= 1 + marred[i]
       /\ Cardinality(Live(i)) > 1 => marred[i] > 1
       /\ Live(i) # {} /\ i \notin poll.batch /\ marred[i] = 0 => fires[i] = 1
       /\ Live(i) = {} => fires[i] <= marred[i]

\* A deadline that is past is acted upon by a batch, although claims fail and
\* the worker restarts, as long as the bucket fits into one select.
DeadlinesFire ==
  \A i \in Item : i \in due ~> \E k \in DOMAIN batches :
    i \in batches[k].items /\ batches[k].status \in {"claimed", "dispatched"}
=============================================================================
