----------------------------- MODULE MCIngress -----------------------------
(* Two messages of one room, with up to two subscribers, or with a waiter    *)
(* for both and one for the first; two items in a bucket with every kind of  *)
(* condition; four requests, three with one key, for two skills whose ids    *)
(* are the same in a job id.                                                 *)
EXTENDS Ingress, TLC

CONSTANTS d1, d2, w1, w2, t1, t2, i1, i2, c1, c2, c3, c4, ab, a_b, k

MCRoom == [d \in Drawer |-> "r"]
MCRole == [t \in Trigger |-> "r"]
MCMatches == (w1 :> {d1, d2}) @@ (w2 :> {d1})
MCSubscriptions ==
  {[conditions |-> <<"cron", "count_at_least", "at_from_field">>,
    onEmpty |-> "fire-with-empty", newestFirst |-> FALSE],
   [conditions |-> <<"oldest_age_at_least", "at", "cron">>,
    onEmpty |-> "skip", newestFirst |-> TRUE]}
MCKeyOf == (c1 :> <<k>>) @@ (c2 :> <<k>>) @@ (c3 :> <<k>>) @@ (c4 :> NoRun)
MCSkillOf == (c1 :> ab) @@ (c2 :> ab) @@ (c3 :> a_b) @@ (c4 :> ab)
MCIdParts == [s \in Skills |-> <<"a", "b">>]
MCDeclared == [s \in Skills |-> s]
=============================================================================
