---------------------------- MODULE MCSpending ----------------------------
(* A tier with a primary model, a fallback that costs twice as much and one *)
(* of another provider; two slots, a conversation, two days.                *)
EXTENDS Spending, TLC

CONSTANTS sonnet, opus, gpt, s1, s2, pa, mon

MCModels == <<sonnet, gpt, opus>>
MCPrice == (sonnet :> 1) @@ (opus :> 2) @@ (gpt :> 1)
=============================================================================
