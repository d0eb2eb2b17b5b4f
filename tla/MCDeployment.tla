---------------------------- MODULE MCDeployment ----------------------------
(* Three releases; four migrations, one of them legacy; two skills, the name *)
(* of one beginning with that of the other; two operators.                   *)
EXTENDS Deployment, TLC

CONSTANTS skill, skillExtra, yaml, prompt

MCShadows == {<<skill, skillExtra>>}
MCVersionOf == (1 :> 1) @@ (2 :> 2)
=============================================================================
