----------------------------- MODULE MCTimeouts ----------------------------
(* Small instance of Approvals for the timeouts: two waitpoints of library  *)
(* callers, one that its timeout approves and one that it cancels, each     *)
(* answered by its caller while two runs of the reaper overlap.             *)
EXTENDS Approvals

CONSTANTS w1, w2, r1, r2, l1, l2, t1, t2

MCTarget == [a \in {l1, l2} |-> IF a = l1 THEN w1 ELSE w2]
MCPick == [a \in {l1, l2} |-> "approve"]
MCOffered == [w \in {w1, w2} |-> {"approve"}]
MCStrategy == [w \in {w1, w2} |-> [d \in {"approve"} |-> "none"]]
MCPolicy == [w \in {w1, w2} |-> IF w = w1 THEN "auto_approve" ELSE "auto_cancel"]
MCRunOf == [w \in {w1, w2} |-> IF w = w1 THEN r1 ELSE r2]
=============================================================================
