---------------------------- MODULE MCApprovals ----------------------------
(* Small instance of Approvals for the answers of humans: one approval with *)
(* a handler for "approve", the legacy resumption for "reject" and none for *)
(* "edit", answered by two clicks and one HTTP call while its timeout       *)
(* passes; a third click carries a button the request does not offer.       *)
EXTENDS Approvals

CONSTANTS w1, r1, c1, c2, c3, p1, t1

MCTarget == [a \in {c1, c2, c3, p1} |-> w1]
MCPick ==
  [a \in {c1, c2, c3, p1} |->
     CASE a = c1 -> "approve"
       [] a = c2 -> "reject"
       [] a = c3 -> "later"
       [] OTHER  -> "edit"]
MCOffered == [w \in {w1} |-> {"approve", "reject", "edit"}]
MCStrategy ==
  [w \in {w1} |->
     [d \in {"approve", "reject", "edit", "later"} |->
        CASE d = "approve" -> "handler"
          [] d = "reject"  -> "original"
          [] OTHER         -> "none"]]
MCPolicy == [w \in {w1} |-> "auto_reject"]
MCRunOf == [w \in {w1} |-> r1]
=============================================================================
