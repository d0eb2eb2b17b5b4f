---------------------------- MODULE MCPaDelivery ----------------------------
(* Small instance of PaDelivery: a request that is posted twice with one    *)
(* key for the same thread, and two consumers of the thread.                *)
EXTENDS PaDelivery

CONSTANTS r1, r2, k1, th1, c1, c2

MCKey == [r \in {r1, r2} |-> k1]
MCThread == [r \in {r1, r2} |-> th1]
=============================================================================
