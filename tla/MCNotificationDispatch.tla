----------------------- MODULE MCNotificationDispatch -----------------------
(* Small instance of NotificationDispatch: a drawer without key, a          *)
(* malformed one, two drawers with one key, one of them not due yet, and    *)
(* two with one key for the assistant.                                      *)
EXTENDS NotificationDispatch

CONSTANTS k1, k2, k3

MCKind == [d \in 1 .. 6 |->
  CASE d = 1 -> "keyless" [] d = 2 -> "malformed" [] d \in {5, 6} -> "pa" [] OTHER -> "bound"]
MCKeyOf == [d \in 1 .. 6 |-> CASE d < 3 -> k1 [] d \in {5, 6} -> k3 [] OTHER -> k2]

=============================================================================
