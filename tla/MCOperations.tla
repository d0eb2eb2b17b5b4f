---------------------------- MODULE MCOperations ----------------------------
(* A window of three polls and a cap of eight; two runs and three clients  *)
(* of one server.                                                          *)
EXTENDS Operations
=============================================================================
