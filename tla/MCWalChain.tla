----------------------------- MODULE MCWalChain -----------------------------
(* WalChain on small instances, with the writers interchangeable.          *)
EXTENDS WalChain, TLC

CONSTANTS w1, w2

WriterSymmetry == Permutations(Writers)
=============================================================================
