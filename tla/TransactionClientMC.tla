------------------------- MODULE TransactionClientMC -------------------------
(* TransactionClient with two transactions of two threads each.              *)
EXTENDS TransactionClient, TLC
=============================================================================
