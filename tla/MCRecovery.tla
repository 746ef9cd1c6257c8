----------------------------- MODULE MCRecovery -----------------------------
(* A node that crashes beside one that does not, on TxFixtures.            *)
EXTENDS Recovery, TxFixtures
=============================================================================
