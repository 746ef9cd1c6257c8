------------------------------ MODULE MCLedger ------------------------------
(* The ledger with its issuance schedule and its contract, on the          *)
(* instances of TxFixtures.                                                *)
EXTENDS LedgerRefinement, TxFixtures
=============================================================================
