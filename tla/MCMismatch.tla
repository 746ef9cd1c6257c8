----------------------------- MODULE MCMismatch -----------------------------
(* The wallets and notes of MCDevnet, with senders of both kinds.          *)
EXTENDS DevnetMismatch, MCDevnet
=============================================================================
