----------------------------- MODULE MCConsensus -----------------------------
(* Two clusters of two replicas, on the instances of TxFixtures.           *)
EXTENDS Consensus, TxFixtures
=============================================================================
