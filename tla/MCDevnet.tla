------------------------------ MODULE MCDevnet ------------------------------
(* Two wallets; genesis gives the first one notes of 2, 1 and 1.           *)
EXTENDS Devnet

MCNotes == << [value |-> 2, addr_tag |-> 1, rho |-> RhoGenesis(0)],
              [value |-> 1, addr_tag |-> 1, rho |-> RhoGenesis(1)],
              [value |-> 1, addr_tag |-> 1, rho |-> RhoGenesis(2)] >>

MCGenesis == [k \in DOMAIN MCNotes |-> Commitment(MCNotes[k])]

MCShares == [h \in 1..MaxHeight |-> <<1>>]
=============================================================================
