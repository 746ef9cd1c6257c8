----------------------------- MODULE MCKnockout -----------------------------
(* Two owners, one whose nullifier sorts before the dummy's and one after; *)
(* a tree of four positions, and five leaves.                              *)
EXTENDS Knockout

MCNotes == { [value |-> 2, addr_tag |-> 1, rho |-> 1],
             [value |-> 3, addr_tag |-> 2, rho |-> 40] }
=============================================================================
