-------------------------- MODULE LedgerRefinement --------------------------
(***************************************************************************)
(* The ledger keeps its contract.  Until a call ends its effects are not   *)
(* part of the contract's state: the variable settled holds the ledger as  *)
(* the last completed call left it.                                        *)
(***************************************************************************)
EXTENDS LedgerAudit

VARIABLE settled

View == [tree |-> leaves, spent |-> nullifiers, slots |-> DOMAIN quota,
         supply |-> supply]

RInit == Init /\ settled = View

RNext ==
    /\ Next
    /\ settled' = IF pc' = "idle" THEN View' ELSE settled

RSpec == RInit /\ [][RNext]_<<vars, settled>>

Contract == INSTANCE LedgerContract WITH
    batch  <- ordered,
    tree   <- settled.tree,
    spent  <- settled.spent,
    slots  <- settled.slots,
    roots  <- roots,
    supply <- settled.supply

(* Every run of the staged, windowed, registry-keeping ledger is a run of  *)
(* the contract: the loops of apply_checkpoint accept exactly the winners, *)
(* in order, and a call as a whole is one step.                            *)
KeepsContract == Contract!CSpec
=============================================================================
