----------------------------- MODULE LedgerAudit -----------------------------
(***************************************************************************)
(* The ledger with the issuance schedule that feeds it: at every height    *)
(* the minted shares are the reward descriptor's, and the supply audit can *)
(* be stated.                                                              *)
(***************************************************************************)
EXTENDS Ledger, Emission

CONSTANT Weights     \* the validators' weights, in index order

(* The value Shares must have: what reward_descriptor returns.             *)
DescriptorShares == [h \in 1..MaxHeight |-> RewardShares(h, Weights)]

ASSUME DescriptorAssumption == Shares = DescriptorShares

(* Weights are unsigned.                                                   *)
ASSUME WeightsAssumption == Weights \in Seq(Nat)

(* A leaf is named for where it came from: genesis leaves are genesis      *)
(* notes, what a transaction brings is an output.                          *)
ASSUME SourceAssumption ==
    /\ \A p \in DOMAIN Genesis : Genesis[p].source = "genesis"
    /\ \A b \in Bodies : \A n \in 1..2 : b.commitments[n].source = "output"

(* Ledger::audit_supply against the genesis allocation.                    *)
AuditSupply ==
    supply = GenesisSupply + SumFunction([h \in 1..height |-> EmissionAt(h)])

-----------------------------------------------------------------------------
(* Between calls the audit passes: "supply equals genesis allocation plus  *)
(* all emission to date", whatever was accepted or rejected.               *)
SupplyAudits == pc = "idle" => AuditSupply

(* The supply is backed by the tree at every step, also inside a call: it  *)
(* is the genesis value plus the values of the reward notes appended, and  *)
(* no two reward notes have the same commitment.                           *)
SupplyBackedByLeaves ==
    LET rewards == {p \in DOMAIN leaves : leaves[p].source = "reward"}
    IN  /\ supply = GenesisSupply
                      + SumFunction([p \in rewards |-> leaves[p].value])
        /\ \A p, q \in rewards : leaves[p] = leaves[q] => p = q
=============================================================================
