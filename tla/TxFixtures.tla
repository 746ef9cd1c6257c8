----------------------------- MODULE TxFixtures -----------------------------
(***************************************************************************)
(* The transactions, genesis and validators of the checked instances.      *)
(***************************************************************************)
EXTENDS Naturals, Sequences

TwoValidators == <<2, 1>>

OneValidator == <<1>>

MCGenesis == <<[source |-> "genesis", id |-> 0, idx |-> 0, value |-> 5]>>

Out(id) == <<[source |-> "output", id |-> id, idx |-> 0, value |-> 0],
             [source |-> "output", id |-> id, idx |-> 1, value |-> 0]>>

Pow(solved) ==
    [lane |-> "pow", epoch |-> 0, rate_nullifier |-> 0, bound |-> solved]

Quota(epoch, slot) ==
    [lane |-> "quota", epoch |-> epoch, rate_nullifier |-> slot, bound |-> TRUE]

Transfer(id, nf1, nf2, antispam) ==
    [nullifiers |-> <<nf1, nf2>>, commitments |-> Out(id),
     antispam |-> antispam, proof_sized |-> TRUE, proof_ok |-> TRUE]

(* A pair in conflict on nullifier 2, and two that stateless validation    *)
(* must stop: one names a nullifier twice, one has a forged proof.         *)
SpendBodies ==
    { Transfer(1, 1, 2, Pow(TRUE)),
      Transfer(2, 2, 3, Pow(TRUE)),
      Transfer(3, 4, 4, Pow(TRUE)),
      [Transfer(4, 5, 6, Pow(TRUE)) EXCEPT !.proof_ok = FALSE] }

(* Two transfers that use one slot of epoch 0, one that uses it again in   *)
(* epoch 1, and one with the wrong epoch at first that conflicts with it.  *)
QuotaBodies ==
    { Transfer(1, 1, 2, Quota(0, 0)),
      Transfer(2, 3, 4, Quota(0, 0)),
      Transfer(3, 5, 6, Quota(1, 0)),
      Transfer(4, 5, 7, Quota(1, 1)) }

(* Both kinds of competition at once: a nullifier shared by a PoW and a    *)
(* quota transfer, a slot shared by two quota transfers.                   *)
MixedBodies ==
    { Transfer(1, 1, 2, Pow(TRUE)),
      Transfer(2, 2, 3, Quota(0, 0)),
      Transfer(3, 4, 5, Quota(0, 0)),
      Transfer(4, 1, 6, Quota(1, 0)) }

(* Everything that the ledger tells apart: one binding digest under both   *)
(* lanes; two transfers for one slot of epoch 1, whose heights are 2 and   *)
(* 3; one whose rate nullifier is the same in epoch 0, in conflict with    *)
(* the first on a nullifier; and two that stateless validation must stop,  *)
(* one that names a nullifier twice and one with a forged proof.           *)
LedgerBodies ==
    { Transfer(1, 1, 2, Pow(TRUE)),
      Transfer(1, 1, 2, Quota(1, 0)),
      Transfer(2, 3, 4, Quota(1, 0)),
      Transfer(3, 2, 5, Quota(0, 0)),
      Transfer(4, 6, 6, Pow(TRUE)),
      [Transfer(5, 3, 7, Pow(TRUE)) EXCEPT !.proof_ok = FALSE] }

(* One binding digest under two anti-spam artifacts, one of them unsolved. *)
TwinBodies ==
    { Transfer(1, 1, 2, Pow(TRUE)),
      Transfer(1, 1, 2, Pow(FALSE)),
      Transfer(2, 3, 4, Pow(TRUE)) }

(* A total order of the digests that these instances can produce.          *)
RankOf(d) == 100 * d.commitments[1].id + 10 * d.anchor.height + Len(d.anchor.root)

(* Reward shares of the modules that do not compute them: one validator.   *)
OneUnitEach == [h \in 1..3 |-> <<1>>]

(* Two transfers on one slot of epoch 1, and one on the PoW lane.          *)
RestartBodies ==
    { Transfer(1, 1, 2, Quota(1, 0)),
      Transfer(2, 3, 4, Quota(1, 0)),
      Transfer(3, 1, 5, Pow(TRUE)) }
=============================================================================
