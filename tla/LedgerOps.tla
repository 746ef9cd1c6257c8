------------------------------ MODULE LedgerOps ------------------------------
(***************************************************************************)
(* What the checkpoint state machine is made of, as operators: the         *)
(* transaction, its stateless validation (crates/tx), the sealed-anchor    *)
(* deque of the commitment tree (crates/tree), the quota registry          *)
(* (crates/antispam-quota), and the verdict that Ledger::apply_checkpoint  *)
(* reaches on one transaction (crates/state).                              *)
(*                                                                         *)
(* Hashes are injective, so a hash is modelled by what it hashes: the      *)
(* Merkle root by the sequence of leaves, the binding digest by the fields *)
(* it binds.  What only a hash or a proof system can decide (a solved      *)
(* puzzle, a rate proof evaluated at x = H(binding), a proof that          *)
(* verifies) is a Boolean of the transaction.                              *)
(***************************************************************************)
EXTENDS Naturals, Sequences

CONSTANTS
    ANCHOR_WINDOW,   \* heights an anchor stays valid (1024 in the code)
    EPOCH_LENGTH,    \* checkpoints per quota epoch (100 in the code)
    Bodies,          \* what clients submit: transactions without an anchor
    Genesis,         \* the genesis leaves
    GenesisSupply,   \* the value of the genesis notes
    Shares,          \* Shares[h]: the reward shares minted at height h
    MaxHeight,       \* bound: checkpoints applied
    MaxTxs           \* bound: transactions in one checkpoint

-----------------------------------------------------------------------------
(* A leaf is a note commitment: of a genesis note, of a transaction output *)
(* (whose value is hidden: 0) or of a validator reward.                    *)
Leaf == [source : {"genesis", "output", "reward"},
         id : Nat, idx : Nat, value : Nat]

Root == Seq(Leaf)

Anchor == [height : Nat, root : Root]

(* Lane "pow" uses no slot; for it epoch and rate_nullifier are dummies.   *)
(* bound: the lane's stateless check passes (the puzzle is solved for the  *)
(* binding digest; or the rate proof's x is message_x of it).              *)
AntiSpam == [lane : {"pow", "quota"}, epoch : Nat, rate_nullifier : Nat,
             bound : BOOLEAN]

(* Nullifiers are byte arrays compared lexicographically: naturals here.   *)
Body == [nullifiers : [1..2 -> Nat], commitments : [1..2 -> Leaf],
         antispam : AntiSpam, proof_sized : BOOLEAN, proof_ok : BOOLEAN]

Tx == [anchor : Anchor, nullifiers : [1..2 -> Nat], commitments : [1..2 -> Leaf],
       antispam : AntiSpam, proof_sized : BOOLEAN, proof_ok : BOOLEAN]

WithAnchor(b, a) ==
    [anchor |-> a, nullifiers |-> b.nullifiers, commitments |-> b.commitments,
     antispam |-> b.antispam, proof_sized |-> b.proof_sized,
     proof_ok |-> b.proof_ok]

(* Everything but the proof and the anti-spam body.                        *)
BindingDigest(tx) ==
    [anchor |-> tx.anchor, nullifiers |-> tx.nullifiers,
     commitments |-> tx.commitments]

Digest == [anchor : Anchor, nullifiers : [1..2 -> Nat], commitments : [1..2 -> Leaf]]

Nfs(tx) == {tx.nullifiers[1], tx.nullifiers[2]}

ASSUME WindowAssumption == ANCHOR_WINDOW \in Nat \ {0}
ASSUME EpochAssumption  == EPOCH_LENGTH \in Nat \ {0}
ASSUME BodiesAssumption == Bodies \subseteq Body
ASSUME GenesisAssumption == Genesis \in Seq(Leaf) /\ GenesisSupply \in Nat
ASSUME BoundsAssumption == MaxHeight \in Nat /\ MaxTxs \in Nat
ASSUME SharesAssumption == Shares \in [1..MaxHeight -> Seq(Nat)]

-----------------------------------------------------------------------------
(* Stateless validation, in the code's order: proof bucket size, strictly  *)
(* ascending nullifiers, the anti-spam lane, the proof.                    *)
ValidateStateless(tx) ==
    /\ tx.proof_sized
    /\ tx.nullifiers[1] < tx.nullifiers[2]
    /\ tx.antispam.bound
    /\ tx.proof_ok

-----------------------------------------------------------------------------
(* The deque of sealed anchors, oldest first.                              *)

SaturatingSub(a, b) == IF a >= b THEN a - b ELSE 0

(* Mutant of EvictStale: an anchor is kept one height too long.            *)
EvictLate(window, height) ==
    LET fresh == {k \in DOMAIN window :
                    SaturatingSub(height, window[k].height) <= ANCHOR_WINDOW}
    IN  SubSeq(window, CHOOSE k \in fresh : \A j \in fresh : k <= j, Len(window))

(* Pop the front while it is ANCHOR_WINDOW or more behind height.          *)
EvictStale(window, height) ==
    LET fresh == {k \in DOMAIN window :
                    SaturatingSub(height, window[k].height) < ANCHOR_WINDOW}
    IN  IF fresh = {}
        THEN << >>
        ELSE SubSeq(window, CHOOSE k \in fresh : \A j \in fresh : k <= j,
                    Len(window))

(* CommitmentTree::seal: push the current root, then evict.                *)
Sealed(window, leaves, height) ==
    EvictStale(Append(window, [height |-> height, root |-> leaves]), height)

AnchorValid(window, a) == \E k \in DOMAIN window : window[k] = a

-----------------------------------------------------------------------------
(* The quota registry: used slot -> the x (a digest) first seen for it.    *)

Slot(tx) == <<tx.antispam.epoch, tx.antispam.rate_nullifier>>

Admit(registry, slot, x) ==
    IF slot \notin DOMAIN registry THEN "Ok"
    ELSE IF registry[slot] = x     THEN "Duplicate"
    ELSE "Slash"

WithSlot(registry, slot, x) ==
    [s \in DOMAIN registry \cup {slot} |-> IF s = slot THEN x ELSE registry[s]]

QuotaAdmits(tx, registry, next_height) ==
    tx.antispam.lane = "quota" =>
        /\ tx.antispam.epoch = next_height \div EPOCH_LENGTH
        /\ Admit(registry, Slot(tx), BindingDigest(tx)) = "Ok"

(* Mutant of RegistryAfter: an admitted slot is not recorded.              *)
RegistryForgets(registry, tx) == registry

(* What accepting tx leaves in the registry: admit inserts only when it    *)
(* answers Ok, and Ok on the quota lane is the last check there is.        *)
RegistryAfter(registry, tx) ==
    IF tx.antispam.lane = "quota"
    THEN WithSlot(registry, Slot(tx), BindingDigest(tx))
    ELSE registry

-----------------------------------------------------------------------------
RejectReason ==
    {"StaleOrUnknownAnchor", "StatelessInvalid", "DoubleSpend", "QuotaRejected"}

(* Mutants of Verdict: conflicts within the checkpoint go unnoticed; the   *)
(* quota registry is asked before the spent set; any anchor will do.       *)
VerdictForgetsSeen(tx, window, committed, seen, registry, next_height) ==
    IF ~AnchorValid(window, tx.anchor)              THEN "StaleOrUnknownAnchor"
    ELSE IF ~ValidateStateless(tx)                  THEN "StatelessInvalid"
    ELSE IF Nfs(tx) \cap committed # {}             THEN "DoubleSpend"
    ELSE IF ~QuotaAdmits(tx, registry, next_height) THEN "QuotaRejected"
    ELSE "Accepted"

VerdictQuotaFirst(tx, window, committed, seen, registry, next_height) ==
    IF ~AnchorValid(window, tx.anchor)              THEN "StaleOrUnknownAnchor"
    ELSE IF ~ValidateStateless(tx)                  THEN "StatelessInvalid"
    ELSE IF ~QuotaAdmits(tx, registry, next_height) THEN "QuotaRejected"
    ELSE IF Nfs(tx) \cap (committed \cup seen) # {} THEN "DoubleSpend"
    ELSE "Accepted"

VerdictAnyAnchor(tx, window, committed, seen, registry, next_height) ==
    IF ~ValidateStateless(tx)                       THEN "StatelessInvalid"
    ELSE IF Nfs(tx) \cap (committed \cup seen) # {} THEN "DoubleSpend"
    ELSE IF ~QuotaAdmits(tx, registry, next_height) THEN "QuotaRejected"
    ELSE "Accepted"

(* The verdict on one transaction: the first check that fails, or Accepted.*)
Verdict(tx, window, committed, seen, registry, next_height) ==
    IF ~AnchorValid(window, tx.anchor)             THEN "StaleOrUnknownAnchor"
    ELSE IF ~ValidateStateless(tx)                 THEN "StatelessInvalid"
    ELSE IF Nfs(tx) \cap (committed \cup seen) # {} THEN "DoubleSpend"
    ELSE IF ~QuotaAdmits(tx, registry, next_height) THEN "QuotaRejected"
    ELSE "Accepted"

(* Mutant of RewardLeaf: rho does not bind the height.                     *)
RewardLeafAnyHeight(height, j) ==
    [source |-> "reward", id |-> 0, idx |-> (j - 1) % 256,
     value |-> Shares[height][j]]

(* The note minted for share j at a height: its rho is                     *)
(* rho_mint(height, validator_index as u8), indices counted from 0.        *)
RewardLeaf(height, j) ==
    [source |-> "reward", id |-> height, idx |-> (j - 1) % 256,
     value |-> Shares[height][j]]

-----------------------------------------------------------------------------
(* What may arrive.  A client names any anchor sealed so far, or one that  *)
(* never was: the newest height with the genesis root.                     *)
ClaimableAnchors(roots) ==
    {[height |-> k - 1, root |-> roots[k]] : k \in DOMAIN roots}
        \cup {[height |-> Len(roots) - 1, root |-> roots[1]]}

Submittable(roots) ==
    {WithAnchor(b, a) : b \in Bodies, a \in ClaimableAnchors(roots)}

Batches(roots) == UNION {[1..n -> Submittable(roots)] : n \in 0..MaxTxs}
=============================================================================
