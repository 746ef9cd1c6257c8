------------------------------- MODULE Ledger -------------------------------
(***************************************************************************)
(* The checkpoint state machine (crates/state).  Ledger::apply_checkpoint  *)
(* is one call, with three loops: scan the ordered transactions, commit    *)
(* what was staged, mint one reward note per share, then seal the anchor.  *)
(* Each iteration is a step here, so that the state between iterations can *)
(* be reasoned about; pc makes every step of a call mandatory and in the   *)
(* code's order.  LedgerContract says what the whole call promises.        *)
(***************************************************************************)
EXTENDS LedgerOps, FiniteSets

VARIABLES
    (* struct Ledger *)
    leaves,               \* the commitment tree's leaves, in position order
    anchors,              \* its deque of sealed anchors, oldest first
    nullifiers,           \* the committed spent set
    quota,                \* the quota registry
    height, supply,
    (* the locals of apply_checkpoint; between calls, the summary of the   *)
    (* last one.  staged_nf holds what seen_this_checkpoint holds.         *)
    pc,                   \* "idle", "scan" or "mint"
    i,                    \* the next transaction, then the next share
    ordered,
    seen_this_checkpoint,
    staged_cm,
    accepted,
    rejected,             \* function: rejected index -> reason
    output_positions,     \* the first position and the number of positions
    (* history, for the properties *)
    log,                  \* accepted transactions with their checkpoint
    roots                 \* roots[h + 1]: the root sealed at height h

ledger == <<leaves, anchors, nullifiers, quota, height, supply>>
locals == <<pc, i, ordered, seen_this_checkpoint, staged_cm, accepted,
            rejected, output_positions>>
vars == <<ledger, locals, log, roots>>

next_height == height + 1

-----------------------------------------------------------------------------
(* Ledger::genesis.                                                        *)
Init ==
    /\ leaves = Genesis
    /\ anchors = Sealed(<< >>, Genesis, 0)
    /\ nullifiers = {}
    /\ quota = << >>
    /\ height = 0
    /\ supply = GenesisSupply
    /\ pc = "idle" /\ i = 1 /\ ordered = << >>
    /\ seen_this_checkpoint = {} /\ staged_cm = << >>
    /\ accepted = 0 /\ rejected = << >>
    /\ output_positions = [base |-> 0, count |-> 0]
    /\ log = << >>
    /\ roots = <<Genesis>>

(* Mutant of Begin: the last call's rejections are carried over.           *)
BeginKeepsSummary(txs) ==
    /\ pc = "idle" /\ height < MaxHeight
    /\ pc' = "scan" /\ i' = 1 /\ ordered' = txs
    /\ seen_this_checkpoint' = {} /\ staged_cm' = << >>
    /\ accepted' = 0 /\ output_positions' = [base |-> 0, count |-> 0]
    /\ UNCHANGED <<ledger, rejected, log, roots>>

(* apply_checkpoint is called with an ordered list.                        *)
Begin(txs) ==
    /\ pc = "idle" /\ height < MaxHeight
    /\ pc' = "scan" /\ i' = 1 /\ ordered' = txs
    /\ seen_this_checkpoint' = {} /\ staged_cm' = << >>
    /\ accepted' = 0 /\ rejected' = << >>
    /\ output_positions' = [base |-> 0, count |-> 0]
    /\ UNCHANGED <<ledger, log, roots>>

Scanning == pc = "scan" /\ i <= Len(ordered)

VerdictHere ==
    Verdict(ordered[i], anchors, nullifiers, seen_this_checkpoint, quota,
            next_height)

(* Mutant of RejectTx: a rejected transaction marks its nullifiers.        *)
RejectMarksSeen ==
    /\ Scanning
    /\ VerdictHere # "Accepted"
    /\ rejected' = [k \in DOMAIN rejected \cup {i} |->
                        IF k = i THEN VerdictHere ELSE rejected[k]]
    /\ seen_this_checkpoint' = seen_this_checkpoint \cup Nfs(ordered[i])
    /\ i' = i + 1
    /\ UNCHANGED <<ledger, pc, ordered, staged_cm, accepted, output_positions,
                   log, roots>>

(* Any of the four rejections: record the reason, touch nothing else.      *)
RejectTx ==
    /\ Scanning
    /\ VerdictHere # "Accepted"
    /\ rejected' = [k \in DOMAIN rejected \cup {i} |->
                        IF k = i THEN VerdictHere ELSE rejected[k]]
    /\ i' = i + 1
    /\ UNCHANGED <<ledger, pc, ordered, seen_this_checkpoint, staged_cm,
                   accepted, output_positions, log, roots>>

(* Accept: the quota slot is taken now, the rest is staged.                *)
AcceptTx ==
    /\ Scanning
    /\ VerdictHere = "Accepted"
    /\ quota' = RegistryAfter(quota, ordered[i])
    /\ seen_this_checkpoint' = seen_this_checkpoint \cup Nfs(ordered[i])
    /\ staged_cm' = staged_cm \o ordered[i].commitments
    /\ accepted' = accepted + 1
    /\ i' = i + 1
    /\ log' = Append(log, [tx |-> ordered[i], at |-> next_height])
    /\ UNCHANGED <<leaves, anchors, nullifiers, height, supply, pc, ordered,
                   rejected, output_positions, roots>>

(* Mutants of CommitStaged: the spent set is replaced, not extended; the   *)
(* outputs go in front of the tree; the positions are taken too late.      *)
CommitReplacesSpent ==
    /\ pc = "scan" /\ i > Len(ordered)
    /\ nullifiers' = seen_this_checkpoint
    /\ output_positions' = [base |-> Len(leaves), count |-> Len(staged_cm)]
    /\ leaves' = leaves \o staged_cm
    /\ pc' = "mint" /\ i' = 1
    /\ UNCHANGED <<anchors, quota, height, supply, ordered,
                   seen_this_checkpoint, staged_cm, accepted, rejected,
                   log, roots>>

CommitInFront ==
    /\ pc = "scan" /\ i > Len(ordered)
    /\ nullifiers' = nullifiers \cup seen_this_checkpoint
    /\ output_positions' = [base |-> 0, count |-> Len(staged_cm)]
    /\ leaves' = staged_cm \o leaves
    /\ pc' = "mint" /\ i' = 1
    /\ UNCHANGED <<anchors, quota, height, supply, ordered,
                   seen_this_checkpoint, staged_cm, accepted, rejected,
                   log, roots>>

CommitPositionsLate ==
    /\ pc = "scan" /\ i > Len(ordered)
    /\ nullifiers' = nullifiers \cup seen_this_checkpoint
    /\ leaves' = leaves \o staged_cm
    /\ output_positions' = [base |-> Len(leaves'), count |-> Len(staged_cm)]
    /\ pc' = "mint" /\ i' = 1
    /\ UNCHANGED <<anchors, quota, height, supply, ordered,
                   seen_this_checkpoint, staged_cm, accepted, rejected,
                   log, roots>>

(* The scan is over: commit the staged nullifiers and output commitments.  *)
CommitStaged ==
    /\ pc = "scan" /\ i > Len(ordered)
    /\ nullifiers' = nullifiers \cup seen_this_checkpoint
    /\ output_positions' = [base |-> Len(leaves), count |-> Len(staged_cm)]
    /\ leaves' = leaves \o staged_cm
    /\ pc' = "mint" /\ i' = 1
    /\ UNCHANGED <<anchors, quota, height, supply, ordered,
                   seen_this_checkpoint, staged_cm, accepted, rejected,
                   log, roots>>

(* One reward note: append its commitment, add its amount to the supply.   *)
MintReward ==
    /\ pc = "mint" /\ i <= Len(Shares[next_height])
    /\ leaves' = Append(leaves, RewardLeaf(next_height, i))
    /\ supply' = supply + Shares[next_height][i]
    /\ i' = i + 1
    /\ UNCHANGED <<anchors, nullifiers, quota, height, pc, ordered,
                   seen_this_checkpoint, staged_cm, accepted, rejected,
                   output_positions, log, roots>>

(* Mutant of SealCheckpoint: it does not wait for the rewards.             *)
SealEarly ==
    /\ pc = "mint"
    /\ anchors' = Sealed(anchors, leaves, next_height)
    /\ height' = next_height
    /\ roots' = Append(roots, leaves)
    /\ pc' = "idle"
    /\ UNCHANGED <<leaves, nullifiers, quota, supply, i, ordered,
                   seen_this_checkpoint, staged_cm, accepted, rejected,
                   output_positions, log>>

(* Seal the new anchor, advance the height, return the summary.            *)
SealCheckpoint ==
    /\ pc = "mint" /\ i > Len(Shares[next_height])
    /\ anchors' = Sealed(anchors, leaves, next_height)
    /\ height' = next_height
    /\ roots' = Append(roots, leaves)
    /\ pc' = "idle"
    /\ UNCHANGED <<leaves, nullifiers, quota, supply, i, ordered,
                   seen_this_checkpoint, staged_cm, accepted, rejected,
                   output_positions, log>>

(* The bound is reached: no more checkpoints are applied.                  *)
Quiesce == pc = "idle" /\ height = MaxHeight /\ UNCHANGED vars

Step == RejectTx \/ AcceptTx \/ CommitStaged \/ MintReward \/ SealCheckpoint

Next ==
    \/ \E txs \in Batches(roots) : Begin(txs)
    \/ Step
    \/ Quiesce

Spec == Init /\ [][Next]_vars

-----------------------------------------------------------------------------
TypeOK ==
    /\ leaves \in Seq(Leaf)
    /\ anchors \in Seq(Anchor)
    /\ nullifiers \in SUBSET Nat
    /\ DOMAIN quota \subseteq Nat \X Nat
    /\ \A s \in DOMAIN quota : quota[s] \in Digest
    /\ height \in 0..MaxHeight
    /\ supply \in Nat
    /\ pc \in {"idle", "scan", "mint"}
    /\ pc # "idle" => height < MaxHeight
    /\ i \in Nat \ {0}
    /\ ordered \in Seq(Tx)
    /\ seen_this_checkpoint \in SUBSET Nat
    /\ staged_cm \in Seq(Leaf)
    /\ accepted \in Nat
    /\ DOMAIN rejected \subseteq DOMAIN ordered
    /\ \A k \in DOMAIN rejected : rejected[k] \in RejectReason
    /\ output_positions \in [base : Nat, count : Nat]
    /\ log \in Seq([tx : Tx, at : Nat])
    /\ roots \in Seq(Root) /\ Len(roots) = height + 1

-----------------------------------------------------------------------------
(* No note is spent twice: no two accepted transactions, of one checkpoint *)
(* or of two, share a nullifier, and none names one twice.                 *)
NoDoubleSpend ==
    /\ \A j, k \in DOMAIN log :
          j # k => Nfs(log[j].tx) \cap Nfs(log[k].tx) = {}
    /\ \A k \in DOMAIN log : log[k].tx.nullifiers[1] # log[k].tx.nullifiers[2]

(* Between calls the committed spent set is exactly what the accepted      *)
(* transactions spent: a rejected transaction marks nothing as spent and   *)
(* an accepted one is never forgotten.                                     *)
SpentExactly ==
    pc = "idle" => nullifiers = UNION {Nfs(log[k].tx) : k \in DOMAIN log}

(* Between calls the deque holds exactly the anchors of the last           *)
(* ANCHOR_WINDOW heights, oldest first, the newest on the current tree.    *)
AnchorWindowExact ==
    pc = "idle" =>
        LET first == SaturatingSub(next_height, ANCHOR_WINDOW)
        IN  /\ Len(anchors) = next_height - first
            /\ \A k \in DOMAIN anchors :
                  anchors[k] = [height |-> first + k - 1,
                                root |-> roots[first + k]]
            /\ roots[next_height] = leaves

(* Every root ever sealed is a prefix of the tree: what was provable in an *)
(* anchor stays in the tree at the same position.                          *)
RootsArePrefixes ==
    \A k \in DOMAIN roots :
        /\ Len(roots[k]) <= Len(leaves)
        /\ \A p \in DOMAIN roots[k] : roots[k][p] = leaves[p]

(* A transaction is accepted only on an anchor that was sealed before its  *)
(* checkpoint, less than ANCHOR_WINDOW below the height it extends.        *)
AcceptedOnSealedAnchor ==
    \A k \in DOMAIN log :
        LET a == log[k].tx.anchor
        IN  /\ a.height < log[k].at
            /\ log[k].at <= a.height + ANCHOR_WINDOW
            /\ a.root = roots[a.height + 1]

(* A quota slot carries at most one accepted transaction, in its own epoch,*)
(* and the registry remembers precisely the slots that did: a rejected     *)
(* transaction never uses up its sender's slot.                            *)
OneTxPerSlot ==
    LET quotaTxs == {k \in DOMAIN log : log[k].tx.antispam.lane = "quota"}
    IN  /\ \A j, k \in quotaTxs : Slot(log[j].tx) = Slot(log[k].tx) => j = k
        /\ DOMAIN quota = {Slot(log[k].tx) : k \in quotaTxs}
        /\ \A k \in quotaTxs :
              /\ log[k].tx.antispam.epoch = log[k].at \div EPOCH_LENGTH
              /\ quota[Slot(log[k].tx)] = BindingDigest(log[k].tx)

(* Ledger::current_epoch.                                                  *)
current_epoch == height \div EPOCH_LENGTH

(* "Wallets sign quota rate proofs for this epoch": during a checkpoint, a *)
(* rate proof signed for the current_epoch of the ledger it extends is not *)
(* turned away by the quota check unless its slot was used.                *)
SignedForCurrentEpochAdmitted ==
    \A k \in DOMAIN rejected :
        (/\ pc = "scan" /\ rejected[k] = "QuotaRejected"
         /\ ordered[k].antispam.epoch = current_epoch)
            => Slot(ordered[k]) \in DOMAIN quota

(* The summary's positions locate the outputs: read in order, the leaves   *)
(* at output_positions are the commitments of the transactions that were   *)
(* not rejected, two each.                                                 *)
PositionsLocateOutputs ==
    pc = "idle" =>
        /\ output_positions.count = 2 * accepted
        /\ accepted = Len(ordered) - Cardinality(DOMAIN rejected)
        /\ \A k \in DOMAIN ordered \ DOMAIN rejected :
              LET before == Cardinality({m \in 1..(k-1) : m \notin DOMAIN rejected})
                  p == output_positions.base + 2 * before
              IN  \A n \in 1..2 : leaves[p + n] = ordered[k].commitments[n]

-----------------------------------------------------------------------------
(* The ledger only grows: no step removes a spent nullifier, changes or    *)
(* drops a leaf, forgets a used slot, shrinks the supply or moves the      *)
(* height by more than one.                                                *)
AppendOnly ==
    [][/\ nullifiers \subseteq nullifiers'
       /\ Len(leaves) <= Len(leaves')
       /\ \A p \in DOMAIN leaves : leaves'[p] = leaves[p]
       /\ \A s \in DOMAIN quota : s \in DOMAIN quota' /\ quota'[s] = quota[s]
       /\ supply <= supply'
       /\ height' \in {height, height + 1}]_vars

(* Rebroadcasting an accepted transaction is answered DoubleSpend, never   *)
(* QuotaRejected: the registry, which slashes a reused slot, is not even   *)
(* asked about a message it has seen.                                      *)
RebroadcastNeverReachesQuota ==
    [][\A k \in DOMAIN rejected' \ DOMAIN rejected :
          rejected'[k] = "QuotaRejected" =>
              \A j \in DOMAIN log :
                  BindingDigest(log[j].tx) # BindingDigest(ordered[k])]_vars

(* What other code can see of the ledger while a call runs is settled only *)
(* at its end: an anchor becomes valid, and the height moves, in the step  *)
(* that ends a call, on a tree that already holds all its rewards.         *)
AnchorsMoveOnlyAtSeal ==
    [][anchors' # anchors =>
          /\ height' = height + 1
          /\ anchors'[Len(anchors')] = [height |-> height', root |-> leaves']
          /\ Len(leaves') = Len(roots[Len(roots)]) + 2 * accepted
                              + Len(Shares[height'])]_vars
=============================================================================
