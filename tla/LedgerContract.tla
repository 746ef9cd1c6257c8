--------------------------- MODULE LedgerContract ---------------------------
(***************************************************************************)
(* What a checkpoint promises, without staging, deques or registries.  The *)
(* batch on offer is settled in one step.  Its winners are the one set of  *)
(* transactions in which each is admissible and no two compete, an earlier *)
(* one always beating a later one.  What they spend is spent, their        *)
(* outputs extend the tree in batch order, followed by the rewards, and    *)
(* the new root is sealed for ANCHOR_WINDOW heights.                       *)
(***************************************************************************)
EXTENDS LedgerOps, SequencesExt

VARIABLES
    batch,      \* input: the ordered transactions on offer
    tree,       \* the note commitments, in position order
    spent,      \* nullifiers of every winner so far
    slots,      \* quota slots used by every winner so far
    roots,      \* roots[h + 1]: the root sealed at height h
    supply

cvars == <<batch, tree, spent, slots, roots, supply>>

now == Len(roots)       \* the height being settled

(* Sealed at its height, with its root, and not yet out of the window.     *)
Spendable(a) ==
    /\ a.height < now /\ now <= a.height + ANCHOR_WINDOW
    /\ a.root = roots[a.height + 1]

IsQuota(tx) == tx.antispam.lane = "quota"

(* Admissible on its own: right anchor, well formed, nothing used before.  *)
Admissible(tx) ==
    /\ Spendable(tx.anchor)
    /\ ValidateStateless(tx)
    /\ Nfs(tx) \cap spent = {}
    /\ IsQuota(tx) => /\ tx.antispam.epoch = now \div EPOCH_LENGTH
                      /\ Slot(tx) \notin slots

(* Two transactions of which only one can win.                             *)
Compete(s, t) ==
    \/ Nfs(s) \cap Nfs(t) # {}
    \/ IsQuota(s) /\ IsQuota(t) /\ Slot(s) = Slot(t)

AreWinners(W) ==
    \A k \in DOMAIN batch :
        k \in W <=> /\ Admissible(batch[k])
                    /\ ~\E j \in W : j < k /\ Compete(batch[j], batch[k])

(* The outputs of the winners, in batch order.                             *)
Outputs(W) ==
    FlattenSeq([k \in DOMAIN batch |-> IF k \in W THEN batch[k].commitments ELSE << >>])

Rewards(h) == [j \in DOMAIN Shares[h] |-> RewardLeaf(h, j)]

-----------------------------------------------------------------------------
CInit ==
    /\ batch = << >>
    /\ tree = Genesis /\ spent = {} /\ slots = {}
    /\ roots = <<Genesis>> /\ supply = GenesisSupply

Offer ==
    /\ batch' \in Batches(roots)
    /\ UNCHANGED <<tree, spent, slots, roots, supply>>

Settle ==
    /\ now <= MaxHeight
    /\ \E W \in SUBSET DOMAIN batch :
          /\ AreWinners(W)
          /\ tree' = tree \o Outputs(W) \o Rewards(now)
          /\ spent' = spent \cup UNION {Nfs(batch[k]) : k \in W}
          /\ slots' = slots \cup
                        {Slot(batch[k]) : k \in {w \in W : IsQuota(batch[w])}}
    /\ roots' = Append(roots, tree')
    /\ supply' = supply + SumFunction(Shares[now])
    /\ batch' \in {batch, << >>}

CNext == Offer \/ Settle

CSpec == CInit /\ [][CNext]_cvars
=============================================================================
