------------------------------ MODULE Recovery ------------------------------
(***************************************************************************)
(* A node that persists its ledger, crashes and restores it                *)
(* (Ledger::persist, Ledger::restore, crates/storage), beside a replica    *)
(* that never stops.  Both apply the same committed batches; the restarted *)
(* node re-applies those above the height it restored.  The store's one    *)
(* write is a single transaction, so a crash finds all of it or nothing.   *)
(***************************************************************************)
EXTENDS Checkpoint

CONSTANT MaxCrashes      \* bound: crashes of the node

ASSUME CrashAssumption == MaxCrashes \in Nat

VARIABLES
    chain,          \* committed batches, one per height
    steady,         \* the replica that never stops
    roots,          \* roots[h + 1], supplies[h + 1]: what it had at height h
    supplies,
    node, up,       \* the node's ledger; meaningless while it is down
    store,          \* the node's redb file
    crashes,
    (* history, for the properties *)
    spends,         \* nullifier pairs the node accepted, in its present past
    savedSpends,    \* the same at the last persist
    restoredAt,     \* height of the last restore, 0 if none
    exposed         \* the node met traffic that depends on what a restart loses

nodevars == <<node, up, store, crashes, spends, savedSpends, restoredAt, exposed>>
vars == <<chain, steady, roots, supplies, nodevars>>

-----------------------------------------------------------------------------
(* The store: leaves by position, nullifiers, and the two meta entries,    *)
(* absent until the first write.                                           *)
EmptyStore == [leaves |-> << >>, nullifiers |-> {}, meta |-> {}]

(* Mutant of CommitCheckpoint: the meta entries are written only once.     *)
CommitMetaOnce(st, height, supply, new_leaves, new_nullifiers) ==
    [leaves |-> [p \in DOMAIN st.leaves \cup DOMAIN new_leaves |->
                    IF p \in DOMAIN new_leaves THEN new_leaves[p]
                                               ELSE st.leaves[p]],
     nullifiers |-> st.nullifiers \cup new_nullifiers,
     meta |-> IF st.meta = {} THEN {[height |-> height, supply |-> supply]}
                              ELSE st.meta]

(* commit_checkpoint inserts: rows the write does not name stay.           *)
CommitCheckpoint(st, height, supply, new_leaves, new_nullifiers) ==
    [leaves |-> [p \in DOMAIN st.leaves \cup DOMAIN new_leaves |->
                    IF p \in DOMAIN new_leaves THEN new_leaves[p]
                                               ELSE st.leaves[p]],
     nullifiers |-> st.nullifiers \cup new_nullifiers,
     meta |-> {[height |-> height, supply |-> supply]}]

(* Ledger::persist writes all leaves and all nullifiers.                   *)
Persisted(st, L) ==
    CommitCheckpoint(st, L.height, L.supply, L.leaves, L.nullifiers)

(* Leaves come back in position order, their positions ignored.            *)
LoadTree(st) ==
    LET rows == DOMAIN st.leaves
        row(k) == CHOOSE p \in rows : Cardinality({q \in rows : q < p}) = k - 1
    IN  [k \in 1..Cardinality(rows) |-> st.leaves[row(k)]]

(* The meta entries as restore reads them: unwrap_or(0) when absent.       *)
Meta(st) == IF st.meta = {} THEN [height |-> 0, supply |-> 0]
                            ELSE CHOOSE m \in st.meta : TRUE

(* Mutants of Restored: the spent set is not reloaded; the supply is read  *)
(* from the other meta entry; the current anchor is not sealed again, or   *)
(* as that of a new ledger.                                                *)
RestoredUnspent(st) ==
    [leaves |-> LoadTree(st),
     anchors |-> Sealed(<< >>, LoadTree(st), Meta(st).height),
     nullifiers |-> {}, quota |-> << >>, height |-> Meta(st).height,
     supply |-> Meta(st).supply, accepted |-> 0]

RestoredWrongMeta(st) ==
    [leaves |-> LoadTree(st),
     anchors |-> Sealed(<< >>, LoadTree(st), Meta(st).height),
     nullifiers |-> st.nullifiers, quota |-> << >>, height |-> Meta(st).height,
     supply |-> Meta(st).height, accepted |-> 0]

RestoredUnsealed(st) ==
    [leaves |-> LoadTree(st), anchors |-> << >>,
     nullifiers |-> st.nullifiers, quota |-> << >>, height |-> Meta(st).height,
     supply |-> Meta(st).supply, accepted |-> 0]

RestoredSealedAtZero(st) ==
    [leaves |-> LoadTree(st),
     anchors |-> Sealed(<< >>, LoadTree(st), 0),
     nullifiers |-> st.nullifiers, quota |-> << >>, height |-> Meta(st).height,
     supply |-> Meta(st).supply, accepted |-> 0]

(* Ledger::restore: the tree from the leaves, only the current anchor      *)
(* sealed, the nullifiers, a new registry.                                 *)
Restored(st) ==
    [leaves |-> LoadTree(st),
     anchors |-> Sealed(<< >>, LoadTree(st), Meta(st).height),
     nullifiers |-> st.nullifiers, quota |-> << >>, height |-> Meta(st).height,
     supply |-> Meta(st).supply, accepted |-> 0]

-----------------------------------------------------------------------------
Init ==
    /\ chain = << >> /\ steady = GenesisLedger
    /\ roots = <<Genesis>> /\ supplies = <<GenesisSupply>>
    /\ node = GenesisLedger /\ up = TRUE
    /\ store = EmptyStore /\ crashes = 0
    /\ spends = << >> /\ savedSpends = << >>
    /\ restoredAt = 0 /\ exposed = FALSE

(* Consensus commits the next batch; the steady replica applies it.        *)
Commit(txs) ==
    /\ Len(chain) < MaxHeight
    /\ chain' = Append(chain, txs)
    /\ steady' = ApplyCheckpoint(steady, txs)
    /\ roots' = Append(roots, steady'.leaves)
    /\ supplies' = Append(supplies, steady'.supply)
    /\ UNCHANGED nodevars

(* A transaction whose verdict depends on an anchor older than the         *)
(* restored one, or on a slot of an epoch begun before the restore.        *)
Exposes(tx) ==
    /\ restoredAt > 0
    /\ \/ tx.anchor.height < restoredAt
       \/ /\ tx.antispam.lane = "quota"
          /\ tx.antispam.epoch <= restoredAt \div EPOCH_LENGTH

NewSpends(L, txs) == Scan(L, txs).seen

(* The node applies the batch after its own height.                        *)
NodeApply ==
    /\ up /\ node.height < Len(chain)
    /\ LET txs == chain[node.height + 1]
       IN  /\ node' = ApplyCheckpoint(node, txs)
           /\ spends' = Append(spends, NewSpends(node, txs))
           /\ exposed' = (exposed \/ \E k \in DOMAIN txs : Exposes(txs[k]))
    /\ UNCHANGED <<chain, steady, roots, supplies, up, store, crashes,
                   savedSpends, restoredAt>>

Persist ==
    /\ up
    /\ store' = Persisted(store, node)
    /\ savedSpends' = spends
    /\ UNCHANGED <<chain, steady, roots, supplies, node, up, crashes, spends,
                   restoredAt, exposed>>

Crash ==
    /\ up /\ crashes < MaxCrashes
    /\ up' = FALSE /\ crashes' = crashes + 1
    /\ UNCHANGED <<chain, steady, roots, supplies, node, store, spends,
                   savedSpends, restoredAt, exposed>>

(* Restart on a store that was written; a node that never persisted starts *)
(* again from genesis.                                                     *)
Restart ==
    /\ ~up
    /\ up' = TRUE
    /\ node' = IF store.meta = {} THEN GenesisLedger ELSE Restored(store)
    /\ restoredAt' = node'.height
    /\ spends' = savedSpends
    /\ UNCHANGED <<chain, steady, roots, supplies, store, crashes,
                   savedSpends, exposed>>

Next ==
    \/ \E txs \in Batches(roots) : Commit(txs)
    \/ NodeApply \/ Persist \/ Crash \/ Restart

Spec == Init /\ [][Next]_vars

-----------------------------------------------------------------------------
(* A restart forgets no spend: along the node's present past, whatever it  *)
(* restored and re-applied, no nullifier is accepted at two heights.       *)
NoDoubleSpendAcrossRestart ==
    \A j, k \in DOMAIN spends : j # k => spends[j] \cap spends[k] = {}

(* The node at a height has the supply the steady replica had there: no    *)
(* reward is minted twice or lost by a crash, even if roots diverge.       *)
SupplySurvivesRestart == up => node.supply = supplies[node.height + 1]

(* A restart is invisible to traffic that does not depend on what it       *)
(* loses: until a transaction cites an anchor older than the restored one, *)
(* or a slot of an epoch begun before the restore, the node's root at      *)
(* every height, and its spent set, are the steady replica's.              *)
RestartTransparent ==
    (up /\ ~exposed) =>
        /\ node.leaves = roots[node.height + 1]
        /\ node.height = Len(chain) => node.nullifiers = steady.nullifiers

(* The slots of a registry that a restore of that height cannot have lost: *)
(* those of epochs that began after it.                                    *)
SlotsSince(registry, restored) ==
    [s \in {x \in DOMAIN registry :
               restored = 0 \/ x[1] > restored \div EPOCH_LENGTH} |-> registry[s]]

(* What a restart loses comes back: a node that has caught up knows the    *)
(* anchors sealed from the restored height on and no others, so the whole  *)
(* window once ANCHOR_WINDOW heights were sealed since, and the slots of   *)
(* every epoch that began after the restore.  Losses of several restarts   *)
(* do not add up.                                                          *)
RestartHeals ==
    (up /\ ~exposed /\ node.height = Len(chain)) =>
        /\ Range(node.anchors) = {a \in Range(steady.anchors) : a.height >= restoredAt}
        /\ node.height + 1 >= restoredAt + ANCHOR_WINDOW =>
              Range(node.anchors) = Range(steady.anchors)
        /\ SlotsSince(node.quota, restoredAt) = SlotsSince(steady.quota, restoredAt)

(* The same input gives the same root: "Replaying the same ordered input   *)
(* on any node yields an identical state root".                            *)
ReplayYieldsSameRoot == up => node.leaves = roots[node.height + 1]

(* What is on disk is a ledger the node really had: the leaves and the     *)
(* spent set of one height, never a mixture of two.                        *)
StoreIsOneSnapshot ==
    \A m \in store.meta :
        /\ m.supply = supplies[m.height + 1]
        /\ store.nullifiers = UNION {savedSpends[k] : k \in DOMAIN savedSpends}
        /\ Len(savedSpends) = m.height
        /\ ~exposed => store.leaves = roots[m.height + 1]
=============================================================================
