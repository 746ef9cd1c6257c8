----------------------------- MODULE Checkpoint -----------------------------
(***************************************************************************)
(* Ledger::apply_checkpoint as one function from a ledger and an ordered   *)
(* list to the ledger after it, for the modules in which a whole ledger is *)
(* one replica among others.  accepted is the count the summary reports.   *)
(***************************************************************************)
EXTENDS LedgerOps, SequencesExt

GenesisLedger ==
    [leaves |-> Genesis, anchors |-> Sealed(<< >>, Genesis, 0),
     nullifiers |-> {}, quota |-> << >>, height |-> 0,
     supply |-> GenesisSupply, accepted |-> 0]

(* Mutant of ScanTx: conflicts are looked for in the committed set only.   *)
ScanTxForgetsSeen(L, s, tx) ==
    LET v == Verdict(tx, L.anchors, L.nullifiers, {}, s.quota, L.height + 1)
        t == [s EXCEPT !.verdicts = Append(@, v)]
    IN  IF v # "Accepted" THEN t
        ELSE [t EXCEPT !.seen = @ \cup Nfs(tx),
                       !.staged_cm = @ \o tx.commitments,
                       !.quota = RegistryAfter(@, tx)]

(* One transaction of the scan: s carries what the loop stages, the        *)
(* registry it updates and the verdicts so far.                            *)
ScanTx(L, s, tx) ==
    LET v == Verdict(tx, L.anchors, L.nullifiers, s.seen, s.quota, L.height + 1)
        t == [s EXCEPT !.verdicts = Append(@, v)]
    IN  IF v # "Accepted" THEN t
        ELSE [t EXCEPT !.seen = @ \cup Nfs(tx),
                       !.staged_cm = @ \o tx.commitments,
                       !.quota = RegistryAfter(@, tx)]

Scan(L, txs) ==
    FoldLeft(LAMBDA s, tx : ScanTx(L, s, tx),
             [seen |-> {}, staged_cm |-> << >>, quota |-> L.quota, verdicts |-> << >>],
             txs)

MintedLeaves(h) == [j \in DOMAIN Shares[h] |-> RewardLeaf(h, j)]

ApplyCheckpoint(L, txs) ==
    LET s == Scan(L, txs)
        h == L.height + 1
        tree == L.leaves \o s.staged_cm \o MintedLeaves(h)
    IN  [leaves |-> tree,
         anchors |-> Sealed(L.anchors, tree, h),
         nullifiers |-> L.nullifiers \cup s.seen,
         quota |-> s.quota,
         height |-> h,
         supply |-> L.supply + SumFunction(Shares[h]),
         accepted |-> Cardinality({k \in DOMAIN s.verdicts :
                                      s.verdicts[k] = "Accepted"})]
=============================================================================
