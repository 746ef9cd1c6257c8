---------------------------- MODULE LedgerProofs ----------------------------
(***************************************************************************)
(* Proofs about the ledger, for every window, epoch length, set of bodies, *)
(* genesis, reward shares and bounds that satisfy the assumptions: its     *)
(* types; nothing is spent twice, and a quota slot is used once; the deque *)
(* is the window of the sealed roots, and what is accepted cites one of    *)
(* them; the ledger only grows, and only at a seal does what can be spent  *)
(* from change; outputs are where the summary says they are.               *)
(***************************************************************************)
EXTENDS LedgerRefinement, CheckpointProofs

-----------------------------------------------------------------------------
(* Type correctness.                                                       *)

(* TypeOK is not inductive by itself: that sealing leaves a sequence of    *)
(* anchors depends on the deque being a window.                            *)
TypeInv == TypeOK /\ IsWindow(anchors, next_height)

(* What the steps of a call may assume of the transaction at hand.         *)
LEMMA HereTyped ==
  ASSUME TypeOK, Scanning
  PROVE  /\ i \in DOMAIN ordered
         /\ ordered[i] \in Tx
         /\ Nfs(ordered[i]) \subseteq Nat
         /\ ordered[i].commitments \in Seq(Leaf)
         /\ Slot(ordered[i]) \in Nat \X Nat
         /\ BindingDigest(ordered[i]) \in Digest
<1>1. i \in 1..Len(ordered) /\ ordered \in Seq(Tx)
  BY DEF TypeOK, Scanning
<1>2. i \in DOMAIN ordered /\ ordered[i] \in Tx
  BY <1>1, LenProperties, ElementOfSeq
<1>3. ordered[i].commitments \in [1..2 -> Leaf]
  BY <1>2 DEF Tx
<1>4. ordered[i].commitments \in Seq(Leaf)
  BY <1>3, PairIsSeq
<1>5. Nfs(ordered[i]) \subseteq Nat
  BY <1>2 DEF Tx, Nfs
<1>6. Slot(ordered[i]) \in Nat \X Nat
  BY <1>2 DEF Tx, AntiSpam, Slot
<1>7. BindingDigest(ordered[i]) \in Digest
  BY <1>2 DEF Tx, BindingDigest, Digest
<1> QED
  BY <1>2, <1>4, <1>5, <1>6, <1>7

(* TypeInv holds at genesis.                                               *)
LEMMA TypeInvInit == Init => TypeInv
<1> SUFFICES ASSUME Init PROVE TypeInv
  OBVIOUS
<1>1. IsWindow(<< >>, 0)
  BY EmptyWindow
<1>2. IsWindow(anchors, 0 + 1)
  BY <1>1, SealedIsWindow, GenesisAssumption DEF Init
<1>3. IsWindow(anchors, next_height)
  BY <1>2 DEF Init, next_height
<1>4. anchors \in Seq(Anchor)
  BY <1>2 DEF IsWindow
<1>5. roots \in Seq(Root) /\ Len(roots) = height + 1
  BY GenesisAssumption DEF Init, Root
<1>6. DOMAIN quota = {} /\ DOMAIN rejected = {}
  BY DEF Init
<1>7. ordered \in Seq(Tx) /\ staged_cm \in Seq(Leaf)
      /\ log \in Seq([tx : Tx, at : Nat])
  BY DEF Init
<1> QED
  BY <1>3, <1>4, <1>5, <1>6, <1>7, GenesisAssumption, BoundsAssumption
  DEF Init, TypeInv, TypeOK

(* Every step preserves it.                                                *)
LEMMA TypeInvStep == TypeInv /\ [Next]_vars => TypeInv'
<1> SUFFICES ASSUME TypeInv, [Next]_vars PROVE TypeInv'
  OBVIOUS
<1>0. TypeOK /\ IsWindow(anchors, next_height)
  BY DEF TypeInv
<1>1. ASSUME NEW txs \in Batches(roots), Begin(txs) PROVE TypeInv'
  <2>1. roots \in Seq(Root) /\ Len(roots) > 0
    BY <1>0, BoundsAssumption DEF TypeOK
  <2>2. ordered' \in Seq(Tx)
    BY <2>1, <1>1, BatchesTyped DEF Begin
  <2>3. TypeOK'
    BY <2>2, <1>0, <1>1 DEF Begin, ledger, TypeOK
  <2> QED
    BY <2>3, <1>0, <1>1 DEF Begin, ledger, TypeInv, next_height
<1>2. CASE RejectTx
  <2>1. i \in DOMAIN ordered /\ VerdictHere \in RejectReason
    BY <1>0, <1>2, HereTyped DEF RejectTx, VerdictHere, Verdict, RejectReason
  <2>2. /\ DOMAIN rejected' \subseteq DOMAIN ordered
        /\ \A k \in DOMAIN rejected' : rejected'[k] \in RejectReason
    <3>1. /\ DOMAIN rejected \subseteq DOMAIN ordered
          /\ \A k \in DOMAIN rejected : rejected[k] \in RejectReason
      BY <1>0 DEF TypeOK
    <3>2. rejected' = [k \in DOMAIN rejected \cup {i} |->
                         IF k = i THEN VerdictHere ELSE rejected[k]]
      BY <1>2 DEF RejectTx
    <3> QED
      BY <2>1, <3>1, <3>2
  <2>3. i' \in Nat \ {0}
    BY <1>0, <1>2 DEF RejectTx, TypeOK
  <2>4. UNCHANGED <<leaves, anchors, nullifiers, quota, height, supply, pc,
                    ordered, seen_this_checkpoint, staged_cm, accepted,
                    output_positions, log, roots>>
    BY <1>2 DEF RejectTx, ledger
  <2>5. TypeOK'
    BY <2>2, <2>3, <2>4, <1>0 DEF TypeOK
  <2> QED
    BY <2>4, <2>5, <1>0 DEF TypeInv, next_height
<1>3. CASE AcceptTx
  <2>1. /\ Scanning /\ ordered[i] \in Tx /\ Nfs(ordered[i]) \subseteq Nat
        /\ ordered[i].commitments \in Seq(Leaf)
        /\ Slot(ordered[i]) \in Nat \X Nat
        /\ BindingDigest(ordered[i]) \in Digest
    BY <1>0, <1>3, HereTyped DEF AcceptTx
  <2>2. DOMAIN quota' \subseteq Nat \X Nat /\ \A s \in DOMAIN quota' : quota'[s] \in Digest
    BY <2>1, <1>0, <1>3 DEF AcceptTx, RegistryAfter, WithSlot, TypeOK
  <2>3. staged_cm' \in Seq(Leaf)
    BY <2>1, <1>0, <1>3, ConcatProperties DEF AcceptTx, TypeOK
  <2>4. log' \in Seq([tx : Tx, at : Nat])
    <3>1. [tx |-> ordered[i], at |-> next_height] \in [tx : Tx, at : Nat]
      BY <2>1, <1>0, BoundsAssumption DEF next_height, TypeOK
    <3>2. /\ log \in Seq([tx : Tx, at : Nat])
          /\ log' = Append(log, [tx |-> ordered[i], at |-> next_height])
      BY <1>0, <1>3 DEF AcceptTx, TypeOK
    <3> QED
      BY <3>1, <3>2, AppendProperties
  <2>5. seen_this_checkpoint' \in SUBSET Nat
    BY <2>1, <1>0, <1>3 DEF AcceptTx, TypeOK
  <2>6. i' \in Nat \ {0} /\ accepted' \in Nat
    BY <1>0, <1>3 DEF AcceptTx, TypeOK
  <2>7. /\ UNCHANGED <<leaves, anchors, nullifiers, height, supply, pc, ordered,
                       rejected, output_positions, roots>>
    BY <1>3 DEF AcceptTx
  <2>8. TypeOK'
    BY <2>2, <2>3, <2>4, <2>5, <2>6, <2>7, <1>0 DEF TypeOK
  <2> QED
    BY <2>8, <1>0, <1>3 DEF AcceptTx, TypeInv, next_height
<1>4. CASE CommitStaged
  <2>1. leaves' \in Seq(Leaf)
    BY <1>0, <1>4, ConcatProperties DEF CommitStaged, TypeOK
  <2>2. nullifiers' \in SUBSET Nat
    BY <1>0, <1>4 DEF CommitStaged, TypeOK
  <2>3. output_positions' \in [base : Nat, count : Nat]
    BY <1>0, <1>4, LenProperties DEF CommitStaged, TypeOK
  <2>4. i' = 1 /\ pc = "scan" /\ pc' = "mint"
    BY <1>4 DEF CommitStaged
  <2>5. UNCHANGED <<anchors, quota, height, supply, ordered,
                    seen_this_checkpoint, staged_cm, accepted, rejected,
                    log, roots>>
    BY <1>4 DEF CommitStaged
  <2>6. /\ pc' # "idle" => height' < MaxHeight
        /\ pc' \in {"idle", "scan", "mint"} /\ i' \in Nat \ {0}
    BY <2>4, <2>5, <1>0 DEF TypeOK
  <2>7. TypeOK'
    BY <2>1, <2>2, <2>3, <2>5, <2>6, <1>0 DEF TypeOK
  <2> QED
    BY <2>5, <2>7, <1>0 DEF TypeInv, next_height
<1>5. CASE MintReward
  <2>1. next_height \in 1..MaxHeight
    <3>1. height \in 0..MaxHeight /\ (pc # "idle" => height < MaxHeight)
      BY <1>0 DEF TypeOK
    <3>2. pc = "mint"
      BY <1>5 DEF MintReward
    <3> QED
      BY <3>1, <3>2, BoundsAssumption DEF next_height
  <2>2. Shares[next_height] \in Seq(Nat) /\ i \in 1..Len(Shares[next_height])
    <3>1. Shares[next_height] \in Seq(Nat)
      BY <2>1, SharesAssumption
    <3>2. i \in Nat \ {0} /\ i <= Len(Shares[next_height])
      BY <1>0, <1>5 DEF MintReward, TypeOK
    <3> QED
      BY <3>1, <3>2
  <2>3. Shares[next_height][i] \in Nat
    BY <2>2, ElementOfSeq
  <2>4. RewardLeaf(next_height, i) \in Leaf
    BY <2>1, <2>2, <2>3 DEF RewardLeaf, Leaf
  <2>5. leaves' \in Seq(Leaf)
    <3>1. leaves \in Seq(Leaf) /\ leaves' = Append(leaves, RewardLeaf(next_height, i))
      BY <1>0, <1>5 DEF MintReward, TypeOK
    <3> QED
      BY <2>4, <3>1, AppendProperties
  <2>6. supply' \in Nat /\ i' \in Nat \ {0}
    <3>1. supply \in Nat /\ i \in Nat \ {0}
      BY <1>0 DEF TypeOK
    <3>2. supply' = supply + Shares[next_height][i] /\ i' = i + 1
      BY <1>5 DEF MintReward
    <3> QED
      BY <3>1, <3>2, <2>3
  <2>7. UNCHANGED <<anchors, nullifiers, quota, height, pc, ordered,
                    seen_this_checkpoint, staged_cm, accepted, rejected,
                    output_positions, log, roots>>
    BY <1>5 DEF MintReward
  <2>8. TypeOK'
    BY <2>5, <2>6, <2>7, <1>0 DEF TypeOK
  <2> QED
    BY <2>8, <1>0, <1>5 DEF MintReward, TypeInv, next_height
<1>6. CASE SealCheckpoint
  <2>1. next_height \in Nat /\ leaves \in Seq(Leaf)
    BY <1>0, BoundsAssumption DEF TypeOK, next_height
  <2>2. IsWindow(anchors', next_height + 1)
    BY <2>1, <1>0, <1>6, SealedIsWindow DEF SealCheckpoint
  <2>3. IsWindow(anchors', next_height')
    BY <2>2, <1>6 DEF SealCheckpoint, next_height
  <2>4. anchors' \in Seq(Anchor)
    BY <2>3 DEF IsWindow
  <2>5. roots' \in Seq(Root) /\ Len(roots') = height' + 1
    BY <1>0, <1>6, <2>1, AppendProperties DEF SealCheckpoint, TypeOK, Root, next_height
  <2>6. height' \in 0..MaxHeight
    <3>1. height \in 0..MaxHeight /\ height < MaxHeight /\ height' = height + 1
      BY <1>0, <1>6 DEF SealCheckpoint, TypeOK, next_height
    <3> QED
      BY <3>1, BoundsAssumption
  <2>7. /\ pc' = "idle"
        /\ UNCHANGED <<leaves, nullifiers, quota, supply, i, ordered,
                       seen_this_checkpoint, staged_cm, accepted, rejected,
                       output_positions, log>>
    BY <1>6 DEF SealCheckpoint
  <2>8. TypeOK'
    BY <2>4, <2>5, <2>6, <2>7, <1>0 DEF TypeOK
  <2> QED
    BY <2>3, <2>8 DEF TypeInv
<1>7. CASE UNCHANGED vars
  BY <1>0, <1>7 DEF vars, ledger, locals, TypeInv, TypeOK, next_height
<1> QED
  BY <1>1, <1>2, <1>3, <1>4, <1>5, <1>6, <1>7 DEF Next, Step, Quiesce

(* In every reachable state the ledger is well typed and its deque is a    *)
(* window of consecutive anchors.                                          *)
THEOREM TypeInvariant == Spec => []TypeInv
  BY TypeInvInit, TypeInvStep, PTL DEF Spec

(* In every reachable state the ledger is well typed.                      *)
THEOREM TypeCorrect == Spec => []TypeOK
<1>1. TypeInv => TypeOK
  BY DEF TypeInv
<1> QED
  BY <1>1, TypeInvariant, PTL

-----------------------------------------------------------------------------
(* Spending.  What is committed together with what is staged is exactly    *)
(* what the accepted transactions spent; once a scan is over the staged    *)
(* part is committed.                                                      *)
SpentBy(txlog) == UNION {Nfs(txlog[k].tx) : k \in DOMAIN txlog}

SpentInv ==
    /\ nullifiers \cup seen_this_checkpoint = SpentBy(log)
    /\ pc # "scan" => seen_this_checkpoint \subseteq nullifiers
    /\ NoDoubleSpend

(* The step that accepts a transaction, as the log sees it.                *)
LEMMA AcceptGrowsLog ==
  ASSUME TypeInv, AcceptTx
  PROVE  LET e == [tx |-> ordered[i], at |-> next_height]
             n == Len(log) + 1
         IN  /\ DOMAIN log' = DOMAIN log \cup {n}
             /\ n \notin DOMAIN log
             /\ log'[n] = e
             /\ \A k \in DOMAIN log : log'[k] = log[k]
<1> DEFINE e == [tx |-> ordered[i], at |-> next_height]
<1>1. TypeOK /\ Scanning
  BY DEF TypeInv, AcceptTx
<1>2. e \in [tx : Tx, at : Nat]
  <2>1. ordered[i] \in Tx
    BY <1>1, HereTyped
  <2>2. next_height \in Nat
    BY <1>1, BoundsAssumption DEF TypeOK, next_height
  <2> QED
    BY <2>1, <2>2
<1>3. log \in Seq([tx : Tx, at : Nat]) /\ log' = Append(log, e)
  BY <1>1 DEF TypeOK, AcceptTx
<1> HIDE DEF e
<1>4. /\ DOMAIN log' = DOMAIN log \cup {Len(log) + 1}
      /\ Len(log) + 1 \notin DOMAIN log
      /\ log'[Len(log) + 1] = e
      /\ \A k \in DOMAIN log : log'[k] = log[k]
  BY <1>2, <1>3, AppendDomain
<1> QED
  BY <1>4 DEF e

(* An accepted transaction passed every check.                             *)
LEMMA AcceptPassed ==
  ASSUME AcceptTx
  PROVE  /\ AnchorValid(anchors, ordered[i].anchor)
         /\ ValidateStateless(ordered[i])
         /\ Nfs(ordered[i]) \cap (nullifiers \cup seen_this_checkpoint) = {}
         /\ QuotaAdmits(ordered[i], quota, next_height)
BY DEF AcceptTx, VerdictHere, Verdict

(* Every step preserves SpentInv.                                          *)
LEMMA SpentInvStep == TypeInv /\ SpentInv /\ [Next]_vars => SpentInv'
<1> SUFFICES ASSUME TypeInv, SpentInv, [Next]_vars PROVE SpentInv'
  OBVIOUS
<1>1. ASSUME NEW txs \in Batches(roots), Begin(txs) PROVE SpentInv'
  BY <1>1 DEF Begin, ledger, SpentInv, NoDoubleSpend, SpentBy
<1>2. CASE RejectTx
  BY <1>2 DEF RejectTx, ledger, SpentInv, NoDoubleSpend, SpentBy
<1>3. CASE AcceptTx
  <2> DEFINE n == Len(log) + 1
             tx == ordered[i]
  <2>1. /\ DOMAIN log' = DOMAIN log \cup {n}
        /\ n \notin DOMAIN log
        /\ log'[n].tx = tx
        /\ \A k \in DOMAIN log : log'[k] = log[k]
    BY <1>3, AcceptGrowsLog
  <2>2. Nfs(tx) \cap SpentBy(log) = {} /\ ValidateStateless(tx)
    BY <1>3, AcceptPassed DEF SpentInv
  <2>3. tx \in Tx
    BY <1>3, HereTyped DEF AcceptTx, TypeInv
  <2>4. nullifiers' = nullifiers /\ pc' = pc /\ pc = "scan"
        /\ seen_this_checkpoint' = seen_this_checkpoint \cup Nfs(tx)
    BY <1>3 DEF AcceptTx, Scanning
  <2> HIDE DEF n, tx
  <2>5. SpentBy(log') = SpentBy(log) \cup Nfs(tx)
    BY <2>1 DEF SpentBy
  <2>6. tx.nullifiers[1] # tx.nullifiers[2]
    BY <2>2, <2>3 DEF ValidateStateless, Tx
  <2>7. \A k \in DOMAIN log : Nfs(log[k].tx) \cap Nfs(tx) = {}
    BY <2>2 DEF SpentBy
  <2>8. NoDoubleSpend'
    BY <2>1, <2>6, <2>7 DEF SpentInv, NoDoubleSpend
  <2> QED
    BY <2>4, <2>5, <2>8 DEF SpentInv
<1>4. CASE CommitStaged
  BY <1>4 DEF CommitStaged, SpentInv, NoDoubleSpend, SpentBy
<1>5. CASE MintReward
  BY <1>5 DEF MintReward, SpentInv, NoDoubleSpend, SpentBy
<1>6. CASE SealCheckpoint
  BY <1>6 DEF SealCheckpoint, SpentInv, NoDoubleSpend, SpentBy
<1>7. CASE UNCHANGED vars
  BY <1>7 DEF vars, ledger, locals, SpentInv, NoDoubleSpend, SpentBy
<1> QED
  BY <1>1, <1>2, <1>3, <1>4, <1>5, <1>6, <1>7 DEF Next, Step, Quiesce

(* SpentInv holds at genesis and in every reachable state.                 *)
LEMMA SpentInvariant == Spec => []SpentInv
<1>1. Init => SpentInv
  BY DEF Init, SpentInv, NoDoubleSpend, SpentBy
<1> QED
  BY <1>1, SpentInvStep, TypeInvariant, PTL DEF Spec

(* No two accepted transactions share a nullifier, within a checkpoint or  *)
(* across checkpoints.                                                     *)
THEOREM NoDoubleSpendHolds == Spec => []NoDoubleSpend
<1>1. SpentInv => NoDoubleSpend
  BY DEF SpentInv
<1> QED
  BY <1>1, SpentInvariant, PTL

(* Between calls the spent set is what the accepted transactions spent.    *)
THEOREM SpentExactlyHolds == Spec => []SpentExactly
<1>1. SpentInv => SpentExactly
  BY DEF SpentInv, SpentExactly, SpentBy
<1> QED
  BY <1>1, SpentInvariant, PTL

(* A rebroadcast is stopped before the quota registry is asked: if its     *)
(* digest was accepted then so were its nullifiers, and they are spent.    *)
THEOREM RebroadcastHolds == Spec => RebroadcastNeverReachesQuota
<1> DEFINE P == \A k \in DOMAIN rejected' \ DOMAIN rejected :
                   rejected'[k] = "QuotaRejected" =>
                      \A j \in DOMAIN log :
                         BindingDigest(log[j].tx) # BindingDigest(ordered[k])
<1>1. TypeInv /\ SpentInv /\ [Next]_vars => [P]_vars
  <2> SUFFICES ASSUME TypeInv, SpentInv, Next PROVE P
    BY DEF P
  <2>1. ASSUME NEW txs \in Batches(roots), Begin(txs) PROVE P
    BY <2>1 DEF Begin
  <2>2. CASE RejectTx
    <3>1. SUFFICES ASSUME NEW k \in DOMAIN rejected' \ DOMAIN rejected,
                          rejected'[k] = "QuotaRejected",
                          NEW j \in DOMAIN log,
                          BindingDigest(log[j].tx) = BindingDigest(ordered[k])
                   PROVE  FALSE
      OBVIOUS
    <3>2. k = i /\ VerdictHere = "QuotaRejected"
      BY <2>2, <3>1 DEF RejectTx
    <3>3. Nfs(log[j].tx) = Nfs(ordered[i])
      BY <3>1, <3>2 DEF BindingDigest, Nfs
    <3>4. Nfs(ordered[i]) \cap (nullifiers \cup seen_this_checkpoint) = {}
      BY <3>2 DEF VerdictHere, Verdict
    <3>5. Nfs(log[j].tx) \subseteq nullifiers \cup seen_this_checkpoint
      BY DEF SpentInv, SpentBy
    <3>6. Nfs(log[j].tx) # {}
      BY DEF Nfs
    <3> QED
      BY <3>3, <3>4, <3>5, <3>6
  <2>3. CASE AcceptTx \/ CommitStaged \/ MintReward \/ SealCheckpoint
    BY <2>3 DEF AcceptTx, CommitStaged, MintReward, SealCheckpoint
  <2>4. CASE UNCHANGED vars
    BY <2>4 DEF vars, locals
  <2> QED
    BY <2>1, <2>2, <2>3, <2>4 DEF Next, Step, Quiesce
<1> QED
  BY <1>1, TypeInvariant, SpentInvariant, PTL DEF Spec, RebroadcastNeverReachesQuota

-----------------------------------------------------------------------------
(* The quota lane.  OneTxPerSlot is inductive given the types.             *)

(* Every step preserves OneTxPerSlot.                                      *)
LEMMA SlotStep == TypeInv /\ OneTxPerSlot /\ [Next]_vars => OneTxPerSlot'
<1> SUFFICES ASSUME TypeInv, OneTxPerSlot, [Next]_vars PROVE OneTxPerSlot'
  OBVIOUS
<1>1. ASSUME log' = log, quota' = quota PROVE OneTxPerSlot'
  BY <1>1 DEF OneTxPerSlot
<1>2. ASSUME NEW txs \in Batches(roots), Begin(txs) PROVE OneTxPerSlot'
  BY <1>1, <1>2 DEF Begin, ledger
<1>3. CASE AcceptTx
  <2> DEFINE n == Len(log) + 1
             tx == ordered[i]
             Q(l) == {k \in DOMAIN l : l[k].tx.antispam.lane = "quota"}
  <2>1. /\ DOMAIN log' = DOMAIN log \cup {n}
        /\ n \notin DOMAIN log
        /\ log'[n].tx = tx /\ log'[n].at = next_height
        /\ \A k \in DOMAIN log : log'[k] = log[k]
    BY <1>3, AcceptGrowsLog
  <2>2. QuotaAdmits(tx, quota, next_height) /\ quota' = RegistryAfter(quota, tx)
    BY <1>3, AcceptPassed DEF AcceptTx
  <2> HIDE DEF n, tx
  <2>3. CASE tx.antispam.lane = "quota"
    <3>1. Q(log') = Q(log) \cup {n}
      BY <2>1, <2>3
    <3>2. /\ tx.antispam.epoch = next_height \div EPOCH_LENGTH
          /\ Slot(tx) \notin DOMAIN quota
      BY <2>2, <2>3 DEF QuotaAdmits, Admit
    <3>3. /\ DOMAIN quota' = DOMAIN quota \cup {Slot(tx)}
          /\ quota'[Slot(tx)] = BindingDigest(tx)
          /\ \A s \in DOMAIN quota : quota'[s] = quota[s]
      BY <2>2, <2>3, <3>2 DEF RegistryAfter, WithSlot
    <3>4. \A k \in Q(log) : Slot(log[k].tx) \in DOMAIN quota
      BY DEF OneTxPerSlot
    <3>5. \A j, k \in Q(log') : Slot(log'[j].tx) = Slot(log'[k].tx) => j = k
      BY <2>1, <3>1, <3>2, <3>4 DEF OneTxPerSlot
    <3>6. DOMAIN quota' = {Slot(log'[k].tx) : k \in Q(log')}
      <4>1. {Slot(log'[k].tx) : k \in Q(log')}
              = {Slot(log[k].tx) : k \in Q(log)} \cup {Slot(tx)}
        BY <2>1, <3>1
      <4> QED
        BY <4>1, <3>3 DEF OneTxPerSlot
    <3>7. \A k \in Q(log') :
             /\ log'[k].tx.antispam.epoch = log'[k].at \div EPOCH_LENGTH
             /\ quota'[Slot(log'[k].tx)] = BindingDigest(log'[k].tx)
      BY <2>1, <3>1, <3>2, <3>3, <3>4 DEF OneTxPerSlot
    <3> QED
      BY <3>5, <3>6, <3>7 DEF OneTxPerSlot
  <2>4. CASE tx.antispam.lane # "quota"
    <3>1. Q(log') = Q(log)
      BY <2>1, <2>4
    <3>2. quota' = quota
      BY <2>2, <2>4 DEF RegistryAfter
    <3>3. \A k \in Q(log) : log'[k] = log[k]
      BY <2>1
    <3> QED
      BY <3>1, <3>2, <3>3 DEF OneTxPerSlot
  <2> QED
    BY <2>3, <2>4
<1>4. CASE RejectTx \/ CommitStaged \/ MintReward \/ SealCheckpoint
  BY <1>1, <1>4 DEF RejectTx, CommitStaged, MintReward, SealCheckpoint, ledger
<1>5. CASE UNCHANGED vars
  BY <1>1, <1>5 DEF vars, ledger
<1> QED
  BY <1>2, <1>3, <1>4, <1>5 DEF Next, Step, Quiesce

(* A quota slot carries at most one accepted transaction, ever, in its own *)
(* epoch, and the registry holds exactly the slots that carry one.         *)
THEOREM OneTxPerSlotHolds == Spec => []OneTxPerSlot
<1>1. Init => OneTxPerSlot
  BY DEF Init, OneTxPerSlot
<1> QED
  BY <1>1, SlotStep, TypeInvariant, PTL DEF Spec

-----------------------------------------------------------------------------
(* The anchors in the deque carry the roots of their heights, and between  *)
(* calls the newest root is the tree's.                                    *)
RootInv ==
    /\ \A k \in 1..Len(anchors) : anchors[k].root = roots[anchors[k].height + 1]
    /\ pc = "idle" => roots[next_height] = leaves
    /\ RootsArePrefixes

(* What the types say of the heights and of the deque.                     *)
LEMMA WindowFacts ==
  ASSUME TypeInv
  PROVE  LET first == SaturatingSub(next_height, ANCHOR_WINDOW)
         IN  /\ height \in Nat /\ next_height = height + 1
             /\ first \in Nat /\ first < next_height
             /\ next_height <= first + ANCHOR_WINDOW
             /\ anchors \in Seq(Anchor) /\ Len(anchors) = next_height - first
             /\ DOMAIN anchors = 1..Len(anchors)
             /\ \A k \in 1..Len(anchors) : anchors[k].height = first + k - 1
             /\ roots \in Seq(Root) /\ DOMAIN roots = 1..next_height
             /\ Len(roots) = next_height
             /\ leaves \in Seq(Leaf)
<1>1. height \in Nat /\ next_height = height + 1
  BY BoundsAssumption DEF TypeInv, TypeOK, next_height
<1>2. LET first == SaturatingSub(next_height, ANCHOR_WINDOW)
      IN  /\ first \in Nat /\ first < next_height
          /\ next_height <= first + ANCHOR_WINDOW
  BY <1>1, WindowAssumption DEF SaturatingSub
<1>3. roots \in Seq(Root) /\ Len(roots) = next_height /\ leaves \in Seq(Leaf)
  BY DEF TypeInv, TypeOK, next_height
<1>4. DOMAIN roots = 1..next_height
  BY <1>3, LenProperties
<1>5. LET first == SaturatingSub(next_height, ANCHOR_WINDOW)
      IN  /\ anchors \in Seq(Anchor) /\ Len(anchors) = next_height - first
          /\ \A k \in 1..Len(anchors) : anchors[k].height = first + k - 1
  BY DEF TypeInv, IsWindow
<1>6. DOMAIN anchors = 1..Len(anchors)
  BY <1>5, LenProperties
<1> QED
  BY <1>1, <1>2, <1>3, <1>4, <1>5, <1>6

(* The tree grows at its end, and only when a call commits or mints.       *)
LEMMA TreeGrows ==
  ASSUME TypeInv, [Next]_vars
  PROVE  /\ Len(leaves) <= Len(leaves')
         /\ \A p \in 1..Len(leaves) : leaves'[p] = leaves[p]
<1>1. leaves \in Seq(Leaf) /\ staged_cm \in Seq(Leaf)
  BY DEF TypeInv, TypeOK
<1>2. CASE leaves' = leaves
  BY <1>1, <1>2
<1>3. CASE CommitStaged
  <2>1. leaves' = leaves \o staged_cm
    BY <1>3 DEF CommitStaged
  <2> QED
    BY <1>1, <2>1
<1>4. CASE MintReward
  <2>1. leaves' = Append(leaves, RewardLeaf(next_height, i))
    BY <1>4 DEF MintReward
  <2> QED
    BY <1>1, <2>1
<1>5. CASE UNCHANGED vars
  BY <1>2, <1>5 DEF vars, ledger
<1>6. ASSUME NEW txs \in Batches(roots), Begin(txs) PROVE leaves' = leaves
  BY <1>6 DEF Begin, ledger
<1>7. CASE RejectTx \/ AcceptTx \/ SealCheckpoint
  BY <1>2, <1>7 DEF RejectTx, AcceptTx, SealCheckpoint, ledger
<1> QED
  BY <1>2, <1>3, <1>4, <1>5, <1>6, <1>7 DEF Next, Step, Quiesce

(* Sealing is the only step that changes the anchors, the roots or the     *)
(* height.                                                                 *)
LEMMA OnlySealMoves ==
  ASSUME [Next]_vars
  PROVE  \/ SealCheckpoint
         \/ anchors' = anchors /\ roots' = roots /\ height' = height
BY DEF Next, Step, Quiesce, Begin, RejectTx, AcceptTx, CommitStaged,
       MintReward, vars, ledger

(* Every step preserves RootInv.                                           *)
LEMMA RootInvStep == TypeInv /\ RootInv /\ [Next]_vars => RootInv'
<1> SUFFICES ASSUME TypeInv, RootInv, [Next]_vars PROVE RootInv'
  OBVIOUS
<1>1. /\ Len(leaves) <= Len(leaves')
      /\ \A p \in 1..Len(leaves) : leaves'[p] = leaves[p]
  BY TreeGrows
<1>2. leaves \in Seq(Leaf) /\ leaves' \in Seq(Leaf)
  BY TypeInvStep DEF TypeInv, TypeOK
<1>3. ASSUME NEW k \in DOMAIN roots
      PROVE  /\ Len(roots[k]) <= Len(leaves')
             /\ \A p \in DOMAIN roots[k] : roots[k][p] = leaves'[p]
  <2>1. roots[k] \in Seq(Leaf)
    BY WindowFacts, ElementOfSeq DEF Root
  <2>2. DOMAIN roots[k] = 1..Len(roots[k]) /\ Len(roots[k]) \in Nat
    BY <2>1, LenProperties
  <2>3. /\ Len(roots[k]) <= Len(leaves)
        /\ \A p \in DOMAIN roots[k] : roots[k][p] = leaves[p]
    BY DEF RootInv, RootsArePrefixes
  <2>4. Len(leaves) \in Nat /\ Len(leaves') \in Nat
    BY <1>2, LenProperties
  <2> QED
    BY <1>1, <2>2, <2>3, <2>4
<1>4. CASE SealCheckpoint
  <2> DEFINE h == next_height
  <2>1. /\ anchors' = Sealed(anchors, leaves, h)
        /\ height' = h /\ next_height' = h + 1
        /\ roots' = Append(roots, leaves) /\ leaves' = leaves
    BY <1>4 DEF SealCheckpoint, next_height
  <2>2. h \in Nat /\ IsWindow(anchors, h)
    BY WindowFacts DEF TypeInv
  <2> HIDE DEF h
  <2>3. /\ Len(anchors') > 0
        /\ anchors'[Len(anchors')] = [height |-> h, root |-> leaves]
        /\ \A k \in 1..(Len(anchors') - 1) :
              k + Shift(h) \in 1..Len(anchors) /\ anchors'[k] = anchors[k + Shift(h)]
    <3>1. SealsInto(anchors, leaves, h, Sealed(anchors, leaves, h))
      BY <2>2, <1>2, SealedIsWindow
    <3>2. SealsInto(anchors, leaves, h, anchors')
      BY <3>1, <2>1
    <3> QED
      BY <3>2, Zenon DEF SealsInto
  <2>4. Len(anchors') \in Nat
    <3>1. anchors' \in Seq(Anchor)
      BY TypeInvStep DEF TypeInv, TypeOK
    <3> QED
      BY <3>1, LenProperties
  <2>5. /\ DOMAIN roots' = DOMAIN roots \cup {h + 1}
        /\ roots'[h + 1] = leaves
        /\ \A k \in 1..h : roots'[k] = roots[k]
    <3>1. roots \in Seq(Root) /\ leaves \in Root /\ Len(roots) = h
          /\ DOMAIN roots = 1..h
      BY WindowFacts DEF Root, h
    <3> QED
      BY <2>1, <3>1, AppendDomain
  <2>6. ASSUME NEW k \in 1..Len(anchors')
        PROVE  anchors'[k].root = roots'[anchors'[k].height + 1]
    <3>1. CASE k = Len(anchors')
      BY <3>1, <2>3, <2>5
    <3>2. CASE k # Len(anchors')
      <4>1. k \in 1..(Len(anchors') - 1)
        BY <3>2, <2>4
      <4>2. PICK j \in 1..Len(anchors) : anchors'[k] = anchors[j]
        BY <4>1, <2>3
      <4>3. anchors[j].height + 1 \in 1..h
        <5> DEFINE first == SaturatingSub(next_height, ANCHOR_WINDOW)
        <5>1. /\ first \in Nat /\ h \in Nat /\ j \in 1..(h - first)
              /\ anchors[j].height = first + j - 1
          BY <4>2, WindowFacts DEF h
        <5> QED
          BY ONLY <5>1
      <4>4. anchors[j].root = roots[anchors[j].height + 1]
        BY <4>2 DEF RootInv
      <4> QED
        BY <4>2, <4>3, <4>4, <2>5
    <3> QED
      BY <3>1, <3>2
  <2>7. roots'[next_height'] = leaves'
    BY <2>1, <2>5
  <2>8. RootsArePrefixes'
    <3>1. ASSUME NEW k \in DOMAIN roots'
          PROVE  /\ Len(roots'[k]) <= Len(leaves')
                 /\ \A p \in DOMAIN roots'[k] : roots'[k][p] = leaves'[p]
      <4>1. CASE k = h + 1
        <5>1. roots'[k] = leaves' /\ Len(leaves') \in Nat
          BY <4>1, <2>1, <2>5, <1>2, LenProperties
        <5> QED
          BY <5>1
      <4>2. CASE k \in DOMAIN roots
        <5>1. k \in 1..h
          BY <4>2, WindowFacts DEF h
        <5> QED
          BY <4>2, <5>1, <2>5, <1>3
      <4> QED
        BY <4>1, <4>2, <2>5
    <3> QED
      BY <3>1 DEF RootsArePrefixes
  <2> QED
    BY <2>6, <2>7, <2>8 DEF RootInv
<1>5. CASE anchors' = anchors /\ roots' = roots /\ height' = height
  <2>1. RootsArePrefixes'
    BY <1>3, <1>5 DEF RootsArePrefixes
  <2>2. pc' = "idle" => (pc = "idle" /\ leaves' = leaves) \/ SealCheckpoint
    BY DEF Next, Step, Quiesce, Begin, Scanning, RejectTx, AcceptTx,
           CommitStaged, MintReward, vars, ledger, locals
  <2>3. CASE ~SealCheckpoint
    BY <2>1, <2>2, <2>3, <1>5 DEF RootInv, next_height
  <2> QED
    BY <2>3, <1>4
<1> QED
  BY <1>4, <1>5, OnlySealMoves

(* RootInv holds at genesis.                                               *)
LEMMA RootInvInit == Init => RootInv
<1> SUFFICES ASSUME Init PROVE RootInv
  OBVIOUS
<1>1. TypeInv
  BY TypeInvInit
<1>2. roots = <<Genesis>> /\ leaves = Genesis /\ height = 0 /\ pc = "idle"
  BY DEF Init
<1>3. Len(anchors) = 1 /\ anchors[1] = [height |-> 0, root |-> Genesis]
  <2>1. IsWindow(<< >>, 0)
    BY EmptyWindow
  <2> DEFINE s == Sealed(<< >>, Genesis, 0)
  <2> HIDE DEF s
  <2>0. SealsInto(<< >>, Genesis, 0, s)
    BY <2>1, SealedIsWindow, GenesisAssumption DEF s
  <2>2. Len(s) > 0 /\ s[Len(s)] = [height |-> 0, root |-> Genesis]
    BY <2>0, Zenon DEF SealsInto
  <2>3. anchors = s
    BY DEF Init, s
  <2>4. Len(anchors) <= 1 /\ Len(anchors) \in Nat
    BY <1>1, <1>2, WindowFacts
  <2>5. Len(anchors) > 0
    BY <2>2, <2>3
  <2>6. Len(anchors) = 1
    <3> DEFINE n == Len(anchors)
    <3>1. n \in Nat /\ n <= 1 /\ n > 0
      BY <2>4, <2>5
    <3> HIDE DEF n
    <3>2. n = 1
      BY <3>1
    <3> QED
      BY <3>2 DEF n
  <2> QED
    BY <2>2, <2>3, <2>6
<1>4. RootsArePrefixes
  <2>1. Genesis \in Seq(Leaf) /\ Len(Genesis) \in Nat
    BY GenesisAssumption, LenProperties
  <2> QED
    BY <1>2, <2>1 DEF RootsArePrefixes
<1> QED
  BY <1>2, <1>3, <1>4 DEF RootInv, next_height

(* So it holds in every reachable state.                                   *)
LEMMA RootInvariant == Spec => []RootInv
  BY RootInvInit, RootInvStep, TypeInvariant, PTL DEF Spec

(* Every root ever sealed stays a prefix of the tree.                      *)
THEOREM RootsArePrefixesHolds == Spec => []RootsArePrefixes
<1>1. RootInv => RootsArePrefixes
  BY DEF RootInv
<1> QED
  BY <1>1, RootInvariant, PTL

(* Between calls the deque is exactly the last ANCHOR_WINDOW anchors, each *)
(* on the root of its height: seal's eviction is off by nothing.           *)
THEOREM AnchorWindowExactHolds == Spec => []AnchorWindowExact
<1>1. TypeInv /\ RootInv => AnchorWindowExact
  <2> SUFFICES ASSUME TypeInv, RootInv, pc = "idle" PROVE AnchorWindowExact
    BY DEF AnchorWindowExact
  <2> DEFINE first == SaturatingSub(next_height, ANCHOR_WINDOW)
  <2>1. /\ first \in Nat /\ Len(anchors) = next_height - first
        /\ anchors \in Seq(Anchor)
        /\ DOMAIN anchors = 1..Len(anchors)
        /\ \A k \in 1..Len(anchors) : anchors[k].height = first + k - 1
    BY WindowFacts
  <2>2. roots[next_height] = leaves
    BY DEF RootInv
  <2>3. ASSUME NEW k \in DOMAIN anchors
        PROVE  anchors[k] = [height |-> first + k - 1, root |-> roots[first + k]]
    <3> HIDE DEF first
    <3>1. anchors[k] \in Anchor
      BY <2>1, ElementOfSeq
    <3>2. anchors[k].height = first + k - 1 /\ anchors[k].height + 1 = first + k
      BY <2>1
    <3>3. anchors[k].root = roots[first + k]
      BY <2>1, <3>2 DEF RootInv
    <3> QED
      BY <3>1, <3>2, <3>3 DEF Anchor
  <2> QED
    BY <2>1, <2>2, <2>3 DEF AnchorWindowExact
<1> QED
  BY <1>1, TypeInvariant, RootInvariant, PTL

-----------------------------------------------------------------------------
(* Acceptance.  The heights in the log never run ahead of the call.        *)
AcceptInv ==
    /\ AcceptedOnSealedAnchor
    /\ \A k \in DOMAIN log : log[k].at <= next_height

(* Every step preserves AcceptInv.                                         *)
LEMMA AcceptInvStep ==
  TypeInv /\ RootInv /\ AcceptInv /\ [Next]_vars => AcceptInv'
<1> SUFFICES ASSUME TypeInv, RootInv, AcceptInv, [Next]_vars PROVE AcceptInv'
  OBVIOUS
<1>1. ASSUME NEW k \in DOMAIN log
      PROVE  /\ log[k].at \in Nat /\ log[k].tx.anchor.height \in Nat
             /\ log[k].tx.anchor.height + 1 \in 1..next_height
  <2>1. log \in Seq([tx : Tx, at : Nat])
    BY DEF TypeInv, TypeOK
  <2>2. log[k] \in [tx : Tx, at : Nat]
    BY <2>1, ElementOfSeq, LenProperties
  <2>3. log[k].at \in Nat /\ log[k].tx.anchor.height \in Nat
    BY <2>2 DEF Tx, Anchor
  <2>4. log[k].tx.anchor.height < log[k].at /\ log[k].at <= next_height
    BY DEF AcceptInv, AcceptedOnSealedAnchor
  <2>5. next_height \in Nat
    BY WindowFacts
  <2> QED
    BY <2>3, <2>4, <2>5
<1>2. CASE AcceptTx
  <2> DEFINE n == Len(log) + 1
             a == ordered[i].anchor
             first == SaturatingSub(next_height, ANCHOR_WINDOW)
  <2>1. /\ DOMAIN log' = DOMAIN log \cup {n}
        /\ log'[n].tx.anchor = a /\ log'[n].at = next_height
        /\ \A k \in DOMAIN log : log'[k] = log[k]
    BY <1>2, AcceptGrowsLog
  <2>2. roots' = roots /\ next_height' = next_height
    BY <1>2 DEF AcceptTx, next_height
  <2>3. PICK k \in DOMAIN anchors : anchors[k] = a
    BY <1>2, AcceptPassed DEF AnchorValid
  <2>4. /\ k \in 1..Len(anchors) /\ a.height = first + k - 1
        /\ first \in Nat /\ next_height \in Nat
        /\ Len(anchors) = next_height - first
        /\ next_height <= first + ANCHOR_WINDOW
    BY <2>3, WindowFacts
  <2>5. a.root = roots[a.height + 1]
    BY <2>3, <2>4 DEF RootInv
  <2> HIDE DEF n, a, first
  <2>6. a.height < next_height /\ next_height <= a.height + ANCHOR_WINDOW
    BY <2>4, WindowAssumption
  <2>7. AcceptedOnSealedAnchor'
    BY <2>1, <2>2, <2>5, <2>6 DEF AcceptInv, AcceptedOnSealedAnchor
  <2>8. \A j \in DOMAIN log' : log'[j].at <= next_height'
    BY <2>1, <2>2, <2>4 DEF AcceptInv
  <2> QED
    BY <2>7, <2>8 DEF AcceptInv
<1>3. CASE SealCheckpoint
  <2>1. log' = log /\ next_height' = next_height + 1
        /\ roots' = Append(roots, leaves)
    BY <1>3 DEF SealCheckpoint, next_height
  <2>2. roots \in Seq(Root) /\ leaves \in Root /\ DOMAIN roots = 1..next_height
        /\ next_height \in Nat
    BY WindowFacts DEF Root
  <2>3. \A h \in 1..next_height : roots'[h] = roots[h]
    BY <2>1, <2>2, AppendDomain
  <2>4. AcceptedOnSealedAnchor'
    BY <1>1, <2>1, <2>3 DEF AcceptInv, AcceptedOnSealedAnchor
  <2>5. \A k \in DOMAIN log' : log'[k].at <= next_height'
    BY <1>1, <2>1, <2>2 DEF AcceptInv
  <2> QED
    BY <2>4, <2>5 DEF AcceptInv
<1>4. CASE log' = log /\ roots' = roots /\ height' = height
  BY <1>4 DEF AcceptInv, AcceptedOnSealedAnchor, next_height
<1>5. SealCheckpoint \/ AcceptTx \/ log' = log
  BY DEF Next, Step, Quiesce, Begin, RejectTx, CommitStaged, MintReward, vars
<1> QED
  BY <1>2, <1>3, <1>4, <1>5, OnlySealMoves

(* Every accepted transaction proved its spend against a root that was     *)
(* sealed before, less than a window below the height it extends.          *)
THEOREM AcceptedOnSealedAnchorHolds == Spec => []AcceptedOnSealedAnchor
<1>1. Init => AcceptInv
  BY DEF Init, AcceptInv, AcceptedOnSealedAnchor
<1>2. AcceptInv => AcceptedOnSealedAnchor
  BY DEF AcceptInv
<1> QED
  BY <1>1, <1>2, AcceptInvStep, TypeInvariant, RootInvariant, PTL DEF Spec

-----------------------------------------------------------------------------
(* No step of any call takes back a nullifier, a leaf, a quota slot or an  *)
(* amount of supply, or skips a height.                                    *)
THEOREM AppendOnlyHolds == Spec => AppendOnly
<1> DEFINE P == /\ nullifiers \subseteq nullifiers'
                /\ Len(leaves) <= Len(leaves')
                /\ \A p \in DOMAIN leaves : leaves'[p] = leaves[p]
                /\ \A s \in DOMAIN quota : s \in DOMAIN quota' /\ quota'[s] = quota[s]
                /\ supply <= supply'
                /\ height' \in {height, height + 1}
<1>1. TypeInv /\ [Next]_vars => [P]_vars
  <2> SUFFICES ASSUME TypeInv, [Next]_vars PROVE P
    BY DEF P
  <2>1. nullifiers \subseteq nullifiers'
    BY DEF Next, Step, Quiesce, Begin, RejectTx, AcceptTx, CommitStaged,
           MintReward, SealCheckpoint, vars, ledger
  <2>2. /\ Len(leaves) <= Len(leaves')
        /\ \A p \in DOMAIN leaves : leaves'[p] = leaves[p]
    <3>1. DOMAIN leaves = 1..Len(leaves)
      BY WindowFacts, LenProperties
    <3> QED
      BY <3>1, TreeGrows
  <2>3. \A s \in DOMAIN quota : s \in DOMAIN quota' /\ quota'[s] = quota[s]
    <3>1. CASE AcceptTx
      <4>1. QuotaAdmits(ordered[i], quota, next_height)
            /\ quota' = RegistryAfter(quota, ordered[i])
        BY <3>1, AcceptPassed DEF AcceptTx
      <4> QED
        BY <4>1 DEF QuotaAdmits, Admit, RegistryAfter, WithSlot
    <3>2. CASE quota' = quota
      BY <3>2
    <3> QED
      BY <3>1, <3>2 DEF Next, Step, Quiesce, Begin, RejectTx, CommitStaged,
                        MintReward, SealCheckpoint, vars, ledger
  <2>4. supply <= supply'
    <3>1. supply \in Nat
      BY DEF TypeInv, TypeOK
    <3>2. CASE MintReward
      <4>1. next_height \in 1..MaxHeight
        <5>1. height \in 0..MaxHeight /\ height < MaxHeight
          BY <3>2 DEF MintReward, TypeInv, TypeOK
        <5> QED
          BY <5>1, BoundsAssumption DEF next_height
      <4>2. Shares[next_height] \in Seq(Nat)
        BY <4>1, SharesAssumption
      <4>3. i \in 1..Len(Shares[next_height])
        BY <3>2, <4>2, LenProperties DEF MintReward, TypeInv, TypeOK
      <4>4. Shares[next_height][i] \in Nat
        BY <4>2, <4>3, ElementOfSeq
      <4> QED
        BY <3>1, <3>2, <4>4 DEF MintReward
    <3>3. CASE supply' = supply
      BY <3>1, <3>3
    <3> QED
      BY <3>2, <3>3 DEF Next, Step, Quiesce, Begin, RejectTx, AcceptTx,
                        CommitStaged, SealCheckpoint, vars, ledger
  <2>5. height' \in {height, height + 1}
    BY OnlySealMoves DEF SealCheckpoint, next_height
  <2> QED
    BY <2>1, <2>2, <2>3, <2>4, <2>5
<1> QED
  BY <1>1, TypeInvariant, PTL DEF Spec, AppendOnly

-----------------------------------------------------------------------------
(* How many of the first k - 1 transactions are not among the rejected R.  *)
Before(R, k) == Cardinality({m \in 1..(k-1) : m \notin R})

(* Read from position base on, s holds the outputs of the transactions of  *)
(* txs up to the n-th that are not in R, in order, two each.               *)
Located(s, base, txs, R, n) ==
    \A k \in 1..n : k \notin R =>
        /\ base + 2 * Before(R, k) + 2 <= Len(s)
        /\ \A j \in 1..2 : s[base + 2 * Before(R, k) + j] = txs[k].commitments[j]

(* The scan has judged the first i - 1 transactions: each was rejected or  *)
(* has its outputs staged, and the tree is still the one last sealed.      *)
ScanInv ==
    /\ i <= Len(ordered) + 1
    /\ DOMAIN rejected \subseteq 1..(i - 1)
    /\ accepted = (i - 1) - Cardinality(DOMAIN rejected)
    /\ Len(staged_cm) = 2 * accepted
    /\ Located(staged_cm, 0, ordered, DOMAIN rejected, i - 1)
    /\ leaves = roots[next_height]

(* Once the scan is over the summary is the one the call will return.      *)
SummaryInv ==
    /\ accepted = Len(ordered) - Cardinality(DOMAIN rejected)
    /\ output_positions.count = 2 * accepted
    /\ Located(leaves, output_positions.base, ordered, DOMAIN rejected, Len(ordered))

(* While minting, the tree is the one last sealed, the outputs of this     *)
(* call and the rewards so far.                                            *)
MintInv ==
    /\ i <= Len(Shares[next_height]) + 1
    /\ Len(leaves) = Len(roots[next_height]) + 2 * accepted + (i - 1)

CallInv ==
    /\ pc = "scan" => ScanInv
    /\ pc # "scan" => SummaryInv
    /\ pc = "mint" => MintInv

-----------------------------------------------------------------------------
(* Counting the unrejected gives a natural number.                         *)
LEMMA BeforeNat ==
  ASSUME NEW R, NEW k \in Nat \ {0}
  PROVE  Before(R, k) \in Nat
<1>1. IsFiniteSet(1..(k-1))
  BY FS_Interval
<1>2. {m \in 1..(k-1) : m \notin R} \in SUBSET (1..(k-1))
  OBVIOUS
<1> QED
  BY <1>1, <1>2, FS_Subset, FS_CardinalityType DEF Before

(* After n transactions, all but the rejected have been counted.           *)
LEMMA BeforeEnd ==
  ASSUME NEW n \in Nat, NEW R \in SUBSET (1..n)
  PROVE  /\ Before(R, n + 1) = n - Cardinality(R)
         /\ IsFiniteSet(R) /\ Cardinality(R) \in Nat
<1>1. IsFiniteSet(1..n) /\ Cardinality(1..n) = n
  BY FS_Interval
<1>2. (1..n) \cap R = R
  OBVIOUS
<1>3. Cardinality((1..n) \ R) = n - Cardinality(R)
  <2>1. Cardinality((1..n) \ R) = Cardinality(1..n) - Cardinality((1..n) \cap R)
    BY <1>1, FS_Difference
  <2> QED
    BY <2>1, <1>1, <1>2
<1>4. {m \in 1..((n + 1) - 1) : m \notin R} = (1..n) \ R
  OBVIOUS
<1>5. IsFiniteSet(R) /\ Cardinality(R) \in Nat
  BY <1>1, FS_Subset, FS_CardinalityType
<1> QED
  BY <1>3, <1>4, <1>5 DEF Before

(* The count does not depend on what is rejected later.                    *)
LEMMA BeforeLocal ==
  ASSUME NEW R, NEW n \in Nat, NEW k \in 1..n
  PROVE  Before(R \cup {n}, k) = Before(R, k)
<1>1. {m \in 1..(k-1) : m \notin R \cup {n}} = {m \in 1..(k-1) : m \notin R}
  OBVIOUS
<1> QED
  BY <1>1 DEF Before

(* Outputs that were located stay located when the sequence grows at its   *)
(* end.                                                                    *)
LEMMA LocatedGrows ==
  ASSUME NEW s \in Seq(Leaf), NEW t \in Seq(Leaf), NEW b \in Nat, NEW txs,
         NEW R, NEW n \in Nat, Located(s, b, txs, R, n),
         Len(s) <= Len(t), \A p \in 1..Len(s) : t[p] = s[p]
  PROVE  Located(t, b, txs, R, n)
<1> SUFFICES ASSUME NEW k \in 1..n, k \notin R
             PROVE  /\ b + 2 * Before(R, k) + 2 <= Len(t)
                    /\ \A j \in 1..2 :
                          t[b + 2 * Before(R, k) + j] = txs[k].commitments[j]
  BY DEF Located
<1>1. Before(R, k) \in Nat
  BY BeforeNat
<1>2. Len(s) \in Nat /\ Len(t) \in Nat
  BY LenProperties
<1>3. /\ b + 2 * Before(R, k) + 2 <= Len(s)
      /\ \A j \in 1..2 : s[b + 2 * Before(R, k) + j] = txs[k].commitments[j]
  BY DEF Located
<1>4. \A j \in 1..2 : b + 2 * Before(R, k) + j \in 1..Len(s)
  <2> DEFINE q == b + 2 * Before(R, k)
  <2>1. q \in Nat /\ q + 2 <= Len(s)
    BY <1>1, <1>3
  <2> HIDE DEF q
  <2>2. \A j \in 1..2 : q + j \in 1..Len(s)
    BY ONLY <2>1, <1>2
  <2> QED BY <2>2 DEF q
<1> QED
  BY <1>1, <1>2, <1>3, <1>4

(* They move by Len(t) when the sequence is appended to t.                 *)
LEMMA LocatedShifts ==
  ASSUME NEW s \in Seq(Leaf), NEW t \in Seq(Leaf), NEW txs,
         NEW R, NEW n \in Nat, Located(s, 0, txs, R, n)
  PROVE  Located(t \o s, Len(t), txs, R, n)
<1> SUFFICES ASSUME NEW k \in 1..n, k \notin R
             PROVE  /\ Len(t) + 2 * Before(R, k) + 2 <= Len(t \o s)
                    /\ \A j \in 1..2 :
                          (t \o s)[Len(t) + 2 * Before(R, k) + j]
                             = txs[k].commitments[j]
  BY DEF Located
<1> DEFINE c == 2 * Before(R, k)
<1>1. c \in Nat
  BY BeforeNat
<1>2. Len(s) \in Nat /\ Len(t) \in Nat /\ Len(t \o s) = Len(t) + Len(s)
  BY LenProperties, ConcatProperties
<1>3. /\ c + 2 <= Len(s)
      /\ \A j \in 1..2 : s[c + j] = txs[k].commitments[j]
  BY <1>1 DEF Located
<1> HIDE DEF c
<1>4. \A j \in 1..2 : c + j \in 1..Len(s)
  BY <1>1, <1>2, <1>3
<1>5. ASSUME NEW j \in 1..2 PROVE (t \o s)[Len(t) + c + j] = s[c + j]
  BY <1>1, <1>2, <1>4
<1>6. /\ Len(t) + c + 2 <= Len(t \o s)
      /\ \A j \in 1..2 : (t \o s)[Len(t) + c + j] = txs[k].commitments[j]
  BY <1>1, <1>2, <1>3, <1>5
<1> QED
  BY <1>6 DEF c

-----------------------------------------------------------------------------
(* What the types say of the variables CallInv is about.                   *)
LEMMA CallTyped ==
  ASSUME TypeInv
  PROVE  /\ leaves \in Seq(Leaf) /\ staged_cm \in Seq(Leaf)
         /\ ordered \in Seq(Tx) /\ Len(ordered) \in Nat
         /\ DOMAIN ordered = 1..Len(ordered)
         /\ i \in Nat \ {0} /\ accepted \in Nat /\ next_height \in Nat
         /\ Len(leaves) \in Nat /\ Len(staged_cm) \in Nat
         /\ DOMAIN rejected \subseteq 1..Len(ordered)
         /\ output_positions.base \in Nat
         /\ Len(roots) = next_height
<1>1. /\ leaves \in Seq(Leaf) /\ staged_cm \in Seq(Leaf)
      /\ ordered \in Seq(Tx) /\ i \in Nat \ {0} /\ accepted \in Nat
      /\ DOMAIN rejected \subseteq DOMAIN ordered
      /\ output_positions \in [base : Nat, count : Nat]
  BY DEF TypeInv, TypeOK
<1>2. next_height \in Nat /\ Len(roots) = next_height
  BY WindowFacts
<1> QED
  BY <1>1, <1>2, LenProperties

(* The rewards of the height being applied are a sequence.                 *)
LEMMA SharesHere ==
  ASSUME TypeInv, pc # "idle"
  PROVE  Shares[next_height] \in Seq(Nat) /\ Len(Shares[next_height]) \in Nat
<1>1. height \in 0..MaxHeight /\ height < MaxHeight
  BY DEF TypeInv, TypeOK
<1>2. next_height \in 1..MaxHeight
  BY <1>1, BoundsAssumption DEF next_height
<1> QED
  BY <1>2, SharesAssumption, LenProperties

(* Appending a pair of commitments to a sequence of leaves.                *)
LEMMA ConcatPair ==
  ASSUME NEW s \in Seq(Leaf), NEW c \in Seq(Leaf), Len(c) = 2,
         NEW n \in Nat, Len(s) = n
  PROVE  /\ s \o c \in Seq(Leaf) /\ Len(s \o c) = n + 2
         /\ \A p \in 1..n : (s \o c)[p] = s[p]
         /\ \A j \in 1..2 : (s \o c)[n + j] = c[j]
<1>1. Len(s) \in Nat /\ Len(s \o c) = Len(s) + Len(c)
  BY LenProperties, ConcatProperties
<1>2. s \o c \in Seq(Leaf)
  BY ConcatProperties
<1>3. \A p \in 1..Len(s) : (s \o c)[p] = s[p]
  BY <1>1
<1>4. ASSUME NEW j \in 1..2 PROVE (s \o c)[Len(s) + j] = c[j]
  BY <1>1
<1> QED
  BY <1>1, <1>2, <1>3, <1>4

(* The transaction at hand has two output commitments.                     *)
LEMMA PairHere ==
  ASSUME TypeInv, Scanning
  PROVE  ordered[i].commitments \in Seq(Leaf) /\ Len(ordered[i].commitments) = 2
<1>1. ordered[i].commitments \in [1..2 -> Leaf]
  BY HereTyped DEF TypeInv, Tx
<1> QED
  BY <1>1, PairIsSeq

(* A transaction that is accepted is the next one located.                 *)
LEMMA AcceptLocates ==
  ASSUME TypeInv, ScanInv, AcceptTx
  PROVE  Located(staged_cm', 0, ordered, DOMAIN rejected, i)
<1> DEFINE R == DOMAIN rejected
           c == ordered[i].commitments
<1>1. /\ staged_cm' = staged_cm \o c /\ c \in Seq(Leaf) /\ Len(c) = 2
      /\ staged_cm \in Seq(Leaf) /\ i \in Nat \ {0} /\ accepted \in Nat
  <2>1. c \in Seq(Leaf) /\ Len(c) = 2
    BY PairHere DEF AcceptTx
  <2> QED
    BY <2>1, CallTyped DEF AcceptTx
<1>3. Before(R, i) = accepted /\ Len(staged_cm) = 2 * accepted
  <2>1. i - 1 \in Nat /\ R \in SUBSET (1..(i - 1)) /\ (i - 1) + 1 = i
    BY <1>1 DEF ScanInv
  <2>2. Before(R, (i - 1) + 1) = (i - 1) - Cardinality(R)
    BY <2>1, BeforeEnd
  <2>3. Before(R, i) = (i - 1) - Cardinality(R)
    BY <2>1, <2>2
  <2> QED
    BY <2>3 DEF ScanInv
<1> HIDE DEF c
<1> DEFINE n == 2 * accepted
<1>2. n \in Nat /\ Len(staged_cm) = n /\ 2 * Before(R, i) = n
  BY <1>1, <1>3
<1> HIDE DEF n, R
<1>4. /\ Len(staged_cm') = n + 2 /\ staged_cm' \in Seq(Leaf)
      /\ \A p \in 1..n : staged_cm'[p] = staged_cm[p]
      /\ \A j \in 1..2 : staged_cm'[n + j] = c[j]
  <2> DEFINE t == staged_cm \o c
  <2>1. /\ Len(t) = n + 2 /\ t \in Seq(Leaf)
        /\ \A p \in 1..n : t[p] = staged_cm[p]
        /\ \A j \in 1..2 : t[n + j] = c[j]
    <3>1. c \in Seq(Leaf) /\ Len(c) = 2 /\ staged_cm \in Seq(Leaf)
      BY <1>1
    <3>2. n \in Nat /\ Len(staged_cm) = n
      BY <1>2
    <3> QED BY ONLY <3>1, <3>2, ConcatPair
  <2>2. staged_cm' = t
    BY <1>1
  <2> QED
    BY ONLY <2>1, <2>2, Zenon
<1>5. Located(staged_cm', 0, ordered, R, i - 1)
  <2>1. Located(staged_cm, 0, ordered, R, i - 1)
    BY DEF ScanInv, R
  <2>2. Len(staged_cm) <= Len(staged_cm') /\ i - 1 \in Nat
    BY <1>1, <1>2, <1>4
  <2> QED
    BY <1>1, <1>2, <1>4, <2>1, <2>2, LocatedGrows
<1>6. ASSUME NEW k \in 1..i, k \notin R
      PROVE  /\ 0 + 2 * Before(R, k) + 2 <= Len(staged_cm')
             /\ \A j \in 1..2 : staged_cm'[0 + 2 * Before(R, k) + j]
                                  = ordered[k].commitments[j]
  <2>1. CASE k = i
    <3>1. \A j \in 1..2 : staged_cm'[n + j] = ordered[k].commitments[j]
      BY <2>1, <1>4 DEF c
    <3>2. 2 * Before(R, k) = n
      BY <2>1, <1>2
    <3> QED
      BY <3>1, <3>2, <1>2, <1>4
  <2>2. CASE k # i
    <3>1. k \in 1..(i - 1)
      BY <2>2, <1>1
    <3> QED
      BY <3>1, <1>5, <1>6 DEF Located
  <2> QED
    BY <2>1, <2>2
<1>7. Located(staged_cm', 0, ordered, R, i)
  BY <1>6 DEF Located
<1> QED
  BY <1>7 DEF R

(* Every step preserves CallInv.                                           *)
LEMMA CallInvStep ==
  TypeInv /\ RootInv /\ CallInv /\ [Next]_vars => CallInv'
<1> SUFFICES ASSUME TypeInv, RootInv, CallInv, [Next]_vars PROVE CallInv'
  OBVIOUS
<1>0. TypeInv'
  BY TypeInvStep
<1>1. ASSUME NEW txs \in Batches(roots), Begin(txs) PROVE CallInv'
  <2>1. /\ pc = "idle" /\ pc' = "scan" /\ i' = 1 /\ accepted' = 0
        /\ rejected' = << >> /\ staged_cm' = << >>
        /\ leaves' = leaves /\ roots' = roots /\ next_height' = next_height
    BY <1>1 DEF Begin, ledger, next_height
  <2>2. ordered' \in Seq(Tx) /\ Len(ordered') \in Nat
    BY <1>0 DEF CallTyped, TypeInv, TypeOK
  <2>3. DOMAIN rejected' = {} /\ Cardinality(DOMAIN rejected') = 0
    BY <2>1, FS_EmptySet
  <2>4. Located(staged_cm', 0, ordered', DOMAIN rejected', i' - 1)
    BY <2>1 DEF Located
  <2>5. leaves' = roots'[next_height']
    BY <2>1 DEF RootInv
  <2>6. ScanInv'
    BY <2>1, <2>2, <2>3, <2>4, <2>5 DEF ScanInv
  <2> QED
    BY <2>1, <2>6 DEF CallInv
<1>2. CASE RejectTx
  <2>1. /\ pc = "scan" /\ i <= Len(ordered) /\ ScanInv
        /\ DOMAIN rejected' = DOMAIN rejected \cup {i} /\ i' = i + 1
        /\ UNCHANGED <<pc, ordered, staged_cm, accepted, leaves, roots>>
        /\ next_height' = next_height
    BY <1>2 DEF CallInv, RejectTx, Scanning, ledger, next_height
  <2>2. i \in Nat \ {0} /\ accepted \in Nat /\ Len(ordered) \in Nat
    BY CallTyped
  <2> DEFINE R == DOMAIN rejected
  <2>3. R \in SUBSET (1..(i - 1)) /\ i \notin R
    BY <2>1, <2>2 DEF ScanInv
  <2>4. IsFiniteSet(R) /\ Cardinality(R) \in Nat
    <3>1. i - 1 \in Nat
      BY <2>2
    <3> HIDE DEF R
    <3> QED
      BY <2>3, <3>1, BeforeEnd
  <2>5. Cardinality(R \cup {i}) = Cardinality(R) + 1
    BY <2>3, <2>4, FS_AddElement
  <2>6. accepted' = (i' - 1) - Cardinality(DOMAIN rejected')
    BY <2>1, <2>2, <2>4, <2>5 DEF ScanInv
  <2>7. Located(staged_cm', 0, ordered', DOMAIN rejected', i' - 1)
    <3>1. ASSUME NEW k \in 1..i, k \notin R \cup {i}
          PROVE  k \in 1..(i - 1) /\ Before(R \cup {i}, k) = Before(R, k)
      <4> HIDE DEF R
      <4> QED
        BY <3>1, <2>2, BeforeLocal
    <3>2. Located(staged_cm, 0, ordered, R, i - 1)
      BY <2>1 DEF ScanInv
    <3>3. Located(staged_cm, 0, ordered, R \cup {i}, i)
      <4> HIDE DEF R
      <4> QED
        BY <3>1, <3>2 DEF Located
    <3>4. i' - 1 = i
      BY <2>1, <2>2
    <3> QED
      BY <2>1, <3>3, <3>4
  <2>8. i' <= Len(ordered') + 1 /\ DOMAIN rejected' \subseteq 1..(i' - 1)
    BY <2>1, <2>2, <2>3
  <2>9. ScanInv'
    <3>1. Len(staged_cm') = 2 * accepted' /\ leaves' = roots'[next_height']
      BY <2>1 DEF ScanInv
    <3> QED
      BY <2>6, <2>7, <2>8, <3>1 DEF ScanInv
  <2> QED
    BY <2>1, <2>9 DEF CallInv
<1>3. CASE AcceptTx
  <2>1. /\ pc = "scan" /\ i <= Len(ordered) /\ ScanInv
        /\ i' = i + 1 /\ accepted' = accepted + 1
        /\ staged_cm' = staged_cm \o ordered[i].commitments
        /\ UNCHANGED <<pc, ordered, rejected, leaves, roots>>
        /\ next_height' = next_height
    BY <1>3 DEF CallInv, AcceptTx, Scanning, next_height
  <2>2. i \in Nat \ {0} /\ accepted \in Nat /\ Len(ordered) \in Nat
        /\ staged_cm \in Seq(Leaf)
    BY CallTyped
  <2>3. Located(staged_cm', 0, ordered', DOMAIN rejected', i' - 1)
    <3>1. Located(staged_cm', 0, ordered, DOMAIN rejected, i)
      BY <1>3, <2>1, AcceptLocates
    <3>2. i' - 1 = i
      BY <2>1, <2>2
    <3> QED
      BY <2>1, <3>1, <3>2
  <2>4. Len(staged_cm') = 2 * accepted'
    <3>1. /\ ordered[i].commitments \in Seq(Leaf)
          /\ Len(ordered[i].commitments) = 2
      BY <1>3, PairHere DEF AcceptTx
    <3>2. 2 * accepted \in Nat /\ Len(staged_cm) = 2 * accepted
      BY <2>1, <2>2 DEF ScanInv
    <3>3. Len(staged_cm') = 2 * accepted + 2
      BY <2>1, <2>2, <3>1, <3>2, ConcatPair
    <3> QED
      BY <2>1, <2>2, <3>3
  <2>5. Cardinality(DOMAIN rejected) \in Nat
    <3>1. i - 1 \in Nat /\ DOMAIN rejected \in SUBSET (1..(i - 1))
      BY <2>1, <2>2 DEF ScanInv
    <3> QED
      BY <3>1, BeforeEnd
  <2>6. /\ accepted' = (i' - 1) - Cardinality(DOMAIN rejected')
        /\ i' <= Len(ordered') + 1 /\ DOMAIN rejected' \subseteq 1..(i' - 1)
    <3>1. /\ accepted = (i - 1) - Cardinality(DOMAIN rejected)
          /\ DOMAIN rejected \subseteq 1..(i - 1)
      BY <2>1 DEF ScanInv
    <3>2. i' - 1 = i /\ i' <= Len(ordered') + 1
      BY ONLY <2>1, <2>2
    <3>3. accepted' = i - Cardinality(DOMAIN rejected')
      BY ONLY <3>1, <2>1, <2>2, <2>5
    <3>4. DOMAIN rejected' \subseteq 1..i
      BY ONLY <3>1, <2>1, <2>2
    <3> QED BY ONLY <3>2, <3>3, <3>4
  <2>7. ScanInv'
    BY <2>1, <2>3, <2>4, <2>6 DEF ScanInv
  <2> QED
    BY <2>1, <2>7 DEF CallInv
<1>4. CASE CommitStaged
  <2>1. /\ pc = "scan" /\ i > Len(ordered) /\ ScanInv /\ i' = 1
        /\ leaves' = leaves \o staged_cm /\ pc' = "mint"
        /\ output_positions' = [base |-> Len(leaves), count |-> Len(staged_cm)]
        /\ UNCHANGED <<ordered, rejected, accepted, roots>>
        /\ next_height' = next_height
    BY <1>4 DEF CallInv, CommitStaged, next_height
  <2>2. /\ i \in Nat \ {0} /\ accepted \in Nat /\ Len(ordered) \in Nat
        /\ staged_cm \in Seq(Leaf) /\ leaves \in Seq(Leaf) /\ Len(leaves) \in Nat
    BY CallTyped
  <2>3. i - 1 = Len(ordered)
    BY <2>1, <2>2 DEF ScanInv
  <2>4. Located(leaves', output_positions'.base, ordered', DOMAIN rejected', Len(ordered'))
    <3>1. Located(staged_cm, 0, ordered, DOMAIN rejected, Len(ordered))
      BY <2>1, <2>3 DEF ScanInv
    <3>2. Located(leaves \o staged_cm, Len(leaves), ordered, DOMAIN rejected, Len(ordered))
      BY <3>1, <2>2, LocatedShifts
    <3> QED
      BY <2>1, <3>2
  <2>5. SummaryInv'
    BY <2>1, <2>3, <2>4 DEF ScanInv, SummaryInv
  <2>6. MintInv'
    <3>1. Len(leaves') = Len(leaves) + 2 * accepted
      BY <2>1, <2>2, ConcatProperties DEF ScanInv
    <3>2. 1 <= Len(Shares[next_height]) + 1
      BY <2>1, SharesHere
    <3> QED
      BY <2>1, <2>2, <3>1, <3>2 DEF ScanInv, MintInv
  <2> QED
    BY <2>1, <2>5, <2>6 DEF CallInv
<1>5. CASE MintReward
  <2>1. /\ pc = "mint" /\ i <= Len(Shares[next_height]) /\ SummaryInv /\ MintInv
        /\ i' = i + 1 /\ leaves' = Append(leaves, RewardLeaf(next_height, i))
        /\ UNCHANGED <<pc, ordered, rejected, accepted, output_positions, roots>>
        /\ next_height' = next_height
    BY <1>5 DEF CallInv, MintReward, next_height
  <2>2. /\ i \in Nat \ {0} /\ accepted \in Nat /\ Len(ordered) \in Nat
        /\ leaves \in Seq(Leaf) /\ Len(leaves) \in Nat
        /\ output_positions.base \in Nat /\ Len(Shares[next_height]) \in Nat
    BY <2>1, CallTyped, SharesHere
  <2>3. leaves' \in Seq(Leaf) /\ Len(leaves') = Len(leaves) + 1
    <3>1. leaves' \in Seq(Leaf)
      BY <1>0 DEF TypeInv, TypeOK
    <3> QED
      BY <3>1, <2>1, <2>2
  <2>4. Located(leaves', output_positions.base, ordered, DOMAIN rejected, Len(ordered))
    <3>1. /\ Len(leaves) <= Len(leaves')
          /\ \A p \in 1..Len(leaves) : leaves'[p] = leaves[p]
      BY TreeGrows
    <3> QED
      BY <2>1, <2>2, <2>3, <3>1, LocatedGrows DEF SummaryInv
  <2>5. SummaryInv'
    BY <2>1, <2>4 DEF SummaryInv
  <2>6. MintInv'
    <3>1. roots[next_height] \in Seq(Leaf)
      BY WindowFacts, ElementOfSeq DEF Root
    <3>2. Len(roots[next_height]) \in Nat
      BY <3>1, LenProperties
    <3> QED
      BY <2>1, <2>2, <2>3, <3>2 DEF MintInv
  <2> QED
    BY <2>1, <2>5, <2>6 DEF CallInv
<1>6. CASE SealCheckpoint
  <2>1. /\ pc = "mint" /\ pc' = "idle" /\ SummaryInv
        /\ UNCHANGED <<leaves, ordered, rejected, accepted, output_positions>>
    BY <1>6 DEF CallInv, SealCheckpoint
  <2> QED
    BY <2>1 DEF CallInv, SummaryInv
<1>7. CASE UNCHANGED vars
  BY <1>7 DEF vars, ledger, locals, CallInv, ScanInv, SummaryInv, MintInv,
              next_height
<1> QED
  BY <1>1, <1>2, <1>3, <1>4, <1>5, <1>6, <1>7 DEF Next, Step, Quiesce

(* CallInv holds at genesis.                                               *)
LEMMA CallInvInit == Init => CallInv
<1> SUFFICES ASSUME Init PROVE CallInv
  OBVIOUS
<1>1. /\ pc = "idle" /\ ordered = << >> /\ rejected = << >> /\ accepted = 0
      /\ output_positions = [base |-> 0, count |-> 0]
  BY DEF Init
<1>2. DOMAIN rejected = {} /\ Cardinality(DOMAIN rejected) = 0 /\ Len(ordered) = 0
  BY <1>1, FS_EmptySet
<1> QED
  BY <1>1, <1>2 DEF CallInv, SummaryInv, Located

(* So it holds in every reachable state.                                   *)
LEMMA CallInvariant == Spec => []CallInv
  BY CallInvInit, CallInvStep, TypeInvariant, RootInvariant, PTL DEF Spec

-----------------------------------------------------------------------------
(* Between calls the positions in the summary locate the outputs of        *)
(* exactly the transactions that were not rejected, in order.              *)
THEOREM PositionsLocateOutputsHolds == Spec => []PositionsLocateOutputs
<1>1. TypeInv /\ CallInv => PositionsLocateOutputs
  <2> SUFFICES ASSUME TypeInv, CallInv, pc = "idle" PROVE PositionsLocateOutputs
    BY DEF PositionsLocateOutputs
  <2>1. SummaryInv
    BY DEF CallInv
  <2>2. ASSUME NEW k \in DOMAIN ordered \ DOMAIN rejected
        PROVE  LET before == Cardinality({m \in 1..(k-1) : m \notin DOMAIN rejected})
                   p == output_positions.base + 2 * before
               IN  \A n \in 1..2 : leaves[p + n] = ordered[k].commitments[n]
    <3>1. k \in 1..Len(ordered) /\ k \notin DOMAIN rejected
      BY CallTyped
    <3> QED
      BY <2>1, <3>1 DEF SummaryInv, Located, Before
  <2> QED
    BY <2>1, <2>2 DEF SummaryInv, PositionsLocateOutputs
<1> QED
  BY <1>1, TypeInvariant, CallInvariant, PTL

(* The anchors change only in the step that ends a call, which seals a     *)
(* tree that has every output and every reward of its checkpoint.          *)
THEOREM AnchorsMoveOnlyAtSealHolds == Spec => AnchorsMoveOnlyAtSeal
<1> DEFINE P == anchors' # anchors =>
                  /\ height' = height + 1
                  /\ anchors'[Len(anchors')] = [height |-> height', root |-> leaves']
                  /\ Len(leaves') = Len(roots[Len(roots)]) + 2 * accepted
                                      + Len(Shares[height'])
<1>1. TypeInv /\ CallInv /\ [Next]_vars => [P]_vars
  <2> SUFFICES ASSUME TypeInv, CallInv, [Next]_vars, anchors' # anchors PROVE P
    OBVIOUS
  <2>1. SealCheckpoint
    BY OnlySealMoves
  <2>2. /\ pc = "mint" /\ i > Len(Shares[next_height]) /\ MintInv
        /\ anchors' = Sealed(anchors, leaves, next_height)
        /\ height' = next_height /\ leaves' = leaves
    BY <2>1 DEF SealCheckpoint, CallInv
  <2>3. next_height \in Nat /\ IsWindow(anchors, next_height) /\ leaves \in Seq(Leaf)
    BY CallTyped DEF TypeInv
  <2>4. SealsInto(anchors, leaves, next_height, anchors')
    BY <2>2, <2>3, SealedIsWindow
  <2>5. anchors'[Len(anchors')] = [height |-> next_height, root |-> leaves]
    BY <2>4, Zenon DEF SealsInto
  <2>6. Len(leaves) = Len(roots[Len(roots)]) + 2 * accepted + Len(Shares[next_height])
    <3>1. i - 1 = Len(Shares[next_height]) /\ Len(roots) = next_height
      BY <2>2, SharesHere, CallTyped DEF MintInv
    <3> QED
      BY <2>2, <3>1 DEF MintInv
  <2> QED
    BY <2>2, <2>5, <2>6 DEF next_height
<1> QED
  BY <1>1, TypeInvariant, CallInvariant, PTL DEF Spec, AnchorsMoveOnlyAtSeal

-----------------------------------------------------------------------------
(* The supply audit: a reward is split without losing or making a unit,    *)
(* every unit of supply beyond the genesis allocation is the value of one  *)
(* reward note in the tree, and between calls the supply is what the       *)
(* schedule has issued.                                                    *)

(* Division of naturals rounds down, and not too far.                      *)
LEMMA DivFacts ==
  ASSUME NEW a \in Nat, NEW b \in Nat \ {0}
  PROVE  /\ a \div b \in Nat /\ a % b \in Nat /\ a % b < b
         /\ b * (a \div b) <= a /\ a = b * (a \div b) + (a % b)
OBVIOUS

(* A positive factor cancels.                                              *)
LEMMA MulCancel ==
  ASSUME NEW a \in Nat, NEW b \in Nat, NEW c \in Nat \ {0}, c * a <= c * b
  PROVE  a <= b
OBVIOUS

(* The decay factor, and so the emission, is a natural number: the linear  *)
(* drop between two halvings never exceeds what is left.                   *)
LEMMA EmissionNat ==
  ASSUME NEW h \in Nat
  PROVE  EmissionAt(h) \in Nat
<1> DEFINE q == h \div half_life
           r == h % half_life
           l == 2 * half_life
           v == SCALE \div 2^q
           drop == (v * r) \div l
<1>1. /\ q \in Nat /\ r \in Nat /\ r < half_life /\ half_life \in Nat \ {0}
      /\ l \in Nat \ {0} /\ half_life <= l
  BY DivFacts, HalfLifeAssumption
<1>2. v \in Nat
  <2>1. 2^q \in Nat \ {0}
    BY <1>1, PowerPositive
  <2> DEFINE b == 2^q
  <2> HIDE DEF b
  <2>2. SCALE \div b \in Nat
    BY <2>1, ScaleAssumption, DivFacts DEF b
  <2> QED
    BY <2>2 DEF b
<1> HIDE DEF q, r, v, l
<1>3. v * r \in Nat /\ v * r <= l * v
  <2>1. v * r <= v * l
    BY <1>1, <1>2
  <2> QED
    BY <2>1, <1>1, <1>2
<1>4. drop \in Nat /\ drop <= v
  <2> DEFINE a == v * r
  <2>1. a \in Nat /\ a <= l * v
    BY <1>3
  <2> HIDE DEF a
  <2>2. a \div l \in Nat /\ l * (a \div l) <= a
    BY <1>1, <2>1, DivFacts
  <2> DEFINE c == a \div l
  <2>3. c \in Nat /\ l * c <= l * v
    BY <1>1, <1>2, <2>1, <2>2
  <2> HIDE DEF c
  <2>4. c <= v
    BY <1>1, <1>2, <2>3
  <2> QED
    BY <2>3, <2>4 DEF a, c
<1> HIDE DEF drop
<1>5. DecayFactor(h) \in Nat
  <2>1. DecayFactor(h) = IF q >= MAX_HALVINGS THEN 0 ELSE v - drop
    BY DEF DecayFactor, q, r, v, l, drop
  <2> QED
    BY <1>2, <1>4, <2>1
<1>6. ((e0 - e_tail) * DecayFactor(h)) \div SCALE \in Nat
  <2> DEFINE a == (e0 - e_tail) * DecayFactor(h)
  <2>1. a \in Nat
    BY <1>5, ScheduleAssumption
  <2> HIDE DEF a
  <2>2. a \div SCALE \in Nat
    BY <2>1, ScaleAssumption, DivFacts
  <2> QED
    BY <2>2 DEF a
<1> QED
  BY <1>6, ScheduleAssumption DEF EmissionAt

-----------------------------------------------------------------------------
(* The split of a reward.                                                  *)

(* The floors of the proportional shares do not exceed the total.          *)
LEMMA FloorsFit ==
  ASSUME NEW n \in Nat, NEW w, \A k \in 1..n : w[k] \in Nat, NEW total \in Nat,
         NEW W \in Nat \ {0}, W = SumFunctionOnSet(w, 1..n),
         NEW f, \A k \in 1..n : f[k] = (total * w[k]) \div W
  PROVE  /\ \A k \in 1..n : f[k] \in Nat
         /\ SumFunctionOnSet(f, 1..n) \in Nat
         /\ SumFunctionOnSet(f, 1..n) <= total
<1> DEFINE D == 1..n
           F == {T \in SUBSET D :
                   W * SumFunctionOnSet(f, T) <= total * SumFunctionOnSet(w, T)}
<1>1. IsFiniteSet(D)
  BY FS_Interval
<1>2. ASSUME NEW k \in D
      PROVE  w[k] \in Nat /\ f[k] \in Nat /\ W * f[k] <= total * w[k]
  <2> DEFINE a == total * w[k]
  <2>1. a \in Nat /\ f[k] = a \div W
    OBVIOUS
  <2> HIDE DEF a
  <2>2. a \div W \in Nat /\ W * (a \div W) <= a
    BY <2>1, DivFacts
  <2> QED
    BY <2>1, <2>2 DEF a
<1> HIDE DEF D
<1>3. {} \in F
  BY SumEmpty
<1>4. ASSUME NEW T \in F, NEW x \in D \ T PROVE T \cup {x} \in F
  <2>1. IsFiniteSet(T) /\ x \notin T /\ T \in SUBSET D
    BY <1>1, FS_Subset
  <2>2. /\ \A y \in T \cup {x} : f[y] \in Nat
        /\ \A y \in T \cup {x} : w[y] \in Nat
        /\ \A y \in T : f[y] \in Nat
        /\ \A y \in T : w[y] \in Nat
    BY <1>2, <2>1
  <2>3. /\ SumFunctionOnSet(f, T \cup {x}) = SumFunctionOnSet(f, T) + f[x]
        /\ SumFunctionOnSet(w, T \cup {x}) = SumFunctionOnSet(w, T) + w[x]
    BY <2>1, <2>2, SumAdd
  <2> DEFINE a == SumFunctionOnSet(f, T)
             b == SumFunctionOnSet(w, T)
             c == f[x]
             d == w[x]
  <2>4. /\ a \in Nat /\ b \in Nat /\ c \in Nat /\ d \in Nat
        /\ W * a <= total * b /\ W * c <= total * d
    BY <1>2, <2>1, <2>2, SumNat
  <2> HIDE DEF a, b, c, d
  <2>5. W * (a + c) <= total * (b + d)
    <3>1. W * (a + c) = W * a + W * c /\ total * (b + d) = total * b + total * d
      BY <2>4
    <3> QED
      BY <2>4, <3>1
  <2>6. W * SumFunctionOnSet(f, T \cup {x}) <= total * SumFunctionOnSet(w, T \cup {x})
    BY <2>3, <2>5 DEF a, b, c, d
  <2> QED
    BY <2>1, <2>6
<1>5. F = SUBSET D
  <2>1. F \in SUBSET SUBSET D
    OBVIOUS
  <2> HIDE DEF F
  <2> QED
    BY <1>1, <1>3, <1>4, <2>1, SubsetInduction
<1>6. SumFunctionOnSet(f, D) \in Nat
  BY <1>1, <1>2, SumNat
<1>7. W * SumFunctionOnSet(f, D) <= total * W
  BY <1>5 DEF D
<1>8. SumFunctionOnSet(f, D) <= total
  <2> DEFINE a == SumFunctionOnSet(f, D)
  <2>1. a \in Nat /\ W * a <= W * total
    BY <1>6, <1>7
  <2> HIDE DEF a
  <2>2. a <= total
    BY <2>1, MulCancel
  <2> QED
    BY <2>2 DEF a
<1> QED
  BY <1>2, <1>6, <1>8 DEF D

(* Handing out r units one at a time, wrapping after n, hands out r.       *)
LEMMA ExtrasAddUp ==
  ASSUME NEW n \in Nat \ {0}, NEW r \in Nat, NEW f,
         \A k \in 1..n : f[k] = r \div n + (IF k <= r % n THEN 1 ELSE 0)
  PROVE  SumFunctionOnSet(f, 1..n) = r /\ \A k \in 1..n : f[k] \in Nat
<1> DEFINE q == r \div n
           e == r % n
           Upto(m) == m * q + (IF m <= e THEN m ELSE e)
           S == {m \in Nat : m <= n => SumFunctionOnSet(f, 1..m) = Upto(m)}
<1>1. q \in Nat /\ e \in Nat /\ e < n /\ r = n * q + e
  BY DivFacts
<1>2. \A k \in 1..n : f[k] = q + (IF k <= e THEN 1 ELSE 0)
  OBVIOUS
<1> HIDE DEF q, e
<1>3. \A k \in 1..n : f[k] \in Nat
  BY <1>1, <1>2
<1>4. 0 \in S
  <2>1. 1..0 = {}
    OBVIOUS
  <2> QED
    BY <1>1, <2>1, SumEmpty
<1>5. ASSUME NEW m \in S PROVE m + 1 \in S
  <2> SUFFICES ASSUME m + 1 <= n
               PROVE  SumFunctionOnSet(f, 1..(m + 1)) = Upto(m + 1)
    OBVIOUS
  <2>1. m \in Nat /\ m <= n /\ m + 1 \in 1..n
    OBVIOUS
  <2>2. SumFunctionOnSet(f, 1..m) = Upto(m)
    BY <2>1
  <2>3. SumFunctionOnSet(f, 1..(m + 1)) = SumFunctionOnSet(f, 1..m) + f[m + 1]
    <3>1. \A k \in 1..(m + 1) : f[k] \in Nat
      BY <1>3, <2>1
    <3> QED
      BY <2>1, <3>1, SumNext
  <2>4. f[m + 1] = q + (IF m + 1 <= e THEN 1 ELSE 0)
    BY <1>2, <2>1
  <2>5. Upto(m + 1) = Upto(m) + (q + (IF m + 1 <= e THEN 1 ELSE 0))
    <3>1. (m + 1) * q = m * q + q /\ m * q \in Nat
      BY <1>1, <2>1
    <3> QED
      BY <1>1, <2>1, <3>1
  <2> QED
    BY <2>2, <2>3, <2>4, <2>5
<1>6. S = Nat
  <2>1. S \in SUBSET Nat
    OBVIOUS
  <2> HIDE DEF S
  <2> QED
    BY <1>4, <1>5, <2>1, NatInductionSet
<1>7. SumFunctionOnSet(f, 1..n) = Upto(n)
  <2>1. n \in S
    BY <1>6
  <2> QED
    BY <2>1
<1>8. Upto(n) = r
  BY <1>1
<1> QED
  BY <1>3, <1>7, <1>8

(* What distribute promises: nothing is lost to rounding.                  *)
LEMMA DistributeExact ==
  ASSUME NEW w \in Seq(Nat), SumFunction(w) # 0, NEW total \in Nat
  PROVE  /\ Distribute(total, w) \in [1..Len(w) -> Nat]
         /\ SumFunctionOnSet(Distribute(total, w), 1..Len(w)) = total
<1> DEFINE n == Len(w)
           W == SumFunction(w)
           floor == [k \in 1..n |-> (total * w[k]) \div W]
           remainder == total - SumFunction(floor)
           extra == [k \in 1..n |->
                       remainder \div n + (IF k <= remainder % n THEN 1 ELSE 0)]
           shares == [k \in 1..n |-> floor[k] + extra[k]]
<1>1. n \in Nat /\ DOMAIN w = 1..n /\ \A k \in 1..n : w[k] \in Nat
  BY LenProperties, ElementOfSeq
<1>2. Distribute(total, w) = shares
  BY DEF Distribute
<1>3. W = SumFunctionOnSet(w, 1..n)
  BY <1>1 DEF SumFunction
<1>4. W \in Nat \ {0}
  <2>1. IsFiniteSet(1..n)
    BY <1>1, FS_Interval
  <2> HIDE DEF n, W
  <2>2. W \in Nat
    BY <1>1, <1>3, <2>1, SumNat
  <2> QED
    BY <2>2 DEF W
<1>5. n # 0
  <2>1. CASE n = 0
    <3>1. 1..n = {}
      BY <2>1
    <3> QED
      BY <1>3, <1>4, <3>1, SumEmpty
  <2> QED
    BY <2>1
<1>6. SumFunction(floor) = SumFunctionOnSet(floor, 1..n)
  BY DEF SumFunction
<1> HIDE DEF W, n
<1>7. /\ \A k \in 1..n : floor[k] \in Nat
      /\ SumFunctionOnSet(floor, 1..n) \in Nat
      /\ SumFunctionOnSet(floor, 1..n) <= total
  <2>1. \A k \in 1..n : floor[k] = (total * w[k]) \div W
    OBVIOUS
  <2> HIDE DEF floor
  <2> QED
    BY <1>1, <1>3, <1>4, <2>1, FloorsFit
<1> HIDE DEF floor
<1>8. remainder \in Nat /\ remainder + SumFunctionOnSet(floor, 1..n) = total
  BY <1>6, <1>7
<1> HIDE DEF remainder
<1>9. SumFunctionOnSet(extra, 1..n) = remainder /\ \A k \in 1..n : extra[k] \in Nat
  <2>1. \A k \in 1..n : extra[k] = remainder \div n + (IF k <= remainder % n THEN 1 ELSE 0)
    OBVIOUS
  <2>2. n \in Nat \ {0}
    BY <1>1, <1>5
  <2> HIDE DEF extra
  <2> QED
    BY <1>8, <2>1, <2>2, ExtrasAddUp
<1> HIDE DEF extra
<1>10. \A k \in 1..n : shares[k] = floor[k] + extra[k] /\ shares[k] \in Nat
  BY <1>7, <1>9
<1>11. shares \in [1..n -> Nat]
  BY <1>7, <1>9
<1> HIDE DEF shares
<1>12. SumFunctionOnSet(shares, 1..n)
         = SumFunctionOnSet(floor, 1..n) + SumFunctionOnSet(extra, 1..n)
  <2> DEFINE D == 1..n
  <2>0. IsFiniteSet(D)
    BY <1>1, FS_Interval
  <2>1. \A k \in D : /\ floor[k] \in Nat /\ extra[k] \in Nat
                     /\ shares[k] = floor[k] + extra[k]
    BY <1>7, <1>9, <1>10
  <2> HIDE DEF D
  <2>2. SumFunctionOnSet(shares, D)
          = SumFunctionOnSet(floor, D) + SumFunctionOnSet(extra, D)
    BY <2>0, <2>1, SumPlus
  <2> QED
    BY <2>2 DEF D
<1>13. SumFunctionOnSet(shares, 1..n) = total
  <2> DEFINE a == SumFunctionOnSet(floor, 1..n)
  <2>1. a \in Nat /\ remainder + a = total
        /\ SumFunctionOnSet(shares, 1..n) = a + remainder
    BY <1>7, <1>8, <1>9, <1>12
  <2> HIDE DEF a
  <2> QED
    BY <1>8, <2>1
<1> QED
  BY <1>2, <1>11, <1>13 DEF n

-----------------------------------------------------------------------------
(* The supply and the reward notes.                                        *)

RewardsOf(s) == {p \in DOMAIN s : s[p].source = "reward"}

RewardTotal(s) == SumFunction([p \in RewardsOf(s) |-> s[p].value])

(* Appending leaves that are no rewards adds no reward.                    *)
LEMMA NoNewRewards ==
  ASSUME NEW s \in Seq(Leaf), NEW t \in Seq(Leaf),
         \A p \in DOMAIN t : t[p].source = "output"
  PROVE  /\ RewardsOf(s \o t) = RewardsOf(s)
         /\ \A p \in RewardsOf(s) : (s \o t)[p] = s[p]
         /\ RewardTotal(s \o t) = RewardTotal(s)
<1>1. /\ Len(s) \in Nat /\ Len(t) \in Nat
      /\ DOMAIN s = 1..Len(s) /\ DOMAIN t = 1..Len(t)
      /\ s \o t \in Seq(Leaf) /\ Len(s \o t) = Len(s) + Len(t)
  BY LenProperties, ConcatProperties
<1>2. DOMAIN (s \o t) = 1..(Len(s) + Len(t))
  BY <1>1, LenProperties
<1>3. \A p \in 1..Len(s) : (s \o t)[p] = s[p]
  BY <1>1
<1>4. ASSUME NEW p \in 1..(Len(s) + Len(t)), p \notin 1..Len(s)
      PROVE  (s \o t)[p].source = "output"
  <2>1. p - Len(s) \in 1..Len(t)
    BY <1>1, <1>4
  <2>2. (s \o t)[p] = t[p - Len(s)]
    BY <1>1, <1>4, ConcatProperties
  <2> QED
    BY <1>1, <2>1, <2>2
<1>5. RewardsOf(s \o t) = RewardsOf(s)
  <2>1. \A p : p \in 1..Len(s) => p \in 1..(Len(s) + Len(t))
    BY <1>1
  <2> QED
    BY <1>1, <1>2, <1>3, <1>4, <2>1 DEF RewardsOf
<1>6. \A p \in RewardsOf(s) : (s \o t)[p] = s[p]
  BY <1>1, <1>3 DEF RewardsOf
<1>7. [p \in RewardsOf(s \o t) |-> (s \o t)[p].value]
        = [p \in RewardsOf(s) |-> s[p].value]
  BY <1>5, <1>6
<1> QED
  BY <1>5, <1>6, <1>7 DEF RewardTotal

(* Appending a reward adds it, and its value to the total.                 *)
LEMMA OneNewReward ==
  ASSUME NEW s \in Seq(Leaf), NEW r \in Leaf, r.source = "reward"
  PROVE  /\ RewardsOf(Append(s, r)) = RewardsOf(s) \cup {Len(s) + 1}
         /\ Len(s) + 1 \notin RewardsOf(s)
         /\ Append(s, r)[Len(s) + 1] = r
         /\ \A p \in RewardsOf(s) : Append(s, r)[p] = s[p]
         /\ RewardTotal(s) \in Nat
         /\ RewardTotal(Append(s, r)) = RewardTotal(s) + r.value
<1> DEFINE t == Append(s, r)
           n == Len(s) + 1
           D == RewardsOf(s)
           f == [p \in D |-> s[p].value]
           g == [p \in D \cup {n} |-> t[p].value]
<1>1. /\ DOMAIN t = DOMAIN s \cup {n} /\ n \notin DOMAIN s /\ t[n] = r
      /\ \A p \in DOMAIN s : t[p] = s[p]
  BY AppendDomain
<1>2. RewardsOf(t) = D \cup {n} /\ n \notin D /\ \A p \in D : t[p] = s[p]
  BY <1>1 DEF RewardsOf
<1>3. IsFiniteSet(D)
  <2>1. DOMAIN s = 1..Len(s) /\ Len(s) \in Nat
    BY LenProperties
  <2>2. IsFiniteSet(DOMAIN s)
    BY <2>1, FS_Interval
  <2>3. D \in SUBSET DOMAIN s
    BY DEF RewardsOf
  <2> QED
    BY <2>2, <2>3, FS_Subset
<1>4. \A p \in D : s[p].value \in Nat
  <2>1. \A p \in D : s[p] \in Leaf
    BY LenProperties, ElementOfSeq DEF RewardsOf
  <2> QED
    BY <2>1 DEF Leaf
<1>5. r.value \in Nat
  BY DEF Leaf
<1> HIDE DEF t, n, D
<1>6. /\ \A p \in D : f[p] \in Nat /\ f[p] = g[p]
      /\ \A p \in D \cup {n} : g[p] \in Nat
      /\ g[n] = r.value
  BY <1>1, <1>2, <1>4, <1>5
<1>7. DOMAIN f = D /\ DOMAIN g = D \cup {n}
  OBVIOUS
<1>8. RewardTotal(s) = SumFunctionOnSet(f, D)
  BY <1>7 DEF RewardTotal, SumFunction, D
<1>9. RewardTotal(t) = SumFunctionOnSet(g, D \cup {n})
  <2>1. RewardTotal(t) = SumFunction(g)
    BY <1>2 DEF RewardTotal
  <2> QED
    BY <2>1, <1>7 DEF SumFunction
<1> HIDE DEF f, g
<1>10. SumFunctionOnSet(g, D \cup {n}) = SumFunctionOnSet(g, D) + g[n]
  BY <1>2, <1>3, <1>6, SumAdd
<1>11. SumFunctionOnSet(f, D) = SumFunctionOnSet(g, D) /\ SumFunctionOnSet(f, D) \in Nat
  BY <1>3, <1>6, SumSame, SumNat
<1>12. RewardTotal(t) = RewardTotal(s) + r.value /\ RewardTotal(s) \in Nat
  BY <1>6, <1>8, <1>9, <1>10, <1>11
<1> QED
  BY <1>1, <1>2, <1>12 DEF t, n, D

(* Everything offered and everything staged is an output.                  *)
OutputsOnly ==
    /\ \A k \in DOMAIN ordered : \A n \in 1..2 :
          ordered[k].commitments[n].source = "output"
    /\ \A p \in DOMAIN staged_cm : staged_cm[p].source = "output"

(* The supply is backed by the reward notes, each of an earlier height or  *)
(* of a smaller index than the share minted next.                          *)
BackedInv ==
    /\ supply = GenesisSupply + RewardTotal(leaves)
    /\ \A p \in RewardsOf(leaves) :
          \/ leaves[p].id <= height
          \/ pc = "mint" /\ leaves[p].id = next_height /\ leaves[p].idx < i - 1
    /\ \A p, q \in RewardsOf(leaves) : leaves[p] = leaves[q] => p = q

(* Every step keeps what is offered and staged free of rewards.            *)
LEMMA OutputsOnlyStep == TypeInv /\ OutputsOnly /\ [Next]_vars => OutputsOnly'
<1> SUFFICES ASSUME TypeInv, OutputsOnly, [Next]_vars PROVE OutputsOnly'
  OBVIOUS
<1>1. ASSUME NEW txs \in Batches(roots), Begin(txs) PROVE OutputsOnly'
  <2>1. ordered' = txs /\ staged_cm' = << >>
    BY <1>1 DEF Begin
  <2>2. ASSUME NEW k \in DOMAIN txs, NEW n \in 1..2
        PROVE  txs[k].commitments[n].source = "output"
    <3>1. PICK m \in 0..MaxTxs : txs \in [1..m -> Submittable(roots)]
      BY DEF Batches
    <3>2. txs[k] \in Submittable(roots)
      BY <3>1
    <3>3. PICK b \in Bodies, a \in ClaimableAnchors(roots) : txs[k] = WithAnchor(b, a)
      BY <3>2 DEF Submittable
    <3>4. txs[k].commitments = b.commitments
      BY <3>3 DEF WithAnchor
    <3> QED
      BY <3>4, SourceAssumption
  <2> QED
    BY <2>1, <2>2 DEF OutputsOnly
<1>2. CASE AcceptTx
  <2> DEFINE c == ordered[i].commitments
  <2>1. /\ staged_cm' = staged_cm \o c /\ ordered' = ordered
        /\ c \in Seq(Leaf) /\ Len(c) = 2 /\ staged_cm \in Seq(Leaf)
        /\ i \in DOMAIN ordered
    BY <1>2, PairHere, HereTyped, CallTyped DEF AcceptTx, TypeInv
  <2>2. \A n \in 1..2 : c[n].source = "output"
    BY <2>1 DEF OutputsOnly
  <2> HIDE DEF c
  <2> DEFINE m == Len(staged_cm)
             t == staged_cm \o c
  <2>3. m \in Nat /\ Len(staged_cm) = m /\ DOMAIN staged_cm = 1..m
    BY <2>1, LenProperties
  <2> HIDE DEF m
  <2>4. /\ t \in Seq(Leaf) /\ Len(t) = m + 2
        /\ \A p \in 1..m : t[p] = staged_cm[p]
        /\ \A n \in 1..2 : t[m + n] = c[n]
    BY ONLY <2>1, <2>3, ConcatPair, Zenon
  <2> HIDE DEF t
  <2>5. DOMAIN t = 1..(m + 2)
    BY <2>4, LenProperties
  <2>6. ASSUME NEW p \in 1..(m + 2) PROVE t[p].source = "output"
    <3>1. CASE p \in 1..m
      BY <3>1, <2>3, <2>4 DEF OutputsOnly
    <3>2. CASE p \notin 1..m
      <4>1. p - m \in 1..2 /\ m + (p - m) = p
        BY <3>2, <2>3
      <4>2. t[m + (p - m)] = c[p - m]
        BY <4>1, <2>4
      <4> QED
        BY <4>1, <4>2, <2>2
    <3> QED
      BY <3>1, <3>2
  <2>7. staged_cm' = t
    BY <2>1 DEF t
  <2> QED
    BY <2>1, <2>5, <2>6, <2>7 DEF OutputsOnly
<1>3. CASE ordered' = ordered /\ staged_cm' = staged_cm
  BY <1>3 DEF OutputsOnly
<1> QED
  BY <1>1, <1>2, <1>3 DEF Next, Step, Quiesce, RejectTx, CommitStaged,
                          MintReward, SealCheckpoint, vars, locals

(* The height a call in progress extends to.                               *)
LEMMA HeightHere ==
  ASSUME TypeInv, pc # "idle"
  PROVE  /\ next_height \in 1..MaxHeight /\ height \in Nat /\ next_height \in Nat
         /\ next_height = height + 1
<1>1. height \in 0..MaxHeight /\ height < MaxHeight
  BY DEF TypeInv, TypeOK
<1> QED
  BY <1>1, BoundsAssumption DEF next_height

(* An interval from 1 determines its end.                                  *)
LEMMA SameInterval ==
  ASSUME NEW a \in Nat, NEW b \in Nat, 1..a = 1..b
  PROVE  a = b
<1>1. a >= 1 => a <= b
  OBVIOUS
<1>2. b >= 1 => b <= a
  OBVIOUS
<1> QED
  BY <1>1, <1>2

(* The descriptor has at most one share for each validator, and with a     *)
(* positive total weight its shares add up to the emission.                *)
LEMMA SharesFacts ==
  ASSUME NEW h \in 1..MaxHeight
  PROVE  /\ Len(Shares[h]) <= Len(Weights)
         /\ SumFunction(Weights) # 0 =>
               SumFunctionOnSet(Shares[h], 1..Len(Shares[h])) = EmissionAt(h)
<1>1. Shares[h] = Distribute(EmissionAt(h), Weights)
  BY DescriptorAssumption DEF DescriptorShares, RewardShares
<1>2. EmissionAt(h) \in Nat
  BY EmissionNat, BoundsAssumption
<1>3. Len(Weights) \in Nat
  BY WeightsAssumption, LenProperties
<1>4. CASE SumFunction(Weights) = 0
  <2>1. Shares[h] = << >>
    BY <1>1, <1>4 DEF Distribute
  <2> QED
    BY <2>1, <1>3, <1>4
<1>5. CASE SumFunction(Weights) # 0
  <2> DEFINE s == Shares[h]
             n == Len(Weights)
  <2>1. s \in [1..n -> Nat] /\ SumFunctionOnSet(s, 1..n) = EmissionAt(h)
    BY <1>1, <1>2, <1>5, WeightsAssumption, DistributeExact
  <2>2. Len(s) = n
    <3>1. s \in Seq(Nat)
      BY SharesAssumption
    <3>2. DOMAIN s = 1..Len(s) /\ Len(s) \in Nat
      BY <3>1, LenProperties
    <3>3. 1..Len(s) = 1..n /\ n \in Nat
      BY <2>1, <3>2, <1>3
    <3> HIDE DEF s, n
    <3> DEFINE k == Len(s)
    <3>4. k \in Nat /\ n \in Nat /\ 1..k = 1..n
      BY <3>2, <3>3
    <3> HIDE DEF k
    <3>5. k = n
      BY <3>4, SameInterval
    <3> QED
      BY <3>5 DEF k
  <2> QED
    BY <2>1, <2>2, <1>3
<1> QED
  BY <1>4, <1>5

(* Every step preserves BackedInv when validator indices fit in the byte   *)
(* that the reward's rho has for them.                                     *)
LEMMA BackedInvStep ==
  ASSUME Len(Weights) <= 256
  PROVE  TypeInv /\ OutputsOnly /\ BackedInv /\ [Next]_vars => BackedInv'
<1> SUFFICES ASSUME TypeInv, OutputsOnly, BackedInv, [Next]_vars PROVE BackedInv'
  OBVIOUS
<1>1. CASE CommitStaged
  <2>1. /\ leaves' = leaves \o staged_cm /\ supply' = supply /\ height' = height
        /\ next_height' = next_height /\ pc # "mint"
    BY <1>1 DEF CommitStaged, next_height
  <2>2. /\ RewardsOf(leaves') = RewardsOf(leaves)
        /\ \A p \in RewardsOf(leaves) : leaves'[p] = leaves[p]
        /\ RewardTotal(leaves') = RewardTotal(leaves)
    <3>1. leaves \in Seq(Leaf) /\ staged_cm \in Seq(Leaf)
      BY CallTyped
    <3>2. \A p \in DOMAIN staged_cm : staged_cm[p].source = "output"
      BY DEF OutputsOnly
    <3>3. /\ RewardsOf(leaves \o staged_cm) = RewardsOf(leaves)
          /\ \A p \in RewardsOf(leaves) : (leaves \o staged_cm)[p] = leaves[p]
          /\ RewardTotal(leaves \o staged_cm) = RewardTotal(leaves)
      BY ONLY <3>1, <3>2, NoNewRewards
    <3> QED BY ONLY <3>3, <2>1
  <2>3. /\ supply = GenesisSupply + RewardTotal(leaves)
        /\ \A p \in RewardsOf(leaves) : leaves[p].id <= height
        /\ \A p, q \in RewardsOf(leaves) : leaves[p] = leaves[q] => p = q
    BY <2>1 DEF BackedInv
  <2>4. /\ supply' = GenesisSupply + RewardTotal(leaves')
        /\ \A p \in RewardsOf(leaves') : leaves'[p].id <= height'
        /\ \A p, q \in RewardsOf(leaves') : leaves'[p] = leaves'[q] => p = q
    BY ONLY <2>1, <2>2, <2>3
  <2> QED
    BY ONLY <2>4 DEF BackedInv
<1>2. CASE MintReward
  <2> DEFINE r == RewardLeaf(next_height, i)
             n == Len(leaves) + 1
             v == Shares[next_height][i]
  <2>1. /\ leaves' = Append(leaves, r) /\ height' = height /\ supply' = supply + v
        /\ next_height' = next_height /\ pc = "mint" /\ pc' = "mint"
        /\ i' = i + 1 /\ i <= Len(Shares[next_height])
    BY <1>2 DEF MintReward, next_height
  <2>2. /\ next_height \in 1..MaxHeight /\ height \in Nat
        /\ next_height \in Nat /\ next_height = height + 1
    BY <2>1, HeightHere
  <2>3. i \in Nat \ {0} /\ i <= 256 /\ v \in Nat
    <3>1. i \in Nat \ {0} /\ Shares[next_height] \in Seq(Nat)
          /\ Len(Shares[next_height]) \in Nat
      BY <2>1, CallTyped, SharesHere
    <3>2. Len(Shares[next_height]) <= Len(Weights) /\ Len(Weights) \in Nat
      BY <2>2, SharesFacts, WeightsAssumption, LenProperties
    <3>3. v \in Nat
      BY <2>1, <3>1, ElementOfSeq
    <3> QED
      BY <2>1, <3>1, <3>2, <3>3
  <2>4. /\ r.source = "reward" /\ r.id = next_height /\ r.value = v
        /\ r.idx = i - 1 /\ r \in Leaf
    <3>1. (i - 1) % 256 = i - 1 /\ i - 1 \in Nat
      BY <2>3
    <3> QED
      BY <2>2, <2>3, <3>1 DEF RewardLeaf, Leaf
  <2>5. leaves \in Seq(Leaf)
    BY CallTyped
  <2> HIDE DEF r, n, v
  <2>6. /\ RewardsOf(leaves') = RewardsOf(leaves) \cup {n} /\ n \notin RewardsOf(leaves)
        /\ leaves'[n] = r /\ \A p \in RewardsOf(leaves) : leaves'[p] = leaves[p]
        /\ RewardTotal(leaves) \in Nat
        /\ RewardTotal(leaves') = RewardTotal(leaves) + v
    <3>1. /\ RewardsOf(Append(leaves, r)) = RewardsOf(leaves) \cup {Len(leaves) + 1}
          /\ Len(leaves) + 1 \notin RewardsOf(leaves)
          /\ Append(leaves, r)[Len(leaves) + 1] = r
          /\ \A p \in RewardsOf(leaves) : Append(leaves, r)[p] = leaves[p]
          /\ RewardTotal(leaves) \in Nat
          /\ RewardTotal(Append(leaves, r)) = RewardTotal(leaves) + r.value
      BY ONLY <2>4, <2>5, OneNewReward, Zenon
    <3>2. r.value = v /\ leaves' = Append(leaves, r)
      BY <2>1, <2>4
    <3> QED
      BY ONLY <3>1, <3>2, Zenon DEF n
  <2>7. supply' = GenesisSupply + RewardTotal(leaves')
    <3>1. supply = GenesisSupply + RewardTotal(leaves)
      BY DEF BackedInv
    <3> QED
      BY <2>1, <2>3, <2>6, <3>1, GenesisAssumption
  <2>8. ASSUME NEW p \in RewardsOf(leaves)
        PROVE  /\ \/ leaves[p].id <= height
                  \/ leaves[p].id = next_height /\ leaves[p].idx < i - 1
               /\ leaves[p].idx \in Nat
    <3>1. leaves[p] \in Leaf
      BY <2>5, LenProperties, ElementOfSeq DEF RewardsOf
    <3> QED
      BY <2>1, <3>1 DEF BackedInv, Leaf
  <2>9. \A p \in RewardsOf(leaves') :
          \/ leaves'[p].id <= height'
          \/ pc' = "mint" /\ leaves'[p].id = next_height' /\ leaves'[p].idx < i' - 1
    <3>1. \A p \in RewardsOf(leaves) :
            \/ leaves'[p].id <= height'
            \/ leaves'[p].id = next_height' /\ leaves'[p].idx < i' - 1
      <4> SUFFICES ASSUME NEW p \in RewardsOf(leaves)
                   PROVE  \/ leaves'[p].id <= height'
                          \/ leaves'[p].id = next_height' /\ leaves'[p].idx < i' - 1
        OBVIOUS
      <4>1. leaves'[p] = leaves[p] /\ height' = height /\ next_height' = next_height
        BY <2>1, <2>6
      <4>2. CASE leaves[p].id <= height
        BY <4>1, <4>2
      <4>3. CASE leaves[p].id = next_height /\ leaves[p].idx < i - 1
        <5>1. i' - 1 = i
          BY <2>1, <2>3
        <5>2. leaves[p].idx < i
          BY <4>3, <2>3, <2>8
        <5> QED
          BY <4>1, <4>3, <5>1, <5>2
      <4> QED
        BY <2>8, <4>2, <4>3
    <3>2. leaves'[n].id = next_height' /\ leaves'[n].idx < i' - 1
      BY <2>1, <2>3, <2>4, <2>6
    <3> QED
      BY <2>1, <2>6, <3>1, <3>2
  <2>10. ASSUME NEW p \in RewardsOf(leaves) PROVE leaves[p] # r
    <3>1. CASE leaves[p].id <= height
      BY <3>1, <2>2, <2>4
    <3>2. CASE leaves[p].id = next_height /\ leaves[p].idx < i - 1
      BY <3>2, <2>3, <2>4, <2>8
    <3> QED
      BY <2>8, <3>1, <3>2
  <2>11. \A p, q \in RewardsOf(leaves') : leaves'[p] = leaves'[q] => p = q
    BY <2>6, <2>10 DEF BackedInv
  <2> QED
    BY <2>7, <2>9, <2>11 DEF BackedInv
<1>3. CASE SealCheckpoint
  <2>1. /\ leaves' = leaves /\ supply' = supply /\ pc = "mint"
        /\ height' = next_height
    BY <1>3 DEF SealCheckpoint
  <2>2. height \in Nat /\ next_height = height + 1
    BY <2>1, HeightHere
  <2>3. \A p \in RewardsOf(leaves) : leaves[p].id \in Nat
    <3>1. \A p \in RewardsOf(leaves) : leaves[p] \in Leaf
      BY CallTyped, LenProperties, ElementOfSeq DEF RewardsOf
    <3> QED
      BY <3>1 DEF Leaf
  <2>4. \A p \in RewardsOf(leaves) : leaves[p].id <= height'
    BY <2>1, <2>2, <2>3 DEF BackedInv
  <2> QED
    BY <2>1, <2>4 DEF BackedInv
<1>4. CASE leaves' = leaves /\ supply' = supply /\ height' = height /\ pc # "mint"
  BY <1>4 DEF BackedInv
<1>5. CASE UNCHANGED vars
  BY <1>5 DEF vars, ledger, locals, BackedInv, next_height
<1> QED
  BY <1>1, <1>2, <1>3, <1>4, <1>5
  DEF Next, Step, Quiesce, Begin, Scanning, RejectTx, AcceptTx, ledger

(* What is offered and staged never is a reward, in any reachable state.   *)
LEMMA OutputsOnlyInvariant == Spec => []OutputsOnly
<1>1. Init => OutputsOnly
  BY DEF Init, OutputsOnly
<1> QED
  BY <1>1, OutputsOnlyStep, TypeInvariant, PTL DEF Spec

(* At genesis there are no rewards.                                        *)
LEMMA BackedInit == Init => BackedInv
<1> SUFFICES ASSUME Init PROVE BackedInv
  OBVIOUS
<1>1. leaves = Genesis /\ supply = GenesisSupply
  BY DEF Init
<1>2. RewardsOf(leaves) = {}
  BY <1>1, SourceAssumption DEF RewardsOf
<1>3. RewardTotal(leaves) = 0
  <2> DEFINE f == [p \in RewardsOf(leaves) |-> leaves[p].value]
  <2>1. DOMAIN f = {}
    BY <1>2
  <2>2. SumFunctionOnSet(f, {}) = 0
    BY SumEmpty
  <2> QED
    BY <2>1, <2>2 DEF RewardTotal, SumFunction
<1> QED
  BY <1>1, <1>2, <1>3, GenesisAssumption DEF BackedInv

(* At every step, also inside a call, the supply is the genesis allocation *)
(* plus the values of the reward notes in the tree, and no two reward      *)
(* notes have the same commitment, as long as a validator's index fits in  *)
(* the byte that rho_mint takes.                                           *)
THEOREM SupplyBackedByLeavesHolds ==
  ASSUME Len(Weights) <= 256
  PROVE  Spec => []SupplyBackedByLeaves
<1>1. BackedInv => SupplyBackedByLeaves
  BY DEF BackedInv, SupplyBackedByLeaves, RewardTotal, RewardsOf
<1>2. TypeInv /\ OutputsOnly /\ BackedInv /\ [Next]_vars => BackedInv'
  BY BackedInvStep
<1> QED
  BY <1>1, <1>2, BackedInit, OutputsOnlyInvariant, TypeInvariant, PTL DEF Spec

-----------------------------------------------------------------------------
(* What the schedule issues at each height, and what this call has minted  *)
(* of it.                                                                  *)
Issued == [h \in 1..MaxHeight |-> EmissionAt(h)]

MintedNow ==
    IF pc = "mint" THEN SumFunctionOnSet(Shares[next_height], 1..(i - 1)) ELSE 0

(* The supply is the genesis allocation, the emission of every sealed      *)
(* height, and the shares of this height that are minted already.          *)
IssuedInv ==
    /\ supply = GenesisSupply + SumFunctionOnSet(Issued, 1..height) + MintedNow
    /\ pc = "mint" => i <= Len(Shares[next_height]) + 1

(* The emission up to a height is a natural number, and the next height    *)
(* adds its own.                                                           *)
LEMMA IssuedNext ==
  ASSUME NEW m \in Nat, m < MaxHeight
  PROVE  /\ SumFunctionOnSet(Issued, 1..m) \in Nat
         /\ SumFunctionOnSet(Issued, 1..(m + 1))
              = SumFunctionOnSet(Issued, 1..m) + EmissionAt(m + 1)
<1> DEFINE f == Issued
           n == m + 1
<1>1. n \in 1..MaxHeight /\ n = m + 1 /\ n \in Nat
  BY BoundsAssumption
<1>2. \A k \in 1..n : f[k] = EmissionAt(k) /\ EmissionAt(k) \in Nat
  <2> SUFFICES ASSUME NEW k \in 1..n PROVE f[k] = EmissionAt(k) /\ EmissionAt(k) \in Nat
    OBVIOUS
  <2>1. k \in Nat /\ k \in 1..MaxHeight
    BY <1>1, BoundsAssumption
  <2>2. EmissionAt(k) \in Nat
    BY <2>1, EmissionNat
  <2> QED
    BY <2>1, <2>2 DEF Issued
<1>3. f[n] = EmissionAt(n)
  BY <1>1, <1>2
<1> HIDE DEF f
<1>4. /\ SumFunctionOnSet(f, 1..m) \in Nat
      /\ SumFunctionOnSet(f, 1..(m + 1)) = SumFunctionOnSet(f, 1..m) + f[m + 1]
  <2>1. \A k \in 1..(m + 1) : f[k] \in Nat
    BY <1>2
  <2> QED
    BY ONLY <2>1, m \in Nat, SumNext, Zenon
<1> QED
  BY <1>3, <1>4 DEF f

(* Minting one share adds it to what this call has minted.                 *)
LEMMA MintedNext ==
  ASSUME NEW s \in Seq(Nat), NEW k \in Nat \ {0}, k <= Len(s)
  PROVE  /\ s[k] \in Nat
         /\ SumFunctionOnSet(s, 1..(k - 1)) \in Nat
         /\ SumFunctionOnSet(s, 1..k) = SumFunctionOnSet(s, 1..(k - 1)) + s[k]
<1> DEFINE m == k - 1
<1>1. m \in Nat /\ m + 1 = k
  OBVIOUS
<1>2. \A j \in 1..k : s[j] \in Nat
  BY LenProperties, ElementOfSeq
<1> HIDE DEF m
<1>3. \A j \in 1..(m + 1) : s[j] \in Nat
  BY <1>1, <1>2
<1>4. /\ SumFunctionOnSet(s, 1..m) \in Nat
      /\ SumFunctionOnSet(s, 1..(m + 1)) = SumFunctionOnSet(s, 1..m) + s[m + 1]
  BY ONLY <1>1, <1>3, SumNext, Zenon
<1>5. s[k] \in Nat
  BY <1>2
<1> QED
  BY <1>1, <1>4, <1>5 DEF m

(* Every step preserves IssuedInv when there is a validator to pay.        *)
LEMMA IssuedInvStep ==
  ASSUME SumFunction(Weights) # 0
  PROVE  TypeInv /\ IssuedInv /\ [Next]_vars => IssuedInv'
<1> SUFFICES ASSUME TypeInv, IssuedInv, [Next]_vars PROVE IssuedInv'
  OBVIOUS
<1>1. CASE CommitStaged
  <2>1. /\ pc = "scan" /\ pc' = "mint" /\ i' = 1 /\ i' - 1 = 0
        /\ supply' = supply /\ height' = height /\ next_height' = next_height
    BY <1>1 DEF CommitStaged, next_height
  <2>2. MintedNow = 0 /\ MintedNow' = 0
    <3>1. 1..(i' - 1) = {}
      BY <2>1
    <3>2. SumFunctionOnSet(Shares[next_height'], {}) = 0
      BY SumEmpty
    <3> QED
      BY <2>1, <3>1, <3>2 DEF MintedNow
  <2>3. Len(Shares[next_height]) \in Nat
    BY <2>1, SharesHere
  <2> QED
    BY <2>1, <2>2, <2>3 DEF IssuedInv
<1>2. CASE MintReward
  <2> DEFINE s == Shares[next_height]
             E == SumFunctionOnSet(Issued, 1..height)
             M == SumFunctionOnSet(s, 1..(i - 1))
             N == SumFunctionOnSet(s, 1..i)
             v == s[i]
  <2>1. /\ height' = height /\ supply' = supply + v
        /\ next_height' = next_height /\ pc = "mint" /\ pc' = "mint"
        /\ i' = i + 1 /\ i <= Len(s)
    BY <1>2 DEF MintReward, next_height
  <2>2. height \in Nat /\ height < MaxHeight
    BY <2>1, HeightHere, BoundsAssumption
  <2>3. i \in Nat \ {0} /\ s \in Seq(Nat) /\ Len(s) \in Nat
    BY <2>1, CallTyped, SharesHere
  <2>4. E \in Nat
    BY <2>2, IssuedNext
  <2>5. v \in Nat /\ M \in Nat /\ N = M + v
    BY ONLY <2>1, <2>3, MintedNext, Zenon
  <2>6. i' - 1 = i
    BY <2>1, <2>3
  <2>7. MintedNow = M /\ MintedNow' = N
    BY <2>1, <2>6 DEF MintedNow
  <2>8. E' = E
    BY <2>1 DEF Issued
  <2>9. supply = GenesisSupply + E + M
    BY <2>7 DEF IssuedInv
  <2> HIDE DEF E, M, N, v, s
  <2>10. supply' = GenesisSupply + E + N
    BY <2>1, <2>4, <2>5, <2>9, GenesisAssumption
  <2>11. i' <= Len(s) + 1
    BY <2>1, <2>3
  <2> QED
    BY <2>1, <2>7, <2>8, <2>10, <2>11 DEF IssuedInv, E, s
<1>3. CASE SealCheckpoint
  <2> DEFINE s == Shares[next_height]
             E == SumFunctionOnSet(Issued, 1..height)
             F == SumFunctionOnSet(Issued, 1..(height + 1))
             e == EmissionAt(height + 1)
  <2>1. /\ height' = next_height /\ supply' = supply /\ pc = "mint" /\ pc' = "idle"
        /\ i > Len(s)
    BY <1>3 DEF SealCheckpoint
  <2>2. height \in Nat /\ height < MaxHeight /\ next_height \in 1..MaxHeight
        /\ next_height = height + 1
    BY <2>1, HeightHere, BoundsAssumption
  <2>3. E \in Nat /\ F = E + e
    BY ONLY <2>2, IssuedNext, Zenon
  <2>4. MintedNow = e
    <3>1. i \in Nat /\ Len(s) \in Nat
      BY <2>1, CallTyped, SharesHere
    <3>2. i - 1 = Len(s)
      BY <2>1, <3>1 DEF IssuedInv
    <3>3. SumFunctionOnSet(s, 1..Len(s)) = EmissionAt(next_height)
      BY <2>2, SharesFacts
    <3> QED
      BY <2>1, <2>2, <3>2, <3>3 DEF MintedNow
  <2>5. e \in Nat
    BY <2>2, EmissionNat
  <2>6. supply = GenesisSupply + E + e
    BY <2>4 DEF IssuedInv
  <2>7. MintedNow' = 0
    BY <2>1 DEF MintedNow
  <2>8. SumFunctionOnSet(Issued, 1..height)' = F
    BY <2>1, <2>2 DEF Issued
  <2> HIDE DEF E, F, e, s
  <2>9. supply' = GenesisSupply + F + 0
    BY <2>1, <2>3, <2>5, <2>6, GenesisAssumption
  <2> QED
    BY <2>1, <2>7, <2>8, <2>9 DEF IssuedInv
<1>4. CASE supply' = supply /\ height' = height /\ pc # "mint" /\ pc' # "mint"
  BY <1>4 DEF IssuedInv, MintedNow, Issued
<1>5. CASE UNCHANGED vars
  BY <1>5 DEF vars, ledger, locals, IssuedInv, MintedNow, Issued, next_height
<1> QED
  BY <1>1, <1>2, <1>3, <1>4, <1>5
  DEF Next, Step, Quiesce, Begin, Scanning, RejectTx, AcceptTx, ledger

(* Between calls the audit passes, for every schedule, every descriptor    *)
(* with a positive total weight and every history of accepted and rejected *)
(* transactions.                                                           *)
THEOREM SupplyAuditsHolds ==
  ASSUME SumFunction(Weights) # 0
  PROVE  Spec => []SupplyAudits
<1>1. Init => IssuedInv
  <2> SUFFICES ASSUME Init PROVE IssuedInv
    OBVIOUS
  <2>1. supply = GenesisSupply /\ height = 0 /\ pc = "idle" /\ 1..height = {}
    BY DEF Init
  <2>2. SumFunctionOnSet(Issued, {}) = 0
    BY SumEmpty
  <2> QED
    BY <2>1, <2>2, GenesisAssumption DEF IssuedInv, MintedNow
<1>2. TypeInv /\ IssuedInv => SupplyAudits
  <2> SUFFICES ASSUME TypeInv, IssuedInv, pc = "idle" PROVE AuditSupply
    BY DEF SupplyAudits
  <2> DEFINE D == 1..height
             f == [h \in D |-> EmissionAt(h)]
             g == Issued
  <2>1. height \in Nat /\ height <= MaxHeight
    BY BoundsAssumption DEF TypeInv, TypeOK
  <2>2. IsFiniteSet(D)
    BY <2>1, FS_Interval
  <2>3. ASSUME NEW x \in D PROVE f[x] \in Nat /\ f[x] = g[x]
    <3>1. x \in Nat /\ x \in 1..MaxHeight
      BY <2>1, BoundsAssumption
    <3>2. EmissionAt(x) \in Nat
      BY <3>1, EmissionNat
    <3> QED
      BY <3>1, <3>2 DEF Issued
  <2>4. DOMAIN f = D
    OBVIOUS
  <2> HIDE DEF f, g, D
  <2>5. SumFunctionOnSet(f, D) = SumFunctionOnSet(g, D)
    BY ONLY <2>2, <2>3, SumSame
  <2>6. SumFunction(f) = SumFunctionOnSet(Issued, D)
    BY <2>4, <2>5 DEF SumFunction, g
  <2>7. D = 1..height
    BY DEF D
  <2>8. supply = GenesisSupply + SumFunctionOnSet(Issued, D) + 0
    BY <2>7 DEF IssuedInv, MintedNow
  <2>9. SumFunctionOnSet(g, D) \in Nat
    <3>1. \A x \in D : g[x] \in Nat
      BY <2>3
    <3> QED
      BY ONLY <2>2, <3>1, SumNat
  <2>10. supply = GenesisSupply + SumFunction(f)
    BY <2>6, <2>8, <2>9, GenesisAssumption DEF g
  <2> QED
    BY <2>10 DEF AuditSupply, f, D
<1>3. TypeInv /\ IssuedInv /\ [Next]_vars => IssuedInv'
  BY IssuedInvStep
<1> QED
  BY <1>1, <1>2, <1>3, TypeInvariant, PTL DEF Spec

-----------------------------------------------------------------------------
(* The ledger keeps its contract, whatever the constants: the scan of      *)
(* apply_checkpoint, which judges one transaction after the other against  *)
(* what it has staged, accepts precisely the winners of the batch, and the *)
(* call as a whole is the contract's one step.                             *)

(* During the scan the ledger is still the settled one, and what is staged *)
(* and entered in the registry comes from the winners so far.              *)
ScanSettles ==
    LET R == DOMAIN rejected
        n == i - 1
    IN  /\ leaves = settled.tree /\ supply = settled.supply
        /\ nullifiers = settled.spent
        /\ seen_this_checkpoint = SpentOf(ordered, Won(n, R))
        /\ DOMAIN quota = settled.slots \cup SlotsOf(ordered, Won(n, R))
        /\ staged_cm = OutputsOf(ordered, n, R)
        /\ Decided(ordered, n, R, settled.spent, settled.slots, roots)

(* While minting, the winners are in, and i - 1 rewards.                   *)
MintSettles ==
    LET R == DOMAIN rejected
        n == Len(ordered)
    IN  /\ nullifiers = settled.spent \cup SpentOf(ordered, Won(n, R))
        /\ DOMAIN quota = settled.slots \cup SlotsOf(ordered, Won(n, R))
        /\ leaves = settled.tree \o OutputsOf(ordered, n, R)
                      \o [j \in 1..(i - 1) |-> RewardLeaf(next_height, j)]
        /\ supply = settled.supply + SumFunctionOnSet(Shares[next_height], 1..(i - 1))
        /\ Decided(ordered, n, R, settled.spent, settled.slots, roots)

SettleInv ==
    /\ settled \in [tree : Seq(Leaf), spent : SUBSET Nat, slots : SUBSET (Nat \X Nat), supply : Nat]
    /\ pc = "idle" => settled = View
    /\ pc = "scan" => ScanSettles
    /\ pc = "mint" => MintSettles

-----------------------------------------------------------------------------
(* The deque holds precisely the anchors that the contract lets be spent.  *)
LEMMA WindowIsSpendable ==
  ASSUME TypeInv, RootInv, NEW a \in Anchor
  PROVE  AnchorValid(anchors, a) <=>
            /\ a.height < Len(roots) /\ Len(roots) <= a.height + ANCHOR_WINDOW
            /\ a.root = roots[a.height + 1]
<1> DEFINE first == SaturatingSub(next_height, ANCHOR_WINDOW)
<1>1. /\ height \in Nat /\ next_height = height + 1 /\ first \in Nat /\ first < next_height
      /\ next_height <= first + ANCHOR_WINDOW
      /\ anchors \in Seq(Anchor) /\ Len(anchors) = next_height - first
      /\ DOMAIN anchors = 1..Len(anchors)
      /\ \A k \in 1..Len(anchors) : anchors[k].height = first + k - 1
      /\ Len(roots) = next_height
  BY WindowFacts
<1>2. first >= next_height - ANCHOR_WINDOW /\ (first = 0 \/ first = next_height - ANCHOR_WINDOW)
  BY <1>1, WindowAssumption DEF SaturatingSub
<1> HIDE DEF first
<1>3. \A k \in 1..Len(anchors) : anchors[k].root = roots[anchors[k].height + 1]
  BY DEF RootInv
<1>4. ASSUME AnchorValid(anchors, a)
      PROVE  /\ a.height < Len(roots) /\ Len(roots) <= a.height + ANCHOR_WINDOW
             /\ a.root = roots[a.height + 1]
  <2>1. PICK k \in 1..Len(anchors) : anchors[k] = a
    BY <1>4, <1>1 DEF AnchorValid
  <2>2. a.height = first + k - 1 /\ a.root = roots[a.height + 1]
    BY <2>1, <1>1, <1>3
  <2> QED BY <2>1, <2>2, <1>1, <1>2, WindowAssumption
<1>5. ASSUME a.height < Len(roots), Len(roots) <= a.height + ANCHOR_WINDOW,
             a.root = roots[a.height + 1]
      PROVE  AnchorValid(anchors, a)
  <2> DEFINE h == a.height
             k == h - first + 1
  <2>1. h \in Nat
    BY DEF Anchor
  <2>2. h >= first
    BY <2>1, <1>1, <1>2, <1>5, WindowAssumption
  <2>3. k \in 1..Len(anchors) /\ first + k - 1 = h
    BY <2>1, <2>2, <1>1, <1>5
  <2> HIDE DEF k
  <2>4. anchors[k].height = h /\ anchors[k].root = roots[h + 1] /\ anchors[k] \in Anchor
    BY <2>3, <1>1, <1>3
  <2>5. anchors[k] = a
    BY <2>4, <1>5 DEF Anchor
  <2> QED BY <2>3, <2>5, <1>1 DEF AnchorValid
<1> QED BY <1>4, <1>5

(* The verdict on the transaction at hand is Accepted precisely if it wins *)
(* against what came before it.                                            *)
LEMMA VerdictHereWins ==
  ASSUME TypeInv, RootInv, Scanning, ScanSettles
  PROVE  VerdictHere = "Accepted" <=>
            Wins(i, ordered, Won(i - 1, DOMAIN rejected), settled.spent, settled.slots, roots)
<1> DEFINE W == Won(i - 1, DOMAIN rejected)
           sp == settled.spent
           sl == settled.slots
<1>1. ordered[i] \in Tx /\ i \in Nat \ {0}
  BY HereTyped, CallTyped DEF TypeInv
<1>2. \A j \in W : j < i
  BY <1>1 DEF Won
<1>3. /\ nullifiers = sp /\ seen_this_checkpoint = SpentOf(ordered, W)
      /\ DOMAIN quota = sl \cup SlotsOf(ordered, W)
  BY DEF ScanSettles
<1>4. Len(roots) = next_height
  BY WindowFacts
<1>5. HoldsWindow(anchors, roots)
  BY WindowIsSpendable DEF HoldsWindow
<1> HIDE DEF W, sp, sl
<1>6. Verdict(ordered[i], anchors, sp, seen_this_checkpoint, quota, Len(roots)) = "Accepted"
        <=> Wins(i, ordered, W, sp, sl, roots)
  BY <1>1, <1>2, <1>3, <1>5, VerdictWins
<1> QED BY <1>3, <1>4, <1>6 DEF VerdictHere, W, sp, sl

-----------------------------------------------------------------------------
(* Until it ends, a call leaves the settled ledger and the roots alone.    *)
LEMMA SettledStays ==
  ASSUME RNext, pc' # "idle"
  PROVE  settled' = settled /\ roots' = roots /\ next_height' = next_height
<1>1. ~SealCheckpoint /\ settled' = settled /\ [Next]_vars
  BY DEF RNext, SealCheckpoint
<1> QED BY <1>1, OnlySealMoves DEF next_height

(* What has been rejected so far is among what has been judged.            *)
LEMMA JudgedSoFar ==
  ASSUME TypeInv, CallInv, pc = "scan"
  PROVE  /\ i - 1 \in Nat /\ (i - 1) + 1 = i /\ i - 1 <= Len(ordered)
         /\ DOMAIN rejected \in SUBSET (1..(i - 1))
<1>1. i \in Nat \ {0} /\ Len(ordered) \in Nat
  BY CallTyped
<1>2. i <= Len(ordered) + 1 /\ DOMAIN rejected \subseteq 1..(i - 1)
  BY DEF CallInv, ScanInv
<1> QED BY ONLY <1>1, <1>2

(* A call begins on the ledger as it was settled.                          *)
LEMMA BeginSettles ==
  ASSUME TypeInv, SettleInv, RNext, NEW txs \in Batches(roots), Begin(txs)
  PROVE  SettleInv'
<1>1. /\ pc = "idle" /\ pc' = "scan" /\ i' = 1 /\ ordered' = txs
      /\ rejected' = << >> /\ seen_this_checkpoint' = {} /\ staged_cm' = << >>
      /\ leaves' = leaves /\ supply' = supply /\ nullifiers' = nullifiers /\ quota' = quota
  BY DEF Begin, ledger
<1>2. settled' = settled /\ roots' = roots
  BY <1>1, SettledStays
<1>3. settled = View
  BY <1>1 DEF SettleInv
<1>4. DOMAIN rejected' = {} /\ i' - 1 = 0
  BY <1>1
<1>5. OutputsOf(ordered', 0, {}) = << >>
  <2> DEFINE s == [k \in 1..0 |-> IF k \in {} THEN << >> ELSE ordered'[k].commitments]
  <2>1. s = << >> /\ Len(s) = 0
    OBVIOUS
  <2> HIDE DEF s
  <2>2. FlattenSeq(s) = << >>
    BY <2>1, FlattenNone
  <2> QED BY <2>2 DEF s, OutputsOf
<1>6. /\ Won(0, {}) = {} /\ SpentOf(ordered', {}) = {} /\ SlotsOf(ordered', {}) = {}
      /\ Decided(ordered', 0, {}, settled'.spent, settled'.slots, roots')
  BY WonNone
<1>7. /\ leaves' = settled'.tree /\ supply' = settled'.supply
      /\ nullifiers' = settled'.spent /\ DOMAIN quota' = settled'.slots
  BY <1>1, <1>2, <1>3 DEF View
<1>8. ScanSettles'
  BY <1>1, <1>4, <1>5, <1>6, <1>7 DEF ScanSettles
<1> QED BY <1>1, <1>2, <1>8 DEF SettleInv

(* A rejected transaction is no winner.                                    *)
LEMMA RejectSettles ==
  ASSUME TypeInv, RootInv, CallInv, SettleInv, RNext, RejectTx
  PROVE  SettleInv'
<1> DEFINE R == DOMAIN rejected
           n == i - 1
<1>1. /\ pc = "scan" /\ pc' = "scan" /\ Scanning /\ VerdictHere # "Accepted"
      /\ DOMAIN rejected' = R \cup {i} /\ i' = i + 1
      /\ UNCHANGED <<ordered, seen_this_checkpoint, staged_cm, leaves, supply, nullifiers, quota>>
  BY DEF RejectTx, Scanning, ledger
<1>2. settled' = settled /\ roots' = roots
  BY <1>1, SettledStays
<1>3. n \in Nat /\ n + 1 = i /\ R \in SUBSET (1..n) /\ n < Len(ordered) /\ ordered \in Seq(Tx)
  BY <1>1, JudgedSoFar, CallTyped DEF Scanning
<1>4. ScanSettles
  BY <1>1 DEF SettleInv
<1>5. ~Wins(i, ordered, Won(n, R), settled.spent, settled.slots, roots)
  BY <1>1, <1>4, VerdictHereWins
<1>6. i' - 1 = n + 1 /\ DOMAIN rejected' = R \cup {n + 1}
  BY <1>1, <1>3
<1>7. Decided(ordered, n, R, settled.spent, settled.slots, roots)
  BY <1>4 DEF ScanSettles
<1>8. /\ seen_this_checkpoint = SpentOf(ordered, Won(n, R))
      /\ DOMAIN quota = settled.slots \cup SlotsOf(ordered, Won(n, R))
      /\ staged_cm = OutputsOf(ordered, n, R)
      /\ leaves = settled.tree /\ supply = settled.supply /\ nullifiers = settled.spent
  BY <1>4 DEF ScanSettles
<1> HIDE DEF R, n
<1>9. Decided(ordered, n + 1, R \cup {n + 1}, settled.spent, settled.slots, roots)
  BY <1>3, <1>5, <1>7, DecidedNext
<1>10. Won(n + 1, R \cup {n + 1}) = Won(n, R)
  BY <1>3, WonNext
<1>11. OutputsOf(ordered, n + 1, R \cup {n + 1}) = OutputsOf(ordered, n, R)
  BY <1>3, OutputsNext
<1>12. ScanSettles'
  BY <1>1, <1>2, <1>6, <1>8, <1>9, <1>10, <1>11 DEF ScanSettles
<1> QED BY <1>1, <1>2, <1>12 DEF SettleInv

(* An accepted transaction is one, and what it stages is a winner's.       *)
LEMMA AcceptSettles ==
  ASSUME TypeInv, RootInv, CallInv, SettleInv, RNext, AcceptTx
  PROVE  SettleInv'
<1> DEFINE R == DOMAIN rejected
           n == i - 1
           tx == ordered[i]
<1>1. /\ pc = "scan" /\ pc' = "scan" /\ Scanning /\ VerdictHere = "Accepted" /\ i' = i + 1
      /\ quota' = RegistryAfter(quota, tx)
      /\ seen_this_checkpoint' = seen_this_checkpoint \cup Nfs(tx)
      /\ staged_cm' = staged_cm \o tx.commitments
      /\ UNCHANGED <<ordered, rejected, leaves, supply, nullifiers>>
  BY DEF AcceptTx, Scanning
<1>2. settled' = settled /\ roots' = roots
  BY <1>1, SettledStays
<1>3. n \in Nat /\ n + 1 = i /\ R \in SUBSET (1..n) /\ n < Len(ordered) /\ ordered \in Seq(Tx)
  BY <1>1, JudgedSoFar, CallTyped DEF Scanning
<1>4. ScanSettles
  BY <1>1 DEF SettleInv
<1>5. Wins(i, ordered, Won(n, R), settled.spent, settled.slots, roots)
  BY <1>1, <1>4, VerdictHereWins
<1>6. i' - 1 = n + 1 /\ DOMAIN rejected' = R
  BY <1>1, <1>3
<1>7. Decided(ordered, n, R, settled.spent, settled.slots, roots)
  BY <1>4 DEF ScanSettles
<1>8. /\ seen_this_checkpoint = SpentOf(ordered, Won(n, R))
      /\ DOMAIN quota = settled.slots \cup SlotsOf(ordered, Won(n, R))
      /\ staged_cm = OutputsOf(ordered, n, R)
      /\ leaves = settled.tree /\ supply = settled.supply /\ nullifiers = settled.spent
  BY <1>4 DEF ScanSettles
<1> DEFINE lane == tx.antispam.lane
<1>9. DOMAIN quota' = IF lane = "quota" THEN DOMAIN quota \cup {Slot(tx)} ELSE DOMAIN quota
  BY <1>1 DEF RegistryAfter, WithSlot
<1>10. ordered[n + 1] = tx
  BY <1>3
<1> HIDE DEF R, n, tx, lane
<1>11. Decided(ordered, n + 1, R, settled.spent, settled.slots, roots)
  BY <1>3, <1>5, <1>7, DecidedNext
<1>12. Won(n + 1, R) = Won(n, R) \cup {n + 1}
  BY <1>3, WonNext
<1>13. OutputsOf(ordered, n + 1, R) = OutputsOf(ordered, n, R) \o tx.commitments
  BY <1>3, <1>10, OutputsNext
<1> DEFINE W == Won(n, R)
           q == n + 1
<1> HIDE DEF W, q
<1>18. SpentOf(ordered, W \cup {q}) = SpentOf(ordered, W) \cup Nfs(ordered[q])
  BY DEF SpentOf
<1>19. ordered[q].antispam.lane = "quota" =>
          SlotsOf(ordered, W \cup {q}) = SlotsOf(ordered, W) \cup {Slot(ordered[q])}
  BY DEF SlotsOf
<1>20. ordered[q].antispam.lane # "quota" => SlotsOf(ordered, W \cup {q}) = SlotsOf(ordered, W)
  BY DEF SlotsOf
<1>14. SpentOf(ordered, Won(n + 1, R)) = SpentOf(ordered, Won(n, R)) \cup Nfs(tx)
  BY ONLY <1>10, <1>12, <1>18, Zenon DEF W, q
<1>15. SlotsOf(ordered, Won(n + 1, R)) =
         IF lane = "quota" THEN SlotsOf(ordered, Won(n, R)) \cup {Slot(tx)}
                           ELSE SlotsOf(ordered, Won(n, R))
  BY ONLY <1>10, <1>12, <1>19, <1>20, Zenon DEF W, q, lane
<1>16. DOMAIN quota' = settled.slots \cup SlotsOf(ordered, Won(n + 1, R))
  BY <1>8, <1>9, <1>15
<1>17. ScanSettles'
  BY <1>1, <1>2, <1>6, <1>8, <1>11, <1>13, <1>14, <1>16 DEF ScanSettles
<1> QED BY <1>1, <1>2, <1>17 DEF SettleInv

(* The scan is over: the winners are in the ledger.                        *)
LEMMA CommitSettles ==
  ASSUME TypeInv, CallInv, SettleInv, RNext, CommitStaged
  PROVE  SettleInv'
<1> DEFINE R == DOMAIN rejected
           n == Len(ordered)
           out == OutputsOf(ordered, n, R)
<1>1. /\ pc = "scan" /\ pc' = "mint" /\ i > n /\ i' = 1
      /\ nullifiers' = nullifiers \cup seen_this_checkpoint
      /\ leaves' = leaves \o staged_cm
      /\ UNCHANGED <<quota, supply, ordered, rejected>>
  BY DEF CommitStaged
<1>2. settled' = settled /\ roots' = roots
  BY <1>1, SettledStays
<1>3. i - 1 = n
  BY <1>1, JudgedSoFar, CallTyped
<1>4. ScanSettles
  BY <1>1 DEF SettleInv
<1>5. /\ seen_this_checkpoint = SpentOf(ordered, Won(n, R))
      /\ DOMAIN quota = settled.slots \cup SlotsOf(ordered, Won(n, R))
      /\ staged_cm = out /\ Decided(ordered, n, R, settled.spent, settled.slots, roots)
      /\ leaves = settled.tree /\ supply = settled.supply /\ nullifiers = settled.spent
  BY <1>3, <1>4 DEF ScanSettles
<1>6. leaves' \in Seq(Leaf) /\ i' - 1 = 0 /\ supply \in Nat
  <2>1. leaves \in Seq(Leaf) /\ staged_cm \in Seq(Leaf)
    BY CallTyped
  <2>2. supply \in Nat
    BY DEF TypeInv, TypeOK
  <2> QED BY <2>1, <2>2, <1>1, ConcatProperties
<1>7. leaves' = settled'.tree \o out \o [j \in 1..(i' - 1) |-> RewardLeaf(next_height', j)]
  <2>1. leaves' = settled'.tree \o out
    BY <1>1, <1>2, <1>5
  <2>2. leaves' \o << >> = leaves'
    BY <1>6, ConcatEmptySeq
  <2>3. [j \in 1..(i' - 1) |-> RewardLeaf(next_height', j)] = << >>
    BY <1>6
  <2> QED BY ONLY <2>1, <2>2, <2>3, Zenon
<1>8. supply' = settled'.supply + SumFunctionOnSet(Shares[next_height'], 1..(i' - 1))
  <2>1. 1..(i' - 1) = {}
    BY <1>6
  <2>2. SumFunctionOnSet(Shares[next_height'], 1..(i' - 1)) = 0
    BY <2>1, SumEmpty
  <2> QED BY <2>2, <1>1, <1>2, <1>5, <1>6
<1>9. MintSettles'
  BY <1>1, <1>2, <1>5, <1>7, <1>8 DEF MintSettles
<1> QED BY <1>1, <1>2, <1>9 DEF SettleInv

(* One reward more is in the tree and in the supply.                       *)
LEMMA MintSettlesOne ==
  ASSUME TypeInv, SettleInv, RNext, MintReward
  PROVE  SettleInv'
<1> DEFINE h == next_height
           r(n) == [j \in 1..n |-> RewardLeaf(h, j)]
           n == i - 1
           body == settled.tree \o OutputsOf(ordered, Len(ordered), DOMAIN rejected)
<1>1. /\ pc = "mint" /\ pc' = "mint" /\ i <= Len(Shares[h]) /\ i' = i + 1
      /\ leaves' = Append(leaves, RewardLeaf(h, i))
      /\ supply' = supply + Shares[h][i]
      /\ UNCHANGED <<nullifiers, quota, ordered, rejected>>
  BY DEF MintReward
<1>2. settled' = settled /\ roots' = roots /\ next_height' = h
  BY <1>1, SettledStays
<1>3. MintSettles
  BY <1>1 DEF SettleInv
<1>4. leaves = body \o r(n) /\ supply = settled.supply + SumFunctionOnSet(Shares[h], 1..n)
  BY <1>3 DEF MintSettles
<1>5. /\ n \in Nat /\ n + 1 = i /\ i' - 1 = n + 1 /\ Shares[h] \in Seq(Nat)
      /\ i \in 1..Len(Shares[h]) /\ h \in Nat
  <2>1. /\ i \in Nat \ {0} /\ h \in Nat /\ Shares[h] \in Seq(Nat) /\ Len(Shares[h]) \in Nat
    BY <1>1, CallTyped, SharesHere
  <2> QED BY <2>1, <1>1
<1>6. \A k \in 1..(n + 1) : Shares[h][k] \in Nat
  BY <1>5, ElementOfSeq
<1>7. supply' = settled'.supply + SumFunctionOnSet(Shares[next_height'], 1..(i' - 1))
  <2> DEFINE f == Shares[h]
             b == settled.supply
  <2>1. \A k \in 1..(n + 1) : f[k] \in Nat
    BY <1>6
  <2>2. supply = b + SumFunctionOnSet(f, 1..n) /\ supply' = supply + f[n + 1] /\ supply \in Nat
    BY <1>1, <1>4, <1>5 DEF TypeInv, TypeOK
  <2>5. b \in Nat
    BY DEF SettleInv
  <2> HIDE DEF f, b, n
  <2>3. /\ SumFunctionOnSet(f, 1..n) \in Nat
        /\ SumFunctionOnSet(f, 1..(n + 1)) = SumFunctionOnSet(f, 1..n) + f[n + 1]
    BY <1>5, <2>1, SumNext
  <2>4. f[n + 1] \in Nat
    BY <2>1, <1>5
  <2>6. supply' = b + SumFunctionOnSet(f, 1..(n + 1))
    BY <2>2, <2>3, <2>4, <2>5
  <2> QED BY <2>6, <1>2, <1>5 DEF f, b
<1>8. leaves' = body \o r(n + 1)
  <2>1. leaves = body \o r(n) /\ leaves \in Seq(Leaf)
    BY <1>4, CallTyped
  <2> DEFINE e == RewardLeaf(h, i)
  <2>2. r(n + 1) = Append(r(n), e)
    BY <1>5
  <2>3. body \in Seq(Leaf)
    <3>1. settled.tree \in Seq(Leaf)
      BY DEF SettleInv
    <3>2. OutputsOf(ordered, Len(ordered), DOMAIN rejected) \in Seq(Leaf)
      BY OutputsTyped, CallTyped
    <3> QED BY <3>1, <3>2, ConcatProperties
  <2> DEFINE t == r(n)
             S == {RewardLeaf(h, j) : j \in 1..n}
  <2>4. t \in Seq(S)
    <3>1. t \in [1..n -> S]
      OBVIOUS
    <3> HIDE DEF t, S
    <3> QED BY <3>1, <1>5
  <2> HIDE DEF body, t, e, S
  <2>5. Append(body \o t, e) = body \o Append(t, e)
    BY <2>3, <2>4
  <2> QED BY <1>1, <2>1, <2>2, <2>5 DEF t, e
<1>9. MintSettles'
  BY <1>1, <1>2, <1>3, <1>5, <1>7, <1>8 DEF MintSettles
<1> QED BY <1>1, <1>2, <1>9 DEF SettleInv

(* The step that ends a call settles it.                                   *)
LEMMA SealSettles ==
  ASSUME TypeInv, RNext, SealCheckpoint
  PROVE  SettleInv'
<1>1. pc' = "idle" /\ settled' = View'
  BY DEF RNext, SealCheckpoint
<1>2. TypeInv'
  BY TypeInvStep DEF RNext
<1>3. View' = [tree |-> leaves', spent |-> nullifiers', slots |-> DOMAIN quota', supply |-> supply']
  BY DEF View
<1>4. /\ leaves' \in Seq(Leaf) /\ nullifiers' \in SUBSET Nat
      /\ DOMAIN quota' \in SUBSET (Nat \X Nat) /\ supply' \in Nat
  BY <1>2 DEF TypeInv, TypeOK
<1>5. settled' \in [tree : Seq(Leaf), spent : SUBSET Nat, slots : SUBSET (Nat \X Nat), supply : Nat]
  BY <1>1, <1>3, <1>4
<1> QED BY <1>1, <1>5 DEF SettleInv

(* Every step preserves SettleInv.                                         *)
LEMMA SettleInvStep ==
  TypeInv /\ RootInv /\ CallInv /\ SettleInv /\ [RNext]_<<vars, settled>> => SettleInv'
<1> SUFFICES ASSUME TypeInv, RootInv, CallInv, SettleInv, [RNext]_<<vars, settled>>
             PROVE  SettleInv'
  OBVIOUS
<1>1. ASSUME RNext, NEW txs \in Batches(roots), Begin(txs) PROVE SettleInv'
  BY <1>1, BeginSettles
<1>2. CASE RNext /\ RejectTx
  BY <1>2, RejectSettles
<1>3. CASE RNext /\ AcceptTx
  BY <1>3, AcceptSettles
<1>4. CASE RNext /\ CommitStaged
  BY <1>4, CommitSettles
<1>5. CASE RNext /\ MintReward
  BY <1>5, MintSettlesOne
<1>6. CASE RNext /\ SealCheckpoint
  BY <1>6, SealSettles
<1>7. ASSUME UNCHANGED vars, settled' = settled \/ (RNext /\ pc = "idle") PROVE SettleInv'
  <2>1. settled' = settled
    BY <1>7 DEF RNext, SettleInv, View, vars, ledger, locals
  <2> QED
    BY <1>7, <2>1 DEF SettleInv, ScanSettles, MintSettles, View, vars, ledger, locals, next_height
<1> QED
  BY <1>1, <1>2, <1>3, <1>4, <1>5, <1>6, <1>7 DEF RNext, Next, Step, Quiesce

-----------------------------------------------------------------------------
(* What the contract says of a batch is what is said of it here.           *)
LEMMA ContractReads ==
  ASSUME NEW W \in SUBSET DOMAIN ordered
  PROVE  /\ Contract!AreWinners(W) <=>
              \A k \in DOMAIN ordered :
                 k \in W <=> Wins(k, ordered, W, settled.spent, settled.slots, roots)
         /\ UNION {Contract!Nfs(ordered[k]) : k \in W} = SpentOf(ordered, W)
         /\ {Contract!Slot(ordered[k]) : k \in {w \in W : Contract!IsQuota(ordered[w])}}
               = SlotsOf(ordered, W)
<1>1. ASSUME NEW tx PROVE /\ Contract!Nfs(tx) = Nfs(tx) /\ Contract!Slot(tx) = Slot(tx)
                          /\ Contract!IsQuota(tx) <=> tx.antispam.lane = "quota"
  BY DEF Contract!Nfs, Nfs, Contract!Slot, Slot, Contract!IsQuota
<1>2. ASSUME NEW tx
      PROVE  Contract!Admissible(tx) <=> CanWin(tx, settled.spent, settled.slots, roots)
  BY <1>1 DEF Contract!Admissible, CanWin, Contract!Spendable, Contract!now,
              Contract!ValidateStateless, ValidateStateless
<1>3. ASSUME NEW s, NEW t PROVE Contract!Compete(s, t) <=> Rivals(s, t)
  BY <1>1 DEF Contract!Compete, Rivals
<1>4. Contract!AreWinners(W) <=>
        \A k \in DOMAIN ordered :
           k \in W <=> Wins(k, ordered, W, settled.spent, settled.slots, roots)
  BY <1>2, <1>3 DEF Contract!AreWinners, Wins
<1>5. UNION {Contract!Nfs(ordered[k]) : k \in W} = SpentOf(ordered, W)
  BY <1>1 DEF SpentOf
<1>6. {Contract!Slot(ordered[k]) : k \in {w \in W : Contract!IsQuota(ordered[w])}}
        = SlotsOf(ordered, W)
  BY <1>1 DEF SlotsOf
<1> QED BY <1>4, <1>5, <1>6

(* The step that ends a call is the contract's one step.                   *)
LEMMA SealIsSettle ==
  ASSUME TypeInv, CallInv, SettleInv, RNext, SealCheckpoint
  PROVE  Contract!Settle
<1> DEFINE R == DOMAIN rejected
           n == Len(ordered)
           W == Won(n, R)
           h == next_height
<1>1. /\ pc = "mint" /\ pc' = "idle" /\ i > Len(Shares[h]) /\ roots' = Append(roots, leaves)
      /\ UNCHANGED <<leaves, nullifiers, quota, supply, ordered>> /\ settled' = View'
  BY DEF SealCheckpoint, RNext
<1>2. MintSettles /\ MintInv
  BY <1>1 DEF SettleInv, CallInv
<1>3. /\ Len(roots) = h /\ h \in 1..MaxHeight /\ Shares[h] \in Seq(Nat) /\ Len(Shares[h]) \in Nat
      /\ i \in Nat \ {0} /\ DOMAIN ordered = 1..n
  <2>1. height \in 0..MaxHeight /\ height < MaxHeight
    BY <1>1 DEF TypeInv, TypeOK
  <2>2. h \in 1..MaxHeight
    BY <2>1, BoundsAssumption DEF next_height
  <2> QED BY <1>1, <2>2, SharesHere, CallTyped
<1>4. i - 1 = Len(Shares[h])
  BY <1>1, <1>2, <1>3 DEF MintInv
<1>5. /\ settled'.tree = leaves /\ settled'.spent = nullifiers
      /\ settled'.slots = DOMAIN quota /\ settled'.supply = supply
  BY <1>1 DEF View
<1>6. W \in SUBSET DOMAIN ordered
  BY <1>3 DEF Won
<1>7. Contract!AreWinners(W)
  <2>1. Decided(ordered, n, R, settled.spent, settled.slots, roots)
    BY <1>2 DEF MintSettles
  <2>2. \A k \in 1..n : k \in W <=> k \notin R
    BY DEF Won
  <2>3. \A k \in DOMAIN ordered :
           k \in W <=> Wins(k, ordered, W, settled.spent, settled.slots, roots)
    <3> HIDE DEF n, R
    <3> QED BY <2>1, <2>2, <1>3 DEF Decided
  <2> HIDE DEF W
  <2> QED BY <2>3, <1>6, ContractReads
<1>8. /\ settled'.spent = settled.spent \cup UNION {Contract!Nfs(ordered[k]) : k \in W}
      /\ settled'.slots = settled.slots \cup
            {Contract!Slot(ordered[k]) : k \in {w \in W : Contract!IsQuota(ordered[w])}}
  <2>1. /\ nullifiers = settled.spent \cup SpentOf(ordered, W)
        /\ DOMAIN quota = settled.slots \cup SlotsOf(ordered, W)
    BY <1>2 DEF MintSettles
  <2> HIDE DEF W
  <2> QED BY <2>1, <1>5, <1>6, ContractReads
<1>9. Contract!Outputs(W) = OutputsOf(ordered, n, R)
  <2>1. [k \in DOMAIN ordered |-> IF k \in W THEN ordered[k].commitments ELSE << >>]
          = [k \in 1..n |-> IF k \in R THEN << >> ELSE ordered[k].commitments]
    BY <1>3 DEF Won
  <2> DEFINE s == [k \in DOMAIN ordered |-> IF k \in W THEN ordered[k].commitments ELSE << >>]
  <2>2. Contract!Outputs(W) = Contract!FlattenSeq(s)
    BY DEF Contract!Outputs
  <2> HIDE DEF s
  <2>3. Contract!FlattenSeq(s) = FlattenSeq(s)
    BY DEF Contract!FlattenSeq, FlattenSeq
  <2> QED BY <2>1, <2>2, <2>3 DEF s, OutputsOf
<1>10. Contract!Rewards(h) = [j \in 1..(i - 1) |-> RewardLeaf(h, j)]
  <2>1. DOMAIN Shares[h] = 1..(i - 1)
    BY <1>3, <1>4
  <2> QED BY <2>1 DEF Contract!Rewards, Contract!RewardLeaf, RewardLeaf
<1>11. settled'.tree = settled.tree \o Contract!Outputs(W) \o Contract!Rewards(h)
  <2>1. leaves = settled.tree \o OutputsOf(ordered, n, R)
                   \o [j \in 1..(i - 1) |-> RewardLeaf(h, j)]
    BY <1>2 DEF MintSettles
  <2> HIDE DEF W, n, R, h
  <2> QED BY ONLY <2>1, <1>5, <1>9, <1>10, Zenon
<1>12. settled'.supply = settled.supply + Contract!SumFunction(Shares[h])
  <2> DEFINE f == Shares[h]
  <2>1. supply = settled.supply + SumFunctionOnSet(f, 1..(i - 1))
    BY <1>2 DEF MintSettles
  <2>2. DOMAIN f = 1..(i - 1)
    BY <1>3, <1>4
  <2> HIDE DEF f
  <2>3. Contract!SumFunction(f) = SumFunctionOnSet(f, DOMAIN f)
    BY DEF Contract!SumFunction, Contract!SumFunctionOnSet, SumFunctionOnSet,
           Contract!FoldFunctionOnSet, FoldFunctionOnSet, Contract!MapThenFoldSet, MapThenFoldSet
  <2> QED BY ONLY <2>1, <2>2, <2>3, <1>5, Zenon DEF f
<1>13. Contract!now = h
  BY <1>3 DEF Contract!now
<1>14. h <= MaxHeight
  BY <1>3
<1>15. roots' = Append(roots, settled'.tree) /\ ordered' = ordered
  BY <1>1, <1>5
<1> HIDE DEF W, h
<1>16. \E V \in SUBSET DOMAIN ordered :
          /\ Contract!AreWinners(V)
          /\ settled'.tree = settled.tree \o Contract!Outputs(V) \o Contract!Rewards(h)
          /\ settled'.spent = settled.spent \cup UNION {Contract!Nfs(ordered[k]) : k \in V}
          /\ settled'.slots = settled.slots \cup
                {Contract!Slot(ordered[k]) : k \in {w \in V : Contract!IsQuota(ordered[w])}}
  BY ONLY <1>6, <1>7, <1>8, <1>11, Zenon
<1> QED
  BY ONLY <1>12, <1>13, <1>14, <1>15, <1>16, Zenon DEF Contract!Settle

(* Every step of the ledger is a step of the contract, or none.            *)
LEMMA StepIsContractStep ==
  TypeInv /\ RootInv /\ CallInv /\ SettleInv /\ [RNext]_<<vars, settled>>
    => [Contract!CNext]_(Contract!cvars)
<1> SUFFICES ASSUME TypeInv, RootInv, CallInv, SettleInv, [RNext]_<<vars, settled>>
             PROVE  Contract!Offer \/ Contract!Settle
                      \/ UNCHANGED <<ordered, settled, roots>>
  BY DEF Contract!CNext, Contract!cvars
<1>1. ASSUME RNext, NEW txs \in Batches(roots), Begin(txs) PROVE Contract!Offer
  <2>1. pc' = "scan" /\ ordered' = txs
    BY <1>1 DEF Begin
  <2>2. settled' = settled /\ roots' = roots
    BY <1>1, <2>1, SettledStays
  <2>3. Contract!Batches(roots) = Batches(roots)
    BY DEF Contract!Batches, Batches, Contract!Submittable, Submittable, Contract!WithAnchor,
           WithAnchor, Contract!ClaimableAnchors, ClaimableAnchors
  <2> QED BY <2>1, <2>2, <2>3 DEF Contract!Offer
<1>2. ASSUME RNext, RejectTx \/ AcceptTx \/ CommitStaged \/ MintReward
      PROVE  UNCHANGED <<ordered, settled, roots>>
  <2>1. pc' # "idle" /\ ordered' = ordered
    BY <1>2 DEF RejectTx, AcceptTx, CommitStaged, MintReward, Scanning
  <2> QED BY <1>2, <2>1, SettledStays
<1>3. CASE RNext /\ SealCheckpoint
  BY <1>3, SealIsSettle
<1>4. ASSUME UNCHANGED vars, settled' = settled \/ (RNext /\ pc = "idle")
      PROVE  UNCHANGED <<ordered, settled, roots>>
  <2>1. settled' = settled
    BY <1>4 DEF RNext, SettleInv, View, vars, ledger, locals
  <2> QED BY <1>4, <2>1 DEF vars, locals
<1> QED
  BY <1>1, <1>2, <1>3, <1>4 DEF RNext, Next, Step, Quiesce

(* Genesis is the contract's initial state.                                *)
LEMMA InitIsContractInit == RInit => SettleInv /\ Contract!CInit
<1> SUFFICES ASSUME RInit PROVE SettleInv /\ Contract!CInit
  OBVIOUS
<1>1. Contract!CInit
  BY DEF RInit, Contract!CInit, Init, View
<1>2. SettleInv
  BY GenesisAssumption DEF RInit, SettleInv, Init, View
<1> QED BY <1>1, <1>2

(* The ledger keeps its contract: every run of it, seen between calls, is  *)
(* a run of LedgerContract, for every window, epoch length, batch size and *)
(* schedule (Ledger::apply_checkpoint against its promise).                *)
THEOREM KeepsContractHolds == RSpec => KeepsContract
<1>1. RInit => TypeInv /\ RootInv /\ CallInv /\ SettleInv /\ Contract!CInit
  BY TypeInvInit, RootInvInit, CallInvInit, InitIsContractInit DEF RInit
<1>2. TypeInv /\ RootInv /\ CallInv /\ SettleInv /\ [RNext]_<<vars, settled>>
        => TypeInv' /\ RootInv' /\ CallInv' /\ SettleInv'
  <2>1. [RNext]_<<vars, settled>> => [Next]_vars
    BY DEF RNext
  <2> QED BY <2>1, TypeInvStep, RootInvStep, CallInvStep, SettleInvStep
<1> QED
  BY <1>1, <1>2, StepIsContractStep, PTL DEF RSpec, KeepsContract, Contract!CSpec
=============================================================================
