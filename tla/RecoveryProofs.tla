--------------------------- MODULE RecoveryProofs ---------------------------
(***************************************************************************)
(* Proofs about the node that crashes, for every window, epoch length,     *)
(* set of bodies, genesis, shares and bounds: a restart mints nothing      *)
(* twice, forgets no spend, finds one snapshot in the store, and is        *)
(* invisible to traffic that does not depend on what it loses.             *)
(***************************************************************************)
EXTENDS Recovery, CheckpointProofs

-----------------------------------------------------------------------------
(* The store.                                                              *)

(* Leaves written at consecutive positions come back as they were.         *)
LEMMA LoadTreeIs ==
  ASSUME NEW st, st.leaves \in Seq(Leaf)
  PROVE  LoadTree(st) = st.leaves
<1> DEFINE t == st.leaves
           n == Len(t)
           rows == DOMAIN t
           row(k) == CHOOSE p \in rows : Cardinality({q \in rows : q < p}) = k - 1
<1>1. n \in Nat /\ rows = 1..n
  BY LenProperties
<1>2. Cardinality(rows) = n
  <2> HIDE DEF n, t
  <2>1. Cardinality(1..n) = n
    BY <1>1, FS_Interval
  <2> QED
    BY <1>1, <2>1
<1>3. ASSUME NEW p \in 1..n PROVE Cardinality({q \in rows : q < p}) = p - 1
  <2> HIDE DEF n, t
  <2>1. {q \in rows : q < p} = 1..(p - 1)
    BY <1>1
  <2> DEFINE m == p - 1
  <2>2. m \in Nat
    BY <1>1
  <2> HIDE DEF m
  <2>3. Cardinality(1..m) = m
    BY <2>2, FS_Interval
  <2> QED
    BY <2>1, <2>3 DEF m
<1>4. ASSUME NEW k \in 1..n PROVE row(k) = k
  <2> HIDE DEF n
  <2> DEFINE c == row(k)
  <2>1. k \in rows /\ Cardinality({q \in rows : q < k}) = k - 1
    BY <1>1, <1>3
  <2>2. c \in rows /\ Cardinality({q \in rows : q < c}) = k - 1
    BY <2>1
  <2> HIDE DEF c
  <2>3. c \in 1..n /\ c - 1 = k - 1
    BY <1>1, <1>3, <2>2
  <2>4. c = k
    BY <1>1, <2>3
  <2> QED
    BY <2>4 DEF c
<1>5. LoadTree(st) = [k \in 1..n |-> t[row(k)]]
  BY <1>2 DEF LoadTree
<1>6. t = [k \in 1..n |-> t[k]]
  BY <1>1
<1> HIDE DEF row, t, n, rows
<1>7. [k \in 1..n |-> t[row(k)]] = [k \in 1..n |-> t[k]]
  BY <1>4
<1> QED
  BY <1>5, <1>6, <1>7 DEF t

(* Writing a tree over a shorter one leaves the longer.                    *)
LEMMA PersistedIs ==
  ASSUME NEW st, NEW L, st.leaves \in Seq(Leaf), L.leaves \in Seq(Leaf),
         Len(st.leaves) <= Len(L.leaves), st.nullifiers \subseteq L.nullifiers
  PROVE  LET w == Persisted(st, L)
         IN  /\ w.leaves = L.leaves /\ w.nullifiers = L.nullifiers
             /\ w.meta = {[height |-> L.height, supply |-> L.supply]}
<1> DEFINE a == st.leaves
           b == L.leaves
           w == [p \in DOMAIN a \cup DOMAIN b |-> IF p \in DOMAIN b THEN b[p] ELSE a[p]]
<1>1. DOMAIN a \subseteq DOMAIN b
  BY LenProperties
<1>2. b = [p \in DOMAIN b |-> b[p]]
  BY LenProperties
<1> HIDE DEF a, b
<1>3. w = b
  <2>1. DOMAIN a \cup DOMAIN b = DOMAIN b
    BY <1>1
  <2> QED
    BY <1>2, <2>1
<1> QED
  BY <1>3 DEF Persisted, CommitCheckpoint, w, a, b

(* A restored ledger is a ledger, with what was stored.                    *)
LEMMA RestoredGood ==
  ASSUME NEW st, st.leaves \in Seq(Leaf), st.nullifiers \in SUBSET Nat,
         NEW h \in Nat, NEW v \in Nat, st.meta = {[height |-> h, supply |-> v]}
  PROVE  LET L == Restored(st)
         IN  /\ GoodLedger(L) /\ L.leaves = st.leaves /\ L.nullifiers = st.nullifiers
             /\ L.height = h /\ L.supply = v /\ L.quota = << >>
<1> DEFINE L == Restored(st)
           t == st.leaves
           w == Sealed(<< >>, t, h)
<1>1. Meta(st).height = h /\ Meta(st).supply = v
  <2> DEFINE e == [height |-> h, supply |-> v]
             m == CHOOSE m \in st.meta : TRUE
  <2>1. st.meta = {e} /\ e.height = h /\ e.supply = v
    OBVIOUS
  <2> HIDE DEF e
  <2>2. m = e /\ st.meta # {}
    BY <2>1
  <2> QED
    BY <2>1, <2>2 DEF Meta
<1>2. /\ L.leaves = t /\ L.anchors = w /\ L.nullifiers = st.nullifiers
      /\ L.quota = << >> /\ L.height = h /\ L.supply = v
  BY <1>1, LoadTreeIs DEF Restored
<1>3. << >> \in Seq(Anchor) /\ Len(<< >>) = 0 /\ DOMAIN << >> = {}
  OBVIOUS
<1>4. Ascending(<< >>, h)
  BY <1>3 DEF Ascending
<1> HIDE DEF L
<1>5. Ascending(w, h + 1)
  BY <1>4, SealedKeeps
<1>6. \A a \in Anchor : a.height >= h =>
         (AnchorValid(w, a) <=> a = [height |-> h, root |-> t])
  BY <1>4, SealedNewest
<1>7. << >> \in Registry
  <2>1. << >> \in [{} -> Digest]
    OBVIOUS
  <2> QED
    BY <2>1 DEF Registry
<1> HIDE DEF w
<1>8. GoodLedger(L)
  BY <1>2, <1>3, <1>5, <1>6, <1>7 DEF GoodLedger, Newest
<1> QED
  BY <1>2, <1>8 DEF L

-----------------------------------------------------------------------------
(* The invariant, in three parts: the committed chain with the replica     *)
(* that never stops, the node, and its store.  It also holds of what a     *)
(* node that is down has in memory, which nothing reads.                   *)

Spent(ss) == UNION {ss[k] : k \in DOMAIN ss}

Apart(ss) == \A j, k \in DOMAIN ss : j # k => ss[j] \cap ss[k] = {}

ChainInv ==
    /\ chain \in Seq(Seq(Tx)) /\ Len(chain) <= MaxHeight
    /\ GoodLedger(steady) /\ steady.height = Len(chain)
    /\ roots \in Seq(Root) /\ Len(roots) = Len(chain) + 1
    /\ supplies \in Seq(Nat) /\ Len(supplies) = Len(chain) + 1
    /\ supplies[1] = GenesisSupply
    /\ \A k \in 1..Len(chain) : supplies[k + 1] = supplies[k] + SumFunction(Shares[k])
    /\ steady.supply = supplies[Len(chain) + 1]

NodeInv ==
    /\ GoodLedger(node) /\ node.height <= Len(chain)
    /\ node.supply = supplies[node.height + 1]
    /\ spends \in Seq(SUBSET Nat) /\ Len(spends) = node.height
    /\ node.nullifiers = Spent(spends) /\ Apart(spends)
    /\ restoredAt \in Nat /\ restoredAt <= node.height
    /\ up \in BOOLEAN /\ exposed \in BOOLEAN

StoreInv ==
    /\ store.leaves \in Seq(Leaf) /\ Len(store.leaves) <= Len(node.leaves)
    /\ store.nullifiers \subseteq node.nullifiers
    /\ savedSpends \in Seq(SUBSET Nat)
    /\ store.nullifiers = Spent(savedSpends) /\ Apart(savedSpends)
    /\ store.meta = {} => store.leaves = << >> /\ savedSpends = << >>
    /\ store.meta # {} =>
          \E h \in 0..Len(chain) :
             /\ store.meta = {[height |-> h, supply |-> supplies[h + 1]]}
             /\ Len(savedSpends) = h

SafeInv == ChainInv /\ NodeInv /\ StoreInv

(* One more height's spends, apart from all before.                        *)
LEMMA SpendsGrow ==
  ASSUME NEW ss \in Seq(SUBSET Nat), Apart(ss), NEW x \in SUBSET Nat,
         x \cap Spent(ss) = {}
  PROVE  /\ Append(ss, x) \in Seq(SUBSET Nat) /\ Len(Append(ss, x)) = Len(ss) + 1
         /\ Apart(Append(ss, x)) /\ Spent(Append(ss, x)) = Spent(ss) \cup x
<1> DEFINE t == Append(ss, x)
           n == Len(ss) + 1
<1>1. t \in Seq(SUBSET Nat) /\ Len(t) = n
  OBVIOUS
<1>2. /\ DOMAIN t = DOMAIN ss \cup {n} /\ n \notin DOMAIN ss /\ t[n] = x
      /\ \A k \in DOMAIN ss : t[k] = ss[k]
  BY AppendDomain
<1> HIDE DEF t, n
<1>3. Spent(t) = Spent(ss) \cup x
  BY <1>2 DEF Spent
<1>4. \A k \in DOMAIN ss : ss[k] \cap x = {}
  BY DEF Spent
<1>5. Apart(t)
  BY <1>2, <1>4 DEF Apart
<1> QED
  BY <1>1, <1>3, <1>5 DEF t, n

(* A step leaves the chain as it is, or commits a batch.                   *)
LEMMA ChainMoves ==
  ASSUME [Next]_vars
  PROVE  \/ \E txs \in Batches(roots) : Commit(txs)
         \/ UNCHANGED <<chain, steady, roots, supplies>>
BY DEF Next, NodeApply, Persist, Crash, Restart, vars

(* What a commit does to the recorded supplies.                            *)
LEMMA CommitExtends ==
  ASSUME ChainInv, NEW txs \in Batches(roots), Commit(txs)
  PROVE  /\ txs \in Seq(Tx) /\ steady.height < MaxHeight
         /\ Applied(steady, txs, steady')
         /\ chain' \in Seq(Seq(Tx)) /\ Len(chain') = Len(chain) + 1
         /\ chain'[Len(chain) + 1] = txs
         /\ \A k \in 1..Len(chain) : chain'[k] = chain[k]
         /\ roots' \in Seq(Root) /\ Len(roots') = Len(roots) + 1
         /\ roots'[Len(roots) + 1] = steady'.leaves
         /\ \A k \in 1..Len(roots) : roots'[k] = roots[k]
         /\ supplies' \in Seq(Nat) /\ Len(supplies') = Len(supplies) + 1
         /\ supplies'[Len(supplies) + 1] = steady'.supply
         /\ \A k \in 1..Len(supplies) : supplies'[k] = supplies[k]
<1>1. txs \in Seq(Tx)
  BY BatchesTyped DEF ChainInv
<1>2. Applied(steady, txs, steady') /\ steady.height < MaxHeight
  <2>1. GoodLedger(steady) /\ steady.height < MaxHeight
    BY DEF ChainInv, Commit
  <2>2. steady' = ApplyCheckpoint(steady, txs)
    BY DEF Commit
  <2> QED
    BY <1>1, <2>1, <2>2, ApplyFacts
<1>3. steady'.leaves \in Root /\ steady'.supply \in Nat
  BY <1>2 DEF Applied, GoodLedger, Root
<1>4. /\ chain' = Append(chain, txs) /\ chain \in Seq(Seq(Tx))
      /\ roots' = Append(roots, steady'.leaves) /\ roots \in Seq(Root)
      /\ supplies' = Append(supplies, steady'.supply) /\ supplies \in Seq(Nat)
  BY DEF Commit, ChainInv
<1>5. /\ chain' \in Seq(Seq(Tx)) /\ Len(chain') = Len(chain) + 1
      /\ chain'[Len(chain) + 1] = txs
      /\ \A k \in 1..Len(chain) : chain'[k] = chain[k]
  BY <1>1, <1>4, AppendProperties
<1>6. /\ roots' \in Seq(Root) /\ Len(roots') = Len(roots) + 1
      /\ roots'[Len(roots) + 1] = steady'.leaves
      /\ \A k \in 1..Len(roots) : roots'[k] = roots[k]
  BY <1>3, <1>4, AppendProperties
<1>7. /\ supplies' \in Seq(Nat) /\ Len(supplies') = Len(supplies) + 1
      /\ supplies'[Len(supplies) + 1] = steady'.supply
      /\ \A k \in 1..Len(supplies) : supplies'[k] = supplies[k]
  BY <1>3, <1>4, AppendProperties
<1> QED
  BY <1>1, <1>2, <1>5, <1>6, <1>7

(* Every step preserves the chain's part.                                  *)
LEMMA ChainInvStep == ChainInv /\ [Next]_vars => ChainInv'
<1> SUFFICES ASSUME ChainInv, [Next]_vars PROVE ChainInv'
  OBVIOUS
<1>1. ASSUME NEW txs \in Batches(roots), Commit(txs) PROVE ChainInv'
  <2> DEFINE n == Len(chain)
  <2>1. /\ n \in Nat /\ n < MaxHeight /\ steady.height = n
        /\ Len(roots) = n + 1 /\ Len(supplies) = n + 1
        /\ supplies[1] = GenesisSupply /\ steady.supply = supplies[n + 1]
        /\ \A k \in 1..n : supplies[k + 1] = supplies[k] + SumFunction(Shares[k])
    BY <1>1, LenProperties DEF ChainInv, Commit
  <2>2. /\ Applied(steady, txs, steady')
        /\ chain' \in Seq(Seq(Tx)) /\ Len(chain') = n + 1
        /\ roots' \in Seq(Root) /\ Len(roots') = n + 2
        /\ supplies' \in Seq(Nat) /\ Len(supplies') = n + 2
        /\ supplies'[n + 2] = steady'.supply
        /\ \A k \in 1..(n + 1) : supplies'[k] = supplies[k]
    BY <1>1, <2>1, CommitExtends
  <2>3. /\ GoodLedger(steady') /\ steady'.height = n + 1
        /\ steady'.supply = steady.supply + SumFunction(Shares[n + 1])
    BY <2>1, <2>2 DEF Applied
  <2> HIDE DEF n
  <2>4. ASSUME NEW k \in 1..(n + 1)
        PROVE  supplies'[k + 1] = supplies'[k] + SumFunction(Shares[k])
    <3>1. CASE k = n + 1
      <4>1. supplies'[k + 1] = steady'.supply /\ supplies'[k] = steady.supply
        BY <2>1, <2>2, <3>1
      <4> QED
        BY <2>3, <3>1, <4>1
    <3>2. CASE k # n + 1
      <4>1. k \in 1..n /\ k \in 1..(n + 1) /\ k + 1 \in 1..(n + 1)
        BY <2>1, <3>2
      <4> QED
        BY <2>1, <2>2, <4>1
    <3> QED
      BY <3>1, <3>2
  <2>5. supplies'[1] = GenesisSupply /\ n + 1 <= MaxHeight
    BY <2>1, <2>2, BoundsAssumption
  <2>6. steady'.supply = supplies'[(n + 1) + 1] /\ n + 2 = (n + 1) + 1
    BY <2>1, <2>2
  <2> QED
    BY <2>2, <2>3, <2>4, <2>5, <2>6 DEF ChainInv
<1>2. CASE UNCHANGED <<chain, steady, roots, supplies>>
  BY <1>2 DEF ChainInv
<1> QED
  BY <1>1, <1>2, ChainMoves

(* A supply once recorded stays, and so do the heights that have one.      *)
LEMMA SuppliesStay ==
  ASSUME ChainInv, [Next]_vars
  PROVE  /\ Len(chain) \in Nat /\ Len(chain') \in Nat /\ Len(chain) <= Len(chain')
         /\ \A h \in 0..Len(chain) : supplies'[h + 1] = supplies[h + 1]
<1>0. Len(chain) \in Nat /\ Len(supplies) = Len(chain) + 1
  BY LenProperties DEF ChainInv
<1>1. ASSUME NEW txs \in Batches(roots), Commit(txs)
      PROVE  /\ Len(chain') = Len(chain) + 1
             /\ \A h \in 0..Len(chain) : supplies'[h + 1] = supplies[h + 1]
  <2>1. Len(chain') = Len(chain) + 1 /\ \A k \in 1..Len(supplies) : supplies'[k] = supplies[k]
    BY <1>1, CommitExtends
  <2>2. \A h \in 0..Len(chain) : h + 1 \in 1..Len(supplies)
    BY <1>0
  <2> QED
    BY <2>1, <2>2
<1>2. CASE UNCHANGED <<chain, steady, roots, supplies>>
  BY <1>0, <1>2
<1>3. CASE \E txs \in Batches(roots) : Commit(txs)
  BY <1>0, <1>1, <1>3
<1> QED
  BY <1>2, <1>3, ChainMoves

(* The node applies a batch that was committed.                            *)
LEMMA NodeApplies ==
  ASSUME SafeInv, NodeApply
  PROVE  LET txs == chain[node.height + 1]
         IN  /\ node.height + 1 \in 1..Len(chain) /\ node.height < MaxHeight
             /\ txs \in Seq(Tx) /\ Applied(node, txs, node')
             /\ node' = ApplyCheckpoint(node, txs)
             /\ spends' = Append(spends, Scan(node, txs).seen)
<1> DEFINE h == node.height + 1
           txs == chain[h]
<1>1. /\ GoodLedger(node) /\ node.height \in Nat /\ Len(chain) \in Nat
      /\ Len(chain) <= MaxHeight /\ chain \in Seq(Seq(Tx)) /\ node.height < Len(chain)
  BY LenProperties DEF SafeInv, NodeInv, ChainInv, GoodLedger, NodeApply
<1>2. h \in 1..Len(chain) /\ node.height < MaxHeight
  BY <1>1, BoundsAssumption
<1>3. txs \in Seq(Tx)
  BY <1>1, <1>2, ElementOfSeq
<1>4. node' = ApplyCheckpoint(node, txs) /\ spends' = Append(spends, Scan(node, txs).seen)
  BY DEF NodeApply, NewSpends
<1>5. Applied(node, txs, node')
  BY <1>1, <1>2, <1>3, <1>4, ApplyFacts
<1> QED
  BY <1>2, <1>3, <1>4, <1>5

(* What a restarted node has.                                              *)
LEMMA NodeRestarts ==
  ASSUME SafeInv, Restart
  PROVE  /\ GoodLedger(node') /\ node'.nullifiers = store.nullifiers
         /\ node'.height \in 0..Len(chain) /\ node'.supply = supplies[node'.height + 1]
         /\ Len(savedSpends) = node'.height /\ Len(store.leaves) <= Len(node'.leaves)
         /\ \/ store.meta = {} /\ node' = GenesisLedger
            \/ /\ store.meta = {[height |-> node'.height, supply |-> node'.supply]}
               /\ node' = Restored(store) /\ node'.leaves = store.leaves
<1>0. /\ Len(chain) \in Nat /\ Genesis \in Seq(Leaf) /\ Len(Genesis) \in Nat
      /\ supplies[1] = GenesisSupply /\ supplies \in Seq(Nat)
      /\ Len(supplies) = Len(chain) + 1
  BY LenProperties, GenesisAssumption DEF SafeInv, ChainInv
<1>1. CASE store.meta = {}
  <2>1. node' = GenesisLedger
    BY <1>1 DEF Restart
  <2>2. /\ store.leaves = << >> /\ savedSpends = << >>
        /\ store.nullifiers = Spent(savedSpends)
    BY <1>1 DEF SafeInv, StoreInv
  <2>3. Spent(<< >>) = {} /\ Len(<< >>) = 0
    BY DEF Spent
  <2>4. /\ node'.nullifiers = {} /\ node'.height = 0 /\ node'.supply = GenesisSupply
        /\ node'.leaves = Genesis
    BY <2>1 DEF GenesisLedger
  <2>5. GoodLedger(node')
    BY <2>1, GenesisGood
  <2>6. Len(savedSpends) = node'.height /\ Len(store.leaves) <= Len(node'.leaves)
    BY <1>0, <2>2, <2>3, <2>4
  <2> QED
    BY <1>0, <1>1, <2>1, <2>2, <2>3, <2>4, <2>5, <2>6
<1>2. CASE store.meta # {}
  <2>1. PICK h \in 0..Len(chain) :
          /\ store.meta = {[height |-> h, supply |-> supplies[h + 1]]}
          /\ Len(savedSpends) = h
    BY <1>2 DEF SafeInv, StoreInv
  <2> DEFINE v == supplies[h + 1]
  <2>2. h \in Nat /\ h + 1 \in 1..Len(supplies)
    BY <1>0
  <2>3. v \in Nat
    BY <1>0, <2>2, ElementOfSeq
  <2>4. /\ store.leaves \in Seq(Leaf) /\ store.nullifiers \in SUBSET Nat
        /\ Len(store.leaves) \in Nat
    BY LenProperties DEF SafeInv, StoreInv, NodeInv, GoodLedger
  <2>5. store.meta = {[height |-> h, supply |-> v]}
    BY <2>1
  <2>6. node' = Restored(store)
    BY <1>2 DEF Restart
  <2> HIDE DEF v
  <2>7. /\ GoodLedger(node') /\ node'.leaves = store.leaves
        /\ node'.nullifiers = store.nullifiers
        /\ node'.height = h /\ node'.supply = v
    BY <2>2, <2>3, <2>4, <2>5, <2>6, RestoredGood
  <2>8. Len(store.leaves) <= Len(node'.leaves)
    BY <2>4, <2>7
  <2> QED
    BY <2>1, <2>5, <2>6, <2>7, <2>8 DEF v
<1> QED
  BY <1>1, <1>2

(* Every step preserves the node's part.                                   *)
LEMMA NodeInvStep == SafeInv /\ [Next]_vars => NodeInv'
<1> SUFFICES ASSUME SafeInv, [Next]_vars PROVE NodeInv'
  OBVIOUS
<1>0. ChainInv /\ NodeInv /\ StoreInv
  BY DEF SafeInv
<1>1. /\ Len(chain) \in Nat /\ Len(chain') \in Nat /\ Len(chain) <= Len(chain')
      /\ \A h \in 0..Len(chain) : supplies'[h + 1] = supplies[h + 1]
  BY <1>0, SuppliesStay
<1>2. CASE NodeApply
  <2> DEFINE txs == chain[node.height + 1]
             x == Scan(node, txs).seen
             v == SumFunction(Shares[node.height + 1])
  <2>1. /\ node.height + 1 \in 1..Len(chain) /\ Applied(node, txs, node')
        /\ spends' = Append(spends, x) /\ node.height \in Nat
    BY <1>0, <1>2, NodeApplies DEF SafeInv, NodeInv, GoodLedger
  <2>2. /\ GoodLedger(node') /\ node'.height = node.height + 1
        /\ node'.supply = node.supply + v
        /\ node'.nullifiers = node.nullifiers \cup x
        /\ x \in SUBSET Nat /\ x \cap node.nullifiers = {}
    BY <2>1 DEF Applied
  <2>3. /\ spends \in Seq(SUBSET Nat) /\ Apart(spends) /\ node.nullifiers = Spent(spends)
        /\ Len(spends) = node.height
    BY <1>0 DEF NodeInv
  <2> HIDE DEF x
  <2>4. /\ spends' \in Seq(SUBSET Nat) /\ Len(spends') = Len(spends) + 1
        /\ Apart(spends') /\ Spent(spends') = Spent(spends) \cup x
    BY <2>1, <2>2, <2>3, SpendsGrow
  <2>5. chain' = chain /\ supplies' = supplies /\ restoredAt' = restoredAt /\ up' = up
    BY <1>2 DEF NodeApply
  <2>6. node'.supply = supplies'[node'.height + 1]
    <3> DEFINE k == node.height + 1
    <3>1. supplies[k + 1] = supplies[k] + SumFunction(Shares[k])
      BY <1>0, <2>1 DEF ChainInv
    <3>2. node.supply = supplies[k]
      BY <1>0 DEF NodeInv
    <3> QED
      BY <2>2, <2>5, <3>1, <3>2
  <2>7. restoredAt' \in Nat /\ restoredAt' <= node'.height /\ node'.height <= Len(chain')
    BY <1>0, <1>1, <2>1, <2>2, <2>5 DEF NodeInv
  <2>8. up' \in BOOLEAN /\ exposed' \in BOOLEAN
    BY <1>0, <1>2 DEF NodeApply, NodeInv
  <2>9. node'.nullifiers = Spent(spends') /\ Len(spends') = node'.height
    BY <2>2, <2>3, <2>4
  <2> QED
    BY <2>2, <2>4, <2>6, <2>7, <2>8, <2>9 DEF NodeInv
<1>3. CASE Restart
  <2>1. /\ GoodLedger(node') /\ node'.nullifiers = store.nullifiers
        /\ node'.height \in 0..Len(chain) /\ node'.supply = supplies[node'.height + 1]
        /\ Len(savedSpends) = node'.height
    BY <1>3, NodeRestarts
  <2>2. /\ chain' = chain /\ supplies' = supplies /\ spends' = savedSpends
        /\ restoredAt' = node'.height /\ up' = TRUE /\ exposed' = exposed
    BY <1>3 DEF Restart
  <2>3. /\ savedSpends \in Seq(SUBSET Nat) /\ store.nullifiers = Spent(savedSpends)
        /\ Apart(savedSpends)
    BY <1>0 DEF StoreInv
  <2>4. node'.height \in Nat /\ node'.height <= Len(chain)
    BY <1>1, <2>1
  <2> QED
    BY <1>0, <2>1, <2>2, <2>3, <2>4 DEF NodeInv
<1>4. CASE UNCHANGED <<node, spends, restoredAt, exposed>> /\ up' \in BOOLEAN
  <2>1. node.height \in 0..Len(chain)
    BY <1>0, <1>1 DEF NodeInv, GoodLedger
  <2>2. supplies'[node.height + 1] = supplies[node.height + 1]
    BY <1>1, <2>1
  <2>3. node.height <= Len(chain')
    BY <1>1, <2>1
  <2> QED
    BY <1>0, <1>4, <2>2, <2>3 DEF NodeInv
<1>5. up \in BOOLEAN
  BY <1>0 DEF NodeInv
<1> QED
  BY <1>2, <1>3, <1>4, <1>5 DEF Next, Commit, Persist, Crash, vars, nodevars

(* Every step preserves the store's part.                                  *)
LEMMA StoreInvStep == SafeInv /\ [Next]_vars => StoreInv'
<1> SUFFICES ASSUME SafeInv, [Next]_vars PROVE StoreInv'
  OBVIOUS
<1>0. ChainInv /\ NodeInv /\ StoreInv
  BY DEF SafeInv
<1>1. /\ Len(chain) \in Nat /\ Len(chain') \in Nat /\ Len(chain) <= Len(chain')
      /\ \A h \in 0..Len(chain) : supplies'[h + 1] = supplies[h + 1]
  BY <1>0, SuppliesStay
<1>2. CASE Persist
  <2>1. /\ store.leaves \in Seq(Leaf) /\ Len(store.leaves) <= Len(node.leaves)
        /\ store.nullifiers \subseteq node.nullifiers
    BY <1>0 DEF StoreInv
  <2>2. /\ node.leaves \in Seq(Leaf) /\ node.nullifiers = Spent(spends)
        /\ node.height \in Nat /\ node.height <= Len(chain)
        /\ node.supply = supplies[node.height + 1] /\ Len(node.leaves) \in Nat
        /\ spends \in Seq(SUBSET Nat) /\ Apart(spends) /\ Len(spends) = node.height
    BY <1>0, LenProperties DEF NodeInv, GoodLedger
  <2>3. /\ store' = Persisted(store, node) /\ savedSpends' = spends /\ node' = node
        /\ chain' = chain /\ supplies' = supplies
    BY <1>2 DEF Persist
  <2>4. /\ store'.leaves = node.leaves /\ store'.nullifiers = node.nullifiers
        /\ store'.meta = {[height |-> node.height, supply |-> node.supply]}
    BY <2>1, <2>2, <2>3, PersistedIs
  <2>5. node.height \in 0..Len(chain) /\ store'.meta # {}
    BY <1>1, <2>2, <2>4
  <2>6. \E h \in 0..Len(chain') :
          /\ store'.meta = {[height |-> h, supply |-> supplies'[h + 1]]}
          /\ Len(savedSpends') = h
    BY <2>2, <2>3, <2>4, <2>5
  <2>7. Len(store'.leaves) <= Len(node'.leaves) /\ store'.leaves \in Seq(Leaf)
    BY <2>2, <2>3, <2>4
  <2>8. /\ store'.nullifiers \subseteq node'.nullifiers
        /\ savedSpends' \in Seq(SUBSET Nat)
        /\ store'.nullifiers = Spent(savedSpends') /\ Apart(savedSpends')
    BY <2>2, <2>3, <2>4
  <2> QED
    BY ONLY <2>5, <2>6, <2>7, <2>8, Zenon DEF StoreInv, Spent, Apart
<1>3. CASE UNCHANGED <<store, savedSpends>> /\ ~Persist
  <2>1. Len(store.leaves) <= Len(node'.leaves) /\ store.nullifiers \subseteq node'.nullifiers
    <3>1. CASE NodeApply
      <4>1. /\ Len(node.leaves) <= Len(node'.leaves)
            /\ node.nullifiers \subseteq node'.nullifiers
            /\ node.leaves \in Seq(Leaf) /\ node'.leaves \in Seq(Leaf)
        BY <1>0, <3>1, NodeApplies DEF Applied, NodeInv, GoodLedger
      <4>2. Len(node.leaves) \in Nat /\ Len(node'.leaves) \in Nat
            /\ Len(store.leaves) \in Nat
        BY <1>0, <4>1, LenProperties DEF StoreInv
      <4> QED
        BY <1>0, <4>1, <4>2 DEF StoreInv
    <3>2. CASE Restart
      BY <1>0, <3>2, NodeRestarts
    <3>3. CASE node' = node
      BY <1>0, <3>3 DEF StoreInv
    <3> QED
      BY <1>3, <3>1, <3>2, <3>3 DEF Next, Commit, Crash, vars, nodevars
  <2>2. ASSUME store.meta # {}
        PROVE  \E h \in 0..Len(chain') :
                 /\ store.meta = {[height |-> h, supply |-> supplies'[h + 1]]}
                 /\ Len(savedSpends) = h
    <3>1. PICK h \in 0..Len(chain) :
            /\ store.meta = {[height |-> h, supply |-> supplies[h + 1]]}
            /\ Len(savedSpends) = h
      BY <1>0, <2>2 DEF StoreInv
    <3>2. h \in 0..Len(chain') /\ supplies'[h + 1] = supplies[h + 1]
      BY <1>1
    <3> QED
      BY <3>1, <3>2
  <2> QED
    BY <1>0, <1>3, <2>1, <2>2 DEF StoreInv
<1> QED
  BY <1>2, <1>3 DEF Next, Commit, NodeApply, Crash, Restart, vars, nodevars

(* At genesis nothing is spent and nothing is stored.                      *)
LEMMA SafeInit == Init => SafeInv
<1> SUFFICES ASSUME Init PROVE SafeInv
  OBVIOUS
<1>1. /\ chain = << >> /\ steady = GenesisLedger /\ node = GenesisLedger
      /\ roots = <<Genesis>> /\ supplies = <<GenesisSupply>>
      /\ store = EmptyStore /\ spends = << >> /\ savedSpends = << >>
      /\ restoredAt = 0 /\ up = TRUE /\ exposed = FALSE
  BY DEF Init
<1>2. /\ GenesisLedger.height = 0 /\ GenesisLedger.supply = GenesisSupply
      /\ GenesisLedger.nullifiers = {} /\ GenesisLedger.leaves = Genesis
  BY DEF GenesisLedger
<1>3. /\ Len(<< >>) = 0 /\ << >> \in Seq(Seq(Tx)) /\ << >> \in Seq(SUBSET Nat)
      /\ << >> \in Seq(Leaf) /\ Spent(<< >>) = {} /\ Apart(<< >>)
  BY DEF Spent, Apart
<1>4. /\ <<Genesis>> \in Seq(Root) /\ Len(<<Genesis>>) = 1
      /\ <<GenesisSupply>> \in Seq(Nat) /\ Len(<<GenesisSupply>>) = 1
      /\ <<GenesisSupply>>[1] = GenesisSupply
  BY GenesisAssumption DEF Root
<1>5. ChainInv
  BY <1>1, <1>2, <1>3, <1>4, GenesisGood, BoundsAssumption DEF ChainInv
<1>6. NodeInv
  <2>1. up \in BOOLEAN /\ exposed \in BOOLEAN
    BY <1>1
  <2>2. /\ node.height = 0 /\ Len(chain) = 0 /\ node.supply = supplies[node.height + 1]
        /\ Len(spends) = node.height /\ node.nullifiers = Spent(spends)
        /\ spends \in Seq(SUBSET Nat) /\ Apart(spends)
    BY ONLY <1>1, <1>2, <1>3, <1>4
  <2>3. restoredAt \in Nat /\ restoredAt <= node.height /\ node.height <= Len(chain)
    BY <1>1, <2>2
  <2>4. GoodLedger(node)
    BY <1>1, GenesisGood
  <2> QED
    BY ONLY <2>1, <2>2, <2>3, <2>4, Zenon DEF NodeInv
<1>7. StoreInv
  <2>1. Len(Genesis) \in Nat
    BY GenesisAssumption, LenProperties
  <2> QED
    BY <1>1, <1>2, <1>3, <2>1 DEF StoreInv, EmptyStore
<1> QED
  BY <1>5, <1>6, <1>7 DEF SafeInv

(* The invariant holds in every reachable state.                           *)
THEOREM SafeInvariant == Spec => []SafeInv
<1>1. SafeInv /\ [Next]_vars => SafeInv'
  <2>1. SafeInv => ChainInv
    BY DEF SafeInv
  <2> QED
    BY <2>1, ChainInvStep, NodeInvStep, StoreInvStep DEF SafeInv
<1> QED
  BY <1>1, SafeInit, PTL DEF Spec

(* Along the node's present past, through every crash and restart, no      *)
(* nullifier is accepted at two heights.                                   *)
THEOREM NoDoubleSpendAcrossRestartHolds == Spec => []NoDoubleSpendAcrossRestart
<1>1. SafeInv => NoDoubleSpendAcrossRestart
  BY DEF SafeInv, NodeInv, Apart, NoDoubleSpendAcrossRestart
<1> QED
  BY <1>1, SafeInvariant, PTL

(* At every height the node has the supply the steady replica had there,   *)
(* whatever was lost and replayed.                                         *)
THEOREM SupplySurvivesRestartHolds == Spec => []SupplySurvivesRestart
<1>1. SafeInv => SupplySurvivesRestart
  BY DEF SafeInv, NodeInv, SupplySurvivesRestart
<1> QED
  BY <1>1, SafeInvariant, PTL

-----------------------------------------------------------------------------
(* Transparency.  L resembles M above r, the height it was restored at: it *)
(* has what M has, but for anchors older than r and, if it was restored,   *)
(* slots of epochs that had begun by then.                                 *)

SameAnchors(v, w, r) ==
    \A a \in Anchor : a.height >= r => (AnchorValid(v, a) <=> AnchorValid(w, a))

SameSlots(p, q, r) ==
    \A x \in Nat \X Nat :
        ~(r > 0 /\ x[1] <= r \div EPOCH_LENGTH) =>
            (x \in DOMAIN p <=> x \in DOMAIN q) /\ (x \in DOMAIN p => p[x] = q[x])

Resembles(L, M, r) ==
    /\ L.height = M.height /\ L.leaves = M.leaves /\ L.nullifiers = M.nullifiers
    /\ SameAnchors(L.anchors, M.anchors, r) /\ SameSlots(L.quota, M.quota, r)

(* A transaction whose verdict may differ.                                 *)
Depends(tx, r) ==
    /\ r > 0
    /\ \/ tx.anchor.height < r
       \/ tx.antispam.lane = "quota" /\ tx.antispam.epoch <= r \div EPOCH_LENGTH

Alike(s, t, r) ==
    s.seen = t.seen /\ s.staged_cm = t.staged_cm /\ SameSlots(s.quota, t.quota, r)

(* Recording a slot on both sides keeps them the same.                     *)
LEMMA SlotsAgree ==
  ASSUME NEW p, NEW q, NEW r, SameSlots(p, q, r), NEW tx
  PROVE  SameSlots(RegistryAfter(p, tx), RegistryAfter(q, tx), r)
BY DEF SameSlots, RegistryAfter, WithSlot

(* The verdict is the same on both sides.                                  *)
LEMMA VerdictAgrees ==
  ASSUME NEW L, NEW M, NEW r \in Nat, Resembles(L, M, r),
         NEW s, NEW t, Alike(s, t, r), NEW tx \in Tx, ~Depends(tx, r)
  PROVE  Passed(L, s, tx) = Passed(M, t, tx)
<1>1. tx.anchor \in Anchor /\ tx.anchor.height \in Nat /\ Slot(tx) \in Nat \X Nat
  BY TxTyped DEF Anchor
<1>2. tx.anchor.height >= r
  BY <1>1 DEF Depends
<1>3. AnchorValid(L.anchors, tx.anchor) <=> AnchorValid(M.anchors, tx.anchor)
  BY <1>1, <1>2 DEF Resembles, SameAnchors
<1>4. L.nullifiers \cup s.seen = M.nullifiers \cup t.seen /\ L.height + 1 = M.height + 1
  BY DEF Resembles, Alike
<1>5. \A n : QuotaAdmits(tx, s.quota, n) <=> QuotaAdmits(tx, t.quota, n)
  <2> SUFFICES ASSUME NEW n
               PROVE  QuotaAdmits(tx, s.quota, n) <=> QuotaAdmits(tx, t.quota, n)
    OBVIOUS
  <2>1. CASE tx.antispam.lane # "quota"
    BY <2>1 DEF QuotaAdmits
  <2>2. CASE tx.antispam.lane = "quota"
    <3>1. ~(r > 0 /\ Slot(tx)[1] <= r \div EPOCH_LENGTH)
      BY <2>2 DEF Depends, Slot
    <3>2. Slot(tx) \in DOMAIN s.quota <=> Slot(tx) \in DOMAIN t.quota
      BY <1>1, <3>1 DEF Alike, SameSlots
    <3>3. \A q : Admit(q, Slot(tx), BindingDigest(tx)) = "Ok" <=> Slot(tx) \notin DOMAIN q
      BY DEF Admit
    <3> QED
      BY <3>2, <3>3 DEF QuotaAdmits
  <2> QED
    BY <2>1, <2>2
<1> QED
  BY <1>3, <1>4, <1>5 DEF Passed, Verdict

(* So is what a scan stages.                                               *)
LEMMA ScanAgrees ==
  ASSUME NEW L, NEW M, NEW r \in Nat, Resembles(L, M, r),
         L.quota \in Registry, M.quota \in Registry,
         NEW txs \in Seq(Tx), \A k \in 1..Len(txs) : ~Depends(txs[k], r)
  PROVE  Alike(Scan(L, txs), Scan(M, txs), r)
<1>1. PICK g : Runs(g, L, txs) /\ Scan(L, txs) = g[Len(txs)]
  BY ScanRuns
<1>2. PICK h : Runs(h, M, txs) /\ Scan(M, txs) = h[Len(txs)]
  BY ScanRuns
<1> DEFINE n == Len(txs)
           S == {k \in 0..n : Alike(g[k], h[k], r)}
<1>3. n \in Nat /\ \A k \in 1..n : txs[k] \in Tx /\ ~Depends(txs[k], r)
  BY LenProperties, ElementOfSeq
<1>4. /\ g \in [0..n -> ScanState] /\ g[0] = ScanFrom(L)
      /\ \A k \in 1..n : g[k] = ScanTx(L, g[k - 1], txs[k])
  BY <1>1 DEF Runs
<1>5. /\ h \in [0..n -> ScanState] /\ h[0] = ScanFrom(M)
      /\ \A k \in 1..n : h[k] = ScanTx(M, h[k - 1], txs[k])
  BY <1>2 DEF Runs
<1> HIDE DEF n
<1>6. 0 \in S
  <2>1. Alike(ScanFrom(L), ScanFrom(M), r)
    BY DEF Alike, ScanFrom, Resembles
  <2> QED
    BY <1>3, <1>4, <1>5, <2>1
<1>7. ASSUME NEW k \in S, k < n PROVE k + 1 \in S
  <2> DEFINE s == g[k]
             t == h[k]
             s2 == g[k + 1]
             t2 == h[k + 1]
             tx == txs[k + 1]
  <2>1. k + 1 \in 1..n /\ k + 1 \in 0..n /\ (k + 1) - 1 = k /\ k \in 0..n
    BY <1>3, <1>7
  <2>2. /\ s2 = ScanTx(L, s, tx) /\ s \in ScanState
        /\ t2 = ScanTx(M, t, tx) /\ t \in ScanState
        /\ tx \in Tx /\ ~Depends(tx, r)
    BY <1>3, <1>4, <1>5, <2>1
  <2>3. Alike(s, t, r)
    BY <1>7
  <2> HIDE DEF s, t, s2, t2, tx
  <2>4. AfterTx(L, s, tx, s2) /\ AfterTx(M, t, tx, t2)
    BY <2>2, ScanTxIs
  <2>5. Passed(L, s, tx) = Passed(M, t, tx)
    BY <2>2, <2>3, VerdictAgrees
  <2>6. Alike(s2, t2, r)
    <3>1. CASE Passed(L, s, tx) # "Accepted"
      BY <2>3, <2>4, <2>5, <3>1 DEF AfterTx, Alike
    <3>2. CASE Passed(L, s, tx) = "Accepted"
      <4>1. s2.seen = t2.seen /\ s2.staged_cm = t2.staged_cm
        BY <2>3, <2>4, <2>5, <3>2 DEF AfterTx, Alike
      <4>2. s2.quota = RegistryAfter(s.quota, tx) /\ t2.quota = RegistryAfter(t.quota, tx)
        BY <2>4, <2>5, <3>2 DEF AfterTx
      <4>3. SameSlots(s2.quota, t2.quota, r)
        BY <2>3, <4>2, SlotsAgree DEF Alike
      <4> QED
        BY <4>1, <4>3 DEF Alike
    <3> QED
      BY <3>1, <3>2
  <2> QED
    BY <2>1, <2>6 DEF s2, t2
<1>8. S = 0..n
  <2>1. S \in SUBSET (0..n)
    OBVIOUS
  <2> HIDE DEF S
  <2> QED
    BY <1>3, <1>6, <1>7, <2>1, UpToInduction
<1>9. n \in 0..n
  BY <1>3
<1> QED
  BY <1>1, <1>2, <1>8, <1>9 DEF n

(* And so is the ledger after the checkpoint.                              *)
LEMMA ApplyAgrees ==
  ASSUME NEW L, NEW M, NEW r \in Nat, Resembles(L, M, r),
         GoodLedger(L), GoodLedger(M),
         NEW txs \in Seq(Tx), \A k \in 1..Len(txs) : ~Depends(txs[k], r),
         NEW K, Applied(L, txs, K), NEW N, Applied(M, txs, N)
  PROVE  Resembles(K, N, r)
<1>1. Alike(Scan(L, txs), Scan(M, txs), r)
  BY ScanAgrees DEF GoodLedger
<1>2. K.height = N.height /\ K.leaves = N.leaves /\ K.nullifiers = N.nullifiers
  BY <1>1 DEF Resembles, Applied, Alike
<1>3. SameSlots(K.quota, N.quota, r)
  BY <1>1 DEF Applied, Alike
<1>4. SameAnchors(K.anchors, N.anchors, r)
  <2> DEFINE t == K.leaves
             h == K.height
             v == L.anchors
             w == M.anchors
  <2>1. /\ t \in Seq(Leaf) /\ h \in Nat /\ Ascending(v, h) /\ Ascending(w, h)
        /\ K.anchors = Sealed(v, t, h) /\ N.anchors = Sealed(w, t, h)
    BY <1>2 DEF Applied, GoodLedger, Resembles
  <2>2. SameAnchors(v, w, r)
    BY DEF Resembles
  <2> HIDE DEF t, h, v, w
  <2>3. \A a \in Anchor :
          AnchorValid(Sealed(v, t, h), a) <=>
             /\ AnchorValid(v, a) \/ a = [height |-> h, root |-> t]
             /\ h < a.height + ANCHOR_WINDOW
    BY <2>1, SealedKeeps
  <2>4. \A a \in Anchor :
          AnchorValid(Sealed(w, t, h), a) <=>
             /\ AnchorValid(w, a) \/ a = [height |-> h, root |-> t]
             /\ h < a.height + ANCHOR_WINDOW
    BY <2>1, SealedKeeps
  <2>5. SameAnchors(Sealed(v, t, h), Sealed(w, t, h), r)
    BY ONLY <2>2, <2>3, <2>4, Zenon DEF SameAnchors
  <2> QED
    BY <2>1, <2>5
<1> QED
  BY <1>2, <1>3, <1>4 DEF Resembles

(* A ledger restored from what M had resembles M above M's height.         *)
LEMMA RestoreAgrees ==
  ASSUME NEW L, NEW M, GoodLedger(L), GoodLedger(M),
         L.height = M.height, L.leaves = M.leaves, L.nullifiers = M.nullifiers,
         L.quota = << >>
  PROVE  Resembles(L, M, M.height)
<1> DEFINE h == M.height
<1>1. h \in Nat /\ M.quota \in Registry
  BY DEF GoodLedger
<1>2. SameAnchors(L.anchors, M.anchors, h)
  <2>1. Newest(L) = Newest(M)
    BY DEF Newest
  <2> QED
    BY <2>1 DEF SameAnchors, GoodLedger
<1>3. SameSlots(L.quota, M.quota, h)
  <2> SUFFICES ASSUME NEW x \in Nat \X Nat, ~(h > 0 /\ x[1] <= h \div EPOCH_LENGTH)
               PROVE  x \notin DOMAIN L.quota /\ x \notin DOMAIN M.quota
    BY DEF SameSlots
  <2>1. DOMAIN L.quota = {}
    OBVIOUS
  <2>2. CASE h > 0
    BY <2>1, <2>2 DEF GoodLedger
  <2>3. CASE ~(h > 0)
    <3>1. h = 0
      BY <1>1, <2>3
    <3> QED
      BY <2>1, <3>1 DEF GoodLedger
  <2> QED
    BY <2>2, <2>3
<1> QED
  BY <1>2, <1>3 DEF Resembles

(* past[k + 1] is the ledger the steady replica had at height k.           *)
History(past, batches, last, rs) ==
    /\ past[1] = GenesisLedger /\ past[Len(batches) + 1] = last
    /\ \A k \in 1..Len(batches) : past[k + 1] = ApplyCheckpoint(past[k], batches[k])
    /\ \A k \in 1..(Len(batches) + 1) :
          GoodLedger(past[k]) /\ past[k].height = k - 1 /\ rs[k] = past[k].leaves

(* The node resembles the ledger of its height, and the store holds the    *)
(* tree and the spent set of the ledger of its own.                        *)
Matches(past, L, st, r) ==
    /\ Resembles(L, past[L.height + 1], r)
    /\ \A m \in st.meta :
          /\ st.leaves = past[m.height + 1].leaves
          /\ st.nullifiers = past[m.height + 1].nullifiers

TransparencyInv ==
    \E past : /\ History(past, chain, steady, roots)
              /\ ~exposed => Matches(past, node, store, restoredAt)

(* A commit adds the steady replica's new ledger to its past.              *)
LEMMA HistoryGrows ==
  ASSUME SafeInv, NEW txs \in Batches(roots), Commit(txs),
         NEW past, History(past, chain, steady, roots)
  PROVE  \E more : /\ History(more, chain', steady', roots')
                   /\ \A h \in 0..Len(chain) : more[h + 1] = past[h + 1]
<1> DEFINE n == Len(chain)
           more == [k \in 1..(n + 2) |-> IF k = n + 2 THEN steady' ELSE past[k]]
<1>1. /\ n \in Nat /\ Len(roots) = n + 1 /\ Len(chain') = n + 1 /\ chain'[n + 1] = txs
      /\ \A k \in 1..n : chain'[k] = chain[k]
      /\ roots'[n + 2] = steady'.leaves /\ \A k \in 1..(n + 1) : roots'[k] = roots[k]
      /\ Applied(steady, txs, steady') /\ steady.height = n
  <2>1. ChainInv /\ n \in Nat /\ Len(roots) = n + 1 /\ steady.height = n
    BY LenProperties DEF SafeInv, ChainInv
  <2>2. n + 2 = Len(roots) + 1
    BY <2>1
  <2> QED
    BY <2>1, <2>2, CommitExtends
<1>2. steady' = ApplyCheckpoint(steady, txs)
  BY DEF Commit
<1>3. /\ past[1] = GenesisLedger /\ past[n + 1] = steady
      /\ \A k \in 1..n : past[k + 1] = ApplyCheckpoint(past[k], chain[k])
      /\ \A k \in 1..(n + 1) :
            GoodLedger(past[k]) /\ past[k].height = k - 1 /\ roots[k] = past[k].leaves
  BY DEF History
<1> HIDE DEF n
<1>4. more[n + 2] = steady' /\ \A k \in 1..(n + 1) : more[k] = past[k]
  BY <1>1
<1> HIDE DEF more
<1>5. more[1] = GenesisLedger /\ more[(n + 1) + 1] = steady'
  <2>1. 1 \in 1..(n + 1) /\ (n + 1) + 1 = n + 2
    BY <1>1
  <2> QED
    BY <1>3, <1>4, <2>1
<1>6. ASSUME NEW k \in 1..(n + 1)
      PROVE  more[k + 1] = ApplyCheckpoint(more[k], chain'[k])
  <2>1. CASE k = n + 1
    <3>1. more[k + 1] = steady' /\ more[k] = steady /\ chain'[k] = txs
      BY <1>1, <1>3, <1>4, <2>1
    <3> QED
      BY <1>2, <3>1
  <2>2. CASE k # n + 1
    <3>1. k \in 1..n /\ k + 1 \in 1..(n + 1)
      BY <1>1, <2>2
    <3>2. more[k + 1] = past[k + 1] /\ more[k] = past[k] /\ chain'[k] = chain[k]
      BY <1>1, <1>4, <3>1
    <3> QED
      BY <1>3, <3>1, <3>2
  <2> QED
    BY <2>1, <2>2
<1>7. ASSUME NEW k \in 1..((n + 1) + 1)
      PROVE  GoodLedger(more[k]) /\ more[k].height = k - 1 /\ roots'[k] = more[k].leaves
  <2>1. CASE k = n + 2
    <3>1. more[k] = steady' /\ roots'[k] = steady'.leaves
      BY <1>1, <1>4, <2>1
    <3>2. GoodLedger(steady') /\ steady'.height = n + 1
      BY <1>1 DEF Applied
    <3> QED
      BY <1>1, <2>1, <3>1, <3>2
  <2>2. CASE k # n + 2
    <3>1. k \in 1..(n + 1)
      BY <1>1, <2>2
    <3> QED
      BY <1>1, <1>3, <1>4, <3>1
  <2> QED
    BY <2>1, <2>2
<1>8. History(more, chain', steady', roots')
  BY <1>1, <1>5, <1>6, <1>7 DEF History
<1>9. \A h \in 0..Len(chain) : more[h + 1] = past[h + 1]
  <2>1. \A h \in 0..Len(chain) : h + 1 \in 1..(n + 1)
    BY <1>1 DEF n
  <2> QED
    BY <1>4, <2>1
<1> QED
  BY <1>8, <1>9

(* The node and the store keep matching the past, until the node is        *)
(* exposed.                                                                *)
LEMMA MatchesStep ==
  ASSUME SafeInv, [Next]_vars, UNCHANGED <<chain, steady, roots, supplies>>,
         NEW past, History(past, chain, steady, roots),
         ~exposed => Matches(past, node, store, restoredAt), ~exposed'
  PROVE  Matches(past, node', store', restoredAt')
<1>0. /\ Len(chain) \in Nat /\ node.height \in 0..Len(chain) /\ GoodLedger(node)
      /\ restoredAt \in Nat /\ restoredAt <= node.height
  <2>1. chain \in Seq(Seq(Tx)) /\ node.height \in Nat /\ node.height <= Len(chain)
    BY DEF SafeInv, ChainInv, NodeInv, GoodLedger
  <2>2. Len(chain) \in Nat
    BY ONLY <2>1, LenProperties
  <2>3. GoodLedger(node) /\ restoredAt \in Nat /\ restoredAt <= node.height
    BY DEF SafeInv, NodeInv
  <2> QED BY <2>1, <2>2, <2>3
<1>1. CASE NodeApply
  <2> DEFINE h == node.height
             txs == chain[h + 1]
             M == past[h + 1]
             N == past[h + 2]
  <2>1. /\ h + 1 \in 1..Len(chain) /\ h < MaxHeight /\ txs \in Seq(Tx)
        /\ Applied(node, txs, node')
    BY <1>1, NodeApplies
  <2>2. /\ ~exposed /\ \A k \in DOMAIN txs : ~Exposes(txs[k])
        /\ store' = store /\ restoredAt' = restoredAt
    BY <1>1 DEF NodeApply
  <2>3. \A k \in 1..Len(txs) : ~Depends(txs[k], restoredAt)
    <3>1. DOMAIN txs = 1..Len(txs)
      BY <2>1, LenProperties
    <3>2. \A tx : Depends(tx, restoredAt) => Exposes(tx)
      BY DEF Depends, Exposes
    <3> QED
      BY <2>2, <3>1, <3>2
  <2>4. Resembles(node, M, restoredAt) /\ Matches(past, node, store, restoredAt)
    BY <2>2 DEF Matches
  <2>5. GoodLedger(M) /\ M.height = h /\ N = ApplyCheckpoint(M, txs)
    <3>1. h + 1 \in 1..(Len(chain) + 1) /\ h + 2 = (h + 1) + 1 /\ (h + 1) - 1 = h
      BY <1>0, <2>1
    <3> QED
      BY <2>1, <3>1 DEF History
  <2> HIDE DEF M, N, txs
  <2>6. Applied(M, txs, N)
    BY <2>1, <2>5, ApplyFacts
  <2>7. Resembles(node', N, restoredAt)
    BY <1>0, <2>1, <2>3, <2>4, <2>5, <2>6, ApplyAgrees
  <2>8. N = past[node'.height + 1]
    <3>1. node'.height + 1 = h + 2
      BY <1>0, <2>1 DEF Applied
    <3> QED
      BY <3>1 DEF N
  <2> QED
    BY <2>2, <2>4, <2>7, <2>8 DEF Matches
<1>2. CASE Persist
  <2>1. /\ store' = Persisted(store, node) /\ node' = node /\ restoredAt' = restoredAt
        /\ exposed' = exposed
    BY <1>2 DEF Persist
  <2>2. Resembles(node, past[node.height + 1], restoredAt)
    BY <2>1 DEF Matches
  <2>3. /\ store'.leaves = node.leaves /\ store'.nullifiers = node.nullifiers
        /\ store'.meta = {[height |-> node.height, supply |-> node.supply]}
    <3>1. /\ store.leaves \in Seq(Leaf) /\ node.leaves \in Seq(Leaf)
          /\ Len(store.leaves) <= Len(node.leaves) /\ store.nullifiers \subseteq node.nullifiers
      BY DEF SafeInv, StoreInv, NodeInv, GoodLedger
    <3> QED BY ONLY <2>1, <3>1, PersistedIs
  <2>4. \A m \in store'.meta : m.height = node.height
    BY <2>3
  <2> QED
    BY <2>1, <2>2, <2>3, <2>4 DEF Matches, Resembles
<1>3. CASE Restart
  <2> DEFINE h == node'.height
             M == past[h + 1]
  <2>1. /\ GoodLedger(node') /\ node'.nullifiers = store.nullifiers
        /\ h \in 0..Len(chain)
        /\ \/ store.meta = {} /\ node' = GenesisLedger
           \/ /\ store.meta = {[height |-> h, supply |-> node'.supply]}
              /\ node' = Restored(store) /\ node'.leaves = store.leaves
    BY <1>3, NodeRestarts
  <2>2. store' = store /\ restoredAt' = h /\ ~exposed
    BY <1>3 DEF Restart
  <2>3. Matches(past, node, store, restoredAt)
    BY <2>2
  <2>4. GoodLedger(M) /\ M.height = h
    <3>1. h + 1 \in 1..(Len(chain) + 1) /\ (h + 1) - 1 = h
      BY <1>0, <2>1
    <3> QED
      BY <3>1 DEF History
  <2>5. node'.quota = << >>
    BY <2>1 DEF GenesisLedger, Restored
  <2>6. node'.leaves = M.leaves /\ node'.nullifiers = M.nullifiers
    <3>1. CASE store.meta = {} /\ node' = GenesisLedger
      <4>1. h = 0 /\ h + 1 = 1
        BY <3>1 DEF GenesisLedger
      <4>2. M = GenesisLedger
        BY <4>1 DEF History
      <4> QED
        BY <3>1, <4>2
    <3>2. CASE /\ store.meta = {[height |-> h, supply |-> node'.supply]}
               /\ node'.leaves = store.leaves
      <4> DEFINE m == [height |-> h, supply |-> node'.supply]
      <4>1. m \in store.meta /\ m.height = h
        BY <3>2
      <4>2. store.leaves = past[m.height + 1].leaves
            /\ store.nullifiers = past[m.height + 1].nullifiers
        BY <2>3, <4>1 DEF Matches
      <4> QED
        BY <2>1, <3>2, <4>1, <4>2
    <3> QED
      BY <2>1, <3>1, <3>2
  <2> HIDE DEF M
  <2>7. Resembles(node', M, M.height)
    BY <2>1, <2>4, <2>5, <2>6, RestoreAgrees
  <2> QED
    BY <2>2, <2>3, <2>4, <2>7 DEF Matches, M
<1>4. CASE UNCHANGED <<node, store, restoredAt, exposed>>
  BY <1>4
<1> QED
  BY <1>1, <1>2, <1>3, <1>4 DEF Next, Commit, Crash, vars, nodevars

(* Every step preserves transparency.                                      *)
LEMMA TransparencyStep == SafeInv /\ TransparencyInv /\ [Next]_vars => TransparencyInv'
<1> SUFFICES ASSUME SafeInv, TransparencyInv, [Next]_vars PROVE TransparencyInv'
  OBVIOUS
<1>1. PICK past : /\ History(past, chain, steady, roots)
                  /\ ~exposed => Matches(past, node, store, restoredAt)
  BY DEF TransparencyInv
<1>2. ASSUME NEW txs \in Batches(roots), Commit(txs) PROVE TransparencyInv'
  <2>1. PICK more : /\ History(more, chain', steady', roots')
                    /\ \A h \in 0..Len(chain) : more[h + 1] = past[h + 1]
    BY <1>1, <1>2, HistoryGrows
  <2>2. UNCHANGED <<node, store, restoredAt, exposed>>
    BY <1>2 DEF Commit, nodevars
  <2>3. more[node.height + 1] = past[node.height + 1]
    <3>1. node.height \in 0..Len(chain)
      BY LenProperties DEF SafeInv, ChainInv, NodeInv, GoodLedger
    <3> QED
      BY <2>1, <3>1
  <2>4. \A m \in store.meta : more[m.height + 1] = past[m.height + 1]
    <3> SUFFICES ASSUME NEW m \in store.meta PROVE m.height \in 0..Len(chain)
      BY <2>1
    <3>1. PICK h \in 0..Len(chain) : store.meta = {[height |-> h, supply |-> supplies[h + 1]]}
      BY DEF SafeInv, StoreInv
    <3> QED
      BY <3>1
  <2>5. ~exposed' => Matches(more, node', store', restoredAt')
    BY <1>1, <2>2, <2>3, <2>4 DEF Matches
  <2> QED
    BY <2>1, <2>5 DEF TransparencyInv
<1>3. CASE UNCHANGED <<chain, steady, roots, supplies>>
  <2>1. ~exposed' => Matches(past, node', store', restoredAt')
    BY <1>1, <1>3, MatchesStep
  <2>2. History(past, chain', steady', roots')
    BY <1>1, <1>3
  <2> QED
    BY <2>1, <2>2 DEF TransparencyInv
<1> QED
  BY <1>2, <1>3, ChainMoves

(* At genesis the node is the replica.                                     *)
LEMMA TransparencyInit == Init => TransparencyInv
<1> SUFFICES ASSUME Init PROVE TransparencyInv
  OBVIOUS
<1> DEFINE past == <<GenesisLedger>>
<1>1. /\ chain = << >> /\ steady = GenesisLedger /\ node = GenesisLedger
      /\ roots = <<Genesis>> /\ store = EmptyStore /\ restoredAt = 0
  BY DEF Init
<1>2. /\ past[1] = GenesisLedger /\ roots[1] = Genesis /\ Len(chain) = 0
      /\ GenesisLedger.height = 0 /\ GenesisLedger.leaves = Genesis
  BY <1>1 DEF GenesisLedger
<1> HIDE DEF past
<1>3. History(past, chain, steady, roots)
  <2>1. \A k \in 1..(0 + 1) : k = 1
    OBVIOUS
  <2> QED
    BY <1>1, <1>2, <2>1, GenesisGood DEF History
<1>4. Matches(past, node, store, restoredAt)
  <2>1. Resembles(GenesisLedger, GenesisLedger, 0)
    BY DEF Resembles, SameAnchors, SameSlots
  <2>2. node.height + 1 = 1 /\ store.meta = {}
    BY <1>1, <1>2 DEF EmptyStore
  <2> QED
    BY <1>1, <1>2, <2>1, <2>2 DEF Matches
<1> QED
  BY <1>3, <1>4 DEF TransparencyInv

(* TransparencyInv holds in every reachable state.                         *)
LEMMA TransparencyInvariant == Spec => []TransparencyInv
  BY TransparencyInit, TransparencyStep, SafeInvariant, PTL DEF Spec

(* Until the node meets a transaction that cites an anchor older than the  *)
(* restored one, or a slot of an epoch begun before the restore, its root  *)
(* at every height and its spent set are the steady replica's.             *)
THEOREM RestartTransparentHolds == Spec => []RestartTransparent
<1>1. SafeInv /\ TransparencyInv => RestartTransparent
  <2> SUFFICES ASSUME SafeInv, TransparencyInv, up, ~exposed
               PROVE  /\ node.leaves = roots[node.height + 1]
                      /\ node.height = Len(chain) => node.nullifiers = steady.nullifiers
    BY DEF RestartTransparent
  <2>1. PICK past : /\ History(past, chain, steady, roots)
                    /\ Matches(past, node, store, restoredAt)
    BY DEF TransparencyInv
  <2>2. node.height + 1 \in 1..(Len(chain) + 1)
    <3>1. chain \in Seq(Seq(Tx)) /\ node.height \in Nat /\ node.height <= Len(chain)
      BY DEF SafeInv, ChainInv, NodeInv, GoodLedger
    <3>2. Len(chain) \in Nat
      BY ONLY <3>1, LenProperties
    <3> QED BY ONLY <3>1, <3>2
  <2> QED
    BY <2>1, <2>2 DEF History, Matches, Resembles
<1> QED
  BY <1>1, SafeInvariant, TransparencyInvariant, PTL

(* The store never mixes two heights: its supply, its spent set and, until *)
(* the node is exposed, its leaves are those of the height it names.       *)
THEOREM StoreIsOneSnapshotHolds == Spec => []StoreIsOneSnapshot
<1>1. SafeInv /\ TransparencyInv => StoreIsOneSnapshot
  <2> SUFFICES ASSUME SafeInv, TransparencyInv, NEW m \in store.meta
               PROVE  /\ m.supply = supplies[m.height + 1]
                      /\ store.nullifiers = UNION {savedSpends[k] : k \in DOMAIN savedSpends}
                      /\ Len(savedSpends) = m.height
                      /\ ~exposed => store.leaves = roots[m.height + 1]
    BY DEF StoreIsOneSnapshot
  <2>1. PICK h \in 0..Len(chain) :
          /\ store.meta = {[height |-> h, supply |-> supplies[h + 1]]}
          /\ Len(savedSpends) = h
    BY DEF SafeInv, StoreInv
  <2>2. m.height = h /\ m.supply = supplies[h + 1]
    BY <2>1
  <2>3. store.nullifiers = UNION {savedSpends[k] : k \in DOMAIN savedSpends}
    BY DEF SafeInv, StoreInv, Spent
  <2>4. ASSUME ~exposed PROVE store.leaves = roots[h + 1]
    <3>1. PICK past : /\ History(past, chain, steady, roots)
                      /\ Matches(past, node, store, restoredAt)
      BY <2>4 DEF TransparencyInv
    <3>2. h + 1 \in 1..(Len(chain) + 1)
      BY LenProperties DEF SafeInv, ChainInv
    <3>3. roots[h + 1] = past[h + 1].leaves
      BY <3>1, <3>2 DEF History
    <3>4. store.leaves = past[h + 1].leaves
      BY <2>2, <3>1 DEF Matches
    <3> QED
      BY <3>3, <3>4
  <2> QED
    BY <2>1, <2>2, <2>3, <2>4
<1> QED
  BY <1>1, SafeInvariant, TransparencyInvariant, PTL

-----------------------------------------------------------------------------
(* Healing.  The node's anchors are none older than the restored one, and  *)
(* the steady replica's none that has left the window.                     *)

HealInv ==
    /\ \A a \in Anchor : AnchorValid(node.anchors, a) => a.height >= restoredAt
    /\ \A a \in Anchor : AnchorValid(steady.anchors, a) => steady.height < a.height + ANCHOR_WINDOW

(* A new ledger's one anchor is that of its height.                        *)
LEMMA FirstAnchor ==
  ASSUME NEW t \in Seq(Leaf), NEW h \in Nat, NEW a \in Anchor,
         AnchorValid(Sealed(<< >>, t, h), a)
  PROVE  a.height = h /\ h < a.height + ANCHOR_WINDOW
<1>1. << >> \in Seq(Anchor) /\ Len(<< >>) = 0 /\ DOMAIN << >> = {}
  OBVIOUS
<1>2. Ascending(<< >>, h)
  BY <1>1 DEF Ascending
<1>3. AnchorValid(<< >>, a) \/ a = [height |-> h, root |-> t]
  BY <1>2, SealedKeeps
<1>4. ~AnchorValid(<< >>, a)
  BY <1>1 DEF AnchorValid
<1>5. h < a.height + ANCHOR_WINDOW
  BY <1>2, SealedKeeps
<1> QED BY <1>3, <1>4, <1>5

(* What a checkpoint leaves in the deque was there, or is new, and is in   *)
(* the window.                                                             *)
LEMMA AppliedAnchors ==
  ASSUME NEW L, GoodLedger(L), NEW txs, NEW M, Applied(L, txs, M),
         NEW a \in Anchor, AnchorValid(M.anchors, a)
  PROVE  /\ AnchorValid(L.anchors, a) \/ a.height = M.height
         /\ M.height < a.height + ANCHOR_WINDOW
<1> DEFINE w == L.anchors
           t == M.leaves
           h == M.height
<1>1. t \in Seq(Leaf) /\ h \in Nat /\ Ascending(w, h) /\ M.anchors = Sealed(w, t, h)
  BY DEF Applied, GoodLedger
<1> HIDE DEF w, t, h
<1>2. AnchorValid(w, a) \/ a = [height |-> h, root |-> t]
  BY <1>1, SealedKeeps
<1>3. h < a.height + ANCHOR_WINDOW
  BY <1>1, SealedKeeps
<1> QED BY <1>2, <1>3 DEF w, h

(* Every step preserves it.                                                *)
LEMMA HealStep == SafeInv /\ HealInv /\ [Next]_vars => HealInv'
<1> SUFFICES ASSUME SafeInv, HealInv, [Next]_vars PROVE HealInv'
  OBVIOUS
<1>0. restoredAt \in Nat /\ restoredAt <= node.height /\ GoodLedger(node) /\ node.height \in Nat
  BY DEF SafeInv, NodeInv, GoodLedger
<1>1. ASSUME NEW txs \in Batches(roots), Commit(txs) PROVE HealInv'
  <2>1. ChainInv /\ GoodLedger(steady)
    BY DEF SafeInv, ChainInv
  <2>2. Applied(steady, txs, steady')
    BY <1>1, <2>1, CommitExtends
  <2>3. node' = node /\ restoredAt' = restoredAt
    BY <1>1 DEF Commit, nodevars
  <2>4. \A a \in Anchor : AnchorValid(steady'.anchors, a) =>
           steady'.height < a.height + ANCHOR_WINDOW
    BY <2>1, <2>2, AppliedAnchors
  <2> QED BY <2>3, <2>4 DEF HealInv
<1>2. CASE NodeApply
  <2>1. Applied(node, chain[node.height + 1], node')
    BY <1>2, NodeApplies
  <2>2. steady' = steady /\ restoredAt' = restoredAt
    BY <1>2 DEF NodeApply
  <2>3. node'.height >= restoredAt
    BY <1>0, <2>1 DEF Applied
  <2>4. \A a \in Anchor : AnchorValid(node'.anchors, a) => a.height >= restoredAt
    <3> SUFFICES ASSUME NEW a \in Anchor, AnchorValid(node'.anchors, a)
                 PROVE  a.height >= restoredAt
      OBVIOUS
    <3>1. AnchorValid(node.anchors, a) \/ a.height = node'.height
      BY <1>0, <2>1, AppliedAnchors
    <3> QED BY <2>3, <3>1 DEF HealInv
  <2> QED BY <2>2, <2>4 DEF HealInv
<1>3. CASE Restart
  <2>1. steady' = steady /\ restoredAt' = node'.height
    BY <1>3 DEF Restart
  <2>2. \A a \in Anchor : AnchorValid(node'.anchors, a) => a.height >= node'.height
    <3> SUFFICES ASSUME NEW a \in Anchor, AnchorValid(node'.anchors, a)
                 PROVE  a.height >= node'.height
      OBVIOUS
    <3>1. CASE node' = GenesisLedger
      <4>1. node'.height = 0 /\ a.height \in Nat
        BY <3>1 DEF GenesisLedger, Anchor
      <4> QED BY <4>1
    <3>2. CASE node' = Restored(store)
      <4>1. /\ node'.anchors = Sealed(<< >>, node'.leaves, node'.height)
            /\ node'.leaves \in Seq(Leaf) /\ node'.height \in Nat
        <5>1. /\ node'.anchors = Sealed(<< >>, LoadTree(store), Meta(store).height)
              /\ node'.leaves = LoadTree(store) /\ node'.height = Meta(store).height
          BY <3>2 DEF Restored
        <5>2. GoodLedger(node')
          BY <1>3, NodeRestarts
        <5> QED BY <5>1, <5>2 DEF GoodLedger
      <4>2. a.height = node'.height
        BY <4>1, FirstAnchor
      <4> QED BY <4>1, <4>2
    <3> QED BY <1>3, <3>1, <3>2, NodeRestarts
  <2> QED BY <2>1, <2>2 DEF HealInv
<1>4. CASE UNCHANGED <<node, steady, restoredAt>>
  BY <1>4 DEF HealInv
<1> QED
  BY <1>1, <1>2, <1>3, <1>4 DEF Next, Persist, Crash, vars, nodevars

(* At genesis nothing was restored.                                        *)
LEMMA HealInit == Init => HealInv
<1> SUFFICES ASSUME Init PROVE HealInv
  OBVIOUS
<1>1. /\ node.anchors = Sealed(<< >>, Genesis, 0) /\ steady.anchors = Sealed(<< >>, Genesis, 0)
      /\ steady.height = 0 /\ restoredAt = 0 /\ Genesis \in Seq(Leaf)
  BY GenesisAssumption DEF Init, GenesisLedger
<1>2. \A a \in Anchor : AnchorValid(Sealed(<< >>, Genesis, 0), a) =>
         a.height = 0 /\ 0 < a.height + ANCHOR_WINDOW
  BY <1>1, FirstAnchor
<1> QED BY <1>1, <1>2 DEF HealInv

(* HealInv holds in every reachable state.                                 *)
LEMMA HealInvariant == Spec => []HealInv
  BY HealInit, HealStep, SafeInvariant, PTL DEF Spec

(* A node that caught up and was not exposed has the anchors sealed from   *)
(* the restored height on, so the whole window once ANCHOR_WINDOW heights  *)
(* were sealed since, and the slots of all epochs begun since.             *)
THEOREM RestartHealsHolds == Spec => []RestartHeals
<1>1. SafeInv /\ TransparencyInv /\ HealInv => RestartHeals
  <2> SUFFICES ASSUME SafeInv, TransparencyInv, HealInv, up, ~exposed, node.height = Len(chain)
               PROVE  /\ Range(node.anchors) =
                            {a \in Range(steady.anchors) : a.height >= restoredAt}
                      /\ node.height + 1 >= restoredAt + ANCHOR_WINDOW =>
                            Range(node.anchors) = Range(steady.anchors)
                      /\ SlotsSince(node.quota, restoredAt) = SlotsSince(steady.quota, restoredAt)
    BY DEF RestartHeals
  <2>1. PICK past : /\ History(past, chain, steady, roots)
                    /\ Matches(past, node, store, restoredAt)
    BY DEF TransparencyInv
  <2>2. Resembles(node, steady, restoredAt)
    BY <2>1 DEF History, Matches
  <2>3. /\ GoodLedger(node) /\ GoodLedger(steady) /\ node.height \in Nat
        /\ steady.height = node.height /\ restoredAt \in Nat
    BY DEF SafeInv, ChainInv, NodeInv, GoodLedger
  <2>4. \A L : GoodLedger(L) =>
           /\ Range(L.anchors) \subseteq Anchor
           /\ \A a : a \in Range(L.anchors) <=> AnchorValid(L.anchors, a)
    <3> SUFFICES ASSUME NEW L, GoodLedger(L)
                 PROVE  /\ Range(L.anchors) \subseteq Anchor
                        /\ \A a : a \in Range(L.anchors) <=> AnchorValid(L.anchors, a)
      OBVIOUS
    <3>1. L.anchors \in Seq(Anchor)
      BY DEF GoodLedger, Ascending
    <3> QED BY <3>1 DEF Range, AnchorValid
  <2>5. \A a \in Anchor : a.height \in Nat
    BY DEF Anchor
  <2>6. Range(node.anchors) = {a \in Range(steady.anchors) : a.height >= restoredAt}
    BY <2>2, <2>3, <2>4 DEF Resembles, SameAnchors, HealInv
  <2>7. ASSUME node.height + 1 >= restoredAt + ANCHOR_WINDOW
        PROVE  \A a \in Range(steady.anchors) : a.height >= restoredAt
    BY <2>3, <2>4, <2>5, <2>7, WindowAssumption DEF HealInv
  <2>8. SlotsSince(node.quota, restoredAt) = SlotsSince(steady.quota, restoredAt)
    <3> DEFINE p == node.quota
               q == steady.quota
               D(r) == {x \in DOMAIN r : restoredAt = 0 \/ x[1] > restoredAt \div EPOCH_LENGTH}
    <3>1. DOMAIN p \subseteq Nat \X Nat /\ DOMAIN q \subseteq Nat \X Nat
      BY <2>3 DEF GoodLedger, Registry
    <3>2. restoredAt \div EPOCH_LENGTH \in Nat
      BY <2>3, EpochsAscend
    <3>3. \A x \in Nat \X Nat : x[1] \in Nat
      OBVIOUS
    <3>4. \A x \in Nat \X Nat : (restoredAt = 0 \/ x[1] > restoredAt \div EPOCH_LENGTH) =>
             (x \in DOMAIN p <=> x \in DOMAIN q) /\ (x \in DOMAIN p => p[x] = q[x])
      <4>1. \A x \in Nat \X Nat : (restoredAt = 0 \/ x[1] > restoredAt \div EPOCH_LENGTH) =>
              ~(restoredAt > 0 /\ x[1] <= restoredAt \div EPOCH_LENGTH)
        BY <2>3, <3>2, <3>3
      <4> QED BY <2>2, <4>1 DEF Resembles, SameSlots
    <3> HIDE DEF p, q
    <3>5. D(p) = D(q) /\ \A x \in D(p) : p[x] = q[x]
      BY <3>1, <3>4
    <3> QED BY <3>5 DEF SlotsSince, p, q
  <2> QED BY <2>6, <2>7, <2>8
<1> QED
  BY <1>1, SafeInvariant, TransparencyInvariant, HealInvariant, PTL
=============================================================================
