-------------------------- MODULE ConsensusProofs --------------------------
(***************************************************************************)
(* Proofs about the consensus model, for any number of replicas and        *)
(* rounds of any length: commit_order is a function of the set of          *)
(* transactions of a round, it loses none, and a replica that applies it   *)
(* keeps the ledger's contract.                                            *)
(***************************************************************************)
EXTENDS Consensus, CheckpointProofs

(* Digests are 32-byte strings in lexicographic order: Rank is one-to-one. *)
RankOrders ==
    \A d, e \in Digest : Rank(d) \in Nat /\ (Rank(d) = Rank(e) => d = e)

-----------------------------------------------------------------------------
(* s lists the set S in the order of Rank.                                 *)
Sorts(s, S) ==
    /\ s \in [1..Cardinality(S) -> S]
    /\ \A j, k \in 1..Cardinality(S) : j < k => Rank(s[j]) < Rank(s[k])

(* Putting the least first sorts the whole.                                *)
LEMMA LeastFirst ==
  ASSUME NEW S, IsFiniteSet(S), S \subseteq Digest, RankOrders,
         NEW x \in S, \A y \in S : Rank(x) <= Rank(y), NEW t, Sorts(t, S \ {x})
  PROVE  \E s : Sorts(s, S)
<1> DEFINE n == Cardinality(S)
           s == [k \in 1..n |-> IF k = 1 THEN x ELSE t[k - 1]]
<1>1. n \in Nat /\ Cardinality(S \ {x}) = n - 1 /\ n # 0
  BY FS_CardinalityType, FS_RemoveElement, FS_EmptySet
<1>2. /\ t \in [1..(n - 1) -> S \ {x}]
      /\ \A j, k \in 1..(n - 1) : j < k => Rank(t[j]) < Rank(t[k])
  BY <1>1 DEF Sorts
<1> HIDE DEF n
<1>3. \A y \in S \ {x} : Rank(x) < Rank(y)
  BY DEF RankOrders
<1>4. s \in [1..n -> S]
  BY <1>1, <1>2
<1>5. ASSUME NEW j \in 1..n, NEW k \in 1..n, j < k
      PROVE  Rank(s[j]) < Rank(s[k])
  <2>1. k - 1 \in 1..(n - 1) /\ s[k] = t[k - 1]
    BY <1>5, <1>1
  <2>2. CASE j = 1
    BY <2>1, <2>2, <1>1, <1>2, <1>3
  <2>3. CASE j # 1
    <3>1. j - 1 \in 1..(n - 1) /\ s[j] = t[j - 1] /\ j - 1 < k - 1
      BY <2>3, <1>5, <1>1
    <3> QED BY <3>1, <2>1, <1>2
  <2> QED BY <2>2, <2>3
<1> HIDE DEF s
<1> QED BY <1>4, <1>5 DEF Sorts, n

(* A finite set of digests has one that comes first.                       *)
LEMMA LeastRanked ==
  ASSUME NEW S, S \subseteq Digest, S # {}, RankOrders
  PROVE  \E x \in S : \A y \in S : Rank(x) <= Rank(y)
<1> DEFINE N == {Rank(y) : y \in S}
<1>1. N \in SUBSET Nat /\ N # {}
  BY DEF RankOrders
<1>2. \E m \in N : \A y \in N : m <= y
  <2> HIDE DEF N
  <2> QED BY <1>1, LeastNat
<1> QED BY <1>2

(* Every finite set of digests can be listed in order.                     *)
LEMMA SortedExists ==
  ASSUME NEW D, IsFiniteSet(D), D \subseteq Digest, RankOrders
  PROVE  \E s : Sorts(s, D)
<1> DEFINE F == {S \in SUBSET D : \E s : Sorts(s, S)}
<1>1. ASSUME NEW S \in SUBSET D, \A x \in S : S \ {x} \in F
      PROVE  S \in F
  <2>1. IsFiniteSet(S)
    BY FS_Subset
  <2>2. CASE S = {}
    <3>1. Cardinality(S) = 0
      BY <2>2, FS_EmptySet
    <3>2. Sorts(<< >>, S)
      BY <3>1 DEF Sorts
    <3> QED BY <3>2
  <2>3. CASE S # {}
    <3>1. PICK x \in S : \A y \in S : Rank(x) <= Rank(y)
      BY <2>3, LeastRanked
    <3>2. PICK t : Sorts(t, S \ {x})
      BY <1>1
    <3>3. \E s : Sorts(s, S)
      BY <2>1, <3>1, <3>2, LeastFirst
    <3> QED BY <3>3
  <2> QED BY <2>2, <2>3
<1>2. F \in SUBSET SUBSET D
  OBVIOUS
<1> HIDE DEF F
<1>3. F = SUBSET D
  BY <1>1, <1>2, SubsetDescent
<1> QED BY <1>3 DEF F

(* What InOrder answers: the whole set, once each, in order.               *)
LEMMA InOrderSorts ==
  ASSUME NEW D, IsFiniteSet(D), D \subseteq Digest, RankOrders
  PROVE  /\ Sorts(InOrder(D), D)
         /\ \A d \in D : \E k \in 1..Cardinality(D) : InOrder(D)[k] = d
<1> DEFINE s == InOrder(D)
           n == Cardinality(D)
<1>1. Sorts(s, D)
  <2>1. PICK t : Sorts(t, D)
    BY SortedExists
  <2>2. /\ t \in [1..n -> D]
        /\ \A j, k \in DOMAIN t : j < k => Rank(t[j]) < Rank(t[k])
    BY <2>1 DEF Sorts
  <2>3. /\ s \in [1..n -> D]
        /\ \A j, k \in DOMAIN s : j < k => Rank(s[j]) < Rank(s[k])
    BY <2>2 DEF InOrder
  <2> HIDE DEF s
  <2> QED BY <2>3 DEF Sorts
<1>2. n \in Nat
  BY FS_CardinalityType
<1>3. s \in [1..n -> D] /\ \A j, k \in 1..n : j < k => Rank(s[j]) < Rank(s[k])
  BY <1>1 DEF Sorts
<1> HIDE DEF s, n
<1>4. \A j, k \in 1..n : s[j] = s[k] => j = k
  <2> SUFFICES ASSUME NEW j \in 1..n, NEW k \in 1..n, s[j] = s[k], j # k PROVE FALSE
    OBVIOUS
  <2>1. Rank(s[j]) \in Nat /\ Rank(s[k]) \in Nat
    BY <1>3 DEF RankOrders
  <2> QED BY <2>1, <1>2, <1>3
<1>5. s \in Injection(1..n, D)
  BY <1>3, <1>4 DEF Injection, IsInjective
<1>6. Cardinality(1..n) = n
  BY <1>2, FS_Interval
<1>7. s \in Surjection(1..n, D)
  BY <1>5, <1>6, FS_Injection DEF n
<1>8. \A d \in D : \E k \in 1..n : s[k] = d
  BY <1>7 DEF Surjection
<1> QED BY <1>1, <1>8 DEF s, n

-----------------------------------------------------------------------------
Digests(txs) == {BindingDigest(txs[k]) : k \in DOMAIN txs}

(* txs[k] is the first of txs with its digest.                             *)
IsFirst(txs, k) ==
    \A j \in 1..Len(txs) : BindingDigest(txs[j]) = BindingDigest(txs[k]) => k <= j

(* o is what commit_order may make of txs: its digests, once each and in   *)
(* order, each with the first transaction that has it.                     *)
Linearizes(o, txs) ==
    /\ o \in Seq(Tx) /\ Len(o) = Cardinality(Digests(txs)) /\ Len(o) <= Len(txs)
    /\ \A n \in 1..Len(o) : /\ BindingDigest(o[n]) = InOrder(Digests(txs))[n]
                            /\ \E k \in 1..Len(txs) : o[n] = txs[k] /\ IsFirst(txs, k)
    /\ \A m, n \in 1..Len(o) : BindingDigest(o[m]) = BindingDigest(o[n]) => m = n
    /\ \A k \in 1..Len(txs) : \E n \in 1..Len(o) : BindingDigest(o[n]) = BindingDigest(txs[k])

(* The digests of a list are finitely many, not more than its entries.     *)
LEMMA DigestsFinite ==
  ASSUME NEW txs \in Seq(Tx)
  PROVE  /\ IsFiniteSet(Digests(txs)) /\ Digests(txs) \subseteq Digest
         /\ Cardinality(Digests(txs)) \in Nat /\ Cardinality(Digests(txs)) <= Len(txs)
<1> DEFINE D == Digests(txs)
           n == Len(txs)
           f == [k \in 1..n |-> BindingDigest(txs[k])]
<1>1. n \in Nat /\ DOMAIN txs = 1..n /\ \A k \in 1..n : txs[k] \in Tx
  OBVIOUS
<1>2. D \subseteq Digest
  BY <1>1, TxTyped DEF Digests
<1>3. f \in Surjection(1..n, D)
  BY <1>1 DEF Surjection, Digests
<1> HIDE DEF f, n, D
<1>4. IsFiniteSet(1..n) /\ Cardinality(1..n) = n
  BY <1>1, FS_Interval
<1>5. IsFiniteSet(D) /\ Cardinality(D) <= n
  BY <1>3, <1>4, FS_Surjection
<1>6. Cardinality(D) \in Nat
  BY <1>5, FS_CardinalityType
<1> QED BY <1>2, <1>5, <1>6 DEF D, n

(* commit_order does what it should.                                       *)
LEMMA CommitOrderLinearizes ==
  ASSUME NEW txs \in Seq(Tx), RankOrders
  PROVE  Linearizes(CommitOrder(txs), txs)
<1> DEFINE D == Digests(txs)
           c == Cardinality(D)
           s == InOrder(D)
           n == Len(txs)
           o == CommitOrder(txs)
           At(d) == {k \in 1..n : BindingDigest(txs[k]) = d}
<1>1. IsFiniteSet(D) /\ D \subseteq Digest /\ c \in Nat /\ c <= n
  BY DigestsFinite
<1>2. Sorts(s, D) /\ \A d \in D : \E k \in 1..c : s[k] = d
  <2> HIDE DEF D
  <2> QED BY <1>1, InOrderSorts
<1>3. s \in [1..c -> D] /\ \A j, k \in 1..c : j < k => Rank(s[j]) < Rank(s[k])
  BY <1>2 DEF Sorts
<1>4. n \in Nat /\ DOMAIN txs = 1..n /\ \A k \in 1..n : txs[k] \in Tx
  OBVIOUS
<1>5. \A d \in D : \E k \in 1..n : BindingDigest(txs[k]) = d
  BY <1>4 DEF Digests
<1>6. \A k \in 1..n : BindingDigest(txs[k]) \in D
  BY <1>4 DEF Digests
<1>7. o = [m \in 1..c |-> txs[Min(At(s[m]))]]
  <2>1. DOMAIN s = 1..c
    BY <1>3
  <2>2. o = [m \in DOMAIN s |-> txs[Min({k \in DOMAIN txs : BindingDigest(txs[k]) = s[m]})]]
    BY DEF CommitOrder, Digests
  <2> HIDE DEF s, o, c
  <2> QED BY <2>1, <2>2, <1>4
<1> HIDE DEF D, c, s, n, o
<1>8. ASSUME NEW d \in D
      PROVE  Min(At(d)) \in At(d) /\ \A j \in At(d) : Min(At(d)) <= j
  <2> DEFINE K == At(d)
  <2>1. K \in SUBSET Nat /\ K # {}
    BY <1>4, <1>5
  <2> HIDE DEF K
  <2>2. \E x \in K : \A y \in K : x <= y
    BY <2>1, LeastNat
  <2>3. Min(K) \in K /\ \A y \in K : Min(K) <= y
    BY <2>2 DEF Min
  <2> QED BY <2>3 DEF K
<1>9. ASSUME NEW m \in 1..c
      PROVE  /\ BindingDigest(o[m]) = s[m]
             /\ \E k \in 1..n : o[m] = txs[k] /\ IsFirst(txs, k)
             /\ o[m] \in Tx
  <2>1. s[m] \in D
    BY <1>3
  <2> DEFINE k == Min(At(s[m]))
  <2>2. k \in 1..n /\ BindingDigest(txs[k]) = s[m] /\ \A j \in At(s[m]) : k <= j
    BY <2>1, <1>8
  <2>3. o[m] = txs[k]
    BY <1>7
  <2> HIDE DEF k
  <2>4. IsFirst(txs, k)
    BY <2>2 DEF IsFirst, n
  <2> QED BY <2>2, <2>3, <2>4, <1>4
<1>10. o \in Seq(Tx) /\ Len(o) = c
  <2>1. DOMAIN o = 1..c
    BY <1>7
  <2>2. o \in [1..c -> Tx]
    BY <1>7, <1>9, <2>1
  <2> QED BY <2>2, <1>1
<1>11. ASSUME NEW l \in 1..c, NEW m \in 1..c, BindingDigest(o[l]) = BindingDigest(o[m])
       PROVE  l = m
  <2>1. s[l] = s[m] /\ s[l] \in Digest
    BY <1>1, <1>3, <1>9, <1>11
  <2>2. Rank(s[l]) \in Nat /\ Rank(s[m]) = Rank(s[l])
    BY <2>1 DEF RankOrders
  <2> QED BY <2>2, <1>1, <1>3
<1>12. \A k \in 1..n : \E m \in 1..c : BindingDigest(o[m]) = BindingDigest(txs[k])
  BY <1>2, <1>6, <1>9
<1> QED BY <1>1, <1>9, <1>10, <1>11, <1>12 DEF Linearizes, n, o, c, s, D

(* No digest stands for two of these transactions.                         *)
TellsApart(S) == \A t, u \in S : BindingDigest(t) = BindingDigest(u) => t = u

(* Where digests tell transactions apart, commit_order is a function of    *)
(* the set of transactions.                                                *)
LEMMA CommitOrderOfSet ==
  ASSUME NEW txs \in Seq(Tx), NEW hs \in Seq(Tx), RankOrders,
         Range(hs) = Range(txs), TellsApart(Range(txs))
  PROVE  CommitOrder(hs) = CommitOrder(txs)
<1> DEFINE o == CommitOrder(txs)
           p == CommitOrder(hs)
<1>1. Linearizes(o, txs) /\ Linearizes(p, hs)
  BY CommitOrderLinearizes
<1>2. Digests(hs) = Digests(txs)
  <2>1. ASSUME NEW s PROVE Digests(s) = {BindingDigest(x) : x \in Range(s)}
    BY DEF Digests, Range
  <2> QED BY <2>1
<1> HIDE DEF o, p
<1>3. Len(o) = Len(p) /\ o \in Seq(Tx) /\ p \in Seq(Tx)
  BY <1>1, <1>2 DEF Linearizes
<1>4. ASSUME NEW n \in 1..Len(o) PROVE o[n] = p[n]
  <2>1. BindingDigest(o[n]) = BindingDigest(p[n])
    <3>1. BindingDigest(o[n]) = InOrder(Digests(txs))[n]
      BY <1>1 DEF Linearizes
    <3>2. n \in 1..Len(p)
      BY <1>3
    <3>3. BindingDigest(p[n]) = InOrder(Digests(hs))[n]
      BY <3>2, <1>1 DEF Linearizes
    <3> QED BY <3>1, <3>3, <1>2
  <2>2. o[n] \in Range(txs) /\ p[n] \in Range(hs)
    <3>1. PICK k \in 1..Len(txs) : o[n] = txs[k]
      BY <1>1 DEF Linearizes
    <3>2. PICK j \in 1..Len(hs) : p[n] = hs[j]
      BY <1>1, <1>3 DEF Linearizes
    <3> QED BY <3>1, <3>2 DEF Range
  <2> QED BY <2>1, <2>2 DEF TellsApart
<1>5. o = p
  BY <1>3, <1>4
<1> QED BY <1>5 DEF o, p

-----------------------------------------------------------------------------
(* Sealing a root keeps the deque to the anchors that may be spent from.   *)
LEMMA WindowNext ==
  ASSUME NEW rs \in Seq(Root), NEW t \in Root, NEW w, Ascending(w, Len(rs)), HoldsWindow(w, rs)
  PROVE  HoldsWindow(Sealed(w, t, Len(rs)), Append(rs, t))
<1> DEFINE h == Len(rs)
           v == Sealed(w, t, h)
           ss == Append(rs, t)
<1>1. h \in Nat /\ Len(ss) = h + 1 /\ ss[h + 1] = t /\ \A k \in 1..h : ss[k] = rs[k]
  OBVIOUS
<1>2. \A a \in Anchor : AnchorValid(v, a) <=>
                          /\ AnchorValid(w, a) \/ a = [height |-> h, root |-> t]
                          /\ h < a.height + ANCHOR_WINDOW
  <2>1. t \in Seq(Leaf)
    BY DEF Root
  <2> HIDE DEF h
  <2> QED BY <1>1, <2>1, SealedKeeps DEF h
<1>3. \A a \in Anchor : AnchorValid(w, a) <=>
                          /\ a.height < h /\ h <= a.height + ANCHOR_WINDOW
                          /\ a.root = rs[a.height + 1]
  BY DEF HoldsWindow
<1> HIDE DEF h, v, ss
<1>4. ASSUME NEW a \in Anchor
      PROVE  AnchorValid(v, a) <=>
                /\ a.height < Len(ss) /\ Len(ss) <= a.height + ANCHOR_WINDOW
                /\ a.root = ss[a.height + 1]
  <2> DEFINE g == a.height
  <2>1. g \in Nat /\ a = [height |-> g, root |-> a.root] /\ ANCHOR_WINDOW \in Nat \ {0}
    BY WindowAssumption DEF Anchor
  <2>2. a = [height |-> h, root |-> t] <=> g = h /\ a.root = t
    BY <2>1
  <2> HIDE DEF g
  <2>3. CASE g < h
    <3>1. ss[g + 1] = rs[g + 1]
      BY <2>1, <2>3, <1>1
    <3> QED BY <3>1, <2>1, <2>2, <2>3, <1>1, <1>2, <1>3 DEF g
  <2>4. CASE g = h
    BY <2>1, <2>2, <2>4, <1>1, <1>2, <1>3 DEF g
  <2>5. CASE g > h
    BY <2>1, <2>2, <2>5, <1>1, <1>2, <1>3 DEF g
  <2> QED BY <2>1, <2>3, <2>4, <2>5, <1>1
<1> QED BY <1>4 DEF HoldsWindow, v, ss, h

-----------------------------------------------------------------------------
(* The replicas of the cluster are one ledger, in good order and with the  *)
(* window of the sealed roots; the round holds submittable transactions.   *)
RoundInv ==
    /\ cluster = [r \in Replicas |-> cluster[1]]
    /\ GoodLedger(cluster[1]) /\ cluster[1].height <= MaxHeight
    /\ roots \in Seq(Root) /\ Len(roots) = cluster[1].height + 1
    /\ HoldsWindow(cluster[1].anchors, roots)
    /\ submitted \in Seq(Submittable(roots)) /\ Len(submitted) <= MaxTxs

(* Genesis is a good ledger, with its window.                              *)
LEMMA RoundInvInit == Init => RoundInv
<1> SUFFICES ASSUME Init PROVE RoundInv
  OBVIOUS
<1>1. cluster = [r \in Replicas |-> GenesisLedger] /\ cluster[1] = GenesisLedger
  BY ReplicasAssumption DEF Init
<1>2. GenesisLedger.height = 0 /\ GenesisLedger.anchors = Sealed(<< >>, Genesis, 0)
  BY DEF GenesisLedger
<1>3. GoodLedger(GenesisLedger)
  BY GenesisGood
<1>4. roots = <<Genesis>> /\ Genesis \in Root /\ submitted = << >>
  BY GenesisAssumption DEF Init, Root
<1>5. HoldsWindow(GenesisLedger.anchors, roots)
  <2> DEFINE none == << >>
  <2>1. none \in Seq(Root) /\ Len(none) = 0 /\ Append(none, Genesis) = roots
    BY <1>4
  <2>2. Ascending(none, Len(none))
    BY DEF Ascending
  <2>3. HoldsWindow(none, none)
    BY DEF HoldsWindow, AnchorValid, Anchor
  <2>4. HoldsWindow(Sealed(none, Genesis, Len(none)), Append(none, Genesis))
    BY ONLY <2>1, <2>2, <2>3, <1>4, WindowNext
  <2> QED BY <2>1, <2>4, <1>2
<1>6. /\ roots \in Seq(Root) /\ Len(roots) = 1
      /\ submitted \in Seq(Submittable(roots)) /\ Len(submitted) <= MaxTxs
  BY <1>4, BoundsAssumption
<1> QED BY <1>1, <1>2, <1>3, <1>5, <1>6, BoundsAssumption DEF RoundInv

(* What the round is, before it is committed.                              *)
LEMMA RoundTyped ==
  ASSUME RoundInv, RankOrders
  PROVE  /\ submitted \in Seq(Tx) /\ Len(roots) > 0
         /\ Linearizes(CommitOrder(submitted), submitted)
<1>1. roots \in Seq(Root) /\ Len(roots) > 0
  BY DEF RoundInv, GoodLedger
<1>2. submitted \in Seq(Tx)
  BY <1>1, SubmittableTyped DEF RoundInv
<1> QED BY <1>1, <1>2, CommitOrderLinearizes

(* A committed round leaves one ledger, again.                             *)
LEMMA CommitApplies ==
  ASSUME RoundInv, RankOrders, CommitRound
  PROVE  /\ cluster' = [r \in Replicas |-> cluster'[1]]
         /\ cluster'[1] = ApplyCheckpoint(cluster[1], CommitOrder(submitted))
         /\ Applied(cluster[1], CommitOrder(submitted), cluster'[1])
<1> DEFINE L == cluster[1]
           o == CommitOrder(submitted)
           M == ApplyCheckpoint(L, o)
<1>1. cluster = [r \in Replicas |-> L] /\ GoodLedger(L) /\ L.height < MaxHeight
  BY DEF RoundInv, CommitRound
<1>2. cluster' = [r \in DOMAIN cluster |-> ApplyCheckpoint(cluster[r], o)]
  BY DEF CommitRound, ApplyToAll
<1>3. o \in Seq(Tx)
  BY RoundTyped DEF Linearizes
<1>4. Applied(L, o, M)
  <2> HIDE DEF L, o
  <2> QED BY <1>1, <1>3, ApplyFacts
<1> HIDE DEF L, o
<1>5. cluster' = [r \in Replicas |-> M]
  BY <1>1, <1>2
<1> QED BY <1>4, <1>5, ReplicasAssumption DEF L, o

(* RoundInv is inductive.                                                  *)
LEMMA RoundInvStep == RankOrders /\ RoundInv /\ [Next]_cvars => RoundInv'
<1> SUFFICES ASSUME RankOrders, RoundInv, [Next]_cvars PROVE RoundInv'
  OBVIOUS
<1>1. ASSUME NEW tx \in Submittable(roots), NEW place \in 1..(Len(heard) + 1), Submit(tx, place)
      PROVE  RoundInv'
  <2>1. /\ cluster' = cluster /\ roots' = roots /\ submitted' = Append(submitted, tx)
        /\ Len(submitted) < MaxTxs
    BY <1>1 DEF Submit
  <2>2. submitted' \in Seq(Submittable(roots)) /\ Len(submitted') = Len(submitted) + 1
    BY <2>1, <1>1 DEF RoundInv
  <2>3. Len(submitted) \in Nat
    BY DEF RoundInv
  <2> QED BY <2>1, <2>2, <2>3, BoundsAssumption DEF RoundInv
<1>2. CASE CommitRound
  <2> DEFINE L == cluster[1]
             M == cluster'[1]
             h == Len(roots)
  <2>1. /\ cluster' = [r \in Replicas |-> M] /\ Applied(L, CommitOrder(submitted), M)
        /\ roots' = Append(roots, M.leaves) /\ submitted' = << >> /\ L.height < MaxHeight
    BY <1>2, CommitApplies DEF CommitRound
  <2>2. /\ GoodLedger(L) /\ L.height \in Nat /\ h = L.height + 1
        /\ roots \in Seq(Root) /\ HoldsWindow(L.anchors, roots) /\ Ascending(L.anchors, h)
    BY DEF RoundInv, GoodLedger
  <2>3. /\ GoodLedger(M) /\ M.height = h /\ M.leaves \in Root
        /\ M.anchors = Sealed(L.anchors, M.leaves, h)
    BY <2>1, <2>2 DEF Applied, GoodLedger, Root
  <2>4. HoldsWindow(M.anchors, roots')
    <3> DEFINE t == M.leaves
               w == L.anchors
    <3>1. t \in Root /\ Ascending(w, Len(roots)) /\ HoldsWindow(w, roots) /\ roots \in Seq(Root)
      BY <2>2, <2>3
    <3> HIDE DEF t, w
    <3>2. HoldsWindow(Sealed(w, t, Len(roots)), Append(roots, t))
      BY ONLY <3>1, WindowNext
    <3> QED BY <3>2, <2>1, <2>3 DEF t, w
  <2>5. roots' \in Seq(Root) /\ Len(roots') = h + 1
    BY <2>1, <2>2, <2>3
  <2>6. submitted' \in Seq(Submittable(roots')) /\ Len(submitted') <= MaxTxs
    BY <2>1, BoundsAssumption
  <2>7. M.height <= MaxHeight
    BY <2>1, <2>2, <2>3, BoundsAssumption
  <2> QED BY <2>1, <2>3, <2>4, <2>5, <2>6, <2>7 DEF RoundInv
<1>3. CASE UNCHANGED cvars
  BY <1>3 DEF RoundInv, cvars
<1> QED BY <1>1, <1>2, <1>3 DEF Next, Quiesce

-----------------------------------------------------------------------------
(* No two bodies on offer share what the binding digest covers (it leaves  *)
(* out the proof and the anti-spam artifact).  Without this the order of   *)
(* submission matters: run consensus_twins.                                *)
OneBodyPerDigest ==
    \A b, c \in Bodies :
        b.nullifiers = c.nullifiers /\ b.commitments = c.commitments => b = c

(* Then no two submittable transactions share a digest.                    *)
LEMMA SubmittableApart ==
  ASSUME OneBodyPerDigest, NEW rs, NEW S \in SUBSET Submittable(rs)
  PROVE  TellsApart(S)
<1> SUFFICES ASSUME NEW t \in S, NEW u \in S, BindingDigest(t) = BindingDigest(u)
             PROVE  t = u
  BY DEF TellsApart
<1>1. PICK b \in Bodies, a \in ClaimableAnchors(rs) : t = WithAnchor(b, a)
  BY DEF Submittable
<1>2. PICK c \in Bodies, e \in ClaimableAnchors(rs) : u = WithAnchor(c, e)
  BY DEF Submittable
<1>3. a = e /\ b.nullifiers = c.nullifiers /\ b.commitments = c.commitments
  BY <1>1, <1>2 DEF BindingDigest, WithAnchor
<1>4. b = c
  BY <1>3 DEF OneBodyPerDigest
<1> QED BY <1>1, <1>2, <1>3, <1>4

(* Inserting adds the element, wherever it is put.                         *)
LEMMA InsertKeeps ==
  ASSUME NEW S, NEW s \in Seq(S), NEW e \in S, NEW p \in 1..(Len(s) + 1)
  PROVE  InsertAt(s, p, e) \in Seq(S) /\ Range(InsertAt(s, p, e)) = Range(s) \cup {e}
<1> DEFINE a == SubSeq(s, 1, p - 1)
           b == SubSeq(s, p, Len(s))
           n == Len(s)
           r == InsertAt(s, p, e)
<1>1. n \in Nat /\ p \in Nat /\ p >= 1 /\ p <= n + 1 /\ DOMAIN s = 1..n
  OBVIOUS
<1>2. /\ a \in Seq(S) /\ Len(a) = p - 1 /\ \A k \in 1..(p - 1) : a[k] = s[k]
      /\ b \in Seq(S) /\ Len(b) = n - p + 1 /\ \A k \in 1..(n - p + 1) : b[k] = s[p + k - 1]
  BY <1>1
<1>3. r = a \o <<e>> \o b
  BY DEF InsertAt
<1> HIDE DEF a, b, n, r
<1>4. r \in Seq(S) /\ Len(r) = n + 1
  BY <1>1, <1>2, <1>3
<1>5. \A k \in 1..(p - 1) : r[k] = s[k]
  BY <1>1, <1>2, <1>3
<1>6. r[p] = e
  BY <1>1, <1>2, <1>3
<1>7. \A k \in (p + 1)..(n + 1) : r[k] = s[k - 1]
  <2> SUFFICES ASSUME NEW k \in (p + 1)..(n + 1) PROVE r[k] = s[k - 1]
    OBVIOUS
  <2>1. k - p \in 1..(n - p + 1) /\ p + (k - p) - 1 = k - 1
    BY <1>1
  <2>2. r[k] = b[k - p]
    <3> DEFINE c == a \o <<e>>
    <3>1. c \in Seq(S) /\ Len(c) = p
      BY <1>1, <1>2
    <3> HIDE DEF c
    <3>2. k \in 1..(Len(c) + Len(b)) /\ ~(k <= Len(c))
      BY <3>1, <1>1, <1>2
    <3>3. (c \o b)[k] = b[k - Len(c)]
      <4>1. b \in Seq(S)
        BY <1>2
      <4> QED BY ONLY <3>1, <3>2, <4>1, ConcatProperties
    <3> QED BY <3>1, <3>3, <1>3 DEF c
  <2> QED BY <2>1, <2>2, <1>2
<1>8. Range(r) = Range(s) \cup {e}
  <2>1. ASSUME NEW x \in Range(r) PROVE x \in Range(s) \cup {e}
    <3>1. PICK k \in 1..(n + 1) : x = r[k]
      BY <1>4 DEF Range
    <3>2. k < p \/ k = p \/ k > p
      BY <1>1
    <3>3. CASE k < p
      <4>1. k \in 1..(p - 1) /\ k \in 1..n
        BY <3>3, <1>1
      <4> QED BY <4>1, <3>1, <1>1, <1>5 DEF Range
    <3>4. CASE k > p
      <4>1. k \in (p + 1)..(n + 1) /\ k - 1 \in 1..n
        BY <3>4, <1>1
      <4> QED BY <4>1, <3>1, <1>1, <1>7 DEF Range
    <3> QED BY <3>1, <3>2, <3>3, <3>4, <1>6
  <2>2. ASSUME NEW x \in Range(s) PROVE x \in Range(r)
    <3>1. PICK k \in 1..n : x = s[k]
      BY <1>1 DEF Range
    <3>2. CASE k < p
      <4>1. k \in 1..(p - 1) /\ k \in DOMAIN r
        BY <3>2, <1>1, <1>4
      <4> QED BY <4>1, <3>1, <1>5 DEF Range
    <3>3. CASE k >= p
      <4>1. k + 1 \in (p + 1)..(n + 1) /\ k + 1 \in DOMAIN r /\ (k + 1) - 1 = k
        BY <3>3, <1>1, <1>4
      <4>2. r[k + 1] = x
        BY <4>1, <3>1, <1>7
      <4> QED BY <4>1, <4>2 DEF Range
    <3> QED BY <3>2, <3>3, <1>1
  <2>3. e \in Range(r)
    BY <1>1, <1>4, <1>6 DEF Range
  <2> QED BY <2>1, <2>2, <2>3
<1> QED BY <1>4, <1>8 DEF r

(* The mirror got what the cluster got, and is where the cluster is.       *)
SameInv ==
    /\ mirror = cluster
    /\ heard \in Seq(Submittable(roots)) /\ Range(heard) = Range(submitted)

(* SameInv is inductive, with RoundInv.                                    *)
LEMMA SameInvStep ==
  RankOrders /\ OneBodyPerDigest /\ RoundInv /\ SameInv /\ [Next]_cvars => SameInv'
<1> SUFFICES ASSUME RankOrders, OneBodyPerDigest, RoundInv, SameInv, [Next]_cvars
             PROVE  SameInv'
  OBVIOUS
<1>1. ASSUME NEW tx \in Submittable(roots), NEW place \in 1..(Len(heard) + 1), Submit(tx, place)
      PROVE  SameInv'
  <2>1. /\ UNCHANGED <<cluster, mirror, roots>> /\ submitted' = Append(submitted, tx)
        /\ heard' = InsertAt(heard, place, tx)
    BY <1>1 DEF Submit
  <2>2. heard' \in Seq(Submittable(roots)) /\ Range(heard') = Range(heard) \cup {tx}
    BY <1>1, <2>1, InsertKeeps DEF SameInv
  <2>3. Range(submitted') = Range(submitted) \cup {tx}
    <3>1. submitted \in Seq(Submittable(roots))
      BY DEF RoundInv
    <3>2. /\ DOMAIN submitted' = DOMAIN submitted \cup {Len(submitted) + 1}
          /\ submitted'[Len(submitted) + 1] = tx
          /\ \A k \in DOMAIN submitted : submitted'[k] = submitted[k]
      BY <3>1, <2>1, <1>1, AppendDomain
    <3>3. Len(submitted) + 1 \notin DOMAIN submitted
      BY <3>1
    <3> QED BY <3>2, <3>3 DEF Range
  <2> QED BY <2>1, <2>2, <2>3 DEF SameInv
<1>2. CASE CommitRound
  <2>1. submitted \in Seq(Tx) /\ heard \in Seq(Tx)
    <3>1. Submittable(roots) \subseteq Tx
      BY RoundTyped, SubmittableTyped DEF RoundInv
    <3> QED BY <3>1, RoundTyped DEF SameInv
  <2>2. TellsApart(Range(submitted))
    <3>1. Range(submitted) \in SUBSET Submittable(roots)
      BY DEF RoundInv, Range
    <3> QED BY <3>1, SubmittableApart
  <2>3. CommitOrder(heard) = CommitOrder(submitted)
    BY <2>1, <2>2, CommitOrderOfSet DEF SameInv
  <2>4. mirror' = cluster'
    BY <1>2, <2>3 DEF CommitRound, ApplyToAll, SameInv
  <2>5. heard' = << >> /\ submitted' = << >>
    BY <1>2 DEF CommitRound
  <2> QED BY <2>4, <2>5 DEF SameInv
<1>3. CASE UNCHANGED cvars
  BY <1>3 DEF SameInv, cvars
<1> QED BY <1>1, <1>2, <1>3 DEF Next, Quiesce

(* Clusters that got the same rounds, each in any order, hold equal        *)
(* ledgers, where no two transactions share a digest (commit_order,        *)
(* Cluster::commit_round).                                                 *)
THEOREM SubmissionOrderIrrelevantHolds ==
  ASSUME RankOrders, OneBodyPerDigest
  PROVE  Spec => []SubmissionOrderIrrelevant
<1>1. Init => RoundInv /\ SameInv
  <2>1. ASSUME Init PROVE SameInv
    BY <2>1 DEF Init, SameInv
  <2> QED BY <2>1, RoundInvInit
<1>2. RoundInv /\ SameInv /\ [Next]_cvars => RoundInv' /\ SameInv'
  BY RoundInvStep, SameInvStep
<1>3. RoundInv /\ SameInv => SubmissionOrderIrrelevant
  <2> SUFFICES ASSUME RoundInv, SameInv PROVE SubmissionOrderIrrelevant
    OBVIOUS
  <2>1. cluster = [r \in Replicas |-> cluster[1]] /\ mirror = cluster
    BY DEF RoundInv, SameInv
  <2>2. \A r \in DOMAIN cluster : cluster[r] = cluster[1]
    BY <2>1
  <2> QED BY <2>1, <2>2 DEF SubmissionOrderIrrelevant, Agreed
<1> QED BY <1>1, <1>2, <1>3, PTL DEF Spec

-----------------------------------------------------------------------------
(* A committed round settles precisely the winners of its linearization.   *)
LEMMA RoundWinners ==
  ASSUME RoundInv, RankOrders
  PROVE  \E R : HoldsWinners(cluster[1], CommitOrder(submitted), Len(CommitOrder(submitted)),
                             Scan(cluster[1], CommitOrder(submitted)), R, roots)
<1> DEFINE L == cluster[1]
           o == CommitOrder(submitted)
<1>1. o \in Seq(Tx)
  BY RoundTyped DEF Linearizes
<1>2. L.quota \in Registry /\ L.height + 1 = Len(roots) /\ HoldsWindow(L.anchors, roots)
  BY DEF RoundInv, GoodLedger
<1> HIDE DEF L, o
<1>3. \E R : HoldsWinners(L, o, Len(o), Scan(L, o), R, roots)
  BY <1>1, <1>2, ScanWinners
<1> QED BY <1>3 DEF L, o

(* The newest anchor may be spent from.                                    *)
LEMMA NewestSpendable ==
  ASSUME RoundInv
  PROVE  LET live == cluster[1].anchors
         IN  live[Len(live)] \in Anchor /\ AnchorValid(live, live[Len(live)])
<1> DEFINE L == cluster[1]
           live == L.anchors
<1>1. GoodLedger(L)
  BY DEF RoundInv
<1>2. live \in Seq(Anchor) /\ Newest(L) \in Anchor /\ Newest(L).height >= L.height
  BY <1>1 DEF GoodLedger, Ascending, Newest, Anchor, Root
<1>3. AnchorValid(live, Newest(L))
  BY <1>1, <1>2 DEF GoodLedger
<1>4. DOMAIN live # {}
  BY <1>3 DEF AnchorValid
<1> HIDE DEF L, live
<1>5. Len(live) \in DOMAIN live
  BY <1>2, <1>4
<1>6. live[Len(live)] \in Anchor /\ AnchorValid(live, live[Len(live)])
  BY <1>2, <1>5 DEF AnchorValid
<1> QED BY <1>6 DEF live, L

(* Every submission with an uncontested transaction's digest is a copy of  *)
(* it, so one of them is in the linearized round, and without a rival.     *)
LEMMA UncontestedStays ==
  ASSUME RoundInv, RankOrders, NEW k \in DOMAIN submitted, Uncontested(k)
  PROVE  LET o == CommitOrder(submitted)
         IN  \E n \in 1..Len(o) :
                /\ o[n] = submitted[k]
                /\ \A m \in 1..Len(o) : m # n => Nfs(o[m]) \cap Nfs(o[n]) = {}
<1> DEFINE o == CommitOrder(submitted)
           tx == submitted[k]
<1>1. submitted \in Seq(Tx) /\ Linearizes(o, submitted) /\ k \in 1..Len(submitted)
  BY RoundTyped
<1>2. \A j \in 1..Len(submitted) :
         submitted[j] # tx => Nfs(submitted[j]) \cap Nfs(tx) = {}
  BY <1>1 DEF Uncontested
<1> HIDE DEF o
<1>3. \A j \in 1..Len(submitted) :
         BindingDigest(submitted[j]) = BindingDigest(tx) => submitted[j] = tx
  <2> SUFFICES ASSUME NEW j \in 1..Len(submitted), submitted[j] # tx,
                      BindingDigest(submitted[j]) = BindingDigest(tx)
               PROVE  FALSE
    OBVIOUS
  <2>1. submitted[j].nullifiers = tx.nullifiers
    BY DEF BindingDigest
  <2>2. Nfs(submitted[j]) = Nfs(tx) /\ Nfs(tx) # {}
    BY <2>1 DEF Nfs
  <2> QED BY <2>2, <1>2
<1>4. PICK n \in 1..Len(o) : BindingDigest(o[n]) = BindingDigest(tx)
  BY <1>1 DEF Linearizes
<1>5. o[n] = tx
  <2>1. PICK j \in 1..Len(submitted) : o[n] = submitted[j]
    BY <1>1 DEF Linearizes
  <2> QED BY <2>1, <1>3, <1>4
<1>6. ASSUME NEW m \in 1..Len(o), m # n PROVE Nfs(o[m]) \cap Nfs(o[n]) = {}
  <2>1. PICK j \in 1..Len(submitted) : o[m] = submitted[j]
    BY <1>1 DEF Linearizes
  <2>2. BindingDigest(o[m]) # BindingDigest(o[n])
    BY <1>1, <1>6 DEF Linearizes
  <2>3. submitted[j] # tx
    BY <2>1, <2>2, <1>5
  <2> QED BY <2>1, <2>3, <1>2, <1>5
<1>7. \E l \in 1..Len(o) :
         /\ o[l] = tx
         /\ \A m \in 1..Len(o) : m # l => Nfs(o[m]) \cap Nfs(o[l]) = {}
  BY <1>5, <1>6
<1> QED BY <1>7 DEF o

(* It wins there, and is settled.                                          *)
LEMMA UncontestedWins ==
  ASSUME RoundInv, RankOrders, CommitRound, NEW k \in DOMAIN submitted, Uncontested(k)
  PROVE  Nfs(submitted[k]) \subseteq cluster'[1].nullifiers
<1> DEFINE L == cluster[1]
           o == CommitOrder(submitted)
           tx == submitted[k]
           live == L.anchors
           sp == L.nullifiers
           sl == DOMAIN L.quota
<1>1. /\ tx.anchor = live[Len(live)] /\ ValidateStateless(tx) /\ tx.antispam.lane = "pow"
      /\ Nfs(tx) \cap sp = {}
  BY DEF Uncontested
<1>2. CanWin(tx, sp, sl, roots)
  <2>1. tx.anchor \in Anchor /\ AnchorValid(live, tx.anchor)
    BY <1>1, NewestSpendable
  <2>2. HoldsWindow(live, roots)
    BY DEF RoundInv
  <2> QED BY <2>1, <2>2, <1>1 DEF CanWin, HoldsWindow
<1>3. cluster'[1].nullifiers = sp \cup Scan(L, o).seen
  BY CommitApplies DEF Applied
<1>4. PICK R : HoldsWinners(L, o, Len(o), Scan(L, o), R, roots)
  BY RoundWinners
<1>5. PICK n \in 1..Len(o) :
         /\ o[n] = tx
         /\ \A m \in 1..Len(o) : m # n => Nfs(o[m]) \cap Nfs(o[n]) = {}
  BY UncontestedStays
<1> HIDE DEF L, o, tx, live
<1>6. n \in Nat /\ \A j \in Won(Len(o), R) : j \in 1..Len(o) /\ j \in Nat
  BY DEF Won
<1>7. \A j \in Won(Len(o), R) : j < n => ~Rivals(o[j], o[n])
  <2> SUFFICES ASSUME NEW j \in Won(Len(o), R), j < n PROVE ~Rivals(o[j], o[n])
    OBVIOUS
  <2>1. Nfs(o[j]) \cap Nfs(o[n]) = {}
    BY <1>5, <1>6
  <2>2. o[n].antispam.lane # "quota"
    BY <1>1, <1>5
  <2> QED BY <2>1, <2>2 DEF Rivals
<1>8. Wins(n, o, Won(Len(o), R), sp, sl, roots)
  BY <1>2, <1>5, <1>7 DEF Wins
<1>9. n \in Won(Len(o), R)
  BY <1>4, <1>8 DEF HoldsWinners, Decided, Won
<1>10. Nfs(tx) \subseteq Scan(L, o).seen
  BY <1>4, <1>5, <1>9 DEF HoldsWinners, SpentOf
<1> QED BY <1>3, <1>10 DEF tx

(* A transaction submitted well formed on the current anchor, once or more *)
(* often, competing with no other, is settled by its round (commit_order's *)
(* dedup keeps one of the copies).                                         *)
THEOREM UncontestedCommitsHolds == ASSUME RankOrders PROVE Spec => UncontestedCommits
<1>1. RoundInv /\ [Next]_cvars =>
        [cluster' # cluster =>
           \A k \in DOMAIN submitted :
              Uncontested(k) => Nfs(submitted[k]) \subseteq cluster'[1].nullifiers]_cvars
  <2> SUFFICES ASSUME RoundInv, [Next]_cvars, cluster' # cluster, NEW k \in DOMAIN submitted,
                      Uncontested(k)
               PROVE  Nfs(submitted[k]) \subseteq cluster'[1].nullifiers
    OBVIOUS
  <2>1. CommitRound
    BY DEF Next, Submit, Quiesce, cvars
  <2> QED BY <2>1, UncontestedWins
<1> QED BY <1>1, RoundInvInit, RoundInvStep, PTL DEF Spec, UncontestedCommits

-----------------------------------------------------------------------------
(* An empty round is an empty batch.                                       *)
LEMMA NothingToOrder == CommitOrder(<< >>) = << >>
<1> DEFINE D == {BindingDigest((<< >>)[k]) : k \in DOMAIN << >>}
           s == InOrder(D)
<1>1. D = {} /\ Cardinality(D) = 0
  BY FS_EmptySet
<1> HIDE DEF D
<1> DEFINE none == << >>
<1>2. /\ none \in [1..Cardinality(D) -> D]
      /\ \A j, k \in DOMAIN none : j < k => Rank(none[j]) < Rank(none[k])
  BY <1>1
<1> HIDE DEF none
<1>3. s \in [1..Cardinality(D) -> D]
  BY <1>2 DEF InOrder
<1> HIDE DEF s
<1>4. DOMAIN s = {}
  BY <1>1, <1>3
<1>5. CommitOrder(<< >>) =
        [n \in DOMAIN s |->
            (<< >>)[Min({k \in DOMAIN << >> : BindingDigest((<< >>)[k]) = s[n]})]]
  BY DEF CommitOrder, s, D
<1> QED BY <1>4, <1>5

(* A linearized round is a batch that may be offered.                      *)
LEMMA RoundIsBatch ==
  ASSUME NEW txs, NEW rs \in Seq(Root), Len(rs) > 0, RankOrders,
         txs \in Seq(Submittable(rs)), Len(txs) <= MaxTxs
  PROVE  CommitOrder(txs) \in Batches(rs)
<1> DEFINE o == CommitOrder(txs)
<1>1. txs \in Seq(Tx)
  BY SubmittableTyped
<1>2. Linearizes(o, txs)
  BY <1>1, CommitOrderLinearizes
<1> HIDE DEF o
<1>3. Len(o) \in 0..MaxTxs /\ o \in Seq(Tx)
  BY <1>2, BoundsAssumption DEF Linearizes
<1>4. ASSUME NEW n \in 1..Len(o) PROVE o[n] \in Submittable(rs)
  <2>1. PICK k \in 1..Len(txs) : o[n] = txs[k]
    BY <1>2 DEF Linearizes
  <2> QED BY <2>1
<1>5. o \in [1..Len(o) -> Submittable(rs)]
  BY <1>3, <1>4
<1>6. o \in Batches(rs)
  BY <1>3, <1>5 DEF Batches
<1> QED BY <1>6 DEF o

(* What the contract says of a round is what is said of it here.           *)
LEMMA ContractReads ==
  ASSUME NEW o, o = CommitOrder(submitted), NEW W \in SUBSET DOMAIN o
  PROVE  /\ Contract!AreWinners(W) <=>
              \A k \in DOMAIN o :
                 k \in W <=> Wins(k, o, W, cluster[1].nullifiers, DOMAIN cluster[1].quota, roots)
         /\ UNION {Contract!Nfs(o[k]) : k \in W} = SpentOf(o, W)
         /\ {Contract!Slot(o[k]) : k \in {w \in W : Contract!IsQuota(o[w])}} = SlotsOf(o, W)
<1>1. ASSUME NEW tx PROVE /\ Contract!Nfs(tx) = Nfs(tx) /\ Contract!Slot(tx) = Slot(tx)
                          /\ Contract!IsQuota(tx) <=> tx.antispam.lane = "quota"
  BY DEF Contract!Nfs, Nfs, Contract!Slot, Slot, Contract!IsQuota
<1>2. ASSUME NEW tx
      PROVE  Contract!Admissible(tx) <=>
               CanWin(tx, cluster[1].nullifiers, DOMAIN cluster[1].quota, roots)
  BY <1>1 DEF Contract!Admissible, CanWin, Contract!Spendable, Contract!now,
              Contract!ValidateStateless, ValidateStateless
<1>3. ASSUME NEW s, NEW t PROVE Contract!Compete(s, t) <=> Rivals(s, t)
  BY <1>1 DEF Contract!Compete, Rivals
<1>4. Contract!AreWinners(W) <=>
        \A k \in DOMAIN o :
           k \in W <=> Contract!Admissible(o[k])
                         /\ ~\E j \in W : j < k /\ Contract!Compete(o[j], o[k])
  BY DEF Contract!AreWinners
<1>5. Contract!AreWinners(W) <=>
        \A k \in DOMAIN o :
           k \in W <=> Wins(k, o, W, cluster[1].nullifiers, DOMAIN cluster[1].quota, roots)
  BY <1>2, <1>3, <1>4 DEF Wins
<1>6. UNION {Contract!Nfs(o[k]) : k \in W} = SpentOf(o, W)
  BY <1>1 DEF SpentOf
<1>7. {Contract!Slot(o[k]) : k \in {w \in W : Contract!IsQuota(o[w])}} = SlotsOf(o, W)
  BY <1>1 DEF SlotsOf
<1> QED BY <1>5, <1>6, <1>7

(* A committed round is the contract's one step.                           *)
LEMMA CommitIsSettle ==
  ASSUME RoundInv, RankOrders, CommitRound
  PROVE  Contract!Settle
<1> DEFINE L == cluster[1]
           M == cluster'[1]
           o == CommitOrder(submitted)
           n == Len(o)
           h == Len(roots)
           s == Scan(L, o)
<1>1. Applied(L, o, M) /\ roots' = Append(roots, M.leaves) /\ L.height < MaxHeight
  BY CommitApplies DEF CommitRound
<1>2. CommitOrder(submitted)' = << >>
  <2>1. submitted' = << >>
    BY DEF CommitRound
  <2> QED BY <2>1, NothingToOrder
<1>3. h = L.height + 1 /\ h <= MaxHeight
  <2>1. h = L.height + 1 /\ L.height \in Nat
    BY DEF RoundInv, GoodLedger
  <2> HIDE DEF h, L
  <2> QED BY <1>1, <2>1, BoundsAssumption
<1>4. o \in Seq(Tx)
  BY RoundTyped DEF Linearizes
<1>5. PICK R : HoldsWinners(L, o, n, s, R, roots)
  BY RoundWinners
<1> DEFINE W == Won(n, R)
<1>6. DOMAIN o = 1..n /\ W \in SUBSET DOMAIN o
  BY <1>4 DEF Won
<1>7. /\ M.leaves = L.leaves \o s.staged_cm \o MintedLeaves(h) /\ M.quota = s.quota
      /\ M.nullifiers = L.nullifiers \cup s.seen
      /\ M.supply = L.supply + SumFunction(Shares[h])
  BY <1>1, <1>3 DEF Applied
<1>8. /\ Decided(o, n, R, L.nullifiers, DOMAIN L.quota, roots)
      /\ s.seen = SpentOf(o, W) /\ DOMAIN s.quota = DOMAIN L.quota \cup SlotsOf(o, W)
      /\ s.staged_cm = OutputsOf(o, n, R)
  BY <1>5 DEF HoldsWinners
<1> HIDE DEF s, h
<1>9. Contract!AreWinners(W)
  <2>1. \A k \in 1..n : k \in W <=> k \notin R
    BY DEF Won
  <2>2. \A k \in DOMAIN o :
           k \in W <=> Wins(k, o, W, L.nullifiers, DOMAIN L.quota, roots)
    BY <2>1, <1>6, <1>8 DEF Decided
  <2> HIDE DEF W, n
  <2> QED BY <2>2, <1>6, ContractReads
<1>10. /\ M.nullifiers = L.nullifiers \cup UNION {Contract!Nfs(o[k]) : k \in W}
       /\ DOMAIN M.quota = DOMAIN L.quota \cup
             {Contract!Slot(o[k]) : k \in {w \in W : Contract!IsQuota(o[w])}}
  <2> HIDE DEF W, n
  <2> QED BY <1>6, <1>7, <1>8, ContractReads
<1>11. Contract!Outputs(W) = OutputsOf(o, n, R)
  <2> DEFINE f == [k \in DOMAIN o |-> IF k \in W THEN o[k].commitments ELSE << >>]
  <2>1. f = [k \in 1..n |-> IF k \in R THEN << >> ELSE o[k].commitments]
    <3> HIDE DEF o
    <3> QED BY <1>6 DEF Won
  <2>2. Contract!Outputs(W) = Contract!FlattenSeq(f)
    BY DEF Contract!Outputs
  <2> HIDE DEF f
  <2>3. Contract!FlattenSeq(f) = FlattenSeq(f)
    BY DEF Contract!FlattenSeq, FlattenSeq
  <2> QED BY <2>1, <2>2, <2>3 DEF OutputsOf
<1>12. Contract!Rewards(h) = MintedLeaves(h)
  BY DEF Contract!Rewards, Contract!RewardLeaf, RewardLeaf, MintedLeaves
<1> HIDE DEF W, n, o, L, M
<1>13. M.leaves = L.leaves \o Contract!Outputs(W) \o Contract!Rewards(h)
  BY ONLY <1>7, <1>8, <1>11, <1>12, Zenon
<1>14. M.supply = L.supply + Contract!SumFunction(Shares[h])
  <2> DEFINE f == Shares[h]
  <2> HIDE DEF f
  <2>1. Contract!SumFunction(f) = SumFunction(f)
    BY DEF Contract!SumFunction, Contract!SumFunctionOnSet, SumFunction, SumFunctionOnSet,
           Contract!FoldFunctionOnSet, FoldFunctionOnSet, Contract!MapThenFoldSet, MapThenFoldSet
  <2> QED BY ONLY <2>1, <1>7, Zenon DEF f
<1>15. \E V \in SUBSET DOMAIN o :
          /\ Contract!AreWinners(V)
          /\ M.leaves = L.leaves \o Contract!Outputs(V) \o Contract!Rewards(h)
          /\ M.nullifiers = L.nullifiers \cup UNION {Contract!Nfs(o[k]) : k \in V}
          /\ DOMAIN M.quota = DOMAIN L.quota \cup
                {Contract!Slot(o[k]) : k \in {w \in V : Contract!IsQuota(o[w])}}
  BY ONLY <1>6, <1>9, <1>10, <1>13, Zenon
<1>16. Contract!now = h
  BY DEF Contract!now, h
<1> QED
  BY ONLY <1>1, <1>2, <1>3, <1>14, <1>15, <1>16, Zenon DEF Contract!Settle, o, L, M

(* Every step of the clusters is a step of the contract, or none.          *)
LEMMA StepIsContractStep ==
  RankOrders /\ RoundInv /\ [Next]_cvars => [Contract!CNext]_(Contract!cvars)
<1> SUFFICES ASSUME RankOrders, RoundInv, [Next]_cvars
             PROVE  Contract!Offer \/ Contract!Settle \/ UNCHANGED <<submitted, cluster, roots>>
  BY DEF Contract!CNext, Contract!cvars
<1>1. ASSUME NEW tx \in Submittable(roots), NEW place \in 1..(Len(heard) + 1), Submit(tx, place)
      PROVE  Contract!Offer
  <2>1. cluster' = cluster /\ roots' = roots
    BY <1>1 DEF Submit
  <2>2. /\ roots' \in Seq(Root) /\ Len(roots') > 0 /\ submitted' \in Seq(Submittable(roots'))
        /\ Len(submitted') <= MaxTxs
    <3>1. RoundInv'
      BY RoundInvStep
    <3>2. roots' \in Seq(Root) /\ Len(roots') = cluster'[1].height + 1 /\ cluster'[1].height \in Nat
      BY <3>1 DEF RoundInv, GoodLedger
    <3> QED BY <3>1, <3>2 DEF RoundInv
  <2>3. CommitOrder(submitted') \in Batches(roots')
    BY <2>2, RoundIsBatch
  <2>4. Contract!Batches(roots) = Batches(roots)
    BY DEF Contract!Batches, Batches, Contract!Submittable, Submittable, Contract!WithAnchor,
           WithAnchor, Contract!ClaimableAnchors, ClaimableAnchors
  <2>5. CommitOrder(submitted') \in Contract!Batches(roots)
    BY <2>1, <2>3, <2>4
  <2> QED BY <2>1, <2>5 DEF Contract!Offer
<1>2. CASE CommitRound
  BY <1>2, CommitIsSettle
<1>3. CASE UNCHANGED cvars
  BY <1>3 DEF cvars
<1> QED BY <1>1, <1>2, <1>3 DEF Next, Quiesce

(* A replica driven by committed rounds keeps the ledger's contract, the   *)
(* batch being the linearized round (Cluster::commit_round).               *)
THEOREM ReplicaKeepsContractHolds == ASSUME RankOrders PROVE Spec => ReplicaKeepsContract
<1>1. Init => Contract!CInit
  <2> SUFFICES ASSUME Init PROVE Contract!CInit
    OBVIOUS
  <2>1. cluster[1] = GenesisLedger /\ roots = <<Genesis>> /\ submitted = << >>
    BY ReplicasAssumption DEF Init
  <2>2. CommitOrder(submitted) = << >>
    BY <2>1, NothingToOrder
  <2>3. DOMAIN cluster[1].quota = {}
    BY <2>1 DEF GenesisLedger
  <2> QED BY <2>1, <2>2, <2>3 DEF Contract!CInit, GenesisLedger
<1> QED
  BY <1>1, RoundInvInit, RoundInvStep, StepIsContractStep, PTL
     DEF Spec, ReplicaKeepsContract, Contract!CSpec
=============================================================================
