-------------------------- MODULE CheckpointProofs --------------------------
(***************************************************************************)
(* Facts about the operators that every ledger of the project is made of:  *)
(* the deque of sealed anchors, batches, the winners of a batch, and       *)
(* apply_checkpoint as a function.                                         *)
(***************************************************************************)
EXTENDS Checkpoint, FoldTheorems

(* Appending adds one index, holding the new element, and leaves the rest. *)
LEMMA AppendDomain ==
  ASSUME NEW S, NEW s \in Seq(S), NEW e \in S
  PROVE  /\ DOMAIN Append(s, e) = DOMAIN s \cup {Len(s) + 1}
         /\ Len(s) + 1 \notin DOMAIN s
         /\ Append(s, e)[Len(s) + 1] = e
         /\ \A k \in DOMAIN s : Append(s, e)[k] = s[k]
OBVIOUS

-----------------------------------------------------------------------------
(* The anchor deque.                                                       *)

(* w holds the anchors of the last ANCHOR_WINDOW heights below h, and      *)
(* these are consecutive.                                                  *)
IsWindow(w, h) ==
    LET first == SaturatingSub(h, ANCHOR_WINDOW)
    IN  /\ w \in Seq(Anchor)
        /\ Len(w) = h - first
        /\ \A k \in 1..Len(w) : w[k].height = first + k - 1

(* By how much the first height of the window moves when h is sealed.      *)
Shift(h) == SaturatingSub(h + 1, ANCHOR_WINDOW) - SaturatingSub(h, ANCHOR_WINDOW)

(* s is w, less what left the window, with tree t sealed at h at its end.  *)
SealsInto(w, t, h, s) ==
    /\ Len(s) > 0
    /\ s[Len(s)] = [height |-> h, root |-> t]
    /\ \A k \in 1..(Len(s) - 1) :
          k + Shift(h) \in 1..Len(w) /\ s[k] = w[k + Shift(h)]

(* Sealing a window below h gives a window below h + 1 with the new anchor *)
(* at its end: seal evicts exactly the anchor that leaves the window.      *)
LEMMA SealedIsWindow ==
  ASSUME NEW w, NEW t \in Seq(Leaf), NEW h \in Nat, IsWindow(w, h)
  PROVE  /\ IsWindow(Sealed(w, t, h), h + 1)
         /\ SealsInto(w, t, h, Sealed(w, t, h))
<1> DEFINE a == [height |-> h, root |-> t]
           u == Append(w, a)
           f == SaturatingSub(h, ANCHOR_WINDOW)
           g == SaturatingSub(h + 1, ANCHOR_WINDOW)
           fresh == {k \in DOMAIN u : SaturatingSub(h, u[k].height) < ANCHOR_WINDOW}
           c == CHOOSE k \in fresh : \A j \in fresh : k <= j
           s == Sealed(w, t, h)
<1>1. /\ f \in Nat /\ g \in Nat /\ f <= h
      /\ w \in Seq(Anchor) /\ Len(w) = h - f
      /\ \A k \in 1..Len(w) : w[k].height = f + k - 1
  BY WindowAssumption DEF IsWindow, SaturatingSub
<1>2. a \in Anchor /\ a.height = h
  BY DEF Anchor, Root
<1>3. \/ h < ANCHOR_WINDOW /\ f = 0 /\ g = 0
      \/ h >= ANCHOR_WINDOW /\ f = h - ANCHOR_WINDOW /\ g = f + 1
  BY WindowAssumption DEF SaturatingSub
<1>4. s = EvictStale(u, h)
  BY DEF Sealed
<1> HIDE DEF a, f, g, s
<1>5. /\ u \in Seq(Anchor) /\ Len(u) = h - f + 1
      /\ \A k \in 1..Len(w) : u[k] = w[k]
      /\ u[Len(w) + 1] = a
  <2>1. /\ u \in Seq(Anchor) /\ Len(u) = Len(w) + 1
        /\ \A k \in 1..Len(w) : u[k] = w[k]
        /\ u[Len(w) + 1] = a
    <3> HIDE DEF fresh, c
    <3>1. w \in Seq(Anchor) /\ a \in Anchor
      BY <1>1, <1>2
    <3> QED
      BY <3>1
  <2> QED
    BY <2>1, <1>1
<1> HIDE DEF u
<1>6. DOMAIN u = 1..(h - f + 1)
  BY <1>5, LenProperties
<1>7. ASSUME NEW k \in 1..(h - f + 1)
      PROVE  u[k].height = f + k - 1
  <2>1. CASE k = h - f + 1
    BY <2>1, <1>1, <1>2, <1>5
  <2>2. CASE k # h - f + 1
    <3>1. k \in 1..Len(w)
      BY <2>2, <1>1
    <3> QED
      BY <3>1, <1>1, <1>5
  <2> QED
    BY <2>1, <2>2
<1>8. ASSUME NEW k \in 1..(h - f + 1)
      PROVE  k \in fresh <=> h - (f + k - 1) < ANCHOR_WINDOW
  <2>1. SaturatingSub(h, u[k].height) = h - (f + k - 1)
    BY <1>1, <1>7 DEF SaturatingSub
  <2> QED
    BY <2>1, <1>6
<1>9. fresh \subseteq 1..(h - f + 1)
  BY <1>6
<1>10. s = IF fresh = {} THEN << >> ELSE SubSeq(u, c, Len(u))
  BY <1>4 DEF EvictStale
<1> HIDE DEF fresh
<1>11. g - f \in {0, 1} /\ g - f + 1 \in 1..(h - f + 1)
  BY <1>1, <1>3, WindowAssumption
<1>12. g - f + 1 \in fresh
  BY <1>1, <1>3, <1>8, <1>11, WindowAssumption
<1>13. \A j \in fresh : g - f + 1 <= j
  BY <1>1, <1>3, <1>8, <1>9, WindowAssumption
<1>14. c = g - f + 1
  <2>1. c \in fresh /\ \A j \in fresh : c <= j
    BY <1>12, <1>13
  <2> HIDE DEF c
  <2> QED
    BY <2>1, <1>1, <1>9, <1>12, <1>13
<1>15. s = SubSeq(u, g - f + 1, Len(u))
  BY <1>10, <1>12, <1>14
<1>16. \A k \in (g - f + 1)..Len(u) : u[k] \in Anchor
  BY <1>1, <1>5, <1>11, ElementOfSeq
<1>17. /\ s \in Seq(Anchor)
       /\ Len(s) = h + 1 - g
       /\ Len(s) > 0
       /\ \A k \in 1..Len(s) : s[k] = u[k + (g - f)]
  <2>1. g - f + 1 \in Int /\ Len(u) \in Int /\ g - f + 1 <= Len(u)
    BY <1>1, <1>5, <1>11
  <2>2. /\ s \in Seq(Anchor)
        /\ Len(s) = Len(u) - (g - f + 1) + 1
        /\ \A k \in 1..(Len(u) - (g - f + 1) + 1) : s[k] = u[(g - f + 1) + k - 1]
    BY <1>15, <1>16, <2>1, SubSeqProperties
  <2> QED
    BY <2>1, <2>2, <1>1, <1>5
<1>18. IsWindow(s, h + 1)
  <2>1. ASSUME NEW k \in 1..Len(s)
        PROVE  s[k].height = g + k - 1
    <3>0. k \in Int /\ 1 <= k /\ k <= h + 1 - g
      BY <1>1, <1>17
    <3>1. k + (g - f) \in 1..(h - f + 1)
      BY <3>0, <1>1, <1>11
    <3>2. u[k + (g - f)].height = f + (k + (g - f)) - 1
      BY <3>1, <1>7
    <3>3. s[k] = u[k + (g - f)]
      BY <1>17
    <3> QED
      BY <3>2, <3>3, <1>1
  <2>2. s \in Seq(Anchor) /\ Len(s) = (h + 1) - g
    BY <1>1, <1>17
  <2>3. \A k \in 1..Len(s) : s[k].height = g + k - 1
    BY <2>1
  <2> HIDE DEF c
  <2> QED
    BY ONLY <2>2, <2>3, Zenon DEF IsWindow, g
<1>19. s[Len(s)] = a
  <2>1. s[Len(s)] = u[Len(s) + (g - f)]
    BY <1>17
  <2>2. Len(s) + (g - f) = Len(w) + 1
    BY <1>1, <1>17
  <2> QED
    BY <2>1, <2>2, <1>5
<1>20. \A k \in 1..(Len(s) - 1) : k + (g - f) \in 1..Len(w) /\ s[k] = w[k + (g - f)]
  BY <1>1, <1>5, <1>11, <1>17
<1>21. Shift(h) = g - f
  BY DEF Shift, g, f
<1>22. SealsInto(w, t, h, s)
  <2> HIDE DEF c
  <2>1. Len(s) > 0
    BY <1>17
  <2>2. s[Len(s)] = [height |-> h, root |-> t]
    BY <1>19 DEF a
  <2>3. \A k \in 1..(Len(s) - 1) :
          k + Shift(h) \in 1..Len(w) /\ s[k] = w[k + Shift(h)]
    BY ONLY <1>20, <1>21, Zenon
  <2> QED
    BY ONLY <2>1, <2>2, <2>3, Zenon DEF SealsInto
<1> QED
  BY <1>18, <1>22 DEF s

(* A ledger that has sealed nothing yet has an empty window.               *)
LEMMA EmptyWindow == IsWindow(<< >>, 0)
<1>1. SaturatingSub(0, ANCHOR_WINDOW) = 0
  BY WindowAssumption DEF SaturatingSub
<1>2. << >> \in Seq(Anchor) /\ Len(<< >>) = 0
  OBVIOUS
<1> QED
  BY <1>1, <1>2 DEF IsWindow

-----------------------------------------------------------------------------
(* What is offered.                                                        *)

(* A pair of commitments is a sequence of leaves.                          *)
LEMMA PairIsSeq ==
  ASSUME NEW c \in [1..2 -> Leaf]
  PROVE  c \in Seq(Leaf)
BY SeqDef

(* What clients submit has its type.                                       *)
LEMMA SubmittableTyped ==
  ASSUME NEW rs \in Seq(Root), Len(rs) > 0
  PROVE  Submittable(rs) \subseteq Tx
<1>1. ClaimableAnchors(rs) \subseteq Anchor
  BY DEF ClaimableAnchors, Anchor
<1>2. ASSUME NEW b \in Bodies, NEW a \in Anchor
      PROVE  WithAnchor(b, a) \in Tx
  BY BodiesAssumption DEF WithAnchor, Body, Tx
<1> QED BY <1>1, <1>2 DEF Submittable

(* Whatever is offered, on whatever roots were sealed, is a list of        *)
(* well-typed transactions.                                                *)
LEMMA BatchesTyped ==
  ASSUME NEW rs \in Seq(Root), Len(rs) > 0, NEW txs \in Batches(rs)
  PROVE  txs \in Seq(Tx)
<1>1. Submittable(rs) \subseteq Tx
  BY SubmittableTyped
<1>2. PICK n \in 0..MaxTxs : txs \in [1..n -> Submittable(rs)]
  BY DEF Batches
<1> QED
  BY <1>1, <1>2, BoundsAssumption

-----------------------------------------------------------------------------
(* The transactions of the first n that are not among the rejected R.      *)
Won(n, R) == {k \in 1..n : k \notin R}

(* What they spend, the quota slots they use, and their outputs in order.  *)
SpentOf(txs, W) == UNION {Nfs(txs[k]) : k \in W}

SlotsOf(txs, W) == {Slot(txs[k]) : k \in {w \in W : txs[w].antispam.lane = "quota"}}

OutputsOf(txs, n, R) ==
    FlattenSeq([k \in 1..n |-> IF k \in R THEN << >> ELSE txs[k].commitments])

(* Admissible and Compete of the contract, on given sets and roots.        *)
CanWin(tx, spent, slots, rs) ==
    /\ tx.anchor.height < Len(rs) /\ Len(rs) <= tx.anchor.height + ANCHOR_WINDOW
    /\ tx.anchor.root = rs[tx.anchor.height + 1]
    /\ ValidateStateless(tx)
    /\ Nfs(tx) \cap spent = {}
    /\ tx.antispam.lane = "quota" =>
          tx.antispam.epoch = Len(rs) \div EPOCH_LENGTH /\ Slot(tx) \notin slots

Rivals(s, t) ==
    \/ Nfs(s) \cap Nfs(t) # {}
    \/ s.antispam.lane = "quota" /\ t.antispam.lane = "quota" /\ Slot(s) = Slot(t)

Wins(k, txs, W, spent, slots, rs) ==
    CanWin(txs[k], spent, slots, rs) /\ ~\E j \in W : j < k /\ Rivals(txs[j], txs[k])

(* Of the first n, precisely the winners are not rejected.                 *)
Decided(txs, n, R, spent, slots, rs) ==
    \A k \in 1..n : k \notin R <=> Wins(k, txs, Won(n, R), spent, slots, rs)

-----------------------------------------------------------------------------
(* The winners, one transaction further.                                   *)
LEMMA WonNext ==
  ASSUME NEW n \in Nat, NEW R \in SUBSET (1..n)
  PROVE  /\ Won(n + 1, R) = Won(n, R) \cup {n + 1}
         /\ Won(n + 1, R \cup {n + 1}) = Won(n, R)
         /\ Won(0, R) = {}
BY DEF Won

(* Nobody has won nothing.                                                 *)
LEMMA WonNone ==
  ASSUME NEW txs, NEW sp, NEW sl, NEW rs, NEW R
  PROVE  /\ SpentOf(txs, {}) = {} /\ SlotsOf(txs, {}) = {}
         /\ Decided(txs, 0, R, sp, sl, rs) /\ Won(0, R) = {}
BY DEF SpentOf, SlotsOf, Decided, Won

(* A later transaction changes nothing in what is decided.                 *)
LEMMA DecidedNext ==
  ASSUME NEW txs, NEW n \in Nat, NEW R \in SUBSET (1..n), NEW sp, NEW sl, NEW rs,
         Decided(txs, n, R, sp, sl, rs)
  PROVE  /\ Wins(n + 1, txs, Won(n, R), sp, sl, rs) => Decided(txs, n + 1, R, sp, sl, rs)
         /\ ~Wins(n + 1, txs, Won(n, R), sp, sl, rs)
               => Decided(txs, n + 1, R \cup {n + 1}, sp, sl, rs)
<1> DEFINE W == Won(n, R)
<1>1. ASSUME NEW k \in 1..(n + 1)
      PROVE  Wins(k, txs, W \cup {n + 1}, sp, sl, rs) <=> Wins(k, txs, W, sp, sl, rs)
  BY DEF Wins
<1>2. n + 1 \notin R /\ \A k \in 1..(n + 1) : k = n + 1 \/ k \in 1..n
  OBVIOUS
<1>3. \A k \in 1..n : k \notin R <=> Wins(k, txs, W, sp, sl, rs)
  BY DEF Decided
<1>4. Won(n + 1, R) = W \cup {n + 1} /\ Won(n + 1, R \cup {n + 1}) = W
  BY WonNext
<1> HIDE DEF W
<1>5. ASSUME Wins(n + 1, txs, W, sp, sl, rs) PROVE Decided(txs, n + 1, R, sp, sl, rs)
  <2>1. ASSUME NEW k \in 1..(n + 1)
        PROVE  k \notin R <=> Wins(k, txs, Won(n + 1, R), sp, sl, rs)
    <3>1. Wins(k, txs, Won(n + 1, R), sp, sl, rs) <=> Wins(k, txs, W, sp, sl, rs)
      BY <1>1, <1>4
    <3> QED BY <3>1, <1>2, <1>3, <1>5
  <2> QED BY <2>1 DEF Decided
<1>6. ASSUME ~Wins(n + 1, txs, W, sp, sl, rs)
      PROVE  Decided(txs, n + 1, R \cup {n + 1}, sp, sl, rs)
  <2>1. ASSUME NEW k \in 1..(n + 1)
        PROVE  k \notin R \cup {n + 1}
                  <=> Wins(k, txs, Won(n + 1, R \cup {n + 1}), sp, sl, rs)
    <3>1. CASE k = n + 1
      BY <3>1, <1>4, <1>6
    <3>2. CASE k # n + 1
      <4>1. k \in 1..n
        BY <3>2, <1>2
      <4> QED BY <4>1, <3>2, <1>3, <1>4
    <3> QED BY <3>1, <3>2
  <2> QED BY <2>1 DEF Decided
<1> QED BY <1>5, <1>6 DEF W

(* The outputs, one transaction further.                                   *)
LEMMA OutputsNext ==
  ASSUME NEW txs \in Seq(Tx), NEW n \in Nat, n < Len(txs), NEW R \in SUBSET (1..n)
  PROVE  /\ OutputsOf(txs, n, R) \in Seq(Leaf)
         /\ OutputsOf(txs, n + 1, R) = OutputsOf(txs, n, R) \o txs[n + 1].commitments
         /\ OutputsOf(txs, n + 1, R \cup {n + 1}) = OutputsOf(txs, n, R)
<1> DEFINE f(Q) == [k \in 1..(n + 1) |-> IF k \in Q THEN << >> ELSE txs[k].commitments]
           m == n + 1
           Q == R \cup {m}
<1>1. ASSUME NEW T PROVE \A k \in 1..(n + 1) : f(T)[k] \in Seq(Leaf)
  <2>1. \A k \in 1..(n + 1) : txs[k] \in Tx
    OBVIOUS
  <2>2. \A k \in 1..(n + 1) : txs[k].commitments \in Seq(Leaf)
    BY <2>1, PairIsSeq DEF Tx
  <2> QED BY <2>2
<1>2. ASSUME NEW T
      PROVE  /\ FlattenSeq([k \in 1..n |-> f(T)[k]]) \in Seq(Leaf)
             /\ FlattenSeq([k \in 1..(n + 1) |-> f(T)[k]])
                  = FlattenSeq([k \in 1..n |-> f(T)[k]]) \o f(T)[n + 1]
  <2> DEFINE g == f(T)
  <2>1. \A k \in 1..(n + 1) : g[k] \in Seq(Leaf)
    BY <1>1
  <2> HIDE DEF g
  <2>2. /\ FlattenSeq([k \in 1..n |-> g[k]]) \in Seq(Leaf)
        /\ FlattenSeq([k \in 1..(n + 1) |-> g[k]])
             = FlattenSeq([k \in 1..n |-> g[k]]) \o g[n + 1]
    BY <2>1, FlattenNext
  <2> QED BY <2>2 DEF g
<1>3. ASSUME NEW T
      PROVE  /\ OutputsOf(txs, n, T) = FlattenSeq([k \in 1..n |-> f(T)[k]])
             /\ OutputsOf(txs, n + 1, T) = FlattenSeq([k \in 1..(n + 1) |-> f(T)[k]])
  <2>1. [k \in 1..n |-> f(T)[k]]
          = [k \in 1..n |-> IF k \in T THEN << >> ELSE txs[k].commitments]
    OBVIOUS
  <2>2. [k \in 1..(n + 1) |-> f(T)[k]]
          = [k \in 1..(n + 1) |-> IF k \in T THEN << >> ELSE txs[k].commitments]
    OBVIOUS
  <2> QED BY ONLY <2>1, <2>2, Zenon DEF OutputsOf
<1>4. f(R)[n + 1] = txs[n + 1].commitments
  OBVIOUS
<1>5. f(Q)[n + 1] = << >>
  OBVIOUS
<1>6. OutputsOf(txs, n, Q) = OutputsOf(txs, n, R)
  <2>1. [k \in 1..n |-> IF k \in Q THEN << >> ELSE txs[k].commitments]
          = [k \in 1..n |-> IF k \in R THEN << >> ELSE txs[k].commitments]
    OBVIOUS
  <2> QED BY ONLY <2>1, Zenon DEF OutputsOf
<1> HIDE DEF f, Q
<1>7. OutputsOf(txs, n + 1, R) = OutputsOf(txs, n, R) \o txs[n + 1].commitments
  BY ONLY <1>2, <1>3, <1>4, Zenon
<1>8. OutputsOf(txs, n + 1, Q) = OutputsOf(txs, n, R) \o << >> /\ OutputsOf(txs, n, R) \in Seq(Leaf)
  BY ONLY <1>2, <1>3, <1>5, <1>6, Zenon
<1>9. OutputsOf(txs, n + 1, Q) = OutputsOf(txs, n, R)
  BY <1>8, ConcatEmptySeq
<1> QED BY <1>7, <1>8, <1>9 DEF Q, m

(* They are leaves.                                                        *)
LEMMA OutputsTyped ==
  ASSUME NEW txs \in Seq(Tx), NEW R
  PROVE  OutputsOf(txs, Len(txs), R) \in Seq(Leaf)
<1> DEFINE n == Len(txs)
           f == [k \in 1..n |-> IF k \in R THEN << >> ELSE txs[k].commitments]
<1>1. n \in Nat /\ \A k \in 1..n : txs[k] \in Tx
  OBVIOUS
<1>2. \A k \in 1..n : txs[k].commitments \in Seq(Leaf)
  BY <1>1, PairIsSeq DEF Tx
<1>3. \A k \in 1..n : f[k] \in Seq(Leaf)
  BY <1>2
<1>4. f = [k \in 1..n |-> f[k]]
  OBVIOUS
<1>5. OutputsOf(txs, n, R) = FlattenSeq(f)
  BY DEF OutputsOf
<1> HIDE DEF n, f
<1>6. PICK g : Flattens(g, n, Leaf, f) /\ FlattenSeq([k \in 1..n |-> f[k]]) = g[n]
  BY <1>1, <1>3, FlattenRuns
<1>7. g[n] \in Seq(Leaf)
  BY <1>1, <1>6 DEF Flattens
<1> QED BY <1>4, <1>5, <1>6, <1>7 DEF n

(* w holds precisely the anchors that may be spent from on the roots rs.   *)
HoldsWindow(w, rs) ==
    \A a \in Anchor :
        AnchorValid(w, a) <=>
            /\ a.height < Len(rs) /\ Len(rs) <= a.height + ANCHOR_WINDOW
            /\ a.root = rs[a.height + 1]

(* The verdict on a transaction, judged against what the earlier winners W *)
(* staged and entered, is Accepted precisely if it is a winner too.        *)
LEMMA VerdictWins ==
  ASSUME NEW txs, NEW k, NEW W, NEW sp, NEW sl, NEW rs, NEW w, NEW seen, NEW q,
         txs[k] \in Tx, \A j \in W : j < k, HoldsWindow(w, rs),
         seen = SpentOf(txs, W), DOMAIN q = sl \cup SlotsOf(txs, W)
  PROVE  Verdict(txs[k], w, sp, seen, q, Len(rs)) = "Accepted" <=> Wins(k, txs, W, sp, sl, rs)
<1> DEFINE tx == txs[k]
           h == Len(rs)
<1>1. tx.anchor \in Anchor
  BY DEF Tx
<1>2. AnchorValid(w, tx.anchor) <=>
         /\ tx.anchor.height < h /\ h <= tx.anchor.height + ANCHOR_WINDOW
         /\ tx.anchor.root = rs[tx.anchor.height + 1]
  BY <1>1 DEF HoldsWindow
<1> HIDE DEF tx, h
<1>3. Nfs(tx) \cap (sp \cup seen) = {} <=>
         Nfs(tx) \cap sp = {} /\ \A j \in W : Nfs(txs[j]) \cap Nfs(tx) = {}
  BY DEF SpentOf
<1>4. QuotaAdmits(tx, q, h) <=>
         (tx.antispam.lane = "quota" =>
            /\ tx.antispam.epoch = h \div EPOCH_LENGTH /\ Slot(tx) \notin sl
            /\ \A j \in W : txs[j].antispam.lane = "quota" => Slot(txs[j]) # Slot(tx))
  <2>1. Admit(q, Slot(tx), BindingDigest(tx)) = "Ok" <=> Slot(tx) \notin DOMAIN q
    BY DEF Admit
  <2>2. Slot(tx) \notin DOMAIN q <=>
           /\ Slot(tx) \notin sl
           /\ \A j \in W : txs[j].antispam.lane = "quota" => Slot(txs[j]) # Slot(tx)
    <3> DEFINE slot(y) == Slot(y)
    <3> HIDE DEF slot
    <3>1. SlotsOf(txs, W) = {slot(txs[j]) : j \in {v \in W : txs[v].antispam.lane = "quota"}}
      BY DEF SlotsOf, slot
    <3>2. slot(tx) \notin DOMAIN q <=>
           /\ slot(tx) \notin sl
           /\ \A j \in W : txs[j].antispam.lane = "quota" => slot(txs[j]) # slot(tx)
      BY <3>1
    <3> QED BY <3>2 DEF slot
  <2> QED BY <2>1, <2>2 DEF QuotaAdmits
<1>5. Verdict(tx, w, sp, seen, q, h) = "Accepted" <=>
         /\ AnchorValid(w, tx.anchor) /\ ValidateStateless(tx)
         /\ Nfs(tx) \cap (sp \cup seen) = {} /\ QuotaAdmits(tx, q, h)
  BY DEF Verdict
<1>6. (~\E j \in W : j < k /\ Rivals(txs[j], tx)) <=>
         /\ \A j \in W : Nfs(txs[j]) \cap Nfs(tx) = {}
         /\ tx.antispam.lane = "quota" =>
              \A j \in W : txs[j].antispam.lane = "quota" => Slot(txs[j]) # Slot(tx)
  BY DEF Rivals
<1>7. CanWin(tx, sp, sl, rs) <=>
         /\ tx.anchor.height < h /\ h <= tx.anchor.height + ANCHOR_WINDOW
         /\ tx.anchor.root = rs[tx.anchor.height + 1]
         /\ ValidateStateless(tx) /\ Nfs(tx) \cap sp = {}
         /\ tx.antispam.lane = "quota" =>
               tx.antispam.epoch = h \div EPOCH_LENGTH /\ Slot(tx) \notin sl
  BY DEF CanWin, h
<1>8. Verdict(tx, w, sp, seen, q, h) = "Accepted" <=>
         CanWin(tx, sp, sl, rs) /\ ~\E j \in W : j < k /\ Rivals(txs[j], tx)
  BY <1>2, <1>3, <1>4, <1>5, <1>6, <1>7
<1> QED BY <1>8 DEF Wins, tx, h

-----------------------------------------------------------------------------
(* The scan.                                                               *)

Registry == UNION {[d -> Digest] : d \in SUBSET (Nat \X Nat)}

Verdicts == RejectReason \cup {"Accepted"}

ScanState == [seen : SUBSET Nat, staged_cm : Seq(Leaf), quota : Registry,
              verdicts : Seq(Verdicts)]

(* What a well-typed transaction brings.                                   *)
LEMMA TxTyped ==
  ASSUME NEW tx \in Tx
  PROVE  /\ Nfs(tx) \subseteq Nat /\ tx.commitments \in Seq(Leaf)
         /\ Slot(tx) \in Nat \X Nat /\ BindingDigest(tx) \in Digest
         /\ tx.antispam.epoch \in Nat /\ tx.anchor \in Anchor
<1>1. tx.commitments \in Seq(Leaf)
  <2>1. tx.commitments \in [1..2 -> Leaf]
    BY DEF Tx
  <2> QED
    BY <2>1, PairIsSeq
<1>2. Nfs(tx) \subseteq Nat
  BY DEF Tx, Nfs
<1>3. Slot(tx) \in Nat \X Nat /\ tx.antispam.epoch \in Nat
  BY DEF Tx, AntiSpam, Slot
<1>4. BindingDigest(tx) \in Digest /\ tx.anchor \in Anchor
  BY DEF Tx, BindingDigest, Digest
<1> QED
  BY <1>1, <1>2, <1>3, <1>4

(* Accepting a transaction leaves a registry.                              *)
LEMMA RegistryTyped ==
  ASSUME NEW q \in Registry, NEW tx \in Tx
  PROVE  RegistryAfter(q, tx) \in Registry
<1> DEFINE x == Slot(tx)
           b == BindingDigest(tx)
           r == [s \in DOMAIN q \cup {x} |-> IF s = x THEN b ELSE q[s]]
<1>1. PICK d \in SUBSET (Nat \X Nat) : q \in [d -> Digest]
  BY DEF Registry
<1>2. x \in Nat \X Nat /\ b \in Digest
  BY TxTyped
<1> HIDE DEF x, b
<1>3. d \cup {x} \in SUBSET (Nat \X Nat) /\ r \in [d \cup {x} -> Digest]
  BY <1>1, <1>2
<1>4. r \in Registry
  BY <1>3 DEF Registry
<1> QED
  BY <1>4 DEF RegistryAfter, WithSlot, r, x, b

(* One pass of the scan, field by field.                                   *)
Passed(L, s, tx) ==
    Verdict(tx, L.anchors, L.nullifiers, s.seen, s.quota, L.height + 1)

AfterTx(L, s, tx, t) ==
    /\ t \in ScanState
    /\ Passed(L, s, tx) = "Accepted" =>
          /\ t.seen = s.seen \cup Nfs(tx)
          /\ t.staged_cm = s.staged_cm \o tx.commitments
          /\ t.quota = RegistryAfter(s.quota, tx)
    /\ Passed(L, s, tx) # "Accepted" =>
          t.seen = s.seen /\ t.staged_cm = s.staged_cm /\ t.quota = s.quota

(* ScanTx does that.                                                       *)
LEMMA ScanTxIs ==
  ASSUME NEW L, NEW s \in ScanState, NEW tx \in Tx
  PROVE  AfterTx(L, s, tx, ScanTx(L, s, tx))
<1> DEFINE v == Passed(L, s, tx)
           t == ScanTx(L, s, tx)
           ws == Append(s.verdicts, v)
           n == Nfs(tx)
           c == s.staged_cm \o tx.commitments
           r == RegistryAfter(s.quota, tx)
<1>1. v \in Verdicts
  BY DEF Passed, Verdict, Verdicts, RejectReason
<1>2. /\ s.seen \in SUBSET Nat /\ s.staged_cm \in Seq(Leaf) /\ s.quota \in Registry
      /\ s.verdicts \in Seq(Verdicts)
  BY DEF ScanState
<1>3. t = IF v # "Accepted" THEN [s EXCEPT !.verdicts = ws]
          ELSE [[s EXCEPT !.verdicts = ws]
                  EXCEPT !.seen = s.seen \cup n, !.staged_cm = c, !.quota = r]
  BY DEF ScanTx, Passed, ScanState
<1>4. n \subseteq Nat /\ tx.commitments \in Seq(Leaf)
  BY TxTyped
<1>5. r \in Registry
  BY <1>2, RegistryTyped
<1>6. c \in Seq(Leaf)
  BY <1>2, <1>4, ConcatProperties
<1>7. ws \in Seq(Verdicts)
  BY <1>1, <1>2
<1> HIDE DEF v, t, ws, n, c, r
<1>8. CASE v = "Accepted"
  BY <1>3, <1>4, <1>5, <1>6, <1>7, <1>8, <1>1 DEF AfterTx, ScanState, v, t, n, c, r
<1>9. CASE v # "Accepted"
  BY <1>3, <1>7, <1>9, <1>1 DEF AfterTx, ScanState, v, t
<1> QED
  BY <1>8, <1>9

(* g is the course of a scan: what it has after each transaction.          *)
ScanFrom(L) ==
    [seen |-> {}, staged_cm |-> << >>, quota |-> L.quota, verdicts |-> << >>]

Runs(g, L, txs) ==
    /\ g \in [0..Len(txs) -> ScanState]
    /\ g[0] = ScanFrom(L)
    /\ \A k \in 1..Len(txs) : g[k] = ScanTx(L, g[k - 1], txs[k])

(* The fold Scan is written with has a course that ends in its value.      *)
LEMMA ScanRuns ==
  ASSUME NEW L, L.quota \in Registry, NEW txs \in Seq(Tx)
  PROVE  \E g : Runs(g, L, txs) /\ Scan(L, txs) = g[Len(txs)]
<1> DEFINE n == Len(txs)
           D == 1..n
           b == ScanFrom(L)
           F == [p \in ScanState \X D |-> ScanTx(L, p[1], txs[p[2]])]
           Is(h) == h = [s \in SUBSET DOMAIN txs |->
                           IF s = {} THEN b
                           ELSE LET x == Max(s) IN ScanTx(L, h[s \ {x}], txs[x])]
           c == CHOOSE h : Is(h)
<1>1. n \in Nat /\ DOMAIN txs = D /\ \A k \in D : txs[k] \in Tx
  BY LenProperties, ElementOfSeq
<1>2. b \in ScanState
  BY DEF ScanState, ScanFrom
<1>3. F \in [ScanState \X D -> ScanState]
  BY <1>1, ScanTxIs DEF AfterTx
<1>4. \E h : Is(h)
  <2> HIDE DEF F, b, n
  <2>0. PICK h : FoldsBy(h, n, ScanState, b, F)
    <3>1. n \in Nat /\ F \in [ScanState \X (1..n) -> ScanState]
      BY <1>1, <1>3
    <3> QED
      BY ONLY <1>2, <3>1, FoldExists, Zenon
  <2>1. /\ h \in [SUBSET (1..n) -> ScanState]
        /\ h[{}] = b
        /\ \A s \in (SUBSET (1..n)) \ {{}} :
              h[s] = F[<<h[s \ {Max(s)}], Max(s)>>]
    BY <2>0 DEF FoldsBy
  <2>2. ASSUME NEW s \in SUBSET D, s # {}
        PROVE  h[s] = ScanTx(L, h[s \ {Max(s)}], txs[Max(s)])
    <3>1. Max(s) \in D
      BY <1>1, <2>2, MaxIn
    <3>2. h[s \ {Max(s)}] \in ScanState
      BY <2>1
    <3>3. F[<<h[s \ {Max(s)}], Max(s)>>] = ScanTx(L, h[s \ {Max(s)}], txs[Max(s)])
      BY <3>1, <3>2 DEF F
    <3> QED
      BY <2>1, <2>2, <3>3
  <2>3. Is(h)
    BY <1>1, <2>1, <2>2
  <2> QED
    BY <2>3
<1>5. Is(c)
  <2> HIDE DEF Is
  <2> QED
    BY <1>4
<1>6. Scan(L, txs) = c[D]
  BY <1>1 DEF Scan, FoldLeft, MapThenFoldSet, ScanFrom
<1> HIDE DEF c, F, b, n
<1>7. c[1..0] = b
  <2>1. 1..0 = {}
    OBVIOUS
  <2> QED
    BY <1>5, <2>1
<1>8. ASSUME NEW k \in D PROVE c[1..k] = ScanTx(L, c[1..(k - 1)], txs[k])
  <2>1. k \in Nat \ {0}
    BY <1>1
  <2>2. 1..k # {} /\ Max(1..k) = k /\ (1..k) \ {k} = 1..(k - 1)
    BY <2>1, MaxUpTo
  <2>3. 1..k \in SUBSET DOMAIN txs
    BY <1>1
  <2> HIDE DEF D
  <2> QED
    BY <1>5, <2>2, <2>3
<1> DEFINE g == [k \in 0..n |-> c[1..k]]
           S == {k \in 0..n : g[k] \in ScanState}
<1>9. S = 0..n
  <2>1. 0 \in S
    BY <1>1, <1>2, <1>7
  <2>2. ASSUME NEW k \in S, k < n PROVE k + 1 \in S
    <3>1. k + 1 \in D /\ k + 1 \in 0..n /\ (k + 1) - 1 = k
      BY <1>1, <2>2
    <3>2. c[1..(k + 1)] = ScanTx(L, c[1..k], txs[k + 1])
      BY <1>8, <3>1
    <3>3. txs[k + 1] \in Tx /\ c[1..k] \in ScanState
      BY <1>1, <3>1
    <3>4. ScanTx(L, c[1..k], txs[k + 1]) \in ScanState
      BY <3>3, ScanTxIs DEF AfterTx
    <3> QED
      BY <3>1, <3>2, <3>4
  <2>3. S \in SUBSET (0..n)
    OBVIOUS
  <2> HIDE DEF S
  <2> QED
    BY <1>1, <2>1, <2>2, <2>3, UpToInduction
<1>10. \A k \in 1..n : g[k] = ScanTx(L, g[k - 1], txs[k])
  <2> SUFFICES ASSUME NEW k \in 1..n PROVE g[k] = ScanTx(L, g[k - 1], txs[k])
    OBVIOUS
  <2>1. k \in 0..n /\ k - 1 \in 0..n
    BY <1>1
  <2> QED
    BY <1>8, <2>1
<1>11. Runs(g, L, txs)
  <2>1. g \in [0..n -> ScanState]
    BY <1>9
  <2>2. g[0] = b
    BY <1>1, <1>7
  <2> HIDE DEF g
  <2> QED
    BY <2>1, <2>2, <1>10 DEF Runs, n, b
<1>12. Scan(L, txs) = g[Len(txs)]
  BY <1>1, <1>6 DEF n
<1> QED
  BY <1>11, <1>12

(* A scan stages no nullifier that is committed, and takes slots of the    *)
(* epoch of its own height only.                                           *)
ScanKeeps(L, s) ==
    /\ s.seen \cap L.nullifiers = {}
    /\ \A x \in DOMAIN s.quota :
          x \in DOMAIN L.quota \/ x[1] = (L.height + 1) \div EPOCH_LENGTH

(* What every scan gives (scan loop of apply_checkpoint).                  *)
LEMMA ScanFacts ==
  ASSUME NEW L, L.quota \in Registry, NEW txs \in Seq(Tx)
  PROVE  Scan(L, txs) \in ScanState /\ ScanKeeps(L, Scan(L, txs))
<1>1. PICK g : Runs(g, L, txs) /\ Scan(L, txs) = g[Len(txs)]
  BY ScanRuns
<1> DEFINE n == Len(txs)
           S == {k \in 0..n : ScanKeeps(L, g[k])}
<1>2. n \in Nat /\ \A k \in 1..n : txs[k] \in Tx
  BY LenProperties, ElementOfSeq
<1>3. /\ g \in [0..n -> ScanState] /\ g[0] = ScanFrom(L)
      /\ \A k \in 1..n : g[k] = ScanTx(L, g[k - 1], txs[k])
  BY <1>1 DEF Runs
<1> HIDE DEF n
<1>4. 0 \in S
  BY <1>2, <1>3 DEF ScanKeeps, ScanFrom
<1>5. ASSUME NEW k \in S, k < n PROVE k + 1 \in S
  <2> DEFINE u == g[k]
             t == g[k + 1]
             tx == txs[k + 1]
  <2>1. k + 1 \in 1..n /\ k + 1 \in 0..n /\ (k + 1) - 1 = k /\ k \in 0..n
    BY <1>2, <1>5
  <2>2. t = ScanTx(L, u, tx) /\ u \in ScanState /\ tx \in Tx
    BY <1>2, <1>3, <2>1
  <2>3. ScanKeeps(L, u)
    BY <1>5
  <2> HIDE DEF u, t, tx
  <2>4. AfterTx(L, u, tx, t)
    BY <2>2, ScanTxIs
  <2>5. ScanKeeps(L, t)
    <3>1. CASE Passed(L, u, tx) # "Accepted"
      <4>1. t.seen = u.seen /\ t.quota = u.quota
        BY <2>4, <3>1 DEF AfterTx
      <4> QED
        BY <2>3, <4>1 DEF ScanKeeps
    <3>2. CASE Passed(L, u, tx) = "Accepted"
      <4>1. t.seen = u.seen \cup Nfs(tx) /\ t.quota = RegistryAfter(u.quota, tx)
        BY <2>4, <3>2 DEF AfterTx
      <4>2. /\ Nfs(tx) \cap (L.nullifiers \cup u.seen) = {}
            /\ QuotaAdmits(tx, u.quota, L.height + 1)
        BY <3>2 DEF Passed, Verdict
      <4>3. t.seen \cap L.nullifiers = {}
        BY <2>3, <4>1, <4>2 DEF ScanKeeps
      <4>4. ASSUME NEW x \in DOMAIN t.quota
            PROVE  x \in DOMAIN L.quota \/ x[1] = (L.height + 1) \div EPOCH_LENGTH
        <5>1. CASE x \in DOMAIN u.quota
          BY <2>3, <5>1 DEF ScanKeeps
        <5>2. CASE x \notin DOMAIN u.quota
          <6>1. tx.antispam.lane = "quota" /\ x = Slot(tx)
            BY <4>1, <5>2 DEF RegistryAfter, WithSlot
          <6>2. tx.antispam.epoch = (L.height + 1) \div EPOCH_LENGTH
            BY <4>2, <6>1 DEF QuotaAdmits
          <6> QED
            BY <6>1, <6>2 DEF Slot
        <5> QED
          BY <5>1, <5>2
      <4> QED
        BY <4>3, <4>4 DEF ScanKeeps
    <3> QED
      BY <3>1, <3>2
  <2> QED
    BY <2>1, <2>5 DEF t
<1>6. S = 0..n
  <2>1. S \in SUBSET (0..n)
    OBVIOUS
  <2> HIDE DEF S
  <2> QED
    BY <1>2, <1>4, <1>5, <2>1, UpToInduction
<1>7. n \in 0..n
  BY <1>2
<1> QED
  BY <1>1, <1>3, <1>6, <1>7 DEF n

(* After k transactions the scan holds what the winners among them staged. *)
HoldsWinners(L, txs, k, s, R, rs) ==
    /\ R \in SUBSET (1..k)
    /\ Decided(txs, k, R, L.nullifiers, DOMAIN L.quota, rs)
    /\ s.seen = SpentOf(txs, Won(k, R))
    /\ DOMAIN s.quota = DOMAIN L.quota \cup SlotsOf(txs, Won(k, R))
    /\ s.staged_cm = OutputsOf(txs, k, R)

(* One transaction more.                                                   *)
LEMMA WinnersNext ==
  ASSUME NEW L, NEW txs \in Seq(Tx), NEW k \in Nat, k < Len(txs), NEW rs,
         L.height + 1 = Len(rs), HoldsWindow(L.anchors, rs),
         NEW s \in ScanState, NEW R, HoldsWinners(L, txs, k, s, R, rs)
  PROVE  \E Q : HoldsWinners(L, txs, k + 1, ScanTx(L, s, txs[k + 1]), Q, rs)
<1> DEFINE m == k + 1
           tx == txs[m]
           t == ScanTx(L, s, tx)
           W == Won(k, R)
           sp == L.nullifiers
           sl == DOMAIN L.quota
<1>1. /\ R \in SUBSET (1..k) /\ Decided(txs, k, R, sp, sl, rs)
      /\ s.seen = SpentOf(txs, W) /\ DOMAIN s.quota = sl \cup SlotsOf(txs, W)
      /\ s.staged_cm = OutputsOf(txs, k, R)
  BY DEF HoldsWinners
<1>2. m \in 1..Len(txs) /\ tx \in Tx /\ m \in Nat
  OBVIOUS
<1>3. AfterTx(L, s, tx, t)
  BY <1>2, ScanTxIs
<1>4. \A j \in W : j < m
  BY DEF Won
<1>5. /\ Wins(m, txs, W, sp, sl, rs) => Decided(txs, m, R, sp, sl, rs)
      /\ ~Wins(m, txs, W, sp, sl, rs) => Decided(txs, m, R \cup {m}, sp, sl, rs)
  BY <1>1, DecidedNext
<1>6. /\ Won(m, R) = W \cup {m} /\ Won(m, R \cup {m}) = W
      /\ R \in SUBSET (1..m) /\ R \cup {m} \in SUBSET (1..m)
  <2>1. k \in Nat /\ R \in SUBSET (1..k)
    BY <1>1
  <2>2. Won(k + 1, R) = Won(k, R) \cup {k + 1} /\ Won(k + 1, R \cup {k + 1}) = Won(k, R)
    BY ONLY <2>1, WonNext
  <2>3. R \in SUBSET (1..(k + 1)) /\ R \cup {k + 1} \in SUBSET (1..(k + 1))
    BY ONLY <2>1
  <2> QED BY ONLY <2>2, <2>3 DEF m, W
<1>7. /\ OutputsOf(txs, m, R) = OutputsOf(txs, k, R) \o tx.commitments
      /\ OutputsOf(txs, m, R \cup {m}) = OutputsOf(txs, k, R)
  BY <1>1, OutputsNext
<1> HIDE DEF m, tx, t, W, sp, sl
<1>8. Passed(L, s, tx) = "Accepted" <=> Wins(m, txs, W, sp, sl, rs)
  <2> DEFINE w == L.anchors
             seen == s.seen
             q == s.quota
  <2>1. /\ txs[m] \in Tx /\ HoldsWindow(w, rs) /\ seen = SpentOf(txs, W)
        /\ DOMAIN q = sl \cup SlotsOf(txs, W)
    BY <1>1, <1>2 DEF tx
  <2> HIDE DEF w, seen, q
  <2>2. Verdict(txs[m], w, sp, seen, q, Len(rs)) = "Accepted" <=> Wins(m, txs, W, sp, sl, rs)
    BY <2>1, <1>4, VerdictWins
  <2> QED BY <2>2 DEF Passed, w, seen, q, sp, tx
<1>9. CASE Wins(m, txs, W, sp, sl, rs)
  <2>1. /\ t.seen = s.seen \cup Nfs(tx) /\ t.staged_cm = s.staged_cm \o tx.commitments
        /\ t.quota = RegistryAfter(s.quota, tx)
    BY <1>3, <1>8, <1>9 DEF AfterTx
  <2>2. SpentOf(txs, W \cup {m}) = SpentOf(txs, W) \cup Nfs(tx)
    BY DEF SpentOf, tx
  <2>3. DOMAIN t.quota = sl \cup SlotsOf(txs, W \cup {m})
    <3>1. CASE tx.antispam.lane = "quota"
      <4>1. DOMAIN t.quota = DOMAIN s.quota \cup {Slot(tx)}
        BY <2>1, <3>1 DEF RegistryAfter, WithSlot
      <4>2. SlotsOf(txs, W \cup {m}) = SlotsOf(txs, W) \cup {Slot(tx)}
        BY <3>1 DEF SlotsOf, tx
      <4> QED BY <4>1, <4>2, <1>1
    <3>2. CASE tx.antispam.lane # "quota"
      <4>1. t.quota = s.quota
        BY <2>1, <3>2 DEF RegistryAfter
      <4>2. SlotsOf(txs, W \cup {m}) = SlotsOf(txs, W)
        BY <3>2 DEF SlotsOf, tx
      <4> QED BY <4>1, <4>2, <1>1
    <3> QED BY <3>1, <3>2
  <2>4. HoldsWinners(L, txs, m, t, R, rs)
    BY <2>1, <2>2, <2>3, <1>1, <1>5, <1>6, <1>7, <1>9 DEF HoldsWinners, sp, sl
  <2> QED BY <2>4 DEF m, t, tx
<1>10. CASE ~Wins(m, txs, W, sp, sl, rs)
  <2>1. t.seen = s.seen /\ t.staged_cm = s.staged_cm /\ t.quota = s.quota
    BY <1>3, <1>8, <1>10 DEF AfterTx
  <2>2. HoldsWinners(L, txs, m, t, R \cup {m}, rs)
    BY <2>1, <1>1, <1>5, <1>6, <1>7, <1>10 DEF HoldsWinners, sp, sl
  <2> QED BY <2>2 DEF m, t, tx
<1> QED BY <1>9, <1>10

(* A whole scan accepts precisely the winners of its batch.                *)
LEMMA ScanWinners ==
  ASSUME NEW L, L.quota \in Registry, NEW txs \in Seq(Tx), NEW rs,
         L.height + 1 = Len(rs), HoldsWindow(L.anchors, rs)
  PROVE  \E R : HoldsWinners(L, txs, Len(txs), Scan(L, txs), R, rs)
<1> DEFINE n == Len(txs)
<1>1. PICK g : Runs(g, L, txs) /\ Scan(L, txs) = g[Len(txs)]
  BY ScanRuns
<1>2. /\ n \in Nat /\ g \in [0..n -> ScanState] /\ g[0] = ScanFrom(L)
      /\ \A k \in 1..n : g[k] = ScanTx(L, g[k - 1], txs[k])
  BY <1>1, LenProperties DEF Runs
<1> DEFINE S == {k \in 0..n : \E R : HoldsWinners(L, txs, k, g[k], R, rs)}
<1>3. 0 \in S
  <2>1. OutputsOf(txs, 0, {}) = << >>
    <3> DEFINE e == [k \in 1..0 |-> IF k \in {} THEN << >> ELSE txs[k].commitments]
    <3>1. e = << >> /\ Len(e) = 0
      OBVIOUS
    <3> HIDE DEF e
    <3>2. FlattenSeq(e) = << >>
      BY <3>1, FlattenNone
    <3> QED BY <3>2 DEF e, OutputsOf
  <2>2. g[0].seen = {} /\ g[0].quota = L.quota /\ g[0].staged_cm = << >>
    BY <1>2 DEF ScanFrom
  <2>3. HoldsWinners(L, txs, 0, g[0], {}, rs)
    BY <2>1, <2>2, WonNone DEF HoldsWinners
  <2> QED BY <2>3, <1>2
<1>4. ASSUME NEW k \in S, k < n PROVE k + 1 \in S
  <2>1. k \in Nat /\ k \in 0..n /\ k + 1 \in 1..n /\ k + 1 \in 0..n /\ (k + 1) - 1 = k
    BY <1>2, <1>4
  <2>2. PICK R : HoldsWinners(L, txs, k, g[k], R, rs)
    BY <1>4
  <2>3. g[k] \in ScanState /\ g[k + 1] = ScanTx(L, g[k], txs[k + 1])
    BY <1>2, <2>1
  <2>4. \E Q : HoldsWinners(L, txs, k + 1, ScanTx(L, g[k], txs[k + 1]), Q, rs)
    BY <1>4, <2>1, <2>2, <2>3, WinnersNext
  <2> QED BY <2>1, <2>3, <2>4
<1>5. S = 0..n
  <2>1. S \in SUBSET (0..n)
    OBVIOUS
  <2> HIDE DEF S
  <2> QED BY <1>2, <1>3, <1>4, <2>1, UpToInduction
<1>6. n \in S
  BY <1>2, <1>5
<1> QED BY <1>1, <1>6

-----------------------------------------------------------------------------
(* The anchor deque, also of a ledger that has lost its older anchors.     *)

Ascending(w, h) ==
    /\ w \in Seq(Anchor)
    /\ \A k \in 1..Len(w) : w[k].height < h
    /\ \A j, k \in 1..Len(w) : j < k => w[j].height < w[k].height

(* After a seal an anchor is valid if it was, or is the new one, and is    *)
(* inside the window: popping the front is enough.                         *)
LEMMA SealedKeeps ==
  ASSUME NEW w, NEW t \in Seq(Leaf), NEW h \in Nat, Ascending(w, h)
  PROVE  /\ Ascending(Sealed(w, t, h), h + 1)
         /\ \A a \in Anchor :
               AnchorValid(Sealed(w, t, h), a) <=>
                  /\ AnchorValid(w, a) \/ a = [height |-> h, root |-> t]
                  /\ h < a.height + ANCHOR_WINDOW
<1> DEFINE e == [height |-> h, root |-> t]
           u == Append(w, e)
           n == Len(w) + 1
           fresh == {k \in DOMAIN u : SaturatingSub(h, u[k].height) < ANCHOR_WINDOW}
           c == CHOOSE k \in fresh : \A j \in fresh : k <= j
           s == Sealed(w, t, h)
<1>1. /\ w \in Seq(Anchor) /\ Len(w) \in Nat /\ n \in Nat \ {0} /\ DOMAIN w = 1..Len(w)
      /\ \A k \in 1..Len(w) : w[k] \in Anchor /\ w[k].height < h
      /\ \A j, k \in 1..Len(w) : j < k => w[j].height < w[k].height
  BY LenProperties, ElementOfSeq DEF Ascending
<1>2. e \in Anchor /\ e.height = h
  BY DEF Anchor, Root
<1>3. s = IF fresh = {} THEN << >> ELSE SubSeq(u, c, Len(u))
  BY DEF Sealed, EvictStale
<1> HIDE DEF e, s
<1>4. /\ u \in Seq(Anchor) /\ Len(u) = n /\ DOMAIN u = 1..n /\ u[n] = e
      /\ \A k \in 1..Len(w) : u[k] = w[k]
  <2> HIDE DEF fresh, c
  <2>1. w \in Seq(Anchor) /\ e \in Anchor
    BY <1>1, <1>2
  <2> QED
    BY <2>1
<1> HIDE DEF u
<1>5. \A k \in 1..n : k # n => k \in 1..Len(w)
  BY <1>1
<1>6. ASSUME NEW k \in 1..n
      PROVE  u[k] \in Anchor /\ u[k].height \in Nat /\ u[k].height <= h
  <2>1. CASE k = n
    BY <2>1, <1>2, <1>4
  <2>2. CASE k # n
    BY <2>2, <1>1, <1>4, <1>5 DEF Anchor
  <2> QED
    BY <2>1, <2>2
<1>7. ASSUME NEW j \in 1..n, NEW k \in 1..n, j < k
      PROVE  u[j].height < u[k].height
  <2>1. j \in 1..Len(w)
    BY <1>1, <1>7
  <2>2. CASE k = n
    BY <2>1, <2>2, <1>1, <1>2, <1>4
  <2>3. CASE k # n
    BY <2>1, <2>3, <1>1, <1>4, <1>5, <1>7
  <2> QED
    BY <2>2, <2>3
<1>8. \A k \in 1..n : k \in fresh <=> h < u[k].height + ANCHOR_WINDOW
  <2> SUFFICES ASSUME NEW k \in 1..n
               PROVE  k \in fresh <=> h < u[k].height + ANCHOR_WINDOW
    OBVIOUS
  <2>1. SaturatingSub(h, u[k].height) = h - u[k].height
    BY <1>6 DEF SaturatingSub
  <2> QED
    BY <1>4, <1>6, <2>1, WindowAssumption
<1>9. fresh \subseteq 1..n
  BY <1>4
<1> HIDE DEF fresh
<1>10. n \in 1..n /\ n \in fresh
  <2>1. n \in 1..n
    BY <1>1
  <2>2. h < u[n].height + ANCHOR_WINDOW
    BY <1>2, <1>4, WindowAssumption
  <2> QED
    BY <1>8, <2>1, <2>2
<1>11. c \in fresh /\ \A j \in fresh : c <= j
  <2>1. fresh \in SUBSET Nat /\ fresh # {}
    BY <1>1, <1>9, <1>10
  <2>2. \E x \in fresh : \A y \in fresh : x <= y
    BY <2>1, LeastNat
  <2> QED
    BY <2>2
<1> HIDE DEF c
<1>12. c \in 1..n /\ s = SubSeq(u, c, n)
  BY <1>3, <1>4, <1>9, <1>10, <1>11
<1>13. \A k \in 1..n : k \in fresh <=> c <= k
  <2> SUFFICES ASSUME NEW k \in 1..n PROVE k \in fresh <=> c <= k
    OBVIOUS
  <2>1. CASE c = k
    BY <2>1, <1>11, <1>12
  <2>2. CASE c < k
    <3>1. u[c].height < u[k].height /\ u[c].height \in Nat /\ u[k].height \in Nat
      BY <2>2, <1>6, <1>7, <1>12
    <3>2. h < u[c].height + ANCHOR_WINDOW
      BY <1>8, <1>11, <1>12
    <3>3. h < u[k].height + ANCHOR_WINDOW
      BY <3>1, <3>2, WindowAssumption
    <3> QED
      BY <2>2, <1>8, <1>12, <3>3
  <2>3. CASE k < c
    BY <2>3, <1>11, <1>12
  <2> QED
    BY <1>12, <2>1, <2>2, <2>3
<1> HIDE DEF n
<1> DEFINE m == n - c + 1
<1>14. /\ s \in Seq(Anchor) /\ Len(s) = m /\ m \in Nat
       /\ \A k \in 1..m : s[k] = u[c + k - 1] /\ c + k - 1 \in 1..n
  <2>1. c \in Int /\ n \in Int /\ c <= n
    BY <1>1, <1>12
  <2>2. \A k \in c..n : u[k] \in Anchor
    BY <1>6, <1>12, <1>1
  <2>3. /\ s \in Seq(Anchor) /\ Len(s) = n - c + 1
        /\ \A k \in 1..(n - c + 1) : s[k] = u[c + k - 1]
    BY <1>12, <2>1, <2>2, SubSeqProperties
  <2>4. \A k \in 1..(n - c + 1) : c + k - 1 \in 1..n
    BY <1>1, <1>12
  <2>5. n - c + 1 \in Nat
    BY <2>1
  <2> QED
    BY <2>3, <2>4, <2>5
<1>15. Ascending(s, h + 1)
  <2>1. ASSUME NEW k \in 1..m PROVE s[k].height < h + 1
    <3>1. s[k] = u[c + k - 1] /\ c + k - 1 \in 1..n
      BY <1>14
    <3>2. u[c + k - 1].height \in Nat /\ u[c + k - 1].height <= h
      BY <1>6, <3>1
    <3> QED
      BY <3>1, <3>2
  <2>2. ASSUME NEW j \in 1..m, NEW k \in 1..m, j < k PROVE s[j].height < s[k].height
    <3>1. c + j - 1 \in 1..n /\ c + k - 1 \in 1..n /\ c + j - 1 < c + k - 1
      BY <1>12, <1>14, <2>2
    <3>2. u[c + j - 1].height < u[c + k - 1].height
      BY <1>7, <3>1
    <3> QED
      BY <1>14, <3>2
  <2> HIDE DEF m
  <2> QED
    BY <1>14, <2>1, <2>2 DEF Ascending
<1>16. ASSUME NEW a \in Anchor
       PROVE  AnchorValid(s, a) <=>
                 /\ AnchorValid(w, a) \/ a = e
                 /\ h < a.height + ANCHOR_WINDOW
  <2>1. AnchorValid(s, a) <=> \E k \in 1..m : s[k] = a
    <3> HIDE DEF m
    <3>1. DOMAIN s = 1..m
      BY <1>14, LenProperties
    <3> QED
      BY <3>1 DEF AnchorValid
  <2>2. (\E k \in 1..m : s[k] = a) <=> \E p \in 1..n : c <= p /\ u[p] = a
    <3>1. ASSUME NEW k \in 1..m, s[k] = a PROVE \E p \in 1..n : c <= p /\ u[p] = a
      <4>1. c + k - 1 \in 1..n /\ c <= c + k - 1 /\ u[c + k - 1] = a
        BY <1>12, <1>14, <3>1
      <4> QED
        BY <4>1
    <3>2. ASSUME NEW p \in 1..n, c <= p, u[p] = a PROVE \E k \in 1..m : s[k] = a
      <4>1. p - c + 1 \in 1..m /\ c + (p - c + 1) - 1 = p
        BY <1>1, <1>12, <3>2
      <4>2. s[p - c + 1] = u[c + (p - c + 1) - 1]
        BY <1>14, <4>1
      <4> QED
        BY <3>2, <4>1, <4>2
    <3> QED
      BY <3>1, <3>2
  <2>3. (\E p \in 1..n : c <= p /\ u[p] = a)
          <=> h < a.height + ANCHOR_WINDOW /\ \E p \in 1..n : u[p] = a
    BY <1>8, <1>13
  <2>4. (\E p \in 1..n : u[p] = a) <=> (AnchorValid(w, a) \/ a = e)
    <3>1. AnchorValid(w, a) <=> \E p \in 1..Len(w) : w[p] = a
      BY <1>1 DEF AnchorValid
    <3>2. \A p \in 1..Len(w) : p \in 1..n
      BY <1>1 DEF n
    <3> QED
      BY <1>4, <1>5, <1>10, <3>1, <3>2
  <2> QED
    BY <2>1, <2>2, <2>3, <2>4
<1> QED
  BY <1>15, <1>16 DEF s, e

-----------------------------------------------------------------------------
(* A ledger between two checkpoints.                                       *)

Newest(L) == [height |-> L.height, root |-> L.leaves]

GoodLedger(L) ==
    /\ L.leaves \in Seq(Leaf) /\ L.nullifiers \in SUBSET Nat
    /\ L.quota \in Registry /\ L.height \in Nat /\ L.supply \in Nat
    /\ Ascending(L.anchors, L.height + 1)
    /\ \A x \in DOMAIN L.quota : x[1] <= L.height \div EPOCH_LENGTH
    /\ L.height = 0 => DOMAIN L.quota = {}
    /\ \A a \in Anchor :
          a.height >= L.height => (AnchorValid(L.anchors, a) <=> a = Newest(L))

(* Epochs do not go back.                                                  *)
LEMMA EpochsAscend ==
  ASSUME NEW a \in Nat, NEW b \in Nat, a <= b
  PROVE  /\ a \div EPOCH_LENGTH \in Nat /\ b \div EPOCH_LENGTH \in Nat
         /\ a \div EPOCH_LENGTH <= b \div EPOCH_LENGTH
<1> DEFINE c == EPOCH_LENGTH
           p == a \div c
           q == b \div c
<1>1. c \in Nat \ {0}
  BY EpochAssumption
<1> HIDE DEF c
<1>2. p \in Nat /\ c * p <= a /\ q \in Nat /\ b < c * (q + 1)
  BY <1>1
<1> HIDE DEF p, q
<1>3. c * p < c * (q + 1) /\ q + 1 \in Nat
  BY <1>1, <1>2
<1>4. p < q + 1
  BY <1>1, <1>2, <1>3
<1> QED
  BY <1>2, <1>4 DEF p, q, c

(* Sealing a tree at the next height.                                      *)
LEMMA SealedNewest ==
  ASSUME NEW w, NEW t \in Seq(Leaf), NEW h \in Nat, Ascending(w, h)
  PROVE  \A a \in Anchor : a.height >= h =>
            (AnchorValid(Sealed(w, t, h), a) <=> a = [height |-> h, root |-> t])
<1> SUFFICES ASSUME NEW a \in Anchor, a.height >= h
             PROVE  AnchorValid(Sealed(w, t, h), a) <=> a = [height |-> h, root |-> t]
  OBVIOUS
<1>1. a.height \in Nat
  BY DEF Anchor
<1>2. ~AnchorValid(w, a)
  <2>1. DOMAIN w = 1..Len(w) /\ \A k \in 1..Len(w) : w[k] \in Anchor /\ w[k].height < h
    BY LenProperties, ElementOfSeq DEF Ascending
  <2> QED
    BY <1>1, <2>1 DEF AnchorValid, Anchor
<1>3. h < a.height + ANCHOR_WINDOW
  BY <1>1, WindowAssumption
<1> QED
  BY <1>2, <1>3, SealedKeeps

(* The rewards of a height are leaves, and their sum is a number.          *)
LEMMA MintTyped ==
  ASSUME NEW h \in 1..MaxHeight
  PROVE  MintedLeaves(h) \in Seq(Leaf) /\ SumFunction(Shares[h]) \in Nat
<1> DEFINE f == Shares[h]
           n == Len(f)
<1>1. f \in Seq(Nat) /\ n \in Nat /\ DOMAIN f = 1..n /\ \A j \in 1..n : f[j] \in Nat
  BY SharesAssumption, LenProperties, ElementOfSeq
<1>2. h \in Nat
  BY BoundsAssumption
<1>3. ASSUME NEW j \in 1..n PROVE RewardLeaf(h, j) \in Leaf
  <2>1. (j - 1) % 256 \in Nat /\ Shares[h][j] \in Nat
    BY <1>1
  <2> QED
    BY <1>2, <2>1 DEF RewardLeaf, Leaf
<1>4. SumFunction(f) \in Nat
  <2>1. IsFiniteSet(1..n)
    BY <1>1, FS_Interval
  <2> HIDE DEF f, n
  <2>2. SumFunctionOnSet(f, 1..n) \in Nat
    BY <1>1, <2>1, SumNat
  <2> QED
    BY <1>1, <2>2 DEF SumFunction
<1>5. MintedLeaves(h) = [j \in 1..n |-> RewardLeaf(h, j)]
  BY <1>1 DEF MintedLeaves
<1> HIDE DEF f, n
<1>6. [j \in 1..n |-> RewardLeaf(h, j)] \in Seq(Leaf)
  <2> DEFINE m == [j \in 1..n |-> RewardLeaf(h, j)]
  <2>1. m \in [1..n -> Leaf]
    BY <1>3
  <2> HIDE DEF m
  <2> QED
    BY <1>1, <2>1, SeqDef DEF m
<1> QED
  BY <1>4, <1>5, <1>6 DEF f

(* What apply_checkpoint does to a ledger: nothing is spent that was, the  *)
(* tree and the spent set grow, and the result is a ledger again.          *)
Applied(L, txs, M) ==
    /\ GoodLedger(M) /\ M.height = L.height + 1
    /\ M.supply = L.supply + SumFunction(Shares[L.height + 1])
    /\ M.nullifiers = L.nullifiers \cup Scan(L, txs).seen
    /\ Scan(L, txs).seen \in SUBSET Nat
    /\ Scan(L, txs).seen \cap L.nullifiers = {}
    /\ M.leaves = L.leaves \o Scan(L, txs).staged_cm \o MintedLeaves(L.height + 1)
    /\ Len(L.leaves) <= Len(M.leaves)
    /\ M.anchors = Sealed(L.anchors, M.leaves, M.height)
    /\ M.quota = Scan(L, txs).quota

(* What a whole checkpoint gives (Ledger::apply_checkpoint).               *)
LEMMA ApplyFacts ==
  ASSUME NEW L, GoodLedger(L), L.height < MaxHeight, NEW txs \in Seq(Tx)
  PROVE  Applied(L, txs, ApplyCheckpoint(L, txs))
<1> DEFINE s == Scan(L, txs)
           h == L.height + 1
           t == L.leaves \o s.staged_cm \o MintedLeaves(h)
           M == ApplyCheckpoint(L, txs)
<1>1. /\ M.leaves = t /\ M.anchors = Sealed(L.anchors, t, h)
      /\ M.nullifiers = L.nullifiers \cup s.seen /\ M.quota = s.quota
      /\ M.height = h /\ M.supply = L.supply + SumFunction(Shares[h])
  BY DEF ApplyCheckpoint
<1>2. /\ L.leaves \in Seq(Leaf) /\ L.nullifiers \in SUBSET Nat
      /\ L.quota \in Registry /\ L.height \in Nat /\ L.supply \in Nat
      /\ Ascending(L.anchors, h)
      /\ \A x \in DOMAIN L.quota : x[1] <= L.height \div EPOCH_LENGTH
  BY DEF GoodLedger
<1>3. s \in ScanState /\ ScanKeeps(L, s)
  BY <1>2, ScanFacts
<1>4. h \in Nat /\ h \in 1..MaxHeight /\ h # 0
  BY <1>2, BoundsAssumption
<1>5. MintedLeaves(h) \in Seq(Leaf) /\ SumFunction(Shares[h]) \in Nat
  BY <1>4, MintTyped
<1>6. s.seen \in SUBSET Nat /\ s.staged_cm \in Seq(Leaf) /\ s.quota \in Registry
  BY <1>3 DEF ScanState
<1>7. t \in Seq(Leaf) /\ Len(L.leaves) <= Len(t)
  <2> DEFINE x == L.leaves
             y == s.staged_cm
             z == MintedLeaves(h)
             xy == x \o y
  <2>1. x \in Seq(Leaf) /\ y \in Seq(Leaf) /\ z \in Seq(Leaf)
    BY <1>2, <1>5, <1>6
  <2> HIDE DEF x, y, z
  <2>2. xy \in Seq(Leaf) /\ Len(xy) = Len(x) + Len(y)
    BY <2>1, ConcatProperties
  <2> HIDE DEF xy
  <2>3. xy \o z \in Seq(Leaf) /\ Len(xy \o z) = Len(xy) + Len(z)
    BY <2>1, <2>2, ConcatProperties
  <2>4. Len(x) \in Nat /\ Len(y) \in Nat /\ Len(z) \in Nat
    BY <2>1, LenProperties
  <2>5. Len(x) <= Len(xy \o z)
    BY <2>2, <2>3, <2>4
  <2> QED
    BY <2>3, <2>5 DEF x, y, z, xy
<1> HIDE DEF t, M, s, h
<1>8. Ascending(Sealed(L.anchors, t, h), h + 1)
  BY <1>2, <1>4, <1>7, SealedKeeps
<1>9. \A a \in Anchor : a.height >= h =>
         (AnchorValid(Sealed(L.anchors, t, h), a) <=> a = [height |-> h, root |-> t])
  BY <1>2, <1>4, <1>7, SealedNewest
<1>10. \A x \in DOMAIN s.quota : x[1] <= h \div EPOCH_LENGTH
  <2> SUFFICES ASSUME NEW x \in DOMAIN s.quota PROVE x[1] <= h \div EPOCH_LENGTH
    OBVIOUS
  <2>1. /\ L.height \div EPOCH_LENGTH \in Nat /\ h \div EPOCH_LENGTH \in Nat
        /\ L.height \div EPOCH_LENGTH <= h \div EPOCH_LENGTH
    <3>1. L.height \in Nat /\ h \in Nat /\ L.height <= h
      BY <1>2, <1>4 DEF h
    <3> QED
      BY ONLY <3>1, EpochsAscend, Zenon
  <2>2. x \in Nat \X Nat
    <3>1. PICK d \in SUBSET (Nat \X Nat) : s.quota \in [d -> Digest]
      BY <1>6 DEF Registry
    <3> QED
      BY <3>1
  <2>3. x \in DOMAIN L.quota \/ x[1] = h \div EPOCH_LENGTH
    BY <1>3 DEF ScanKeeps, h
  <2> QED
    BY <1>2, <2>1, <2>2, <2>3
<1>11. GoodLedger(M)
  <2>1. L.nullifiers \cup s.seen \in SUBSET Nat /\ L.supply + SumFunction(Shares[h]) \in Nat
    BY <1>2, <1>5, <1>6
  <2> QED
    BY <1>1, <1>4, <1>6, <1>7, <1>8, <1>9, <1>10, <2>1 DEF GoodLedger, Newest
<1> QED
  BY <1>1, <1>3, <1>6, <1>7, <1>11 DEF Applied, ScanKeeps, M, s, t, h

(* A ledger at genesis is one.                                             *)
LEMMA GenesisGood == GoodLedger(GenesisLedger)
<1>1. << >> \in Seq(Anchor) /\ Len(<< >>) = 0
  OBVIOUS
<1>2. Ascending(<< >>, 0)
  BY <1>1 DEF Ascending
<1>3. Ascending(Sealed(<< >>, Genesis, 0), 0 + 1)
  BY <1>2, GenesisAssumption, SealedKeeps
<1>4. \A a \in Anchor : a.height >= 0 =>
         (AnchorValid(Sealed(<< >>, Genesis, 0), a) <=> a = [height |-> 0, root |-> Genesis])
  BY <1>2, GenesisAssumption, SealedNewest
<1>5. << >> \in Registry
  <2>1. << >> \in [{} -> Digest]
    OBVIOUS
  <2> QED
    BY <2>1 DEF Registry
<1>6. DOMAIN << >> = {}
  OBVIOUS
<1> QED
  BY <1>3, <1>4, <1>5, <1>6, GenesisAssumption DEF GoodLedger, GenesisLedger, Newest
=============================================================================
