--------------------------- MODULE KnockoutProofs ---------------------------
(***************************************************************************)
(* Proofs about the knockout harness: what a Merkle path shows for a tree  *)
(* of any depth and size, and that no set of mutations of a valid spend    *)
(* gets past check_spend_statement.                                        *)
(***************************************************************************)
EXTENDS Knockout, FoldTheorems

Stored == {Commitment(n) : n \in Notes}

(* The domains of the hashes are apart, and a commitment binds its note.   *)
LEMMA CommitmentFacts ==
  /\ EmptyLeaf \notin Stored /\ WrongNode \notin Stored /\ WrongNode # EmptyLeaf
  /\ \A m, n \in Notes : Commitment(m) = Commitment(n) => m = n
<1>1. EmptyLeaf.source = "empty" /\ WrongNode.source = "corrupt"
  BY DEF EmptyLeaf, WrongNode
<1>2. \A x \in Stored : x.source = "output"
  BY DEF Stored, Commitment
<1>3. ASSUME NEW m \in Notes, NEW n \in Notes, Commitment(m) = Commitment(n)
      PROVE  m = n
  <2>1. /\ m \in [value : Nat, addr_tag : Wallets, rho : Nat]
        /\ n \in [value : Nat, addr_tag : Wallets, rho : Nat]
    BY NotesAssumption
  <2>2. m.value = n.value /\ m.addr_tag = n.addr_tag /\ m.rho = n.rho
    BY <1>3 DEF Commitment
  <2> QED BY <2>1, <2>2
<1>4. WrongNode # EmptyLeaf
  <2>1. "empty" # "corrupt"
    OBVIOUS
  <2> QED BY <1>1, <2>1
<1>5. EmptyLeaf \notin Stored
  BY <1>1, <1>2
<1>6. WrongNode \notin Stored
  BY <1>1, <1>2
<1> QED BY <1>3, <1>4, <1>5, <1>6

(* The witness kept is of a leaf that the tree had when it was taken.      *)
KInv ==
    /\ notes \in Seq(Notes) /\ Len(notes) <= MaxLeaves
    /\ held \in [position : Nat, at : Nat]
    /\ held.at > 0 => held.position < held.at
    /\ held.at <= Len(notes)

(* Appending keeps the earlier trees as prefixes.                          *)
LEMMA LeavesFacts ==
  ASSUME KInv
  PROVE  /\ Leaves \in Seq(Stored) /\ Len(Leaves) = Len(notes) /\ Len(notes) \in Nat
         /\ \A k \in 1..Len(notes) : notes[k] \in Notes /\ Leaves[k] = Commitment(notes[k])
         /\ \A n \in 0..Len(notes) :
               /\ LeavesAt(n) \in Seq(Stored) /\ Len(LeavesAt(n)) = n
               /\ \A k \in 1..n : LeavesAt(n)[k] = Leaves[k]
<1>1. Len(notes) \in Nat /\ DOMAIN notes = 1..Len(notes)
      /\ \A k \in 1..Len(notes) : notes[k] \in Notes
  BY DEF KInv
<1>2. Leaves \in [1..Len(notes) -> Stored]
  BY <1>1 DEF Leaves, Stored
<1>3. Leaves \in Seq(Stored) /\ Len(Leaves) = Len(notes)
  BY <1>1, <1>2, FcnIsSeq
<1>4. \A k \in 1..Len(notes) : Leaves[k] = Commitment(notes[k])
  BY <1>1 DEF Leaves
<1>5. ASSUME NEW n \in 0..Len(notes)
      PROVE  /\ LeavesAt(n) \in Seq(Stored) /\ Len(LeavesAt(n)) = n
             /\ \A k \in 1..n : LeavesAt(n)[k] = Leaves[k]
  <2>1. n \in Nat /\ n <= Len(Leaves) /\ 1 \in Nat
    BY <1>1, <1>3
  <2>2. \A i \in 1..n : Leaves[i] \in Stored
    BY <1>1, <1>2
  <2>3. LeavesAt(n) = [k \in 1..n |-> Leaves[k]]
    BY <1>3, <2>1 DEF LeavesAt
  <2>4. LeavesAt(n) \in [1..n -> Stored]
    BY <2>2, <2>3
  <2> QED BY <2>1, <2>3, <2>4, FcnIsSeq
<1> QED BY <1>1, <1>3, <1>4, <1>5

(* Each step keeps the invariant.                                          *)
LEMMA KInvHolds == Spec => []KInv
<1>1. Init => KInv
  BY BoundsAssumption DEF Init, KInv, NoWitness
<1>2. KInv /\ [Next]_kvars => KInv'
  <2> SUFFICES ASSUME KInv, [Next]_kvars PROVE KInv'
    OBVIOUS
  <2> USE DEF KInv
  <2>1. ASSUME NEW note \in Notes, AppendNote(note) PROVE KInv'
    BY <2>1, BoundsAssumption DEF AppendNote
  <2>2. ASSUME NEW p \in 0..(MaxLeaves - 1), TakeWitness(p) PROVE KInv'
    BY <2>2, BoundsAssumption, LeavesFacts DEF TakeWitness, HasWitness
  <2>3. ASSUME NEW pay, NEW ms, Knock(pay, ms) PROVE KInv'
    BY <2>3 DEF Knock
  <2>4. CASE UNCHANGED kvars
    BY <2>4 DEF kvars
  <2> QED BY <2>1, <2>2, <2>3, <2>4 DEF Next
<1> QED BY <1>1, <1>2, PTL DEF Spec

-----------------------------------------------------------------------------
(* A path proves membership exactly, in every tree that has fewer leaves   *)
(* than two subtrees of full capacity.                                     *)
THEOREM PathsBindLeavesHolds ==
  ASSUME MaxLeaves < 2 * Capacity
  PROVE  Spec => []PathsBindLeaves
<1>1. KInv => PathsBindLeaves
  <2> SUFFICES ASSUME KInv, NEW p \in 0..(Len(notes) - 1), NEW n \in Notes
               PROVE  VerifyPath(Commitment(n), Witness(Leaves, p), MerkleRoot(Leaves))
                         <=> p < Capacity /\ n = notes[p + 1]
    BY DEF PathsBindLeaves
  <2>1. /\ Leaves \in Seq(Stored) /\ Len(Leaves) = Len(notes) /\ Len(notes) \in Nat
        /\ \A k \in 1..Len(notes) : notes[k] \in Notes /\ Leaves[k] = Commitment(notes[k])
    BY LeavesFacts
  <2>2. p \in Nat /\ p < Len(Leaves) /\ p + 1 \in 1..Len(notes)
    BY <2>1
  <2>3. Capacity \in Nat
    BY DepthAssumption, PowerPositive DEF Capacity
  <2>4. Len(Leaves) < 2 * Capacity
    BY <2>1, <2>3, BoundsAssumption DEF KInv
  <2>5. Commitment(n) \in Stored
    BY DEF Stored
  <2>6. VerifyPath(Commitment(n), Witness(Leaves, p), MerkleRoot(Leaves))
           <=> p < Capacity /\ Commitment(n) = Leaves[p + 1]
    BY <2>1, <2>2, <2>4, <2>5, PathBinds, CommitmentFacts
  <2>7. Commitment(n) = Leaves[p + 1] <=> n = notes[p + 1]
    BY <2>1, <2>2, CommitmentFacts
  <2> QED BY <2>6, <2>7
<1> QED BY <1>1, KInvHolds, PTL

(* The smaller of two numbers.                                             *)
LEMMA MinOfTwo ==
  ASSUME NEW a \in Nat, NEW b \in Nat
  PROVE  Min({a, b}) = IF a <= b THEN a ELSE b
<1> DEFINE m == IF a <= b THEN a ELSE b
<1>1. m \in {a, b} /\ \A y \in {a, b} : m <= y
  OBVIOUS
<1>2. \A x \in {a, b} : (\A y \in {a, b} : x <= y) => x = m
  OBVIOUS
<1> QED BY <1>1, <1>2 DEF Min

(* A witness belongs to the root of the tree it was read from, for every   *)
(* depth and every number of leaves.                                       *)
THEOREM WitnessBelongsToItsRootHolds == Spec => []WitnessBelongsToItsRoot
<1>1. KInv => WitnessBelongsToItsRoot
  <2> SUFFICES ASSUME KInv, held.at > 0, NEW n \in 0..Len(notes)
               PROVE  LET proves == VerifyPath(HeldLeaf, HeldPath, MerkleRoot(LeavesAt(n)))
                          slot == (held.position % Capacity) + 1
                      IN  IF InTree
                          THEN proves <=> Min({n, Capacity}) = Min({held.at, Capacity})
                          ELSE proves => slot <= n /\ Leaves[slot] = HeldLeaf
    BY DEF WitnessBelongsToItsRoot
  <2> DEFINE p == held.position
             a == held.at
             s == LeavesAt(a)
             u == LeavesAt(n)
  <2>1. p \in Nat /\ a \in 0..Len(notes) /\ p < a /\ a \in Nat /\ n \in Nat /\ p + 1 \in 1..a
    BY LeavesFacts DEF KInv
  <2>2. /\ s \in Seq(Stored) /\ Len(s) = a /\ \A k \in 1..a : s[k] = Leaves[k]
        /\ u \in Seq(Stored) /\ Len(u) = n /\ \A k \in 1..n : u[k] = Leaves[k]
    BY <2>1, LeavesFacts
  <2>3. \A k \in 1..Len(notes) : Leaves[k] \in Stored
    BY LeavesFacts
  <2>4. HeldLeaf = s[p + 1] /\ HeldPath = Witness(s, p) /\ HeldLeaf \in Stored
    BY <2>1, <2>2, <2>3 DEF HeldLeaf, HeldPath
  <2>5. Capacity \in Nat \ {0}
    BY DepthAssumption, PowerPositive DEF Capacity
  <2> HIDE DEF s, u, p, a
  <2>6. ASSUME NEW j \in Nat
        PROVE  /\ TreeNode(s, 0, j) = IF j < a THEN Leaves[j + 1] ELSE EmptyLeaf
               /\ TreeNode(u, 0, j) = IF j < n THEN Leaves[j + 1] ELSE EmptyLeaf
    <3>1. /\ TreeNode(s, 0, j) = IF j < a THEN s[j + 1] ELSE EmptyLeaf
          /\ TreeNode(u, 0, j) = IF j < n THEN u[j + 1] ELSE EmptyLeaf
      BY <2>2, NodeLeaf
    <3>2. /\ j < a => j + 1 \in 1..a
          /\ j < n => j + 1 \in 1..n
      BY <2>1
    <3> QED BY <2>2, <3>1, <3>2
  <2>7. CASE InTree
    <3>1. p < Capacity
      BY <2>7 DEF InTree, p
    <3>2. VerifyPath(HeldLeaf, HeldPath, MerkleRoot(u))
             <=> \A j \in 0..(Capacity - 1) : TreeNode(s, 0, j) = TreeNode(u, 0, j)
      BY <2>1, <2>2, <2>4, <3>1, PathKept
    <3>3. Min({n, Capacity}) = (IF n <= Capacity THEN n ELSE Capacity)
          /\ Min({a, Capacity}) = (IF a <= Capacity THEN a ELSE Capacity)
      BY <2>1, <2>5, MinOfTwo
    <3>4. ASSUME Min({n, Capacity}) = Min({a, Capacity}), NEW j \in 0..(Capacity - 1)
          PROVE  TreeNode(s, 0, j) = TreeNode(u, 0, j)
      <4>1. j \in Nat /\ (j < a <=> j < n)
        BY <2>1, <2>5, <3>3, <3>4
      <4> QED BY <2>6, <4>1
    <3>5. ASSUME Min({n, Capacity}) # Min({a, Capacity})
          PROVE  \E j \in 0..(Capacity - 1) : TreeNode(s, 0, j) # TreeNode(u, 0, j)
      <4> DEFINE j == IF n < a THEN n ELSE a
      <4>1. j \in 0..(Capacity - 1) /\ j \in Nat /\ ((j < a) # (j < n))
        BY <2>1, <2>5, <3>3, <3>5
      <4>2. j + 1 \in 1..Len(notes)
        BY <2>1, <4>1, LeavesFacts
      <4>3. Leaves[j + 1] # EmptyLeaf
        BY <2>3, <4>2, CommitmentFacts
      <4>4. TreeNode(s, 0, j) # TreeNode(u, 0, j)
        BY <2>6, <4>1, <4>3
      <4> QED BY <4>1, <4>4
    <3> QED BY <2>7, <3>2, <3>4, <3>5 DEF u, a
  <2>8. CASE ~InTree
    <3> DEFINE m == p % Capacity
    <3>1. SUFFICES ASSUME VerifyPath(HeldLeaf, HeldPath, MerkleRoot(u))
                   PROVE  m + 1 <= n /\ Leaves[m + 1] = HeldLeaf
      BY <2>8 DEF u, p
    <3>2. HeldPath.position = p
      BY <2>4 DEF Witness
    <3>3. HeldLeaf = TreeNode(u, 0, m)
      BY <2>1, <2>2, <3>1, <3>2, PathOpensSlot
    <3>4. m \in Nat
      BY <2>1, <2>5
    <3> QED BY <2>1, <2>4, <2>6, <3>3, <3>4, CommitmentFacts
  <2> QED BY <2>7, <2>8
<1> QED BY <1>1, KInvHolds, PTL

-----------------------------------------------------------------------------
(* The verdict of check_spend_statement on the baseline with the mutations *)
(* of ms, as Knock records it.                                             *)
Fired(pay, ms) ==
    LET anchor == [height |-> 0, root |-> LeavesAt(held.at)]
        w == Smuggle(Baseline(held.position, HeldPath, pay), ms)
        pi == PublicInputs(w, anchor)
    IN  CheckSpendStatement(TamperWitness(w, ms), TamperPublic(pi, ms))

(* The first check that fails decides.                                     *)
LEMMA FirstOfFive ==
  ASSUME NEW a, NEW b, NEW c, NEW d, NEW e
  PROVE  FirstFailed(<<a, b, c, d, e>>) =
            IF a # "Ok" THEN a ELSE IF b # "Ok" THEN b ELSE IF c # "Ok" THEN c
            ELSE IF d # "Ok" THEN d ELSE e
<1> DEFINE s == <<a, b, c, d, e>>
           failed == {k \in DOMAIN s : s[k] # "Ok"}
           least(k) == k \in failed /\ \A j \in failed : k <= j
           n == IF a # "Ok" THEN 1 ELSE IF b # "Ok" THEN 2 ELSE IF c # "Ok" THEN 3
                ELSE IF d # "Ok" THEN 4 ELSE 5
<1>1. DOMAIN s = 1..5 /\ s[1] = a /\ s[2] = b /\ s[3] = c /\ s[4] = d /\ s[5] = e
  OBVIOUS
<1>2. failed = {} <=> a = "Ok" /\ b = "Ok" /\ c = "Ok" /\ d = "Ok" /\ e = "Ok"
  <2>1. \A k \in 1..5 : k = 1 \/ k = 2 \/ k = 3 \/ k = 4 \/ k = 5
    OBVIOUS
  <2> QED BY <1>1, <2>1
<1>3. CASE failed = {}
  BY <1>2, <1>3 DEF FirstFailed
<1>4. CASE failed # {}
  <2>1. least(n)
    <3>1. n \in 1..5 /\ s[n] # "Ok"
      BY <1>1, <1>2, <1>4
    <3>2. ASSUME NEW j \in 1..5, j < n PROVE s[j] = "Ok"
      BY <1>1, <3>2
    <3> HIDE DEF n, s
    <3>3. n \in failed
      BY <1>1, <3>1
    <3>4. \A j \in failed : j \in 1..5 /\ ~ (j < n)
      BY <1>1, <3>2
    <3> QED BY <3>1, <3>3, <3>4
  <2>2. \A k : least(k) => k = n
    <3>1. failed \subseteq Nat
      BY <1>1
    <3> HIDE DEF failed, n
    <3> QED BY <2>1, <3>1
  <2>3. (CHOOSE k \in failed : \A j \in failed : k <= j) = n
    <3> HIDE DEF failed, n
    <3> QED BY <2>1, <2>2
  <2>4. FirstFailed(s) = s[n]
    <3> HIDE DEF n
    <3> QED BY <1>4, <2>3 DEF FirstFailed
  <2>5. s[n] = IF a # "Ok" THEN a ELSE IF b # "Ok" THEN b ELSE IF c # "Ok" THEN c
               ELSE IF d # "Ok" THEN d ELSE e
    BY <1>1
  <2> QED BY <2>4, <2>5
<1> QED BY <1>3, <1>4

(* The baseline has its note and a dummy as inputs, in either order.       *)
IsBaseline(b, x, path, pay) ==
    LET nf == Nullifier(b.inputs[1].note, x.addr_tag)
        recipient == IF x.addr_tag = 1 THEN 2 ELSE 1
    IN  /\ b = [spender_nk |-> x.addr_tag, spender_addr_tag |-> x.addr_tag,
                inputs |-> b.inputs, outputs |-> b.outputs,
                mint_value |-> 0, binding_digest |-> 3]
        /\ b.outputs = << [value |-> pay, addr_tag |-> recipient,
                           rho |-> RhoTransfer(nf, 0)],
                          [value |-> x.value - pay, addr_tag |-> x.addr_tag,
                           rho |-> RhoTransfer(nf, 1)] >>
        /\ \E r, d \in 1..2 :
              /\ r # d
              /\ b.inputs[r] = [note |-> x, path |-> path, is_dummy |-> FALSE]
              /\ b.inputs[d] = [note |-> DummyNote(0), path |-> EmptyPath, is_dummy |-> TRUE]

(* That is what the construction of the baseline gives.                    *)
LEMMA BaselineShape ==
  ASSUME NEW p, NEW path, NEW pay
  PROVE  IsBaseline(Baseline(p, path, pay), notes[p + 1], path, pay)
<1> DEFINE x == notes[p + 1]
           real == [note |-> x, path |-> path, is_dummy |-> FALSE]
           dummy == [note |-> DummyNote(0), path |-> EmptyPath, is_dummy |-> TRUE]
           c == Canonicalize(<<real, dummy>>, x.addr_tag)
           b == Baseline(p, path, pay)
<1>1. c = <<real, dummy>> \/ c = <<dummy, real>>
  <2> HIDE DEF real, dummy
  <2> QED BY DEF Canonicalize
<1>2. b = [spender_nk |-> x.addr_tag, spender_addr_tag |-> x.addr_tag,
           inputs |-> c,
           outputs |-> << [value |-> pay, addr_tag |-> IF x.addr_tag = 1 THEN 2 ELSE 1,
                           rho |-> RhoTransfer(Nullifier(c[1].note, x.addr_tag), 0)],
                          [value |-> x.value - pay, addr_tag |-> x.addr_tag,
                           rho |-> RhoTransfer(Nullifier(c[1].note, x.addr_tag), 1)] >>,
           mint_value |-> 0, binding_digest |-> 3]
  BY DEF Baseline
<1> HIDE DEF c, b, real, dummy
<1>3. b.inputs = c
  BY <1>2
<1>4. \E r, d \in 1..2 : r # d /\ c[r] = real /\ c[d] = dummy
  <2>1. CASE c = <<real, dummy>>
    <3>1. 1 \in 1..2 /\ 2 \in 1..2 /\ 1 # 2 /\ c[1] = real /\ c[2] = dummy
      BY <2>1
    <3> QED BY <3>1
  <2>2. CASE c = <<dummy, real>>
    <3>1. 1 \in 1..2 /\ 2 \in 1..2 /\ 1 # 2 /\ c[2] = real /\ c[1] = dummy
      BY <2>2
    <3> QED BY <3>1
  <2> QED BY <1>1, <2>1, <2>2
<1> QED BY <1>2, <1>3, <1>4 DEF b, real, dummy, IsBaseline

(* Whether the real input's path verifies after the mutations: only its    *)
(* own tree and path prove the note.                                       *)
LEMMA PathVerdict ==
  ASSUME KInv, held.at > 0, MaxLeaves < 2 * Capacity, NEW path, NEW root,
         \/ path = HeldPath
         \/ path.position = held.position /\ path.siblings[1] = WrongNode,
         root \in {LeavesAt(held.at), <<WrongNode>>}
  PROVE  LET leaf == Commitment(notes[held.position + 1])
         IN  VerifyPath(leaf, path, MerkleRoot(root))
                <=> path = HeldPath /\ root = LeavesAt(held.at) /\ InTree
<1> DEFINE p == held.position
           s == LeavesAt(held.at)
           leaf == Commitment(notes[p + 1])
<1>1. p \in Nat /\ held.at \in 0..Len(notes) /\ p < held.at /\ p + 1 \in 1..held.at
      /\ p + 1 \in 1..Len(notes) /\ Capacity \in Nat \ {0}
  <2>1. Capacity \in Nat \ {0}
    BY DepthAssumption, PowerPositive DEF Capacity
  <2> QED BY <2>1, LeavesFacts DEF KInv
<1>2. /\ s \in Seq(Stored) /\ Len(s) = held.at /\ \A k \in 1..held.at : s[k] = Leaves[k]
  BY <1>1, LeavesFacts
<1>3. leaf \in Stored /\ leaf = s[p + 1]
  BY <1>1, <1>2, LeavesFacts DEF Stored
<1>4. Len(s) < 2 * Capacity
  BY <1>1, <1>2, BoundsAssumption, LeavesFacts DEF KInv
<1>5. HeldPath = Witness(s, p)
  BY DEF HeldPath
<1>6. path.position = p
  BY <1>5 DEF Witness
<1> DEFINE m == p % Capacity
<1>7. m \in Nat /\ Flip(m) \in Nat
  <2>1. m \in Nat
    BY <1>1
  <2> HIDE DEF m
  <2> QED BY <2>1 DEF Flip
<1> HIDE DEF p, s, leaf, m
<1>8. ASSUME NEW S, NEW t \in Seq(S), VerifyPath(leaf, path, MerkleRoot(t))
      PROVE  leaf = TreeNode(t, 0, m) /\ path.siblings[1] = TreeNode(t, 0, Flip(m))
  BY <1>1, <1>6, <1>8, PathOpensSlot DEF m
<1>9. CASE root = <<WrongNode>> /\ root # s
  <2> SUFFICES ASSUME VerifyPath(leaf, path, MerkleRoot(root)) PROVE FALSE
    BY <1>9 DEF s, p, leaf
  <2>1. root \in Seq({WrongNode}) /\ Len(root) = 1 /\ root[1] = WrongNode
    BY <1>9
  <2>2. leaf = TreeNode(root, 0, m)
    BY <1>8, <2>1
  <2>3. leaf \in {WrongNode, EmptyLeaf}
    <3>1. TreeNode(root, 0, m) = IF m < 1 THEN root[m + 1] ELSE EmptyLeaf
      BY <1>7, <2>1, NodeLeaf
    <3> QED BY <1>7, <2>1, <2>2, <3>1
  <2> QED BY <1>3, <2>3, CommitmentFacts
<1>10. CASE root = s /\ path # HeldPath
  <2> SUFFICES ASSUME VerifyPath(leaf, path, MerkleRoot(root)) PROVE FALSE
    BY <1>10 DEF s, p, leaf
  <2>1. WrongNode = TreeNode(s, 0, Flip(m))
    BY <1>2, <1>8, <1>10
  <2>2. TreeNode(s, 0, Flip(m)) = IF Flip(m) < Len(s) THEN s[Flip(m) + 1] ELSE EmptyLeaf
    BY <1>2, <1>7, NodeLeaf
  <2>3. Flip(m) < Len(s) => s[Flip(m) + 1] \in Stored
    BY <1>2, <1>7
  <2> QED BY <2>1, <2>2, <2>3, CommitmentFacts
<1>11. CASE root = s /\ path = HeldPath
  <2>1. VerifyPath(leaf, Witness(s, p), MerkleRoot(s)) <=> p < Capacity /\ leaf = s[p + 1]
    BY <1>1, <1>2, <1>3, <1>4, PathBinds, CommitmentFacts
  <2> QED BY <1>3, <1>5, <1>11, <2>1 DEF InTree, s, p, leaf
<1> QED BY <1>9, <1>10, <1>11 DEF s

(* What is left of an input after the mutations before and after           *)
(* public_inputs.                                                          *)
IsMutatedInput(j, i, x, path, dummy, ms) ==
    /\ j.note.rho = x.rho
    /\ i.is_dummy = dummy
    /\ i.note.addr_tag = x.addr_tag /\ i.note.rho = x.rho
    /\ i.note.value = IF dummy THEN (IF "C4" \in ms THEN 1 ELSE x.value)
                      ELSE IF "C6 input" \in ms THEN MAX_MONEY ELSE x.value
    /\ i.path.position = path.position
    /\ ~dummy /\ "C1 path" \in ms => i.path.siblings[1] = WrongNode
    /\ ~ (~dummy /\ "C1 path" \in ms) => i.path = path

(* That is what the mutations of an input do.                              *)
LEMMA InputMutated ==
  ASSUME NEW x, NEW path, NEW ms, NEW dummy \in BOOLEAN, NEW vs, NEW in,
         x \in [value : Nat, addr_tag : Nat, rho : Nat],
         path = [position |-> path.position, siblings |-> path.siblings],
         path.siblings \in [1..TREE_DEPTH -> vs],
         in = [note |-> x, path |-> path, is_dummy |-> dummy]
  PROVE  IsMutatedInput(SmuggleInput(in, ms), TamperInput(SmuggleInput(in, ms), ms),
                        x, path, dummy, ms)
<1> DEFINE j == SmuggleInput(in, ms)
           i == TamperInput(j, ms)
<1>1. /\ j.is_dummy = dummy /\ j.path = path
      /\ j.note.addr_tag = x.addr_tag /\ j.note.rho = x.rho
      /\ j.note.value = IF dummy THEN (IF "C4" \in ms THEN 1 ELSE x.value)
                        ELSE IF "C6 input" \in ms THEN MAX_MONEY ELSE x.value
      /\ DOMAIN j = {"note", "path", "is_dummy"}
  BY DEF SmuggleInput
<1>2. DOMAIN path = {"position", "siblings"} /\ 1 \in 1..TREE_DEPTH
  BY DepthAssumption
<1> HIDE DEF j
<1>3. i.is_dummy = dummy /\ i.note = j.note
  BY <1>1 DEF TamperInput
<1>4. i.path = [path EXCEPT !.siblings[1] =
                   IF ~dummy /\ "C1 path" \in ms THEN WrongNode ELSE path.siblings[1]]
  BY <1>1 DEF TamperInput
<1>5. i.path.position = path.position
  BY <1>2, <1>4
<1>6. ~dummy /\ "C1 path" \in ms => i.path.siblings[1] = WrongNode
  BY <1>2, <1>4
<1>7. ~ (~dummy /\ "C1 path" \in ms) => i.path = path
  <2> SUFFICES ASSUME ~ (~dummy /\ "C1 path" \in ms) PROVE i.path = path
    OBVIOUS
  <2> DEFINE f == path.siblings
  <2>1. [f EXCEPT ![1] = f[1]] = f
    BY <1>2
  <2>2. i.path = [path EXCEPT !.siblings = [f EXCEPT ![1] = f[1]]]
    BY <1>4
  <2>3. [path EXCEPT !.siblings = f] = path
    BY <1>2
  <2> QED BY <2>1, <2>2, <2>3
<1>8. /\ i.is_dummy = dummy
      /\ i.note.addr_tag = x.addr_tag /\ i.note.rho = x.rho
      /\ i.note.value = IF dummy THEN (IF "C4" \in ms THEN 1 ELSE x.value)
                        ELSE IF "C6 input" \in ms THEN MAX_MONEY ELSE x.value
  <2> HIDE DEF i
  <2> QED BY <1>1, <1>3
<1>9. j.note.rho = x.rho
  BY <1>1
<1> QED BY <1>5, <1>6, <1>7, <1>8, <1>9 DEF j, IsMutatedInput

(* What each part of the statement says about the mutated spend, the real  *)
(* input being the first of the two or not.                                *)
RealVerdict(ms, first) ==
    IF "C6 input" \in ms THEN "C6"
    ELSE IF "C1 path" \in ms \/ "C1 root" \in ms \/ ~InTree THEN "C1"
    ELSE IF "C3" \in ms THEN "C3"
    ELSE IF first /\ "C2" \in ms THEN "C2" ELSE "Ok"

DummyVerdict(ms, first) ==
    IF "C4" \in ms THEN "C4" ELSE IF first /\ "C2" \in ms THEN "C2" ELSE "Ok"

PaidVerdict(ms) ==
    IF "C6 output" \in ms THEN "C6"
    ELSE IF "C5 commitment" \in ms \/ "C5 rho" \in ms \/ "C2" \in ms THEN "C5" ELSE "Ok"

ChangeVerdict(ms) == IF "C2" \in ms THEN "C5" ELSE "Ok"

(* The balance, where values are in range and the dummy has none.          *)
BalanceVerdict(ms) == IF "C7" \in ms THEN "C7" ELSE "Ok"

(* The mutated witness W and public inputs P, field by field.              *)
IsMutated(W, P, b, nk, anchored, ms) ==
    /\ Len(W.inputs) = 2 /\ Len(W.outputs) = 2
    /\ Len(P.nullifiers) = 2 /\ Len(P.commitments) = 2
    /\ \A k \in 1..2 : W.inputs[k] = TamperInput(SmuggleInput(b.inputs[k], ms), ms)
    /\ W.outputs[1] = SmuggleOutput(b.outputs[1], ms)
    /\ W.outputs[2] = b.outputs[2]
    /\ W.spender_nk = nk
    /\ W.spender_addr_tag = IF "C3" \in ms THEN WrongTag ELSE nk
    /\ W.mint_value = 0 /\ W.binding_digest = 3
    /\ P.anchor.root = IF "C1 root" \in ms THEN <<WrongNode>> ELSE anchored
    /\ P.nullifiers[1] = LET nf == Nullifier(SmuggleInput(b.inputs[1], ms).note, nk)
                         IN  IF "C2" \in ms THEN nf + 1 ELSE nf
    /\ P.nullifiers[2] = Nullifier(SmuggleInput(b.inputs[2], ms).note, nk)
    /\ P.commitments[1] = IF "C5 commitment" \in ms THEN WrongNode
                          ELSE Commitment(SmuggleOutput(b.outputs[1], ms))
    /\ P.commitments[2] = Commitment(b.outputs[2])
    /\ P.binding_digest = IF "C8" \in ms THEN 4 ELSE 3

(* That is what the mutations other than that of the arity do.             *)
LEMMA MutatedShape ==
  ASSUME NEW x, NEW path, NEW pay, NEW anchored, NEW ms, "C0" \notin ms, NEW b,
         IsBaseline(b, x, path, pay)
  PROVE  LET w == Smuggle(b, ms)
         IN  IsMutated(TamperWitness(w, ms),
                       TamperPublic(PublicInputs(w, [height |-> 0, root |-> anchored]), ms),
                       b, x.addr_tag, anchored, ms)
<1> DEFINE nk == x.addr_tag
           w == Smuggle(b, ms)
           W == TamperWitness(w, ms)
           pi == PublicInputs(w, [height |-> 0, root |-> anchored])
           P == TamperPublic(pi, ms)
           nf(k) == Nullifier(SmuggleInput(b.inputs[k], ms).note, nk)
           o1 == SmuggleOutput(b.outputs[1], ms)
           o2 == b.outputs[2]
<1>1. b = [spender_nk |-> nk, spender_addr_tag |-> nk, inputs |-> b.inputs,
           outputs |-> b.outputs, mint_value |-> 0, binding_digest |-> 3]
  BY DEF IsBaseline
<1> HIDE DEF o1, o2
<1>2. /\ w.inputs = [k \in 1..2 |-> SmuggleInput(b.inputs[k], ms)]
      /\ w.outputs = <<o1, o2>>
      /\ w.spender_nk = nk /\ w.spender_addr_tag = nk
      /\ w.mint_value = 0 /\ w.binding_digest = 3
      /\ DOMAIN w = {"spender_nk", "spender_addr_tag", "inputs", "outputs",
                     "mint_value", "binding_digest"}
  BY <1>1 DEF Smuggle, o1, o2
<1> HIDE DEF w
<1>3. /\ W.inputs = [k \in 1..2 |-> TamperInput(w.inputs[k], ms)]
      /\ W.outputs = <<o1, o2>>
      /\ W.spender_nk = nk
      /\ W.spender_addr_tag = IF "C3" \in ms THEN WrongTag ELSE nk
      /\ W.mint_value = 0 /\ W.binding_digest = 3
  BY <1>2 DEF TamperWitness
<1> HIDE DEF W
<1>4. /\ Len(W.inputs) = 2 /\ Len(W.outputs) = 2
      /\ W.outputs[1] = o1 /\ W.outputs[2] = o2
  BY <1>3
<1>5. \A k \in 1..2 : W.inputs[k] = TamperInput(SmuggleInput(b.inputs[k], ms), ms)
  BY <1>2, <1>3
<1>6. pi = [anchor |-> [height |-> 0, root |-> anchored],
            nullifiers |-> [k \in 1..2 |-> nf(k)],
            commitments |-> [k \in 1..2 |-> Commitment(<<o1, o2>>[k])],
            binding_digest |-> 3, mint_value |-> 0]
  <2>1. DOMAIN w.inputs = 1..2 /\ DOMAIN w.outputs = 1..2
    BY <1>2
  <2>2. [k \in DOMAIN w.inputs |-> Nullifier(w.inputs[k].note, w.spender_nk)]
           = [k \in 1..2 |-> nf(k)]
    <3>1. \A k \in 1..2 : w.inputs[k] = SmuggleInput(b.inputs[k], ms)
      BY <1>2
    <3> QED BY <1>2, <2>1, <3>1
  <2>3. [k \in DOMAIN w.outputs |-> Commitment(w.outputs[k])]
           = [k \in 1..2 |-> Commitment(<<o1, o2>>[k])]
    BY <1>2, <2>1
  <2> QED BY <1>2, <2>2, <2>3 DEF PublicInputs
<1> HIDE DEF pi, nf
<1>7. /\ P.anchor = [pi.anchor EXCEPT !.root =
                        IF "C1 root" \in ms THEN <<WrongNode>> ELSE pi.anchor.root]
      /\ P.nullifiers = [pi.nullifiers EXCEPT ![1] =
                            IF "C2" \in ms THEN pi.nullifiers[1] + 1 ELSE pi.nullifiers[1]]
      /\ P.commitments = [pi.commitments EXCEPT ![1] =
                             IF "C5 commitment" \in ms THEN WrongNode ELSE pi.commitments[1]]
      /\ P.binding_digest = IF "C8" \in ms THEN pi.binding_digest + 1 ELSE pi.binding_digest
  BY <1>6 DEF TamperPublic
<1> HIDE DEF P
<1>8. P.anchor.root = IF "C1 root" \in ms THEN <<WrongNode>> ELSE anchored
  BY <1>6, <1>7
<1>9. P.binding_digest = IF "C8" \in ms THEN 4 ELSE 3
  <2>1. pi.binding_digest = 3 /\ 3 + 1 = 4
    BY <1>6
  <2> QED BY <1>7, <2>1
<1>10. /\ Len(P.nullifiers) = 2
       /\ P.nullifiers[1] = (IF "C2" \in ms THEN nf(1) + 1 ELSE nf(1))
       /\ P.nullifiers[2] = nf(2)
  <2> DEFINE z == IF "C2" \in ms THEN nf(1) + 1 ELSE nf(1)
  <2>1. pi.nullifiers = [k \in 1..2 |-> nf(k)]
    BY <1>6
  <2> DEFINE g == [k \in 1..2 |-> nf(k)]
  <2>4. g[1] = nf(1)
    OBVIOUS
  <2>5. P.nullifiers = [g EXCEPT ![1] = IF "C2" \in ms THEN g[1] + 1 ELSE g[1]]
    <3> HIDE DEF g
    <3>1. pi.nullifiers = g
      BY <2>1 DEF g
    <3> QED BY ONLY <1>7, <3>1, Zenon
  <2>2. P.nullifiers = [g EXCEPT ![1] = z]
    <3> HIDE DEF g
    <3> QED BY ONLY <2>4, <2>5, Zenon DEF z
  <2> HIDE DEF z
  <2>3. Len(P.nullifiers) = 2 /\ P.nullifiers[1] = z /\ P.nullifiers[2] = nf(2)
    BY <2>2
  <2> QED BY <2>3 DEF z
<1>11. /\ Len(P.commitments) = 2
       /\ P.commitments[1] = IF "C5 commitment" \in ms THEN WrongNode ELSE Commitment(o1)
       /\ P.commitments[2] = Commitment(o2)
  <2> DEFINE c1 == Commitment(o1)
             c2 == Commitment(o2)
             z == IF "C5 commitment" \in ms THEN WrongNode ELSE c1
  <2>1. pi.commitments = [k \in 1..2 |-> Commitment(<<o1, o2>>[k])]
    BY <1>6
  <2>2. pi.commitments[1] = c1 /\ pi.commitments[2] = c2 /\ DOMAIN pi.commitments = 1..2
    BY <2>1
  <2>3. pi.commitments = <<c1, c2>>
    BY <2>1, <2>2
  <2> HIDE DEF c1, c2
  <2>4. P.commitments = [<<c1, c2>> EXCEPT ![1] = z]
    BY <1>7, <2>2, <2>3
  <2> HIDE DEF z
  <2>5. Len(P.commitments) = 2 /\ P.commitments[1] = z /\ P.commitments[2] = c2
    BY <2>4
  <2> QED BY <2>5 DEF z, c1, c2
<1> QED BY <1>3, <1>4, <1>5, <1>8, <1>9, <1>10, <1>11 DEF IsMutated, nf, o1, o2, W, P, pi, w

(* What the witness kept is about: a note of the tree, its siblings and    *)
(* leaves none of the wrong bytes.                                         *)
LEMMA HeldFacts ==
  ASSUME KInv, held.at > 0
  PROVE  LET x == notes[held.position + 1]
         IN  /\ x \in Notes /\ x \in [value : Nat, addr_tag : Nat, rho : Nat]
             /\ x.addr_tag # 0 /\ x.value + 1 < MAX_MONEY
             /\ HeldPath = [position |-> HeldPath.position, siblings |-> HeldPath.siblings]
             /\ HeldPath.position = held.position
             /\ HeldPath.siblings \in [1..TREE_DEPTH -> {HeldPath.siblings[k] : k \in 1..TREE_DEPTH}]
             /\ HeldPath.siblings[1] # WrongNode
             /\ LeavesAt(held.at) # <<WrongNode>>
<1> DEFINE p == held.position
           s == LeavesAt(held.at)
           x == notes[p + 1]
<1>1. p \in Nat /\ held.at \in 0..Len(notes) /\ p + 1 \in 1..Len(notes) /\ held.at \in Nat
  BY LeavesFacts DEF KInv
<1>2. s \in Seq(Stored) /\ Len(s) > 0
  BY <1>1, LeavesFacts
<1>3. x \in Notes
  BY <1>1, LeavesFacts
<1>4. HeldPath = Witness(s, p)
  BY DEF HeldPath
<1> HIDE DEF p, s, x
<1>5. x \in [value : Nat, addr_tag : Wallets, rho : Nat] /\ x.value + 1 < MAX_MONEY
  BY <1>3, NotesAssumption
<1>6. Cardinality(Wallets) \in Nat
  BY WalletsAssumption, FS_CardinalityType
<1>7. \A t \in Wallets : t \in Nat /\ t # 0
  BY <1>6, WalletsAssumption
<1>8. x \in [value : Nat, addr_tag : Nat, rho : Nat] /\ x.addr_tag # 0
  BY <1>5, <1>7
<1>9. /\ HeldPath = [position |-> HeldPath.position, siblings |-> HeldPath.siblings]
      /\ HeldPath.position = p
      /\ HeldPath.siblings \in [1..TREE_DEPTH -> {HeldPath.siblings[k] : k \in 1..TREE_DEPTH}]
  <2>1. HeldPath.siblings = [k \in 1..TREE_DEPTH |-> HeldPath.siblings[k]]
    BY <1>4 DEF Witness
  <2>2. \A g : g = [k \in 1..TREE_DEPTH |-> g[k]]
              => g \in [1..TREE_DEPTH -> {g[k] : k \in 1..TREE_DEPTH}]
    OBVIOUS
  <2>3. /\ HeldPath = [position |-> HeldPath.position, siblings |-> HeldPath.siblings]
        /\ HeldPath.position = p
    BY <1>4 DEF Witness
  <2> QED BY <2>1, <2>2, <2>3
<1>10. HeldPath.siblings[1] # WrongNode
  <2>1. 2^0 = 1 /\ p \div 1 = p
    BY <1>1
  <2>2. 0 \in 0..(TREE_DEPTH - 1) /\ 0 + 1 = 1 /\ 0 \in Nat
    BY DepthAssumption
  <2>3. Flip(p) \in Nat
    BY <1>1 DEF Flip
  <2>4. Witness(s, p).siblings[0 + 1] = TreeNode(s, 0, Flip(p \div 2^0))
    BY <1>1, <2>2, WitnessSiblings
  <2>5. HeldPath.siblings[1] = TreeNode(s, 0, Flip(p))
    BY <1>4, <2>1, <2>2, <2>4
  <2>6. TreeNode(s, 0, Flip(p)) = IF Flip(p) < Len(s) THEN s[Flip(p) + 1] ELSE EmptyLeaf
    BY <1>2, <2>3, NodeLeaf
  <2>7. Flip(p) < Len(s) => s[Flip(p) + 1] \in Stored
    BY <1>2, <2>3
  <2> QED BY <2>5, <2>6, <2>7, CommitmentFacts
<1>11. s # <<WrongNode>>
  <2>1. s[1] \in Stored
    BY <1>2
  <2>2. <<WrongNode>>[1] = WrongNode
    OBVIOUS
  <2> QED BY <2>1, <2>2, CommitmentFacts
<1> QED BY <1>3, <1>5, <1>8, <1>9, <1>10, <1>11 DEF p, s, x

(* The results of all the checks.                                          *)
Verdicts(W, P, ms) ==
    /\ \/ /\ InputChecks(W, P, 1) = RealVerdict(ms, TRUE)
          /\ InputChecks(W, P, 2) = DummyVerdict(ms, FALSE)
       \/ /\ InputChecks(W, P, 1) = DummyVerdict(ms, TRUE)
          /\ InputChecks(W, P, 2) = RealVerdict(ms, FALSE)
    /\ OutputChecks(W, P, 1) = PaidVerdict(ms)
    /\ OutputChecks(W, P, 2) = ChangeVerdict(ms)
    /\ "C4" \notin ms /\ "C6 input" \notin ms /\ "C6 output" \notin ms
          => BalanceChecks(W) = BalanceVerdict(ms)

(* Each mutation fails the check it is aimed at, whatever the others are,  *)
(* and apart from the nullifier's no other check that comes before.        *)
LEMMA MutatedVerdict ==
  ASSUME KInv, held.at > 0, MaxLeaves < 2 * Capacity,
         NEW pay \in Nat, pay <= notes[held.position + 1].value,
         NEW ms, NEW W, NEW P, NEW b,
         IsBaseline(b, notes[held.position + 1], HeldPath, pay),
         IsMutated(W, P, b, notes[held.position + 1].addr_tag, LeavesAt(held.at), ms)
  PROVE  Verdicts(W, P, ms)
<1> DEFINE x == notes[held.position + 1]
           nk == x.addr_tag
           NF(rho) == rho * (Cardinality(Wallets) + 1) + nk
<1>1. Cardinality(Wallets) \in Nat /\ MAX_MONEY \in Nat \ {0}
  BY WalletsAssumption, FS_CardinalityType, MoneyAssumption
<1>2. x.value \in Nat /\ x.value + 1 < MAX_MONEY /\ nk \in Nat \ {0} /\ x.rho \in Nat
  BY HeldFacts
<1>3. x \in [value : Nat, addr_tag : Nat, rho : Nat]
  BY HeldFacts
<1>4. \A rho \in Nat : NF(rho) \in Nat
  BY <1>1, <1>2
<1>5. PICK r \in 1..2, d \in 1..2 :
         /\ r # d
         /\ b.inputs[r] = [note |-> x, path |-> HeldPath, is_dummy |-> FALSE]
         /\ b.inputs[d] = [note |-> DummyNote(0), path |-> EmptyPath, is_dummy |-> TRUE]
  BY DEF IsBaseline
<1> DEFINE ir == TamperInput(SmuggleInput(b.inputs[r], ms), ms)
           id == TamperInput(SmuggleInput(b.inputs[d], ms), ms)
           dm == DummyNote(0)
<1> HIDE DEF x
<1> DEFINE vs == {HeldPath.siblings[k] : k \in 1..TREE_DEPTH}
<1>6. /\ HeldPath = [position |-> HeldPath.position, siblings |-> HeldPath.siblings]
      /\ HeldPath.position = held.position
      /\ HeldPath.siblings \in [1..TREE_DEPTH -> vs]
      /\ HeldPath.siblings[1] # WrongNode /\ LeavesAt(held.at) # <<WrongNode>>
  BY HeldFacts
<1> HIDE DEF vs
<1>7. /\ SmuggleInput(b.inputs[r], ms).note.rho = x.rho
      /\ ~ ir.is_dummy
      /\ ir.note.addr_tag = nk /\ ir.note.rho = x.rho
      /\ ir.note.value = IF "C6 input" \in ms THEN MAX_MONEY ELSE x.value
      /\ ir.path.position = held.position
      /\ "C1 path" \in ms => ir.path.siblings[1] = WrongNode
      /\ "C1 path" \notin ms => ir.path = HeldPath
  <2> DEFINE j == SmuggleInput(b.inputs[r], ms)
  <2>1. IsMutatedInput(j, TamperInput(j, ms), x, HeldPath, FALSE, ms)
    BY <1>3, <1>5, <1>6, InputMutated
  <2> HIDE DEF j
  <2> QED BY <1>6, <2>1 DEF IsMutatedInput, j
<1>8. /\ SmuggleInput(b.inputs[d], ms).note.rho = 10
      /\ id.is_dummy
      /\ id.note.rho = 10
      /\ id.note.value = IF "C4" \in ms THEN 1 ELSE 0
  <2>1. dm \in [value : Nat, addr_tag : Nat, rho : Nat] /\ dm.rho = 10 /\ dm.value = 0
    BY DEF DummyNote, RhoDummy
  <2>2. /\ EmptyPath = [position |-> EmptyPath.position, siblings |-> EmptyPath.siblings]
        /\ EmptyPath.siblings \in [1..TREE_DEPTH -> {0}]
    BY DEF EmptyPath
  <2>3. b.inputs[d] = [note |-> dm, path |-> EmptyPath, is_dummy |-> TRUE]
    BY <1>5
  <2> DEFINE j == SmuggleInput(b.inputs[d], ms)
  <2> HIDE DEF dm
  <2>4. IsMutatedInput(j, TamperInput(j, ms), dm, EmptyPath, TRUE, ms)
    BY <2>1, <2>2, <2>3, InputMutated
  <2> HIDE DEF j
  <2> QED BY <2>1, <2>4 DEF IsMutatedInput, j
<1>9. W.inputs[r] = ir /\ W.inputs[d] = id
  BY <1>5 DEF IsMutated
<1>10. \A n : Nullifier(n, nk) = NF(n.rho)
  BY DEF Nullifier
<1> DEFINE rr == IF r = 1 THEN x.rho ELSE 10
           nf == NF(rr)
<1>11. /\ P.nullifiers[r] = IF r = 1 /\ "C2" \in ms THEN NF(x.rho) + 1 ELSE NF(x.rho)
       /\ P.nullifiers[d] = IF d = 1 /\ "C2" \in ms THEN NF(10) + 1 ELSE NF(10)
       /\ P.nullifiers[1] = IF "C2" \in ms THEN nf + 1 ELSE nf
       /\ Nullifier(b.inputs[1].note, nk) = nf
  <2>1. (r = 1 /\ d = 2) \/ (r = 2 /\ d = 1)
    BY <1>5
  <2>2. /\ P.nullifiers[1] = LET f == NF(SmuggleInput(b.inputs[1], ms).note.rho)
                             IN  IF "C2" \in ms THEN f + 1 ELSE f
        /\ P.nullifiers[2] = NF(SmuggleInput(b.inputs[2], ms).note.rho)
    BY <1>10 DEF IsMutated, x
  <2>3. b.inputs[r].note.rho = x.rho /\ b.inputs[d].note.rho = 10
    BY <1>5 DEF DummyNote, RhoDummy, x
  <2>4. Nullifier(b.inputs[1].note, nk) = NF(b.inputs[1].note.rho)
    BY <1>10
  <2> HIDE DEF NF
  <2>5. CASE r = 1 /\ d = 2
    BY <1>7, <1>8, <2>2, <2>3, <2>4, <2>5
  <2>6. CASE r = 2 /\ d = 1
    BY <1>7, <1>8, <2>2, <2>3, <2>4, <2>6
  <2> QED BY <2>1, <2>5, <2>6
<1>12. nf \in Nat /\ NF(x.rho) \in Nat /\ NF(10) \in Nat
  BY <1>3, <1>4
<1> HIDE DEF nf, NF, ir, id, nk
<1>13. InputChecks(W, P, r) = RealVerdict(ms, r = 1)
  <2> DEFINE V == VerifyPath(Commitment(ir.note), ir.path, MerkleRoot(P.anchor.root))
             n == P.nullifiers[r]
             bad == "C1 path" \in ms \/ "C1 root" \in ms \/ ~InTree
  <2>1. InputChecks(W, P, r) =
           IF ir.note.value >= MAX_MONEY THEN "C6"
           ELSE IF ~V THEN "C1"
           ELSE IF ir.note.addr_tag # W.spender_addr_tag THEN "C3"
           ELSE IF Nullifier(ir.note, W.spender_nk) # n THEN "C2" ELSE "Ok"
    BY <1>7, <1>9 DEF InputChecks
  <2>2. ir.note.value >= MAX_MONEY <=> "C6 input" \in ms
    <3> DEFINE v == ir.note.value
               y == x.value
    <3>1. v = IF "C6 input" \in ms THEN MAX_MONEY ELSE y
      BY <1>7
    <3>2. y \in Nat /\ y + 1 < MAX_MONEY
      BY <1>2
    <3> HIDE DEF v, y
    <3>3. CASE "C6 input" \in ms
      <4>1. v = MAX_MONEY
        BY <3>1, <3>3
      <4>2. v >= MAX_MONEY
        BY ONLY <1>1, <4>1
      <4> QED BY <3>3, <4>2 DEF v
    <3>4. CASE "C6 input" \notin ms
      <4>1. v = y
        BY <3>1, <3>4
      <4>2. ~ (v >= MAX_MONEY)
        BY ONLY <1>1, <3>2, <4>1
      <4> QED BY <3>4, <4>2 DEF v
    <3> QED BY <3>3, <3>4
  <2>3. "C6 input" \notin ms => (V <=> ~bad)
    <3> SUFFICES ASSUME "C6 input" \notin ms PROVE V <=> ~bad
      OBVIOUS
    <3>1. Commitment(ir.note) = Commitment(x)
      BY <1>7 DEF Commitment, nk
    <3> DEFINE root == P.anchor.root
               path == ir.path
    <3>2. root = IF "C1 root" \in ms THEN <<WrongNode>> ELSE LeavesAt(held.at)
      BY DEF IsMutated
    <3>3. \/ path = HeldPath
          \/ path.position = held.position /\ path.siblings[1] = WrongNode
      BY <1>7
    <3> HIDE DEF root, path
    <3>4. root \in {LeavesAt(held.at), <<WrongNode>>}
      BY <3>2
    <3>5. VerifyPath(Commitment(x), path, MerkleRoot(root))
             <=> path = HeldPath /\ root = LeavesAt(held.at) /\ InTree
      BY <3>3, <3>4, PathVerdict DEF x
    <3>6. "C1 root" \in ms => root # LeavesAt(held.at)
      BY <1>6, <3>2
    <3>7. "C1 path" \in ms => path # HeldPath
      BY <1>6, <1>7 DEF path
    <3>8. "C1 path" \notin ms => path = HeldPath
      BY <1>7 DEF path
    <3> QED BY <3>1, <3>2, <3>5, <3>6, <3>7, <3>8 DEF root, path
  <2>4. ir.note.addr_tag # W.spender_addr_tag <=> "C3" \in ms
    <3>1. ir.note.addr_tag = nk /\ nk # 0
      BY <1>2, <1>7
    <3>2. W.spender_addr_tag = IF "C3" \in ms THEN 0 ELSE nk
      BY DEF IsMutated, WrongTag, nk, x
    <3> HIDE DEF x
    <3> QED BY <3>1, <3>2
  <2>5. Nullifier(ir.note, W.spender_nk) = NF(x.rho)
    <3>1. W.spender_nk = nk
      BY DEF IsMutated, nk, x
    <3> QED BY <1>7, <1>10, <3>1
  <2>6. Nullifier(ir.note, W.spender_nk) # n <=> r = 1 /\ "C2" \in ms
    BY <1>11, <1>12, <2>5
  <2> HIDE DEF V, n, bad
  <2>7. InputChecks(W, P, r) =
           IF "C6 input" \in ms THEN "C6" ELSE IF bad THEN "C1"
           ELSE IF "C3" \in ms THEN "C3"
           ELSE IF r = 1 /\ "C2" \in ms THEN "C2" ELSE "Ok"
    BY <2>1, <2>2, <2>3, <2>4, <2>6
  <2> QED BY <2>7 DEF RealVerdict, bad
<1>14. InputChecks(W, P, d) = DummyVerdict(ms, d = 1)
  <2> DEFINE n == P.nullifiers[d]
             nd == Nullifier(id.note, W.spender_nk)
  <2>1. InputChecks(W, P, d) =
           IF id.note.value # 0 THEN "C4"
           ELSE IF id.note.value >= MAX_MONEY THEN "C6"
           ELSE IF nd # n THEN "C2" ELSE "Ok"
    BY <1>8, <1>9 DEF InputChecks
  <2>2. nd = NF(10)
    <3>1. W.spender_nk = nk
      BY DEF IsMutated, nk, x
    <3> QED BY <1>8, <1>10, <3>1
  <2>3. nd # n <=> d = 1 /\ "C2" \in ms
    BY <1>11, <1>12, <2>2
  <2>4. id.note.value # 0 <=> "C4" \in ms
    BY <1>8
  <2>5. "C4" \notin ms => ~ (id.note.value >= MAX_MONEY)
    BY <1>8, MoneyAssumption
  <2> HIDE DEF nd, n
  <2>6. InputChecks(W, P, d) =
           IF "C4" \in ms THEN "C4" ELSE IF d = 1 /\ "C2" \in ms THEN "C2" ELSE "Ok"
    BY <2>1, <2>3, <2>4, <2>5
  <2> QED BY <2>6 DEF DummyVerdict

<1> DEFINE recipient == IF nk = 1 THEN 2 ELSE 1
           o1 == b.outputs[1]
           o2 == b.outputs[2]
           u1 == SmuggleOutput(o1, ms)
           extra == IF "C7" \in ms THEN 1 ELSE 0
<1>15. /\ o1 = [value |-> pay, addr_tag |-> recipient, rho |-> RhoTransfer(nf, 0)]
       /\ o2 = [value |-> x.value - pay, addr_tag |-> nk, rho |-> RhoTransfer(nf, 1)]
  <2> DEFINE g == Nullifier(b.inputs[1].note, x.addr_tag)
  <2>1. b.outputs = << [value |-> pay, addr_tag |-> recipient, rho |-> RhoTransfer(g, 0)],
                       [value |-> x.value - pay, addr_tag |-> x.addr_tag,
                        rho |-> RhoTransfer(g, 1)] >>
    BY DEF IsBaseline, x, nk
  <2>2. g = nf
    BY <1>11 DEF nk
  <2> HIDE DEF g
  <2> QED BY <2>1, <2>2 DEF nk
<1>16. /\ u1.value = (IF "C6 output" \in ms THEN MAX_MONEY ELSE pay) + extra
       /\ u1.rho = IF "C5 rho" \in ms THEN 0 ELSE RhoTransfer(nf, 0)
  <2> HIDE DEF o1
  <2> QED BY <1>15 DEF SmuggleOutput
<1>17. /\ W.outputs[1] = u1 /\ W.outputs[2] = o2
       /\ P.commitments[1] = IF "C5 commitment" \in ms THEN WrongNode ELSE Commitment(u1)
       /\ P.commitments[2] = Commitment(o2)
       /\ W.mint_value = 0
  BY DEF IsMutated
<1> HIDE DEF o1, o2, u1
<1>18. extra \in {0, 1} /\ x.value \in Nat /\ pay <= x.value
  BY <1>2 DEF x
<1>19. /\ nf # nf + 1
       /\ \A i \in {0, 1} : /\ RhoTransfer(nf, i) # 0
                            /\ RhoTransfer(nf, i) # RhoTransfer(nf + 1, i)
  BY <1>12 DEF RhoTransfer
<1>20. OutputChecks(W, P, 1) = PaidVerdict(ms)
  <2>1. OutputChecks(W, P, 1) =
           IF u1.value >= MAX_MONEY THEN "C6"
           ELSE IF Commitment(u1) # P.commitments[1] THEN "C5"
           ELSE IF u1.rho # RhoTransfer(P.nullifiers[1], 1 - 1) THEN "C5" ELSE "Ok"
    BY <1>17 DEF OutputChecks
  <2>2. u1.value >= MAX_MONEY <=> "C6 output" \in ms
    <3> DEFINE v == u1.value
               y == x.value
    <3>1. v = (IF "C6 output" \in ms THEN MAX_MONEY ELSE pay) + extra
      BY <1>16
    <3>2. y \in Nat /\ y + 1 < MAX_MONEY /\ pay <= y /\ extra \in {0, 1}
      BY <1>2, <1>18
    <3> HIDE DEF v, y, extra
    <3>3. CASE "C6 output" \in ms
      <4>1. v = MAX_MONEY + extra
        BY <3>1, <3>3
      <4>2. v >= MAX_MONEY
        BY ONLY <1>1, <3>2, <4>1
      <4> QED BY <3>3, <4>2 DEF v
    <3>4. CASE "C6 output" \notin ms
      <4>1. v = pay + extra
        BY <3>1, <3>4
      <4>2. pay \in Nat
        OBVIOUS
      <4>3. ~ (v >= MAX_MONEY)
        BY ONLY <1>1, <3>2, <4>1, <4>2
      <4> QED BY <3>4, <4>3 DEF v
    <3> QED BY <3>3, <3>4
  <2>3. Commitment(u1) # P.commitments[1] <=> "C5 commitment" \in ms
    <3>1. Commitment(u1).source = "output" /\ WrongNode.source = "corrupt"
      BY DEF Commitment, WrongNode
    <3> QED BY <1>17, <3>1
  <2>4. u1.rho # RhoTransfer(P.nullifiers[1], 1 - 1) <=> "C5 rho" \in ms \/ "C2" \in ms
    <3>1. 1 - 1 = 0 /\ 0 \in {0, 1}
      OBVIOUS
    <3>2. CASE "C5 rho" \in ms
      <4>1. RhoTransfer(P.nullifiers[1], 0) # 0
        BY <1>11, <1>12 DEF RhoTransfer
      <4> QED BY <1>16, <3>1, <3>2, <4>1
    <3>3. CASE "C5 rho" \notin ms
      BY <1>11, <1>16, <1>19, <3>1, <3>3
    <3> QED BY <3>2, <3>3
  <2> QED BY <2>1, <2>2, <2>3, <2>4 DEF PaidVerdict
<1>21. OutputChecks(W, P, 2) = ChangeVerdict(ms)
  <2>1. OutputChecks(W, P, 2) =
           IF o2.value >= MAX_MONEY THEN "C6"
           ELSE IF Commitment(o2) # P.commitments[2] THEN "C5"
           ELSE IF o2.rho # RhoTransfer(P.nullifiers[1], 2 - 1) THEN "C5" ELSE "Ok"
    BY <1>17 DEF OutputChecks
  <2>2. ~ (o2.value >= MAX_MONEY)
    <3>1. o2.value = x.value - pay
      BY <1>15
    <3> QED BY <1>1, <1>2, <1>18, <3>1
  <2>3. o2.rho # RhoTransfer(P.nullifiers[1], 2 - 1) <=> "C2" \in ms
    <3>1. 2 - 1 = 1 /\ 1 \in {0, 1} /\ o2.rho = RhoTransfer(nf, 1)
      BY <1>15
    <3> QED BY <1>11, <1>19, <3>1
  <2> QED BY <1>17, <2>1, <2>2, <2>3 DEF ChangeVerdict
<1>22. ASSUME "C4" \notin ms, "C6 input" \notin ms, "C6 output" \notin ms
       PROVE  BalanceChecks(W) = BalanceVerdict(ms)
  <2>1. W.inputs[1].note.value + W.inputs[2].note.value = x.value
    <3>1. ir.note.value = x.value /\ id.note.value = 0
      BY <1>7, <1>8, <1>22
    <3>2. (r = 1 /\ d = 2) \/ (r = 2 /\ d = 1)
      BY <1>5
    <3> QED BY <1>9, <1>18, <3>1, <3>2
  <2>2. W.outputs[1].value + W.outputs[2].value = x.value + extra
    <3>1. W.outputs[1].value = pay + extra /\ W.outputs[2].value = x.value - pay
      <4>1. u1.value = pay + extra
        BY <1>16, <1>22
      <4>2. o2.value = x.value - pay
        BY <1>15
      <4> QED BY <1>17, <4>1, <4>2
    <3>2. (pay + extra) + (x.value - pay) = x.value + extra
      <4> DEFINE y == x.value
      <4>1. y \in Nat /\ pay <= y /\ extra \in {0, 1}
        BY <1>18
      <4> HIDE DEF y, extra
      <4>2. (pay + extra) + (y - pay) = y + extra
        BY <4>1
      <4> QED BY <4>2 DEF y
    <3> QED BY <3>1, <3>2
  <2>3. x.value + 0 # x.value + extra <=> "C7" \in ms
    BY <1>18
  <2>4. ~ (0 >= MAX_MONEY)
    BY MoneyAssumption
  <2> QED BY <1>17, <2>1, <2>2, <2>3, <2>4 DEF BalanceChecks, BalanceVerdict
<1>23. \/ /\ InputChecks(W, P, 1) = RealVerdict(ms, TRUE)
          /\ InputChecks(W, P, 2) = DummyVerdict(ms, FALSE)
       \/ /\ InputChecks(W, P, 1) = DummyVerdict(ms, TRUE)
          /\ InputChecks(W, P, 2) = RealVerdict(ms, FALSE)
  <2>1. (r = 1 /\ d = 2) \/ (r = 2 /\ d = 1)
    BY <1>5
  <2>2. CASE r = 1 /\ d = 2
    <3>1. (r = 1) = TRUE /\ (d = 1) = FALSE
      BY <2>2
    <3> QED BY <1>13, <1>14, <2>2, <3>1
  <2>3. CASE r = 2 /\ d = 1
    <3>1. (r = 1) = FALSE /\ (d = 1) = TRUE
      BY <2>3
    <3> QED BY <1>13, <1>14, <2>3, <3>1
  <2> QED BY <2>1, <2>2, <2>3
<1> QED BY <1>20, <1>21, <1>22, <1>23 DEF Verdicts

(* No mutation of a valid spend is accepted, alone or with others, and one *)
(* alone is rejected for what it violates.                                 *)
LEMMA KnockVerdict ==
  ASSUME KInv, held.at > 0, MaxLeaves < 2 * Capacity,
         NEW pay \in Nat, pay <= notes[held.position + 1].value, NEW ms \in SUBSET Mutations
  PROVE  /\ Fired(pay, ms) = "Ok" <=> ms = {} /\ InTree
         /\ \A m \in Mutations : InTree /\ ms = {m} => Fired(pay, ms) = Expected(m)
<1> DEFINE x == notes[held.position + 1]
           b == Baseline(held.position, HeldPath, pay)
           w == Smuggle(b, ms)
           W == TamperWitness(w, ms)
           P == TamperPublic(PublicInputs(w, [height |-> 0, root |-> LeavesAt(held.at)]), ms)
           F == Fired(pay, ms)
<1>1. F = CheckSpendStatement(W, P)
  BY DEF Fired
<1>2. IsBaseline(b, x, HeldPath, pay)
  BY BaselineShape
<1>3. CASE "C0" \in ms
  <2>1. w.inputs = [k \in 1..2 |-> SmuggleInput(b.inputs[k], ms)]
        /\ DOMAIN w = {"spender_nk", "spender_addr_tag", "inputs", "outputs",
                       "mint_value", "binding_digest"}
    <3> HIDE DEF b
    <3>1. DOMAIN b = {"spender_nk", "spender_addr_tag", "inputs", "outputs",
                      "mint_value", "binding_digest"}
      BY <1>2 DEF IsBaseline
    <3> QED BY <3>1 DEF Smuggle
  <2> HIDE DEF w
  <2>2. W.inputs = [k \in 1..1 |-> TamperInput(w.inputs[k], ms)]
    BY <1>3, <2>1 DEF TamperWitness
  <2> HIDE DEF W, P
  <2>3. Len(W.inputs) = 1
    BY <2>2
  <2>4. F = "C0"
    BY <1>1, <2>3 DEF CheckSpendStatement
  <2>5. \A m \in Mutations : ms = {m} => m = "C0"
    BY <1>3
  <2>6. Expected("C0") = "C0"
    BY DEF Expected
  <2> HIDE DEF F
  <2> QED BY <1>3, <2>4, <2>5, <2>6 DEF F
<1>4. CASE "C0" \notin ms
  <2>1. IsMutated(W, P, b, x.addr_tag, LeavesAt(held.at), ms)
    BY <1>2, <1>4, MutatedShape
  <2> HIDE DEF b, W, P
  <2>2. Verdicts(W, P, ms)
    BY <1>2, <2>1, MutatedVerdict
  <2>4. F = IF "C8" \in ms THEN "C8"
            ELSE FirstFailed(<<InputChecks(W, P, 1), InputChecks(W, P, 2),
                               OutputChecks(W, P, 1), OutputChecks(W, P, 2),
                               BalanceChecks(W)>>)
    <3>1. /\ Len(W.inputs) = 2 /\ Len(W.outputs) = 2
          /\ Len(P.nullifiers) = 2 /\ Len(P.commitments) = 2
          /\ W.binding_digest = 3 /\ P.binding_digest = IF "C8" \in ms THEN 4 ELSE 3
      BY <2>1 DEF IsMutated
    <3>2. P.binding_digest # W.binding_digest <=> "C8" \in ms
      BY <3>1
    <3> QED BY <1>1, <3>1, <3>2 DEF CheckSpendStatement
  <2> DEFINE i1 == InputChecks(W, P, 1)
             i2 == InputChecks(W, P, 2)
             p1 == OutputChecks(W, P, 1)
             p2 == OutputChecks(W, P, 2)
             bl == BalanceChecks(W)
  <2>5. \/ i1 = RealVerdict(ms, TRUE) /\ i2 = DummyVerdict(ms, FALSE)
        \/ i1 = DummyVerdict(ms, TRUE) /\ i2 = RealVerdict(ms, FALSE)
    BY <2>2 DEF Verdicts
  <2>6. p1 = PaidVerdict(ms) /\ p2 = ChangeVerdict(ms)
    BY <2>2 DEF Verdicts
  <2>7. "C4" \notin ms /\ "C6 input" \notin ms /\ "C6 output" \notin ms => bl = BalanceVerdict(ms)
    BY <2>2 DEF Verdicts
  <2> HIDE DEF i1, i2, p1, p2, bl
  <2>8. F = IF "C8" \in ms THEN "C8"
            ELSE IF i1 # "Ok" THEN i1 ELSE IF i2 # "Ok" THEN i2 ELSE IF p1 # "Ok" THEN p1
            ELSE IF p2 # "Ok" THEN p2 ELSE bl
    BY <2>4, FirstOfFive DEF i1, i2, p1, p2, bl
  <2> HIDE DEF F
  <2>9. F = "Ok" <=> ms = {} /\ InTree
    <3>1. ASSUME ms = {}, InTree PROVE F = "Ok"
      BY <2>5, <2>6, <2>7, <2>8, <3>1
         DEF RealVerdict, DummyVerdict, PaidVerdict, ChangeVerdict, BalanceVerdict
    <3>2. ASSUME F = "Ok" PROVE ms = {} /\ InTree
      <4>1. "C8" \notin ms /\ i1 = "Ok" /\ i2 = "Ok" /\ p1 = "Ok" /\ p2 = "Ok" /\ bl = "Ok"
        BY <2>8, <3>2
      <4>2. /\ "C6 input" \notin ms /\ "C1 path" \notin ms /\ "C1 root" \notin ms /\ InTree
            /\ "C3" \notin ms /\ "C4" \notin ms
        BY <2>5, <4>1 DEF RealVerdict, DummyVerdict
      <4>3. /\ "C6 output" \notin ms /\ "C5 commitment" \notin ms /\ "C5 rho" \notin ms
            /\ "C2" \notin ms
        BY <2>6, <4>1 DEF PaidVerdict
      <4>4. "C7" \notin ms
        BY <2>7, <4>1, <4>2, <4>3 DEF BalanceVerdict
      <4>5. \A m \in Mutations : m \notin ms
        BY <1>4, <4>1, <4>2, <4>3, <4>4 DEF Mutations
      <4> QED BY <4>2, <4>5
    <3> QED BY <3>1, <3>2
  <2>10. ASSUME NEW m \in Mutations, InTree, ms = {m} PROVE F = Expected(m)
    <3>1. \A n \in Mutations : n \in ms <=> n = m
      BY <2>10
    <3> DEFINE c(n) == n \in ms
    <3>2. /\ "C1 path" \in Mutations /\ "C1 root" \in Mutations /\ "C2" \in Mutations
          /\ "C3" \in Mutations /\ "C4" \in Mutations /\ "C5 commitment" \in Mutations
          /\ "C5 rho" \in Mutations /\ "C6 input" \in Mutations /\ "C6 output" \in Mutations
          /\ "C7" \in Mutations /\ "C8" \in Mutations
      BY DEF Mutations
    <3> USE <2>5, <2>6, <2>7, <2>8, <2>10, <3>1, <3>2
            DEF RealVerdict, DummyVerdict, PaidVerdict, ChangeVerdict, BalanceVerdict, Expected
    <3>3. CASE m = "C1 path"
      BY <3>3
    <3>4. CASE m = "C1 root"
      BY <3>4
    <3>5. CASE m = "C2"
      BY <3>5
    <3>6. CASE m = "C3"
      BY <3>6
    <3>7. CASE m = "C4"
      BY <3>7
    <3>8. CASE m = "C5 commitment"
      BY <3>8
    <3>9. CASE m = "C5 rho"
      BY <3>9
    <3>10. CASE m = "C6 input"
      BY <3>10
    <3>11. CASE m = "C6 output"
      BY <3>11
    <3>12. CASE m = "C7"
      BY <3>12
    <3>13. CASE m = "C8"
      BY <3>13
    <3>14. m # "C0"
      BY <1>4, <3>1
    <3> QED BY ONLY <3>3, <3>4, <3>5, <3>6, <3>7, <3>8, <3>9, <3>10, <3>11, <3>12, <3>13,
                    <3>14, m \in Mutations DEF Mutations
  <2> QED BY <2>9, <2>10 DEF F
<1> QED BY <1>3, <1>4

(* The outcome recorded says what the verdict is about the spend held.     *)
LEMMA KnockRecords ==
  ASSUME MaxLeaves < 2 * Capacity
  PROVE  Spec => [](AllCaught /\ ExpectedConstraintFires)
<1> DEFINE Right == AllCaught /\ ExpectedConstraintFires
<1>1. Init => Right
  BY DEF Init, NoKnockout, Knocked, AllCaught, ExpectedConstraintFires
<1>2. KInv /\ Right /\ [Next]_kvars => Right'
  <2> SUFFICES ASSUME KInv, Right, [Next]_kvars PROVE Right'
    OBVIOUS
  <2>1. ASSUME knockout' = NoKnockout PROVE Right'
    BY <2>1 DEF NoKnockout, Knocked, AllCaught, ExpectedConstraintFires
  <2>2. ASSUME NEW note \in Notes, AppendNote(note) PROVE Right'
    BY <2>1, <2>2 DEF AppendNote
  <2>3. ASSUME NEW p, TakeWitness(p) PROVE Right'
    BY <2>1, <2>3 DEF TakeWitness
  <2>4. ASSUME NEW pay \in Payments, NEW ms \in SUBSET Mutations, Knock(pay, ms)
        PROVE  Right'
    <3>1. /\ held.at > 0 /\ pay <= notes[held.position + 1].value
          /\ knockout' = [mutations |-> ms, fired |-> Fired(pay, ms)]
          /\ held' = held
      BY <2>4 DEF Knock, Fired
    <3>2. pay \in Nat
      BY PaymentsAssumption
    <3>3. /\ Fired(pay, ms) = "Ok" <=> ms = {} /\ InTree
          /\ \A m \in Mutations : InTree /\ ms = {m} => Fired(pay, ms) = Expected(m)
      BY <3>1, <3>2, KnockVerdict
    <3>4. knockout'.mutations = ms /\ knockout'.fired = Fired(pay, ms) /\ InTree' = InTree
      BY <3>1 DEF InTree
    <3>5. AllCaught'
      BY <3>3, <3>4 DEF AllCaught
    <3>6. ExpectedConstraintFires'
      BY <3>3, <3>4 DEF ExpectedConstraintFires
    <3> QED BY <3>5, <3>6
  <2>5. CASE UNCHANGED kvars
    BY <2>5 DEF kvars, Knocked, InTree, AllCaught, ExpectedConstraintFires
  <2> QED BY <2>2, <2>3, <2>4, <2>5 DEF Next
<1> QED BY <1>1, <1>2, KInvHolds, PTL DEF Spec

(* all_caught for every tree, spend and set of mutations.                  *)
THEOREM AllCaughtHolds ==
  ASSUME MaxLeaves < 2 * Capacity
  PROVE  Spec => []AllCaught
BY KnockRecords, PTL

(* The battery tests what it names, for every tree and spend.              *)
THEOREM ExpectedConstraintFiresHolds ==
  ASSUME MaxLeaves < 2 * Capacity
  PROVE  Spec => []ExpectedConstraintFires
BY KnockRecords, PTL
=============================================================================
