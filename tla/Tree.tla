-------------------------------- MODULE Tree --------------------------------
(***************************************************************************)
(* The hash levels of the note commitment tree (crates/tree), as operators *)
(* on its leaves in position order: root, witness and path verification.   *)
(* The node hash is injective: a node is the pair of its children.  The    *)
(* deque of sealed anchors is in LedgerOps.                                *)
(***************************************************************************)
EXTENDS Naturals, Sequences

CONSTANT TREE_DEPTH      \* 32 in the code

ASSUME DepthAssumption == TREE_DEPTH \in Nat \ {0}

Capacity == 2^TREE_DEPTH

NodeHash(left, right) == <<left, right>>

(* The hash of no leaf has a domain of its own.                            *)
EmptyLeaf == [source |-> "empty", id |-> 0, idx |-> 0, value |-> 0]

(* empty_roots: the empty subtree of every height.                         *)
EmptyRoots ==
    LET roots[d \in 0..TREE_DEPTH] ==
            IF d = 0 THEN EmptyLeaf ELSE NodeHash(roots[d - 1], roots[d - 1])
    IN  roots

(* One pass of the loop in root and witness: pairs, the last one padded.   *)
NextLevel(level, depth) ==
    [k \in 1..((Len(level) + 1) \div 2) |->
        NodeHash(level[2 * k - 1],
                 IF 2 * k <= Len(level) THEN level[2 * k] ELSE EmptyRoots[depth])]

Levels(leaves) ==
    LET levels[d \in 0..TREE_DEPTH] ==
            IF d = 0 THEN leaves ELSE NextLevel(levels[d - 1], d - 1)
    IN  levels

(* root answers with the first node of the last level.                     *)
MerkleRoot(leaves) ==
    IF leaves = << >> THEN EmptyRoots[TREE_DEPTH] ELSE Levels(leaves)[TREE_DEPTH][1]

(* witness, for a position that has a leaf (None otherwise).               *)
HasWitness(leaves, position) == position < Len(leaves)

Flip(k) == IF k % 2 = 0 THEN k + 1 ELSE k - 1

(* Mutant of Witness: a missing sibling is padded with the level's last    *)
(* node.                                                                   *)
WitnessRepeatsLast(leaves, position) ==
    LET levels == Levels(leaves)
        sibling(d) ==
            LET level == levels[d]
                sib == Flip(position \div 2^d)
            IN  IF sib < Len(level) THEN level[sib + 1] ELSE level[Len(level)]
    IN  [position |-> position, siblings |-> [d \in 1..TREE_DEPTH |-> sibling(d - 1)]]

Witness(leaves, position) ==
    LET levels == Levels(leaves)
        sibling(d) ==
            LET level == levels[d]
                sib == Flip(position \div 2^d)
            IN  IF sib < Len(level) THEN level[sib + 1] ELSE EmptyRoots[d]
    IN  [position |-> position, siblings |-> [d \in 1..TREE_DEPTH |-> sibling(d - 1)]]

(* Mutant of PathRoot: the position's bits are not consulted.              *)
PathRootLeftmost(leaf, path) ==
    LET cur[d \in 0..TREE_DEPTH] ==
            IF d = 0 THEN leaf ELSE NodeHash(cur[d - 1], path.siblings[d])
    IN  cur[TREE_DEPTH]

(* What a leaf hashes up to along a path, left or right by position bit.   *)
PathRoot(leaf, path) ==
    LET cur[d \in 0..TREE_DEPTH] ==
            IF d = 0 THEN leaf
            ELSE IF (path.position \div 2^(d - 1)) % 2 = 0
                 THEN NodeHash(cur[d - 1], path.siblings[d])
                 ELSE NodeHash(path.siblings[d], cur[d - 1])
    IN  cur[TREE_DEPTH]

VerifyPath(leaf, path, root) == PathRoot(leaf, path) = root

(* The path of a dummy input: position 0, siblings all zero.               *)
EmptyPath ==
    [position |-> 0, siblings |-> [d \in 1..TREE_DEPTH |-> 0]]
=============================================================================
