--------------------------- MODULE SpendStatement ---------------------------
(***************************************************************************)
(* Notes (crates/notes) and the statement a spend proves about them        *)
(* (crates/prover-dev, constraints C1 to C9), as operators.  A witness is  *)
(* a record with the fields of SpendWitness.                               *)
(*                                                                         *)
(* Keys and hashes are numbers: a spending key is its wallet's number, and *)
(* so are the nk and the addr_tag it derives; rho and nullifiers are       *)
(* injective arithmetic encodings of what is hashed, which also fixes the  *)
(* byte order that nullifiers are sorted by.  rseed is left out: it blinds *)
(* the commitment and nothing reads it.                                    *)
(***************************************************************************)
EXTENDS Tree, FiniteSets

CONSTANTS
    Wallets,        \* wallet numbers, from 1
    MAX_MONEY       \* the range bound on values (2^62 in the code)

ASSUME WalletsAssumption == IsFiniteSet(Wallets) /\ Wallets = 1..Cardinality(Wallets)
ASSUME MoneyAssumption == MAX_MONEY \in Nat \ {0}

(* Genesis notes have rho 0..9, the two dummies 10 and 11.                 *)
RhoGenesis(k) == k

RhoDummy(ctr) == 10 + ctr

RhoTransfer(first_nf, output_index) == 12 + 2 * first_nf + output_index

(* Note::nullifier: binds the spender's nk and rho, nothing else.          *)
Nullifier(note, nk) == note.rho * (Cardinality(Wallets) + 1) + nk

Commitment(note) ==
    [source |-> "output", id |-> note.rho, idx |-> note.addr_tag,
     value |-> note.value]

(* The addr_tag of a dummy is a hash of its entropy: no wallet's.          *)
DummyNote(ctr) == [value |-> 0, addr_tag |-> 0, rho |-> RhoDummy(ctr)]

-----------------------------------------------------------------------------
(* Mutant of Canonicalize: the inputs stay in the order they were picked.  *)
CanonicalizeNot(inputs, nk) == inputs

(* canonicalize: the two inputs in the order of their nullifiers.          *)
Canonicalize(inputs, nk) ==
    IF Nullifier(inputs[2].note, nk) < Nullifier(inputs[1].note, nk)
    THEN <<inputs[2], inputs[1]>> ELSE inputs

(* public_inputs: what a canonical witness commits to.                     *)
PublicInputs(w, anchor) ==
    [anchor |-> anchor,
     nullifiers |-> [k \in DOMAIN w.inputs |-> Nullifier(w.inputs[k].note, w.spender_nk)],
     commitments |-> [k \in DOMAIN w.outputs |-> Commitment(w.outputs[k])],
     binding_digest |-> w.binding_digest,
     mint_value |-> w.mint_value]

(* Mutant of InputChecks: an input that says it is a dummy is believed.    *)
InputChecksTrustDummies(w, pi, k) ==
    LET input == w.inputs[k]
        note == input.note
    IN  IF note.value >= MAX_MONEY                                  THEN "C6"
        ELSE IF input.is_dummy                                      THEN "Ok"
        ELSE IF ~VerifyPath(Commitment(note), input.path,
                            MerkleRoot(pi.anchor.root))             THEN "C1"
        ELSE IF note.addr_tag # w.spender_addr_tag                  THEN "C3"
        ELSE IF Nullifier(note, w.spender_nk) # pi.nullifiers[k]    THEN "C2"
        ELSE "Ok"

(* The checks of one input, of one output and of the sums, in the code's   *)
(* order: the constraint that the first one to fail enforces, or Ok.  An   *)
(* anchor's root is represented by its leaves.                             *)
InputChecks(w, pi, k) ==
    LET input == w.inputs[k]
        note == input.note
    IN  IF input.is_dummy /\ note.value # 0                         THEN "C4"
        ELSE IF note.value >= MAX_MONEY                             THEN "C6"
        ELSE IF ~input.is_dummy /\ ~VerifyPath(Commitment(note), input.path,
                                               MerkleRoot(pi.anchor.root)) THEN "C1"
        ELSE IF ~input.is_dummy /\ note.addr_tag # w.spender_addr_tag      THEN "C3"
        ELSE IF Nullifier(note, w.spender_nk) # pi.nullifiers[k]    THEN "C2"
        ELSE "Ok"

OutputChecks(w, pi, k) ==
    LET out == w.outputs[k]
    IN  IF out.value >= MAX_MONEY                      THEN "C6"
        ELSE IF Commitment(out) # pi.commitments[k]    THEN "C5"
        ELSE IF w.mint_value = 0 /\ out.rho # RhoTransfer(pi.nullifiers[1], k - 1) THEN "C5"
        ELSE "Ok"

BalanceChecks(w) ==
    IF w.mint_value >= MAX_MONEY THEN "C6"
    ELSE IF w.inputs[1].note.value + w.inputs[2].note.value + w.mint_value
              # w.outputs[1].value + w.outputs[2].value THEN "C7"
    ELSE "Ok"

FirstFailed(results) ==
    LET failed == {k \in DOMAIN results : results[k] # "Ok"}
    IN  IF failed = {} THEN "Ok"
        ELSE results[CHOOSE k \in failed : \A j \in failed : k <= j]

(* Mutant of CheckSpendStatement: the balance comes first.                 *)
CheckBalanceFirst(w, pi) ==
    IF \/ Len(w.inputs) # 2 \/ Len(w.outputs) # 2
       \/ Len(pi.nullifiers) # 2 \/ Len(pi.commitments) # 2  THEN "C0"
    ELSE FirstFailed(<<BalanceChecks(w), IF pi.binding_digest # w.binding_digest THEN "C8" ELSE "Ok",
                       InputChecks(w, pi, 1), InputChecks(w, pi, 2),
                       OutputChecks(w, pi, 1), OutputChecks(w, pi, 2)>>)

(* check_spend_statement: Ok, or the constraint that is not satisfied.     *)
CheckSpendStatement(w, pi) ==
    IF \/ Len(w.inputs) # 2 \/ Len(w.outputs) # 2
       \/ Len(pi.nullifiers) # 2 \/ Len(pi.commitments) # 2  THEN "C0"
    ELSE IF pi.binding_digest # w.binding_digest             THEN "C8"
    ELSE FirstFailed(<<InputChecks(w, pi, 1), InputChecks(w, pi, 2),
                       OutputChecks(w, pi, 1), OutputChecks(w, pi, 2),
                       BalanceChecks(w)>>)

(* prove: the public inputs that a proof for w attests, and whether there  *)
(* is such a proof.                                                        *)
Prove(w, anchor) ==
    LET c == [w EXCEPT !.inputs = Canonicalize(@, w.spender_nk)]
        pi == PublicInputs(c, anchor)
    IN  [pi |-> pi, result |-> CheckSpendStatement(c, pi)]
=============================================================================
