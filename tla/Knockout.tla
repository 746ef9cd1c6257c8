------------------------------ MODULE Knockout ------------------------------
(***************************************************************************)
(* The knockout harness (crates/knockout) over the spend statement and the *)
(* commitment tree.  The harness in the code has one tree, one spend and   *)
(* one mutation at a time; here the tree grows leaf by leaf, past its      *)
(* capacity too, a spend is made of any note in it, with the witness taken *)
(* now or earlier, and several mutations are applied together.             *)
(***************************************************************************)
EXTENDS SpendStatement, FiniteSetsExt

CONSTANTS
    Notes,          \* the notes whose commitments are appended
    Payments,       \* what the spend pays out of its input
    MaxLeaves,      \* bound: leaves in the tree
    MaxMutations    \* bound: mutations applied together

ASSUME NotesAssumption ==
    /\ Notes \subseteq [value : Nat, addr_tag : Wallets, rho : Nat]
    /\ \A n \in Notes : n.value + 1 < MAX_MONEY
ASSUME PaymentsAssumption == Payments \subseteq Nat
ASSUME BoundsAssumption == MaxLeaves \in Nat /\ MaxMutations \in Nat

VARIABLES
    notes,          \* the tree: the notes appended, in position order
    held,           \* a witness taken at some time: position and tree length
    knockout        \* the outcome of the last entry of the battery

kvars == <<notes, held, knockout>>

Leaves == [k \in DOMAIN notes |-> Commitment(notes[k])]

LeavesAt(n) == SubSeq(Leaves, 1, n)

NoWitness == [position |-> 0, at |-> 0]

NoKnockout == [mutations |-> {}, fired |-> "none"]

Knocked == knockout.fired # "none"

HeldPath == Witness(LeavesAt(held.at), held.position)

HeldLeaf == Leaves[held.position + 1]

-----------------------------------------------------------------------------
(* The wrong bytes that a mutation writes.                                 *)
WrongNode == [source |-> "corrupt", id |-> 0, idx |-> 0, value |-> 0]

WrongTag == 0

(* The mutations, by the constraint each one violates.                     *)
Mutations ==
    {"C1 path", "C1 root", "C2", "C3", "C4", "C5 commitment", "C5 rho",
     "C6 input", "C6 output", "C7", "C8", "C0"}

Expected(m) ==
    CASE m \in {"C1 path", "C1 root"} -> "C1"
      [] m \in {"C5 commitment", "C5 rho"} -> "C5"
      [] m \in {"C6 input", "C6 output"} -> "C6"
      [] OTHER -> m

(* baseline: note p and a dummy in, a payment and the change out.          *)
Baseline(p, path, pay) ==
    LET input == notes[p + 1]
        nk == input.addr_tag
        dummy == DummyNote(0)
        inputs == << [note |-> input, path |-> path, is_dummy |-> FALSE],
                     [note |-> dummy, path |-> EmptyPath, is_dummy |-> TRUE] >>
        canonical == Canonicalize(inputs, nk)
        first_nf == Nullifier(canonical[1].note, nk)
        recipient == IF nk = 1 THEN 2 ELSE 1
    IN  [spender_nk |-> nk, spender_addr_tag |-> input.addr_tag, inputs |-> canonical,
         outputs |-> << [value |-> pay, addr_tag |-> recipient,
                         rho |-> RhoTransfer(first_nf, 0)],
                        [value |-> input.value - pay, addr_tag |-> input.addr_tag,
                         rho |-> RhoTransfer(first_nf, 1)] >>,
         mint_value |-> 0, binding_digest |-> 3]

(* The mutations of ms that the witness undergoes before public_inputs is  *)
(* computed.  The value put in the dummy is what "C7" inflates the outputs *)
(* by.                                                                     *)
SmuggleInput(input, ms) ==
    [input EXCEPT !.note.value =
        IF input.is_dummy THEN (IF "C4" \in ms THEN 1 ELSE @)
        ELSE IF "C6 input" \in ms THEN MAX_MONEY ELSE @]

SmuggleOutput(out, ms) ==
    [out EXCEPT
        !.rho = IF "C5 rho" \in ms THEN 0 ELSE @,
        !.value = (IF "C6 output" \in ms THEN MAX_MONEY ELSE @)
                     + (IF "C7" \in ms THEN 1 ELSE 0)]

Smuggle(w, ms) ==
    [w EXCEPT
        !.inputs = [k \in 1..2 |-> SmuggleInput(w.inputs[k], ms)],
        !.outputs = <<SmuggleOutput(w.outputs[1], ms), w.outputs[2]>>]

(* Those of the witness and of the public inputs after it.                 *)
TamperInput(input, ms) ==
    [input EXCEPT !.path.siblings[1] =
        IF ~input.is_dummy /\ "C1 path" \in ms THEN WrongNode ELSE @]

TamperWitness(w, ms) ==
    [w EXCEPT
        !.inputs = [k \in 1..(IF "C0" \in ms THEN 1 ELSE 2) |->
                       TamperInput(w.inputs[k], ms)],
        !.spender_addr_tag = IF "C3" \in ms THEN WrongTag ELSE @]

TamperPublic(pi, ms) ==
    [pi EXCEPT
        !.anchor.root = IF "C1 root" \in ms THEN <<WrongNode>> ELSE @,
        !.nullifiers[1] = IF "C2" \in ms THEN @ + 1 ELSE @,
        !.commitments[1] = IF "C5 commitment" \in ms THEN WrongNode ELSE @,
        !.binding_digest = IF "C8" \in ms THEN @ + 1 ELSE @]

-----------------------------------------------------------------------------
Init == notes = << >> /\ held = NoWitness /\ knockout = NoKnockout

(* CommitmentTree::append has no bound of its own.                         *)
AppendNote(note) ==
    /\ Len(notes) < MaxLeaves
    /\ notes' = Append(notes, note)
    /\ knockout' = NoKnockout
    /\ UNCHANGED held

(* A wallet asks for the witness of a note and keeps it.                   *)
TakeWitness(p) ==
    /\ HasWitness(Leaves, p)
    /\ held' = [position |-> p, at |-> Len(notes)]
    /\ knockout' = NoKnockout
    /\ UNCHANGED notes

(* expect_reject on the baseline with every mutation of ms applied; none:  *)
(* the baseline itself.                                                    *)
Knock(pay, ms) ==
    LET anchor == [height |-> 0, root |-> LeavesAt(held.at)]
        w == Smuggle(Baseline(held.position, HeldPath, pay), ms)
        pi == PublicInputs(w, anchor)
    IN  /\ ~Knocked
        /\ held.at > 0 /\ pay <= notes[held.position + 1].value
        /\ knockout' = [mutations |-> ms,
                        fired |-> CheckSpendStatement(TamperWitness(w, ms), TamperPublic(pi, ms))]
        /\ UNCHANGED <<notes, held>>

Next ==
    \/ \E note \in Notes : AppendNote(note)
    \/ \E p \in 0..(MaxLeaves - 1) : TakeWitness(p)
    \/ \E pay \in Payments, ms \in {S \in SUBSET Mutations : Cardinality(S) <= MaxMutations} :
          Knock(pay, ms)

Spec == Init /\ [][Next]_kvars

-----------------------------------------------------------------------------
InTree == held.position < Capacity

(* A path proves membership exactly: the witness of a position verifies    *)
(* under the current root for the leaf at that position and for no other,  *)
(* and positions past the capacity of the tree prove nothing, whatever is  *)
(* appended there.                                                         *)
PathsBindLeaves ==
    \A p \in 0..(Len(notes) - 1), n \in Notes :
        VerifyPath(Commitment(n), Witness(Leaves, p), MerkleRoot(Leaves))
            <=> p < Capacity /\ n = notes[p + 1]

(* A witness belongs to the root of the tree it was read from: kept while  *)
(* the tree grows, it verifies against that root, and against an older or  *)
(* a newer anchor only if the tree it holds is the same.  One taken past   *)
(* the capacity never proves a leaf that the anchored tree does not hold.  *)
WitnessBelongsToItsRoot ==
    held.at > 0 =>
        \A n \in 0..Len(notes) :
            LET proves == VerifyPath(HeldLeaf, HeldPath, MerkleRoot(LeavesAt(n)))
                slot == (held.position % Capacity) + 1
            IN  IF InTree
                THEN proves <=> Min({n, Capacity}) = Min({held.at, Capacity})
                ELSE proves => slot <= n /\ Leaves[slot] = HeldLeaf

(* all_caught, for every tree, spend and set of mutations: the baseline is *)
(* valid and nothing else is, also when two violations make up for each    *)
(* other (value in a dummy that balances inflated outputs).                *)
AllCaught ==
    Knocked => (knockout.fired = "Ok" <=> knockout.mutations = {} /\ InTree)

(* A single mutation is caught by the constraint it is aimed at and not by *)
(* another one that happens to fail: the battery tests what it names.      *)
ExpectedConstraintFires ==
    \A m \in Mutations :
        Knocked /\ InTree /\ knockout.mutations = {m} => knockout.fired = Expected(m)
=============================================================================
