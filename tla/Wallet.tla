------------------------------- MODULE Wallet -------------------------------
(***************************************************************************)
(* The wallet (crates/wallet) as operators on its two fields: unspent, a   *)
(* sequence of note records in the order received, and seen_nullifiers.    *)
(***************************************************************************)
EXTENDS SpendStatement, Encryption, LedgerOps, SequencesExt

EmptyWallet == [unspent |-> << >>, seen_nullifiers |-> {}]

Values(records) == [k \in DOMAIN records |-> records[k].note.value]

(* try_receive: trial decryption; zero-value notes are dropped.            *)
TryReceive(w, me, enc, position) ==
    LET ivk == IncomingViewingKey(SpendingKey(me))
        note == Decrypted(enc, ivk)
    IN  IF Opens(enc, ivk) /\ note.value > 0
        THEN [w EXCEPT !.unspent = Append(@, [note |-> note, position |-> position])]
        ELSE w

(* Outputs in order, at consecutive positions from base.                   *)
ReceiveAll(w, me, encs, base) ==
    FoldLeft(LAMBDA v, n : TryReceive(v, me, encs[n], base + n - 1),
             w, [n \in DOMAIN encs |-> n])

(* observe_nullifiers: the notes whose nullifier was seen are dropped, the *)
(* others stay in their order.                                             *)
ObserveNullifiers(w, me, nfs) ==
    LET seen == w.seen_nullifiers \cup nfs
        kept(r) == IF Nullifier(r.note, Nk(me)) \in seen THEN << >> ELSE <<r>>
    IN  [unspent |-> FlattenSeq([k \in DOMAIN w.unspent |-> kept(w.unspent[k])]),
         seen_nullifiers |-> seen]

-----------------------------------------------------------------------------
(* Mutant of TwoLargest: the notes are sorted by value, ascending.         *)
TwoSmallest(unspent) ==
    LET smallest(ks) == CHOOSE k \in ks :
                           \A j \in ks : unspent[k].note.value <= unspent[j].note.value
        first == smallest(DOMAIN unspent)
    IN  IF Len(unspent) < 2 THEN [k \in DOMAIN unspent |-> k]
        ELSE <<first, smallest(DOMAIN unspent \ {first})>>

(* The most valuable of the notes ks, the first of equals.                 *)
Largest(unspent, ks) ==
    LET value(k) == unspent[k].note.value
    IN  CHOOSE k \in ks : \A j \in ks \ {k} :
           value(j) < value(k) \/ (value(j) = value(k) /\ k < j)

(* The first two in descending order of value, or as many as there are.    *)
TwoLargest(unspent) ==
    LET first == Largest(unspent, DOMAIN unspent)
    IN  IF Len(unspent) < 2 THEN [k \in DOMAIN unspent |-> k]
        ELSE <<first, Largest(unspent, DOMAIN unspent \ {first})>>

(* select_inputs: the smallest note that covers the amount (the first of   *)
(* equals), else the two largest if they do.                               *)
SelectInputs(unspent, amount) ==
    LET value(k) == unspent[k].note.value
        covering == {k \in DOMAIN unspent : value(k) >= amount}
        before(j, k) == value(j) < value(k) \/ (value(j) = value(k) /\ j < k)
        pick == IF covering # {}
                THEN <<CHOOSE k \in covering : \A j \in covering \ {k} : before(k, j)>>
                ELSE TwoLargest(unspent)
        total == SumFunction([n \in DOMAIN pick |-> value(pick[n])])
    IN  IF SumFunction(Values(unspent)) < amount THEN [error |-> "InsufficientFunds"]
        ELSE IF total < amount THEN [error |-> "TooManyInputsNeeded"]
        ELSE [picked |-> [n \in DOMAIN pick |-> unspent[pick[n]]]]

Selects(unspent, amount) == "picked" \in DOMAIN SelectInputs(unspent, amount)

(* The inputs of a transfer, padded with dummies.  The entropy of a dummy  *)
(* is its number among the dummies, nothing more.                          *)
Inputs(records, leaves) ==
    [k \in 1..2 |->
        IF k \in DOMAIN records
        THEN [note |-> records[k].note, is_dummy |-> FALSE,
              path |-> Witness(leaves, records[k].position)]
        ELSE [note |-> DummyNote(k - Len(records) - 1), is_dummy |-> TRUE,
              path |-> EmptyPath]]

(* The input nullifiers as the wire has them, sorted.                      *)
SortedNullifiers(inputs, nk) ==
    LET a == Nullifier(inputs[1].note, nk)
        b == Nullifier(inputs[2].note, nk)
    IN  IF b < a THEN <<b, a>> ELSE <<a, b>>

TransferOutputs(me, recipient, amount, inputs) ==
    LET first_nf == SortedNullifiers(inputs, Nk(me))[1]
        change == inputs[1].note.value + inputs[2].note.value - amount
    IN  << [value |-> amount, addr_tag |-> AddressOf(recipient).addr_tag,
            rho |-> RhoTransfer(first_nf, 0)],
           [value |-> change, addr_tag |-> AddrTag(me), rho |-> RhoTransfer(first_nf, 1)] >>

(* Mutant of EncryptOutputs: the change is encrypted to the recipient too. *)
EncryptOutputsToOne(me, recipient, outputs) ==
    << EncryptNote(outputs[1], AddressOf(recipient), 10),
       EncryptNote(outputs[2], AddressOf(recipient), 11) >>

(* The ephemeral seeds 10 and 11 are derived from the caller's seed, which *)
(* is the same for every transfer here: no caller is bound to vary it.     *)
EncryptOutputs(me, recipient, outputs) ==
    << EncryptNote(outputs[1], AddressOf(recipient), 10),
       EncryptNote(outputs[2], AddressOf(me), 11) >>

(* build_transfer, with the ledger's witnesses: the transfer it answers    *)
(* with when it succeeds.  The node recomputes the public inputs from what *)
(* is on the wire: the proof is good for it if they are the ones proved.   *)
Built(w, me, recipient, amount, anchor, leaves) ==
    LET inputs == Inputs(SelectInputs(w.unspent, amount).picked, leaves)
        outputs == TransferOutputs(me, recipient, amount, inputs)
        partial == [anchor |-> anchor, nullifiers |-> SortedNullifiers(inputs, Nk(me)),
                    commitments |-> [k \in DOMAIN outputs |-> Commitment(outputs[k])],
                    enc_outputs |-> EncryptOutputs(me, recipient, outputs)]
        proof == Prove([spender_nk |-> Nk(me), spender_addr_tag |-> AddrTag(me),
                        inputs |-> inputs, outputs |-> outputs, mint_value |-> 0,
                        binding_digest |-> partial], anchor)
        recomputed == [anchor |-> anchor, nullifiers |-> partial.nullifiers,
                       commitments |-> partial.commitments,
                       binding_digest |-> partial, mint_value |-> 0]
    IN  [tx |-> [anchor |-> anchor, nullifiers |-> partial.nullifiers,
                 commitments |-> partial.commitments,
                 antispam |-> [lane |-> "pow", epoch |-> 0,
                               rate_nullifier |-> 0, bound |-> TRUE],
                 proof_sized |-> TRUE, proof_ok |-> proof.pi = recomputed],
         enc_outputs |-> partial.enc_outputs,
         proved |-> proof.result = "Ok"]

(* build_transfer fails on selection, on a missing witness or on the proof.*)
CanBuild(w, me, recipient, amount, anchor, leaves) ==
    /\ Selects(w.unspent, amount)
    /\ LET picked == SelectInputs(w.unspent, amount).picked
       IN  \A k \in DOMAIN picked : HasWitness(leaves, picked[k].position)
    /\ Built(w, me, recipient, amount, anchor, leaves).proved
=============================================================================
