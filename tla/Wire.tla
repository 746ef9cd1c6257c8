-------------------------------- MODULE Wire --------------------------------
(***************************************************************************)
(* The wire format of TxV1 (crates/tx), as operators.  Bytes are a         *)
(* sequence of cells, one per fixed-size field; a field that is too short  *)
(* is a missing cell.  Cells hold numbers, but for the proof's tag, which  *)
(* holds the public inputs it hashes.                                      *)
(***************************************************************************)
EXTENDS Naturals, Sequences

POW_TAG == 1

QUOTA_TAG == 2

TX_VERSION == 1

(* The quota lane's body has four cells, and so has every lane's.          *)
AntispamTag(a) == IF a.lane = "pow" THEN POW_TAG ELSE QUOTA_TAG

AntispamBody(a) ==
    IF a.lane = "pow" THEN <<a.nonce, 0, 0, 0>>
    ELSE <<a.epoch, a.rate_nullifier, a.x, a.y>>

(* Mutant of FromWire: padding is not looked at.                           *)
FromWirePadded(tag, body) ==
    IF tag = POW_TAG THEN [antispam |-> [lane |-> "pow", nonce |-> body[1]]]
    ELSE IF tag = QUOTA_TAG
    THEN [antispam |-> [lane |-> "quota", epoch |-> body[1], rate_nullifier |-> body[2],
                        x |-> body[3], y |-> body[4]]]
    ELSE [error |-> "Malformed"]

FromWire(tag, body) ==
    IF tag = POW_TAG /\ \A k \in 2..4 : body[k] = 0
    THEN [antispam |-> [lane |-> "pow", nonce |-> body[1]]]
    ELSE IF tag = QUOTA_TAG
    THEN [antispam |-> [lane |-> "quota", epoch |-> body[1], rate_nullifier |-> body[2],
                        x |-> body[3], y |-> body[4]]]
    ELSE [error |-> "Malformed"]

-----------------------------------------------------------------------------
(* binding_digest: every field but the anti-spam body and the proof.       *)
Digest(tx) ==
    <<tx.anchor.height, tx.anchor.root>> \o tx.nullifiers \o tx.commitments
        \o tx.enc_outputs

ToPublicInputs(tx) ==
    [anchor |-> tx.anchor, nullifiers |-> tx.nullifiers, commitments |-> tx.commitments,
     binding_digest |-> Digest(tx), mint_value |-> 0]

(* SpendPublicInputs::encode: the vectors carry their lengths.             *)
EncodePublicInputs(pi) ==
    <<pi.anchor.height, pi.anchor.root, Len(pi.nullifiers)>> \o pi.nullifiers
        \o <<Len(pi.commitments)>> \o pi.commitments
        \o pi.binding_digest \o <<pi.mint_value>>

(* The dev proof: a tag over the public inputs, padded to the bucket.      *)
DevProof(pi) == <<EncodePublicInputs(pi), 0>>

DevVerify(pi, proof) ==
    Len(proof) = 2 /\ proof[2] = 0 /\ proof[1] = EncodePublicInputs(pi)

-----------------------------------------------------------------------------
ENCODED_LEN == 1 + 8 + 1 + 4 + 2

Encode(tx) ==
    <<TX_VERSION>> \o Digest(tx) \o <<AntispamTag(tx.antispam)>>
        \o AntispamBody(tx.antispam) \o tx.proof

(* decode: every failure is Malformed.                                     *)
Decode(bytes) ==
    IF Len(bytes) # ENCODED_LEN \/ bytes[1] # TX_VERSION THEN [error |-> "Malformed"]
    ELSE LET lane == FromWire(bytes[10], SubSeq(bytes, 11, 14))
         IN  IF "error" \in DOMAIN lane THEN lane
             ELSE [tx |-> [anchor |-> [height |-> bytes[2], root |-> bytes[3]],
                           nullifiers |-> SubSeq(bytes, 4, 5),
                           commitments |-> SubSeq(bytes, 6, 7),
                           enc_outputs |-> SubSeq(bytes, 8, 9),
                           antispam |-> lane.antispam,
                           proof |-> SubSeq(bytes, 15, 16)]]
=============================================================================
