----------------------------- MODULE Encryption -----------------------------
(***************************************************************************)
(* Hybrid note encryption (crates/encryption), as operators.  A ciphertext *)
(* has the three parts the code cuts it into.  The AEAD opens only under   *)
(* the key it was sealed with; the key is an injective hash of both shared *)
(* secrets, the transcript and the address tag.  The memo and rseed are    *)
(* left out: nothing reads them.                                           *)
(***************************************************************************)
EXTENDS Keys

NOTE_VERSION == 0

(* Mutant of DeriveAead: the classical leg alone.                          *)
DeriveAeadClassical(x25519_ss, mlkem_ss, epk, mlkem_ct, memo_tag) ==
    [x25519_ss |-> x25519_ss, epk |-> epk, memo_tag |-> memo_tag]

DeriveAead(x25519_ss, mlkem_ss, epk, mlkem_ct, memo_tag) ==
    [x25519_ss |-> x25519_ss, mlkem_ss |-> mlkem_ss, epk |-> epk,
     mlkem_ct |-> mlkem_ct, memo_tag |-> memo_tag]

(* encode_plaintext: the addr_tag is not in it.                            *)
EncodePlaintext(note) ==
    [version |-> NOTE_VERSION, value |-> note.value, rho |-> note.rho]

EncryptNote(note, recipient, ephemeral_seed) ==
    LET eph_secret == <<"ephemeral", ephemeral_seed>>
        epk == PublicKey(eph_secret)
        x25519_ss == DiffieHellman(eph_secret, recipient.x25519_pk)
        kem == KemEncapsulate(recipient, ephemeral_seed)
        key == DeriveAead(x25519_ss, kem.ss, epk, kem.ct, recipient.addr_tag)
    IN  [epk |-> epk, mlkem_ct |-> kem.ct,
         aead_ct |-> [key |-> key, pt |-> EncodePlaintext(note)]]

(* The key that a holder of ivk derives for a ciphertext.                  *)
RecipientKey(ct, ivk) ==
    DeriveAead(DiffieHellman(ivk.x25519_sk, ct.epk), Decapsulate(ivk, ct.mlkem_ct),
               ct.epk, ct.mlkem_ct, ivk.addr_tag)

(* Mutant of Opens: the AEAD tag is not verified.                          *)
OpensUnverified(ct, ivk) == ct.aead_ct.pt.version = NOTE_VERSION

Opens(ct, ivk) ==
    /\ RecipientKey(ct, ivk) = ct.aead_ct.key
    /\ ct.aead_ct.pt.version = NOTE_VERSION

(* try_decrypt, when it answers Some: the tag is the reader's own.         *)
Decrypted(ct, ivk) ==
    [value |-> ct.aead_ct.pt.value, addr_tag |-> ivk.addr_tag,
     rho |-> ct.aead_ct.pt.rho]

(* scan: the outputs that open, with the notes they hold, by index.        *)
Scanned(outputs, ivk) ==
    [k \in {j \in DOMAIN outputs : Opens(outputs[j], ivk)} |->
        Decrypted(outputs[k], ivk)]
=============================================================================
