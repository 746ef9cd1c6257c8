-------------------------------- MODULE Keys --------------------------------
(***************************************************************************)
(* The key hierarchy and addresses (crates/keys), as operators.  Every     *)
(* derivation is an injective, domain-separated hash of its parent: nk and *)
(* addr_tag keep the number of the seed (they are used as numbers          *)
(* elsewhere), the secrets are the seed under a label.  X25519 and ML-KEM  *)
(* are symbolic: a public key names its secret, and only a holder of the   *)
(* secret derives the shared secret.                                       *)
(***************************************************************************)
EXTENDS Naturals, Sequences

(* SpendingKey::from_seed and what is derived from it.                     *)
SpendingKey(seed) == seed

Nk(sk) == sk

AddrTag(sk) == sk

X25519Secret(sk) == <<"x25519", sk>>

KemSecret(sk) == <<"kem", sk>>

PublicKey(secret) == [of |-> secret]

AddressOf(sk) ==
    [x25519_pk |-> PublicKey(X25519Secret(sk)),
     kem_pk |-> PublicKey(KemSecret(sk)),
     addr_tag |-> AddrTag(sk)]

IncomingViewingKey(sk) ==
    [x25519_sk |-> X25519Secret(sk), kem_dk |-> KemSecret(sk), addr_tag |-> AddrTag(sk)]

-----------------------------------------------------------------------------
(* Both sides of a Diffie-Hellman exchange compute the same secret.        *)
DiffieHellman(secret, public) == {secret, public.of}

(* kem_encapsulate is deterministic in its seed.                           *)
KemEncapsulate(address, m_seed) ==
    [ct |-> [to |-> address.kem_pk, m |-> m_seed],
     ss |-> <<"shared", address.kem_pk, m_seed>>]

(* decapsulate never fails: a ciphertext for another key gives a secret    *)
(* that nobody else has.                                                   *)
Decapsulate(ivk, ct) ==
    << IF ct.to = PublicKey(ivk.kem_dk) THEN "shared" ELSE "rejected",
       PublicKey(ivk.kem_dk), ct.m >>

-----------------------------------------------------------------------------
(* The text of an address: a prefix, then cells of data (hex digits in the *)
(* code).  The checksum, four bytes of a hash, is what it hashes.          *)
ADDRESS_HRP == "unk1"

ADDRESS_VERSION == 0

Payload(address) ==
    <<ADDRESS_VERSION, address.x25519_pk, address.kem_pk, address.addr_tag>>

EncodeAddress(address) ==
    [prefix |-> ADDRESS_HRP, data |-> Append(Payload(address), Payload(address))]

(* Mutant of DecodeAddress: the checksum is not compared.                  *)
DecodeAddressUnchecked(text) ==
    LET data == text.data
    IN  IF text.prefix # ADDRESS_HRP THEN [error |-> "WrongHrp"]
        ELSE IF Len(data) # 5 \/ data[1] # ADDRESS_VERSION THEN [error |-> "Malformed"]
        ELSE [address |-> [x25519_pk |-> data[2], kem_pk |-> data[3],
                           addr_tag |-> data[4]]]

DecodeAddress(text) ==
    LET data == text.data
    IN  IF text.prefix # ADDRESS_HRP THEN [error |-> "WrongHrp"]
        ELSE IF Len(data) # 5 \/ data[1] # ADDRESS_VERSION THEN [error |-> "Malformed"]
        ELSE IF data[5] # SubSeq(data, 1, 4) THEN [error |-> "Malformed"]
        ELSE [address |-> [x25519_pk |-> data[2], kem_pk |-> data[3],
                           addr_tag |-> data[4]]]
=============================================================================
