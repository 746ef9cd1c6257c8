------------------------------- MODULE Puzzle -------------------------------
(***************************************************************************)
(* The proof-of-work lane (crates/antispam-pow), as operators.  A hash is  *)
(* a sequence of bytes of BYTE_BITS bits; which hash a digest and a nonce  *)
(* have is a parameter.                                                    *)
(***************************************************************************)
EXTENDS Naturals, Sequences

CONSTANTS
    BYTE_BITS,          \* 8 in the code
    HASH_BYTES,         \* 32 in the code
    MaxNonce,           \* bound: nonces (u64 in the code)
    PowHash(_, _)       \* the hash of a challenge and a nonce

ASSUME PuzzleAssumption ==
    BYTE_BITS \in Nat \ {0} /\ HASH_BYTES \in Nat \ {0} /\ MaxNonce \in Nat

Hashes == [1..HASH_BYTES -> 0..(2^BYTE_BITS - 1)]

LeadingZeros(byte) ==
    BYTE_BITS - (CHOOSE n \in 0..BYTE_BITS :
                    byte < 2^n /\ (n = 0 \/ byte >= 2^(n - 1)))

(* Mutant of LeadingZeroBits: the loop does not stop at the first byte     *)
(* that is not zero.                                                       *)
LeadingZerosOfAll(h) ==
    LET upto[k \in 0..Len(h)] == IF k = 0 THEN 0 ELSE upto[k - 1] + LeadingZeros(h[k])
    IN  upto[Len(h)]

(* Whole zero bytes, then the zeros of the first byte that is not zero.    *)
LeadingZeroBits(h) ==
    LET nonzero == {k \in DOMAIN h : h[k] # 0}
        first == CHOOSE k \in nonzero : \A j \in nonzero : k <= j
    IN  IF nonzero = {} THEN BYTE_BITS * Len(h)
        ELSE BYTE_BITS * (first - 1) + LeadingZeros(h[first])

PowVerify(challenge, nonce, difficulty_bits) ==
    LeadingZeroBits(PowHash(challenge, nonce)) >= difficulty_bits

(* solve: the first nonce that does; it does not end if none does.         *)
Solutions(challenge, difficulty_bits) ==
    {n \in 0..MaxNonce : PowVerify(challenge, n, difficulty_bits)}

Solve(challenge, difficulty_bits) ==
    CHOOSE n \in Solutions(challenge, difficulty_bits) :
        \A j \in Solutions(challenge, difficulty_bits) : n <= j
=============================================================================
