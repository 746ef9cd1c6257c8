---------------------------- MODULE MCAdmission ----------------------------
(* Two stakers, one of them with two slots, and two bodies, each of which  *)
(* may go out in several slots and in both lanes; hashes small enough that *)
(* damaged bodies collide with sent ones and that first nonces fail.       *)
EXTENDS Admission

MCStakeOf == <<2, 1>>

MCAnchor == [height |-> 1, root |-> 1]

MCAnchors == {MCAnchor}

MCMessages ==
    { [anchor |-> MCAnchor, nullifiers |-> <<1, 2>>, commitments |-> <<1, 0>>, enc_outputs |-> <<0, 0>>],
      [anchor |-> MCAnchor, nullifiers |-> <<4, 5>>, commitments |-> <<2, 1>>, enc_outputs |-> <<0, 0>>] }

MCRateHash(key, e, k) == 1 + 100 * key + 10 * e + k

MCSum(s) == FoldLeft(LAMBDA a, b : a + b, 0, s)

MCMessageX(digest) == Reduce(MCSum(digest))

MCPowHash(challenge, nonce) ==
    LET v == (3 * MCSum(challenge) + 5 * nonce) % 16
    IN  <<v \div 4, v % 4>>
=============================================================================
