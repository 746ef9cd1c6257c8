------------------------------ MODULE RateLimit ------------------------------
(***************************************************************************)
(* The quota lane (crates/antispam-quota), as operators: the prime field,  *)
(* quota notes and the rate proofs they signal, and the registry that      *)
(* limits and slashes.  P is 2^61 - 1 in the code; products of two reduced *)
(* elements do not overflow there, nor here.  A quota note carries what    *)
(* hashes derive from its key: a0, the secret, and a1, the slope of each   *)
(* epoch; which hash a key, an epoch and a slot have is a parameter.       *)
(***************************************************************************)
EXTENDS Naturals, Sequences, SequencesExt

CONSTANTS
    P,                  \* the field's prime
    STAKE_PER_SLOT,     \* stake per slot and epoch (1000 in the code)
    RateHash(_, _, _)   \* the hash of a key, an epoch and a slot

ASSUME PrimeAssumption ==
    P \in Nat \ {0, 1} /\ \A d \in 2..(P - 1) : P % d # 0
ASSUME StakeAssumption == STAKE_PER_SLOT \in Nat \ {0}

Field == 0..(P - 1)

Reduce(x) == x % P

FieldAdd(a, b) == Reduce(a + b)

(* Mutant of FieldSub: the difference of the larger and the smaller.       *)
FieldSubAbsolute(a, b) == IF a >= b THEN a - b ELSE b - a

FieldSub(a, b) == Reduce(a + P - b)

FieldMul(a, b) == Reduce(a * b)

(* pow: square and multiply, one exponent bit per pass; a pass is left out *)
(* once the exponent is 0.                                                 *)
FieldPow(base, exp) ==
    LET pass(s, n) ==
            IF s.exp = 0 THEN s
            ELSE [acc  |-> IF s.exp % 2 = 1 THEN FieldMul(s.acc, s.base) ELSE s.acc,
                  base |-> FieldMul(s.base, s.base),
                  exp  |-> s.exp \div 2]
    IN  FoldLeft(pass, [acc |-> 1, base |-> Reduce(base), exp |-> exp],
                 [n \in 1..exp |-> n]).acc

(* Fermat's inverse.                                                       *)
FieldInv(a) == FieldPow(a, P - 2)

(* Fermat's little theorem, which inv relies on: it holds of every prime P.*)
ASSUME InverseAssumption ==
    \A d \in Field \ {0} : FieldInv(d) \in Field /\ FieldMul(d, FieldInv(d)) = 1

-----------------------------------------------------------------------------
(* Linear in the stake, and at least 1.                                    *)
QuotaOf(note) ==
    IF note.stake \div STAKE_PER_SLOT > 1 THEN note.stake \div STAKE_PER_SLOT ELSE 1

(* Mutant of RateNullifier: the key is left out of the hash.               *)
RateNullifierAnyone(note, epoch, k) == RateHash(0, epoch, k)

RateNullifier(note, epoch, k) == RateHash(note.key, epoch, k)

(* signal: the share of slot k for a message whose hash is x.              *)
CanSignal(note, k) == k < QuotaOf(note)

Signal(note, epoch, k, x) ==
    [epoch |-> epoch, rate_nullifier |-> RateNullifier(note, epoch, k),
     x |-> x, y |-> FieldAdd(note.a0, FieldMul(note.a1[epoch], x))]

-----------------------------------------------------------------------------
(* The registry: (epoch, rate nullifier) -> the share first seen for it.   *)
SlotOf(proof) == <<proof.epoch, proof.rate_nullifier>>

(* Two points of the line give its value at 0.                             *)
RecoveredSecret(first, proof) ==
    LET dx == FieldSub(proof.x, first.x)
        dy == FieldSub(proof.y, first.y)
        a1 == FieldMul(dy, FieldInv(dx))
    IN  FieldSub(first.y, FieldMul(a1, first.x))

(* Mutant of AdmitProof: only the same message is a reuse.                 *)
AdmitReuse(registry, proof) ==
    LET slot == SlotOf(proof)
    IN  IF slot \in DOMAIN registry /\ registry[slot].x = proof.x
        THEN [verdict |-> "Duplicate"] ELSE [verdict |-> "Ok"]

AdmitProof(registry, proof) ==
    LET slot == SlotOf(proof)
    IN  IF slot \notin DOMAIN registry THEN [verdict |-> "Ok"]
        ELSE IF registry[slot].x = proof.x THEN [verdict |-> "Duplicate"]
        ELSE [verdict |-> "Slash", secret |-> RecoveredSecret(registry[slot], proof)]

Recorded(registry, proof) ==
    [s \in DOMAIN registry \cup {SlotOf(proof)} |->
        IF s = SlotOf(proof) THEN [x |-> proof.x, y |-> proof.y] ELSE registry[s]]
=============================================================================
