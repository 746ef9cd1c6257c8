------------------------------ MODULE Emission ------------------------------
(***************************************************************************)
(* The issuance schedule and the split of a reward (crates/emission), as   *)
(* operators.  The fixed-point one, SCALE, is 2^32 in the code and a       *)
(* parameter here: TLC's integers have 32 bits.                            *)
(***************************************************************************)
EXTENDS Naturals, Sequences, SequencesExt

CONSTANTS e0, e_tail, half_life, SCALE

ASSUME HalfLifeAssumption == half_life \in Nat \ {0}
ASSUME ScaleAssumption == SCALE \in Nat \ {0}
ASSUME ScheduleAssumption == e0 \in Nat /\ e_tail \in Nat /\ e_tail <= e0

(* Halvings after which the factor is cut to zero.                         *)
MAX_HALVINGS == 64

(* 2^(-height/half_life) in fixed point, linear between two halvings.      *)
DecayFactor(height) ==
    LET q == height \div half_life
        r == height % half_life
        halvings == SCALE \div 2^q
        drop == (halvings * r) \div (2 * half_life)
    IN  IF q >= MAX_HALVINGS THEN 0 ELSE halvings - drop

EmissionAt(height) ==
    e_tail + ((e0 - e_tail) * DecayFactor(height)) \div SCALE

(* Mutant of Distribute: the rounding remainder is lost.                   *)
DistributeFloors(total, weights) ==
    LET weight_sum == SumFunction(weights)
    IN  IF weight_sum = 0 THEN << >>
        ELSE [k \in 1..Len(weights) |-> (total * weights[k]) \div weight_sum]

(* The floors of the proportional shares, then the remainder one unit at a *)
(* time from the lowest index, wrapping: the k-th unit goes to index       *)
(* k % n, so each of n shares gets remainder \div n units, and the first   *)
(* remainder % n of them one more.                                         *)
Distribute(total, weights) ==
    LET n == Len(weights)
        weight_sum == SumFunction(weights)
        floor == [k \in 1..n |-> (total * weights[k]) \div weight_sum]
        remainder == total - SumFunction(floor)
        extra(k) == remainder \div n + (IF k <= remainder % n THEN 1 ELSE 0)
    IN  IF weight_sum = 0 THEN << >>
        ELSE [k \in 1..n |-> floor[k] + extra(k)]

(* The reward descriptor's shares at a height.                             *)
RewardShares(height, weights) == Distribute(EmissionAt(height), weights)
=============================================================================
