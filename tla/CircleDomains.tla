---------------------------- MODULE CircleDomains ----------------------------
(***************************************************************************)
(* The evaluation domains on the circle.  A point of the group generated   *)
(* by M31_CIRCLE_GEN is its index, modulo the order of the group; an x or  *)
(* a y coordinate is the pair of indices that have it.                     *)
(***************************************************************************)
EXTENDS Integers

CONSTANT CircleLogOrder    \* M31_CIRCLE_LOG_ORDER, 31 in the code

CircleOrder == 2 ^ CircleLogOrder
Reduce(index) == index % CircleOrder
subgroup_gen(log) == 2 ^ (CircleLogOrder - log)

(* Points p and -p share x; p and the half turn minus p share y.           *)
XOf(index) == {index, Reduce(-index)}
YOf(index) == {index, Reduce(CircleOrder \div 2 - index)}

(* Coset::new, half_odds, index_at, double.                                *)
Coset(initial, log) == [initial |-> initial, step |-> subgroup_gen(log), log |-> log]
half_odds(log) == Coset(subgroup_gen(log + 2), log)
IndexAt(coset, i) == Reduce(coset.initial + coset.step * i)
Double(coset) == [initial |-> Reduce(coset.initial * 2), step |-> Reduce(coset.step * 2),
                  log |-> coset.log - 1]
RepeatedDouble(coset, n) ==
  LET doubled[k \in 0 .. n] == IF k = 0 THEN coset ELSE Double(doubled[k - 1])
  IN  doubled[n]

(* A circle domain is a half coset followed by its conjugate.              *)
CircleIndexAt(half, i) ==
  IF i < 2 ^ half.log THEN IndexAt(half, i) ELSE Reduce(-IndexAt(half, i - 2 ^ half.log))
CanonicHalfCoset(log) == half_odds(log - 1)

bit_reverse_index(i, log) ==
  LET reversed[k \in 0 .. log] ==
        IF k = 0 THEN 0 ELSE 2 * reversed[k - 1] + ((i \div 2 ^ (k - 1)) % 2)
  IN  reversed[log]
=============================================================================
