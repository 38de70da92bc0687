----------------------------- MODULE LaneLifting -----------------------------
(***************************************************************************)
(* Lifting a column by vectors: a column of half the length gives its      *)
(* value at 2 * (i div 4) + i % 2 to place i, and so on for every ratio.   *)
(***************************************************************************)
EXTENDS Integers

LiftedIndex(i, r) == 2 * (i \div 2 ^ (r + 1)) + (i % 2)

(* The swizzle tables: lanes of the vector that idx is lifted from.        *)
LiftedLane(log_lanes, r, idx, l) ==
  CASE r = 0 -> l
    [] 0 < r /\ r < log_lanes - 1 ->
         (idx % 2 ^ r) * 2 ^ (log_lanes - r) + 2 * (l \div 2 ^ (r + 1)) + (l % 2)
    [] r > 0 /\ r >= log_lanes - 1 -> 2 * ((idx % 2 ^ r) \div 2 ^ (r - (log_lanes - 1))) + (l % 2)
=============================================================================
