----------------------------- MODULE MCSmallLifts -----------------------------
(***************************************************************************)
(* The composition polynomial of an AIR all of whose columns are shorter   *)
(* than a vector of sixteen lanes.                                         *)
(***************************************************************************)
EXTENDS ComponentFramework

SmallInit ==
  /\ AirInit /\ KernelIdle /\ QuotientIdle
  /\ air_job.air = "small"
SmallNext == AirNext /\ UNCHANGED <<kernel_vars, quotient_vars>>
SmallSpec == SmallInit /\ [][SmallNext]_<<air_vars, kernel_vars, quotient_vars>>

(* lift_and_accumulate returns the sum of the lifts of the columns it is   *)
(* given, as the trait documents it: here of the sums of constraints by    *)
(* size, just before they are interpolated.                                *)
SumOfLifts(columns, i) ==
  LET Lift(column) == column[LiftedIndex(i, Log2(Size(columns[Len(columns)])) - Log2(Size(column)))]
  IN  ReduceQM31(SumOf([k \in DOMAIN columns |-> ReduceQM31(Lift(columns[k]))]))
LiftsAreSummed ==
  (air_job.simd /\ air_prover.step = "evaluate" /\ air_prover.next > Len(AirComponents)) =>
    LET lifted == simd_lift_and_accumulate(SumsBySize)
    IN  \A i \in DOMAIN lifted : ReduceQM31(lifted[i]) = SumOfLifts(SumsBySize, i)
=============================================================================
