---------------------------- MODULE MCComputations ----------------------------
(***************************************************************************)
(* The computations of the prover, each on its small instance: a job picks *)
(* the one that runs, and the others stay idle.                            *)
(***************************************************************************)
EXTENDS FieldArithmetic, LowDegreeExtension, ColumnKernels, PackedColumns,
        LeafBuilders, MixedMerkle, QuotientKernels, GkrLookups,
        ComponentFramework

VARIABLE job

Init ==
  /\ job \in {"inverses", "extension", "kernel", "column", "leaves", "mixed",
             "quotients", "gkr", "air"}
  /\ IF job = "inverses" THEN FieldInit ELSE FieldIdle
  /\ IF job = "extension" THEN LdeInit ELSE LdeIdle
  /\ IF job = "kernel" THEN KernelInit ELSE KernelIdle
  /\ IF job = "column" THEN PackedInit ELSE PackedIdle
  /\ IF job = "leaves" THEN LeafInit ELSE LeafIdle
  /\ IF job = "mixed" THEN MixedInit ELSE MixedIdle
  /\ IF job = "quotients" THEN QuotientInit ELSE QuotientIdle
  /\ IF job = "gkr" THEN GkrInit ELSE GkrIdle
  /\ IF job = "air" THEN AirInit ELSE AirIdle

Next ==
  /\ UNCHANGED job
  /\ \/ /\ job = "inverses" /\ FieldNext
        /\ UNCHANGED <<lde_vars, kernel_vars, packed_vars, leaf_vars,
                       mixed_vars, quotient_vars, gkr_vars, air_vars>>
     \/ /\ job = "extension" /\ LdeNext
        /\ UNCHANGED <<field_vars, kernel_vars, packed_vars, leaf_vars,
                       mixed_vars, quotient_vars, gkr_vars, air_vars>>
     \/ /\ job = "kernel" /\ KernelNext
        /\ UNCHANGED <<field_vars, lde_vars, packed_vars, leaf_vars,
                       mixed_vars, quotient_vars, gkr_vars, air_vars>>
     \/ /\ job = "column" /\ PackedNext
        /\ UNCHANGED <<field_vars, lde_vars, kernel_vars, leaf_vars,
                       mixed_vars, quotient_vars, gkr_vars, air_vars>>
     \/ /\ job = "leaves" /\ LeafNext
        /\ UNCHANGED <<field_vars, lde_vars, kernel_vars, packed_vars,
                       mixed_vars, quotient_vars, gkr_vars, air_vars>>
     \/ /\ job = "mixed" /\ MixedNext
        /\ UNCHANGED <<field_vars, lde_vars, kernel_vars, packed_vars,
                       leaf_vars, quotient_vars, gkr_vars, air_vars>>
     \/ /\ job = "quotients" /\ QuotientNext
        /\ UNCHANGED <<field_vars, lde_vars, kernel_vars, packed_vars,
                       leaf_vars, mixed_vars, gkr_vars, air_vars>>
     \/ /\ job = "gkr" /\ GkrNext
        /\ UNCHANGED <<field_vars, lde_vars, kernel_vars, packed_vars,
                       leaf_vars, mixed_vars, quotient_vars, air_vars>>
     \/ /\ job = "air" /\ AirNext
        /\ UNCHANGED <<field_vars, lde_vars, kernel_vars, packed_vars,
                       leaf_vars, mixed_vars, quotient_vars, gkr_vars>>

vars == <<job, field_vars, lde_vars, kernel_vars, packed_vars, leaf_vars,
               mixed_vars, quotient_vars, gkr_vars, air_vars>>
Spec == Init /\ [][Next]_vars
=============================================================================
