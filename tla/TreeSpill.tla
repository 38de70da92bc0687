------------------------------ MODULE TreeSpill ------------------------------
(* The two spills of one tree (prover/pcs/mod.rs): its coefficients go to a  *)
(* file (CoefficientSpill), before its evaluations go to maps (EvalSpill) or *)
(* after, and again when an attempt failed.  One thread works on a tree, so  *)
(* a spill that was started runs to its end before the other.                *)
EXTENDS EvalSpill

CONSTANTS
  Polys,      \* the number of polynomials of the tree
  Size,       \* the bytes of the coefficients of each
  MaxFiles    \* bound: attempts that get a file

ASSUME CoefficientConstants ==
  /\ Polys \in Nat
  /\ Size \in [1 .. Polys -> Nat]
  /\ MaxFiles \in Nat

VARIABLES call, next, coeffs, ref, frozen, buffer, table, files

coefficientVars == <<call, next, coeffs, ref, frozen, buffer, table, files>>
treeVars == <<coefficientVars, vars>>

Coefficients == INSTANCE CoefficientSpill

TreeInit == Coefficients!Init /\ Init

(* spill_coefficients is called where spill_eval_columns is not running.     *)
BetweenEvalSteps ==
  pc \in {"guarded", "unguarded", "done"} \/ (pc = "loop" /\ pos = 1 /\ ~faults)

SpillCoefficients == BetweenEvalSteps /\ Coefficients!Next /\ UNCHANGED vars
SpillEvaluations == call = "rest" /\ Next /\ UNCHANGED coefficientVars

TreeNext == SpillCoefficients \/ SpillEvaluations

(* A call that was made runs on; the coefficients are spilled when the       *)
(* caller pleases, the evaluations of a tree always are.                     *)
TreeSpec ==
  /\ TreeInit /\ [][TreeNext]_treeVars
  /\ WF_treeVars(call = "write" /\ SpillCoefficients)
  /\ WF_treeVars(SpillEvaluations)

------------------------------------------------------------------------------
(* What is read back for a polynomial are the bytes written for it.          *)
LoadsOwn == Coefficients!LoadsOwn

(* A spill of coefficients moves all of them or none.                        *)
AllOrNothing == Coefficients!AllOrNothing
==============================================================================
