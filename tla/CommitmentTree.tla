--------------------------- MODULE CommitmentTree ---------------------------
(* What the memory operations of a CommitmentTreeProver                      *)
(* (prover/pcs/mod.rs) do to one tree, as operators on its record:           *)
(*   owned    the scheme owns the tree (MaybeOwned::Owned)                   *)
(*   merkle   "full" or "checkpointed"                                       *)
(*   polys    coeffs: "none", "heap" or "file"; evals: "none", "heap", "map" *)
(*   guards   eval_mmap_guards: the columns each guard's maps back, and the  *)
(*            spilled_indices it will forget                                 *)
(* A release hands buffers over; Handed... is what went where.               *)
EXTENDS Integers, Sequences

Tree(owned, merkle, polys) ==
  [owned |-> owned, merkle |-> merkle, polys |-> polys, guards |-> <<>>]

Poly == [coeffs : {"none", "heap", "file"}, evals : {"none", "heap", "map"}]
Guard == [backs : SUBSET Nat, indices : SUBSET Nat]
TreeRecord ==
  [owned : BOOLEAN, merkle : {"full", "checkpointed"}, polys : Seq(Poly), guards : Seq(Guard)]

Columns(t) == DOMAIN t.polys
Evals(t, i) == t.polys[i].evals
Coeffs(t, i) == t.polys[i].coeffs
Resident(t) == {i \in Columns(t) : Evals(t, i) # "none"}
MappedColumns(t) == {i \in Columns(t) : Evals(t, i) = "map"}
Noted(t) == UNION {t.guards[g].indices : g \in DOMAIN t.guards}
Backed(t) == UNION {t.guards[g].backs : g \in DOMAIN t.guards}

IsTree(t) == t \in TreeRecord /\ Noted(t) \subseteq Columns(t)

(* The columns in maps are those the live guards back, and those they will   *)
(* forget.                                                                   *)
GuardsMatch(t) == Noted(t) = MappedColumns(t) /\ Backed(t) = MappedColumns(t)

(* Poly::has_coefficients, can_recompute_openings.                           *)
HasCoefficients(t, i) == Coeffs(t, i) # "none"
CanRecompute(t) == \A i \in Columns(t) : HasCoefficients(t, i)
InMemory(t) == {i \in Columns(t) : Coeffs(t, i) = "heap"}

SetEvals(t, S, kind) ==
  [t EXCEPT !.polys = [i \in Columns(t) |->
     IF i \in S THEN [t.polys[i] EXCEPT !.evals = kind] ELSE t.polys[i]]]

(* forget_mmap_backed_evals_if_any.                                          *)
ForgetMapped(t) == IF t.guards = <<>> THEN t ELSE SetEvals(t, Noted(t), "none")

HandedByForget(t) ==
  {<<"forgotten", Evals(t, i)>> : i \in Resident(t) \ Resident(ForgetMapped(t))}

(* drop_evaluations and release_evaluations differ in where the columns that *)
(* were not forgotten go: the allocator, or the pool.                        *)
WithoutEvaluations(t) == [SetEvals(t, Columns(t), "none") EXCEPT !.guards = <<>>]

HandedByRelease(t, to) ==
  HandedByForget(t) \cup
  {<<to, Evals(ForgetMapped(t), i)>> : i \in Resident(ForgetMapped(t))}

(* drop_evaluation_range, drop_evaluation_indices: the guards are not asked. *)
DropColumns(t, S) == SetEvals(t, S, "none")
HandedByDrop(t, S) == {<<"allocator", Evals(t, i)>> : i \in S \cap Resident(t)}

(* materialize_evaluation_range and _indices: on the heap, if missing.       *)
MaterializeColumns(t, S) == SetEvals(t, S \ Resident(t), "heap")
CanMaterialize(t, S) == \A i \in S \ Resident(t) : HasCoefficients(t, i)

(* Mutant: the indices stay relative to the slice that was spilled.          *)
RelativeIndices(S, start) == {i - start + 1 : i \in S}

(* The indices spill_eval_columns returns, after offset_indices.             *)
OffsetIndices(S, start) == {(i - start + 1) + (start - 1) : i \in S}

(* spill_eval_columns on the columns from start, of which it moved S.        *)
SpillColumns(t, start, S) ==
  IF S = {} THEN t
  ELSE [SetEvals(t, S, "map") EXCEPT
          !.guards = Append(@, [backs |-> S, indices |-> OffsetIndices(S, start)])]
HandedBySpill(t, S) == {<<"allocator", Evals(t, i)>> : i \in S}

(* Columns evaluated straight into maps, a map and a guard to a group.  The  *)
(* guard of try_mmap_eval_column_chunk notes the indices themselves.         *)
MapGroups(t, groups) ==
  [SetEvals(t, UNION {groups[k] : k \in DOMAIN groups}, "map") EXCEPT
     !.guards = @ \o [k \in DOMAIN groups |-> [backs |-> groups[k], indices |-> groups[k]]]]

(* Mutant: the reference to the file is not set.                             *)
LoseCoefficients(t) ==
  [t EXCEPT !.polys = [i \in Columns(t) |->
     IF i \in InMemory(t) THEN [t.polys[i] EXCEPT !.coeffs = "none"] ELSE t.polys[i]]]

(* spill_coefficients, when the file could be made.                          *)
SpillCoefficients(t) ==
  [t EXCEPT !.polys = [i \in Columns(t) |->
     IF i \in InMemory(t) THEN [t.polys[i] EXCEPT !.coeffs = "file"] ELSE t.polys[i]]]

(* into_memory_mode.                                                         *)
Checkpoint(t) == [t EXCEPT !.merkle = "checkpointed"]

(* Reading a column: sample_committed_positions, eval_at_points.             *)
CanSample(t, i) == Evals(t, i) # "none" \/ HasCoefficients(t, i)
CanEvaluateAtPoints(t, i, weights) ==
  HasCoefficients(t, i) \/ (weights /\ Evals(t, i) # "none")
==============================================================================
