----------------------------- MODULE ColumnSpill -----------------------------
(* What spilling evaluation columns to file-backed maps promises its caller  *)
(* (spill_eval_columns and forget_mmap_backed_evals of prover/spill.rs):     *)
(* columns move from the heap to a map in any number of groups, any of them  *)
(* may stay behind, the guard names exactly those that moved, and a mapped   *)
(* column is only ever forgotten, never freed, before its map goes away.     *)
EXTENDS FiniteSets

CONSTANTS Columns,   \* the polynomials of the slice
          Present    \* those that have evaluations

VARIABLES evals,     \* where the bytes of a column's evaluations are
          held       \* the columns the live maps were made for

vars == <<evals, held>>

Init ==
  /\ evals = [c \in Columns |-> IF c \in Present THEN "heap" ELSE "none"]
  /\ held = {}

OnHeap == {c \in Columns : evals[c] = "heap"}
Mapped == {c \in Columns : evals[c] = "map"}

(* A group of columns is swapped to a new map.                               *)
Move(S) ==
  /\ S # {}
  /\ S \subseteq OnHeap
  /\ evals' = [c \in Columns |-> IF c \in S THEN "map" ELSE evals[c]]
  /\ held' = held \cup S

(* Every mapped column is forgotten in one call.                             *)
Forget ==
  /\ Mapped # {}
  /\ evals' = [c \in Columns |-> IF c \in Mapped THEN "none" ELSE evals[c]]
  /\ UNCHANGED held

(* The columns left on the heap go back to the allocator.                    *)
Free ==
  /\ Mapped = {}
  /\ evals' = [c \in Columns |-> "none"]
  /\ UNCHANGED held

(* The maps go when no column points into them.                              *)
Unmap ==
  /\ Mapped = {}
  /\ held' = {}
  /\ UNCHANGED evals

Next == (\E S \in SUBSET Columns : Move(S)) \/ Forget \/ Free \/ Unmap

Spec == Init /\ [][Next]_vars
==============================================================================
