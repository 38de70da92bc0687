--------------------------- MODULE CoefficientSpill ---------------------------
(* Spilling the coefficients of a tree to one temporary file                 *)
(* (CommitmentTreeProver::spill_coefficients and spill_polys_coefficients of *)
(* prover/pcs/mod.rs over the CoefficientSpillFile of prover/spill.rs), with *)
(* the reads that follow.  The call may be made again at any time: after a   *)
(* failure it starts over with a new file.                                   *)
EXTENDS Integers, Sequences, FiniteSets

CONSTANTS
  Polys,      \* the number of polynomials of the tree
  Size,       \* the bytes of the coefficients of each
  MaxFiles    \* bound: attempts that get a file

VARIABLES
  call, next,   \* where a call stands; the polynomial its loop is at
  coeffs,       \* [poly -> "none", "heap" or "file"]: coeffs, spilled_coeffs
  ref,          \* spilled_coeffs: the file and the entry in it
  frozen,       \* the files that were frozen: their bytes and entries
  buffer,       \* the file being written; each byte names its polynomial
  table,        \* its entries: offset and length
  files         \* how many files were created

vars == <<call, next, coeffs, ref, frozen, buffer, table, files>>

Index == 1 .. Polys

Init ==
  /\ call = "rest" /\ next = 1
  /\ coeffs \in [Index -> {"none", "heap"}]
  /\ ref = [p \in Index |-> <<0, 0>>]
  /\ frozen = <<>> /\ buffer = <<>> /\ table = <<>> /\ files = 0

InMemory == {p \in Index : coeffs[p] = "heap"}

(* A call with nothing to spill returns before it makes a file.              *)
NewFile ==
  /\ call = "rest" /\ InMemory # {} /\ files < MaxFiles
  /\ files' = files + 1
  /\ buffer' = <<>> /\ table' = <<>> /\ next' = 1
  /\ call' = "write"
  /\ UNCHANGED <<coeffs, ref, frozen>>

(* A polynomial without coefficients in memory is skipped.                   *)
Skip ==
  /\ call = "write" /\ next \in Index \ InMemory
  /\ next' = next + 1
  /\ UNCHANGED <<call, coeffs, ref, frozen, buffer, table, files>>

(* write_coefficients_raw: the bytes, then the entry and the new offset.     *)
Write ==
  /\ call = "write" /\ next \in InMemory
  /\ buffer' = buffer \o [i \in 1 .. Size[next] |-> next]
  /\ table' = Append(table, <<Len(buffer), Size[next]>>)
  /\ next' = next + 1
  /\ UNCHANGED <<call, coeffs, ref, frozen, files>>

(* A write, the sync or the map fails: the file goes, the error returns.     *)
Fail ==
  /\ call = "write"
  /\ call' = "rest"
  /\ UNCHANGED <<next, coeffs, ref, frozen, buffer, table, files>>

(* Mutant: the entry of a polynomial is taken to be its place in the tree.   *)
FreezeByPosition ==
  /\ call = "write" /\ next > Polys
  /\ frozen' = Append(frozen, [bytes |-> buffer, entries |-> table])
  /\ ref' = [p \in Index |-> IF p \in InMemory THEN <<Len(frozen'), p>> ELSE ref[p]]
  /\ coeffs' = [p \in Index |-> IF p \in InMemory THEN "file" ELSE coeffs[p]]
  /\ call' = "rest"
  /\ UNCHANGED <<next, buffer, table, files>>

(* Mutant: the loop that drops coefficients does not look at what was there. *)
FreezeMarksAll ==
  /\ call = "write" /\ next > Polys
  /\ frozen' = Append(frozen, [bytes |-> buffer, entries |-> table])
  /\ ref' = [p \in Index |-> <<Len(frozen'), Len(table)>>]
  /\ coeffs' = [p \in Index |-> "file"]
  /\ call' = "rest"
  /\ UNCHANGED <<next, buffer, table, files>>

(* The file is frozen; then the polynomials, in the order they were written, *)
(* get its entries one after the other and lose their coefficients.          *)
Freeze ==
  /\ call = "write" /\ next > Polys
  /\ frozen' = Append(frozen, [bytes |-> buffer, entries |-> table])
  /\ ref' = [p \in Index |-> IF p \in InMemory
               THEN <<Len(frozen'), Cardinality({q \in 1 .. p : q \in InMemory})>>
               ELSE ref[p]]
  /\ coeffs' = [p \in Index |-> IF p \in InMemory THEN "file" ELSE coeffs[p]]
  /\ call' = "rest"
  /\ UNCHANGED <<next, buffer, table, files>>

Next == NewFile \/ Skip \/ Write \/ Fail \/ Freeze

Spec == Init /\ [][Next]_vars

(* get_bytes of a spilled polynomial.                                        *)
Load(p) ==
  LET f == frozen[ref[p][1]]
      e == f.entries[ref[p][2]]
  IN SubSeq(f.bytes, e[1] + 1, e[1] + e[2])
CanLoad(p) ==
  /\ ref[p][1] \in DOMAIN frozen
  /\ ref[p][2] \in DOMAIN frozen[ref[p][1]].entries

------------------------------------------------------------------------------
(* The state has its shape.                                                  *)
TypeOK ==
  /\ call \in {"rest", "write"}
  /\ next \in 1 .. Polys + 1
  /\ coeffs \in [Index -> {"none", "heap", "file"}]
  /\ ref \in [Index -> Nat \X Nat]
  /\ files \in 0 .. MaxFiles
  /\ Len(frozen) <= files
  /\ Len(table) <= Polys

(* What is read back for a polynomial are the bytes that were written for     *)
(* it, whichever of its neighbours had coefficients in memory.               *)
LoadsOwn ==
  \A p \in Index : coeffs[p] = "file" =>
    CanLoad(p) /\ Load(p) = [i \in 1 .. Size[p] |-> p]

(* A call moves all the coefficients in memory or none: an error leaves the  *)
(* tree as it was, and no polynomial gains coefficients it never had.        *)
AllOrNothing ==
  [][coeffs' # coeffs =>
       /\ InMemory # {} /\ InMemory' = {}
       /\ \A p \in Index : (coeffs[p] = "none") = (coeffs'[p] = "none")]_vars
==============================================================================
