----------------------------- MODULE FieldColumn -----------------------------
(***************************************************************************)
(* What the trait Column promises: a column of field elements is a vector  *)
(* of them, whatever memory it has.  One promise depends on the memory: a  *)
(* column that is not an even number of whole vectors may be torn when it  *)
(* is split, and nothing is promised of what is left.                      *)
(***************************************************************************)
EXTENDS Naturals, FiniteSets

CONSTANTS Fields,         \* the fields a column may be over
          ElementsOf(_),  \* elements written to a column over a field
          Embed(_),       \* an element of the base field, in the secure field
          VectorWidth,    \* cells written together
          MaxLength

VARIABLES values, field, torn,
          width           \* cells of a vector of its memory, an input

Init == /\ field \in Fields /\ torn = FALSE
        /\ \E n \in 0 .. MaxLength : DOMAIN values = 0 .. n - 1
Size == Cardinality(DOMAIN values)
Set ==
  /\ UNCHANGED <<field, torn>>
  /\ \E i \in DOMAIN values, v \in ElementsOf(field) : values' = [values EXCEPT ![i] = v]
SetVector ==
  /\ UNCHANGED <<field, torn>>
  /\ \E start \in DOMAIN values, v \in [0 .. VectorWidth - 1 -> ElementsOf(field)] :
       values' = [i \in DOMAIN values |->
                    IF start <= i /\ i < start + VectorWidth THEN v[i - start] ELSE values[i]]
Split ==
  /\ UNCHANGED <<field, torn>>
  /\ LET half == Size \div 2
     IN  \/ values' = [i \in 0 .. half - 1 |-> values[i]]
         \/ values' = [i \in 0 .. Size - half - 1 |-> values[half + i]]
Tear ==
  /\ Size % (2 * width) # 0
  /\ torn' = TRUE /\ values' = <<>> /\ UNCHANGED field
IntoSecure ==
  /\ field = "base" /\ field' = "secure"
  /\ values' = [i \in DOMAIN values |-> Embed(values[i])]
  /\ UNCHANGED torn
Next == ~torn /\ (Set \/ SetVector \/ Split \/ Tear \/ IntoSecure)
Spec == Init /\ [][Next]_<<values, field, torn>>
=============================================================================
