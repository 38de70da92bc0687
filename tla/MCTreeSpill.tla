----------------------------- MODULE MCTreeSpill -----------------------------
(* Three polynomials, any of them without coefficients, and columns of       *)
(* unequal sizes, one of them without evaluations.                           *)
EXTENDS TreeSpill

MCSize == <<1, 2, 1>>
MCColumns == 0 .. 4
MCEvalIndices == <<0, 1, 3, 4>>
MCPacked == [c \in MCColumns |-> <<1, 3, 1, 1, 2>>[c + 1]]
==============================================================================
