------------------------ MODULE MCCommitmentOpening ------------------------
(***************************************************************************)
(* Proofs over domains of 8 to 64 points, with two or three queries.  The  *)
(* trees are the preprocessed one, the trace and the composition polynomial. *)
(***************************************************************************)
EXTENDS CommitmentOpening

(* Stride 0 keeps full trees; another one is the stride of the checkpoints *)
(* of a low-memory proof.                                                  *)
Setting(columns, lifting, blowup, last, fold_step, stride, pairs, damage) ==
  [columns |-> columns, lifting |-> lifting, blowup |-> blowup, last |-> last,
   fold_step |-> fold_step, low_memory |-> stride > 0, stride |-> IF stride = 0 THEN 1 ELSE stride,
   queries |-> pairs, damage |-> damage]

Pairs(log) == [1 .. 2 -> 0 .. 2 ^ log - 1]
(* Neighbours, a repeated query, queries out of order, both ends.          *)
SomePairs(log) == {<<2, 3>>, <<5, 5>>, <<6, 1>>, <<1, 2>>, <<0, 2 ^ log - 1>>}
Pair == {<<6, 1>>, <<2, 3>>}

Flat(log) == <<<<log>>, <<log, log>>, <<log>>>>
Mixed(log) == <<<<log - 1, log>>, <<2, log - 1>>, <<log>>>>
NoPreprocessed(log) == <<<<>>, <<2, log>>, <<log>>>>
LargePreprocessed(log) == <<<<2, log + 1>>, <<log, 2>>, <<log>>>>
SmallPreprocessed(log) == <<<<log - 1>>, <<log, 2>>, <<log>>>>

HonestSettings ==
  {Setting(Mixed(3), 3, 1, 0, step, stride, [1 .. 3 -> 0 .. 7], FALSE)
     : step \in {1, 2}, stride \in {0, 1}}
  \cup {Setting(Flat(4), 0, 1, 0, 3, stride, Pairs(4), FALSE) : stride \in {0, 1}}
  \cup {Setting(NoPreprocessed(4), 0, 2, 1, 1, 0, Pairs(4), FALSE),
        Setting(LargePreprocessed(4), 0, 1, 0, 2, 2, Pairs(4), FALSE),
        Setting(SmallPreprocessed(4), 5, 1, 0, 2, 2, Pairs(5), FALSE),
        Setting(Mixed(5), 5, 1, 0, 1, 1, SomePairs(5), FALSE),
        Setting(Mixed(5), 5, 1, 0, 1, 2, SomePairs(5), FALSE),
        Setting(Flat(6), 6, 1, 0, 2, 2, SomePairs(6), FALSE),
        Setting(Flat(6), 0, 2, 1, 3, 2, SomePairs(6), FALSE)}
DamagedSettings ==
  {Setting(Mixed(3), 3, 1, 0, 1, 0, Pair, TRUE),
   Setting(NoPreprocessed(4), 0, 1, 0, 2, 0, Pair, TRUE),
   Setting(LargePreprocessed(3), 0, 1, 1, 1, 1, Pair, TRUE),
   Setting(Flat(5), 0, 1, 0, 2, 2, Pair, TRUE)}
MCSettings == HonestSettings \cup DamagedSettings

(* A preprocessed tree lower than the others, with no common lifting size. *)
PreprocessedSettings == {Setting(SmallPreprocessed(4), 0, 1, 0, 1, 0, Pairs(4), FALSE)}
=============================================================================
