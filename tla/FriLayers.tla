------------------------------ MODULE FriLayers ------------------------------
(***************************************************************************)
(* The pure parts of FRI: the schedule of the folds, the values a layer    *)
(* opens, what the verifier rebuilds from them, and the folds themselves.  *)
(*                                                                         *)
(* A value is named.  Value(level, i) is what the prover has at position i *)
(* after halving the quotients level times; Wrong is any other value.  A   *)
(* fold of two values has the prover's name for the result exactly when    *)
(* the inputs, the coordinate and the power of the challenge are those the *)
(* prover used: folds[level + 1] is [coords, alpha] of its halving.  Other *)
(* inputs are taken to give other values.                                  *)
(***************************************************************************)
EXTENDS CircleDomains, LiftedMerkle

Value(level, i) == <<level, i>>
Wrong == <<-1, 0>>

(* An alpha is [draw, power]; draw 0 is a challenge the prover never drew. *)
Challenge(draw) == [draw |-> draw, power |-> 1]
Square(alpha) == [alpha EXCEPT !.power = 2 * @]

Fold(folds, left, right, coord, alpha) ==
  LET level == left[1]
      i == left[2] \div 2
  IN  IF /\ left # Wrong
         /\ left[2] = 2 * i
         /\ right = Value(level, left[2] + 1)
         /\ level < Len(folds)
         /\ folds[level + 1].coords[i] = coord
         /\ folds[level + 1].alpha = alpha
      THEN Value(level + 1, i)
      ELSE Wrong

-----------------------------------------------------------------------------
(* The prover's layers *)

should_pack_leaves(log, fold_step) == log >= LogPackedLeafSize /\ fold_step > 1

(* The coordinates that pair i of a layer is folded with.                  *)
CircleCoords(half) ==
  [i \in 0 .. 2 ^ half.log - 1 |-> YOf(CircleIndexAt(half, bit_reverse_index(2 * i, half.log + 1)))]
LineCoords(domain) ==
  [i \in 0 .. 2 ^ (domain.log - 1) - 1 |-> XOf(IndexAt(domain, bit_reverse_index(2 * i, domain.log)))]

(* An evaluation is [domain, at].  A circle evaluation is given its half coset. *)
fold_circle_into_line(folds, half, at, alpha) ==
  [domain |-> half_odds(half.log),
   at |-> [i \in 0 .. 2 ^ half.log - 1 |->
             Fold(folds, at[2 * i], at[2 * i + 1], CircleCoords(half)[i], alpha)]]

fold_line_cpu(folds, line, alpha) ==
  [domain |-> Double(line.domain),
   at |-> [i \in 0 .. 2 ^ (line.domain.log - 1) - 1 |->
             Fold(folds, line.at[2 * i], line.at[2 * i + 1], LineCoords(line.domain)[i], alpha)]]

(* fold_line: the challenge is squared from one halving to the next.       *)
fold_line(folds, line, alpha, steps) ==
  LET after[k \in 0 .. steps] ==
        IF k = 0 THEN [line |-> line, alpha |-> alpha]
        ELSE [line |-> fold_line_cpu(folds, after[k - 1].line, after[k - 1].alpha),
              alpha |-> Square(after[k - 1].alpha)]
  IN  after[steps].line

initial_inner_layer_evaluation(folds, half, at, alpha, fold_step) ==
  fold_line(folds, fold_circle_into_line(folds, half, at, alpha), Square(alpha), fold_step - 1)

(* What the prover's halvings add to folds, for steps halvings of a line.  *)
LineHalvings(domain, alpha, steps) ==
  LET after[k \in 1 .. steps] ==
        IF k = 1 THEN [domain |-> domain, alpha |-> alpha]
        ELSE [domain |-> Double(after[k - 1].domain), alpha |-> Square(after[k - 1].alpha)]
  IN  [k \in 1 .. steps |-> [coords |-> LineCoords(after[k].domain), alpha |-> after[k].alpha]]

(* The positions of the subsets that hold a query, in order.               *)
SubsetOf(position, fold_step) == position \div 2 ^ fold_step
SubsetStarts(positions, fold_step) ==
  LET subsets == ChunkBy(LAMBDA a, b : SubsetOf(a, fold_step) = SubsetOf(b, fold_step), positions)
  IN  [k \in DOMAIN subsets |-> SubsetOf(subsets[k][1], fold_step) * 2 ^ fold_step]
DecommitmentPositions(positions, fold_step) ==
  LET starts == SubsetStarts(positions, fold_step)
      size == 2 ^ fold_step
  IN  [n \in 1 .. Len(starts) * size |-> starts[((n - 1) \div size) + 1] + ((n - 1) % size)]

(* compute_decommitment_positions_and_witness_evals; positions are sorted. *)
WitnessEvals(at, positions, fold_step) ==
  LET unqueried == SelectSeq(DecommitmentPositions(positions, fold_step),
                             LAMBDA p : p \notin Range(positions))
  IN  [k \in DOMAIN unqueried |-> at[unqueried[k]]]

LeafLog(pack_leaves) == IF pack_leaves THEN LogPackedLeafSize ELSE 0
MerklePositions(positions, pack_leaves) ==
  Dedup([k \in DOMAIN positions |-> positions[k] \div 2 ^ LeafLog(pack_leaves)])

(* build_secure_column_leaves; a secure column is one column here.         *)
LayerLeaves(at, log, pack_leaves) ==
  LET column == [log |-> log, at |-> at]
  IN  build_leaves(IF pack_leaves THEN pack_leaves_input(column) ELSE <<column>>,
                   log - LeafLog(pack_leaves))

FoldQueries(positions, n_folds) == Dedup([k \in DOMAIN positions |-> positions[k] \div 2 ^ n_folds])

-----------------------------------------------------------------------------
(* The verifier's layers *)

(* compute_decommitment_positions_and_rebuild_evals.                       *)
RebuiltEvals(positions, query_evals, fri_witness, fold_step) ==
  LET opened == DecommitmentPositions(positions, fold_step)
      WitnessesUsed(n) == Len(SelectSeq(SubSeq(opened, 1, n), LAMBDA p : p \notin Range(positions)))
      used == WitnessesUsed(Len(opened))
  IN  [used |-> used,
       evals |-> IF used > Len(fri_witness) THEN <<>>
                 ELSE [n \in DOMAIN opened |->
                         IF opened[n] \in Range(positions) THEN query_evals[n - WitnessesUsed(n)]
                         ELSE fri_witness[WitnessesUsed(n)]]]

(* build_merkle_verification_inputs: one column per row of a leaf.         *)
MerkleValues(merkle_positions, evals, pack_leaves) ==
  LET size == 2 ^ LeafLog(pack_leaves)
  IN  [o \in 1 .. size |-> [k \in DOMAIN merkle_positions |-> evals[(k - 1) * size + o]]]

verify_layer(root, log, pack_leaves, opened, evals, witness) ==
  LET merkle_positions == MerklePositions(opened, pack_leaves)
      leaf_log == log - LeafLog(pack_leaves)
  IN  verify(root, [o \in 1 .. 2 ^ LeafLog(pack_leaves) |-> leaf_log], leaf_log,
             merkle_positions, MerkleValues(merkle_positions, evals, pack_leaves), witness)

(* Mutant: the challenge is not squared.                                    *)
fold_cosetSameAlpha(folds, eval, domain, alpha) ==
  LET n == domain.log
      Halved(values, log, d) ==
        [j \in 0 .. 2 ^ (log - 1) - 1 |->
           Fold(folds, values[2 * j], values[2 * j + 1],
                XOf(IndexAt(d, bit_reverse_index(2 * j, d.log))), alpha)]
      after[i \in 0 .. n] ==
        IF i = 0 THEN [values |-> eval, domain |-> domain]
        ELSE LET before == after[i - 1]
             IN  [values |-> Halved(before.values, n - i + 1, before.domain),
                  domain |-> Double(before.domain)]
  IN  after[n].values[0]
fold_coset(folds, eval, domain, alpha) ==
  LET n == domain.log
      Halved(values, log, d, power) ==
        [j \in 0 .. 2 ^ (log - 1) - 1 |->
           Fold(folds, values[2 * j], values[2 * j + 1],
                XOf(IndexAt(d, bit_reverse_index(2 * j, d.log))), power)]
      after[i \in 0 .. n] ==
        IF i = 0 THEN [values |-> eval, domain |-> domain, alpha |-> alpha]
        ELSE LET before == after[i - 1]
             IN  [values |-> Halved(before.values, n - i + 1, before.domain, before.alpha),
                  domain |-> Double(before.domain), alpha |-> Square(before.alpha)]
  IN  after[n].values[0]

(* The values of subset k, from 0.                                         *)
SubsetEval(evals, fold_step, k) ==
  [j \in 0 .. 2 ^ fold_step - 1 |-> evals[(k - 1) * 2 ^ fold_step + j + 1]]

SparseFoldLine(folds, starts, evals, alpha, domain, fold_step) ==
  [k \in DOMAIN starts |->
     LET initial == IndexAt(domain, bit_reverse_index(starts[k], domain.log))
     IN  fold_coset(folds, SubsetEval(evals, fold_step, k), Coset(initial, fold_step), alpha)]

SparseFoldCircle(folds, starts, evals, alpha, half, fold_step) ==
  [k \in DOMAIN starts |->
     LET initial == CircleIndexAt(half, bit_reverse_index(starts[k], half.log + 1))
         circle == Coset(initial, fold_step - 1)
         eval == SubsetEval(evals, fold_step, k)
         buffer == [j \in 0 .. 2 ^ (fold_step - 1) - 1 |->
                      Fold(folds, eval[2 * j], eval[2 * j + 1],
                           YOf(CircleIndexAt(circle, bit_reverse_index(2 * j, fold_step))), alpha)]
     IN  IF fold_step = 1 THEN buffer[0]
         ELSE fold_coset(folds, buffer, Coset(initial, fold_step - 1), Square(alpha))]
=============================================================================
