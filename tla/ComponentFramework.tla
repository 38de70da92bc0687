-------------------------- MODULE ComponentFramework --------------------------
(***************************************************************************)
(* AIRs of the constraint framework: components with lookups get their     *)
(* columns from an allocator, the prover combines their constraints into   *)
(* one polynomial on the evaluations it committed or on extensions of      *)
(* them, and prover and verifier compare it with the sampled values.       *)
(***************************************************************************)
EXTENDS QuotientKernels

VARIABLES air_job, air_prover, air_verifier
air_vars == <<air_job, air_prover, air_verifier>>

(* --- AIRs ---                                                            *)
(* Bounds: components by kind and log size; a disabled one has columns of  *)
(* the least log size.                                                     *)
MIN_CIRCLE_DOMAIN_LOG_SIZE == 1
Enabled(kind, log) == [kind |-> kind, log |-> log, disabled |-> FALSE]
Airs ==
  [machine  |-> <<Enabled("step_x", 4), Enabled("step_y", 3)>>,
   plonk    |-> <<Enabled("plonk", 3)>>,
   wide     |-> <<Enabled("fibonacci", 3), Enabled("plonk", 2)>>,
   shared   |-> <<Enabled("plonk", 3), Enabled("plonk", 3)>>,
   small    |-> <<Enabled("fibonacci", 2), Enabled("fibonacci", 1)>>,
   mixed    |-> <<Enabled("plonk", 3), Enabled("step_x", 2)>>,
   disabled |-> <<Enabled("step_y", 3), [Enabled("step_x", 3) EXCEPT !.disabled = TRUE]>>]
WireColumns == <<"wire_a", "wire_b", "wire_c", "op">>
PREPROCESSED_TRACE_IDX == 1
ORIGINAL_TRACE_IDX == 2
INTERACTION_TRACE_IDX == 3

(* --- what a component asks of a row ---                                  *)
(* Lookup entries, constraints and batches of entries in pairs; values are *)
(* those of the mask, in QM31.                                             *)
LookupZ == FromM31Array(1, 2, 3, 4)
AlphaPowers == <<QM31One, FromM31Array(4, 3, 2, 1)>>
combine(simd, values) ==
  Minus(simd, FoldLeft(LAMBDA acc, k : Plus(simd, acc, Times(simd, AlphaPowers[k], values[k])),
                       QM31Zero, [k \in DOMAIN values |-> k]), LookupZ)
Entries(simd, kind, row) ==
  LET one == QM31One
      minus_one == QM31Neg(QM31One)
  IN  CASE kind = "plonk" ->
             <<[mult |-> one, values |-> <<row.preprocessed[1], row.trace[2]>>],
               [mult |-> one, values |-> <<row.preprocessed[2], row.trace[3]>>],
               [mult |-> Minus(simd, QM31Zero, row.trace[1]), values |-> <<row.preprocessed[3], row.trace[4]>>]>>
        [] kind = "step_x" ->
             <<[mult |-> one, values |-> row.trace],
               [mult |-> minus_one, values |-> <<Plus(simd, row.trace[1], one), row.trace[2]>>]>>
        [] kind = "step_y" ->
             <<[mult |-> one, values |-> row.trace],
               [mult |-> minus_one, values |-> <<row.trace[1], Plus(simd, row.trace[2], one)>>]>>
        [] OTHER -> <<>>
Gate(simd, row) ==
  LET op == row.preprocessed[4]
      a == row.trace[2]
      b == row.trace[3]
  IN  Plus(simd, Minus(simd, row.trace[4], Times(simd, op, Plus(simd, a, b))),
           Times(simd, Times(simd, Minus(simd, QM31One, op), a), b))
TimesItself(simd, v) == Times(simd, v, v)
Fibonacci(simd, row) ==
  [k \in 1 .. Len(row.trace) - 2 |->
     Minus(simd, row.trace[k + 2], Plus(simd, TimesItself(simd, row.trace[k]), TimesItself(simd, row.trace[k + 1])))]
TraceColumns(kind) == IF kind \in {"plonk", "fibonacci"} THEN 4 ELSE 2
NumEntries(kind) == CASE kind = "plonk" -> 3 [] kind = "fibonacci" -> 0 [] OTHER -> 2
NumBatches(kind) == (NumEntries(kind) + 1) \div 2
FractionSum(simd, fractions) ==
  FoldLeft(LAMBDA f, g : <<Plus(simd, Times(simd, g[2], f[1]), Times(simd, f[2], g[1])), Times(simd, f[2], g[2])>>,
           <<QM31Zero, QM31One>>, fractions)
BatchFraction(simd, entries, b) ==
  LET own == SubSeq(entries, 2 * b - 1, MinLane(2 * b, Len(entries)))
  IN  FractionSum(simd, [k \in DOMAIN own |-> <<own[k].mult, combine(simd, own[k].values)>>])
CumsumShift(claimed_sum, log) == QM31Scale(claimed_sum, M31Inverse((2 ^ log) % P))
(* finalize_logup_batched: a cumulative sum for every batch but the last,  *)
(* which adds the one of the previous row and the share of every row.      *)
finalize_logup_batched(simd, component, row, claimed_sum) ==
  LET entries == Entries(simd, component.kind, row)
      batches == NumBatches(component.kind)
      OverColumns(b) == IF b = 1 THEN row.cumsum[1] ELSE Minus(simd, row.cumsum[b], row.cumsum[b - 1])
      OverRows(diff) == Plus(simd, Minus(simd, diff, row.previous), CumsumShift(claimed_sum, component.log))
      Constraint(diff, fraction) == Minus(simd, Times(simd, diff, fraction[2]), fraction[1])
  IN  [b \in 1 .. batches |->
         Constraint(IF b < batches THEN OverColumns(b) ELSE OverRows(OverColumns(b)), BatchFraction(simd, entries, b))]
Constraints(simd, component, row, claimed_sum) ==
  (CASE component.kind = "plonk" -> <<Gate(simd, row)>>
     [] component.kind = "fibonacci" -> Fibonacci(simd, row)
     [] OTHER -> <<>>) \o finalize_logup_batched(simd, component, row, claimed_sum)

(* InfoEvaluator: the offsets of every column a component reads.           *)
mask_offsets(kind) ==
  LET batches == NumBatches(kind)
      sums == [c \in 1 .. 4 * batches |-> IF c > 4 * (batches - 1) THEN <<-1, 0>> ELSE <<0>>]
      base == <<<<>>, [c \in 1 .. TraceColumns(kind) |-> <<0>>]>>
  IN  IF batches = 0 THEN base ELSE Append(base, sums)
n_constraints(kind) == CASE kind = "plonk" -> 3 [] kind = "fibonacci" -> 2 [] OTHER -> 1
preprocessed_columns(kind) == IF kind = "plonk" THEN WireColumns ELSE <<>>
max_constraint_log_degree_bound(component) ==
  IF component.disabled THEN MIN_CIRCLE_DOMAIN_LOG_SIZE ELSE component.log + 1
trace_log_size(component) ==
  IF component.disabled THEN MIN_CIRCLE_DOMAIN_LOG_SIZE ELSE component.log
composition_log_degree_bound(components) ==
  CHOOSE bound \in {max_constraint_log_degree_bound(components[k]) : k \in DOMAIN components} :
    \A k \in DOMAIN components : max_constraint_log_degree_bound(components[k]) <= bound

(* --- TraceLocationAllocator ---                                          *)
(* Dynamic: preprocessed columns get places as they are first asked for;   *)
(* static: from a list, and asking for any other panics.                   *)
ExtraColumn == "unused"
DynamicOrder(components) ==
  FoldLeft(LAMBDA seen, name : IF name \in ToSet(seen) THEN seen ELSE Append(seen, name), <<>>,
           FlattenSeq([k \in DOMAIN components |-> preprocessed_columns(components[k].kind)]))
StaticOrder(components) == <<ExtraColumn>> \o Reverse(DynamicOrder(components))
Allocator(order, components) ==
  [offsets |-> <<>>,
   columns |-> CASE order = "static" -> StaticOrder(components)
                 [] order = "missing" -> Tail(DynamicOrder(components))
                 [] OTHER -> <<>>,
   dynamic |-> order \notin {"static", "missing"}]
next_for_structure(offsets, structure) ==
  LET n == IF Len(structure) > Len(offsets) THEN Len(structure) ELSE Len(offsets)
      padded == [t \in 1 .. n |-> IF t <= Len(offsets) THEN offsets[t] ELSE 0]
      Cols(t) == IF t <= Len(structure) THEN Len(structure[t]) ELSE 0
  IN  [spans |-> [t \in DOMAIN structure |-> [start |-> padded[t], end |-> padded[t] + Cols(t)]],
       offsets |-> [t \in 1 .. n |-> padded[t] + Cols(t)]]
(* FrameworkComponent::new: claimed sum and the places of its columns.     *)
NewComponent(allocator, component, claimed_sum) ==
  LET structure == mask_offsets(component.kind)
      spans == next_for_structure(allocator.offsets, structure)
      wanted == preprocessed_columns(component.kind)
      unknown == SelectSeq(wanted, LAMBDA name : name \notin ToSet(allocator.columns))
      columns == IF allocator.dynamic THEN allocator.columns \o unknown ELSE allocator.columns
      Place(name) == CHOOSE i \in DOMAIN columns : columns[i] = name
  IN  [panics |-> ~allocator.dynamic /\ unknown # <<>>,
       allocator |-> [allocator EXCEPT !.offsets = spans.offsets, !.columns = columns],
       component |-> [eval |-> component, spans |-> spans.spans, claimed_sum |-> claimed_sum,
                      preprocessed |-> IF ~allocator.dynamic /\ unknown # <<>> THEN <<>>
                                       ELSE [k \in DOMAIN wanted |-> Place(wanted[k])]]]
(* sub_tree and the preprocessed columns of a component.                   *)
InTree(trees, component) ==
  \A t \in DOMAIN component.spans : t \in DOMAIN trees /\ component.spans[t].end <= Len(trees[t])
ComponentColumns(trees, component) ==
  [t \in DOMAIN component.spans |->
     IF t = PREPROCESSED_TRACE_IDX THEN [k \in DOMAIN component.preprocessed |-> trees[t][component.preprocessed[k]]]
     ELSE SubSeq(trees[t], component.spans[t].start + 1, component.spans[t].end)]

(* --- witnesses ---                                                       *)
Column2(log) == Vector(2 ^ log)
(* A machine's row i is its state after i steps, in the order of a coset.  *)
machine_trace(log, initial, inc_index) ==
  [j \in 1 .. 2 |->
     Tabulated([at \in Column2(log) |->
       LET i == CHOOSE i \in Column2(log) :
                  bit_reverse_index(coset_index_to_circle_domain_index(i, log), log) = at
       IN  IF j = inc_index THEN M31Add(initial[j], i) ELSE initial[j]])]
(* A circuit that adds two wires into the next; the last two sums are used *)
(* less often than twice.                                                  *)
plonk_circuit(log, first) ==
  LET n == 2 ^ log
      fib[i \in Vector(n + 2)] == IF i < 2 THEN first ELSE M31Add(fib[i - 1], fib[i - 2])
  IN  [preprocessed |-> [wire_a |-> Tabulated([i \in Vector(n) |-> i]), wire_b |-> Tabulated([i \in Vector(n) |-> i + 1]),
                         wire_c |-> Tabulated([i \in Vector(n) |-> i + 2]), op |-> Tabulated([i \in Vector(n) |-> 1])],
       trace |-> <<Tabulated([i \in Vector(n) |-> IF i = n - 1 THEN 0 ELSE IF i = n - 2 THEN 1 ELSE 2]),
                   Tabulated([i \in Vector(n) |-> fib[i]]), Tabulated([i \in Vector(n) |-> fib[i + 1]]),
                   Tabulated([i \in Vector(n) |-> fib[i + 2]])>>]
wide_fibonacci_trace(log) ==
  LET columns[c \in 1 .. 4] ==
        Tabulated([i \in Column2(log) |->
          CASE c = 1 -> 1 [] c = 2 -> i
            [] OTHER -> M31Add(M31Mul(columns[c - 2][i], columns[c - 2][i]), M31Mul(columns[c - 1][i], columns[c - 1][i]))])
  IN  <<columns[1], columns[2], columns[3], columns[4]>>
TraceOf(air, k) ==
  LET component == Airs[air][k]
      zeros == Tabulated([i \in Column2(MIN_CIRCLE_DOMAIN_LOG_SIZE) |-> 0])
  IN  CASE component.disabled -> [c \in 1 .. TraceColumns(component.kind) |-> zeros]
        [] ~component.disabled /\ component.kind = "plonk" -> plonk_circuit(component.log, k).trace
        [] ~component.disabled /\ component.kind = "fibonacci" -> wide_fibonacci_trace(component.log)
        [] ~component.disabled /\ component.kind = "step_x" -> machine_trace(component.log, <<3, 0>>, 1)
        [] OTHER -> machine_trace(component.log, <<3 + 2 ^ 4, 0>>, 2)
Witness ==
  Tabulated([air \in DOMAIN Airs |-> [k \in DOMAIN Airs[air] |-> TraceOf(air, k)]])
(* A wrong witness: one cell is not what the interaction was made from.    *)
Flipped(traces) == [traces EXCEPT ![1][Len(traces[1])][1] = M31Add(@, 1)]
PreprocessedColumn(air, name) ==
  LET k == CHOOSE k \in DOMAIN Airs[air] : Airs[air][k].kind = "plonk"
  IN  IF name = ExtraColumn THEN Tabulated([i \in Column2(2) |-> i])
      ELSE plonk_circuit(Airs[air][k].log, 1).preprocessed[name]
WitnessRow(air, k, i) ==
  LET wanted == preprocessed_columns(Airs[air][k].kind)
      own == Witness[air][k]
  IN  [preprocessed |-> [c \in DOMAIN wanted |-> FromM31(PreprocessedColumn(air, wanted[c])[i])],
       trace |-> [c \in DOMAIN own |-> FromM31(own[c][i])]]

(* --- LogupTraceGenerator ---                                             *)
(* The fractions an example writes for a row, a column of them per batch.  *)
FractionsOf(kind, values, mults) ==
  CASE kind = "plonk" ->
         <<<<LaneQM31Add(values[1], values[2]), LaneQM31Mul(values[1], values[2])>>, <<mults[3], values[3]>>>>
    [] kind \in {"step_x", "step_y"} ->
         <<<<LaneQM31Sub(values[2], values[1]), LaneQM31Mul(values[1], values[2])>>>>
    [] OTHER -> <<>>
interaction_fractions(kind, row) ==
  LET entries == Entries(TRUE, kind, row)
  IN  FractionsOf(kind, [e \in DOMAIN entries |-> combine(TRUE, entries[e].values)], [e \in DOMAIN entries |-> entries[e].mult])
(* Mutant: a column holds its own fraction alone. *)
LogupColumnAlone(fractions, b) ==
  Tabulated([i \in DOMAIN fractions |-> LaneQM31Mul(fractions[i][b][1], LaneQM31Inverse(fractions[i][b][2]))])
(* finalize_col: a column holds its fraction and the columns before it.    *)
LogupColumn(fractions, b) ==
  Tabulated([i \in DOMAIN fractions |->
    FoldLeft(LAMBDA sum, f : LaneQM31Add(LaneQM31Mul(f[1], LaneQM31Inverse(f[2])), sum),
             QM31Zero, SubSeq(fractions[i], 1, b))])
LaneSum(values) == FoldSet(LAMBDA i, sum : LaneAdd(sum, values[i]), 0, DOMAIN values)
CoordinatesOf(column) ==
  [c \in 1 .. 4 |-> Tabulated([i \in DOMAIN column |-> SecureCoordinate(column[i], c - 1)])]
Shifted(column, a) == Tabulated([i \in DOMAIN column |-> LaneSub(column[i], a)])
PrefixSums(coordinates, claimed_sum, shift) ==
  [claimed_sum |-> claimed_sum,
   columns |-> [c \in 1 .. 4 |-> inclusive_prefix_sum(Shifted(coordinates[c], SecureCoordinate(shift, c - 1)))]]
SumsOf(coordinates) ==
  LET sums == [c \in 1 .. 4 |-> LaneReduce(LaneSum(coordinates[c]))] IN FromM31Array(sums[1], sums[2], sums[3], sums[4])
ShiftedSums(coordinates, claimed_sum, log) == PrefixSums(coordinates, claimed_sum, CumsumShift(claimed_sum, log))
FinalizeCoordinates(coordinates, log) == ShiftedSums(coordinates, SumsOf(coordinates), log)
finalize_last(column, log) == FinalizeCoordinates(CoordinatesOf(column), log)
InteractionOf(fractions, batches, log) ==
  LET logup == Tabulated([b \in 1 .. batches |-> LogupColumn(fractions, b)])
  IN  [finalize_last(logup[batches], log) EXCEPT
         !.columns = FlattenSeq([b \in 1 .. batches - 1 |-> CoordinatesOf(logup[b])]) \o @]
gen_interaction_trace(air, k) ==
  LET component == Airs[air][k]
      batches == NumBatches(component.kind)
      zeros == Tabulated([i \in Column2(MIN_CIRCLE_DOMAIN_LOG_SIZE) |-> 0])
  IN  CASE batches = 0 -> [claimed_sum |-> QM31Zero, columns |-> <<>>]
        [] batches > 0 /\ component.disabled -> [claimed_sum |-> QM31Zero, columns |-> [c \in 1 .. 4 * batches |-> zeros]]
        [] OTHER -> InteractionOf(Tabulated([i \in Column2(component.log) |->
                                    interaction_fractions(component.kind, WitnessRow(air, k, i))]), batches, component.log)

(* --- committed columns ---                                               *)
Commit(column, blowup) ==
  LET log == Log2(Size(column))
      coeffs == Tabulated(interpolate(CanonicHalfCoset(log), [i \in DOMAIN column |-> LaneReduce(column[i])], CpuTree))
  IN  [coeffs |-> coeffs, evals |-> Tabulated(evaluate(CanonicHalfCoset(log + blowup), coeffs, CpuTree))]
CommitTree(columns, blowup) == [c \in DOMAIN columns |-> Commit(columns[c], blowup)]
CommittedNames(job) ==
  CASE job.order = "static" -> StaticOrder(Airs[job.air])
    [] job.order = "mismatch" -> Reverse(DynamicOrder(Airs[job.air]))
    [] OTHER -> DynamicOrder(Airs[job.air])

(* --- evaluation domains ---                                              *)
(* The expansion all components have in common; without one, columns are   *)
(* extended to a canonic domain.                                           *)
ExtendToEvalDomain == -1
infer(components, blowup) ==
  LET degrees == {max_constraint_log_degree_bound(components[k]) - trace_log_size(components[k]) : k \in DOMAIN components}
  IN  IF Cardinality(degrees) = 1 /\ \A degree \in degrees : degree <= blowup
      THEN blowup - (CHOOSE degree \in degrees : TRUE) ELSE ExtendToEvalDomain
EvalHalf(bound, mode) ==
  IF mode = ExtendToEvalDomain THEN CanonicHalfCoset(bound)
  ELSE Coset(CanonicHalfCoset(bound + mode).initial, bound - 1)
get_trace_columns(columns, bound, mode) ==
  IF mode # ExtendToEvalDomain THEN [c \in DOMAIN columns |-> columns[c].evals]
  ELSE LET half == CanonicHalfCoset(bound)
           twiddles == precompute_twiddles(half)
       IN  [c \in DOMAIN columns |-> Tabulated(evaluate(half, columns[c].coeffs, twiddles))]
DenominatorInverses(half, log) ==
  LET log_expand == half.log + 1 - log
  IN  bit_reverse(Tabulated([i \in Vector(2 ^ log_expand) |->
        QM31Inverse(CosetVanishing(Odds(log), IntoEf(ToPoint(CircleIndexAt(half, i)))))]))
SecurePowers(simd, felt, n) ==
  LET scalar[k \in 0 .. n] == IF k = 0 THEN QM31One ELSE QM31Mul(scalar[k - 1], felt)
      packed == generate_secure_powers(felt, n)
  IN  [k \in 1 .. n |-> IF simd THEN packed[k - 1] ELSE scalar[k - 1]]

(* CpuDomainEvaluator and SimdDomainEvaluator: the mask of a row, with the *)
(* previous row of the trace for the last batch.                           *)
DomainRow(component, columns, half, row) ==
  LET kind == component.eval.kind
      previous == offset_bit_reversed_circle_domain_index(row, component.eval.log, half.log + 1, -1)
      Base(tree) == [c \in DOMAIN columns[tree] |-> FromM31(columns[tree][c][row])]
      Cumsum(b, i) == LET At(c) == columns[INTERACTION_TRACE_IDX][4 * b - 4 + c][i]
                      IN  FromM31Array(At(1), At(2), At(3), At(4))
      batches == NumBatches(kind)
  IN  [preprocessed |-> Base(PREPROCESSED_TRACE_IDX), trace |-> Base(ORIGINAL_TRACE_IDX),
       cumsum |-> [b \in 1 .. batches |-> Cumsum(b, row)],
       previous |-> IF batches = 0 THEN QM31Zero ELSE Cumsum(batches, previous)]
Weighted(simd, powers, constraints) ==
  FoldLeft(LAMBDA sum, c : Plus(simd, sum, Times(simd, powers[c], constraints[c])),
           QM31Zero, [c \in DOMAIN constraints |-> c])
(* Mutant: the first constraint takes the first power. *)
RowQuotientForward(simd, component, row, powers, denominator_inverse) ==
  Times(simd, Weighted(simd, Reverse(powers), Constraints(simd, component.eval, row, component.claimed_sum)), denominator_inverse)
RowQuotient(simd, component, row, powers, denominator_inverse) ==
  Times(simd, Weighted(simd, powers, Constraints(simd, component.eval, row, component.claimed_sum)), denominator_inverse)
(* evaluate_constraint_quotients_on_domain adds to the column of its size. *)
Accumulated(simd, accumulated, bound, column) ==
  IF bound \notin DOMAIN accumulated THEN column
  ELSE Tabulated([row \in DOMAIN column |-> Plus(simd, accumulated[bound][row], column[row])])
evaluate_on_domain(job, component, columns, mode, powers, accumulated) ==
  LET bound == max_constraint_log_degree_bound(component.eval)
      log == component.eval.log
      half == EvalHalf(bound, mode)
      inverses_by_part == DenominatorInverses(half, log)
      trace == [t \in DOMAIN columns |-> get_trace_columns(columns[t], bound, mode)]
      rows == Tabulated([row \in Vector(2 ^ bound) |-> DomainRow(component, trace, half, row)])
      simd == job.simd /\ log >= LogLanes + 1
      Quotients(all) ==
        Tabulated([row \in DOMAIN all |-> RowQuotient(simd, component, all[row], powers, inverses_by_part[row \div 2 ^ log])])
  IN  Accumulated(simd, accumulated, bound, Quotients(rows))

(* --- out of domain ---                                                   *)
(* Masks follow the list of components, places follow the allocation.      *)
TraceMasks(components) ==
  LET Masks(t) == FlattenSeq([k \in DOMAIN components |->
                    LET masks == mask_offsets(components[k].eval.kind)
                    IN  IF t \in DOMAIN masks THEN masks[t] ELSE <<>>])
  IN  [t \in ORIGINAL_TRACE_IDX .. INTERACTION_TRACE_IDX |-> Masks(t)]
PreviousRow(point, max) == SecurePointSub(point, IntoEf(CanonicStep(max)))
PointsOf(masks, used, n_preprocessed, point, previous) ==
  <<[c \in 1 .. n_preprocessed |-> IF c \in used THEN <<point>> ELSE <<>>]>>
    \o [t \in 1 .. 2 |-> [c \in DOMAIN masks[t + 1] |->
          [j \in DOMAIN masks[t + 1][c] |-> IF masks[t + 1][c][j] = 0 THEN point ELSE previous]]]
    \o <<[c \in 1 .. 8 |-> <<point>>]>>
mask_points(components, n_preprocessed, max, include_all) ==
  PointsOf(TraceMasks(components),
           IF include_all THEN 1 .. n_preprocessed
           ELSE UNION {ToSet(components[k].preprocessed) : k \in DOMAIN components},
           n_preprocessed, OodsPoint, PreviousRow(OodsPoint, max))
sample_column(coeffs, points, max) ==
  [j \in DOMAIN points |-> EvalAtPoint(coeffs, SecureDouble(points[j], max - Log2(Size(coeffs))))]
(* The row of a component from the sampled values.                         *)
ShapeAgrees(component, columns) ==
  LET masks == mask_offsets(component.eval.kind)
  IN  /\ \A c \in DOMAIN columns[PREPROCESSED_TRACE_IDX] : Len(columns[PREPROCESSED_TRACE_IDX][c]) = 1
      /\ \A t \in ORIGINAL_TRACE_IDX .. Len(masks) :
           \A c \in DOMAIN masks[t] : Len(columns[t][c]) = Len(masks[t][c])
PointRow(component, columns) ==
  LET batches == NumBatches(component.eval.kind)
      First(t) == [c \in DOMAIN columns[t] |-> columns[t][c][1]]
      Cumsum(b, j) == FromPartialEvals([c \in 1 .. 4 |-> columns[INTERACTION_TRACE_IDX][4 * b - 4 + c][j]])
  IN  [preprocessed |-> First(PREPROCESSED_TRACE_IDX), trace |-> First(ORIGINAL_TRACE_IDX),
       cumsum |-> [b \in 1 .. batches |-> Cumsum(b, IF b = batches THEN 2 ELSE 1)],
       previous |-> IF batches = 0 THEN QM31Zero ELSE Cumsum(batches, 1)]
(* evaluate_constraint_quotients_at_point for every listed component.      *)
Readable(components, samples) ==
  \A k \in DOMAIN components :
    components[k].eval.disabled \/
      (InTree(samples, components[k]) /\ ShapeAgrees(components[k], ComponentColumns(samples, components[k])))
ScaledBy(factor, values) == [c \in DOMAIN values |-> QM31Mul(factor, values[c])]
ValuesAtPoint(component, columns, denom_inverse) ==
  IF component.eval.disabled THEN [c \in 1 .. n_constraints(component.eval.kind) |-> QM31Zero]
  ELSE ScaledBy(denom_inverse, Constraints(FALSE, component.eval, PointRow(component, columns), component.claimed_sum))
eval_composition_polynomial_at_point(components, samples, max) ==
  LET denom_inverse == QM31Inverse(CosetVanishing(Odds(max), OodsPoint))
  IN  FoldLeft(LAMBDA acc, value : QM31Add(QM31Mul(acc, RandomCoeff), value), QM31Zero,
               FlattenSeq([k \in DOMAIN components |->
                 ValuesAtPoint(components[k], ComponentColumns(samples, components[k]), denom_inverse)]))
extract_composition_oods_eval(samples, max) ==
  LET composition == samples[Len(samples)]
      Half(first) == FromPartialEvals([c \in 1 .. 4 |-> composition[first + c][1]])
  IN  QM31Add(Half(0), QM31Mul(SecureDouble(OodsPoint, max - 1).x, Half(4)))

-----------------------------------------------------------------------------
(* Bounds: every AIR on both backends, at two blowups and with a lifting   *)
(* size one above the least; other orders and witnesses once per AIR.      *)
PlainRequests ==
  [air : DOMAIN Airs, simd : BOOLEAN, blowup : {1, 2}, lifting : {0, 1}, include_all : {FALSE},
   order : {"dynamic"}, listing : {"allocated"}, witness : {"right"}]
SimdRequests(airs, orders, listings, witnesses, all) ==
  [air : airs, simd : {TRUE}, blowup : {1}, lifting : {0}, include_all : all,
   order : orders, listing : listings, witness : witnesses]
WithPreprocessed == {air \in DOMAIN Airs : DynamicOrder(Airs[air]) # <<>>}
AirRequests ==
  {r \in PlainRequests : r.blowup + r.lifting <= 2}
    \union SimdRequests(WithPreprocessed, {"static", "mismatch", "missing"}, {"allocated"}, {"right"}, BOOLEAN)
    \union SimdRequests({air \in DOMAIN Airs : Len(Airs[air]) > 1}, {"dynamic"}, {"reversed"}, {"right"}, {FALSE})
    \union SimdRequests(DOMAIN Airs, {"dynamic"}, {"allocated"}, {"wrong"}, {FALSE})
NoAir == [air |-> "none"]
NoProver == [step |-> "idle", next |-> 1, interaction |-> <<>>, trees |-> <<>>, allocator |-> <<>>,
             components |-> <<>>, powers |-> <<>>, sums |-> <<>>, composition |-> <<>>, samples |-> <<>>, outcome |-> "none"]
NoVerifier == [change |-> "none", outcome |-> "none"]

AirComponents == Airs[air_job.air]
Listed(components) == IF air_job.listing = "reversed" THEN Reverse(components) ELSE components
CompositionLog == composition_log_degree_bound(AirComponents)
MaxBound == CompositionLog - 1 + air_job.lifting
Mode == infer(AirComponents, air_job.blowup)

AirIdle == air_job = NoAir /\ air_prover = NoProver /\ air_verifier = NoVerifier
AirInit ==
  /\ air_job \in AirRequests
  /\ air_prover = [NoProver EXCEPT !.step = "interaction"]
  /\ air_verifier = NoVerifier

GenerateInteraction ==
  /\ air_prover.step = "interaction" /\ air_prover.next <= Len(AirComponents)
  /\ air_prover' = [air_prover EXCEPT
       !.interaction = Append(@, gen_interaction_trace(air_job.air, air_prover.next)), !.next = @ + 1]
  /\ UNCHANGED <<air_job, air_verifier>>
CommitTrace ==
  LET traces == IF air_job.witness = "wrong" THEN Flipped(Witness[air_job.air]) ELSE Witness[air_job.air]
      names == CommittedNames(air_job)
      interaction == air_prover.interaction
      Tree(columns) == CommitTree(columns, air_job.blowup)
  IN  /\ air_prover.step = "interaction" /\ air_prover.next > Len(AirComponents)
      /\ air_prover' = [air_prover EXCEPT
           !.trees = <<Tree([c \in DOMAIN names |-> PreprocessedColumn(air_job.air, names[c])]), Tree(FlattenSeq(traces)),
                       Tree(FlattenSeq([k \in DOMAIN interaction |-> interaction[k].columns]))>>,
           !.allocator = Allocator(air_job.order, AirComponents), !.step = "allocate", !.next = 1]
      /\ UNCHANGED <<air_job, air_verifier>>
(* Each new component takes its places; then the powers are drawn.         *)
AllocateComponent ==
  LET k == air_prover.next
      made == NewComponent(air_prover.allocator, AirComponents[k], air_prover.interaction[k].claimed_sum)
  IN  /\ air_prover.step = "allocate" /\ k <= Len(AirComponents)
      /\ air_prover' = IF made.panics THEN [air_prover EXCEPT !.step = "done", !.outcome = "panic"]
                       ELSE [air_prover EXCEPT !.allocator = made.allocator, !.components = Append(@, made.component), !.next = @ + 1]
      /\ UNCHANGED <<air_job, air_verifier>>
StartComposition ==
  LET n == FoldLeft(LAMBDA sum, c : sum + n_constraints(c.kind), 0, AirComponents)
  IN  /\ air_prover.step = "allocate" /\ air_prover.next > Len(AirComponents)
      /\ air_prover' = [air_prover EXCEPT !.step = "evaluate", !.next = 1, !.powers = SecurePowers(air_job.simd, RandomCoeff, n)]
      /\ UNCHANGED <<air_job, air_verifier>>
(* The last of the powers left are the component's, its first constraint   *)
(* taking the last; a disabled component only drops its own.               *)
EvaluateComponent ==
  LET component == Listed(air_prover.components)[air_prover.next]
      left == Len(air_prover.powers) - n_constraints(component.eval.kind)
      own == Reverse(SubSeq(air_prover.powers, left + 1, Len(air_prover.powers)))
      bound == max_constraint_log_degree_bound(component.eval)
  IN  /\ air_prover.step = "evaluate" /\ air_prover.next <= Len(AirComponents)
      /\ air_prover' = [air_prover EXCEPT !.powers = SubSeq(@, 1, left), !.next = @ + 1,
           !.sums = IF component.eval.disabled THEN @
                    ELSE (bound :> evaluate_on_domain(air_job, component, ComponentColumns(air_prover.trees, component), Mode, own, @)) @@ @]
      /\ UNCHANGED <<air_job, air_verifier>>
(* finalize: the sums by size, lifted, interpolated and split.             *)
SumsBySize ==
  LET logs == SelectSeq([log \in 1 .. CompositionLog |-> log], LAMBDA log : log \in DOMAIN air_prover.sums)
  IN  [k \in DOMAIN logs |-> air_prover.sums[logs[k]]]
FinalizeComposition ==
  LET lifted == IF air_job.simd THEN simd_lift_and_accumulate(SumsBySize) ELSE cpu_lift_and_accumulate(SumsBySize)
      tree == IF Mode <= 0 THEN CpuTree
              ELSE [itwiddles |-> Tabulated(extract_subdomain_twiddles(CpuTree.itwiddles, CompositionLog + Mode, CompositionLog))]
      coeffs == Tabulated([c \in 0 .. 3 |->
                  Tabulated(interpolate(EvalHalf(CompositionLog, Mode), CoordinateOf(lifted, c), tree))])
      half == 2 ^ (CompositionLog - 1)
  IN  /\ air_prover.step = "evaluate" /\ air_prover.next > Len(AirComponents)
      /\ air_prover' = [air_prover EXCEPT !.step = "sample",
           !.composition = [c \in 1 .. 8 |-> Slice(coeffs[(c - 1) % 4], IF c <= 4 THEN 0 ELSE half, half)]]
      /\ UNCHANGED <<air_job, air_verifier>>
Sampling(points, polys, max) ==
  [t \in DOMAIN points |-> [c \in DOMAIN points[t] |-> sample_column(polys[t][c], points[t][c], max)]]
SampleOods ==
  LET polys == [t \in 1 .. 3 |-> [c \in DOMAIN air_prover.trees[t] |-> air_prover.trees[t][c].coeffs]]
                 \o <<air_prover.composition>>
  IN  /\ air_prover.step = "sample"
      /\ air_prover' = [air_prover EXCEPT !.step = "check",
           !.samples = Sampling(mask_points(Listed(air_prover.components), Len(air_prover.trees[1]), MaxBound, air_job.include_all),
                                polys, MaxBound)]
      /\ UNCHANGED <<air_job, air_verifier>>
(* The prover's own check of the values it opens.                          *)
OodsAgrees(components, samples, max) ==
  extract_composition_oods_eval(samples, max) = eval_composition_polynomial_at_point(components, samples, max)
CheckOods ==
  LET components == Listed(air_prover.components)
  IN  /\ air_prover.step = "check"
      /\ air_prover' = [air_prover EXCEPT !.step = "done",
           !.outcome = IF ~Readable(components, air_prover.samples) THEN "panic"
                       ELSE IF OodsAgrees(components, air_prover.samples, MaxBound) THEN "proved"
                       ELSE "ConstraintsNotSatisfied"]
      /\ UNCHANGED <<air_job, air_verifier>>

(* The verifier makes its own components from the statement.               *)
Claims(component) == NumBatches(component.kind) > 0 /\ ~component.disabled
VerifierComponents(change) ==
  LET n == Len(AirComponents)
      claimed == [k \in 1 .. n |-> IF change = "claim" /\ Claims(AirComponents[k])
                                   THEN QM31Add(air_prover.interaction[k].claimed_sum, QM31One)
                                   ELSE air_prover.interaction[k].claimed_sum]
      At(i) == IF change = "allocation" THEN n + 1 - i ELSE i
      made[i \in 0 .. n] ==
        IF i = 0 THEN [allocator |-> Allocator(air_job.order, AirComponents), components |-> <<>>]
        ELSE LET new == NewComponent(made[i - 1].allocator, AirComponents[At(i)], claimed[At(i)])
             IN  [allocator |-> new.allocator, components |-> (At(i) :> new.component) @@ made[i - 1].components]
      components == [k \in 1 .. n |-> made[n].components[k]]
  IN  IF change = "listing" THEN Reverse(Listed(components)) ELSE Listed(components)
StatementChanges ==
  {"none", "sample", "structure"}
    \union (IF Len(AirComponents) > 1 THEN {"allocation", "listing"} ELSE {})
    \union (IF \E k \in DOMAIN AirComponents : Claims(AirComponents[k]) THEN {"claim"} ELSE {})
Opened(change) ==
  CASE change = "sample" -> [air_prover.samples EXCEPT ![ORIGINAL_TRACE_IDX][1][1] = QM31Add(@, QM31One)]
    [] change = "structure" -> [air_prover.samples EXCEPT ![4][8] = Append(@, QM31Zero)]
    [] OTHER -> air_prover.samples
ShapeOf(trees) == [t \in DOMAIN trees |-> [c \in DOMAIN trees[t] |-> Len(trees[t][c])]]
Verification(components, samples, points) ==
  IF \E c \in 1 .. 8 : Len(samples[4][c]) # 1 THEN "InvalidStructure"
  ELSE IF ~Readable(components, samples) THEN "panic"
  ELSE IF ~OodsAgrees(components, samples, MaxBound) THEN "OodsNotMatching"
  ELSE IF ShapeOf(points) = ShapeOf(samples) THEN "accepted" ELSE "rejected"
verify_ex(change) ==
  LET components == VerifierComponents(change)
      points == mask_points(components, Len(air_prover.trees[1]), MaxBound, air_job.include_all)
  IN  /\ air_prover.outcome = "proved" /\ air_verifier = NoVerifier
      /\ air_verifier' = [change |-> change, outcome |-> Verification(components, Opened(change), points)]
      /\ UNCHANGED <<air_job, air_prover>>

AirNext ==
  \/ GenerateInteraction \/ CommitTrace \/ AllocateComponent \/ StartComposition \/ EvaluateComponent
  \/ FinalizeComposition \/ SampleOods \/ CheckOods
  \/ \E change \in StatementChanges : verify_ex(change)

(* PROPERTIES *)
HonestProver == air_job.witness = "right" /\ air_job.order \in {"dynamic", "static"}
MasksInOrder == TraceMasks(Listed(air_prover.components)) = TraceMasks(air_prover.components)
(* The combined polynomial the prover commits, from evaluations of parts   *)
(* of domains, lifts and powers handed out from the end, is the one the    *)
(* verifier combines from samples: an honest proof passes the prover's own *)
(* check and the verifier's, on both backends and at any lifting size, and *)
(* a wrong witness, statement or place of a column does not.               *)
CompositionAgrees ==
  /\ air_prover.step = "done" =>
       air_prover.outcome = (IF air_job.order = "missing" \/ ~MasksInOrder THEN "panic"
                             ELSE IF HonestProver THEN "proved" ELSE "ConstraintsNotSatisfied")
  /\ air_verifier.outcome # "none" => (air_verifier.outcome = "accepted" <=> air_verifier.change = "none")

(* RelationSummary: the uses and yields of every tuple, without trailing   *)
(* zeros; tuples that cancel are dropped.                                  *)
RelationOf(kind) == IF kind = "plonk" THEN "plonk" ELSE "machine"
TrimTrailingZeros(values) ==
  LET kept == {n \in 0 .. Len(values) : \A j \in n + 1 .. Len(values) : values[j] = QM31Zero}
  IN  SubSeq(values, 1, CHOOSE n \in kept : \A other \in kept : n <= other)
relation_entries(air, k) ==
  FlattenSeq([row \in 1 .. 2 ^ Airs[air][k].log |->
    LET entries == Entries(FALSE, Airs[air][k].kind, WitnessRow(air, k, row - 1))
    IN  [e \in DOMAIN entries |-> [mult |-> FromM31(SecureCoordinate(entries[e].mult, 0)), values |-> TrimTrailingZeros(entries[e].values)]]])
summarize_relations(entries) ==
  FoldLeft(LAMBDA sums, entry :
             [sums EXCEPT ![entry.values] = QM31Add(@, entry.mult)],
           Tabulated([values \in {entries[e].values : e \in DOMAIN entries} |-> QM31Zero]), entries)
cleaned(summary) == [values \in {v \in DOMAIN summary : summary[v] # QM31Zero} |-> summary[values]]
(* The claimed sums of the components of a relation are what is left of it *)
(* when the tuples that one component yields and another uses cancel.      *)
LogupBalances ==
  (air_prover.step = "interaction" /\ air_prover.next > Len(AirComponents)) =>
    \A relation \in {"plonk", "machine"} :
      LET own == {k \in DOMAIN AirComponents : RelationOf(AirComponents[k].kind) = relation /\ ~AirComponents[k].disabled}
          entries == FlattenSeq([k \in DOMAIN AirComponents |-> IF k \in own THEN relation_entries(air_job.air, k) ELSE <<>>])
          left == cleaned(summarize_relations(entries))
      IN  FoldSet(LAMBDA k, sum : QM31Add(sum, air_prover.interaction[k].claimed_sum), QM31Zero, own)
            = FoldSet(LAMBDA values, sum : QM31Add(sum, QM31Mul(left[values], QM31Inverse(combine(FALSE, values)))),
                      QM31Zero, DOMAIN left)
=============================================================================
