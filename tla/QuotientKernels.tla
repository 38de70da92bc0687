--------------------------- MODULE QuotientKernels ---------------------------
(***************************************************************************)
(* The quotients that FRI folds: numerators accumulated per column size    *)
(* and sample point, sums of their lifts, a division per point of the      *)
(* subdomain and an extension to the domain; in low memory mode from small *)
(* batches of columns and coordinate by coordinate.  Columns are honest:   *)
(* evaluations of low degree and their values at the sampled points.       *)
(***************************************************************************)
EXTENDS ColumnKernels, LaneLifting, SequencesExt

CONSTANTS QuotientBatch, \* LOW_MEMORY_QUOTIENT_BATCH_SIZE, 8 in the code
          CombineChunk   \* COMBINE_CHUNK_SIZE, 16 in the code

VARIABLES quotient_job, numerators, quotients, combining
quotient_vars == <<quotient_job, numerators, quotients, combining>>

LogBlowup == 1
RandomCoeff == <<<<5, 1>>, <<2, 9>>>>
OodsPoint == PointFromFelt(<<<<3, 5>>, <<7, 11>>>>)
SecureDouble(p, n) ==
  LET doubled[k \in 0 .. n] == IF k = 0 THEN p ELSE SecurePointAdd(doubled[k - 1], doubled[k - 1])
  IN  doubled[n]
CanonicStep(log) == ToPoint(subgroup_gen(log))

(* --- requests ---                                                        *)
(* Bounds: the columns of each tree by log size and number of samples.     *)
Layouts ==
  [two_trees |-> <<<<<<4, 1>>, <<5, 2>>>>, <<<<5, 1>>, <<4, 0>>, <<4, 1>>>>>>,
   batches   |-> <<<<<<4, 1>>, <<4, 2>>, <<4, 1>>, <<4, 1>>, <<4, 1>>>>>>,
   tiny      |-> <<<<<<2, 1>>, <<2, 2>>>>>>,
   short     |-> <<<<<<2, 2>>, <<4, 1>>>>>>]
Liftings == [two_trees |-> 6, batches |-> 4, tiny |-> 2, short |-> 5]
ColumnsIn(name) ==
  FlattenSeq([t \in DOMAIN Layouts[name] |->
    [c \in DOMAIN Layouts[name][t] |->
       [tree |-> t, log |-> Layouts[name][t][c][1], samples |-> Layouts[name][t][c][2]]]])
CoefficientsOf(log, index) == Tabulated([i \in Vector(2 ^ (log - LogBlowup)) |-> (17 * index + i * i + 3 * i + 1) % P])
Sampled(column, index, lifting, point) ==
  [point |-> point,
   value |-> EvalAtPoint(CoefficientsOf(column.log, index), SecureDouble(point, lifting - column.log))]
SamplesOf(column, index, lifting) ==
  LET previous == SecurePointSub(OodsPoint, IntoEf(CanonicStep(lifting - LogBlowup)))
  IN  CASE column.samples = 0 -> <<>>
        [] column.samples = 1 -> <<Sampled(column, index, lifting, OodsPoint)>>
        [] column.samples = 2 -> <<Sampled(column, index, lifting, previous), Sampled(column, index, lifting, OodsPoint)>>
QuotientInput ==
  Tabulated([name \in DOMAIN Layouts |->
    LET columns == ColumnsIn(name)
    IN  [lifting |-> Liftings[name], columns |-> columns,
         samples |-> [i \in DOMAIN columns |-> SamplesOf(columns[i], i, Liftings[name])],
         evals |-> [i \in DOMAIN columns |->
                      evaluate(CanonicHalfCoset(columns[i].log), CoefficientsOf(columns[i].log, i), CpuTree)]]])

(* --- core/pcs/quotients.rs ---                                           *)
(* A column with a previous sample gets one more, a period away, first.    *)
PeriodSample(sample, period) == [sample EXCEPT !.point = SecurePointAdd(@, IntoEf(period))]
PeriodicSamples(samples, log, lifting) ==
  IF Len(samples) # 2 THEN samples
  ELSE <<PeriodSample(samples[2], PointRepeatedDouble(CanonicStep(lifting), log))>> \o samples
WithRandomness(samples) ==
  LET before[i \in 1 .. Len(samples) + 1] == IF i = 1 THEN 0 ELSE before[i - 1] + Len(samples[i - 1])
      power[k \in Nat] == IF k = 0 THEN QM31One ELSE QM31Mul(power[k - 1], RandomCoeff)
  IN  [i \in DOMAIN samples |->
         [j \in DOMAIN samples[i] |-> [column |-> i, sample |-> samples[i][j], power |-> power[before[i] + j - 1]]]]
build_samples_with_randomness_and_periodicity(input) ==
  WithRandomness([i \in DOMAIN input.columns |-> PeriodicSamples(input.samples[i], input.columns[i].log, input.lifting)])
SamplesWithPowers == Tabulated([name \in DOMAIN Layouts |-> build_samples_with_randomness_and_periodicity(QuotientInput[name])])

(* Samples by point, points in the order they are first met.               *)
Distinct(points) ==
  FoldLeft(LAMBDA seen, point : IF point \in ToSet(seen) THEN seen ELSE Append(seen, point), <<>>, points)
BatchAt(point, own) ==
  [point |-> point,
   terms |-> [k \in DOMAIN own |->
                [column |-> own[k].column, coeffs |-> ComplexConjugateLineCoeffs(own[k].sample, own[k].power)]]]
InPointBatches(all) ==
  LET points == Distinct([k \in DOMAIN all |-> all[k].sample.point])
  IN  [b \in DOMAIN points |-> BatchAt(points[b], SelectSeq(all, LAMBDA s : s.sample.point = points[b]))]
ColumnSampleBatches(samples) == InPointBatches(FlattenSeq(samples))
SumOf(elements) == FoldLeft(QM31Add, QM31Zero, elements)
LinearTerm(batch) == SumOf([k \in DOMAIN batch.terms |-> batch.terms[k].coeffs[1]])
accumulate_row_partial_numerators(batch, values) ==
  SumOf([k \in DOMAIN batch.terms |->
           LET term == batch.terms[k] IN QM31Sub(QM31Scale(term.coeffs[3], values[term.column]), term.coeffs[2])])
Denominator(sample, p) ==
  CM31Sub(CM31Mul(CM31Sub(sample.x[1], <<p.x, 0>>), sample.y[2]),
          CM31Mul(CM31Sub(sample.y[1], <<p.y, 0>>), sample.x[2]))
accumulate_row_quotients(batches, values, p) ==
  SumOf([b \in DOMAIN batches |->
    LET batch == batches[b]
        Term(k) == LET coeffs == batch.terms[k].coeffs
                   IN  QM31Sub(QM31Scale(coeffs[3], values[batch.terms[k].column]),
                               QM31Add(QM31Scale(coeffs[1], p.y), coeffs[2]))
    IN  QM31MulCM31(SumOf([k \in DOMAIN batch.terms |-> Term(k)]), CM31Inverse(Denominator(batch.point, p)))])
(* What the verifier computes at every position of the lifting domain.     *)
fri_answers(input, batches) ==
  Tabulated([position \in Vector(2 ^ input.lifting) |->
    accumulate_row_quotients(batches,
      [i \in DOMAIN input.columns |-> input.evals[i][LiftedIndex(position, input.lifting - input.columns[i].log)]],
      CircleDomainAt(input.lifting, position))])

(* --- accumulation of both backends ---                                   *)
cpu_lift_and_accumulate(columns) ==
  LET sum[k \in 0 .. Len(columns)] ==
        IF k = 0 THEN [i \in Vector(2) |-> QM31Zero]
        ELSE LET log_ratio == Log2(Size(columns[k])) - Log2(Size(sum[k - 1]))
             IN  Tabulated([i \in DOMAIN columns[k] |->
                              QM31Add(columns[k][i], sum[k - 1][LiftedIndex(i, log_ratio)])])
  IN  sum[Len(columns)]
(* Mutant: every vector takes the lanes that are lifted to the first one. *)
LiftedVecAtFirst(column, log_ratio, i, l) ==
  column[(i \div 2 ^ log_ratio) * Lanes + LiftedLane(LogLanes, log_ratio, 0, l)]
LiftedVecAt(column, log_ratio, i, l) ==
  column[(i \div 2 ^ log_ratio) * Lanes + LiftedLane(LogLanes, log_ratio, i, l)]
(* Vector by vector: a column shorter than a vector adds no lift.          *)
simd_lift_and_accumulate(columns) ==
  LET sum[k \in 1 .. Len(columns)] ==
        IF k = 1 THEN columns[1]
        ELSE LET log_ratio == Log2(Size(columns[k])) - Log2(Size(sum[k - 1]))
                 whole == (Size(columns[k]) \div Lanes) * Lanes
             IN  Tabulated([i \in DOMAIN columns[k] |->
                   IF i < whole
                   THEN LaneQM31Add(columns[k][i], LiftedVecAt(sum[k - 1], log_ratio, i \div Lanes, i % Lanes))
                   ELSE columns[k][i]])
  IN  sum[Len(columns)]
generate_secure_powers(felt, n) ==
  LET base[k \in 0 .. Lanes] == IF k = 0 THEN QM31One ELSE QM31Mul(base[k - 1], felt)
      vectors[v \in 0 .. n \div Lanes] ==
        IF v = 0 THEN Tabulated([l \in Vector(Lanes) |-> base[l]])
        ELSE Tabulated([l \in Vector(Lanes) |-> LaneQM31Mul(vectors[v - 1][l], base[Lanes])])
  IN  Tabulated([k \in Vector(n) |-> ReduceQM31(vectors[k \div Lanes][k % Lanes])])

(* --- numerators ---                                                      *)
SubLog(log) == log - LogBlowup
LaneScale(v, a) == <<LaneCM31Scale(v[1], a), LaneCM31Scale(v[2], a)>>
cpu_numerators(input, batch, log) ==
  Tabulated([row \in Vector(2 ^ SubLog(log)) |->
    accumulate_row_partial_numerators(batch, [i \in DOMAIN input.columns |-> input.evals[i][row]])])
accumulate_numerators_on_subdomain(input, batch, log) ==
  Tabulated([row \in Vector(2 ^ SubLog(log)) |->
    FoldLeft(LAMBDA acc, term :
               LaneQM31Add(acc, LaneQM31Sub(LaneScale(term.coeffs[3], input.evals[term.column][row]), term.coeffs[2])),
             QM31Zero, batch.terms)])
NumeratorsOf(backend, input, batches, log) ==
  [b \in DOMAIN batches |->
     [point |-> batches[b].point, linear |-> LinearTerm(batches[b]),
      acc |-> IF backend = "cpu" \/ SubLog(log) < LogLanes THEN cpu_numerators(input, batches[b], log)
              ELSE accumulate_numerators_on_subdomain(input, batches[b], log)]]
accumulate_numerators(backend, input, columns, samples) ==
  NumeratorsOf(backend, input, ColumnSampleBatches([k \in DOMAIN columns |-> samples[columns[k]]]),
               input.columns[columns[1]].log)

-----------------------------------------------------------------------------
QuotientRequests == [layout : DOMAIN Layouts, backend : {"cpu", "simd"}, low_memory : BOOLEAN]
NoQuotients == [layout |-> "none", backend |-> "none", low_memory |-> FALSE]
Input == QuotientInput[quotient_job.layout]
Lifting == Liftings[quotient_job.layout]
CombineLog == SubLog(Lifting)

(* The groups of columns, smallest first: over all trees, or per tree and  *)
(* in batches.                                                             *)
BatchesOf(columns) ==
  [k \in 1 .. (Len(columns) + QuotientBatch - 1) \div QuotientBatch |->
     SubSeq(columns, (k - 1) * QuotientBatch + 1, MinLane(k * QuotientBatch, Len(columns)))]
OfLog(columns, log, tree) ==
  SelectSeq([i \in DOMAIN columns |-> i],
            LAMBDA i : columns[i].log = log /\ (tree = 0 \/ columns[i].tree = tree))
GroupsOf(columns, tree) ==
  SelectSeq([log \in 1 .. Lifting |-> OfLog(columns, log, tree)], LAMBDA g : g # <<>>)
InBatches(groups) == FlattenSeq([g \in DOMAIN groups |-> BatchesOf(groups[g])])
ColumnGroups ==
  LET columns == ColumnsIn(quotient_job.layout)
  IN  IF quotient_job.low_memory
      THEN InBatches(FlattenSeq([t \in DOMAIN Layouts[quotient_job.layout] |-> GroupsOf(columns, t)]))
      ELSE GroupsOf(columns, 0)

AtGroup(k) == [step |-> "accumulate", group |-> k, left |-> {}]
QuotientIdle ==
  /\ quotient_job = NoQuotients /\ numerators = <<>> /\ quotients = <<>>
  /\ combining = [step |-> "idle", group |-> 0, left |-> {}]
QuotientInit ==
  /\ quotient_job \in QuotientRequests
  /\ numerators = <<>> /\ quotients = <<>> /\ combining = AtGroup(1)

AccumulateGroup ==
  /\ combining.step = "accumulate" /\ combining.group <= Len(ColumnGroups)
  /\ numerators' = numerators \o
       accumulate_numerators(quotient_job.backend, Input, ColumnGroups[combining.group], SamplesWithPowers[quotient_job.layout])
  /\ combining' = [combining EXCEPT !.group = @ + 1]
  /\ UNCHANGED <<quotient_job, quotients>>
(* One accumulation per sample point.  Low memory mode meets the sizes of  *)
(* one tree after those of another, and sorts by size too.                 *)
SmallerFirst(a, b) == Size(a.acc) < Size(b.acc)
SumPerPoint ==
  LET points == Distinct([k \in DOMAIN numerators |-> numerators[k].point])
      Own(p) == SelectSeq(numerators, LAMBDA n : n.point = p)
      BySize(ns) == IF quotient_job.low_memory THEN SortSeq(ns, SmallerFirst) ELSE ns
      Columns(p) == LET own == BySize(Own(p)) IN [k \in DOMAIN own |-> own[k].acc]
  IN  /\ combining.step = "accumulate" /\ combining.group > Len(ColumnGroups)
      /\ numerators' = [k \in DOMAIN points |->
           [point |-> points[k], linear |-> SumOf([j \in DOMAIN Own(points[k]) |-> Own(points[k])[j].linear]),
            acc |-> IF quotient_job.backend = "cpu" THEN cpu_lift_and_accumulate(Columns(points[k]))
                    ELSE simd_lift_and_accumulate(Columns(points[k]))]]
      /\ combining' = [step |-> IF quotient_job.backend = "cpu" \/ CombineLog < LogLanes THEN "cpu"
                                ELSE IF quotient_job.low_memory THEN "map" ELSE "chunks",
                       group |-> 0, left |-> Vector((2 ^ CombineLog \div Lanes + CombineChunk - 1) \div CombineChunk)]
      /\ UNCHANGED <<quotient_job, quotients>>

(* The subdomain: the first rows of the domain, in bit reversed order.     *)
Subdomain == Coset(CanonicHalfCoset(Lifting).initial, Lifting - 1 - LogBlowup)
SubdomainPoint(row) == ToPoint(CircleIndexAt(Subdomain, bit_reverse_index(row, CombineLog)))
cpu_fraction(n, row, p) ==
  QM31MulCM31(QM31Sub(n.acc[LiftedIndex(row, CombineLog - Log2(Size(n.acc)))], QM31Scale(n.linear, p.y)),
              CM31Inverse(Denominator(n.point, p)))
cpu_quotient(row) ==
  LET p == SubdomainPoint(row) IN SumOf([k \in DOMAIN numerators |-> cpu_fraction(numerators[k], row, p)])
LaneDenominator(sample, p) ==
  LaneCM31Sub(LaneCM31Mul(LaneCM31Sub(sample.x[1], <<p.x, 0>>), sample.y[2]),
              LaneCM31Mul(LaneCM31Sub(sample.y[1], <<p.y, 0>>), sample.x[2]))
simd_fraction(n, row, p) ==
  LaneQM31MulCM31(LaneQM31Sub(LiftedVecAt(n.acc, CombineLog - Log2(Size(n.acc)), row \div Lanes, row % Lanes),
                          LaneScale(n.linear, p.y)),
              LaneCM31Inverse(LaneDenominator(n.point, p)))
simd_quotient(row) ==
  LET p == SubdomainPoint(row)
  IN  FoldLeft(LAMBDA acc, n : LaneQM31Add(acc, simd_fraction(n, row, p)), QM31Zero, numerators)

SecureCoordinate(v, c) == v[1 + c \div 2][1 + (c % 2)]
FromCoordinates(columns) ==
  Tabulated([i \in DOMAIN columns[0] |->
    <<<<columns[0][i], columns[1][i]>>, <<columns[2][i], columns[3][i]>>>>])
(* Interpolation on the subdomain and evaluation on the domain.            *)
ExtendCoordinate(tree, values) ==
  LET subtree == [itwiddles |-> Tabulated(extract_subdomain_twiddles(tree.itwiddles, Lifting, CombineLog))]
  IN  Tabulated(evaluate(CanonicHalfCoset(Lifting), interpolate(Subdomain, values, subtree), tree))
CoordinateOf(values, c) == Tabulated([i \in DOMAIN values |-> LaneReduce(SecureCoordinate(values[i], c))])
Finish(step) == combining' = [combining EXCEPT !.step = step, !.left = {}]

CombineOnCpu ==
  LET values == Tabulated([row \in Vector(2 ^ CombineLog) |-> cpu_quotient(row)])
      tree == IF quotient_job.backend = "cpu" THEN CpuTree ELSE precompute_twiddles(CanonicHalfCoset(Lifting))
  IN  /\ combining.step = "cpu"
      /\ quotients' = FromCoordinates([c \in 0 .. 3 |-> ExtendCoordinate(tree, CoordinateOf(values, c))])
      /\ Finish("done")
      /\ UNCHANGED <<quotient_job, numerators>>
(* Low memory: columns in maps, or on the heap when mmap fails.            *)
MapQuotients ==
  /\ combining.step = "map"
  /\ \/ combining' = [combining EXCEPT !.step = "coordinates", !.left = 0 .. 3]
     \/ combining' = [combining EXCEPT !.step = "chunks"]
  /\ UNCHANGED <<quotient_job, numerators, quotients>>
Coordinates(c, columns) == IF c = 3 THEN FromCoordinates(columns) ELSE columns
CombineCoordinate ==
  LET c == 4 - Cardinality(combining.left)
      values == Tabulated([row \in Vector(2 ^ CombineLog) |-> simd_quotient(row)])
  IN  /\ combining.step = "coordinates"
      /\ quotients' = Coordinates(c, (c :> ExtendCoordinate(CpuTree, CoordinateOf(values, c))) @@ quotients)
      /\ combining' = [combining EXCEPT !.left = @ \ {c}, !.step = IF c = 3 THEN "done" ELSE @]
      /\ UNCHANGED <<quotient_job, numerators>>
CombineChunkOfRows(chunk) ==
  LET first == chunk * CombineChunk * Lanes
      rows == first .. MinLane(first + CombineChunk * Lanes, 2 ^ CombineLog) - 1
  IN  /\ combining.step = "chunks" /\ chunk \in combining.left
      /\ quotients' = [row \in rows |-> simd_quotient(row)] @@ quotients
      /\ combining' = [combining EXCEPT !.left = @ \ {chunk}]
      /\ UNCHANGED <<quotient_job, numerators>>
ExtendQuotients ==
  /\ combining.step = "chunks" /\ combining.left = {}
  /\ quotients' = FromCoordinates([c \in 0 .. 3 |-> ExtendCoordinate(CpuTree, CoordinateOf(quotients, c))])
  /\ Finish("done")
  /\ UNCHANGED <<quotient_job, numerators>>

QuotientNext ==
  \/ AccumulateGroup \/ SumPerPoint \/ CombineOnCpu \/ MapQuotients \/ CombineCoordinate
  \/ \E chunk \in combining.left : CombineChunkOfRows(chunk)
  \/ ExtendQuotients

(* PROPERTIES *)
FriAnswers ==
  Tabulated([name \in DOMAIN Layouts |-> fri_answers(QuotientInput[name], ColumnSampleBatches(SamplesWithPowers[name]))])
(* On every backend and in every memory mode the prover's column is what   *)
(* the verifier computes from the queried values, at every position: sums  *)
(* of sizes, of lifts and of powers taken in an order of their own.        *)
QuotientsAgree ==
  combining.step = "done" => quotients = FriAnswers[quotient_job.layout]
=============================================================================
