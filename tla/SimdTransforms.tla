---------------------------- MODULE SimdTransforms ----------------------------
(***************************************************************************)
(* The circle FFT of SimdBackend: a column of packed lanes is interpolated *)
(* in place, divided by its size and evaluated into the buffer of the low- *)
(* degree extension, one subdomain after the other.  Inside a transform    *)
(* rayon tasks share the buffer without synchronisation: a task is one     *)
(* index_h of the loop over it, its steps are the loops it calls, and the  *)
(* tasks of a phase interleave in any order.  Columns longer than          *)
(* CACHED_FFT_LOG_SIZE are transposed between two phases.                  *)
(***************************************************************************)
EXTENDS CpuTransforms, PackedFields

CONSTANT RootLog    \* log size of the half coset of the twiddle trees

MIN_FFT_LOG_SIZE == LogLanes + 1
VECWISE_FFT_BITS == LogLanes + 1
EvalChunk == 2 * Lanes    \* CHUNK_SIZE of eval_at_point, in vectors

(* mul_twiddle on a lane: the twiddle comes doubled.                       *)
MulTwiddle(a, twiddle_dbl) == AddHalves(a * twiddle_dbl)
Vec(values, i) == [l \in Vector(Lanes) |-> values[i * Lanes + l]]
SimdButterfly(val0, val1, twiddle_dbl) ==
  LET prod == Tabulated([l \in Vector(Lanes) |-> MulTwiddle(val1[l], twiddle_dbl[l])])
  IN  <<Tabulated([l \in Vector(Lanes) |-> LaneAdd(val0[l], prod[l])]),
        Tabulated([l \in Vector(Lanes) |-> LaneSub(val0[l], prod[l])])>>
SimdIButterfly(val0, val1, twiddle_dbl) ==
  <<Tabulated([l \in Vector(Lanes) |-> LaneAdd(val0[l], val1[l])]),
    Tabulated([l \in Vector(Lanes) |-> MulTwiddle(LaneSub(val0[l], val1[l]), twiddle_dbl[l])])>>
Splat(word) == [l \in Vector(Lanes) |-> word]

(* Xor with 2P turns the double of a twiddle into the double of minus it.  *)
ComputeFirstTwiddles(twiddle1_dbl) ==
  LET t1 == [l \in Vector(Lanes) |-> twiddle1_dbl[l % (Lanes \div 2)]]
      t0 == [l \in Vector(Lanes) |->
               LET pair == t1[2 * (l \div 4) + (IF l % 4 < 2 THEN 1 ELSE 0)]
               IN  IF l % 4 \in {1, 2} THEN 2 * P - pair ELSE pair]
  IN  <<t0, t1>>
(* The layers inside two vectors, the lowest bit of the index first; layer *)
(* m takes Lanes / 2^m twiddles, repeated, and layer 0 derives its own.    *)
VecwiseTwiddles(tw, index) ==
  LET Words(m) == [i \in Vector(Lanes \div 2 ^ m) |-> tw[m - 1][index * (Lanes \div 2 ^ m) + i]]
      first == ComputeFirstTwiddles(Words(1))
  IN  Tabulated([m \in Vector(LogLanes) |->
         CASE m = 0 -> first[1] [] m = 1 -> first[2]
           [] OTHER -> [l \in Vector(Lanes) |-> Words(m)[l % (Lanes \div 2 ^ m)]]])
VecwiseIButterflies(val0, val1, t) ==
  LET layers[m \in 0 .. LogLanes] ==
        IF m = 0 THEN <<val0, val1>>
        ELSE LET before == layers[m - 1]
                 parted == Deinterleave(before[1], before[2])
             IN  SimdIButterfly(parted[1], parted[2], t[m - 1])
  IN  Deinterleave(layers[LogLanes][1], layers[LogLanes][2])
VecwiseButterflies(val0, val1, t) ==
  LET layers[m \in 0 .. LogLanes] ==
        IF m = 0 THEN <<val0, val1>>
        ELSE LET before == layers[m - 1]
                 mixed == LaneInterleave(before[1], before[2])
             IN  SimdButterfly(mixed[1], mixed[2], t[LogLanes - m])
  IN  LaneInterleave(layers[LogLanes][1], layers[LogLanes][2])

(* Vectors written back over a buffer: a function from vector numbers.     *)
StoreVecs(values, vecs) ==
  Tabulated([i \in DOMAIN values |->
    IF i \div Lanes \in DOMAIN vecs THEN vecs[i \div Lanes][i % Lanes] ELSE values[i]])

ifft_vecwise_loop(values, tw, loop_bits, index_h) ==
  FoldSet(LAMBDA index, buf :
            LET inner == VecwiseIButterflies(Vec(buf, 2 * index), Vec(buf, 2 * index + 1),
                                             VecwiseTwiddles(tw, index))
                outer == SimdIButterfly(inner[1], inner[2], Splat(tw[LogLanes - 1][index]))
            IN  StoreVecs(buf, (2 * index :> outer[1]) @@ (2 * index + 1 :> outer[2])),
          values, index_h * 2 ^ loop_bits .. (index_h + 1) * 2 ^ loop_bits - 1)
fft_vecwise_loop(src, dst, tw, loop_bits, index_h) ==
  FoldSet(LAMBDA index, buf :
            LET outer == SimdButterfly(Vec(src, 2 * index), Vec(src, 2 * index + 1),
                                       Splat(tw[LogLanes - 1][index]))
                inner == VecwiseButterflies(outer[1], outer[2], VecwiseTwiddles(tw, index))
            IN  StoreVecs(buf, (2 * index :> inner[1]) @@ (2 * index + 1 :> inner[2])),
          dst, index_h * 2 ^ loop_bits .. (index_h + 1) * 2 ^ loop_bits - 1)

(* One layer over the 2^radix vectors of a group: pairs at distance 2^k,   *)
(* each with its twiddle of the layer.                                     *)
PairLayer(Op(_, _, _), vecs, k, twiddles) ==
  OnLayer(Op, vecs, k, [h \in DOMAIN twiddles |-> Splat(twiddles[h])])
(* ifft1, ifft2 and ifft3; fft1, fft2 and fft3.                            *)
ifft1(v, t0) == PairLayer(SimdIButterfly, v, 0, t0)
ifft2(v, t0, t1) == PairLayer(SimdIButterfly, ifft1(v, t0), 1, t1)
ifft3(v, t0, t1, t2) == PairLayer(SimdIButterfly, ifft2(v, t0, t1), 2, t2)
fft1(v, t0) == PairLayer(SimdButterfly, v, 0, t0)
fft2(v, t0, t1) == fft1(PairLayer(SimdButterfly, v, 1, t1), t0)
fft3(v, t0, t1, t2) == fft2(PairLayer(SimdButterfly, v, 2, t2), t0, t1)

(* The words a loop splats for group index, masked to the layer's length.  *)
GroupTwiddles(layer_twiddles, index, n) ==
  [i \in Vector(n) |-> layer_twiddles[(index * n + i) % Size(layer_twiddles)]]
(* The vectors of the group of 2^radix blocks of 2^layer values at index.  *)
GroupVecs(layer, radix, index, l) ==
  [j \in Vector(2 ^ radix) |-> (index * 2 ^ (layer + radix) + l * Lanes + j * 2 ^ layer) \div Lanes]
LoadGroup(src, group) == Tabulated([j \in DOMAIN group |-> Tabulated(Vec(src, group[j]))])
StoreGroup(dst, group, vecs) ==
  StoreVecs(dst, [v \in {group[j] : j \in DOMAIN group} |-> vecs[CHOOSE j \in DOMAIN group : group[j] = v]])

ifft3_loop(values, tw, loop_bits, layer, index_h) ==
  FoldSet(LAMBDA at, buf :
            LET index == index_h * 2 ^ loop_bits + at[1]
                group == GroupVecs(layer, 3, index, at[2])
            IN  StoreGroup(buf, group,
                  ifft3(LoadGroup(buf, group), GroupTwiddles(tw[0], index, 4),
                        GroupTwiddles(tw[1], index, 2), GroupTwiddles(tw[2], index, 1))),
          values, Vector(2 ^ loop_bits) \X Vector(2 ^ layer \div Lanes))
ifft2_loop(values, tw, layer, index) ==
  FoldSet(LAMBDA l, buf :
            LET group == GroupVecs(layer, 2, index, l)
            IN  StoreGroup(buf, group, ifft2(LoadGroup(buf, group), GroupTwiddles(tw[0], index, 2),
                                             GroupTwiddles(tw[1], index, 1))),
          values, Vector(2 ^ layer \div Lanes))
ifft1_loop(values, tw, layer, index) ==
  FoldSet(LAMBDA l, buf :
            LET group == GroupVecs(layer, 1, index, l)
            IN  StoreGroup(buf, group, ifft1(LoadGroup(buf, group), GroupTwiddles(tw[0], index, 1))),
          values, Vector(2 ^ layer \div Lanes))
fft3_loop(src, dst, tw, loop_bits, layer, index_h) ==
  FoldSet(LAMBDA at, buf :
            LET index == index_h * 2 ^ loop_bits + at[1]
                group == GroupVecs(layer, 3, index, at[2])
            IN  StoreGroup(buf, group,
                  fft3(LoadGroup(src, group), GroupTwiddles(tw[0], index, 4),
                       GroupTwiddles(tw[1], index, 2), GroupTwiddles(tw[2], index, 1))),
          dst, Vector(2 ^ loop_bits) \X Vector(2 ^ layer \div Lanes))
fft2_loop(src, dst, tw, layer, index) ==
  FoldSet(LAMBDA l, buf :
            LET group == GroupVecs(layer, 2, index, l)
            IN  StoreGroup(buf, group, fft2(LoadGroup(src, group), GroupTwiddles(tw[0], index, 2),
                                            GroupTwiddles(tw[1], index, 1))),
          dst, Vector(2 ^ layer \div Lanes))
fft1_loop(src, dst, tw, layer, index) ==
  FoldSet(LAMBDA l, buf :
            LET group == GroupVecs(layer, 1, index, l)
            IN  StoreGroup(buf, group, fft1(LoadGroup(src, group), GroupTwiddles(tw[0], index, 1))),
          dst, Vector(2 ^ layer \div Lanes))

(* The layers a task of a phase goes through, three at a time.             *)
From(tw, n) == [i \in {k - n : k \in {k \in DOMAIN tw : k >= n}} |-> tw[i + n]]
ifft_lower_with_vecwise(values, tw, fft_layers, layer, index_h) ==
  CASE layer < VECWISE_FFT_BITS -> ifft_vecwise_loop(values, tw, fft_layers - VECWISE_FFT_BITS, index_h)
    [] fft_layers - layer = 1 -> ifft1_loop(values, From(tw, layer - 1), layer, index_h)
    [] fft_layers - layer = 2 -> ifft2_loop(values, From(tw, layer - 1), layer, index_h)
    [] OTHER -> ifft3_loop(values, From(tw, layer - 1), fft_layers - layer - 3, layer, index_h)
ifft_lower_without_vecwise(values, tw, fft_layers, layer, index_h) ==
  LET fixed_layer == layer + LogLanes
  IN  CASE fft_layers - layer = 1 -> ifft1_loop(values, From(tw, layer), fixed_layer, index_h)
        [] fft_layers - layer = 2 -> ifft2_loop(values, From(tw, layer), fixed_layer, index_h)
        [] OTHER -> ifft3_loop(values, From(tw, layer), fft_layers - layer - 3, fixed_layer, index_h)
fft_lower_with_vecwise(src, dst, tw, fft_layers, layer, index_h) ==
  CASE layer < VECWISE_FFT_BITS -> fft_vecwise_loop(src, dst, tw, fft_layers - VECWISE_FFT_BITS, index_h)
    [] fft_layers - layer = 1 -> fft1_loop(src, dst, From(tw, layer - 1), layer, index_h)
    [] fft_layers - layer = 2 -> fft2_loop(src, dst, From(tw, layer - 1), layer, index_h)
    [] OTHER -> fft3_loop(src, dst, From(tw, layer - 1), fft_layers - layer - 3, layer, index_h)
fft_lower_without_vecwise(src, dst, tw, fft_layers, layer, index_h) ==
  LET fixed_layer == layer + LogLanes
  IN  CASE fft_layers - layer = 1 -> fft1_loop(src, dst, From(tw, layer), fixed_layer, index_h)
        [] fft_layers - layer = 2 -> fft2_loop(src, dst, From(tw, layer), fixed_layer, index_h)
        [] OTHER -> fft3_loop(src, dst, From(tw, layer), fft_layers - layer - 3, fixed_layer, index_h)
(* Vector abc changes place with vector cba; task a does the pairs it sees *)
(* in increasing order.                                                    *)
transpose_vecs(values, log_n_vecs, a) ==
  LET half == log_n_vecs \div 2
      At(x, b, y) == x * 2 ^ (log_n_vecs - half) + b * 2 ^ half + y
      swaps == {<<At(a, b, c), At(c, b, a)>> : b \in Vector(2 ^ (log_n_vecs % 2)), c \in Vector(2 ^ half)}
      moved == {pair \in swaps : pair[1] < pair[2]}
  IN  StoreVecs(values,
        [v \in UNION {{pair[1], pair[2]} : pair \in moved} |->
           Vec(values, CHOOSE w \in Vector(2 ^ log_n_vecs) : <<v, w>> \in moved \/ <<w, v>> \in moved)])
TransposeAll(values) ==
  LET log_n_vecs == Log2(Size(values)) - LogLanes
  IN  FoldSet(LAMBDA a, v : transpose_vecs(v, log_n_vecs, a), values, Vector(2 ^ (log_n_vecs \div 2)))

(* precompute_twiddles: Lanes twiddles at a time, every step of a coset in *)
(* bit reversed order being one of a few points; the tree holds doubles.   *)
TrailingOnes(i) == CHOOSE n \in 0 .. i : i % 2 ^ (n + 1) = 2 ^ n - 1
compute_coset_twiddles(coset) ==
  LET log == coset.log - 1
      high == log - LogLanes
      step == [i \in 0 .. high |->
                 IF i = high THEN 0
                 ELSE coset.step * (bit_reverse_index(2 ^ i, high) - bit_reverse_index(2 ^ i - 1, high))]
      current[i \in Vector(2 ^ high)] ==
        IF i = 0 THEN [l \in Vector(Lanes) |-> IndexAt(coset, bit_reverse_index(l, log))]
        ELSE LET before == current[i - 1]
             IN  Tabulated([l \in Vector(Lanes) |-> Reduce(before[l] + step[TrailingOnes(i - 1)])])
  IN  [i \in Vector(2 ^ log) |-> ToPoint(current[i \div Lanes][i % Lanes]).x]
PackedTwiddles(coset) ==
  LET towers == coset.log - LogLanes
      tree[k \in 0 .. towers] ==
        IF k = 0 THEN [i \in {} |-> 0]
        ELSE Tabulated(Append2(tree[k - 1], compute_coset_twiddles(RepeatedDouble(coset, k - 1))))
  IN  Append2(tree[towers], slow_precompute_twiddles(RepeatedDouble(coset, towers)))
simd_precompute_twiddles(coset) ==
  LET tree == Tabulated(IF coset.log < LogLanes THEN slow_precompute_twiddles(coset)
                        ELSE PackedTwiddles(coset))
  IN  [root_coset |-> coset,
       twiddles  |-> Tabulated([i \in DOMAIN tree |-> 2 * tree[i]]),
       itwiddles |-> Tabulated([i \in DOMAIN tree |-> 2 * LaneInverse(tree[i])])]

Root == CanonicHalfCoset(RootLog + 1)
CpuTree == precompute_twiddles(Root)
SimdTree == simd_precompute_twiddles(Root)

(* eval_at_point: a table of products for the low and for the middle bits  *)
(* of an index, and steps from one product of high bits to the next.       *)
TwiddleAt(mappings, index) ==
  Combine(QM31Mul, [b \in DOMAIN mappings |-> IF (index \div 2 ^ b) % 2 = 1 THEN mappings[b] ELSE QM31One],
          Size(mappings))
(* Mutant: coefficients are taken to be in their natural order. *)
GenerateEvaluationMappingsNatural(point, log, cached) ==
  LET alphas == get_folding_alphas(point, log) IN [b \in Vector(log) |-> alphas[log - b]]
MappingPlace(b, log, n0) ==
  CASE b >= log - n0 -> b - (log - n0) + LogLanes
    [] b \in LogLanes .. LogLanes + n0 - 1 -> b - LogLanes + log - n0
    [] OTHER -> b
GenerateEvaluationMappings(point, log, cached) ==
  LET alphas == get_folding_alphas(point, log)
      n0 == IF log <= cached THEN 0 ELSE (log - LogLanes) \div 2
  IN  [b \in Vector(log) |-> alphas[log - MappingPlace(b, log, n0)]]
TwiddleSteps(mappings) ==
  LET n == Size(mappings)
      denominators[i \in Vector(n)] ==
        IF i = 0 THEN mappings[0] ELSE QM31Mul(denominators[i - 1], mappings[i])
  IN  [i \in 0 .. n |-> CASE i = 0 -> mappings[0]
                          [] i = n -> QM31One
                          [] OTHER -> QM31Div(mappings[i], denominators[i - 1])]
ChunkSum(coeffs, mappings, chunk) ==
  LET offset == chunk * EvalChunk
      n == Size(mappings)
      steps == Tabulated(TwiddleSteps([b \in Vector(n - 2 * LogLanes) |-> mappings[b + 2 * LogLanes]]))
      mids == Tabulated([i \in Vector(Lanes) |->
                TwiddleAt([b \in Vector(LogLanes) |-> mappings[b + LogLanes]], i)])
      blocks == (IF Size(coeffs) \div Lanes - offset < EvalChunk
                 THEN Size(coeffs) \div Lanes - offset ELSE EvalChunk) \div Lanes
      high[i \in Vector(blocks)] ==
        IF i = 0 THEN TwiddleAt(mappings, offset * Lanes)
        ELSE QM31Mul(high[i - 1], steps[TrailingOnes(offset + i - 1)])
  IN  [l \in Vector(Lanes) |->
         Combine(QM31Add, [v \in Vector(blocks * Lanes) |->
                   QM31Scale(QM31Mul(high[v \div Lanes], mids[v % Lanes]), coeffs[(offset + v) * Lanes + l])],
                 blocks * Lanes)]
SlowEvalAtPoint(coeffs, mappings, n) == fold(SecureVector(coeffs), [i \in 1 .. n |-> mappings[n - i]])
SumOfChunks(coeffs, mappings, n) ==
  LET chunks == (2 ^ n \div Lanes + EvalChunk - 1) \div EvalChunk
      lows == [l \in Vector(Lanes) |-> TwiddleAt([b \in Vector(LogLanes) |-> mappings[b]], l)]
      sums == Tabulated([c \in Vector(chunks) |-> Tabulated(ChunkSum(coeffs, mappings, c))])
  IN  Combine(QM31Add, [i \in Vector(chunks * Lanes) |-> QM31Mul(sums[i \div Lanes][i % Lanes], lows[i % Lanes])],
              chunks * Lanes)
MappedEvalAtPoint(coeffs, mappings, n) ==
  IF n <= 2 * LogLanes THEN SlowEvalAtPoint(coeffs, mappings, n) ELSE SumOfChunks(coeffs, mappings, n)
SimdEvalAtPoint(coeffs, point, cached) ==
  MappedEvalAtPoint(coeffs, Tabulated(GenerateEvaluationMappings(point, Log2(Size(coeffs)), cached)), Log2(Size(coeffs)))
NegatedIf(odd, v) == IF odd THEN QM31Neg(v) ELSE v
(* barycentric_weights: one scale for the first point, negated in every    *)
(* second place, and packed inverses.                                      *)
PackedWeights(log, si_0_vn_p, p) ==
  [i \in Vector(2 ^ log) |->
     QM31Mul(QM31Inverse(PointVanishing(CanonicPoint(log, i), p)), NegatedIf((i % Lanes) % 2 = 1, si_0_vn_p))]
WeightsOnLanes(log, vn_p, p) ==
  IF 2 ^ log <= Lanes THEN WeightsFor(log, vn_p, p)
  ELSE PackedWeights(log, QM31Div(vn_p, VanishingScale(log, CanonicPoint(log, 0))), p)
SimdBarycentricWeights(log, p) == WeightsOnLanes(log, CosetVanishing(Odds(log), p), p)
(* split_at_mid, through the natural order of the coefficients.            *)
SplitAtMid(coeffs, cached) ==
  LET log == Log2(Size(coeffs))
      natural == IF log > cached THEN TransposeAll(coeffs) ELSE coeffs
      half == 2 ^ (log - 1)
      Stored(part) == IF log - 1 > cached THEN TransposeAll(part) ELSE part
  IN  IF Size(coeffs) <= Lanes THEN <<Slice(coeffs, 0, half), Slice(coeffs, half, half)>>
      ELSE <<Stored(Tabulated(Slice(natural, 0, half))), Stored(Tabulated(Slice(natural, half, half)))>>
=============================================================================
