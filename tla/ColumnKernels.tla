---------------------------- MODULE ColumnKernels ----------------------------
(***************************************************************************)
(* Kernels of SimdBackend over whole columns: the bit reversal, the folds  *)
(* of FRI, decompose, the prefix sum of logup columns and the points of a  *)
(* domain in the order of a column.  Where the code splits a kernel over   *)
(* rayon, its tasks interleave and share the memory without locks.         *)
(***************************************************************************)
EXTENDS SimdTransforms

CONSTANTS WBits,        \* W_BITS
          FoldChunk,    \* FOLD_LINE_CHUNK_SIZE, in vectors
          PointStride   \* STRIDE of CircleDomainBitRevIterator::par_iter

VARIABLES kernel, source, target, done_steps, cursor
kernel_vars == <<kernel, source, target, done_steps, cursor>>

(* Columns as vectors of lanes, and back.                                  *)
ToVecs(v) == Tabulated([k \in Vector(Size(v) \div Lanes) |-> Tabulated(Vec(v, k))])
FromVecs(vecs) == [i \in Vector(Size(vecs) * Lanes) |-> vecs[i \div Lanes][i % Lanes]]
ReverseLanes(vec) == [l \in Vector(Lanes) |-> vec[Lanes - 1 - l]]
VecAdd(v, w) == Tabulated([l \in Vector(Lanes) |-> LaneAdd(v[l], w[l])])
VecSub(v, w) == Tabulated([l \in Vector(Lanes) |-> LaneSub(v[l], w[l])])

(* --- bit_reverse_m31 ---                                                 *)
(* bit_reverse16: Lanes vectors, after LogLanes rounds of abcd:0123 =>     *)
(* 0abc:123d.                                                              *)
bit_reverse16(data) ==
  LET rounds[k \in 0 .. LogLanes] ==
        IF k = 0 THEN data
        ELSE LET d == rounds[k - 1]
                 mixed == [i \in Vector(Lanes \div 2) |-> LaneInterleave(d[2 * i], d[2 * i + 1])]
             IN  Tabulated([i \in Vector(Lanes) |->
                   Tabulated(mixed[i % (Lanes \div 2)][1 + i \div (Lanes \div 2)])])
  IN  rounds[LogLanes]
MinReverseLog == 2 * WBits + LogLanes    \* MIN_LOG_SIZE, in vectors
ABits(vecs) == Log2(Size(vecs)) - MinReverseLog
(* The pairs a task goes through: w_l upwards, for each w_h to rev(w_l).   *)
SwapsOf ==
  LET steps[w_l \in 0 .. 2 ^ WBits] ==
        IF w_l = 0 THEN <<>>
        ELSE steps[w_l - 1] \o [k \in 1 .. bit_reverse_index(w_l - 1, WBits) + 1 |-> <<w_l - 1, k - 1>>]
  IN  steps[2 ^ WBits]
(* Mutant: every pair is swapped, also when the reversed one comes first.  *)
ReverseStepTwice(vecs, a, w_l, w_h) ==
  LET a_bits == ABits(vecs)
      idx == (w_h * 2 ^ a_bits + a) * 2 ^ WBits + w_l
      idx_rev == bit_reverse_index(idx, Log2(Size(vecs)) - LogLanes)
      At(index, i) == index + i * 2 ^ (2 * WBits + a_bits)
  IN  [v \in {At(index, i) : index \in {idx, idx_rev}, i \in Vector(Lanes)} |->
         bit_reverse16([i \in Vector(Lanes) |->
             vecs[At(IF v % 2 ^ (2 * WBits + a_bits) = idx THEN idx_rev ELSE idx, i)]])
           [v \div 2 ^ (2 * WBits + a_bits)]] @@ vecs
ReverseStep(vecs, a, w_l, w_h) ==
  LET a_bits == ABits(vecs)
      idx == (w_h * 2 ^ a_bits + a) * 2 ^ WBits + w_l
      idx_rev == bit_reverse_index(idx, Log2(Size(vecs)) - LogLanes)
      At(index, i) == index + i * 2 ^ (2 * WBits + a_bits)
      Values(index) == bit_reverse16([i \in Vector(Lanes) |-> vecs[At(index, i)]])
  IN  IF idx > idx_rev THEN vecs
      ELSE [v \in {At(index, i) : index \in {idx, idx_rev}, i \in Vector(Lanes)} |->
              Values(IF v % 2 ^ (2 * WBits + a_bits) = idx THEN idx_rev ELSE idx)
                [v \div 2 ^ (2 * WBits + a_bits)]] @@ vecs

(* --- inclusive_prefix_sum ---                                            *)
UpVal(v, lo, hi) == [v EXCEPT ![lo] = VecAdd(@, v[hi])]
DownVal(v, lo, hi) == [v EXCEPT ![lo] = VecSub(@, v[hi]), ![hi] = v[lo]]
UpLane(v, lo, hi) == [v EXCEPT ![lo] = LaneAdd(@, v[hi])]
DownLane(v, lo, hi) == [v EXCEPT ![lo] = LaneSub(@, v[hi]), ![hi] = v[lo]]
(* The places a round pairs: every second vector of two chunks; in a       *)
(* vector, every lane.                                                     *)
RoundPairs(chunk) == {<<2 * j, chunk + 2 * j>> : j \in Vector(chunk \div 2)}
MirrorPairs(half) == {<<2 * i, half - 1 - 2 * i>> : i \in Vector(half \div 2)}
LanePairs(chunk) == {<<j, chunk + j>> : j \in Vector(chunk)}
(* The first and the last round undo the order of a circle domain: the     *)
(* even places hold one half coset, the odd ones the other, backwards.     *)
FirstUpSweep(vecs) ==
  LET n == Size(vecs)
  IN  FoldSet(LAMBDA k, v :
        LET l0 == 2 * k
            l1 == l0 + 1
            r0 == n - 2 - 2 * k
            r1 == r0 + 1
            low == Deinterleave(v[l0], v[l1])
            high == Deinterleave(v[r0], v[r1])
        IN  [v EXCEPT ![l0] = VecAdd(low[1], ReverseLanes(high[2])), ![l1] = VecAdd(high[1], ReverseLanes(low[2])),
                      ![r0] = Tabulated(ReverseLanes(high[2])), ![r1] = Tabulated(ReverseLanes(low[2]))],
        vecs, Vector(n \div 4))
LastDownSweep(vecs) ==
  LET n == Size(vecs)
  IN  FoldSet(LAMBDA k, v :
        LET l0 == 2 * k
            l1 == l0 + 1
            r0 == n - 2 - 2 * k
            r1 == r0 + 1
            down == DownVal(DownVal(v, l0, r0), l1, r1)
            low == LaneInterleave(down[l0], ReverseLanes(down[r1]))
            high == LaneInterleave(down[l1], ReverseLanes(down[r0]))
        IN  [v EXCEPT ![l0] = Tabulated(low[1]), ![l1] = Tabulated(low[2]),
                      ![r0] = Tabulated(high[1]), ![r1] = Tabulated(high[2])],
        vecs, Vector(n \div 4))
SweepUp(vecs, pairs) == FoldSet(LAMBDA p, v : UpVal(v, p[1], p[2]), vecs, pairs)
SweepDown(vecs, pairs) == FoldSet(LAMBDA p, v : DownVal(v, p[1], p[2]), vecs, pairs)
FirstVector(vec) ==
  LET up[k \in 0 .. LogLanes] ==
        IF k = 0 THEN vec
        ELSE FoldSet(LAMBDA p, v : UpLane(v, p[1], p[2]), up[k - 1], LanePairs(2 ^ (LogLanes - k)))
      down[k \in 0 .. LogLanes] ==
        IF k = 0 THEN up[LogLanes]
        ELSE FoldSet(LAMBDA p, v : DownLane(v, p[1], p[2]), down[k - 1], LanePairs(2 ^ (k - 1)))
  IN  down[LogLanes]
inclusive_prefix_sum_slow(v) ==
  LET coset_order == Tabulated(circle_domain_order_to_coset_order(bit_reverse(v)))
      scan[first \in DOMAIN v, n \in 1 .. Size(v), acc \in BaseField] ==
        IF n = 1 THEN first :> M31Add(acc, coset_order[first])
        ELSE LET low == scan[first, n \div 2, acc]
             IN  low @@ scan[first + n \div 2, n - n \div 2, low[first + n \div 2 - 1]]
  IN  bit_reverse(Tabulated(coset_order_to_circle_domain_order(scan[0, Size(coset_order), 0])))
inclusive_prefix_sum(v) ==
  LET vecs == ToVecs(v)
      half == Size(vecs) \div 2
      rounds == Log2(half) - 1
      up[k \in 0 .. rounds] ==
        IF k = 0 THEN SweepUp(FirstUpSweep(vecs), MirrorPairs(half))
        ELSE SweepUp(up[k - 1], RoundPairs(2 ^ (rounds + 1 - k)))
      down[k \in 0 .. rounds] ==
        IF k = 0 THEN [up[rounds] EXCEPT ![0] = FirstVector(@)]
        ELSE SweepDown(down[k - 1], RoundPairs(2 ^ k))
  IN  IF Size(v) < 4 * Lanes THEN inclusive_prefix_sum_slow(v)
      ELSE Tabulated(FromVecs(LastDownSweep(SweepDown(down[rounds], MirrorPairs(half)))))

(* --- FRI folds over QM31 ---                                             *)
SecureDeinterleave(v, w) == LET parted == Deinterleave(v, w) IN <<Tabulated(parted[1]), Tabulated(parted[2])>>
SecureIButterfly(a, b, itwiddle_dbl) ==
  LET difference == LaneQM31Sub(a, b)
      Scaled(c) == <<MulTwiddle(c[1], itwiddle_dbl), MulTwiddle(c[2], itwiddle_dbl)>>
  IN  <<LaneQM31Add(a, b), <<Scaled(difference[1]), Scaled(difference[2])>>>>
FoldVecs(val0, val1, alpha, itwiddles) ==
  LET parted == SecureDeinterleave(val0, val1)
  IN  Tabulated([l \in Vector(Lanes) |->
        LET pair == SecureIButterfly(parted[1][l], parted[2][l], itwiddles[l])
        IN  LaneQM31Add(pair[1], LaneQM31Mul(alpha, pair[2]))])
FoldingAlphas(alpha, n) ==
  LET alphas[k \in 0 .. n] == IF k = 0 THEN alpha ELSE QM31Mul(alphas[k - 1], alphas[k - 1]) IN alphas
(* Vector i of the folded layer, from 2^fold_step vectors of values.       *)
FoldLineVec(vecs, log, alpha, fold_step, i) ==
  LET twiddles == domain_line_twiddles_from_tree(log + 1, SimdTree.itwiddles)
      alphas == FoldingAlphas(alpha, fold_step)
      layers[k \in 0 .. fold_step] ==
        IF k = 0 THEN [j \in Vector(2 ^ fold_step) |-> vecs[i * 2 ^ fold_step + j]]
        ELSE LET next == 2 ^ (fold_step - k)
             IN  Tabulated([j \in Vector(next) |->
                   FoldVecs(layers[k - 1][2 * j], layers[k - 1][2 * j + 1], alphas[k - 1],
                            [l \in Vector(Lanes) |-> twiddles[k - 1][(i * next + j) * Lanes + l]])])
  IN  layers[fold_step][0]
fold_line_cpu(values, log, alpha, fold_step) ==
  LET alphas == FoldingAlphas(alpha, fold_step)
      layers[k \in 0 .. fold_step] ==
        IF k = 0 THEN values
        ELSE FoldPairs(layers[k - 1], alphas[k - 1],
                       LineItwiddles(RepeatedDouble(CanonicHalfCoset(log + 1), k - 1)))
  IN  layers[fold_step]
FoldCircleVec(vecs, log, alpha, i) ==
  LET line == domain_line_twiddles_from_tree(log, SimdTree.itwiddles)[0]
      first == ComputeFirstTwiddles([k \in Vector(Lanes \div 2) |-> line[i * (Lanes \div 2) + k]])
  IN  FoldVecs(vecs[2 * i], vecs[2 * i + 1], alpha, first[1])
(* fold_circle_evaluation_into_line: the same from base field vectors.     *)
fold_circle_evaluation_into_line(vecs, log, alpha) ==
  LET Embed(vec) == [l \in Vector(Lanes) |-> FromM31(vec[l])]
      embedded == [k \in DOMAIN vecs |-> Embed(vecs[k])]
  IN  FromVecs([i \in Vector(2 ^ (log - 1 - LogLanes)) |-> FoldCircleVec(embedded, log, alpha, i)])

(* decompose: lambda from the signed sum, taken away from the first half   *)
(* and added to the second.                                                *)
LambdaOf(values) ==
  LET n == Size(values)
      Sum(from, to) == FoldSet(LAMBDA i, sum : QM31Add(sum, values[i]), QM31Zero, from .. to - 1)
  IN  QM31Div(QM31Sub(Sum(0, n \div 2), Sum(n \div 2, n)), FromM31(n % P))
decompose_cpu(values) ==
  LET lambda == LambdaOf(values)
  IN  [i \in DOMAIN values |->
         IF i < Size(values) \div 2 THEN QM31Sub(values[i], lambda) ELSE QM31Add(values[i], lambda)]
SimdLambda(vecs) ==
  LET n == Size(vecs)
      Sum(op, from, to, start) ==
        FoldSet(LAMBDA k, sum : [l \in Vector(Lanes) |-> IF op = "add" THEN LaneQM31Add(sum[l], vecs[k][l])
                                                         ELSE LaneQM31Sub(sum[l], vecs[k][l])],
                start, from .. to - 1)
      packed == Sum("sub", n \div 2, n, Sum("add", 0, n \div 2, [l \in Vector(Lanes) |-> QM31Zero]))
  IN  QM31Div(FoldSet(LAMBDA l, sum : QM31Add(sum, ReduceQM31(packed[l])), QM31Zero, Vector(Lanes)),
              FromM31(n * Lanes % P))
SimdDecompose(vecs) ==
  LET lambda == SimdLambda(vecs)
  IN  Tabulated([k \in DOMAIN vecs |-> Tabulated([l \in Vector(Lanes) |->
        IF k < Size(vecs) \div 2 THEN LaneQM31Sub(vecs[k][l], lambda) ELSE LaneQM31Add(vecs[k][l], lambda)])])

(* --- CircleDomainBitRevIterator ---                                      *)
CircleDomainAt(log, i) == ToPoint(CircleIndexAt(CanonicHalfCoset(log), bit_reverse_index(i, log)))
PointsAt(log, i) == Tabulated([l \in Vector(Lanes) |-> CircleDomainAt(log, i * Lanes + l)])
FlipOf(log, i) ==
  LET high == log - LogLanes
      step == CanonicHalfCoset(log).step
      Turn(k) == step * bit_reverse_index(k, high)
  IN  IF i >= high THEN PointZero ELSE ToPoint(Reduce(Turn(2 ^ i) - Turn(2 ^ i - 1)))
NextPoints(log, i, current) ==
  LET flip == FlipOf(log, TrailingOnes(i))
  IN  Tabulated([l \in Vector(Lanes) |-> PointAdd(current[l], IF l % 2 = 0 THEN flip ELSE PointNeg(flip))])

(* --- requests ---                                                        *)
LaneColumn(log) == Tabulated([i \in Vector(2 ^ log) |-> (53 * i + 7 + 3 * (i \div (P + 1))) % (P + 1)])
SecureLanes(log) ==
  Tabulated([i \in Vector(2 ^ log) |->
     <<<<(i * 11) % (P + 1), (i * i + 3) % P>>, <<(P - i) % P, (7 * i + 1) % P>>>>])
ReducedSecure(v) == Tabulated([i \in DOMAIN v |-> ReduceQM31(v[i])])
FoldAlpha == <<<<3, 9>>, <<11, 4>>>>

KernelIdle ==
  /\ kernel = [op |-> "none", log |-> 0, fold |-> 0]
  /\ source = <<>> /\ target = <<>> /\ done_steps = <<>> /\ cursor = <<>>
KernelRequests ==
  [op : {"bit_reverse"}, log : 2 .. MinReverseLog + LogLanes + 2, fold : {0}]
    \union [op : {"prefix_sum", "fold_circle", "fold_circle_base"}, log : 1 .. RootLog + 1, fold : {0}]
    \union [op : {"decompose"}, log : LogLanes + 1 .. RootLog, fold : {0}]
    \union {[op |-> "fold_line", log |-> log, fold |-> step] : log \in 3 .. RootLog, step \in 1 .. 3}
    \union [op : {"points"}, log : LogLanes .. RootLog + 1, fold : {0}]
(* Kernels that fall back to the CPU backend, or have no parallel tasks,   *)
(* are one step.                                                           *)
Packed(k) == k.log - LogLanes
Sequential(k) ==
  \/ k.op \in {"prefix_sum", "decompose", "fold_circle", "fold_circle_base"}
  \/ k.op = "bit_reverse" /\ Packed(k) < MinReverseLog
  \/ k.op = "fold_line" /\ k.log < LogLanes + k.fold
TasksOf(k) ==
  CASE Sequential(k) -> {0}
    [] k.op = "bit_reverse" -> Vector(2 ^ (Packed(k) - MinReverseLog))
    [] k.op = "fold_line" -> Vector(((2 ^ (Packed(k) - k.fold)) + FoldChunk - 1) \div FoldChunk)
    [] k.op = "points" -> {i \in Vector(2 ^ Packed(k)) : i % PointStride = 0}
StepsOf(k) ==
  CASE Sequential(k) -> 1
    [] k.op = "bit_reverse" -> Len(SwapsOf)
    [] k.op = "fold_line" -> IF 2 ^ (Packed(k) - k.fold) < FoldChunk THEN 2 ^ (Packed(k) - k.fold) ELSE FoldChunk
    [] k.op = "points" -> IF 2 ^ Packed(k) < PointStride THEN 2 ^ Packed(k) ELSE PointStride

KernelInit ==
  /\ kernel \in KernelRequests
  /\ source = CASE kernel.op \in {"bit_reverse", "prefix_sum", "fold_circle_base"} -> LaneColumn(kernel.log)
                [] kernel.op = "points" -> <<>>
                [] OTHER -> SecureLanes(kernel.log)
  /\ target = IF kernel.op = "bit_reverse" /\ ~Sequential(kernel) THEN ToVecs(source) ELSE <<>>
  /\ done_steps = [t \in TasksOf(kernel) |-> 0]
  /\ cursor = [t \in TasksOf(kernel) |-> IF kernel.op = "points" THEN PointsAt(kernel.log, t) ELSE 0]

Stepped(t) == done_steps' = [done_steps EXCEPT ![t] = @ + 1]
CanStep(t, op) == kernel.op = op /\ ~Sequential(kernel) /\ done_steps[t] < StepsOf(kernel)
SequentialResult ==
  CASE kernel.op = "bit_reverse" -> bit_reverse(source)
    [] kernel.op = "prefix_sum" -> inclusive_prefix_sum(source)
    [] kernel.op = "decompose" -> FromVecs(SimdDecompose(ToVecs(source)))
    [] kernel.op = "fold_line" -> fold_line_cpu(ReducedSecure(source), kernel.log, FoldAlpha, kernel.fold)
    [] kernel.op = "fold_circle" ->
         IF kernel.log <= LogLanes
         THEN FoldPairs(ReducedSecure(source), FoldAlpha, CircleItwiddles(CanonicHalfCoset(kernel.log)))
         ELSE FromVecs([i \in Vector(2 ^ (kernel.log - 1 - LogLanes)) |->
                          FoldCircleVec(ToVecs(source), kernel.log, FoldAlpha, i)])
    [] kernel.op = "fold_circle_base" ->
         IF kernel.log <= LogLanes
         THEN FoldPairs(SecureVector(source), FoldAlpha, CircleItwiddles(CanonicHalfCoset(kernel.log)))
         ELSE fold_circle_evaluation_into_line(ToVecs(source), kernel.log, FoldAlpha)
RunSequential ==
  /\ kernel.op # "none" /\ Sequential(kernel) /\ done_steps[0] = 0
  /\ target' = Tabulated(SequentialResult)
  /\ Stepped(0)
  /\ UNCHANGED <<kernel, source, cursor>>
ReverseTask(a) ==
  /\ CanStep(a, "bit_reverse")
  /\ LET swap == SwapsOf[done_steps[a] + 1] IN target' = ReverseStep(target, a, swap[1], swap[2])
  /\ Stepped(a)
  /\ UNCHANGED <<kernel, source, cursor>>
FoldTask(chunk) ==
  LET i == chunk * FoldChunk + done_steps[chunk]
  IN  /\ CanStep(chunk, "fold_line")
      /\ target' = (i :> FoldLineVec(ToVecs(source), kernel.log, FoldAlpha, kernel.fold, i)) @@ target
      /\ Stepped(chunk)
      /\ UNCHANGED <<kernel, source, cursor>>
PointsTask(t) ==
  LET i == t + done_steps[t]
  IN  /\ CanStep(t, "points")
      /\ target' = (i :> cursor[t]) @@ target
      /\ cursor' = [cursor EXCEPT ![t] = NextPoints(kernel.log, i, @)]
      /\ Stepped(t)
      /\ UNCHANGED <<kernel, source>>

KernelNext ==
  \/ RunSequential
  \/ \E t \in DOMAIN done_steps : ReverseTask(t) \/ FoldTask(t) \/ PointsTask(t)

(* PROPERTIES *)
KernelJoined == kernel.op # "none" /\ \A t \in DOMAIN done_steps : done_steps[t] = StepsOf(kernel)
Flat(v) == IF Sequential(kernel) THEN v ELSE FromVecs(v)
(* Whatever the interleaving of its tasks, a kernel gives the column that  *)
(* the CPU backend gives for the same values.                              *)
KernelsAgree ==
  KernelJoined =>
    LET log == kernel.log
        lanes == [i \in DOMAIN source |-> LaneReduce(source[i])]
    IN  CASE kernel.op = "bit_reverse" -> Flat(target) = [i \in DOMAIN source |-> source[bit_reverse_index(i, log)]]
          [] kernel.op = "prefix_sum" ->
               [i \in DOMAIN target |-> LaneReduce(target[i])]
                 = inclusive_prefix_sum_slow(lanes)
          [] kernel.op = "fold_line" ->
               ReducedSecure(Flat(target)) = fold_line_cpu(ReducedSecure(source), log, FoldAlpha, kernel.fold)
          [] kernel.op = "fold_circle" ->
               ReducedSecure(target) = FoldPairs(ReducedSecure(source), FoldAlpha, CircleItwiddles(CanonicHalfCoset(log)))
          [] kernel.op = "fold_circle_base" ->
               ReducedSecure(target) = FoldPairs(SecureVector(lanes), FoldAlpha, CircleItwiddles(CanonicHalfCoset(log)))
          [] kernel.op = "decompose" -> ReducedSecure(target) = decompose_cpu(ReducedSecure(source))
          [] kernel.op = "points" -> Flat(target) = [i \in Vector(2 ^ log) |-> CircleDomainAt(log, i)]
=============================================================================
