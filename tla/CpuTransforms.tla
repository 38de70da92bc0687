---------------------------- MODULE CpuTransforms ----------------------------
(***************************************************************************)
(* The circle FFT of CpuBackend over M31, the index permutations of        *)
(* core/utils.rs and the three ways a column is evaluated at a point of    *)
(* QM31.  A vector of n values is a function on 0 .. n - 1.  The canonic   *)
(* domain of log size n is CanonicHalfCoset(n) and its conjugate; twiddles *)
(* come from a tree computed once for a root coset.                        *)
(***************************************************************************)
EXTENDS CirclePoints, FiniteSetsExt

Size(v) == Cardinality(DOMAIN v)
Log2(n) == CHOOSE k \in 0 .. n : 2 ^ k = n
Vector(n) == 0 .. n - 1
Slice(v, from, n) == [i \in Vector(n) |-> v[from + i]]
Append2(v, w) == [i \in Vector(Size(v) + Size(w)) |-> IF i < Size(v) THEN v[i] ELSE w[i - Size(v)]]

(* A permutation applied as the code does, by one swap per pair.           *)
SwapInPlace(v, target) ==
  LET swapped[k \in 0 .. Size(v)] ==
        IF k = 0 THEN v
        ELSE LET before == swapped[k - 1]
                 j == target[k - 1]
             IN  IF j > k - 1 THEN [before EXCEPT ![k - 1] = before[j], ![j] = before[k - 1]]
                 ELSE before
  IN  swapped[Size(target)]
bit_reverse(v) == SwapInPlace(v, Tabulated([i \in DOMAIN v |-> bit_reverse_index(i, Log2(Size(v)))]))

(* The orders of a column: by coset index, by circle domain index, bit     *)
(* reversed.                                                               *)
circle_domain_index_to_coset_index(i, log) ==
  IF i < 2 ^ log \div 2 THEN i * 2 ELSE (2 ^ log - 1 - i) * 2 + 1
coset_index_to_circle_domain_index(i, log) ==
  IF i % 2 = 0 THEN i \div 2 ELSE (2 * 2 ^ log - i) \div 2
bit_reverse_coset_to_circle_domain_order(v) ==
  LET log == Log2(Size(v))
  IN  SwapInPlace(v, Tabulated([i \in DOMAIN v |->
                        bit_reverse_index(coset_index_to_circle_domain_index(i, log), log)]))
coset_order_to_circle_domain_order(v) ==
  LET n == Size(v)
  IN  [i \in Vector(n) |-> IF i < n \div 2 THEN v[2 * i] ELSE v[n - 1 - 2 * (i - n \div 2)]]
circle_domain_order_to_coset_order(v) ==
  LET n == Size(v)
  IN  [i \in Vector(n) |-> IF i % 2 = 0 THEN v[i \div 2] ELSE v[n - 1 - i \div 2]]
offset_bit_reversed_circle_domain_index(i, domain_log, eval_log, offset) ==
  LET index == bit_reverse_index(i, eval_log)
      half == 2 ^ (eval_log - 1)
      step == offset * 2 ^ (eval_log - domain_log - 1)
  IN  bit_reverse_index(IF index < half THEN (index + step) % half
                        ELSE half + ((index - step) % half), eval_log)

(* butterfly and ibutterfly, and one of them on two places of a vector.    *)
SumAndDifference(v0, tmp) == <<M31Add(v0, tmp), M31Sub(v0, tmp)>>
Butterfly(v0, v1, twid) == SumAndDifference(v0, M31Mul(v1, twid))
IButterfly(v0, v1, itwid) == <<M31Add(v0, v1), M31Mul(M31Sub(v0, v1), itwid)>>
OnPlaces(Op(_, _, _), v, i, j, twid) ==
  [v EXCEPT ![i] = Op(v[i], v[j], twid)[1], ![j] = Op(v[i], v[j], twid)[2]]

(* slow_precompute_twiddles: for the coset and its doublings, the x of the *)
(* first half in bit reversed order; one more value pads the tree.         *)
CosetXs(coset) ==
  LET n == 2 ^ coset.log \div 2 IN [i \in Vector(n) |-> ToPoint(IndexAt(coset, i)).x]
slow_precompute_twiddles(coset) ==
  LET tree[k \in 0 .. coset.log] ==
        IF k = 0 THEN [i \in {} |-> 0]
        ELSE Tabulated(Append2(tree[k - 1], bit_reverse(CosetXs(RepeatedDouble(coset, k - 1)))))
  IN  Append2(tree[coset.log], [i \in {0} |-> 1])
precompute_twiddles(coset) ==
  LET twiddles == Tabulated(slow_precompute_twiddles(coset))
  IN  [root_coset |-> coset, twiddles |-> twiddles,
       itwiddles |-> Tabulated([i \in DOMAIN twiddles |-> M31Inverse(twiddles[i])])]

(* The layers a domain of log size log reads from the end of a tree, layer *)
(* 0 being the longest.                                                    *)
domain_line_twiddles_from_tree(log, buffer) ==
  LET n == Size(buffer)
  IN  [layer \in Vector(log - 1) |->
         LET len == 2 ^ (log - 2 - layer) IN Slice(buffer, n - 2 * len, len)]
(* The tree of the subdomain of log size sub in a domain of log size       *)
(* domain: a prefix of every layer, in bit reversed order.                 *)
extract_subdomain_twiddles(buffer, domain, sub) ==
  LET buf_size == Size(buffer)
      skip_layers == Log2(buf_size) - (domain - 1)
      extracted[layer \in 0 .. sub - 1] ==
        IF layer = 0 THEN [i \in {} |-> 0]
        ELSE Append2(extracted[layer - 1],
                     Slice(buffer, buf_size - buf_size \div 2 ^ (skip_layers + layer - 1),
                           2 ^ (sub - 1 - layer)))
  IN  Append2(extracted[sub - 1], Slice(buffer, buf_size - 1, 1))
circle_twiddles_from_line_twiddles(first) ==
  [i \in Vector(2 * Size(first)) |->
     LET x == first[2 * (i \div 4)]
         y == first[2 * (i \div 4) + 1]
     IN  CASE i % 4 = 0 -> y [] i % 4 = 1 -> M31Neg(y) [] i % 4 = 2 -> M31Neg(x) [] OTHER -> x]

(* fft_layer_loop over one layer: block h of 2^(layer + 1) values meets    *)
(* twiddle h, in pairs at distance 2^layer that share no place.            *)
OnLayer(Op(_, _, _), v, layer, twiddles) ==
  LET upper == [i \in DOMAIN v |-> (i \div 2 ^ layer) % 2]
      first == [i \in DOMAIN v |-> i - upper[i] * 2 ^ layer]
  IN  Tabulated([i \in DOMAIN v |->
        Op(v[first[i]], v[first[i] + 2 ^ layer], twiddles[i \div 2 ^ (layer + 1)])[1 + upper[i]]])
FftLayer(v, layer, twiddles) == OnLayer(Butterfly, v, layer, twiddles)
IfftLayer(v, layer, itwiddles) == OnLayer(IButterfly, v, layer, itwiddles)
VectorScale(v, a) == Tabulated([i \in DOMAIN v |-> M31Mul(v[i], a)])

(* interpolate: the layers from the circle up, then a division by the size.*)
TwoBy(y, yn_inv, v) == VectorScale(OnPlaces(IButterfly, v, 0, 1, M31Mul(yn_inv, 2)), M31Mul(yn_inv, y))
TwoAt(y, v) == TwoBy(y, M31Inverse(M31Mul(y, 2)), v)
InterpolateTwo(half, v) == TwoAt(ToPoint(half.initial).y, v)
CircleOfFour(Op(_, _, _), v, y) == OnPlaces(Op, OnPlaces(Op, v, 0, 1, y), 2, 3, M31Neg(y))
LineOfFour(Op(_, _, _), v, x) == OnPlaces(Op, OnPlaces(Op, v, 0, 2, x), 1, 3, x)
FourBy(p, xyn_inv, v) ==
  VectorScale(LineOfFour(IButterfly, CircleOfFour(IButterfly, v, M31Mul(M31Mul(xyn_inv, p.x), 4)),
                         M31Mul(M31Mul(xyn_inv, p.y), 4)),
              M31Mul(M31Mul(xyn_inv, p.x), p.y))
FourAt(p, v) == FourBy(p, M31Inverse(M31Mul(M31Mul(p.x, p.y), 4)), v)
InterpolateFour(half, v) == FourAt(ToPoint(half.initial), v)
interpolate(half, v, tree) ==
  LET log == half.log + 1
      line == domain_line_twiddles_from_tree(log, tree.itwiddles)
      circle == IfftLayer(v, 0, circle_twiddles_from_line_twiddles(line[0]))
      lines[layer \in 0 .. log - 1] ==
        IF layer = 0 THEN circle ELSE IfftLayer(lines[layer - 1], layer, line[layer - 1])
  IN  CASE log = 1 -> InterpolateTwo(half, v)
        [] log = 2 -> InterpolateFour(half, v)
        [] OTHER   -> VectorScale(lines[log - 1], M31Inverse(2 ^ log % P))

(* evaluate_into: the coefficients, zeros up to the size of the domain,    *)
(* and the layers from the last line to the circle.                        *)
extend(coeffs, log) == [i \in Vector(2 ^ log) |-> IF i < Size(coeffs) THEN coeffs[i] ELSE 0]
EvaluateTwo(half, v) == OnPlaces(Butterfly, v, 0, 1, ToPoint(half.initial).y)
FourValuesAt(p, v) == CircleOfFour(Butterfly, LineOfFour(Butterfly, v, p.x), p.y)
EvaluateFour(half, v) == FourValuesAt(ToPoint(half.initial), v)
evaluate(half, coeffs, tree) ==
  LET log == half.log + 1
      buffer == Tabulated(extend(coeffs, log))
      line == domain_line_twiddles_from_tree(log, tree.twiddles)
      lines[layer \in 1 .. log] ==
        IF layer = log THEN buffer ELSE FftLayer(lines[layer + 1], layer, line[layer - 1])
  IN  CASE log = 1 -> EvaluateTwo(half, buffer)
        [] log = 2 -> EvaluateFour(half, buffer)
        [] OTHER   -> FftLayer(lines[1], 0, circle_twiddles_from_line_twiddles(line[0]))

(* core/poly/utils.rs fold: halves meet the first factor, then the next.   *)
fold(values, factors) ==
  LET n == Len(factors)
      folded[k \in 0 .. n] ==    \* after the last k factors
        IF k = 0 THEN values
        ELSE LET v == folded[k - 1]
             IN  Tabulated([i \in Vector(Size(v) \div 2) |->
                   QM31Add(v[2 * i], QM31Mul(v[2 * i + 1], factors[n - k + 1]))])
  IN  folded[n][0]
SecureVector(v) == Tabulated([i \in DOMAIN v |-> FromM31(v[i])])
(* The factors of eval_at_point and of get_folding_alphas: the doublings   *)
(* of x down to x, then y.                                                 *)
get_folding_alphas(point, len) ==
  LET xs[k \in 0 .. len] == IF k = 0 THEN point.x ELSE SecureDoubleX(xs[k - 1])
  IN  [i \in 1 .. len |-> IF i = len THEN point.y ELSE xs[len - 1 - i]]
EvalAtPoint(coeffs, point) ==
  IF Size(coeffs) = 1 THEN FromM31(coeffs[0])
  ELSE fold(SecureVector(coeffs), get_folding_alphas(point, Log2(Size(coeffs))))

(* barycentric_weights and barycentric_eval_at_point on a canonic domain.  *)
CanonicPoint(log, i) ==
  IntoEf(ToPoint(CircleIndexAt(CanonicHalfCoset(log), bit_reverse_index(i, log))))
VanishingScale(log, p) ==
  QM31Mul(QM31Scale(p.y, FromI32(-2)), CosetVanishingDerivative(Coset(1, log), p))
WeightAt(log, vn_p, q, p) == QM31Div(vn_p, QM31Mul(VanishingScale(log, q), PointVanishing(q, p)))
WeightsFor(log, vn_p, p) == [i \in Vector(2 ^ log) |-> WeightAt(log, vn_p, CanonicPoint(log, i), p)]
barycentric_weights(log, p) == WeightsFor(log, CosetVanishing(Odds(log), p), p)
BarycentricEval(values, weights) ==
  Combine(QM31Add, [i \in DOMAIN values |-> QM31Scale(weights[i], values[i])], Size(values))

(* fold_circle_into_line and fold_line by 2 of the CPU backend on an       *)
(* evaluation over QM31; line twiddles divide by x, circle ones by y.      *)
FoldPairs(v, alpha, itwiddles) ==
  Tabulated([i \in Vector(Size(v) \div 2) |->
    LET f0 == QM31Add(v[2 * i], v[2 * i + 1])
        f1 == QM31Scale(QM31Sub(v[2 * i], v[2 * i + 1]), itwiddles[i])
    IN  QM31Add(f0, QM31Mul(alpha, f1))])
CircleItwiddles(half) ==
  [i \in Vector(2 ^ half.log) |->
     M31Inverse(ToPoint(CircleIndexAt(half, bit_reverse_index(2 * i, half.log + 1))).y)]
LineItwiddles(coset) ==
  [i \in Vector(2 ^ coset.log \div 2) |->
     M31Inverse(ToPoint(IndexAt(coset, bit_reverse_index(2 * i, coset.log))).x)]
EvalAtPointByFolding(values, half, point) ==
  LET log == half.log + 1
      alphas == get_folding_alphas(point, log)
      layers[k \in 1 .. log] ==
        IF k = 1 THEN FoldPairs(SecureVector(values), alphas[log], CircleItwiddles(half))
        ELSE FoldPairs(layers[k - 1], alphas[log - k + 1],
                       LineItwiddles(RepeatedDouble(half, k - 2)))
  IN  QM31Div(layers[log][0], FromM31(2 ^ log % P))
=============================================================================
