----------------------------- MODULE GkrLookups -----------------------------
(***************************************************************************)
(* A batch of lookup circuits of several sizes, proved layer by layer with *)
(* GKR: one sumcheck per layer over all the circuits, on the CPU or SIMD   *)
(* backend; then a verifier that gets the proof, or a changed one.         *)
(***************************************************************************)
EXTENDS ColumnKernels, SequencesExt

VARIABLES gkr_job, gkr_prover, gkr_message, gkr_verifier
gkr_vars == <<gkr_job, gkr_prover, gkr_message, gkr_verifier>>

Settled(seq) == seq \o <<>>
(* Any order of additions, one of logarithmic depth here.                  *)
TreeSum(simd, v) ==
  LET sum[first \in DOMAIN v, n \in DOMAIN v] ==
        IF n = 1 THEN v[first]
        ELSE IF simd THEN LaneQM31Add(sum[first, n \div 2], sum[first + n \div 2, n - n \div 2])
        ELSE QM31Add(sum[first, n \div 2], sum[first + n \div 2, n - n \div 2])
  IN  sum[1, Len(v)]

(* --- prover/lookups/utils.rs ---                                         *)
horner_eval(coeffs, x) ==
  FoldRight(LAMBDA coeff, acc : QM31Add(QM31Mul(acc, x), coeff), coeffs, QM31Zero)
random_linear_combination(v, alpha) == horner_eval(v, alpha)
QM31Product(v) == FoldLeft(QM31Mul, QM31One, v)
eq(x, y) ==
  QM31Product([i \in DOMAIN x |->
    QM31Add(QM31Mul(x[i], y[i]), QM31Mul(QM31Sub(QM31One, x[i]), QM31Sub(QM31One, y[i])))])
fold_mle_evals(assignment, eval0, eval1) == QM31Add(QM31Mul(assignment, QM31Sub(eval1, eval0)), eval0)

Truncated(poly) ==
  LET kept == {k \in DOMAIN poly : poly[k] # QM31Zero}
  IN  IF kept = {} THEN <<>> ELSE SubSeq(poly, 1, CHOOSE k \in kept : \A j \in kept : j <= k)
CoeffAt(poly, k) == IF k \in DOMAIN poly THEN poly[k] ELSE QM31Zero
PolyAdd(p, q) ==
  Settled([k \in 1 .. (IF Len(p) >= Len(q) THEN Len(p) ELSE Len(q)) |-> QM31Add(CoeffAt(p, k), CoeffAt(q, k))])
PolyTimes(p, a) == Settled([k \in DOMAIN p |-> QM31Mul(p[k], a)])
(* term * (x - root), the one product that interpolation takes.            *)
TimesRoot(term, root) ==
  Truncated(PolyAdd(<<QM31Zero>> \o term, PolyTimes(term, QM31Neg(root))))
interpolate_lagrange(xs, ys) ==
  LET Others(i) == SelectSeq([j \in DOMAIN xs |-> j], LAMBDA j : j # i)
      Scale(i) == FoldLeft(LAMBDA prod, j : QM31Mul(prod, QM31Inverse(QM31Sub(xs[i], xs[j]))), ys[i], Others(i))
      Term(i) == FoldLeft(LAMBDA term, j : TimesRoot(term, xs[j]), Truncated(<<Scale(i)>>), Others(i))
  IN  IF Len(xs) # Len(ys) THEN <<>>
      ELSE Truncated(FoldLeft(LAMBDA acc, i : PolyAdd(acc, Term(i)), <<>>, [i \in DOMAIN xs |-> i]))
(* The lazy take_while consumes nothing: leading zeros count.              *)
degree(poly) == IF poly = <<>> THEN 0 ELSE Len(poly) - 1
MAX_DEGREE == 3

(* --- the channel ---                                                     *)
Absorb(digest, felt) == QM31Add(QM31Mul(QM31Mul(digest, digest), <<<<3, 1>>, <<0, 5>>>>), QM31Add(felt, <<<<1, 2>>, <<3, 4>>>>))
mix_felts(channel, felts) ==
  [digest |-> Absorb(channel.digest, horner_eval(Append(felts, FromM31(Len(felts))), <<<<6, 1>>, <<8, 3>>>>)), n_draws |-> 0]
DrawAt(channel, k) == Absorb(channel.digest, <<<<9, k>>, <<7, 6>>>>)
draw_secure_felt(channel) ==
  [felt |-> DrawAt(channel, channel.n_draws), channel |-> [channel EXCEPT !.n_draws = @ + 1]]
FreshChannel == [digest |-> QM31Zero, n_draws |-> 0]

(* --- layers: a column of denominators (of factors in a grand product)    *)
(* and one of numerators; numerators in the base field are embedded.       *)
NumVariables(layer) == Log2(Size(layer.den))
ToCpuLayer(layer) == [layer EXCEPT !.den = ReducedSecure(@), !.num = ReducedSecure(@)]
VecAt(mle, v) == [l \in Vector(Lanes) |-> mle[v * Lanes + l]]
(* The values of an MLE at (bits(j), 0) and (bits(j), 1).                  *)
PairAt(simd, mle, j) ==
  IF simd
  THEN LET parted == Deinterleave(VecAt(mle, 2 * (j \div Lanes)), VecAt(mle, 2 * (j \div Lanes) + 1))
       IN  <<parted[1][j % Lanes], parted[2][j % Lanes]>>
  ELSE <<mle[2 * j], mle[2 * j + 1]>>
(* Numerator and denominator of a sum of two fractions or reciprocals.     *)
GateOutput(simd, kind, num, den) ==
  <<IF kind = "LogUpSingles" THEN Plus(simd, den[1], den[2])
    ELSE Plus(simd, Times(simd, num[1], den[2]), Times(simd, num[2], den[1])),
    Times(simd, den[1], den[2])>>
GateAt(simd, layer, j) ==
  LET den == PairAt(simd, layer.den, j)
  IN  IF layer.kind = "GrandProduct" THEN <<QM31Zero, Times(simd, den[1], den[2])>>
      ELSE GateOutput(simd, layer.kind, IF layer.kind = "LogUpSingles" THEN <<>> ELSE PairAt(simd, layer.num, j), den)

ProductLayer(out) == [kind |-> "GrandProduct", num |-> <<>>, den |-> Tabulated([j \in DOMAIN out |-> out[j][2]])]
LogupLayer(out) ==
  [kind |-> "LogUpGeneric", num |-> Tabulated([j \in DOMAIN out |-> out[j][1]]), den |-> Tabulated([j \in DOMAIN out |-> out[j][2]])]
(* next_grand_product_layer and next_logup_layer; the CPU's loops, or those*)
(* over vectors.                                                           *)
GateLayer(simd, layer) ==
  LET out == Tabulated([j \in Vector(Size(layer.den) \div 2) |-> GateAt(simd, layer, j)])
  IN  IF layer.kind = "GrandProduct" THEN ProductLayer(out) ELSE LogupLayer(out)
next_layer(backend, layer) ==
  IF backend = "simd" /\ NumVariables(layer) > LogLanes THEN GateLayer(TRUE, layer)
  ELSE GateLayer(FALSE, IF backend = "cpu" THEN layer ELSE ToCpuLayer(layer))
(* Output layer first.                                                     *)
gen_layers(backend, layer) ==
  LET n == NumVariables(layer)
      above[k \in 0 .. n] == IF k = 0 THEN layer ELSE next_layer(backend, above[k - 1])
  IN  [k \in 1 .. n + 1 |-> above[n + 1 - k]]
output_layer_values(layer) ==
  CASE layer.kind = "GrandProduct" -> <<ReduceQM31(layer.den[0])>>
    [] layer.kind = "LogUpSingles" -> <<QM31One, ReduceQM31(layer.den[0])>>
    [] OTHER -> <<ReduceQM31(layer.num[0]), ReduceQM31(layer.den[0])>>

FixMle(backend, mle, assignment) ==
  LET midpoint == Size(mle) \div 2
      from == IF backend = "simd" /\ midpoint < Lanes THEN ReducedSecure(mle) ELSE mle
  IN  Tabulated([i \in Vector(midpoint) |->
        IF backend = "simd" /\ midpoint >= Lanes
        THEN LaneQM31Add(LaneQM31Mul(assignment, LaneQM31Sub(from[i + midpoint], from[i])), from[i])
        ELSE fold_mle_evals(assignment, from[i], from[i + midpoint])])
FixLayer(backend, layer, x0) ==
  [kind |-> IF layer.kind = "LogUpMultiplicities" THEN "LogUpGeneric" ELSE layer.kind,
   num |-> IF layer.num = <<>> THEN <<>> ELSE FixMle(backend, layer.num, x0),
   den |-> FixMle(backend, layer.den, x0)]

(* --- eq(x, y) over the hypercube ---                                     *)
(* One variable of y at a time, the last one first; with SIMD by vectors   *)
(* once there are enough lanes.                                            *)
gen_eq_evals(backend, y, v) ==
  LET n == Len(y)
      evals[k \in 0 .. n] ==
        IF k = 0 THEN Tabulated([j \in Vector(1) |-> v])
        ELSE LET simd == backend = "simd" /\ n >= LogLanes /\ k > LogLanes
                 half == 2 ^ (k - 1)
                 rhs == Tabulated([j \in Vector(half) |-> Times(simd, evals[k - 1][j], y[n + 1 - k])])
             IN  Tabulated([j \in Vector(2 * half) |->
                   IF j < half THEN Minus(simd, evals[k - 1][j], rhs[j]) ELSE rhs[j - half]])
  IN  evals[n]
EqEvals(backend, y) ==
  IF y = <<>> THEN Tabulated([j \in Vector(1) |-> QM31One])
  ELSE gen_eq_evals(backend, Tail(y), eq(<<QM31Zero>>, <<Head(y)>>))

(* --- the sumcheck oracle of a layer ---                                  *)
(* An oracle is the layer it sums, with eq of the variables already fixed. *)
OracleVariables(oracle) == NumVariables(oracle.layer) - 1
(* A sum at 0 and at 2, where inp(2, x) = 2 inp(1, x) - inp(0, x).         *)
AtTwo(simd, pair0, pair1) ==
  IF pair0 = <<>> THEN <<>>
  ELSE [c \in 1 .. 2 |-> Minus(simd, Plus(simd, pair1[c], pair1[c]), pair0[c])]
TermInputs(simd, layer, n_terms) ==
  LET Half(mle, i) == IF mle = <<>> THEN <<>> ELSE PairAt(simd, mle, i)
      ends == Settled([j \in 1 .. 2 * n_terms |-> <<Half(layer.num, j - 1), Half(layer.den, j - 1)>>])
  IN  Settled([i \in 1 .. n_terms |->
        <<ends[i], <<AtTwo(simd, ends[i][1], ends[n_terms + i][1]), AtTwo(simd, ends[i][2], ends[n_terms + i][2])>>>>])
WithLambda(simd, lambda, out) == Plus(simd, out[1], Times(simd, lambda, out[2]))
TermOutput(simd, kind, lambda, num, den) ==
  IF kind = "GrandProduct" THEN Times(simd, den[1], den[2])
  ELSE WithLambda(simd, lambda, GateOutput(simd, kind, num, den))
eval_sums(simd, layer, eq_evals, n_terms, lambda) ==
  LET inputs == TermInputs(simd, layer, n_terms)
      SumAt(k) ==
        TreeSum(simd, Settled([i \in 1 .. n_terms |->
          Times(simd, eq_evals[i - 1], TermOutput(simd, layer.kind, lambda, inputs[i][k][1], inputs[i][k][2]))]))
  IN  Settled([k \in 1 .. 2 |-> ReduceQM31(SumAt(k))])

RoundPoly(r_at_0, r_at_2, claim, b_const) ==
  interpolate_lagrange(<<QM31Zero, QM31One, FromM31(2), b_const>>, <<r_at_0, QM31Sub(claim, r_at_0), r_at_2, QM31Zero>>)
EqTimes(f, t, y_k, a_const) == QM31Mul(QM31Mul(f, eq(<<t>>, <<y_k>>)), a_const)
RootOfEq(y_k) == QM31Mul(QM31Sub(QM31One, y_k), QM31Inverse(QM31Sub(QM31One, QM31Add(y_k, y_k))))
Corrected(f_at_0, f_at_2, claim, y_k, a_const) ==
  RoundPoly(EqTimes(f_at_0, QM31Zero, y_k, a_const), EqTimes(f_at_2, FromM31(2), y_k, a_const), claim, RootOfEq(y_k))
(* Mutant: the variables already fixed are left out of the correction. *)
correct_sum_of_suffix(f_at_0, f_at_2, claim, y, k) ==
  Corrected(f_at_0, f_at_2, claim, y[Len(y) - k + 1], QM31Inverse(QM31Sub(QM31One, y[Len(y) - k + 1])))
(* From sums over eq(0, y) to the round polynomial, by its claim and its   *)
(* root.                                                                   *)
correct_sum_as_poly_in_first_variable(f_at_0, f_at_2, claim, y, k) ==
  LET first == SubSeq(y, 1, Len(y) - k + 1)
  IN  Corrected(f_at_0, f_at_2, claim, y[Len(y) - k + 1], QM31Inverse(eq([i \in DOMAIN first |-> QM31Zero], first)))
PolyOfSums(sums, correction, claim, y, k) ==
  correct_sum_as_poly_in_first_variable(QM31Mul(sums[1], correction), QM31Mul(sums[2], correction), claim, y, k)
sum_as_poly_in_first_variable(backend, oracle, eq_evals, lambda, y, claim) ==
  LET n_terms == 2 ^ (OracleVariables(oracle) - 1)
      simd == backend = "simd" /\ n_terms >= Lanes
      onCpu == backend = "simd" /\ ~simd
      layer == IF onCpu THEN ToCpuLayer(oracle.layer) ELSE oracle.layer
      evals == IF onCpu THEN Tabulated([i \in Vector(n_terms) |-> ReduceQM31(eq_evals[i])]) ELSE eq_evals
  IN  IF OracleVariables(oracle) = 0 THEN <<>>
      ELSE PolyOfSums(eval_sums(simd, layer, evals, n_terms, lambda), oracle.correction, claim, y, OracleVariables(oracle))
FixOracle(backend, oracle, y, challenge) ==
  LET z0 == y[Len(y) - OracleVariables(oracle) + 1]
  IN  [oracle EXCEPT !.layer = FixLayer(backend, @, challenge),
                     !.correction = QM31Mul(@, eq(<<challenge>>, <<z0>>))]
try_into_mask(layer) ==
  LET Ends(mle) == <<ReduceQM31(mle[0]), ReduceQM31(mle[1])>>
  IN  CASE layer.kind = "GrandProduct" -> <<Ends(layer.den)>>
        [] layer.kind = "LogUpSingles" -> <<<<QM31One, QM31One>>, Ends(layer.den)>>
        [] OTHER -> <<Ends(layer.num), Ends(layer.den)>>
reduce_at_point(mask, x) == [c \in DOMAIN mask |-> fold_mle_evals(x, mask[c][1], mask[c][2])]

-----------------------------------------------------------------------------
(* Bounds: the circuits of each batch, by kind and number of variables.    *)
Batches ==
  [mixed |-> <<<<"LogUpMultiplicities", 5>>, <<"LogUpSingles", 2>>, <<"GrandProduct", 4>>>>,
   equal |-> <<<<"LogUpSingles", 5>>, <<"LogUpGeneric", 5>>>>,
   late  |-> <<<<"GrandProduct", 1>>, <<"LogUpMultiplicities", 2>>>>,
   lone  |-> <<<<"LogUpMultiplicities", 1>>>>]
InputMle(n, salt) ==
  Tabulated([i \in Vector(2 ^ n) |-> <<<<(i * i + salt) % P, (3 * i + 2 * salt) % P>>, <<(5 * i + 1) % P, (salt * i + 7) % P>>>>])
InputLayer(kind, n, salt) ==
  [kind |-> kind, den |-> InputMle(n, salt),
   num |-> CASE kind = "LogUpGeneric" -> InputMle(n, salt + 11)
             [] kind = "LogUpMultiplicities" -> Tabulated([i \in Vector(2 ^ n) |-> FromM31((7 * i + salt) % P)])
             [] OTHER -> <<>>]
InputLayers ==
  [name \in DOMAIN Batches |->
    [i \in DOMAIN Batches[name] |-> InputLayer(Batches[name][i][1], Batches[name][i][2], 13 * i)]]

Instances == DOMAIN Batches[gkr_job.batch]
VariablesOf(i) == Batches[gkr_job.batch][i][2]
MostVariables == CHOOSE n \in {VariablesOf(i) : i \in Instances} : \A i \in Instances : VariablesOf(i) <= n
GateOf(i) == IF Batches[gkr_job.batch][i][1] = "GrandProduct" THEN "GrandProduct" ELSE "LogUp"
InOrder(S) == SelectSeq([i \in 1 .. Len(Batches[gkr_job.batch]) |-> i], LAMBDA i : i \in S)
MixAll(channel, felts_by_instance) == FoldLeft(mix_felts, channel, felts_by_instance)

NoProof == [sumcheck_proofs |-> <<>>, masks |-> <<>>, outputs |-> <<>>]
IdleProver == [step |-> "idle"]
IdleVerifier == [step |-> "idle"]
NoArtifact == [ood_point |-> <<>>, claims |-> <<>>, n_variables |-> <<>>]
GkrIdle ==
  /\ gkr_job = [batch |-> "lone", backend |-> "none"] /\ gkr_prover = IdleProver
  /\ gkr_message = [proof |-> NoProof, change |-> [kind |-> "none"]] /\ gkr_verifier = IdleVerifier
GkrInit ==
  /\ gkr_job \in [batch : DOMAIN Batches, backend : {"cpu", "simd"}]
  /\ gkr_prover = IdleProver
  /\ gkr_message = [proof |-> NoProof, change |-> [kind |-> "none"]] /\ gkr_verifier = IdleVerifier

(* --- prove_batch ---                                                     *)
GenerateLayers ==
  /\ gkr_prover.step = "idle" /\ gkr_verifier.step = "idle" /\ gkr_job.backend # "none"
  /\ gkr_prover' =
       [step |-> "layer", layer |-> 0, ood_point |-> <<>>, channel |-> FreshChannel, proof |->
          [sumcheck_proofs |-> <<>>, masks |-> [i \in Instances |-> <<>>], outputs |-> [i \in Instances |-> <<>>]],
        layers |-> [i \in Instances |-> gen_layers(gkr_job.backend, InputLayers[gkr_job.batch][i])],
        claims |-> [i \in Instances |-> <<>>], oracles |-> <<>>, sums |-> <<>>, eq_evals |-> <<>>,
        alpha |-> QM31Zero, lambda |-> QM31Zero, assignment |-> <<>>, rounds |-> <<>>]
  /\ UNCHANGED <<gkr_job, gkr_message, gkr_verifier>>
(* Circuits join when as many layers remain as they have variables.        *)
StartLayer ==
  LET prover == gkr_prover
      joining == {i \in Instances : VariablesOf(i) = MostVariables - prover.layer}
      active == InOrder({i \in Instances : VariablesOf(i) >= MostVariables - prover.layer})
      Layers(i) == IF i \in joining THEN Tail(prover.layers[i]) ELSE prover.layers[i]
      Claims == [i \in Instances |-> IF i \in joining THEN output_layer_values(Head(prover.layers[i])) ELSE prover.claims[i]]
      Doubling(i) == FromM31((2 ^ (MostVariables - VariablesOf(i))) % P)
      With(claims, alpha, lambda) ==
        [prover EXCEPT
          !.step = "sumcheck", !.claims = claims, !.channel = lambda.channel,
          !.alpha = alpha.felt, !.lambda = lambda.felt, !.eq_evals = EqEvals(gkr_job.backend, prover.ood_point),
          !.layers = [i \in Instances |-> IF i \in ToSet(active) THEN Tail(Layers(i)) ELSE Layers(i)],
          !.oracles = [k \in DOMAIN active |->
                         [instance |-> active[k], layer |-> Head(Layers(active[k])), correction |-> QM31One]],
          !.sums = [k \in DOMAIN active |->
                      QM31Mul(random_linear_combination(claims[active[k]], lambda.felt), Doubling(active[k]))],
          !.assignment = <<>>, !.rounds = <<>>,
          !.proof.outputs = [i \in Instances |-> IF i \in joining THEN claims[i] ELSE @[i]]]
  IN  /\ prover.step = "layer" /\ prover.layer < MostVariables
      /\ \E claims \in {Settled(Claims)} :
         \E alpha \in {draw_secure_felt(MixAll(prover.channel, [k \in DOMAIN active |-> claims[active[k]]]))} :
         \E lambda \in {draw_secure_felt(alpha.channel)} :
           gkr_prover' = With(claims, alpha, lambda)
      /\ UNCHANGED <<gkr_job, gkr_message, gkr_verifier>>
(* A smaller circuit halves its claim until its variables are reached.     *)
SumcheckRound ==
  LET prover == gkr_prover
      remaining == prover.layer - Len(prover.rounds)
      Polys == [k \in DOMAIN prover.oracles |->
                  IF OracleVariables(prover.oracles[k]) = remaining
                  THEN sum_as_poly_in_first_variable(gkr_job.backend, prover.oracles[k], prover.eq_evals, prover.lambda,
                                                     prover.ood_point, prover.sums[k])
                  ELSE Truncated(<<QM31Mul(prover.sums[k], QM31Inverse(FromM31(2)))>>)]
      Combined(polys) == FoldRight(LAMBDA poly, acc : PolyAdd(PolyTimes(acc, prover.alpha), poly), polys, <<>>)
      After(polys, round_poly, challenge) ==
        LET consistent == \A k \in DOMAIN polys :
              /\ QM31Add(horner_eval(polys[k], QM31Zero), horner_eval(polys[k], QM31One)) = prover.sums[k]
              /\ degree(polys[k]) <= MAX_DEGREE
        IN  IF ~consistent THEN [prover EXCEPT !.step = "panicked"]
            ELSE [prover EXCEPT
                   !.rounds = Append(@, round_poly), !.channel = challenge.channel, !.assignment = Append(@, challenge.felt),
                   !.sums = [k \in DOMAIN polys |-> horner_eval(polys[k], challenge.felt)],
                   !.oracles = [k \in DOMAIN polys |->
                                  IF OracleVariables(@[k]) = remaining
                                  THEN FixOracle(gkr_job.backend, @[k], prover.ood_point, challenge.felt) ELSE @[k]]]
  IN  /\ prover.step = "sumcheck" /\ remaining > 0
      /\ \E polys \in {Settled(Polys)} :
         \E round_poly \in {Combined(polys)} :
         \E challenge \in {draw_secure_felt(mix_felts(prover.channel, round_poly))} :
           gkr_prover' = After(polys, round_poly, challenge)
      /\ UNCHANGED <<gkr_job, gkr_message, gkr_verifier>>
(* The masks, and the claims on the layer above.  Multiplicities that were *)
(* never folded have none.                                                 *)
FinishLayer ==
  LET prover == gkr_prover
      active == {prover.oracles[k].instance : k \in DOMAIN prover.oracles}
      LayerOf(i) == prover.oracles[CHOOSE k \in DOMAIN prover.oracles : prover.oracles[k].instance = i].layer
      order == InOrder(active)
      With(masks, challenge) ==
        [prover EXCEPT
          !.step = IF prover.layer + 1 = MostVariables THEN "proved" ELSE "layer",
          !.layer = @ + 1, !.channel = challenge.channel,
          !.ood_point = Append(prover.assignment, challenge.felt), !.oracles = <<>>, !.eq_evals = <<>>,
          !.claims = [i \in Instances |-> IF i \in active THEN reduce_at_point(masks[i], challenge.felt) ELSE @[i]],
          !.proof.sumcheck_proofs = Append(@, prover.rounds),
          !.proof.masks = [i \in Instances |-> IF i \in active THEN Append(@[i], masks[i]) ELSE @[i]]]
  IN  /\ prover.step = "sumcheck" /\ Len(prover.rounds) = prover.layer
      /\ IF \E i \in active : LayerOf(i).kind = "LogUpMultiplicities"
         THEN gkr_prover' = [prover EXCEPT !.step = "panicked"]
         ELSE \E masks \in {Tabulated([i \in active |-> try_into_mask(LayerOf(i))])} :
              \E challenge \in {draw_secure_felt(MixAll(prover.channel, [k \in DOMAIN order |-> FlattenSeq(masks[order[k]])]))} :
                gkr_prover' = With(masks, challenge)
      /\ UNCHANGED <<gkr_job, gkr_message, gkr_verifier>>

-----------------------------------------------------------------------------
(* Bounds: the proof arrives as it was sent, or with one change.           *)
RoundsOf(proof) == {<<l, r>> \in (DOMAIN proof.sumcheck_proofs) \X (1 .. MostVariables) : r <= Len(proof.sumcheck_proofs[l])}
MasksOf(proof) == {<<i, l>> \in (DOMAIN proof.masks) \X (1 .. MostVariables) : l <= Len(proof.masks[i])}
NoChange == [kind |-> "none"]
Changes(proof) ==
  {NoChange}
  \cup (IF gkr_job.backend # "cpu" THEN {}
        ELSE [kind : {"mask", "no_column"}, at : MasksOf(proof)]
          \cup [kind : {"scaled"}, at : {m \in MasksOf(proof) : GateOf(m[1]) = "GrandProduct"}]
          \cup [kind : {"output", "no_mask"}, at : DOMAIN proof.masks]
          \cup [kind : {"round", "shifted", "padded"}, at : RoundsOf(proof)]
          \cup [kind : {"no_round"}, at : {l \in DOMAIN proof.sumcheck_proofs : proof.sumcheck_proofs[l] # <<>>}]
          \cup [kind : {"no_sumcheck", "no_outputs", "no_gate"}, at : {0}])
Increment(v) == QM31Add(v, <<<<1, 0>>, <<0, 1>>>>)
Halved(v) == QM31Mul(v, QM31Inverse(FromM31(2)))
ChangedProof(proof, c) ==
  CASE c.kind = "mask" -> [proof EXCEPT !.masks[c.at[1]][c.at[2]][1][1] = Increment(@)]
    [] c.kind = "no_column" -> [proof EXCEPT !.masks[c.at[1]][c.at[2]] = Tail(@)]
    [] c.kind = "scaled" -> [proof EXCEPT !.masks[c.at[1]][c.at[2]][1] = <<Halved(@[1]), QM31Add(@[2], @[2])>>]
    [] c.kind = "output" -> [proof EXCEPT !.outputs[c.at][1] = Increment(@)]
    [] c.kind = "no_mask" -> [proof EXCEPT !.masks[c.at] = Front(@)]
    [] c.kind = "round" -> [proof EXCEPT !.sumcheck_proofs[c.at[1]][c.at[2]] = <<Increment(Head(@))>> \o Tail(@)]
    [] c.kind = "shifted" -> [proof EXCEPT !.sumcheck_proofs[c.at[1]][c.at[2]] =
                               PolyAdd(@, <<QM31Zero, QM31One, QM31Neg(QM31One)>>)]
    [] c.kind = "padded" -> [proof EXCEPT !.sumcheck_proofs[c.at[1]][c.at[2]] = @ \o <<QM31Zero>>]
    [] c.kind = "no_round" -> [proof EXCEPT !.sumcheck_proofs[c.at] = Front(@)]
    [] c.kind = "no_sumcheck" -> [proof EXCEPT !.sumcheck_proofs = Front(@)]
    [] c.kind = "no_outputs" -> [proof EXCEPT !.outputs = Front(@)]
    [] OTHER -> proof
StartVerifier == [step |-> "layer", layer |-> 0, ood_point |-> <<>>, channel |-> FreshChannel, claims |-> <<>>]
ReceiveProof ==
  /\ gkr_prover.step = "proved" /\ gkr_verifier.step = "idle"
  /\ \E change \in Changes(gkr_prover.proof) :
       gkr_message' = [proof |-> ChangedProof(gkr_prover.proof, change), change |-> change]
  /\ gkr_verifier' = [StartVerifier EXCEPT !.step = "shape"]
  /\ UNCHANGED <<gkr_job, gkr_prover>>

(* --- partially_verify_batch ---                                          *)
Received == gkr_message.proof
Gates == LET all == [i \in Instances |-> GateOf(i)] IN IF gkr_message.change.kind = "no_gate" THEN Front(all) ELSE all
instance_n_layers(i) == Len(Received.masks[i])
VerifierLayers == CHOOSE n \in {instance_n_layers(i) : i \in DOMAIN Received.masks} :
                    \A i \in DOMAIN Received.masks : instance_n_layers(i) <= n
Reject(error) == gkr_verifier' = [gkr_verifier EXCEPT !.step = error]
CheckShape ==
  /\ gkr_verifier.step = "shape"
  /\ IF \/ Len(Received.masks) # Len(Received.outputs)
        \/ VerifierLayers # Len(Received.sumcheck_proofs)
     THEN Reject("MalformedProof")
     ELSE IF Len(Gates) # Len(Received.masks) THEN Reject("NumInstancesMismatch")
     ELSE gkr_verifier' = [gkr_verifier EXCEPT !.step = "layer", !.claims = [i \in Instances |-> <<>>]]
  /\ UNCHANGED <<gkr_job, gkr_prover, gkr_message>>
AfterRound(state, poly, drawn) ==
  [error |-> "none", claim |-> horner_eval(poly, drawn.felt), channel |-> drawn.channel,
   assignment |-> Append(state.assignment, drawn.felt)]
(* Round by round: the claim must be the sum at 0 and 1.                   *)
partially_verify(claim, round_polys, channel) ==
  LET Round(state, poly) ==
        IF state.error # "none" THEN state
        ELSE IF degree(poly) > MAX_DEGREE THEN [state EXCEPT !.error = "DegreeInvalid"]
        ELSE IF QM31Add(horner_eval(poly, QM31Zero), horner_eval(poly, QM31One)) # state.claim
        THEN [state EXCEPT !.error = "SumInvalid"]
        ELSE AfterRound(state, poly, draw_secure_felt(mix_felts(state.channel, poly)))
  IN  FoldLeft(Round, [error |-> "none", claim |-> claim, channel |-> channel, assignment |-> <<>>], round_polys)
ColumnsOfGate(gate) == IF gate = "LogUp" THEN 2 ELSE 1
GateEval(gate, mask) ==
  IF gate = "LogUp" THEN GateOutput(FALSE, "LogUpGeneric", mask[1], mask[2]) ELSE <<QM31Mul(mask[1][1], mask[1][2])>>
Suffix(v, n) == SubSeq(v, n + 1, Len(v))
LayerEval(gate, mask, ood_point, assignment, unused, lambda) ==
  QM31Mul(eq(Suffix(ood_point, unused), Suffix(assignment, unused)), random_linear_combination(GateEval(gate, mask), lambda))
(* The code looks up the layer number among the circuits when a mask has   *)
(* the wrong number of columns, and eq asserts that its points are as long.*)
(* The layer it then computes for the error may be negative: it is taken   *)
(* to wrap, as in a release build; a debug build panics.  The number is    *)
(* only in the error's text, and no property depends on which of the two.  *)
VerifyGkrLayer ==
  LET verifier == gkr_verifier
      Unused(i) == VerifierLayers - instance_n_layers(i)
      Mask(i) == Received.masks[i][verifier.layer + 1 - Unused(i)]
      active == InOrder({i \in Instances : instance_n_layers(i) >= VerifierLayers - verifier.layer})
      claims == [i \in Instances |->
                   IF instance_n_layers(i) = VerifierLayers - verifier.layer THEN Received.outputs[i] ELSE verifier.claims[i]]
      ClaimOf(alpha, lambda) ==
        random_linear_combination([k \in DOMAIN active |->
          QM31Scale(random_linear_combination(claims[active[k]], lambda.felt), (2 ^ Unused(active[k])) % P)], alpha.felt)
      Checked(alpha, lambda, sumcheck, challenge) ==
        LET WrongMask(k) == Len(Mask(active[k])) # ColumnsOfGate(Gates[active[k]])
            ShortPoint == Len(sumcheck.assignment) # Len(verifier.ood_point)
            Evals == [k \in DOMAIN active |->
                        LayerEval(Gates[active[k]], Mask(active[k]), verifier.ood_point, sumcheck.assignment,
                                  Unused(active[k]), lambda.felt)]
        IN  IF sumcheck.error # "none" THEN [verifier EXCEPT !.step = sumcheck.error]
            ELSE IF ShortPoint THEN [verifier EXCEPT !.step = "panicked"]
            ELSE IF \E k \in DOMAIN active : WrongMask(k)
            THEN [verifier EXCEPT !.step = IF verifier.layer >= Len(Received.masks) THEN "panicked" ELSE "InvalidMask"]
            ELSE IF random_linear_combination(Evals, alpha.felt) # sumcheck.claim
            THEN [verifier EXCEPT !.step = "CircuitCheckFailure"]
            ELSE [verifier EXCEPT !.step = IF @ = "layer" /\ verifier.layer + 1 = VerifierLayers THEN "accepted" ELSE @,
                                  !.layer = @ + 1, !.channel = challenge.channel,
                                  !.ood_point = Append(sumcheck.assignment, challenge.felt),
                                  !.claims = [i \in Instances |->
                                                IF i \in ToSet(active) THEN reduce_at_point(Mask(i), challenge.felt) ELSE claims[i]]]
  IN  /\ verifier.step = "layer"
      /\ \E alpha \in {draw_secure_felt(MixAll(verifier.channel, [k \in DOMAIN active |-> claims[active[k]]]))} :
         \E lambda \in {draw_secure_felt(alpha.channel)} :
         \E claim \in {ClaimOf(alpha, lambda)} :
         \E sumcheck \in {partially_verify(claim, Received.sumcheck_proofs[verifier.layer + 1], lambda.channel)} :
         \E challenge \in {draw_secure_felt(MixAll(sumcheck.channel, [k \in DOMAIN active |-> FlattenSeq(Mask(active[k]))]))} :
           gkr_verifier' = Checked(alpha, lambda, sumcheck, challenge)
      /\ UNCHANGED <<gkr_job, gkr_prover, gkr_message>>

GkrNext ==
  \/ GenerateLayers \/ StartLayer \/ SumcheckRound \/ FinishLayer
  \/ ReceiveProof \/ CheckShape \/ VerifyGkrLayer

(* PROPERTIES *)
(* A multilinear extension at a point, by its definition.                  *)
BitOf(x, n, j) == FromM31((x \div 2 ^ (n - j)) % 2)
MleAt(mle, point) ==
  LET n == Len(point)
  IN  TreeSum(FALSE, Settled([x \in 1 .. 2 ^ n |-> QM31Mul(mle[x - 1], eq([j \in 1 .. n |-> BitOf(x - 1, n, j)], point))]))
MleColumns(layer, point) ==
  (CASE layer.kind = "GrandProduct" -> <<>>
     [] layer.kind = "LogUpSingles" -> <<QM31One>>
     [] OTHER -> <<MleAt(layer.num, point)>>) \o <<MleAt(layer.den, point)>>
TrueClaims(ood_point) ==
  [i \in Instances |->
    MleColumns(InputLayers[gkr_job.batch][i], Suffix(ood_point, Len(ood_point) - VariablesOf(i)))]
(* What either backend proves is accepted, and reduces to the values of    *)
(* the input columns at the point: sizes, folds and corrections line up    *)
(* over all rounds.  Accepting a changed proof leaves a claim on the input *)
(* that is false.                                                          *)
GkrClaimsAreReduced ==
  /\ gkr_prover.step = "panicked" => gkr_job.batch = "lone"
  /\ gkr_message.change = NoChange =>
       /\ gkr_verifier.step \in {"idle", "shape", "layer", "accepted"}
       /\ gkr_verifier.step = "accepted" =>
            /\ gkr_verifier.claims = gkr_prover.claims /\ gkr_verifier.ood_point = gkr_prover.ood_point
            /\ gkr_verifier.claims = TrueClaims(gkr_verifier.ood_point)
  /\ gkr_message.change # NoChange /\ gkr_verifier.step = "accepted" =>
       gkr_verifier.claims # TrueClaims(gkr_verifier.ood_point)
=============================================================================
