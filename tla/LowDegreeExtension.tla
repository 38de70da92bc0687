-------------------------- MODULE LowDegreeExtension --------------------------
(***************************************************************************)
(* A column of packed lanes on its way to a commitment: interpolate,       *)
(* scale, evaluate on the larger domain.  extension is the request, column *)
(* the buffer that interpolate overwrites and evaluate reads, buffer the   *)
(* caller's buffer for the evaluations.  stage names the transform that    *)
(* runs, its phase and the subdomain; progress counts the loops each task  *)
(* of the phase has run.                                                   *)
(***************************************************************************)
EXTENDS SimdTransforms

CONSTANTS CachedLogSizes, \* values taken for CACHED_FFT_LOG_SIZE
          MaxExtension    \* bound: log blowups

VARIABLES extension, column, buffer, stage, progress
lde_vars == <<extension, column, buffer, stage, progress>>

(* Lanes of many values, P among them.                                     *)
Ramp(log) == Tabulated([i \in Vector(2 ^ log) |-> (37 * i + 90) % (P + 1)])
UnitAt(log, j) == Tabulated([i \in Vector(2 ^ log) |-> IF i = j THEN P + 1 - 2 ^ (ModulusBits - 1) ELSE P])
Garbage(log) == Tabulated([i \in Vector(2 ^ log) |-> Word - 1])
Requests ==
  {[log |-> log, blowup |-> blowup, cached |-> cached, lanes |-> lanes] :
     log \in 1 .. RootLog + 1, blowup \in 0 .. MaxExtension, cached \in CachedLogSizes,
     lanes \in {"ramp", "unit"}}
InputLanes(r) == IF r.lanes = "ramp" THEN Ramp(r.log) ELSE UnitAt(r.log, 2 ^ r.log - 2)

NoStage == [at |-> "idle", phase |-> 0, sub |-> 0]
LdeIdle ==
  /\ extension = [log |-> 0, blowup |-> 0, cached |-> 0, lanes |-> "none"]
  /\ column = <<>> /\ buffer = <<>> /\ stage = NoStage /\ progress = <<>>

(* The phases of a transform: the part with the vecwise layers, preceded   *)
(* or followed by a transposition and the other layers when the column is  *)
(* longer than cached.                                                     *)
Vecs(r) == r.log - LogLanes
PreTranspose(r) == (Vecs(r) + 1) \div 2
PostTranspose(r) == Vecs(r) \div 2
Layers(first, last) == [k \in 1 .. (last - first + 3) \div 3 |-> first + 3 * (k - 1)]
Phases(r) ==
  IF r.log <= r.cached THEN << [kind |-> "with", layers |-> r.log] >>
  ELSE << [kind |-> "with", layers |-> PreTranspose(r) + LogLanes],
          [kind |-> "transpose", layers |-> Vecs(r)],
          [kind |-> "without", layers |-> PostTranspose(r)] >>
PhaseAt(r, transform, k) ==
  LET phases == Phases(r)
  IN  IF transform = "interpolate" THEN phases[k] ELSE phases[Len(phases) + 1 - k]
Tasks(r, phase) ==
  Vector(CASE phase.kind = "with" -> 2 ^ (r.log - phase.layers)
           [] phase.kind = "without" -> 2 ^ (r.log - phase.layers - LogLanes)
           [] OTHER -> 2 ^ (Vecs(r) \div 2))
(* The loops of a task: their first layers, the vecwise loop being at 0.   *)
Loops(transform, phase) ==
  LET layers == CASE phase.kind = "with" -> <<0>> \o Layers(VECWISE_FFT_BITS, phase.layers - 1)
                  [] phase.kind = "without" -> Layers(0, phase.layers - 1)
                  [] OTHER -> <<0>>
  IN  IF transform = "interpolate" THEN layers
      ELSE [k \in 1 .. Len(layers) |-> layers[Len(layers) + 1 - k]]
TwiddlesOf(r, tw, phase) ==
  IF phase.kind = "without" THEN From(tw, LogLanes - 1 + PreTranspose(r)) ELSE tw

CurrentPhase == PhaseAt(extension, stage.at, stage.phase)
StartPhase(at, k, sub) ==
  /\ stage' = [at |-> at, phase |-> k, sub |-> sub]
  /\ progress' = Tabulated([task \in Tasks(extension, PhaseAt(extension, at, k)) |-> 0])
Running(at) == stage.at = at /\ stage.phase > 0
Joined == \A task \in DOMAIN progress : progress[task] = Len(Loops(stage.at, CurrentPhase))

LdeInit ==
  /\ extension \in {r \in Requests : r.log + r.blowup <= RootLog + 1}
  /\ column = InputLanes(extension)
  /\ buffer = Garbage(extension.log + extension.blowup)
  /\ stage = [NoStage EXCEPT !.at = "interpolate"]
  /\ progress = <<>>

(* interpolate: columns below the smallest SIMD transform go to the CPU.   *)
InterpolateOnCpu ==
  /\ stage.at = "interpolate" /\ stage.phase = 0
  /\ extension.log < MIN_FFT_LOG_SIZE
  /\ column' = interpolate(CanonicHalfCoset(extension.log), column, CpuTree)
  /\ stage' = [NoStage EXCEPT !.at = "evaluate"]
  /\ UNCHANGED <<extension, buffer, progress>>
StartIfft ==
  /\ stage.at = "interpolate" /\ stage.phase = 0
  /\ extension.log >= MIN_FFT_LOG_SIZE
  /\ StartPhase("interpolate", 1, 0)
  /\ UNCHANGED <<extension, column, buffer>>
IfftLoop(task) ==
  LET phase == CurrentPhase
      loops == Loops("interpolate", phase)
      tw == domain_line_twiddles_from_tree(extension.log, SimdTree.itwiddles)
      layer == loops[progress[task] + 1]
  IN  /\ Running("interpolate")
      /\ progress[task] < Len(loops)
      /\ column' = CASE phase.kind = "with" ->
                          ifft_lower_with_vecwise(column, tw, phase.layers, layer, task)
                     [] phase.kind = "without" ->
                          ifft_lower_without_vecwise(column, TwiddlesOf(extension, tw, phase),
                                                     phase.layers, layer, task)
                     [] OTHER -> transpose_vecs(column, phase.layers, task)
      /\ progress' = [progress EXCEPT ![task] = @ + 1]
      /\ UNCHANGED <<extension, buffer, stage>>
(* All tasks joined: the next phase, or the division by the size.          *)
NextIfftPhase ==
  /\ Running("interpolate") /\ Joined /\ stage.phase < Len(Phases(extension))
  /\ StartPhase("interpolate", stage.phase + 1, 0)
  /\ UNCHANGED <<extension, column, buffer>>
Scale ==
  /\ Running("interpolate") /\ Joined /\ stage.phase = Len(Phases(extension))
  /\ LET inv == M31Inverse(2 ^ extension.log % P)
     IN  column' = Tabulated([i \in DOMAIN column |-> LaneMul(column[i], inv)])
  /\ stage' = [NoStage EXCEPT !.at = "evaluate"]
  /\ UNCHANGED <<extension, buffer, progress>>

(* evaluate_into: one transform per subdomain, into its part of buffer.    *)
Domain == CanonicHalfCoset(extension.log + extension.blowup)
EvaluateOnCpu ==
  /\ stage.at = "evaluate" /\ stage.phase = 0
  /\ extension.log < MIN_FFT_LOG_SIZE
  /\ buffer' = evaluate(Domain, column, CpuTree)
  /\ stage' = [NoStage EXCEPT !.at = "done"]
  /\ UNCHANGED <<extension, column, progress>>
StartFft ==
  /\ stage.at = "evaluate" /\ stage.phase = 0
  /\ extension.log >= MIN_FFT_LOG_SIZE
  /\ StartPhase("evaluate", 1, 0)
  /\ UNCHANGED <<extension, column, buffer>>
(* Mutant: every subdomain reads the twiddles of the first. *)
SubdomainTwiddlesFirst(sub) ==
  LET tw == domain_line_twiddles_from_tree(extension.log + extension.blowup, SimdTree.twiddles)
  IN  [layer \in Vector(extension.log - 1) |-> Slice(tw[layer], 0, 2 ^ (extension.log - 2 - layer))]
SubdomainTwiddles(sub) ==
  LET tw == domain_line_twiddles_from_tree(extension.log + extension.blowup, SimdTree.twiddles)
  IN  [layer \in Vector(extension.log - 1) |->
         LET len == 2 ^ (extension.log - 2 - layer) IN Slice(tw[layer], sub * len, len)]
FftLoop(task) ==
  LET phase == CurrentPhase
      loops == Loops("evaluate", phase)
      n == 2 ^ extension.log
      dst == Tabulated(Slice(buffer, stage.sub * n, n))
      src == IF stage.phase = 1 /\ progress[task] = 0 THEN column ELSE dst
      tw == SubdomainTwiddles(stage.sub)
      layer == loops[progress[task] + 1]
      written == CASE phase.kind = "with" ->
                        fft_lower_with_vecwise(src, dst, tw, phase.layers, layer, task)
                   [] phase.kind = "without" ->
                        fft_lower_without_vecwise(src, dst, TwiddlesOf(extension, tw, phase),
                                                  phase.layers, layer, task)
                   [] OTHER -> transpose_vecs(dst, phase.layers, task)
  IN  /\ Running("evaluate")
      /\ progress[task] < Len(loops)
      /\ buffer' = [i \in {stage.sub * n + k : k \in Vector(n)} |-> written[i - stage.sub * n]] @@ buffer
      /\ progress' = [progress EXCEPT ![task] = @ + 1]
      /\ UNCHANGED <<extension, column, stage>>
NextFftPhase ==
  /\ Running("evaluate") /\ Joined
  /\ IF stage.phase < Len(Phases(extension)) THEN StartPhase("evaluate", stage.phase + 1, stage.sub)
     ELSE IF stage.sub + 1 < 2 ^ extension.blowup THEN StartPhase("evaluate", 1, stage.sub + 1)
     ELSE stage' = [NoStage EXCEPT !.at = "done"] /\ UNCHANGED progress
  /\ UNCHANGED <<extension, column, buffer>>

LdeNext ==
  \/ InterpolateOnCpu \/ StartIfft \/ NextIfftPhase \/ Scale
  \/ EvaluateOnCpu \/ StartFft \/ NextFftPhase
  \/ \E task \in DOMAIN progress : IfftLoop(task) \/ FftLoop(task)

(* PROPERTIES *)
Coefficients == stage.at = "evaluate" /\ stage.phase = 0
CpuColumn(v) == Tabulated([i \in DOMAIN v |-> LaneReduce(v[i])])
NaturalOrder(v) == IF extension.log > extension.cached THEN TransposeAll(v) ELSE v
CpuCoefficients == interpolate(CanonicHalfCoset(extension.log), CpuColumn(InputLanes(extension)), CpuTree)
SamplePoints == {PointFromFelt(<<<<3, 5>>, <<7, 11>>>>)}

(* In whatever order the tasks of a transform run, the SIMD backend gets   *)
(* the coefficients and the evaluations of the CPU backend, whose twiddles *)
(* it reads doubled, sliced and, after a transposition, by masked indices. *)
TransformsAgree ==
  /\ Coefficients => CpuColumn(NaturalOrder(column)) = CpuCoefficients
  /\ stage.at = "done" => CpuColumn(buffer) = evaluate(Domain, CpuCoefficients, CpuTree)

ValuesAt(p) ==
  LET log == extension.log
      cached == extension.cached
      evals == CpuColumn(InputLanes(extension))
      halves == SplitAtMid(column, cached)
      whole == <<column>> \o (IF log > 1 THEN halves ELSE <<>>)
      points == [k \in DOMAIN whole |-> SimdEvalAtPoint(whole[k], p, cached)]
  IN  {EvalAtPoint(CpuCoefficients, p), points[1],
       BarycentricEval(evals, SimdBarycentricWeights(log, p)),
       EvalAtPointByFolding(evals, CanonicHalfCoset(log), p)}
        \cup (IF log > 1 THEN {QM31Add(points[2], QM31Mul(get_folding_alphas(p, log)[1], points[3]))} ELSE {})
(* A column has one value at a point of QM31: from its coefficients as the *)
(* SIMD transform leaves them, from its evaluations by barycentric weights *)
(* and by folding, and from the halves split_at_mid cuts it into.          *)
PointEvaluationsAgree ==
  Coefficients => \A p \in SamplePoints : Cardinality(ValuesAt(p)) = 1

(* Hashing takes lanes as they are, where 0 and P differ: what interpolate *)
(* leaves and what is committed are below P, though inputs may be P.       *)
(* Comments of the code are more careful: "FFTs return a redundant         *)
(* representation, that can get the value P" (fft/mod.rs:18, circle.rs:135,*)
(* fft/rfft.rs:339).  It is a butterfly that can: P - 0 is P and so is     *)
(* P + P.  But interpolate ends with a product by 1 / n, which is below P, *)
(* and from operands below P no sum or difference of a butterfly is P.     *)
(* Coefficients brought in from elsewhere with a P are not covered.        *)
LanesCanonical ==
  /\ Coefficients => \A i \in DOMAIN column : column[i] < P
  /\ stage.at = "done" => \A i \in DOMAIN buffer : buffer[i] < P
=============================================================================
