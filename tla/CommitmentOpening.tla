-------------------------- MODULE CommitmentOpening --------------------------
(***************************************************************************)
(* The opening of the polynomial commitment scheme: prove_values with its  *)
(* FRI prover, a proof on its way, and verify_values with its FRI verifier *)
(* on the other side, each with a channel of its own.                      *)
(*                                                                         *)
(* A setting fixes one proof: for every tree the log sizes of its columns  *)
(* (with the blowup), the PCS configuration, the memory mode, the queries  *)
(* the hash may give and whether the proof may be changed on its way.      *)
(* Names stand for data: <<tree, column, row>> for a cell of the trace,    *)
(* Value(0, q) for the quotient of the lifted columns at q, <<"trace", t>> *)
(* and <<"fri", level>> for the root of a tree.  A draw of the prover is   *)
(* named by its number; the verifier draws the same value when its channel *)
(* is in the same state, and any other (0) when it is not.                 *)
(***************************************************************************)
EXTENDS FriLayers

CONSTANT Settings

(* The height of the last tree is the size of the queries' domain.         *)
LargestOf(logs) == CHOOSE l \in 0 .. 31 : (l = 0 \/ l \in Range(logs)) /\ \A x \in Range(logs) : x <= l
LiftingLogOf(s) == IF s.lifting > 0 THEN s.lifting ELSE LargestOf(s.columns[Len(s.columns)])

(* commit_inner_layers asserts that the first fold leaves a last layer.    *)
ASSUME SettingsAssumption ==
  \A s \in Settings :
    /\ s.columns \in Seq(Seq(Nat)) /\ Len(s.columns) >= 1
    /\ s.columns[Len(s.columns)] # <<>>
    /\ {s.blowup, s.fold_step, s.stride} \subseteq Nat \ {0} /\ s.last \in Nat
    /\ LiftingLogOf(s) \in Nat /\ LiftingLogOf(s) >= s.fold_step + s.last + s.blowup
    /\ s.low_memory \in BOOLEAN /\ s.damage \in BOOLEAN

VARIABLES
  setting,      \* the proof's setting
  stage,        \* the next step of the prover, the transport or the verifier
  channel,      \* the prover's channel, [digest, n_draws]
  drawn,        \* the states in which the prover drew
  line,         \* log size of the prover's current line evaluation, and its domain
  folds,        \* the halvings of the prover
  layers,       \* the committed FRI layers: [level, log, fold_step, pack_leaves, alpha]
  positions,    \* the prover's query positions
  proof,        \* what the prover sends
  received,     \* what the verifier reads
  transcript,   \* the verifier's channel
  challenges,   \* what the verifier drew, by number
  verifiers,    \* the verifier's FRI layers: [domain, log, fold_step, pack_leaves, alpha]
  bound,        \* log degree bound after the layers read so far
  queries,      \* the verifier's query positions: of the trees, then of a layer
  evals,        \* the values at those positions
  opening,      \* the FRI layer opened next
  verdict

prover == <<channel, drawn, line, folds, layers, positions, proof>>
verifier == <<transcript, challenges, verifiers, bound, queries, evals, opening, verdict>>
vars == <<setting, stage, prover, received, verifier>>

-----------------------------------------------------------------------------
(* The channel *)

(* Mutant: the last layer is not absorbed.                                 *)
MixNoPoly(ch, item) ==
  IF item[1] = "poly" THEN ch ELSE [digest |-> Append(ch.digest, item), n_draws |-> 0]
Mix(ch, item) == [digest |-> Append(ch.digest, item), n_draws |-> 0]
AfterDraw(ch) == [ch EXCEPT !.n_draws = @ + 1]
(* The number of the prover's draw that gives what ch would give.          *)
DrawOf(ch) == IF \E k \in DOMAIN drawn : drawn[k] = ch
              THEN CHOOSE k \in DOMAIN drawn : drawn[k] = ch ELSE 0

-----------------------------------------------------------------------------
(* The trees *)

Trees == DOMAIN setting.columns
LastTree == Len(setting.columns)
TreeColumns == UNION {{<<t, c>> : c \in DOMAIN setting.columns[t]} : t \in Trees}
(* The height of a tree; the preprocessed one is the first.                *)
HeightOf(logs) == IF setting.lifting > 0 THEN setting.lifting ELSE LargestOf(logs)
Height(t) == HeightOf(setting.columns[t])
LiftingLog == LiftingLogOf(setting)

Column(t, c) == [log |-> setting.columns[t][c],
                 at |-> [i \in 0 .. 2 ^ setting.columns[t][c] - 1 |-> <<t, c, i>>]]
Columns(t) == [c \in DOMAIN setting.columns[t] |-> Column(t, c)]
TraceLeaves(t) == build_leaves(SortedByLog(Columns(t), Height(t)), Height(t))

prepare_preprocessed_query_positions(query_positions, log, pp_log) ==
  IF pp_log = 0 THEN <<>>
  ELSE IF log < pp_log
  THEN [k \in DOMAIN query_positions |->
          (query_positions[k] \div 2) * 2 ^ (pp_log - log + 1) + (query_positions[k] % 2)]
  ELSE [k \in DOMAIN query_positions |-> Lift(query_positions[k], log - pp_log)]
PositionsIn(t, query_positions) ==
  IF t = 1 THEN prepare_preprocessed_query_positions(query_positions, LiftingLog, Height(1))
  ELSE query_positions

(* CommitmentTreeProver::decommit: the queried values and the witness.     *)
QueriedValues(t, at) ==
  [c \in DOMAIN setting.columns[t] |->
     [k \in DOMAIN at |-> <<t, c, Lift(at[k], Height(t) - setting.columns[t][c])>>]]
compute_leaf_hashes(t, at) ==
  LET sorted == SortedByLog([c \in DOMAIN setting.columns[t] |->
                               [log |-> setting.columns[t][c], column |-> c]], Height(t))
  IN  [p \in at |-> Leaf([n \in DOMAIN sorted |->
                            <<t, sorted[n].column, Lift(p, Height(t) - sorted[n].log)>>])]
TraceWitness(t, at, low_memory) ==
  IF low_memory
  THEN decommit_with_source(
         commit_checkpointed(TraceLeaves(t), Height(t), setting.stride, setting.columns[t] # <<>>),
         at, [blocks \in SUBSET (0 .. 2 ^ Height(t) - 1) |-> compute_leaf_hashes(t, blocks)])
  ELSE decommit(commit(TraceLeaves(t), Height(t)), at)

HalfCoset == CanonicHalfCoset(LiftingLog)
Quotients == [i \in 0 .. 2 ^ LiftingLog - 1 |-> Value(0, i)]
(* Mutant: a layer is made again with its own challenge.                   *)
LayerValuesOwnAlpha(k, low_memory) ==
  LET folded[n \in 2 .. Len(layers)] ==
        IF n = 2 THEN initial_inner_layer_evaluation(folds, HalfCoset, Quotients, layers[2].alpha,
                                                     layers[1].fold_step)
        ELSE fold_line(folds, folded[n - 1], layers[n].alpha, layers[n - 1].fold_step)
  IN  IF k = 1 THEN Quotients
      ELSE IF low_memory THEN folded[k].at
      ELSE [i \in 0 .. 2 ^ layers[k].log - 1 |-> Value(layers[k].level, i)]
(* The values of FRI layer k; in low memory they are folded again with the *)
(* challenges kept at the commitment.                                      *)
LayerValues(k, low_memory) ==
  LET folded[n \in 2 .. Len(layers)] ==
        IF n = 2 THEN initial_inner_layer_evaluation(folds, HalfCoset, Quotients, layers[1].alpha,
                                                     layers[1].fold_step)
        ELSE fold_line(folds, folded[n - 1], layers[n - 1].alpha, layers[n - 1].fold_step)
  IN  IF k = 1 THEN Quotients
      ELSE IF low_memory THEN folded[k].at
      ELSE [i \in 0 .. 2 ^ layers[k].log - 1 |-> Value(layers[k].level, i)]

LayerPositions(k) ==
  LET at[n \in 1 .. k] == IF n = 1 THEN positions ELSE FoldQueries(at[n - 1], layers[n - 1].fold_step)
  IN  at[k]
LayerProof(k, low_memory) ==
  LET layer == layers[k]
      values == LayerValues(k, low_memory)
      leaves == LayerLeaves(values, layer.log, layer.pack_leaves)
      height == layer.log - LeafLog(layer.pack_leaves)
      opened == MerklePositions(DecommitmentPositions(LayerPositions(k), layer.fold_step),
                                layer.pack_leaves)
  IN  [commitment |-> <<"fri", layer.level>>,
       fri_witness |-> WitnessEvals(values, LayerPositions(k), layer.fold_step),
       witness |-> IF low_memory
                   THEN decommit_from_leaves(
                          commit_checkpointed(leaves, height, setting.stride, ~layer.pack_leaves),
                          opened, leaves)
                   ELSE decommit(commit(leaves, height), opened)]

(* What a commitment commits to.                                           *)
ForeignRoot == <<"foreign", 0>>
ForeignHash == Leaf(<<Wrong>>)
RootOf(name) ==
  CASE name[1] = "trace" -> Root(TraceLeaves(name[2]), Height(name[2]))
    [] name[1] = "fri" ->
         LET layer == layers[CHOOSE k \in DOMAIN layers : layers[k].level = name[2]]
         IN  Root(LayerLeaves([i \in 0 .. 2 ^ layer.log - 1 |-> Value(layer.level, i)],
                              layer.log, layer.pack_leaves),
                  layer.log - LeafLog(layer.pack_leaves))
    [] OTHER -> ForeignHash

-----------------------------------------------------------------------------
(* The prover *)

NewChannel == [digest |-> <<>>, n_draws |-> 0]
NoProof == [commitments |-> <<>>]

Init ==
  /\ setting \in Settings
  /\ stage = "commit"
  /\ channel = NewChannel /\ transcript = NewChannel
  /\ drawn = <<>> /\ challenges = <<>>
  /\ line = [log |-> 0] /\ folds = <<>> /\ layers = <<>> /\ positions = <<>>
  /\ proof = NoProof /\ received = NoProof
  /\ verifiers = <<>> /\ bound = 0 /\ queries = <<>> /\ evals = <<>> /\ opening = 1
  /\ verdict = "none"

(* Mixes item and draws: the new channel, with its draw recorded.          *)
MixAndDraw(item) ==
  LET mixed == Mix(channel, item)
  IN  /\ channel' = AfterDraw(mixed)
      /\ drawn' = Append(drawn, mixed)
NextDraw == Challenge(Len(drawn) + 1)

(* CommitmentSchemeProver::commit of the next tree.                        *)
CommitTrace ==
  /\ stage = "commit"
  /\ LET t == Len(channel.digest) + 1
     IN  /\ channel' = Mix(channel, <<"trace", t>>)
         /\ stage' = IF t = LastTree THEN "sample" ELSE "commit"
  /\ UNCHANGED <<setting, drawn, line, folds, layers, positions, proof, received, verifier>>

(* The values out of the domain, then the coefficient of the quotients.    *)
SampleValues ==
  /\ stage = "sample"
  /\ MixAndDraw(<<"sampled", 1>>)
  /\ stage' = "fri"
  /\ UNCHANGED <<setting, line, folds, layers, positions, proof, received, verifier>>

CommittedLayer(level, log, fold_step) ==
  [level |-> level, log |-> log, fold_step |-> fold_step,
   pack_leaves |-> should_pack_leaves(log, fold_step), alpha |-> NextDraw]

(* Mutant: fold_step more halvings follow the circle's.                    *)
CommitFirstLayerOneFoldMore ==
  /\ stage = "fri"
  /\ LET step == setting.fold_step
         lineDomain == half_odds(HalfCoset.log)
     IN  /\ MixAndDraw(<<"fri", 0>>)
         /\ layers' = <<CommittedLayer(0, LiftingLog, step)>>
         /\ folds' = <<[coords |-> CircleCoords(HalfCoset), alpha |-> NextDraw]>>
                     \o LineHalvings(lineDomain, Square(NextDraw), step)
         /\ line' = [log |-> LiftingLog - step, domain |-> RepeatedDouble(lineDomain, step)]
  /\ stage' = "fri_inner"
  /\ UNCHANGED <<setting, positions, proof, received, verifier>>
(* commit_first_layer and the first fold, from the circle to a line.       *)
CommitFirstLayer ==
  /\ stage = "fri"
  /\ LET step == setting.fold_step
         lineDomain == half_odds(HalfCoset.log)
     IN  /\ MixAndDraw(<<"fri", 0>>)
         /\ layers' = <<CommittedLayer(0, LiftingLog, step)>>
         /\ folds' = <<[coords |-> CircleCoords(HalfCoset), alpha |-> NextDraw]>>
                     \o LineHalvings(lineDomain, Square(NextDraw), step - 1)
         /\ line' = [log |-> LiftingLog - step, domain |-> RepeatedDouble(lineDomain, step - 1)]
  /\ stage' = "fri_inner"
  /\ UNCHANGED <<setting, positions, proof, received, verifier>>

LastLayerLog == setting.last + setting.blowup
(* An inner layer: whole steps while they fit, and one last shorter fold.  *)
CommitInnerLayer ==
  /\ stage = "fri_inner"
  /\ line.log > LastLayerLog
  /\ LET step == IF line.log > LastLayerLog + setting.fold_step THEN setting.fold_step
                 ELSE line.log - LastLayerLog
         level == LiftingLog - line.log
     IN  /\ MixAndDraw(<<"fri", level>>)
         /\ layers' = Append(layers, CommittedLayer(level, line.log, step))
         /\ folds' = folds \o LineHalvings(line.domain, NextDraw, step)
         /\ line' = [log |-> line.log - step, domain |-> RepeatedDouble(line.domain, step)]
  /\ UNCHANGED <<setting, stage, positions, proof, received, verifier>>

(* The coefficients of what is left.                                       *)
CommitLastLayer ==
  /\ stage = "fri_inner"
  /\ line.log = LastLayerLog
  /\ channel' = Mix(channel, <<"poly", 1>>)
  /\ stage' = "grind"
  /\ UNCHANGED <<setting, drawn, line, folds, layers, positions, proof, received, verifier>>

(* The nonce and the queries: a set, in increasing order.                  *)
SortedQueries(raw) == Sorted(Range(raw), 2 ^ LiftingLog)
GrindAndDrawQueries ==
  /\ stage = "grind"
  /\ MixAndDraw(<<"nonce", 1>>)
  /\ \E raw \in setting.queries : positions' = SortedQueries(raw)
  /\ stage' = "open"
  /\ UNCHANGED <<setting, line, folds, layers, proof, received, verifier>>

OpenedIn(low_memory) ==
  [commitments |-> [t \in Trees |-> <<"trace", t>>],
   sampled |-> 1,
   first_layer |-> LayerProof(1, low_memory),
   inner_layers |-> [k \in 1 .. Len(layers) - 1 |-> LayerProof(k + 1, low_memory)],
   last_layer_poly |-> 1,
   nonce |-> 1,
   decommitments |-> [t \in Trees |-> TraceWitness(t, PositionsIn(t, positions), low_memory)],
   queried |-> [t \in Trees |-> QueriedValues(t, PositionsIn(t, positions))]]

Open ==
  /\ stage = "open"
  /\ proof' = OpenedIn(setting.low_memory)
  /\ stage' = "deliver"
  /\ UNCHANGED <<setting, channel, drawn, line, folds, layers, positions, received, verifier>>

-----------------------------------------------------------------------------
(* On the way: the proof arrives as it is, or with one thing changed.      *)

WrongCell == <<0, 0, 0>>
Altered(s, x) == {[s EXCEPT ![k] = x] : k \in DOMAIN s} \cup {Append(s, x)}
                 \cup {Front(s) : n \in {1} \cap DOMAIN s}
DamagedLayer(l) ==
  {[l EXCEPT !.commitment = ForeignRoot]}
  \cup {[l EXCEPT !.fri_witness = w] : w \in Altered(l.fri_witness, Wrong)}
  \cup {[l EXCEPT !.witness = w] : w \in Altered(l.witness, ForeignHash)}
Damaged(p) ==
  {[p EXCEPT !.commitments[t] = ForeignRoot] : t \in Trees}
  \cup {[p EXCEPT !.sampled = 2]}
  \cup {[p EXCEPT !.first_layer = l] : l \in DamagedLayer(p.first_layer)}
  \cup (UNION {{[p EXCEPT !.inner_layers[k] = l] : l \in DamagedLayer(p.inner_layers[k])}
               : k \in DOMAIN p.inner_layers})
  \cup {[p EXCEPT !.inner_layers = Front(@)] : n \in {1} \cap DOMAIN p.inner_layers}
  \cup {[p EXCEPT !.inner_layers = Append(@, p.first_layer)]}
  \cup {[p EXCEPT !.last_layer_poly = id] : id \in {2, 3}}
  \cup {[p EXCEPT !.nonce = n] : n \in {2, 3}}
  \cup (UNION {{[p EXCEPT !.decommitments[t] = w] : w \in Altered(p.decommitments[t], ForeignHash)}
               : t \in {u \in Trees : setting.columns[u] # <<>>}})
  \cup (UNION {{[p EXCEPT !.queried[tc[1]][tc[2]] = v]
                  : v \in Altered(p.queried[tc[1]][tc[2]], WrongCell)} : tc \in TreeColumns})

Deliver ==
  /\ stage = "deliver"
  /\ received' \in {proof} \cup (IF setting.damage THEN Damaged(proof) ELSE {})
  /\ stage' = "read"
  /\ UNCHANGED <<setting, prover, verifier>>

-----------------------------------------------------------------------------
(* The verifier *)

(* Ends with a verdict.                                                    *)
Conclude(reason) == /\ verdict' = reason
                  /\ stage' = "done"

(* CommitmentSchemeVerifier::commit.                                       *)
ReadCommitment ==
  /\ stage = "read"
  /\ LET t == Len(transcript.digest) + 1
     IN  /\ transcript' = Mix(transcript, received.commitments[t])
         /\ stage' = IF t = LastTree THEN "read_samples" ELSE "read"
  /\ UNCHANGED <<setting, prover, received, challenges, verifiers, bound, queries, evals, opening, verdict>>

(* Mixes an item and draws what the channel then gives.                    *)
ReadAndDraw(item) ==
  LET mixed == Mix(transcript, item)
  IN  /\ transcript' = AfterDraw(mixed)
      /\ challenges' = Append(challenges, DrawOf(mixed))
DrawAfter(item) == Challenge(DrawOf(Mix(transcript, item)))

ReadSamples ==
  /\ stage = "read_samples"
  /\ ReadAndDraw(<<"sampled", received.sampled>>)
  /\ stage' = "read_fri"
  /\ UNCHANGED <<setting, prover, received, verifiers, bound, queries, evals, opening, verdict>>

(* FriVerifier::commit, the first layer.  Its column bound is the lifting  *)
(* log size less the blowup.                                               *)
VerifierOf(domain, log, fold_step, alpha) ==
  [domain |-> domain, log |-> log, fold_step |-> fold_step, alpha |-> alpha,
   pack_leaves |-> log >= LogPackedLeafSize /\ fold_step > 1]
ReadFirstLayer ==
  /\ stage = "read_fri"
  /\ LET item == received.first_layer.commitment
         log == LiftingLog - setting.blowup + setting.blowup
     IN  /\ ReadAndDraw(item)
         /\ verifiers' = <<VerifierOf(CanonicHalfCoset(log), log, setting.fold_step, DrawAfter(item))>>
  /\ IF LiftingLog - setting.blowup < setting.fold_step
     THEN Conclude("InvalidNumFriLayers") /\ UNCHANGED bound
     ELSE /\ bound' = LiftingLog - setting.blowup - setting.fold_step
          /\ stage' = "read_inner" /\ UNCHANGED verdict
  /\ UNCHANGED <<setting, prover, received, queries, evals, opening>>

(* The next inner layer.  All but the last fold by the configured step.    *)
LayersRead == Len(verifiers) - 1
InnerLeft == LayersRead < Len(received.inner_layers)
StepOfNext == IF LayersRead + 1 < Len(received.inner_layers) THEN setting.fold_step
              ELSE bound - setting.last
BadLastStep == LayersRead + 1 = Len(received.inner_layers) /\ StepOfNext \notin 1 .. setting.fold_step
DomainOfNext ==
  LET previous == verifiers[Len(verifiers)]
  IN  IF LayersRead = 0 THEN half_odds(bound + setting.blowup)
      ELSE RepeatedDouble(previous.domain, previous.fold_step)
ReadInnerLayer ==
  /\ stage = "read_inner" /\ InnerLeft
  /\ LET item == received.inner_layers[LayersRead + 1].commitment
     IN  IF BadLastStep
         THEN /\ transcript' = Mix(transcript, item)
              /\ Conclude("InvalidNumFriLayers")
              /\ UNCHANGED <<challenges, verifiers, bound>>
         ELSE /\ ReadAndDraw(item)
              /\ verifiers' = Append(verifiers,
                   VerifierOf(DomainOfNext, DomainOfNext.log, StepOfNext, DrawAfter(item)))
              /\ IF StepOfNext > bound THEN Conclude("InvalidNumFriLayers") /\ UNCHANGED bound
                 ELSE bound' = bound - StepOfNext /\ UNCHANGED <<stage, verdict>>
  /\ UNCHANGED <<setting, prover, received, queries, evals, opening>>

(* The last layer's polynomial, the proof of work and the queries.  Poly 2 *)
(* is another polynomial, 3 the same one with a zero coefficient too many. *)
ReadLastLayer ==
  /\ stage = "read_inner" /\ ~InnerLeft
  /\ IF bound # setting.last THEN Conclude("InvalidNumFriLayers") /\ UNCHANGED transcript
     ELSE IF received.last_layer_poly = 3 THEN Conclude("LastLayerDegreeInvalid") /\ UNCHANGED transcript
     ELSE /\ transcript' = Mix(transcript, <<"poly", received.last_layer_poly>>)
          /\ stage' = "check_nonce" /\ UNCHANGED verdict
  /\ UNCHANGED <<setting, prover, received, challenges, verifiers, bound, queries, evals, opening>>

(* Nonces 1 and 2 solve the prover's puzzle; any may solve another one.    *)
Solves(nonce) ==
  IF transcript.digest = Front(drawn[Len(drawn)].digest) THEN {nonce # 3} ELSE BOOLEAN
CheckNonceAndDrawQueries ==
  /\ stage = "check_nonce"
  /\ LET item == <<"nonce", received.nonce>>
     IN  \/ /\ FALSE \in Solves(received.nonce)
            /\ Conclude("ProofOfWork")
            /\ UNCHANGED <<transcript, challenges, queries>>
         \/ /\ TRUE \in Solves(received.nonce)
            /\ ReadAndDraw(item)
            /\ IF DrawAfter(item).draw # 0 THEN queries' = positions
               ELSE \E raw \in setting.queries : queries' = SortedQueries(raw)
            /\ stage' = "verify_trees" /\ UNCHANGED verdict
  /\ UNCHANGED <<setting, prover, received, verifiers, bound, evals, opening>>

(* Every tree in order; the first error is returned.                       *)
TreeVerdict(t) ==
  verify(RootOf(received.commitments[t]), setting.columns[t], Height(t),
         PositionsIn(t, queries), received.queried[t], received.decommitments[t])
VerifyTrees ==
  /\ stage = "verify_trees"
  /\ LET bad == {t \in Trees : TreeVerdict(t) # "ok"}
     IN  IF bad = {} THEN stage' = "answer" /\ UNCHANGED verdict
         ELSE Conclude(TreeVerdict(CHOOSE t \in bad : \A u \in bad : t <= u))
  /\ UNCHANGED <<setting, prover, received, transcript, challenges, verifiers, bound, queries,
                 evals, opening>>

(* fri_answers.  Columns larger than the lifting domain are not sampled.   *)
Sampled == {tc \in TreeColumns : setting.columns[tc[1]][tc[2]] <= LiftingLog}
IndexInFlat(t, c) == Len(FlattenSeq(SubSeq(setting.columns, 1, t - 1))) + c
AnswerQueries ==
  /\ stage = "answer"
  /\ LET flat == FlattenSeq(received.queried)
         Honest(k) == /\ challenges[1] = 1
                      /\ \A tc \in Sampled :
                           flat[IndexInFlat(tc[1], tc[2])][k] =
                             <<tc[1], tc[2],
                               Lift(queries[k], LiftingLog - setting.columns[tc[1]][tc[2]])>>
     IN  IF \E n \in DOMAIN flat : Len(flat[n]) # Len(queries)
         THEN Conclude("Panic") /\ UNCHANGED evals
         ELSE /\ evals' = [k \in DOMAIN queries |-> IF Honest(k) THEN Value(0, queries[k]) ELSE Wrong]
              /\ stage' = "verify_layers" /\ UNCHANGED verdict
  /\ UNCHANGED <<setting, prover, received, transcript, challenges, verifiers, bound, queries, opening>>

(* Opens the next layer: what its values and its tree say.                 *)
OpenedLayer == IF opening = 1 THEN received.first_layer ELSE received.inner_layers[opening - 1]
RebuiltLayer ==
  RebuiltEvals(queries, evals, OpenedLayer.fri_witness, verifiers[opening].fold_step)
(* Mutant: values of the proof that are left over are not noticed.         *)
LayerVerdictLeftover ==
  LET layer == verifiers[opening]
      opened == DecommitmentPositions(queries, layer.fold_step)
  IN  IF RebuiltLayer.used > Len(OpenedLayer.fri_witness) THEN "EvaluationsInvalid"
      ELSE verify_layer(RootOf(OpenedLayer.commitment), layer.log, layer.pack_leaves, opened,
                        RebuiltLayer.evals, OpenedLayer.witness)
LayerVerdict ==
  LET layer == verifiers[opening]
      opened == DecommitmentPositions(queries, layer.fold_step)
  IN  IF RebuiltLayer.used # Len(OpenedLayer.fri_witness) THEN "EvaluationsInvalid"
      ELSE verify_layer(RootOf(OpenedLayer.commitment), layer.log, layer.pack_leaves, opened,
                        RebuiltLayer.evals, OpenedLayer.witness)

(* FriFirstLayerVerifier::verify and fold_circle, or verify_and_fold.      *)
FoldedEvals ==
  LET layer == verifiers[opening]
      starts == SubsetStarts(queries, layer.fold_step)
  IN  IF opening = 1
      THEN SparseFoldCircle(folds, starts, RebuiltLayer.evals, layer.alpha, layer.domain, layer.fold_step)
      ELSE SparseFoldLine(folds, starts, RebuiltLayer.evals, layer.alpha, layer.domain, layer.fold_step)
VerifyLayer ==
  /\ stage = "verify_layers" /\ opening <= Len(verifiers)
  /\ IF LayerVerdict # "ok" THEN Conclude(LayerVerdict) /\ UNCHANGED <<queries, evals, opening>>
     ELSE /\ evals' = FoldedEvals
          /\ queries' = FoldQueries(queries, verifiers[opening].fold_step)
          /\ opening' = opening + 1
          /\ UNCHANGED <<stage, verdict>>
  /\ UNCHANGED <<setting, prover, received, transcript, challenges, verifiers, bound>>

(* decommit_last_layer: the values left must be those of the polynomial,   *)
(* which takes the prover's last values on the prover's last domain.       *)
LastDomain ==
  LET layer == verifiers[Len(verifiers)]
  IN  IF Len(verifiers) = 1 THEN half_odds(bound + setting.blowup)
      ELSE RepeatedDouble(layer.domain, layer.fold_step)
PolyAt(x) ==
  LET at == {i \in 0 .. 2 ^ line.log - 1 :
               XOf(IndexAt(line.domain, bit_reverse_index(i, line.log))) = x}
  IN  IF received.last_layer_poly = 2 THEN {}
      ELSE {Value(LiftingLog - line.log, i) : i \in at}
VerifyLastLayer ==
  /\ stage = "verify_layers" /\ opening > Len(verifiers)
  /\ LET At(q) == XOf(IndexAt(LastDomain, bit_reverse_index(q, LastDomain.log)))
     IN  IF \E k \in DOMAIN queries : evals[k] \notin PolyAt(At(queries[k]))
         THEN Conclude("LastLayerEvaluationsInvalid")
         ELSE Conclude("ok")
  /\ UNCHANGED <<setting, prover, received, transcript, challenges, verifiers, bound, queries, evals,
                 opening>>

(* The verdict is given.                                                   *)
Finished == stage = "done" /\ UNCHANGED vars

Next ==
  \/ CommitTrace \/ SampleValues \/ CommitFirstLayer \/ CommitInnerLayer \/ CommitLastLayer
  \/ GrindAndDrawQueries \/ Open \/ Deliver
  \/ ReadCommitment \/ ReadSamples \/ ReadFirstLayer \/ ReadInnerLayer \/ ReadLastLayer
  \/ CheckNonceAndDrawQueries \/ VerifyTrees \/ AnswerQueries \/ VerifyLayer \/ VerifyLastLayer
  \/ Finished

Spec == Init /\ [][Next]_vars

-----------------------------------------------------------------------------
(* Every variable keeps its shape: the draws are recorded one by one, and  *)
(* the layers of both sides halve the domain down to the last layer.       *)
TypeOK ==
  /\ setting \in Settings
  /\ \A k \in DOMAIN challenges : challenges[k] \in 0 .. Len(drawn)
  /\ \A k \in DOMAIN layers :
       layers[k].alpha = Challenge(k + 1) /\ layers[k].fold_step \in 1 .. setting.fold_step
  /\ Len(folds) = IF layers = <<>> THEN 0 ELSE LiftingLog - line.log
  /\ \A k \in DOMAIN positions : positions[k] \in 0 .. 2 ^ LiftingLog - 1
  /\ bound \in 0 .. LiftingLog
  /\ evals = <<>> \/ DOMAIN evals = DOMAIN queries

(* While it reads a proof that arrived as it was sent, the verifier goes   *)
(* through the prover's layers, although it derives their sizes from the   *)
(* degree bound and the prover from the domain: the same sizes, folds and  *)
(* leaves, the prover's challenges in the prover's order, and its queries. *)
VerifierFollows ==
  proof # NoProof /\ received = proof =>
    /\ \A k \in DOMAIN challenges : challenges[k] = k
    /\ Len(verifiers) <= Len(layers)
    /\ \A k \in DOMAIN verifiers :
         /\ verifiers[k].log = layers[k].log /\ verifiers[k].fold_step = layers[k].fold_step
         /\ verifiers[k].pack_leaves = layers[k].pack_leaves /\ verifiers[k].alpha = layers[k].alpha
    /\ stage \in {"check_nonce", "verify_trees", "answer"} => Len(verifiers) = Len(layers)
    /\ stage \in {"verify_trees", "answer"} => queries = positions
    /\ verdict \notin {"InvalidNumFriLayers", "LastLayerDegreeInvalid", "ProofOfWork"}

(* A proof that arrives as it was sent is accepted, in every configuration *)
(* and for every choice of the queries: the verifier derives the same      *)
(* schedule of folds, leaves, positions and points as the prover.          *)
HonestProofAccepted ==
  VerifierFollows /\ (stage = "done" /\ received = proof => verdict = "ok")

(* A proof that is accepted is the one the prover made, but for another    *)
(* nonce that leads to the same queries: every value, witness, commitment  *)
(* and layer of the proof is checked against something.                    *)
AcceptedProofIsGenuine ==
  verdict = "ok" => [received EXCEPT !.nonce = proof.nonce] = proof

(* What draw k of the scheme must depend on.                               *)
FixedBefore(k, p) ==
  << p.commitments, p.sampled,
     IF k >= 2 THEN p.first_layer.commitment ELSE ForeignRoot,
     [j \in {i \in DOMAIN p.inner_layers : i <= k - 2} |-> p.inner_layers[j].commitment],
     IF k = Len(drawn) THEN <<p.last_layer_poly, p.nonce>> ELSE <<>> >>
(* The verifier draws what the prover drew only if all that the prover had *)
(* committed to before it is unchanged, so that nothing is left to choose  *)
(* after a challenge is known.                                             *)
ChallengesBindProof ==
  \A k \in DOMAIN challenges :
    challenges[k] # 0 => challenges[k] = k /\ FixedBefore(k, received) = FixedBefore(k, proof)

(* The low-memory modes send the very proof that the full trees and the    *)
(* kept layers would give: checkpoints, recomputed leaves and layers that  *)
(* are folded a second time change nothing.                                *)
MemoryModesAgree == stage = "deliver" => proof = OpenedIn(FALSE)
=============================================================================
