---------------------------- MODULE OpeningProofs ----------------------------
(* Proofs about an opening (CommitmentOpening), for any settings and       *)
(* whatever single thing changes in a proof on its way.                    *)
(*                                                                         *)
(* First the transcript: if the verifier draws a challenge the prover      *)
(* drew, everything the prover had absorbed before it is in the received   *)
(* proof unchanged.  The argument is by places.  The k-th item of a digest *)
(* is of the kind its place says, for the prover (ItemAt) as for the       *)
(* verifier (ReadAt), with one exception: a proof with a layer too many or *)
(* too few shifts the last items of the verifier.  The items carry their   *)
(* kind, so digests of equal length that differ in a kind differ, and a    *)
(* draw of the verifier that meets the prover's is behind the same items.  *)
(*                                                                         *)
(* Then the folds.  ScheduleInv gives the size of every layer the prover   *)
(* commits to from its place, VerifierTypes the ranges of what the         *)
(* verifier holds; together they are the type invariant.  Last, HonestInv: *)
(* a verifier that reads the proof as it was sent has the same digest as   *)
(* the prover, so the same challenges, layers and queries.                 *)
EXTENDS CommitmentOpening, FiniteSetTheorems, WellFoundedInduction, TLAPS

IsSeq(s) == s \in Seq(Range(s))

(* A function on an initial segment is a sequence.                          *)
LEMMA SeqOfFunction ==
  ASSUME NEW n \in Nat, NEW s, DOMAIN s = 1 .. n, s = [i \in DOMAIN s |-> s[i]]
  PROVE  IsSeq(s) /\ Len(s) = n
<1>1. s \in [1 .. n -> Range(s)]
  BY Zenon DEF Range
<1>2. s \in Seq(Range(s))
  BY <1>1
<1> QED BY <1>1, <1>2 DEF IsSeq

(* What a sequence is as a function.                                        *)
LEMMA SeqFacts ==
  ASSUME NEW s, IsSeq(s)
  PROVE  /\ Len(s) \in Nat
         /\ DOMAIN s = 1 .. Len(s)
         /\ s = [i \in 1 .. Len(s) |-> s[i]]
BY DEF IsSeq

(* A sequence over a set is a sequence over its range.                      *)
LEMMA SeqOfMembers ==
  ASSUME NEW S, NEW s \in Seq(S)
  PROVE  IsSeq(s)
<1>1. Len(s) \in Nat /\ DOMAIN s = 1 .. Len(s) /\ s = [i \in DOMAIN s |-> s[i]]
  OBVIOUS
<1> QED BY <1>1, SeqOfFunction

(* The empty sequence.                                                      *)
LEMMA NothingIsSeq ==
  ASSUME NEW s, s = <<>>
  PROVE  IsSeq(s) /\ Len(s) = 0
<1>1. s \in Seq(Nat) /\ Len(s) = 0
  OBVIOUS
<1> QED BY <1>1, SeqOfMembers

(* A sequence of one element.                                               *)
LEMMA OneIsSeq ==
  ASSUME NEW x, NEW s, s = <<x>>
  PROVE  IsSeq(s) /\ Len(s) = 1
<1>1. s \in Seq({x}) /\ Len(s) = 1
  OBVIOUS
<1> QED BY <1>1, SeqOfMembers

(* A sequence with an element behind it: its length and its elements.       *)
LEMMA AppendFacts ==
  ASSUME NEW s, IsSeq(s), NEW x
  PROVE  /\ IsSeq(Append(s, x))
         /\ Len(Append(s, x)) = Len(s) + 1
         /\ Append(s, x)[Len(s) + 1] = x
         /\ \A i \in 1 .. Len(s) : Append(s, x)[i] = s[i]
         /\ \A i \in DOMAIN Append(s, x) :
              i # Len(s) + 1 => i \in DOMAIN s /\ Append(s, x)[i] = s[i]
<1>1. s \in Seq(Range(s) \cup {x})
  BY DEF IsSeq
<1> DEFINE t == Append(s, x)
<1>2. t \in Seq(Range(s) \cup {x}) /\ Len(t) = Len(s) + 1
  BY <1>1
<1>3. t[Len(s) + 1] = x /\ \A i \in 1 .. Len(s) : t[i] = s[i]
  BY <1>1
<1> HIDE DEF t
<1>5. IsSeq(t)
  BY <1>2, SeqOfMembers
<1>6. \A i \in DOMAIN t : i # Len(s) + 1 => i \in DOMAIN s /\ t[i] = s[i]
  BY <1>2, <1>3, <1>5, SeqFacts
<1> QED BY <1>2, <1>3, <1>5, <1>6, Zenon DEF t

-----------------------------------------------------------------------------
(* What the prover absorbed, and what the verifier has read *)

(* The item that the prover absorbs at a place, with so many trees and     *)
(* these layers committed.                                                 *)
ItemAt(place, item, trees, committed) ==
  /\ place <= trees => item = <<"trace", place>>
  /\ place = trees + 1 => item = <<"sampled", 1>>
  /\ \A k \in DOMAIN committed : place = trees + 1 + k => item = <<"fri", committed[k].level>>
  /\ place = trees + Len(committed) + 2 => item = <<"poly", 1>>
  /\ place = trees + Len(committed) + 3 => item = <<"nonce", 1>>
ProverItems(d, trees, committed) == \A i \in DOMAIN d : ItemAt(i, d[i], trees, committed)

(* The place of the last item before draw k, with n layers.                 *)
DrawPlace(k, trees, n) == trees + (IF k <= n + 1 THEN k ELSE n + 3)
Draws(draws, trees, committed) ==
  \A k \in DOMAIN draws :
    /\ IsSeq(draws[k].digest)
    /\ Len(draws[k].digest) = DrawPlace(k, trees, Len(committed))
    /\ ProverItems(draws[k].digest, trees, committed)

ProverSteps == {"commit", "sample", "fri", "fri_inner", "grind"}
ProverProgress ==
  /\ stage = "commit" => Len(channel.digest) < LastTree /\ Len(layers) = 0 /\ Len(drawn) = 0
  /\ stage = "sample" => Len(channel.digest) = LastTree /\ Len(layers) = 0 /\ Len(drawn) = 0
  /\ stage = "fri" => Len(channel.digest) = LastTree + 1 /\ Len(layers) = 0 /\ Len(drawn) = 1
  /\ stage = "fri_inner" => /\ Len(channel.digest) = LastTree + 1 + Len(layers)
                            /\ Len(layers) >= 1 /\ Len(drawn) = Len(layers) + 1
  /\ stage = "grind" => /\ Len(channel.digest) = LastTree + 2 + Len(layers)
                        /\ Len(layers) >= 1 /\ Len(drawn) = Len(layers) + 1
  /\ stage \notin ProverSteps => Len(layers) >= 1 /\ Len(drawn) = Len(layers) + 2
ProverInv ==
  /\ setting \in Settings
  /\ IsSeq(layers) /\ IsSeq(drawn) /\ IsSeq(channel.digest)
  /\ ProverItems(channel.digest, LastTree, layers)
  /\ Draws(drawn, LastTree, layers)
  /\ ProverProgress

(* A scheme has at least one tree, and the last of them is the last index.  *)
LEMMA Places ==
  ASSUME setting \in Settings
  PROVE  LastTree \in Nat /\ LastTree >= 1 /\ Trees = 1 .. LastTree
<1>1. setting.columns \in Seq(Seq(Nat)) /\ Len(setting.columns) >= 1
  BY SettingsAssumption
<1> QED BY <1>1 DEF LastTree, Trees

(* The invariant of the prover holds before the first commit.               *)
LEMMA ProverInit == Init => ProverInv
<1> SUFFICES ASSUME Init PROVE ProverInv
  OBVIOUS
<1>1. setting \in Settings /\ layers = <<>> /\ drawn = <<>> /\ stage = "commit"
  BY DEF Init
<1>2. channel.digest = <<>>
  BY DEF Init, NewChannel
<1>3. IsSeq(layers) /\ Len(layers) = 0 /\ IsSeq(drawn) /\ Len(drawn) = 0
  BY <1>1, NothingIsSeq
<1>4. IsSeq(channel.digest) /\ Len(channel.digest) = 0
  BY <1>2, NothingIsSeq
<1>5. DOMAIN channel.digest = {} /\ DOMAIN drawn = {}
  BY <1>3, <1>4, SeqFacts
<1>6. LastTree \in Nat /\ LastTree >= 1
  BY <1>1, Places
<1>7. ProverItems(channel.digest, LastTree, layers) /\ Draws(drawn, LastTree, layers)
  BY <1>5 DEF ProverItems, Draws
<1>8. ProverProgress
  BY <1>1, <1>3, <1>4, <1>6 DEF ProverProgress, ProverSteps
<1> QED BY <1>1, <1>3, <1>4, <1>5, <1>7, <1>8 DEF ProverInv

(* A digest takes the next item.                                           *)
LEMMA ItemAppended ==
  ASSUME NEW d, IsSeq(d), NEW trees, NEW committed, ProverItems(d, trees, committed),
         NEW x, ItemAt(Len(d) + 1, x, trees, committed)
  PROVE  ProverItems(Append(d, x), trees, committed)
BY AppendFacts DEF ProverItems

(* A layer more says nothing of a digest that ends before it.               *)
LEMMA LayerAppended ==
  ASSUME NEW d, IsSeq(d), NEW trees \in Nat, NEW committed, IsSeq(committed),
         ProverItems(d, trees, committed), Len(d) <= trees + 1 + Len(committed), NEW layer
  PROVE  ProverItems(d, trees, Append(committed, layer))
<1> DEFINE more == Append(committed, layer)
<1>1. /\ IsSeq(more) /\ Len(more) = Len(committed) + 1
      /\ \A k \in DOMAIN more : k # Len(committed) + 1 => k \in DOMAIN committed /\ more[k] = committed[k]
  BY AppendFacts
<1>2. Len(d) \in Nat /\ DOMAIN d = 1 .. Len(d) /\ Len(committed) \in Nat
  BY SeqFacts
<1> HIDE DEF more
<1>3. ASSUME NEW i \in DOMAIN d
      PROVE  ItemAt(i, d[i], trees, more)
  <2>1. ItemAt(i, d[i], trees, committed)
    BY DEF ProverItems
  <2>2. i # trees + Len(more) + 2 /\ i # trees + Len(more) + 3
    BY <1>1, <1>2
  <2>3. ASSUME NEW k \in DOMAIN more, i = trees + 1 + k
        PROVE  d[i] = <<"fri", more[k].level>>
    <3>1. k # Len(committed) + 1
      BY <1>2, <2>3
    <3>2. k \in DOMAIN committed /\ more[k] = committed[k]
      BY <1>1, <3>1
    <3> QED BY <2>1, <2>3, <3>2 DEF ItemAt
  <2> QED BY <2>1, <2>2, <2>3 DEF ItemAt
<1>4. ProverItems(d, trees, more)
  BY <1>3 DEF ProverItems
<1> QED BY <1>4, Zenon DEF more

(* A draw is recorded behind the item it follows.                           *)
LEMMA DrawAppended ==
  ASSUME IsSeq(drawn), IsSeq(channel.digest), NEW trees \in Nat, NEW committed, IsSeq(committed),
         ProverItems(channel.digest, trees, committed), Draws(drawn, trees, committed),
         NEW item, ItemAt(Len(channel.digest) + 1, item, trees, committed),
         Len(channel.digest) + 1 = DrawPlace(Len(drawn) + 1, trees, Len(committed)),
         MixAndDraw(item)
  PROVE  /\ IsSeq(drawn') /\ Len(drawn') = Len(drawn) + 1
         /\ IsSeq(channel'.digest) /\ Len(channel'.digest) = Len(channel.digest) + 1
         /\ ProverItems(channel'.digest, trees, committed)
         /\ Draws(drawn', trees, committed)
<1> DEFINE e == Append(channel.digest, item)
           mixed == [digest |-> e, n_draws |-> 0]
<1>1. drawn' = Append(drawn, mixed) /\ channel' = [mixed EXCEPT !.n_draws = @ + 1]
  BY DEF MixAndDraw, Mix, AfterDraw
<1>2. mixed.digest = e /\ channel'.digest = e
  BY <1>1
<1>3. /\ IsSeq(e) /\ Len(e) = Len(channel.digest) + 1 /\ ProverItems(e, trees, committed)
  BY AppendFacts, ItemAppended
<1> HIDE DEF e, mixed
<1>4. /\ IsSeq(drawn') /\ Len(drawn') = Len(drawn) + 1 /\ drawn'[Len(drawn) + 1] = mixed
      /\ \A k \in DOMAIN drawn' : k # Len(drawn) + 1 => k \in DOMAIN drawn /\ drawn'[k] = drawn[k]
  BY <1>1, AppendFacts
<1>5. Draws(drawn', trees, committed)
  BY <1>2, <1>3, <1>4 DEF Draws
<1> QED BY <1>2, <1>3, <1>4, <1>5

(* So is a draw that comes with a new layer.                                *)
LEMMA LayerDraw ==
  ASSUME ProverInv, LastTree \in Nat, NEW layer, NEW n \in Nat, n = Len(layers),
         Len(channel.digest) = LastTree + 1 + n, Len(drawn) = n + 1,
         MixAndDraw(<<"fri", layer.level>>), layers' = Append(layers, layer)
  PROVE  /\ IsSeq(layers') /\ Len(layers') = n + 1
         /\ IsSeq(drawn') /\ Len(drawn') = n + 2
         /\ IsSeq(channel'.digest) /\ Len(channel'.digest) = LastTree + 2 + n
         /\ ProverItems(channel'.digest, LastTree, layers')
         /\ Draws(drawn', LastTree, layers')
<1>1. /\ IsSeq(layers) /\ IsSeq(drawn) /\ IsSeq(channel.digest)
      /\ ProverItems(channel.digest, LastTree, layers) /\ Draws(drawn, LastTree, layers)
  BY DEF ProverInv
<1>2. /\ IsSeq(layers') /\ Len(layers') = n + 1 /\ layers'[n + 1] = layer
  BY <1>1, AppendFacts
<1>3. DOMAIN layers' = 1 .. n + 1 /\ DOMAIN drawn = 1 .. n + 1
  BY <1>1, <1>2, SeqFacts
<1>4. ProverItems(channel.digest, LastTree, layers')
  BY <1>1, LayerAppended
<1>5. Draws(drawn, LastTree, layers')
  <2> SUFFICES ASSUME NEW k \in DOMAIN drawn
               PROVE  /\ IsSeq(drawn[k].digest)
                      /\ Len(drawn[k].digest) = DrawPlace(k, LastTree, Len(layers'))
                      /\ ProverItems(drawn[k].digest, LastTree, layers')
    BY DEF Draws
  <2>1. /\ IsSeq(drawn[k].digest) /\ Len(drawn[k].digest) = DrawPlace(k, LastTree, Len(layers))
        /\ ProverItems(drawn[k].digest, LastTree, layers)
    BY <1>1 DEF Draws
  <2>2. k \in 1 .. n + 1
    BY <1>3
  <2>3. /\ DrawPlace(k, LastTree, Len(layers)) = LastTree + k
        /\ DrawPlace(k, LastTree, Len(layers')) = LastTree + k
    BY <1>2, <2>2 DEF DrawPlace
  <2>4. Len(drawn[k].digest) <= LastTree + 1 + Len(layers)
    BY <2>1, <2>2, <2>3
  <2>5. ProverItems(drawn[k].digest, LastTree, layers')
    BY <1>1, <2>1, <2>4, LayerAppended
  <2> QED BY <2>1, <2>3, <2>5
<1> DEFINE item == <<"fri", layer.level>>
<1>6. ItemAt(Len(channel.digest) + 1, item, LastTree, layers')
  <2>1. ASSUME NEW k \in DOMAIN layers', Len(channel.digest) + 1 = LastTree + 1 + k
        PROVE  item = <<"fri", layers'[k].level>>
    <3>1. k = n + 1
      BY <1>3, <2>1
    <3> QED BY <1>2, <3>1
  <2>2. /\ ~(Len(channel.digest) + 1 <= LastTree) /\ Len(channel.digest) + 1 # LastTree + 1
        /\ Len(channel.digest) + 1 # LastTree + Len(layers') + 2
        /\ Len(channel.digest) + 1 # LastTree + Len(layers') + 3
    BY <1>2
  <2> HIDE DEF item
  <2> QED BY <2>1, <2>2 DEF ItemAt
<1>7. Len(channel.digest) + 1 = DrawPlace(Len(drawn) + 1, LastTree, Len(layers'))
  BY <1>2 DEF DrawPlace
<1>8. MixAndDraw(item)
  BY Zenon
<1> HIDE DEF item
<1>9. /\ IsSeq(drawn') /\ Len(drawn') = Len(drawn) + 1
      /\ IsSeq(channel'.digest) /\ Len(channel'.digest) = Len(channel.digest) + 1
      /\ ProverItems(channel'.digest, LastTree, layers')
      /\ Draws(drawn', LastTree, layers')
  BY <1>1, <1>2, <1>4, <1>5, <1>6, <1>7, <1>8, DrawAppended
<1> QED BY <1>2, <1>9

(* The prover's part of the state, and the steps that leave it alone.       *)
LaterStep == setting' = setting /\ stage \notin ProverSteps /\ stage' \notin ProverSteps

(* What follows the last draw of the prover leaves its channel and its      *)
(* layers alone.                                                            *)
LEMMA VerifierIsLater ==
  ASSUME Open \/ Deliver \/ ReadCommitment \/ ReadSamples \/ ReadFirstLayer \/ ReadInnerLayer
           \/ ReadLastLayer \/ CheckNonceAndDrawQueries \/ VerifyTrees \/ AnswerQueries
           \/ VerifyLayer \/ VerifyLastLayer \/ Finished
  PROVE  LaterStep /\ UNCHANGED <<channel, drawn, line, folds, layers, positions>>
<1>1. CASE Open \/ Deliver
  BY <1>1, Zenon DEF Open, Deliver, LaterStep, ProverSteps, prover
<1>2. CASE ReadCommitment
  BY <1>2 DEF ReadCommitment, LaterStep, ProverSteps, prover
<1>3. CASE ReadSamples
  BY <1>3 DEF ReadSamples, LaterStep, ProverSteps, prover
<1>4. CASE ReadFirstLayer
  BY <1>4 DEF ReadFirstLayer, Conclude, LaterStep, ProverSteps, prover
<1>5. CASE ReadInnerLayer
  BY <1>5 DEF ReadInnerLayer, Conclude, LaterStep, ProverSteps, prover
<1>6. CASE ReadLastLayer
  BY <1>6 DEF ReadLastLayer, Conclude, LaterStep, ProverSteps, prover
<1>7. CASE CheckNonceAndDrawQueries
  BY <1>7 DEF CheckNonceAndDrawQueries, Conclude, LaterStep, ProverSteps, prover
<1>8. CASE VerifyTrees
  BY <1>8 DEF VerifyTrees, Conclude, LaterStep, ProverSteps, prover
<1>9. CASE AnswerQueries
  BY <1>9 DEF AnswerQueries, Conclude, LaterStep, ProverSteps, prover
<1>10. CASE VerifyLayer
  BY <1>10 DEF VerifyLayer, Conclude, LaterStep, ProverSteps, prover
<1>11. CASE VerifyLastLayer
  BY <1>11 DEF VerifyLastLayer, Conclude, LaterStep, ProverSteps, prover
<1>12. CASE Finished
  BY <1>12 DEF Finished, vars, LaterStep, ProverSteps, prover
<1> QED BY <1>1, <1>2, <1>3, <1>4, <1>5, <1>6, <1>7, <1>8, <1>9, <1>10, <1>11, <1>12

(* Every step keeps the invariant of the prover: the channel has the items  *)
(* in the order of commit, prove_values and FriProver::commit, and each     *)
(* draw is behind its item.                                                 *)
LEMMA ProverStep ==
  ASSUME ProverInv, [Next]_vars
  PROVE  ProverInv'
<1>1. /\ setting \in Settings /\ IsSeq(layers) /\ IsSeq(drawn) /\ IsSeq(channel.digest)
      /\ ProverItems(channel.digest, LastTree, layers)
      /\ Draws(drawn, LastTree, layers) /\ ProverProgress
  BY DEF ProverInv
<1>2. LastTree \in Nat /\ LastTree >= 1
  BY <1>1, Places
<1>3. /\ Len(layers) \in Nat /\ DOMAIN layers = 1 .. Len(layers)
      /\ Len(drawn) \in Nat /\ Len(channel.digest) \in Nat
  BY <1>1, SeqFacts
<1>4. ASSUME setting' = setting
      PROVE  LastTree' = LastTree
  BY <1>4 DEF LastTree
<1>5. CASE CommitTrace
  <2> DEFINE item == <<"trace", Len(channel.digest) + 1>>
  <2>1. /\ stage = "commit" /\ setting' = setting /\ UNCHANGED <<layers, drawn>>
        /\ channel' = Mix(channel, item)
        /\ stage' = IF Len(channel.digest) + 1 = LastTree THEN "sample" ELSE "commit"
    BY <1>5 DEF CommitTrace
  <2>2. Len(channel.digest) < LastTree /\ Len(layers) = 0 /\ Len(drawn) = 0
    BY <1>1, <2>1 DEF ProverProgress
  <2>3. ItemAt(Len(channel.digest) + 1, item, LastTree, layers)
    BY <1>2, <1>3, <2>2 DEF ItemAt
  <2>4. channel'.digest = Append(channel.digest, item)
    BY <2>1 DEF Mix
  <2> HIDE DEF item
  <2>5. /\ IsSeq(channel'.digest) /\ Len(channel'.digest) = Len(channel.digest) + 1
        /\ ProverItems(channel'.digest, LastTree, layers)
    BY <1>1, <2>3, <2>4, AppendFacts, ItemAppended
  <2>6. LastTree' = LastTree
    BY <1>4, <2>1
  <2>7. ProverProgress'
    BY <1>2, <1>3, <2>1, <2>2, <2>5, <2>6 DEF ProverProgress, ProverSteps
  <2> QED BY <1>1, <2>1, <2>5, <2>6, <2>7 DEF ProverInv
<1>6. CASE SampleValues
  <2> DEFINE item == <<"sampled", 1>>
  <2>1. /\ stage = "sample" /\ stage' = "fri" /\ setting' = setting /\ UNCHANGED layers
        /\ MixAndDraw(item)
    BY <1>6 DEF SampleValues
  <2>2. Len(channel.digest) = LastTree /\ Len(layers) = 0 /\ Len(drawn) = 0
    BY <1>1, <2>1 DEF ProverProgress
  <2>3. ItemAt(Len(channel.digest) + 1, item, LastTree, layers)
    BY <1>2, <1>3, <2>2 DEF ItemAt
  <2>4. Len(channel.digest) + 1 = DrawPlace(Len(drawn) + 1, LastTree, Len(layers))
    BY <1>2, <2>2 DEF DrawPlace
  <2> HIDE DEF item
  <2>5. /\ IsSeq(drawn') /\ Len(drawn') = Len(drawn) + 1
        /\ IsSeq(channel'.digest) /\ Len(channel'.digest) = Len(channel.digest) + 1
        /\ ProverItems(channel'.digest, LastTree, layers)
        /\ Draws(drawn', LastTree, layers)
    BY <1>1, <1>2, <2>1, <2>3, <2>4, DrawAppended
  <2>6. LastTree' = LastTree
    BY <1>4, <2>1
  <2>7. ProverProgress'
    BY <1>2, <1>3, <2>1, <2>2, <2>5, <2>6 DEF ProverProgress, ProverSteps
  <2> QED BY <1>1, <2>1, <2>5, <2>6, <2>7 DEF ProverInv
<1>7. CASE CommitFirstLayer
  <2> DEFINE layer == CommittedLayer(0, LiftingLog, setting.fold_step)
  <2>1. /\ stage = "fri" /\ stage' = "fri_inner" /\ setting' = setting
        /\ MixAndDraw(<<"fri", 0>>) /\ layers' = <<layer>>
    BY <1>7 DEF CommitFirstLayer
  <2>2. Len(channel.digest) = LastTree + 1 /\ Len(layers) = 0 /\ Len(drawn) = 1
    BY <1>1, <2>1 DEF ProverProgress
  <2>3. layer.level = 0
    BY DEF CommittedLayer
  <2> HIDE DEF layer
  <2>4. layers' = Append(layers, layer)
    <3>1. layers = <<>>
      BY <1>1, <2>2 DEF IsSeq
    <3> QED BY <2>1, <3>1
  <2>5. MixAndDraw(<<"fri", layer.level>>)
    BY <2>1, <2>3
  <2>6. /\ IsSeq(layers') /\ Len(layers') = 1
        /\ IsSeq(drawn') /\ Len(drawn') = 2
        /\ IsSeq(channel'.digest) /\ Len(channel'.digest) = LastTree + 2
        /\ ProverItems(channel'.digest, LastTree, layers')
        /\ Draws(drawn', LastTree, layers')
    <3> DEFINE n == 0
    <3>1. n \in Nat /\ n = Len(layers) /\ Len(channel.digest) = LastTree + 1 + n /\ Len(drawn) = n + 1
      BY <1>2, <2>2
    <3> HIDE DEF n
    <3>2. /\ IsSeq(layers') /\ Len(layers') = n + 1
          /\ IsSeq(drawn') /\ Len(drawn') = n + 2
          /\ IsSeq(channel'.digest) /\ Len(channel'.digest) = LastTree + 2 + n
          /\ ProverItems(channel'.digest, LastTree, layers')
          /\ Draws(drawn', LastTree, layers')
      BY <1>2, <2>4, <2>5, <3>1, LayerDraw
    <3> QED BY <1>2, <3>2 DEF n
  <2>7. LastTree' = LastTree
    BY <1>4, <2>1
  <2>8. ProverProgress'
    BY <1>2, <2>1, <2>6, <2>7 DEF ProverProgress, ProverSteps
  <2> QED BY <1>1, <2>1, <2>6, <2>7, <2>8 DEF ProverInv
<1>8. CASE CommitInnerLayer
  <2>1. PICK step, level :
          /\ stage = "fri_inner" /\ stage' = stage /\ setting' = setting
          /\ MixAndDraw(<<"fri", level>>)
          /\ layers' = Append(layers, CommittedLayer(level, line.log, step))
    BY <1>8 DEF CommitInnerLayer
  <2> DEFINE layer == CommittedLayer(level, line.log, step)
  <2>2. /\ Len(channel.digest) = LastTree + 1 + Len(layers)
        /\ Len(layers) >= 1 /\ Len(drawn) = Len(layers) + 1
    BY <1>1, <2>1 DEF ProverProgress
  <2>3. layer.level = level
    BY DEF CommittedLayer
  <2>4. layers' = Append(layers, layer)
    BY <2>1
  <2> HIDE DEF layer
  <2>5. MixAndDraw(<<"fri", layer.level>>)
    BY <2>1, <2>3
  <2> DEFINE n == Len(layers)
  <2>6. n \in Nat /\ n = Len(layers) /\ Len(channel.digest) = LastTree + 1 + n /\ Len(drawn) = n + 1
    BY <1>3, <2>2
  <2> HIDE DEF n
  <2>7. /\ IsSeq(layers') /\ Len(layers') = n + 1
        /\ IsSeq(drawn') /\ Len(drawn') = n + 2
        /\ IsSeq(channel'.digest) /\ Len(channel'.digest) = LastTree + 2 + n
        /\ ProverItems(channel'.digest, LastTree, layers')
        /\ Draws(drawn', LastTree, layers')
    BY <1>2, <2>4, <2>5, <2>6, LayerDraw
  <2>8. LastTree' = LastTree
    BY <1>4, <2>1
  <2>9. ProverProgress'
    BY <1>2, <2>1, <2>6, <2>7, <2>8 DEF ProverProgress, ProverSteps
  <2> QED BY <1>1, <2>1, <2>7, <2>8, <2>9 DEF ProverInv
<1>9. CASE CommitLastLayer
  <2> DEFINE item == <<"poly", 1>>
  <2>1. /\ stage = "fri_inner" /\ stage' = "grind" /\ setting' = setting
        /\ UNCHANGED <<layers, drawn>> /\ channel' = Mix(channel, item)
    BY <1>9 DEF CommitLastLayer
  <2>2. /\ Len(channel.digest) = LastTree + 1 + Len(layers)
        /\ Len(layers) >= 1 /\ Len(drawn) = Len(layers) + 1
    BY <1>1, <2>1 DEF ProverProgress
  <2>3. ItemAt(Len(channel.digest) + 1, item, LastTree, layers)
    BY <1>2, <1>3, <2>2 DEF ItemAt
  <2>4. channel'.digest = Append(channel.digest, item)
    BY <2>1 DEF Mix
  <2> HIDE DEF item
  <2>5. /\ IsSeq(channel'.digest) /\ Len(channel'.digest) = Len(channel.digest) + 1
        /\ ProverItems(channel'.digest, LastTree, layers)
    BY <1>1, <2>3, <2>4, AppendFacts, ItemAppended
  <2>6. LastTree' = LastTree
    BY <1>4, <2>1
  <2>7. ProverProgress'
    BY <1>2, <1>3, <2>1, <2>2, <2>5, <2>6 DEF ProverProgress, ProverSteps
  <2> QED BY <1>1, <2>1, <2>5, <2>6, <2>7 DEF ProverInv
<1>10. CASE GrindAndDrawQueries
  <2> DEFINE item == <<"nonce", 1>>
  <2>1. /\ stage = "grind" /\ stage' = "open" /\ setting' = setting /\ UNCHANGED layers
        /\ MixAndDraw(item)
    BY <1>10 DEF GrindAndDrawQueries
  <2>2. /\ Len(channel.digest) = LastTree + 2 + Len(layers)
        /\ Len(layers) >= 1 /\ Len(drawn) = Len(layers) + 1
    BY <1>1, <2>1 DEF ProverProgress
  <2>3. ItemAt(Len(channel.digest) + 1, item, LastTree, layers)
    BY <1>2, <1>3, <2>2 DEF ItemAt
  <2>4. Len(channel.digest) + 1 = DrawPlace(Len(drawn) + 1, LastTree, Len(layers))
    BY <1>2, <1>3, <2>2 DEF DrawPlace
  <2> HIDE DEF item
  <2>5. /\ IsSeq(drawn') /\ Len(drawn') = Len(drawn) + 1
        /\ IsSeq(channel'.digest) /\ Len(channel'.digest) = Len(channel.digest) + 1
        /\ ProverItems(channel'.digest, LastTree, layers)
        /\ Draws(drawn', LastTree, layers)
    BY <1>1, <1>2, <2>1, <2>3, <2>4, DrawAppended
  <2>6. LastTree' = LastTree
    BY <1>4, <2>1
  <2>7. ProverProgress'
    BY <1>2, <1>3, <2>1, <2>2, <2>5, <2>6 DEF ProverProgress, ProverSteps
  <2> QED BY <1>1, <2>1, <2>5, <2>6, <2>7 DEF ProverInv
<1>11. CASE LaterStep /\ UNCHANGED <<channel, drawn, layers>>
  <2>1. LastTree' = LastTree
    BY <1>4, <1>11 DEF LaterStep
  <2>2. ProverProgress'
    BY <1>1, <1>11 DEF LaterStep, ProverProgress, ProverSteps
  <2> QED BY <1>1, <1>11, <2>1, <2>2 DEF ProverInv, LaterStep
<1>12. CASE UNCHANGED vars
  <2>1. UNCHANGED <<setting, stage, channel, drawn, layers>>
    BY <1>12 DEF vars, prover
  <2>2. LastTree' = LastTree
    BY <1>4, <2>1
  <2>3. ProverProgress'
    BY <1>1, <2>1, <2>2 DEF ProverProgress
  <2> QED BY <1>1, <2>1, <2>2, <2>3 DEF ProverInv
<1> QED
  BY <1>5, <1>6, <1>7, <1>8, <1>9, <1>10, <1>11, <1>12, VerifierIsLater DEF Next

-----------------------------------------------------------------------------
(* The proof, and what is left of it when it arrives *)

LayerName(k) == <<"fri", layers[k].level>>
ProofShape(p) ==
  /\ p.commitments = [t \in Trees |-> <<"trace", t>>]
  /\ p.sampled = 1
  /\ p.first_layer.commitment = LayerName(1)
  /\ IsSeq(p.inner_layers) /\ Len(p.inner_layers) + 1 = Len(layers)
  /\ \A k \in DOMAIN p.inner_layers : p.inner_layers[k].commitment = LayerName(k + 1)
  /\ p.last_layer_poly = 1 /\ p.nonce = 1

(* A commitment to a layer is not taken for the last layer's coefficients.  *)
CommitsToLayer(l) == l.commitment[1] # "poly"
ReceivedShape(r) ==
  /\ r.commitments = [t \in Trees |-> r.commitments[t]]
  /\ CommitsToLayer(r.first_layer)
  /\ IsSeq(r.inner_layers) /\ \A k \in DOMAIN r.inner_layers : CommitsToLayer(r.inner_layers[k])

IsLayer(l) ==
  /\ l = [commitment |-> l.commitment, fri_witness |-> l.fri_witness, witness |-> l.witness]
  /\ CommitsToLayer(l)
IsProof(p) ==
  /\ p = [commitments |-> p.commitments, sampled |-> p.sampled, first_layer |-> p.first_layer,
          inner_layers |-> p.inner_layers, last_layer_poly |-> p.last_layer_poly, nonce |-> p.nonce,
          decommitments |-> p.decommitments, queried |-> p.queried]
  /\ p.commitments = [t \in Trees |-> p.commitments[t]]
  /\ IsLayer(p.first_layer)
  /\ IsSeq(p.inner_layers) /\ \A k \in DOMAIN p.inner_layers : IsLayer(p.inner_layers[k])

(* A layer that is opened carries the root the prover committed to.         *)
LEMMA LayerOfProof ==
  ASSUME NEW k, NEW low_memory
  PROVE  LayerProof(k, low_memory).commitment = LayerName(k) /\ IsLayer(LayerProof(k, low_memory))
<1> DEFINE l == LayerProof(k, low_memory)
<1>1. PICK f, w : l = [commitment |-> LayerName(k), fri_witness |-> f, witness |-> w]
  BY Zenon DEF LayerProof, LayerName
<1> HIDE DEF l
<1>2. /\ l.commitment = LayerName(k)
      /\ l = [commitment |-> l.commitment, fri_witness |-> l.fri_witness, witness |-> l.witness]
  BY <1>1
<1>3. LayerName(k)[1] # "poly"
  BY DEF LayerName
<1>4. IsLayer(l)
  BY <1>2, <1>3 DEF IsLayer, CommitsToLayer
<1> QED BY <1>2, <1>4, Zenon DEF l

(* The proof that prove_values makes names what the prover absorbed.        *)
LEMMA OpenedShape ==
  ASSUME Len(layers) \in Nat, Len(layers) >= 1, NEW low_memory
  PROVE  ProofShape(OpenedIn(low_memory)) /\ IsProof(OpenedIn(low_memory))
<1> DEFINE p == OpenedIn(low_memory)
           Inner(k) == LayerProof(k + 1, low_memory)
<1>1. PICK d, q :
        p = [commitments |-> [t \in Trees |-> <<"trace", t>>], sampled |-> 1,
             first_layer |-> LayerProof(1, low_memory),
             inner_layers |-> [k \in 1 .. Len(layers) - 1 |-> Inner(k)],
             last_layer_poly |-> 1, nonce |-> 1, decommitments |-> d, queried |-> q]
  BY Zenon DEF OpenedIn
<1> HIDE DEF p, Inner
<1>2. /\ p = [commitments |-> p.commitments, sampled |-> p.sampled, first_layer |-> p.first_layer,
              inner_layers |-> p.inner_layers, last_layer_poly |-> p.last_layer_poly,
              nonce |-> p.nonce, decommitments |-> p.decommitments, queried |-> p.queried]
      /\ p.commitments = [t \in Trees |-> <<"trace", t>>] /\ p.sampled = 1
      /\ p.first_layer = LayerProof(1, low_memory)
      /\ p.inner_layers = [k \in 1 .. Len(layers) - 1 |-> Inner(k)]
      /\ p.last_layer_poly = 1 /\ p.nonce = 1
  BY <1>1
<1>3. IsSeq(p.inner_layers) /\ Len(p.inner_layers) = Len(layers) - 1
  <2> DEFINE s == p.inner_layers  n == Len(layers) - 1
  <2>1. n \in Nat /\ DOMAIN s = 1 .. n /\ s = [i \in DOMAIN s |-> s[i]]
    BY <1>2
  <2> HIDE DEF s, n
  <2>2. IsSeq(s) /\ Len(s) = n
    BY <2>1, SeqOfFunction
  <2> QED BY <2>2 DEF s, n
<1>4. ASSUME NEW k \in DOMAIN p.inner_layers
      PROVE  p.inner_layers[k].commitment = LayerName(k + 1) /\ IsLayer(p.inner_layers[k])
  <2>1. p.inner_layers[k] = Inner(k)
    BY <1>2, <1>4
  <2>2. Inner(k).commitment = LayerName(k + 1) /\ IsLayer(Inner(k))
    BY LayerOfProof DEF Inner
  <2> QED BY <2>1, <2>2
<1>5. p.first_layer.commitment = LayerName(1) /\ IsLayer(p.first_layer)
  BY <1>2, LayerOfProof
<1>6. p.commitments = [t \in Trees |-> p.commitments[t]]
  BY <1>2
<1>7. ProofShape(p)
  BY <1>2, <1>3, <1>4, <1>5 DEF ProofShape
<1>8. IsProof(p)
  BY <1>2, <1>3, <1>4, <1>5, <1>6 DEF IsProof
<1> QED BY <1>7, <1>8, Zenon DEF p

(* A layer with one change still commits to something.                      *)
LEMMA DamagedLayerShape ==
  ASSUME NEW l, IsLayer(l), NEW x \in DamagedLayer(l)
  PROVE  CommitsToLayer(x)
<1>1. CASE x = [l EXCEPT !.commitment = ForeignRoot]
  <2>1. x.commitment = ForeignRoot
    BY <1>1 DEF IsLayer
  <2> QED BY <2>1 DEF CommitsToLayer, ForeignRoot
<1>2. CASE \E w : x = [l EXCEPT !.fri_witness = w]
  <2>1. x.commitment = l.commitment
    BY <1>2 DEF IsLayer
  <2> QED BY <2>1 DEF CommitsToLayer, IsLayer
<1>3. CASE \E w : x = [l EXCEPT !.witness = w]
  <2>1. x.commitment = l.commitment
    BY <1>3 DEF IsLayer
  <2> QED BY <2>1 DEF CommitsToLayer, IsLayer
<1> QED BY <1>1, <1>2, <1>3, Zenon DEF DamagedLayer

(* Whatever is changed on the way, the verifier still reads commitments     *)
(* where it expects them.                                                   *)
LEMMA ReceivedIntact ==
  ASSUME NEW p, IsProof(p)
  PROVE  ReceivedShape(p)
BY Zenon DEF IsProof, ReceivedShape, IsLayer

(* A proof with one change has the shape of a proof, with a layer more or   *)
(* fewer.                                                                   *)
LEMMA DamagedShape ==
  ASSUME NEW p, IsProof(p), NEW x \in Damaged(p)
  PROVE  ReceivedShape(x)
<1>1. /\ p = [commitments |-> p.commitments, sampled |-> p.sampled, first_layer |-> p.first_layer,
              inner_layers |-> p.inner_layers, last_layer_poly |-> p.last_layer_poly,
              nonce |-> p.nonce, decommitments |-> p.decommitments, queried |-> p.queried]
      /\ p.commitments = [t \in Trees |-> p.commitments[t]]
      /\ IsLayer(p.first_layer) /\ CommitsToLayer(p.first_layer)
      /\ IsSeq(p.inner_layers) /\ \A k \in DOMAIN p.inner_layers :
                                    IsLayer(p.inner_layers[k]) /\ CommitsToLayer(p.inner_layers[k])
  BY DEF IsProof, IsLayer
<1>2. ASSUME x.commitments = p.commitments, x.first_layer = p.first_layer,
             x.inner_layers = p.inner_layers
      PROVE  ReceivedShape(x)
  BY <1>1, <1>2 DEF ReceivedShape
<1>3. CASE \E t \in Trees : x = [p EXCEPT !.commitments[t] = ForeignRoot]
  <2>1. PICK t \in Trees : x = [p EXCEPT !.commitments[t] = ForeignRoot]
    BY <1>3
  <2>2. /\ x.commitments = [p.commitments EXCEPT ![t] = ForeignRoot]
        /\ x.first_layer = p.first_layer /\ x.inner_layers = p.inner_layers
    BY <1>1, <2>1
  <2>3. x.commitments = [u \in Trees |-> x.commitments[u]]
    BY <1>1, <2>2
  <2> QED BY <1>1, <2>2, <2>3 DEF ReceivedShape
<1>4. CASE \E v : x = [p EXCEPT !.sampled = v]
  BY <1>1, <1>2, <1>4
<1>5. CASE \E l \in DamagedLayer(p.first_layer) : x = [p EXCEPT !.first_layer = l]
  <2>1. PICK l \in DamagedLayer(p.first_layer) : x = [p EXCEPT !.first_layer = l]
    BY <1>5
  <2>2. x.commitments = p.commitments /\ x.first_layer = l /\ x.inner_layers = p.inner_layers
    BY <1>1, <2>1
  <2>3. CommitsToLayer(l)
    BY <1>1, <2>1, DamagedLayerShape
  <2> QED BY <1>1, <2>2, <2>3 DEF ReceivedShape
<1>6. ASSUME NEW s, x = [p EXCEPT !.inner_layers = s], IsSeq(s),
             \A k \in DOMAIN s : CommitsToLayer(s[k])
      PROVE  ReceivedShape(x)
  <2>1. x.commitments = p.commitments /\ x.first_layer = p.first_layer /\ x.inner_layers = s
    BY <1>1, <1>6
  <2> QED BY <1>1, <1>6, <2>1 DEF ReceivedShape
<1>7. CASE \E k \in DOMAIN p.inner_layers : \E l \in DamagedLayer(p.inner_layers[k]) :
             x = [p EXCEPT !.inner_layers[k] = l]
  <2>0. PICK k \in DOMAIN p.inner_layers :
          \E l \in DamagedLayer(p.inner_layers[k]) : x = [p EXCEPT !.inner_layers[k] = l]
    BY <1>7
  <2>1. PICK l \in DamagedLayer(p.inner_layers[k]) : x = [p EXCEPT !.inner_layers[k] = l]
    BY <2>0
  <2> DEFINE inner == p.inner_layers
             s == [inner EXCEPT ![k] = l]
  <2>2. x = [p EXCEPT !.inner_layers = s]
    BY <1>1, <2>1
  <2>3. CommitsToLayer(l)
    BY <1>1, <2>1, DamagedLayerShape
  <2>4. DOMAIN s = DOMAIN inner /\ s = [i \in DOMAIN s |-> s[i]]
    OBVIOUS
  <2>5. \A i \in DOMAIN s : s[i] = l \/ s[i] = inner[i]
    OBVIOUS
  <2>6. Len(inner) \in Nat /\ DOMAIN inner = 1 .. Len(inner)
    BY <1>1, SeqFacts
  <2>7. \A i \in DOMAIN inner : CommitsToLayer(inner[i])
    BY <1>1
  <2> HIDE DEF s, inner
  <2>8. IsSeq(s)
    BY <2>4, <2>6, SeqOfFunction
  <2>9. \A i \in DOMAIN s : CommitsToLayer(s[i])
    BY <2>3, <2>4, <2>5, <2>7
  <2> QED BY <1>6, <2>2, <2>8, <2>9
<1>8. CASE 1 \in DOMAIN p.inner_layers /\ x = [p EXCEPT !.inner_layers = Front(@)]
  <2> DEFINE inner == p.inner_layers
             s == Front(inner)
             n == Len(inner) - 1
  <2>1. x = [p EXCEPT !.inner_layers = s]
    BY <1>1, <1>8
  <2>2. Len(inner) \in Nat /\ DOMAIN inner = 1 .. Len(inner) /\ 1 \in DOMAIN inner
    BY <1>1, <1>8, SeqFacts
  <2>3. n \in Nat /\ s = [i \in 1 .. n |-> inner[i]]
    <3>1. inner \in Seq(Range(inner))
      BY <1>1 DEF IsSeq
    <3> HIDE DEF inner
    <3>2. n \in Nat
      BY <2>2
    <3> QED BY <2>2, <3>1, <3>2 DEF Front
  <2>4. \A i \in DOMAIN inner : CommitsToLayer(inner[i])
    BY <1>1
  <2> HIDE DEF inner, s
  <2>5. DOMAIN s = 1 .. n /\ s = [i \in DOMAIN s |-> s[i]]
    BY <2>3
  <2>6. IsSeq(s)
    BY <2>3, <2>5, SeqOfFunction
  <2>7. \A i \in DOMAIN s : i \in DOMAIN inner /\ s[i] = inner[i]
    BY <2>2, <2>3
  <2>8. \A i \in DOMAIN s : CommitsToLayer(s[i])
    BY <2>4, <2>7
  <2> QED BY <1>6, <2>1, <2>6, <2>8
<1>9. CASE x = [p EXCEPT !.inner_layers = Append(@, p.first_layer)]
  <2> DEFINE s == Append(p.inner_layers, p.first_layer)
  <2>1. x = [p EXCEPT !.inner_layers = s]
    BY <1>1, <1>9
  <2>2. IsSeq(s)
    BY <1>1, AppendFacts
  <2>3. \A i \in DOMAIN s : CommitsToLayer(s[i])
    <3> SUFFICES ASSUME NEW i \in DOMAIN s PROVE CommitsToLayer(s[i])
      OBVIOUS
    <3>1. CASE i = Len(p.inner_layers) + 1
      BY <1>1, <3>1, AppendFacts
    <3>2. CASE i # Len(p.inner_layers) + 1
      BY <1>1, <3>2, AppendFacts
    <3> QED BY <3>1, <3>2
  <2> HIDE DEF s
  <2> QED BY <1>6, <2>1, <2>2, <2>3
<1>10. CASE \E v : x = [p EXCEPT !.last_layer_poly = v]
  BY <1>1, <1>2, <1>10
<1>11. CASE \E v : x = [p EXCEPT !.nonce = v]
  BY <1>1, <1>2, <1>11
<1>12. CASE \E t, w : x = [p EXCEPT !.decommitments[t] = w]
  BY <1>1, <1>2, <1>12
<1>13. CASE \E t, c, w : x = [p EXCEPT !.queried[t][c] = w]
  BY <1>1, <1>2, <1>13
<1> DEFINE
      Roots == {[p EXCEPT !.commitments[t] = ForeignRoot] : t \in Trees}
      Samples == {[p EXCEPT !.sampled = 2]}
      First == {[p EXCEPT !.first_layer = l] : l \in DamagedLayer(p.first_layer)}
      Inner == UNION {{[p EXCEPT !.inner_layers[k] = l] : l \in DamagedLayer(p.inner_layers[k])}
                      : k \in DOMAIN p.inner_layers}
      Fewer == {[p EXCEPT !.inner_layers = Front(@)] : n \in {1} \cap DOMAIN p.inner_layers}
      More == {[p EXCEPT !.inner_layers = Append(@, p.first_layer)]}
      Polys == {[p EXCEPT !.last_layer_poly = id] : id \in {2, 3}}
      Nonces == {[p EXCEPT !.nonce = n] : n \in {2, 3}}
      Witnesses == UNION {{[p EXCEPT !.decommitments[t] = w]
                             : w \in Altered(p.decommitments[t], ForeignHash)}
                          : t \in {u \in Trees : setting.columns[u] # <<>>}}
      Values == UNION {{[p EXCEPT !.queried[tc[1]][tc[2]] = v]
                          : v \in Altered(p.queried[tc[1]][tc[2]], WrongCell)} : tc \in TreeColumns}
<1>14. Damaged(p) = Roots \cup Samples \cup First \cup Inner \cup Fewer \cup More \cup Polys
                      \cup Nonces \cup Witnesses \cup Values
  BY DEF Damaged
<1>15. x \in Inner => ReceivedShape(x)
  BY <1>7
<1>16. x \in Witnesses => ReceivedShape(x)
  <2> SUFFICES ASSUME x \in Witnesses PROVE ReceivedShape(x)
    OBVIOUS
  <2>1. PICK t \in Trees : x \in {[p EXCEPT !.decommitments[t] = w]
                                    : w \in Altered(p.decommitments[t], ForeignHash)}
    OBVIOUS
  <2> QED BY <1>12, <2>1
<1>17. x \in Values => ReceivedShape(x)
  <2> SUFFICES ASSUME x \in Values PROVE ReceivedShape(x)
    OBVIOUS
  <2>1. PICK tc \in TreeColumns : x \in {[p EXCEPT !.queried[tc[1]][tc[2]] = v]
                                          : v \in Altered(p.queried[tc[1]][tc[2]], WrongCell)}
    OBVIOUS
  <2> QED BY <1>13, <2>1
<1>18. x \in Roots \cup Samples \cup First => ReceivedShape(x)
  BY <1>3, <1>4, <1>5, Zenon
<1>19. x \in Fewer \cup More => ReceivedShape(x)
  BY <1>8, <1>9, Zenon
<1>20. x \in Polys \cup Nonces => ReceivedShape(x)
  BY <1>10, <1>11, Zenon
<1> HIDE DEF Roots, Samples, First, Inner, Fewer, More, Polys, Nonces, Witnesses, Values
<1> QED BY <1>14, <1>15, <1>16, <1>17, <1>18, <1>19, <1>20

-----------------------------------------------------------------------------
(* What the verifier has read *)

ReadAt(place, item, trees, r) ==
  /\ place <= trees => item = r.commitments[place]
  /\ place = trees + 1 => item = <<"sampled", r.sampled>>
  /\ place = trees + 2 => item = r.first_layer.commitment
  /\ \A k \in DOMAIN r.inner_layers : place = trees + 2 + k => item = r.inner_layers[k].commitment
  /\ place = trees + Len(r.inner_layers) + 3 => item = <<"poly", r.last_layer_poly>>
  /\ place = trees + Len(r.inner_layers) + 4 => item = <<"nonce", r.nonce>>
ReadItems(d, trees, r) == \A i \in DOMAIN d : ReadAt(i, d[i], trees, r)

(* The verifier reads the next item.                                        *)
LEMMA ReadAppended ==
  ASSUME NEW d, IsSeq(d), NEW trees, NEW r, ReadItems(d, trees, r),
         NEW x, ReadAt(Len(d) + 1, x, trees, r)
  PROVE  ReadItems(Append(d, x), trees, r)
BY AppendFacts DEF ReadItems

(* A draw that is the prover's number k was made from the digest the        *)
(* prover had at its draw k.                                                *)
LEMMA DrawOfMeans ==
  ASSUME NEW ch, DrawOf(ch) # 0
  PROVE  DrawOf(ch) \in DOMAIN drawn /\ drawn[DrawOf(ch)] = ch
<1>1. \E k \in DOMAIN drawn : drawn[k] = ch
  BY Zenon DEF DrawOf
<1>2. DrawOf(ch) = CHOOSE k \in DOMAIN drawn : drawn[k] = ch
  BY <1>1, Zenon DEF DrawOf
<1> QED BY <1>1, <1>2, Zenon

(* The proof has the first layer and one inner layer for each other layer   *)
(* that was committed.                                                      *)
LEMMA InnerLayers ==
  ASSUME NEW p, ProofShape(p), IsSeq(layers)
  PROVE  /\ Len(layers) \in Nat /\ Len(layers) >= 1 /\ DOMAIN layers = 1 .. Len(layers)
         /\ DOMAIN p.inner_layers = 1 .. Len(layers) - 1
<1> DEFINE inner == p.inner_layers
<1>1. IsSeq(inner) /\ Len(inner) + 1 = Len(layers)
  BY DEF ProofShape
<1> HIDE DEF inner
<1>2. Len(inner) \in Nat /\ DOMAIN inner = 1 .. Len(inner)
  BY <1>1, SeqFacts
<1>3. Len(layers) \in Nat /\ DOMAIN layers = 1 .. Len(layers)
  BY SeqFacts
<1>4. Len(layers) >= 1 /\ Len(layers) - 1 = Len(inner)
  BY <1>1, <1>2, <1>3
<1> QED BY <1>2, <1>3, <1>4 DEF inner

(* The inner layers of a proof read before draw k.                          *)
EarlyLayers(k, p) == {i \in DOMAIN p.inner_layers : i <= k - 2}

(* Two readings of one digest, place by place.                              *)
LEMMA SameItems ==
  ASSUME ProofShape(proof), ReceivedShape(received),
         LastTree \in Nat, LastTree >= 1, Trees = 1 .. LastTree,
         IsSeq(layers), NEW v, IsSeq(v), ReadItems(v, LastTree, received),
         ProverItems(v, LastTree, layers), NEW k \in Nat, k >= 1, Len(v) >= LastTree + k,
         EarlyLayers(k, received) = EarlyLayers(k, proof),
         k = Len(drawn) => /\ received.last_layer_poly = proof.last_layer_poly
                           /\ received.nonce = proof.nonce
  PROVE  FixedBefore(k, received) = FixedBefore(k, proof)
<1>1. /\ Len(v) \in Nat /\ DOMAIN v = 1 .. Len(v)
      /\ Len(layers) \in Nat /\ DOMAIN layers = 1 .. Len(layers)
  BY SeqFacts
<1>2. \A i \in DOMAIN v : ItemAt(i, v[i], LastTree, layers) /\ ReadAt(i, v[i], LastTree, received)
  BY DEF ProverItems, ReadItems
<1>3. received.commitments = proof.commitments
  <2>1. ASSUME NEW t \in Trees
        PROVE  received.commitments[t] = <<"trace", t>>
    <3>1. t \in DOMAIN v /\ t <= LastTree
      BY <1>1
    <3> QED BY <1>2, <3>1 DEF ItemAt, ReadAt
  <2>2. /\ received.commitments = [t \in Trees |-> received.commitments[t]]
        /\ proof.commitments = [t \in Trees |-> <<"trace", t>>]
    BY DEF ReceivedShape, ProofShape
  <2> QED BY <2>1, <2>2, Zenon
<1>4. received.sampled = proof.sampled
  <2> DEFINE i == LastTree + 1
  <2>1. i \in DOMAIN v
    BY <1>1
  <2>2. ItemAt(i, v[i], LastTree, layers) /\ ReadAt(i, v[i], LastTree, received)
    BY <1>2, <2>1
  <2>3. <<"sampled", 1>> = <<"sampled", received.sampled>>
    BY <2>2 DEF ItemAt, ReadAt
  <2> QED BY <2>3 DEF ProofShape
<1>5. /\ Len(layers) >= 1 /\ DOMAIN proof.inner_layers = 1 .. Len(layers) - 1
  BY InnerLayers
<1>6. k >= 2 => received.first_layer.commitment = proof.first_layer.commitment
  <2> SUFFICES ASSUME k >= 2
               PROVE  received.first_layer.commitment = proof.first_layer.commitment
    OBVIOUS
  <2> DEFINE i == LastTree + 2
  <2>1. i \in DOMAIN v /\ i = LastTree + 1 + 1 /\ 1 \in DOMAIN layers
    BY <1>1, <1>5
  <2>2. ItemAt(i, v[i], LastTree, layers) /\ ReadAt(i, v[i], LastTree, received)
    BY <1>2, <2>1
  <2>3. v[i] = received.first_layer.commitment
    BY <2>2 DEF ReadAt
  <2>4. v[i] = LayerName(1)
    BY <2>1, <2>2 DEF ItemAt, LayerName
  <2> QED BY <2>3, <2>4 DEF ProofShape
<1> DEFINE Names(p) == [j \in EarlyLayers(k, p) |-> p.inner_layers[j].commitment]
<1>7. ASSUME NEW j \in EarlyLayers(k, received)
      PROVE  received.inner_layers[j].commitment = proof.inner_layers[j].commitment
  <2>1. j \in DOMAIN received.inner_layers /\ j <= k - 2 /\ j \in DOMAIN proof.inner_layers
    BY DEF EarlyLayers
  <2>3. j \in 1 .. Len(layers) - 1
    BY <1>5, <2>1
  <2> DEFINE i == LastTree + 2 + j
  <2>4. i \in DOMAIN v /\ i = LastTree + 1 + (j + 1) /\ j + 1 \in DOMAIN layers
    BY <1>1, <2>1, <2>3
  <2>5. ItemAt(i, v[i], LastTree, layers) /\ ReadAt(i, v[i], LastTree, received)
    BY <1>2, <2>4
  <2>6. v[i] = received.inner_layers[j].commitment
    BY <2>1, <2>5 DEF ReadAt
  <2>7. v[i] = LayerName(j + 1)
    BY <2>4, <2>5 DEF ItemAt, LayerName
  <2> QED BY <2>1, <2>6, <2>7 DEF ProofShape
<1>8. Names(received) = Names(proof)
  BY <1>7, Zenon
<1> HIDE DEF Names
<1> DEFINE FirstRoot(p) == IF k >= 2 THEN p.first_layer.commitment ELSE ForeignRoot
           Closing(p) == IF k = Len(drawn) THEN <<p.last_layer_poly, p.nonce>> ELSE <<>>
<1>9. FirstRoot(received) = FirstRoot(proof) /\ Closing(received) = Closing(proof)
  BY <1>6, Zenon
<1>10. \A p : FixedBefore(k, p) = <<p.commitments, p.sampled, FirstRoot(p), Names(p), Closing(p)>>
  BY Zenon DEF FixedBefore, Names, EarlyLayers
<1> HIDE DEF FirstRoot, Closing
<1> QED BY <1>3, <1>4, <1>8, <1>9, <1>10, Zenon

(* The digest the verifier draws from the k-th time, by its length: behind  *)
(* a layer or the values out of the domain, or behind the nonce.            *)
ReadBefore(k, v, r) ==
  \/ Len(v) = LastTree + k /\ k - 2 <= Len(r.inner_layers)
  \/ Len(v) = LastTree + Len(r.inner_layers) + 4 /\ k = Len(r.inner_layers) + 3

(* A draw the prover made too depends on the same proof: no item of another *)
(* kind is in the place of the coefficients or of a layer.                  *)
LEMMA DrawBinds ==
  ASSUME ProverInv, stage \notin ProverSteps, ProofShape(proof), ReceivedShape(received),
         NEW mixed, DrawOf(mixed) # 0, ReadItems(mixed.digest, LastTree, received),
         NEW k \in Nat, k >= 1, ReadBefore(k, mixed.digest, received)
  PROVE  DrawOf(mixed) = k /\ FixedBefore(k, received) = FixedBefore(k, proof)
<1> DEFINE d == DrawOf(mixed)
           n == Len(layers)
           r == received.inner_layers
           q == Len(r)
           v == mixed.digest
<1>1. /\ setting \in Settings /\ IsSeq(layers) /\ IsSeq(drawn) /\ Draws(drawn, LastTree, layers)
      /\ Len(drawn) = n + 2
  BY DEF ProverInv, ProverProgress
<1>2. LastTree \in Nat /\ LastTree >= 1 /\ Trees = 1 .. LastTree
  BY <1>1, Places
<1>3. n \in Nat /\ n >= 1 /\ DOMAIN layers = 1 .. n /\ DOMAIN proof.inner_layers = 1 .. n - 1
  BY <1>1, InnerLayers
<1>4. DOMAIN drawn = 1 .. n + 2
  BY <1>1, SeqFacts
<1>5. q \in Nat /\ DOMAIN r = 1 .. q /\ \A i \in DOMAIN r : CommitsToLayer(r[i])
  BY SeqFacts DEF ReceivedShape
<1>6. d \in DOMAIN drawn /\ drawn[d].digest = v
  BY DrawOfMeans
<1>13. \/ Len(v) = LastTree + k /\ k - 2 <= q
       \/ Len(v) = LastTree + q + 4 /\ k = q + 3
  BY DEF ReadBefore
<1>14. ReadItems(v, LastTree, received)
  OBVIOUS
<1> HIDE DEF d, n, q, v
<1>7. /\ IsSeq(v) /\ Len(v) = DrawPlace(d, LastTree, n) /\ ProverItems(v, LastTree, layers)
      /\ d \in 1 .. n + 2
  BY <1>1, <1>4, <1>6 DEF Draws, n
<1>8. Len(v) \in Nat /\ DOMAIN v = 1 .. Len(v)
  BY <1>7, SeqFacts
<1>9. \A i \in DOMAIN v : ItemAt(i, v[i], LastTree, layers) /\ ReadAt(i, v[i], LastTree, received)
  BY <1>7, <1>14 DEF ProverItems, ReadItems
<1>12. /\ Len(v) = LastTree + k /\ d # n + 2 => d = k
       /\ Len(v) = LastTree + k /\ d = n + 2 => k = n + 3
       /\ Len(v) = LastTree + q + 4 /\ d # n + 2 => d = q + 4
       /\ Len(v) = LastTree + q + 4 /\ d = n + 2 => q = n - 1
  BY <1>2, <1>3, <1>5, <1>7 DEF DrawPlace
<1>10. CASE Len(v) = LastTree + k /\ k - 2 <= q
  <2>1. d # n + 2
    <3> SUFFICES ASSUME d = n + 2 PROVE FALSE
      OBVIOUS
    <3>1. k = n + 3
      BY <1>10, <1>12
    <3> DEFINE i == LastTree + n + 2
    <3>2. i \in DOMAIN v /\ n \in DOMAIN r /\ i = LastTree + 2 + n
      BY <1>2, <1>3, <1>5, <1>8, <1>10, <3>1
    <3>3. v[i] = <<"poly", 1>>
      BY <1>9, <3>2 DEF ItemAt, n
    <3>4. v[i] = r[n].commitment
      BY <1>9, <3>2 DEF ReadAt
    <3>5. r[n].commitment[1] # "poly"
      BY <1>5, <3>2 DEF CommitsToLayer
    <3> QED BY <3>3, <3>4, <3>5
  <2>2. d = k
    BY <1>10, <1>12, <2>1
  <2>3. k <= n + 1
    BY <1>3, <1>7, <2>1, <2>2
  <2>4. EarlyLayers(k, received) = 1 .. k - 2 /\ EarlyLayers(k, proof) = 1 .. k - 2
    BY <1>3, <1>5, <1>10, <2>3 DEF EarlyLayers
  <2>5. k # Len(drawn)
    BY <1>1, <1>3, <2>3 DEF n
  <2>6. Len(v) >= LastTree + k
    BY <1>2, <1>8, <1>10
  <2>7. FixedBefore(k, received) = FixedBefore(k, proof)
    BY <1>1, <1>2, <1>7, <1>14, <2>4, <2>5, <2>6, SameItems
  <2> QED BY <2>2, <2>7 DEF d
<1>11. CASE Len(v) = LastTree + q + 4 /\ k = q + 3
  <2>1. d = n + 2
    <3> SUFFICES ASSUME d # n + 2 PROVE FALSE
      OBVIOUS
    <3>1. d = q + 4
      BY <1>11, <1>12
    <3> DEFINE i == LastTree + q + 3
    <3>2. i \in DOMAIN v
      BY <1>2, <1>5, <1>8, <1>11
    <3>3. q + 2 \in DOMAIN layers /\ i = LastTree + 1 + (q + 2)
      BY <1>2, <1>3, <1>5, <1>7, <3>1
    <3>4. v[i] = <<"fri", layers[q + 2].level>>
      BY <1>9, <3>2, <3>3 DEF ItemAt
    <3>5. v[i] = <<"poly", received.last_layer_poly>>
      BY <1>9, <3>2 DEF ReadAt, q
    <3> QED BY <3>4, <3>5
  <2>2. q = n - 1
    BY <1>11, <1>12, <2>1
  <2>3. d = k /\ k = n + 2
    BY <1>3, <1>5, <1>11, <2>1, <2>2
  <2>4. EarlyLayers(k, received) = 1 .. n - 1 /\ EarlyLayers(k, proof) = 1 .. n - 1
    BY <1>3, <1>5, <2>2, <2>3 DEF EarlyLayers
  <2>5. Len(v) >= LastTree + k
    BY <1>2, <1>5, <1>8, <1>11
  <2> DEFINE i == LastTree + n + 2
             j == LastTree + n + 3
  <2>6. /\ i \in DOMAIN v /\ i = LastTree + q + 3
        /\ j \in DOMAIN v /\ j = LastTree + q + 4
    BY <1>2, <1>3, <1>5, <1>8, <1>11, <2>2
  <2>7. received.last_layer_poly = proof.last_layer_poly
    <3>1. v[i] = <<"poly", 1>>
      BY <1>9, <2>6 DEF ItemAt, n
    <3>2. v[i] = <<"poly", received.last_layer_poly>>
      BY <1>9, <2>6 DEF ReadAt, q
    <3>3. received.last_layer_poly = 1
      BY <3>1, <3>2
    <3> QED BY <3>3 DEF ProofShape
  <2>8. received.nonce = proof.nonce
    <3>1. v[j] = <<"nonce", 1>>
      BY <1>9, <2>6 DEF ItemAt, n
    <3>2. v[j] = <<"nonce", received.nonce>>
      BY <1>9, <2>6 DEF ReadAt, q
    <3>3. received.nonce = 1
      BY <3>1, <3>2
    <3> QED BY <3>3 DEF ProofShape
  <2>9. FixedBefore(k, received) = FixedBefore(k, proof)
    BY <1>1, <1>2, <1>7, <1>14, <2>4, <2>5, <2>7, <2>8, SameItems
  <2> QED BY <2>3, <2>9 DEF d
<1> QED BY <1>10, <1>11, <1>13

-----------------------------------------------------------------------------
(* The invariant *)

BeforeDelivery == ProverSteps \cup {"open", "deliver"}
ReadSteps == {"read", "read_samples", "read_fri", "read_inner", "check_nonce"}
VerifierProgress ==
  /\ stage \in BeforeDelivery => /\ Len(transcript.digest) = 0 /\ Len(challenges) = 0
                                 /\ Len(verifiers) = 0
  /\ stage = "read" => Len(transcript.digest) < LastTree /\ Len(challenges) = 0
  /\ stage = "read_samples" => Len(transcript.digest) = LastTree /\ Len(challenges) = 0
  /\ stage = "read_fri" => Len(transcript.digest) = LastTree + 1 /\ Len(challenges) = 1
  /\ stage = "read_inner" => /\ Len(transcript.digest) = LastTree + 1 + Len(verifiers)
                             /\ Len(challenges) = Len(verifiers) + 1
                             /\ Len(verifiers) \in 1 .. Len(received.inner_layers) + 1
  /\ stage = "check_nonce" => /\ Len(transcript.digest) = LastTree + 3 + Len(received.inner_layers)
                              /\ Len(challenges) = Len(received.inner_layers) + 2
VerifierInv ==
  /\ IsSeq(transcript.digest) /\ IsSeq(challenges) /\ IsSeq(verifiers)
  /\ stage = "deliver" => IsProof(proof) /\ ProofShape(proof)
  /\ stage \notin BeforeDelivery => ProofShape(proof) /\ ReceivedShape(received)
  /\ stage \in ReadSteps => ReadItems(transcript.digest, LastTree, received)
  /\ VerifierProgress

OpeningInv == ProverInv /\ VerifierInv /\ ChallengesBindProof

(* The invariant holds initially.                                           *)
LEMMA OpeningInit == Init => OpeningInv
<1> SUFFICES ASSUME Init PROVE OpeningInv
  OBVIOUS
<1>1. /\ setting \in Settings /\ stage = "commit" /\ challenges = <<>> /\ verifiers = <<>>
      /\ transcript.digest = <<>>
  BY DEF Init, NewChannel
<1>2. /\ IsSeq(challenges) /\ Len(challenges) = 0 /\ IsSeq(verifiers) /\ Len(verifiers) = 0
      /\ IsSeq(transcript.digest) /\ Len(transcript.digest) = 0
  BY <1>1, NothingIsSeq
<1>3. stage \in BeforeDelivery /\ stage \notin ReadSteps /\ stage # "deliver"
  BY <1>1 DEF BeforeDelivery, ProverSteps, ReadSteps
<1>4. VerifierProgress
  BY <1>1, <1>2 DEF VerifierProgress
<1>5. VerifierInv
  BY <1>2, <1>3, <1>4 DEF VerifierInv
<1>6. DOMAIN challenges = {}
  BY <1>2, SeqFacts
<1>7. ChallengesBindProof
  BY <1>6 DEF ChallengesBindProof
<1> QED BY <1>5, <1>7, ProverInit DEF OpeningInv

(* The draws made so far stay bound while the proof does not change.        *)
LEMMA BoundStays ==
  ASSUME ChallengesBindProof, UNCHANGED <<drawn, challenges, proof, received>>
  PROVE  ChallengesBindProof'
BY DEF ChallengesBindProof, FixedBefore

(* The verifier's challenges stay bound when one more is drawn that is.     *)
LEMMA BoundAppended ==
  ASSUME ChallengesBindProof, UNCHANGED <<drawn, proof, received>>, IsSeq(challenges),
         NEW c, challenges' = Append(challenges, c),
         NEW n \in Nat, n = Len(challenges) + 1,
         c # 0 => c = n /\ FixedBefore(n, received) = FixedBefore(n, proof)
  PROVE  ChallengesBindProof'
<1>1. /\ challenges'[n] = c
      /\ \A k \in DOMAIN challenges' :
           k # n => k \in DOMAIN challenges /\ challenges'[k] = challenges[k]
  BY AppendFacts
<1>2. \A k : (FixedBefore(k, received) = FixedBefore(k, proof))'
               <=> FixedBefore(k, received) = FixedBefore(k, proof)
  BY DEF FixedBefore
<1>3. ASSUME NEW k \in DOMAIN challenges', challenges'[k] # 0
      PROVE  challenges'[k] = k /\ (FixedBefore(k, received) = FixedBefore(k, proof))'
  <2>1. CASE k = n
    BY <1>1, <1>2, <1>3, <2>1
  <2>2. CASE k # n
    <3>1. k \in DOMAIN challenges /\ challenges'[k] = challenges[k]
      BY <1>1, <2>2
    <3>2. challenges[k] = k /\ FixedBefore(k, received) = FixedBefore(k, proof)
      BY <1>3, <3>1 DEF ChallengesBindProof
    <3> QED BY <1>2, <3>1, <3>2
  <2> QED BY <2>1, <2>2
<1> QED BY <1>3 DEF ChallengesBindProof

(* The verifier absorbs an item, without a draw or with one.                *)
LEMMA ItemRead ==
  ASSUME VerifierInv, stage \in ReadSteps, NEW item,
         ReadAt(Len(transcript.digest) + 1, item, LastTree, received),
         transcript'.digest = Append(transcript.digest, item)
  PROVE  /\ Len(transcript.digest) \in Nat
         /\ IsSeq(transcript'.digest) /\ Len(transcript'.digest) = Len(transcript.digest) + 1
         /\ ReadItems(transcript'.digest, LastTree, received)
<1> DEFINE d == transcript.digest
           e == Append(d, item)
<1>1. IsSeq(d) /\ ReadItems(d, LastTree, received) /\ transcript'.digest = e
  BY DEF VerifierInv
<1> HIDE DEF d
<1>2. Len(d) \in Nat /\ IsSeq(e) /\ Len(e) = Len(d) + 1
  BY <1>1, AppendFacts, SeqFacts
<1>3. ReadAt(Len(d) + 1, item, LastTree, received)
  BY Zenon DEF d
<1>4. ReadItems(e, LastTree, received)
  BY <1>1, <1>3, ReadAppended
<1> HIDE DEF e
<1> QED BY <1>1, <1>2, <1>4, Zenon DEF d

(* The verifier reads an item and draws: the item goes behind the digest,   *)
(* and if the draw is one of the prover's it is the one of the same number  *)
(* and fixes the same proof.                                                *)
LEMMA DrawRead ==
  ASSUME OpeningInv, stage \in ReadSteps, NEW item, ReadAndDraw(item),
         UNCHANGED <<drawn, proof, received>>,
         ReadAt(Len(transcript.digest) + 1, item, LastTree, received),
         NEW k \in Nat, k = Len(challenges) + 1,
         \A v : Len(v) = Len(transcript.digest) + 1 => ReadBefore(k, v, received)
  PROVE  /\ Len(transcript.digest) \in Nat
         /\ IsSeq(transcript'.digest) /\ Len(transcript'.digest) = Len(transcript.digest) + 1
         /\ ReadItems(transcript'.digest, LastTree, received)
         /\ IsSeq(challenges') /\ Len(challenges') = k
         /\ ChallengesBindProof'
<1> DEFINE e == Append(transcript.digest, item)
           mixed == [digest |-> e, n_draws |-> 0]
<1>1. /\ transcript' = [mixed EXCEPT !.n_draws = @ + 1]
      /\ challenges' = Append(challenges, DrawOf(mixed))
  BY DEF ReadAndDraw, Mix, AfterDraw
<1>2. mixed.digest = e /\ transcript'.digest = e
  BY <1>1
<1>3. /\ ProverInv /\ VerifierInv /\ ChallengesBindProof /\ IsSeq(challenges)
  BY DEF OpeningInv, VerifierInv
<1>4. /\ Len(transcript.digest) \in Nat
      /\ IsSeq(e) /\ Len(e) = Len(transcript.digest) + 1 /\ ReadItems(e, LastTree, received)
  BY <1>2, <1>3, ItemRead
<1>5. stage \notin ProverSteps /\ stage \notin BeforeDelivery
  BY DEF ReadSteps, ProverSteps, BeforeDelivery
<1>6. ProofShape(proof) /\ ReceivedShape(received)
  BY <1>3, <1>5 DEF VerifierInv
<1> HIDE DEF e, mixed
<1>7. IsSeq(challenges') /\ Len(challenges') = k
  BY <1>1, <1>3, AppendFacts
<1>8. Len(challenges) \in Nat /\ k >= 1
  BY <1>3, SeqFacts
<1>9. ReadBefore(k, e, received)
  BY <1>4
<1>10. DrawOf(mixed) # 0 =>
         DrawOf(mixed) = k /\ FixedBefore(k, received) = FixedBefore(k, proof)
  BY <1>2, <1>3, <1>4, <1>5, <1>6, <1>8, <1>9, DrawBinds
<1>11. ChallengesBindProof'
  BY <1>1, <1>3, <1>10, BoundAppended
<1> QED BY <1>2, <1>4, <1>7, <1>11

(* The shape of a proof depends on the setting and the layers of the        *)
(* prover only.                                                             *)
LEMMA ShapesKept ==
  ASSUME UNCHANGED <<setting, layers, proof, received>>
  PROVE  /\ ProofShape(proof) => ProofShape(proof)'
         /\ IsProof(proof) => IsProof(proof)'
         /\ ReceivedShape(received) => ReceivedShape(received)'
         /\ LastTree' = LastTree
BY DEF ProofShape, IsProof, ReceivedShape, Trees, LayerName, LastTree

(* The prover's steps leave the proof and the verifier alone.               *)
LEMMA ProverIsEarly ==
  ASSUME CommitTrace \/ SampleValues \/ CommitFirstLayer \/ CommitInnerLayer \/ CommitLastLayer
           \/ GrindAndDrawQueries
  PROVE  /\ stage \in BeforeDelivery /\ stage' \in BeforeDelivery /\ stage' # "deliver"
         /\ UNCHANGED <<setting, proof, received, transcript, challenges, verifiers>>
<1>1. CASE CommitTrace
  BY <1>1 DEF CommitTrace, BeforeDelivery, ProverSteps, verifier
<1>2. CASE SampleValues
  BY <1>2 DEF SampleValues, BeforeDelivery, ProverSteps, verifier
<1>3. CASE CommitFirstLayer
  BY <1>3 DEF CommitFirstLayer, BeforeDelivery, ProverSteps, verifier
<1>4. CASE CommitInnerLayer
  BY <1>4 DEF CommitInnerLayer, BeforeDelivery, ProverSteps, verifier
<1>5. CASE CommitLastLayer
  BY <1>5 DEF CommitLastLayer, BeforeDelivery, ProverSteps, verifier
<1>6. CASE GrindAndDrawQueries
  BY <1>6 DEF GrindAndDrawQueries, BeforeDelivery, ProverSteps, verifier
<1> QED BY <1>1, <1>2, <1>3, <1>4, <1>5, <1>6

(* The checks behind the last draw leave the transcript and the challenges  *)
(* alone.                                                                   *)
LEMMA ChecksAreLate ==
  ASSUME VerifyTrees \/ AnswerQueries \/ VerifyLayer \/ VerifyLastLayer \/ Finished
  PROVE  /\ stage \notin BeforeDelivery /\ stage' \notin BeforeDelivery \cup ReadSteps
         /\ UNCHANGED <<setting, drawn, layers, proof, received, transcript, challenges, verifiers>>
<1>1. CASE VerifyTrees
  BY <1>1 DEF VerifyTrees, Conclude, BeforeDelivery, ProverSteps, ReadSteps, prover
<1>2. CASE AnswerQueries
  BY <1>2 DEF AnswerQueries, Conclude, BeforeDelivery, ProverSteps, ReadSteps, prover
<1>3. CASE VerifyLayer
  BY <1>3 DEF VerifyLayer, Conclude, BeforeDelivery, ProverSteps, ReadSteps, prover
<1>4. CASE VerifyLastLayer
  BY <1>4 DEF VerifyLastLayer, Conclude, BeforeDelivery, ProverSteps, ReadSteps, prover
<1>5. CASE Finished
  BY <1>5 DEF Finished, vars, prover, verifier, BeforeDelivery, ProverSteps, ReadSteps
<1> QED BY <1>1, <1>2, <1>3, <1>4, <1>5

(* From the proof to its arrival.                                           *)
LEMMA ProofSent ==
  ASSUME OpeningInv, Open
  PROVE  VerifierInv' /\ ChallengesBindProof'
<1>1. /\ stage = "open" /\ stage' = "deliver" /\ proof' = OpenedIn(setting.low_memory)
      /\ UNCHANGED <<setting, layers, transcript, challenges, verifiers>>
  BY Zenon DEF Open, verifier
<1>2. /\ ProverInv /\ VerifierInv /\ IsSeq(transcript.digest) /\ IsSeq(challenges)
      /\ IsSeq(verifiers) /\ VerifierProgress
  BY DEF OpeningInv, VerifierInv
<1>3. IsSeq(layers) /\ Len(layers) >= 1
  BY <1>1, <1>2 DEF ProverInv, ProverProgress, ProverSteps
<1>4. Len(layers) \in Nat
  BY <1>3, SeqFacts
<1> DEFINE p == OpenedIn(setting.low_memory)
<1>5. ProofShape(p) /\ IsProof(p)
  BY <1>3, <1>4, OpenedShape
<1>6. proof' = p
  BY <1>1, Zenon
<1> HIDE DEF p
<1>7. ProofShape(proof)' /\ IsProof(proof)'
  BY <1>1, <1>5, <1>6 DEF ProofShape, IsProof, Trees, LayerName
<1>8. /\ stage \in BeforeDelivery /\ stage' \in BeforeDelivery
      /\ stage' \notin ReadSteps
  BY <1>1 DEF BeforeDelivery, ProverSteps, ReadSteps
<1>9. Len(challenges) = 0 /\ Len(transcript.digest) = 0 /\ Len(verifiers) = 0
  BY <1>2, <1>8 DEF VerifierProgress
<1>10. VerifierProgress'
  BY <1>1, <1>9 DEF VerifierProgress, BeforeDelivery, ProverSteps
<1>11. VerifierInv'
  BY <1>1, <1>2, <1>7, <1>8, <1>10 DEF VerifierInv
<1>12. DOMAIN challenges' = {}
  BY <1>1, <1>2, <1>9, SeqFacts
<1> QED BY <1>11, <1>12 DEF ChallengesBindProof

(* The verifier starts on the proof that arrived, as sent or with one       *)
(* change.                                                                  *)
LEMMA ProofArrives ==
  ASSUME OpeningInv, Deliver
  PROVE  VerifierInv' /\ ChallengesBindProof'
<1>1. /\ stage = "deliver" /\ stage' = "read"
      /\ received' \in {proof} \cup (IF setting.damage THEN Damaged(proof) ELSE {})
      /\ UNCHANGED <<setting, layers, proof, transcript, challenges, verifiers>>
  BY Zenon DEF Deliver, prover, verifier
<1>2. /\ ProverInv /\ VerifierInv /\ IsSeq(transcript.digest) /\ IsSeq(challenges)
      /\ IsSeq(verifiers) /\ VerifierProgress /\ setting \in Settings
  BY DEF OpeningInv, VerifierInv, ProverInv
<1>3. IsProof(proof) /\ ProofShape(proof)
  BY <1>1, <1>2 DEF VerifierInv
<1>4. PICK x : x = received' /\ x \in {proof} \cup Damaged(proof)
  BY <1>1
<1>5. ReceivedShape(x)
  BY <1>3, <1>4, ReceivedIntact, DamagedShape
<1>6. ReceivedShape(received)'
  BY <1>1, <1>4, <1>5 DEF ReceivedShape, Trees
<1>7. ProofShape(proof)'
  BY <1>1, <1>3 DEF ProofShape, Trees, LayerName
<1>8. stage \in BeforeDelivery /\ stage' \notin BeforeDelivery
  BY <1>1 DEF BeforeDelivery, ProverSteps
<1>9. Len(challenges) = 0 /\ Len(transcript.digest) = 0 /\ Len(verifiers) = 0
  BY <1>2, <1>8 DEF VerifierProgress
<1>10. LastTree' = LastTree /\ LastTree \in Nat /\ LastTree >= 1
  BY <1>1, <1>2, Places DEF LastTree
<1>11. VerifierProgress'
  BY <1>1, <1>8, <1>9, <1>10 DEF VerifierProgress
<1>12. DOMAIN transcript.digest = {} /\ DOMAIN challenges = {}
  BY <1>2, <1>9, SeqFacts
<1>13. ReadItems(transcript.digest, LastTree, received)'
  BY <1>1, <1>12 DEF ReadItems
<1>14. VerifierInv'
  BY <1>1, <1>2, <1>6, <1>7, <1>11, <1>13 DEF VerifierInv
<1> QED BY <1>1, <1>12, <1>14 DEF ChallengesBindProof

(* The steps that read the proof.                                           *)
LEMMA ProofRead ==
  ASSUME OpeningInv,
         ReadCommitment \/ ReadSamples \/ ReadFirstLayer \/ ReadInnerLayer \/ ReadLastLayer
           \/ CheckNonceAndDrawQueries
  PROVE  VerifierInv' /\ ChallengesBindProof'
<1> DEFINE q == Len(received.inner_layers)
           m == Len(verifiers)
           n == Len(transcript.digest)
<1>1. /\ ProverInv /\ VerifierInv /\ ChallengesBindProof /\ IsSeq(transcript.digest)
      /\ IsSeq(challenges) /\ IsSeq(verifiers) /\ VerifierProgress /\ setting \in Settings
  BY DEF OpeningInv, VerifierInv, ProverInv
<1>2. UNCHANGED <<setting, drawn, layers, proof, received>> /\ stage \in ReadSteps
  <2>1. CASE ReadCommitment \/ ReadSamples \/ ReadFirstLayer
    BY <2>1 DEF ReadCommitment, ReadSamples, ReadFirstLayer, ReadSteps, prover
  <2>2. CASE ReadInnerLayer \/ ReadLastLayer \/ CheckNonceAndDrawQueries
    BY <2>2 DEF ReadInnerLayer, ReadLastLayer, CheckNonceAndDrawQueries, ReadSteps, prover
  <2> QED BY <2>1, <2>2
<1>3. LastTree \in Nat /\ LastTree >= 1 /\ LastTree' = LastTree
  BY <1>1, <1>2, Places DEF LastTree
<1>4. stage \notin BeforeDelivery
  BY <1>2 DEF ReadSteps, BeforeDelivery, ProverSteps
<1>5. ProofShape(proof) /\ ReceivedShape(received) /\ ReadItems(transcript.digest, LastTree, received)
  BY <1>1, <1>2, <1>4 DEF VerifierInv
<1>6. ProofShape(proof)' /\ ReceivedShape(received)'
  BY <1>2, <1>5, ShapesKept
<1>7. q \in Nat /\ DOMAIN received.inner_layers = 1 .. q
  BY <1>5, SeqFacts DEF ReceivedShape
<1>8. m \in Nat /\ n \in Nat /\ Len(challenges) \in Nat
  BY <1>1, SeqFacts
<1>9. ASSUME stage' = "done", IsSeq(transcript'.digest), IsSeq(challenges'), IsSeq(verifiers')
      PROVE  VerifierInv'
  <2>1. stage' \notin BeforeDelivery /\ stage' \notin ReadSteps /\ stage' # "deliver"
    BY <1>9 DEF BeforeDelivery, ProverSteps, ReadSteps
  <2>2. VerifierProgress'
    BY <1>9, <2>1 DEF VerifierProgress
  <2> QED BY <1>6, <1>9, <2>1, <2>2 DEF VerifierInv
<1>10. ASSUME stage' \in ReadSteps, IsSeq(transcript'.digest), IsSeq(challenges'),
              IsSeq(verifiers'), ReadItems(transcript'.digest, LastTree, received),
              VerifierProgress'
       PROVE  VerifierInv'
  <2>1. stage' \notin BeforeDelivery /\ stage' # "deliver"
    BY <1>10 DEF BeforeDelivery, ProverSteps, ReadSteps
  <2>2. ReadItems(transcript.digest, LastTree, received)'
    BY <1>2, <1>3, <1>10 DEF ReadItems
  <2> QED BY <1>6, <1>10, <2>1, <2>2 DEF VerifierInv
<1> HIDE DEF q, m, n
<1>11. CASE ReadCommitment
  <2> DEFINE item == received.commitments[n + 1]
  <2>1. /\ stage = "read" /\ UNCHANGED <<challenges, verifiers>>
        /\ transcript' = Mix(transcript, item)
        /\ stage' = IF n + 1 = LastTree THEN "read_samples" ELSE "read"
    BY <1>11 DEF ReadCommitment, n
  <2>2. n < LastTree /\ Len(challenges) = 0
    BY <1>1, <2>1 DEF VerifierProgress, n
  <2>3. ReadAt(n + 1, item, LastTree, received)
    BY <1>3, <1>7, <1>8, <2>2 DEF ReadAt, q
  <2>4. transcript'.digest = Append(transcript.digest, item)
    BY <2>1 DEF Mix
  <2> HIDE DEF item
  <2>5. /\ IsSeq(transcript'.digest) /\ Len(transcript'.digest) = n + 1
        /\ ReadItems(transcript'.digest, LastTree, received)
    BY <1>1, <1>2, <2>3, <2>4, ItemRead DEF n
  <2>6. stage' \in ReadSteps
    BY <2>1 DEF ReadSteps
  <2>7. VerifierProgress'
    BY <1>3, <1>8, <2>1, <2>2, <2>5 DEF VerifierProgress, BeforeDelivery, ProverSteps
  <2>8. ChallengesBindProof'
    BY <1>1, <1>2, <2>1, BoundStays
  <2> QED BY <1>1, <1>10, <2>1, <2>5, <2>6, <2>7, <2>8
<1>12. ASSUME NEW item, ReadAndDraw(item), ReadAt(n + 1, item, LastTree, received),
              NEW k \in Nat, k = Len(challenges) + 1,
              \/ n + 1 = LastTree + k /\ k - 2 <= q
              \/ n + 1 = LastTree + q + 4 /\ k = q + 3
       PROVE  /\ IsSeq(transcript'.digest) /\ Len(transcript'.digest) = n + 1
              /\ ReadItems(transcript'.digest, LastTree, received)
              /\ IsSeq(challenges') /\ Len(challenges') = k
              /\ ChallengesBindProof'
  <2>1. \A v : Len(v) = Len(transcript.digest) + 1 => ReadBefore(k, v, received)
    BY <1>12 DEF ReadBefore, n, q
  <2>2. ReadAt(Len(transcript.digest) + 1, item, LastTree, received)
    BY <1>12 DEF n
  <2> QED BY <1>2, <1>12, <2>1, <2>2, DrawRead DEF n
<1>13. CASE ReadSamples
  <2> DEFINE item == <<"sampled", received.sampled>>
  <2>1. /\ stage = "read_samples" /\ stage' = "read_fri" /\ UNCHANGED verifiers
        /\ ReadAndDraw(item)
    BY <1>13 DEF ReadSamples
  <2>2. n = LastTree /\ Len(challenges) = 0
    BY <1>1, <2>1 DEF VerifierProgress, n
  <2>3. ReadAt(n + 1, item, LastTree, received)
    BY <1>3, <1>7, <2>2 DEF ReadAt, q
  <2> HIDE DEF item
  <2> DEFINE k == 1
  <2>4. k \in Nat /\ k = Len(challenges) + 1 /\ n + 1 = LastTree + k /\ k - 2 <= q
    BY <1>3, <1>7, <2>2
  <2> HIDE DEF k
  <2>5. /\ IsSeq(transcript'.digest) /\ Len(transcript'.digest) = n + 1
        /\ ReadItems(transcript'.digest, LastTree, received)
        /\ IsSeq(challenges') /\ Len(challenges') = k
        /\ ChallengesBindProof'
    BY <1>12, <2>1, <2>3, <2>4
  <2>6. stage' \in ReadSteps
    BY <2>1 DEF ReadSteps
  <2>7. VerifierProgress'
    BY <1>3, <2>1, <2>2, <2>5 DEF VerifierProgress, BeforeDelivery, ProverSteps, k
  <2> QED BY <1>1, <1>10, <2>1, <2>5, <2>6, <2>7
<1>14. CASE ReadFirstLayer
  <2> DEFINE item == received.first_layer.commitment
  <2>1. PICK layer :
          /\ stage = "read_fri" /\ ReadAndDraw(item) /\ verifiers' = <<layer>>
          /\ stage' = "done" \/ stage' = "read_inner"
    BY <1>14 DEF ReadFirstLayer, Conclude
  <2>2. n = LastTree + 1 /\ Len(challenges) = 1
    BY <1>1, <2>1 DEF VerifierProgress, n
  <2>3. ReadAt(n + 1, item, LastTree, received)
    BY <1>3, <1>7, <2>2 DEF ReadAt, q
  <2> HIDE DEF item
  <2> DEFINE k == 2
  <2>4. k \in Nat /\ k = Len(challenges) + 1 /\ n + 1 = LastTree + k /\ k - 2 <= q
    BY <1>3, <1>7, <2>2
  <2> HIDE DEF k
  <2>5. /\ IsSeq(transcript'.digest) /\ Len(transcript'.digest) = n + 1
        /\ ReadItems(transcript'.digest, LastTree, received)
        /\ IsSeq(challenges') /\ Len(challenges') = k
        /\ ChallengesBindProof'
    BY <1>12, <2>1, <2>3, <2>4
  <2>6. IsSeq(verifiers') /\ Len(verifiers') = 1
    BY <2>1, OneIsSeq
  <2>7. CASE stage' = "done"
    BY <1>9, <2>5, <2>6, <2>7
  <2>8. CASE stage' = "read_inner"
    <3>1. stage' \in ReadSteps
      BY <2>8 DEF ReadSteps
    <3>2. VerifierProgress'
      BY <1>2, <1>3, <1>7, <2>2, <2>5, <2>6, <2>8
      DEF VerifierProgress, BeforeDelivery, ProverSteps, k, q
    <3> QED BY <1>10, <2>5, <2>6, <3>1, <3>2
  <2> QED BY <2>1, <2>7, <2>8
<1>15. CASE ReadInnerLayer
  <2> DEFINE item == received.inner_layers[m].commitment
  <2>1. stage = "read_inner" /\ m - 1 < q
    BY <1>15 DEF ReadInnerLayer, InnerLeft, LayersRead, m, q
  <2>2. n = LastTree + 1 + m /\ Len(challenges) = m + 1 /\ m \in 1 .. q + 1
    BY <1>1, <2>1 DEF VerifierProgress, n, m, q
  <2>3. m \in DOMAIN received.inner_layers /\ m - 1 + 1 = m
    BY <1>7, <1>8, <2>1, <2>2
  <2>4. ReadAt(n + 1, item, LastTree, received)
    <3>1. \A j \in 1 .. q : n + 1 = LastTree + 2 + j => j = m
      BY <1>3, <1>8, <2>2
    <3>2. /\ ~(n + 1 <= LastTree) /\ n + 1 # LastTree + 1 /\ n + 1 # LastTree + 2
          /\ n + 1 # LastTree + q + 3 /\ n + 1 # LastTree + q + 4
      BY <1>3, <1>7, <1>8, <2>1, <2>2
    <3> QED BY <1>7, <3>1, <3>2 DEF ReadAt, q
  <2>5. \/ /\ transcript' = Mix(transcript, item) /\ stage' = "done"
           /\ UNCHANGED <<challenges, verifiers>>
        \/ \E layer : /\ ReadAndDraw(item) /\ verifiers' = Append(verifiers, layer)
                      /\ stage' = "done" \/ stage' = stage
    <3>1. received.inner_layers[LayersRead + 1].commitment = item
      BY <2>3 DEF LayersRead, m
    <3> HIDE DEF item
    <3> QED BY <1>15, <3>1 DEF ReadInnerLayer, Conclude
  <2> HIDE DEF item
  <2>6. CASE transcript' = Mix(transcript, item) /\ stage' = "done" /\ UNCHANGED <<challenges, verifiers>>
    <3>1. transcript'.digest = Append(transcript.digest, item)
      BY <2>6 DEF Mix
    <3>2. IsSeq(transcript'.digest)
      BY <1>1, <3>1, AppendFacts
    <3>3. ChallengesBindProof'
      BY <1>1, <1>2, <2>6, BoundStays
    <3> QED BY <1>1, <1>9, <2>6, <3>2, <3>3
  <2>7. CASE \E layer : /\ ReadAndDraw(item) /\ verifiers' = Append(verifiers, layer)
                        /\ stage' = "done" \/ stage' = stage
    <3> DEFINE k == m + 2
    <3>1. k \in Nat /\ k = Len(challenges) + 1 /\ n + 1 = LastTree + k /\ k - 2 <= q
      BY <1>3, <1>7, <1>8, <2>1, <2>2
    <3> HIDE DEF k
    <3>2. /\ IsSeq(transcript'.digest) /\ Len(transcript'.digest) = n + 1
          /\ ReadItems(transcript'.digest, LastTree, received)
          /\ IsSeq(challenges') /\ Len(challenges') = k
          /\ ChallengesBindProof'
      BY <1>12, <2>4, <2>7, <3>1
    <3>3. IsSeq(verifiers') /\ Len(verifiers') = m + 1
      BY <1>1, <2>7, AppendFacts DEF m
    <3>4. CASE stage' = "done"
      BY <1>9, <3>2, <3>3, <3>4
    <3>5. CASE stage' = stage
      <4>1. stage' \in ReadSteps
        BY <1>2, <3>5
      <4>2. m + 1 \in 1 .. q + 1
        BY <1>7, <1>8, <2>1
      <4>3. VerifierProgress'
        BY <1>2, <1>3, <1>8, <2>1, <2>2, <3>1, <3>2, <3>3, <3>5, <4>2
        DEF VerifierProgress, BeforeDelivery, ProverSteps, k, q
      <4> QED BY <1>10, <3>2, <3>3, <4>1, <4>3
    <3> QED BY <2>7, <3>4, <3>5
  <2> QED BY <2>5, <2>6, <2>7
<1>16. CASE ReadLastLayer
  <2> DEFINE item == <<"poly", received.last_layer_poly>>
  <2>1. /\ stage = "read_inner" /\ ~(m - 1 < q) /\ UNCHANGED <<challenges, verifiers>>
        /\ \/ stage' = "done" /\ UNCHANGED transcript
           \/ transcript' = Mix(transcript, item) /\ stage' = "check_nonce"
    BY <1>16 DEF ReadLastLayer, InnerLeft, LayersRead, Conclude, m, q
  <2>2. n = LastTree + 1 + m /\ Len(challenges) = m + 1 /\ m \in 1 .. q + 1
    BY <1>1, <2>1 DEF VerifierProgress, n, m, q
  <2>3. m = q + 1
    BY <1>7, <1>8, <2>1, <2>2
  <2>4. ReadAt(n + 1, item, LastTree, received)
    <3>1. n + 1 = LastTree + q + 3
      BY <1>3, <1>7, <2>2, <2>3
    <3>2. /\ ~(n + 1 <= LastTree) /\ n + 1 # LastTree + 1 /\ n + 1 # LastTree + 2
          /\ \A j \in 1 .. q : n + 1 # LastTree + 2 + j
          /\ n + 1 # LastTree + q + 4
      BY <1>3, <1>7, <3>1
    <3> QED BY <1>7, <3>2 DEF ReadAt, q
  <2>5. ChallengesBindProof'
    BY <1>1, <1>2, <2>1, BoundStays
  <2>6. CASE stage' = "done" /\ UNCHANGED transcript
    BY <1>1, <1>9, <2>1, <2>5, <2>6
  <2>7. CASE transcript' = Mix(transcript, item) /\ stage' = "check_nonce"
    <3>1. transcript'.digest = Append(transcript.digest, item)
      BY <2>7 DEF Mix
    <3> HIDE DEF item
    <3>2. /\ IsSeq(transcript'.digest) /\ Len(transcript'.digest) = n + 1
          /\ ReadItems(transcript'.digest, LastTree, received)
      BY <1>1, <1>2, <2>4, <3>1, ItemRead DEF n
    <3>3. stage' \in ReadSteps
      BY <2>7 DEF ReadSteps
    <3>4. n + 1 = LastTree + 3 + q /\ Len(challenges) = q + 2
      BY <1>3, <1>7, <2>2, <2>3
    <3>5. VerifierProgress'
      BY <1>2, <1>3, <2>1, <2>7, <3>2, <3>4 DEF VerifierProgress, BeforeDelivery, ProverSteps, q
    <3> QED BY <1>1, <1>10, <2>1, <2>5, <3>2, <3>3, <3>5
  <2> QED BY <2>1, <2>6, <2>7
<1>17. CASE CheckNonceAndDrawQueries
  <2> DEFINE item == <<"nonce", received.nonce>>
  <2>1. /\ stage = "check_nonce" /\ UNCHANGED verifiers
        /\ \/ stage' = "done" /\ UNCHANGED <<transcript, challenges>>
           \/ ReadAndDraw(item) /\ stage' = "verify_trees"
    BY <1>17 DEF CheckNonceAndDrawQueries, Conclude
  <2>2. n = LastTree + 3 + q /\ Len(challenges) = q + 2
    BY <1>1, <2>1 DEF VerifierProgress, n, q
  <2>3. ReadAt(n + 1, item, LastTree, received)
    <3>1. n + 1 = LastTree + q + 4
      BY <1>3, <1>7, <2>2
    <3>2. /\ ~(n + 1 <= LastTree) /\ n + 1 # LastTree + 1 /\ n + 1 # LastTree + 2
          /\ \A j \in 1 .. q : n + 1 # LastTree + 2 + j
          /\ n + 1 # LastTree + q + 3
      BY <1>3, <1>7, <3>1
    <3> QED BY <1>7, <3>2 DEF ReadAt, q
  <2>4. CASE stage' = "done" /\ UNCHANGED <<transcript, challenges>>
    <3>1. ChallengesBindProof'
      BY <1>1, <1>2, <2>4, BoundStays
    <3> QED BY <1>1, <1>9, <2>1, <2>4, <3>1
  <2> HIDE DEF item
  <2>5. CASE ReadAndDraw(item) /\ stage' = "verify_trees"
    <3> DEFINE k == q + 3
    <3>1. k \in Nat /\ k = Len(challenges) + 1 /\ n + 1 = LastTree + q + 4 /\ k = q + 3
      BY <1>3, <1>7, <2>2
    <3> HIDE DEF k
    <3>2. IsSeq(transcript'.digest) /\ IsSeq(challenges') /\ ChallengesBindProof'
      BY <1>12, <2>3, <2>5, <3>1
    <3>3. stage' \notin BeforeDelivery /\ stage' \notin ReadSteps /\ stage' # "deliver"
      BY <2>5 DEF BeforeDelivery, ProverSteps, ReadSteps
    <3>4. VerifierProgress'
      BY <2>5, <3>3 DEF VerifierProgress
    <3> QED BY <1>1, <1>6, <2>1, <3>2, <3>3, <3>4 DEF VerifierInv
  <2> QED BY <2>1, <2>4, <2>5
<1> QED BY <1>11, <1>13, <1>14, <1>15, <1>16, <1>17

(* Every step of prover, transit and verifier keeps the invariant.          *)
LEMMA OpeningStep ==
  ASSUME OpeningInv, [Next]_vars
  PROVE  OpeningInv'
<1>1. /\ ProverInv /\ VerifierInv /\ ChallengesBindProof
      /\ IsSeq(transcript.digest) /\ IsSeq(challenges) /\ IsSeq(verifiers) /\ VerifierProgress
  BY DEF OpeningInv, VerifierInv
<1>2. ProverInv'
  BY <1>1, ProverStep
<1>3. CASE CommitTrace \/ SampleValues \/ CommitFirstLayer \/ CommitInnerLayer \/ CommitLastLayer
             \/ GrindAndDrawQueries
  <2>1. /\ stage \in BeforeDelivery /\ stage' \in BeforeDelivery /\ stage' # "deliver"
        /\ UNCHANGED <<setting, proof, received, transcript, challenges, verifiers>>
    BY <1>3, ProverIsEarly
  <2>2. Len(challenges) = 0 /\ Len(transcript.digest) = 0 /\ Len(verifiers) = 0
    BY <1>1, <2>1 DEF VerifierProgress
  <2>3. stage' \notin ReadSteps
    BY <2>1 DEF BeforeDelivery, ProverSteps, ReadSteps
  <2>4. VerifierProgress'
    BY <2>1, <2>2, <2>3 DEF VerifierProgress, ReadSteps
  <2>5. VerifierInv'
    BY <1>1, <2>1, <2>3, <2>4 DEF VerifierInv
  <2>6. DOMAIN challenges = {}
    BY <1>1, <2>2, SeqFacts
  <2>7. ChallengesBindProof'
    BY <2>1, <2>6 DEF ChallengesBindProof
  <2> QED BY <1>2, <2>5, <2>7 DEF OpeningInv
<1>4. CASE Open
  BY <1>2, <1>4, ProofSent DEF OpeningInv
<1>5. CASE Deliver
  BY <1>2, <1>5, ProofArrives DEF OpeningInv
<1>6. CASE ReadCommitment \/ ReadSamples \/ ReadFirstLayer \/ ReadInnerLayer \/ ReadLastLayer
             \/ CheckNonceAndDrawQueries
  BY <1>2, <1>6, ProofRead DEF OpeningInv
<1>7. CASE VerifyTrees \/ AnswerQueries \/ VerifyLayer \/ VerifyLastLayer \/ Finished
  <2>1. /\ stage \notin BeforeDelivery /\ stage' \notin BeforeDelivery \cup ReadSteps
        /\ UNCHANGED <<setting, drawn, layers, proof, received, transcript, challenges, verifiers>>
    BY <1>7, ChecksAreLate
  <2>2. ProofShape(proof)' /\ ReceivedShape(received)'
    BY <1>1, <2>1, ShapesKept DEF VerifierInv
  <2>3. stage' # "deliver"
    BY <2>1 DEF BeforeDelivery
  <2>4. VerifierProgress'
    BY <2>1 DEF VerifierProgress, ReadSteps
  <2>5. VerifierInv'
    BY <1>1, <2>1, <2>2, <2>3, <2>4 DEF VerifierInv
  <2>6. ChallengesBindProof'
    BY <1>1, <2>1, BoundStays
  <2> QED BY <1>2, <2>5, <2>6 DEF OpeningInv
<1>8. CASE UNCHANGED vars
  <2>1. UNCHANGED <<setting, stage, drawn, layers, proof, received, transcript, challenges, verifiers>>
    BY <1>8 DEF vars, prover, verifier
  <2>2. /\ ProofShape(proof) => ProofShape(proof)'
        /\ IsProof(proof) => IsProof(proof)'
        /\ ReceivedShape(received) => ReceivedShape(received)'
        /\ LastTree' = LastTree
    BY <2>1, ShapesKept
  <2>3. VerifierProgress'
    BY <1>1, <2>1, <2>2 DEF VerifierProgress
  <2>4. ReadItems(transcript.digest, LastTree, received) =>
          ReadItems(transcript.digest, LastTree, received)'
    BY <2>1, <2>2 DEF ReadItems
  <2>5. VerifierInv'
    BY <1>1, <2>1, <2>2, <2>3, <2>4 DEF VerifierInv
  <2>6. ChallengesBindProof'
    BY <1>1, <2>1, BoundStays
  <2> QED BY <1>2, <2>5, <2>6 DEF OpeningInv
<1> QED BY <1>3, <1>4, <1>5, <1>6, <1>7, <1>8 DEF Next

(* In every state the digest of the prover and that of the verifier have    *)
(* the items of the proof in the order of commit, prove_values,             *)
(* verify_values and the two halves of FRI, and the challenges the          *)
(* verifier shares with the prover are bound.                               *)
THEOREM OpeningInvariant == Spec => []OpeningInv
<1>1. OpeningInv /\ [Next]_vars => OpeningInv'
  BY OpeningStep
<1> QED BY <1>1, OpeningInit, PTL DEF Spec

(* A challenge that the verifier draws as the prover drew it fixes          *)
(* everything that came before it: draw_secure_felt on the channel of       *)
(* verify_values and of FriVerifier::commit.  The check of the nonce and    *)
(* the queries depend on every item of the proof but its witnesses.         *)
THEOREM ChallengesBind == Spec => []ChallengesBindProof
<1>1. OpeningInv => ChallengesBindProof
  BY DEF OpeningInv
<1> QED BY <1>1, OpeningInvariant, PTL

(* A set of naturals with zero and the successors of its members has all.    *)
LEMMA Counting ==
  ASSUME NEW S, 0 \in S, \A k \in Nat : k \in S => k + 1 \in S
  PROVE  \A n \in Nat : n \in S
<1> DEFINE T == Nat \ S
<1> SUFFICES ASSUME T # {} PROVE FALSE
  OBVIOUS
<1>1. T \subseteq Nat
  OBVIOUS
<1> HIDE DEF T
<1>2. PICK m \in T : \A c \in T : ~(<<c, m>> \in OpToRel(<, Nat))
  BY <1>1, NatLessThanWellFounded, WFMin
<1>3. m \in Nat /\ m \notin S
  BY DEF T
<1>4. m # 0 /\ m - 1 \in Nat
  BY <1>3
<1>5. m - 1 \in S
  <2>1. <<m - 1, m>> \in OpToRel(<, Nat)
    <3>1. m - 1 < m
      BY <1>3
    <3> QED BY <1>3, <1>4, <3>1, Zenon DEF OpToRel
  <2> QED BY <1>2, <1>4, <2>1 DEF T
<1>6. (m - 1) + 1 = m
  BY <1>3
<1> QED BY <1>3, <1>4, <1>5, <1>6

(* A power of two counts the subsets of a set of so many elements.           *)
LEMMA PowerOfTwo ==
  ASSUME NEW l \in Nat
  PROVE  2 ^ l \in Nat
<1> DEFINE S == 1 .. l
<1>1. IsFiniteSet(S) /\ Cardinality(S) = l
  BY FS_Interval
<1> HIDE DEF S
<1>2. IsFiniteSet(SUBSET S) /\ Cardinality(SUBSET S) = 2 ^ l
  BY <1>1, FS_SUBSET
<1> QED BY <1>2, FS_CardinalityType

(* The members of a set below a bound, in order: a sequence of them.         *)
LEMMA SortedFacts ==
  ASSUME NEW S, NEW top \in Nat
  PROVE  /\ IsSeq(Sorted(S, top))
         /\ \A k \in DOMAIN Sorted(S, top) : Sorted(S, top)[k] \in 0 .. top - 1
<1> DEFINE Longer(x, n) == IF n - 1 \in S THEN Append(x, n - 1) ELSE x
           Fills(f, k) == f = [n \in 0 .. k |-> IF n = 0 THEN <<>> ELSE Longer(f[n - 1], n)]
           Found == {k \in Nat : \E f : Fills(f, k)}
<1>1. 0 \in Found
  <2>1. Fills([n \in 0 .. 0 |-> <<>>], 0)
    OBVIOUS
  <2> QED BY <2>1
<1>2. ASSUME NEW k \in Nat, k \in Found PROVE k + 1 \in Found
  <2>1. PICK f : Fills(f, k)
    BY <1>2
  <2> HIDE DEF Longer
  <2> DEFINE g == [n \in 0 .. k + 1 |-> IF n = k + 1 THEN Longer(f[k], k + 1) ELSE f[n]]
  <2>2. \A n \in 0 .. k : g[n] = f[n] /\ n # k + 1
    OBVIOUS
  <2>3. \A n \in 0 .. k : f[n] = IF n = 0 THEN <<>> ELSE Longer(f[n - 1], n)
    BY <2>1
  <2>4. ASSUME NEW n \in 0 .. k + 1
        PROVE  g[n] = IF n = 0 THEN <<>> ELSE Longer(g[n - 1], n)
    <3>1. CASE n = k + 1
      <4>1. n # 0 /\ n - 1 = k /\ k \in 0 .. k
        BY <3>1
      <4>2. g[n] = Longer(f[k], k + 1)
        BY <3>1
      <4> QED BY <2>2, <3>1, <4>1, <4>2
    <3>2. CASE n # k + 1
      <4>1. n \in 0 .. k /\ (n # 0 => n - 1 \in 0 .. k)
        BY <3>2
      <4> QED BY <2>2, <2>3, <4>1
    <3> QED BY <3>1, <3>2
  <2>5. g = [n \in 0 .. k + 1 |-> g[n]]
    OBVIOUS
  <2> HIDE DEF g
  <2>6. Fills(g, k + 1)
    BY <2>4, <2>5
  <2> QED BY <2>6
<1> HIDE DEF Found
<1>3. top \in Found
  BY <1>1, <1>2, Counting
<1>4. \E f : Fills(f, top)
  BY <1>3 DEF Found
<1> DEFINE Below == CHOOSE f : Fills(f, top)
<1>5. Fills(Below, top)
  <2> HIDE DEF Fills
  <2> QED BY <1>4, Zenon
<1>6. Below = [n \in 0 .. top |->
                  IF n = 0 THEN <<>>
                  ELSE IF n - 1 \in S THEN Append(Below[n - 1], n - 1) ELSE Below[n - 1]]
  <2> HIDE DEF Below
  <2> QED BY <1>5
<1>7. Sorted(S, top) = Below[top]
  BY Zenon DEF Sorted
<1> HIDE DEF Below
<1>8. \A n \in 0 .. top : Below[n] = IF n = 0 THEN <<>>
                  ELSE IF n - 1 \in S THEN Append(Below[n - 1], n - 1) ELSE Below[n - 1]
  BY <1>6
<1> DEFINE Q == 0 .. top - 1
           N == {n \in Nat : n <= top => Below[n] \in Seq(Q)}
<1>9. 0 \in N
  <2>1. Below[0] = <<>>
    BY <1>8
  <2>2. <<>> \in Seq(Q)
    OBVIOUS
  <2> QED BY <2>1, <2>2
<1>10. ASSUME NEW k \in Nat, k \in N PROVE k + 1 \in N
  <2>1. ASSUME k + 1 <= top PROVE Below[k + 1] \in Seq(Q)
    <3>1. Below[k] \in Seq(Q) /\ k \in Q
      BY <1>10, <2>1
    <3>2. k + 1 \in 0 .. top /\ k + 1 # 0 /\ (k + 1) - 1 = k
      BY <2>1
    <3>3. Below[k + 1] = IF k \in S THEN Append(Below[k], k) ELSE Below[k]
      BY <1>8, <3>2
    <3> HIDE DEF Q
    <3> QED BY <3>1, <3>3
  <2> QED BY <2>1
<1> HIDE DEF N
<1>11. top \in N
  BY <1>9, <1>10, Counting
<1>12. Sorted(S, top) \in Seq(Q)
  BY <1>7, <1>11 DEF N
<1> HIDE DEF Q
<1>13. IsSeq(Sorted(S, top))
  BY <1>12, SeqOfMembers
<1>14. \A k \in DOMAIN Sorted(S, top) : Sorted(S, top)[k] \in Q
  BY <1>12
<1> QED BY <1>13, <1>14 DEF Q

(* Halving a coset so many times leaves it that much smaller.                *)
LEMMA DoublingExists ==
  ASSUME NEW coset, NEW steps \in Nat
  PROVE  \E f : f = [k \in 0 .. steps |-> IF k = 0 THEN coset ELSE Double(f[k - 1])]
<1> DEFINE Fills(f, m) == f = [k \in 0 .. m |-> IF k = 0 THEN coset ELSE Double(f[k - 1])]
           N == {m \in Nat : \E f : Fills(f, m)}
<1>1. 0 \in N
  <2>1. Fills([k \in 0 .. 0 |-> coset], 0)
    OBVIOUS
  <2> QED BY <2>1
<1>2. ASSUME NEW m \in Nat, m \in N PROVE m + 1 \in N
  <2>1. PICK f : Fills(f, m)
    BY <1>2
  <2> DEFINE g == [k \in 0 .. m + 1 |-> IF k = m + 1 THEN Double(f[m]) ELSE f[k]]
  <2>2. \A k \in 0 .. m : g[k] = f[k] /\ k # m + 1
    OBVIOUS
  <2>3. \A k \in 0 .. m : f[k] = IF k = 0 THEN coset ELSE Double(f[k - 1])
    BY <2>1
  <2>4. ASSUME NEW k \in 0 .. m + 1
        PROVE  g[k] = IF k = 0 THEN coset ELSE Double(g[k - 1])
    <3>1. CASE k = m + 1
      <4>1. k # 0 /\ k - 1 = m /\ m \in 0 .. m
        BY <3>1
      <4>2. g[k] = Double(f[m])
        BY <3>1
      <4> QED BY <2>2, <3>1, <4>1, <4>2
    <3>2. CASE k # m + 1
      <4>1. k \in 0 .. m /\ (k # 0 => k - 1 \in 0 .. m)
        BY <3>2
      <4> QED BY <2>2, <2>3, <4>1
    <3> QED BY <3>1, <3>2
  <2>5. g = [k \in 0 .. m + 1 |-> g[k]]
    OBVIOUS
  <2> HIDE DEF g
  <2>6. Fills(g, m + 1)
    BY <2>4, <2>5
  <2> QED BY <2>6
<1> HIDE DEF N
<1>3. steps \in N
  BY <1>1, <1>2, Counting
<1> QED BY <1>3 DEF N

(* Coset::repeated_double and CanonicCoset: each doubling takes one from the log. *)
LEMMA RepeatedDoubleLog ==
  ASSUME NEW coset, coset.log \in Int, NEW steps \in Nat
  PROVE  RepeatedDouble(coset, steps).log = coset.log - steps
<1>1. PICK f0 : f0 = [k \in 0 .. steps |-> IF k = 0 THEN coset ELSE Double(f0[k - 1])]
  BY DoublingExists, Zenon
<1> DEFINE Doubled == CHOOSE f : f = [k \in 0 .. steps |-> IF k = 0 THEN coset ELSE Double(f[k - 1])]
<1>2. Doubled = [k \in 0 .. steps |-> IF k = 0 THEN coset ELSE Double(Doubled[k - 1])]
  BY <1>1, Zenon
<1>3. RepeatedDouble(coset, steps) = Doubled[steps]
  BY Zenon DEF RepeatedDouble
<1> HIDE DEF Doubled
<1>4. \A k \in 0 .. steps : Doubled[k] = IF k = 0 THEN coset ELSE Double(Doubled[k - 1])
  BY <1>2
<1> DEFINE N == {k \in Nat : k <= steps => Doubled[k].log = coset.log - k}
<1>5. 0 \in N
  BY <1>4
<1>6. ASSUME NEW k \in Nat, k \in N PROVE k + 1 \in N
  <2>1. ASSUME k + 1 <= steps PROVE Doubled[k + 1].log = coset.log - (k + 1)
    <3>1. Doubled[k].log = coset.log - k
      BY <1>6, <2>1
    <3>2. k + 1 \in 0 .. steps /\ k + 1 # 0 /\ (k + 1) - 1 = k
      BY <2>1
    <3>3. Doubled[k + 1] = Double(Doubled[k])
      BY <1>4, <3>2
    <3>4. Double(Doubled[k]).log = Doubled[k].log - 1
      BY DEF Double
    <3> QED BY <3>1, <3>3, <3>4
  <2> QED BY <2>1
<1> HIDE DEF N
<1>7. steps \in N
  BY <1>5, <1>6, Counting
<1> QED BY <1>3, <1>7 DEF N

(* As many halvings of a line as asked for.                                  *)
LEMMA LineHalvingsLength ==
  ASSUME NEW coset, NEW alpha, NEW steps \in Nat
  PROVE  IsSeq(LineHalvings(coset, alpha, steps)) /\ Len(LineHalvings(coset, alpha, steps)) = steps
<1> DEFINE h == LineHalvings(coset, alpha, steps)
<1>1. DOMAIN h = 1 .. steps /\ h = [k \in DOMAIN h |-> h[k]]
  BY Zenon DEF LineHalvings
<1> HIDE DEF h
<1> QED BY <1>1, SeqOfFunction DEF h

(* Two sequences one after the other.                                        *)
LEMMA JoinedLength ==
  ASSUME NEW s, IsSeq(s), NEW t, IsSeq(t)
  PROVE  IsSeq(s \o t) /\ Len(s \o t) = Len(s) + Len(t)
<1>1. s \in Seq(Range(s) \cup Range(t)) /\ t \in Seq(Range(s) \cup Range(t))
  <2>1. Range(s) \subseteq Range(s) \cup Range(t) /\ Range(t) \subseteq Range(s) \cup Range(t)
    OBVIOUS
  <2> QED BY <2>1 DEF IsSeq
<1>2. s \o t \in Seq(Range(s) \cup Range(t)) /\ Len(s \o t) = Len(s) + Len(t)
  BY <1>1
<1> QED BY <1>2, SeqOfMembers

(* The places of s are counted from one.                                     *)
IsPlaces(s) == \E n \in Nat : DOMAIN s = 1 .. n

(* Folding the queries and folding their values keep the same places: the    *)
(* subsets are cut where the folded queries differ.                          *)
LEMMA FoldedPlaces ==
  ASSUME NEW q, IsPlaces(q), NEW steps
  PROVE  /\ DOMAIN FoldQueries(q, steps) = DOMAIN SubsetStarts(q, steps)
         /\ IsPlaces(FoldQueries(q, steps))
<1> DEFINE s == [k \in DOMAIN q |-> q[k] \div 2 ^ steps]
           Same(a, b) == a = b
           Near(a, b) == SubsetOf(a, steps) = SubsetOf(b, steps)
           cut == {i \in DOMAIN s : i = 1 \/ ~(s[i - 1] = s[i])}
           cutq == {i \in DOMAIN q : i = 1 \/ ~(SubsetOf(q[i - 1], steps) = SubsetOf(q[i], steps))}
<1>1. DOMAIN FoldQueries(q, steps) = 1 .. Cardinality(cut)
  BY Zenon DEF FoldQueries, Dedup, Firsts, ChunkBy, CutAt
<1>2. DOMAIN SubsetStarts(q, steps) = 1 .. Cardinality(cutq)
  BY Zenon DEF SubsetStarts, ChunkBy, CutAt
<1>3. PICK n \in Nat : DOMAIN q = 1 .. n
  BY DEF IsPlaces
<1>4. cut = cutq
  <2>1. ASSUME NEW i \in DOMAIN q, i # 1 PROVE s[i - 1] = SubsetOf(q[i - 1], steps)
    BY <1>3, <2>1 DEF SubsetOf
  <2>2. ASSUME NEW i \in DOMAIN q PROVE s[i] = SubsetOf(q[i], steps)
    BY DEF SubsetOf
  <2>3. DOMAIN s = DOMAIN q
    OBVIOUS
  <2> HIDE DEF s
  <2> QED BY <2>1, <2>2, <2>3, Zenon
<1>5. Cardinality(cut) \in Nat
  <2>1. cut \subseteq 1 .. n
    BY <1>3
  <2>2. IsFiniteSet(1 .. n)
    BY FS_Interval
  <2> HIDE DEF cut
  <2> QED BY <2>1, <2>2, FS_Subset, FS_CardinalityType
<1> HIDE DEF cut, cutq
<1> QED BY <1>1, <1>2, <1>4, <1>5, Zenon DEF IsPlaces

-----------------------------------------------------------------------------
(* The schedule of the prover *)

(* What the assumption says of the setting of a proof.                       *)
LEMMA SettingFacts ==
  ASSUME setting \in Settings
  PROVE  /\ setting.blowup \in Nat /\ setting.blowup >= 1
         /\ setting.fold_step \in Nat /\ setting.fold_step >= 1 /\ setting.last \in Nat
         /\ LiftingLog \in Nat /\ LastLayerLog \in Nat
         /\ LastLayerLog + setting.fold_step <= LiftingLog
<1>1. /\ {setting.blowup, setting.fold_step, setting.stride} \subseteq Nat \ {0} /\ setting.last \in Nat
      /\ LiftingLog \in Nat /\ LiftingLog >= setting.fold_step + setting.last + setting.blowup
  BY SettingsAssumption DEF LiftingLog
<1> QED BY <1>1 DEF LastLayerLog

(* The fold of an inner layer of some size.                                  *)
StepAt(log) == IF log > LastLayerLog + setting.fold_step THEN setting.fold_step ELSE log - LastLayerLog
(* Layer k of the committed ones, after the one before it.                   *)
Scheduled(k, committed) ==
  /\ committed[k].log \in LastLayerLog + 1 .. LiftingLog
  /\ committed[k].log = IF k = 1 THEN LiftingLog ELSE committed[k - 1].log - committed[k - 1].fold_step
  /\ committed[k].fold_step = IF k = 1 THEN setting.fold_step ELSE StepAt(committed[k].log)
  /\ committed[k].fold_step \in 1 .. setting.fold_step
  /\ committed[k].pack_leaves = should_pack_leaves(committed[k].log, committed[k].fold_step)
  /\ committed[k].alpha = Challenge(k + 1)
(* The line that is left after the last of the committed layers.             *)
LineLeft(committed, left, halvings) ==
  /\ left.log = committed[Len(committed)].log - committed[Len(committed)].fold_step
  /\ left.log \in LastLayerLog .. LiftingLog
  /\ Len(halvings) = LiftingLog - left.log
Plain(ch) == ch = [digest |-> ch.digest, n_draws |-> 0]
ScheduleInv ==
  /\ IsSeq(folds)
  /\ Len(layers) = 0 => Len(folds) = 0
  /\ \A k \in DOMAIN layers : Scheduled(k, layers)
  /\ Len(layers) >= 1 => LineLeft(layers, line, folds)
  /\ stage \notin ProverSteps \ {"grind"} => line.log = LastLayerLog
  /\ \A k \in DOMAIN drawn : Plain(drawn[k])
  /\ IsPlaces(positions) /\ \A k \in DOMAIN positions : positions[k] \in 0 .. 2 ^ LiftingLog - 1

(* The queries are a sequence of positions of the domain.                    *)
LEMMA SortedQueriesFacts ==
  ASSUME setting \in Settings, NEW raw
  PROVE  /\ IsPlaces(SortedQueries(raw))
         /\ \A k \in DOMAIN SortedQueries(raw) : SortedQueries(raw)[k] \in 0 .. 2 ^ LiftingLog - 1
<1> DEFINE top == 2 ^ LiftingLog
           S == Range(raw)
<1>1. top \in Nat
  BY SettingFacts, PowerOfTwo
<1> HIDE DEF top, S
<1>2. /\ IsSeq(Sorted(S, top))
      /\ \A k \in DOMAIN Sorted(S, top) : Sorted(S, top)[k] \in 0 .. top - 1
  BY <1>1, SortedFacts
<1>3. SortedQueries(raw) = Sorted(S, top)
  BY Zenon DEF SortedQueries, S, top
<1>4. IsPlaces(SortedQueries(raw))
  BY <1>2, <1>3, SeqFacts DEF IsPlaces
<1> QED BY <1>2, <1>3, <1>4 DEF top

(* Empty sequences have no places.                                           *)
LEMMA NoPlaces ==
  ASSUME NEW s, s = <<>>
  PROVE  IsPlaces(s) /\ DOMAIN s = {}
<1>1. DOMAIN s = 1 .. 0
  OBVIOUS
<1> QED BY <1>1 DEF IsPlaces

(* The prover has committed to no layer at first.                            *)
LEMMA ScheduleInit == Init => ScheduleInv
<1> SUFFICES ASSUME Init PROVE ScheduleInv
  OBVIOUS
<1>1. /\ layers = <<>> /\ folds = <<>> /\ drawn = <<>> /\ positions = <<>> /\ stage = "commit"
  BY DEF Init
<1>2. IsSeq(folds) /\ Len(folds) = 0 /\ Len(layers) = 0 /\ DOMAIN layers = {} /\ DOMAIN drawn = {}
      /\ IsPlaces(positions) /\ DOMAIN positions = {}
  BY <1>1, NothingIsSeq, NoPlaces
<1>3. stage \in ProverSteps \ {"grind"}
  BY <1>1 DEF ProverSteps
<1> HIDE DEF Init
<1> QED BY <1>2, <1>3 DEF ScheduleInv

(* A draw is recorded as the channel was before it.                          *)
LEMMA PlainDraws ==
  ASSUME IsSeq(drawn), \A k \in DOMAIN drawn : Plain(drawn[k]), NEW item, MixAndDraw(item)
  PROVE  \A k \in DOMAIN drawn' : Plain(drawn'[k])
<1> DEFINE mixed == Mix(channel, item)
<1>1. drawn' = Append(drawn, mixed)
  BY DEF MixAndDraw
<1>2. Plain(mixed)
  BY DEF Mix, Plain
<1> HIDE DEF mixed
<1> QED BY <1>1, <1>2, AppendFacts

(* A layer is scheduled as before when another follows.                      *)
LEMMA LayerScheduled ==
  ASSUME IsSeq(layers), \A k \in DOMAIN layers : Scheduled(k, layers),
         NEW layer, NEW more, more = Append(layers, layer), Scheduled(Len(layers) + 1, more)
  PROVE  \A k \in DOMAIN more : Scheduled(k, more)
<1>1. /\ Len(layers) \in Nat /\ DOMAIN layers = 1 .. Len(layers)
      /\ IsSeq(more) /\ Len(more) = Len(layers) + 1
      /\ \A k \in 1 .. Len(layers) : more[k] = layers[k]
  BY AppendFacts, SeqFacts
<1>2. DOMAIN more = 1 .. Len(layers) + 1
  BY <1>1, SeqFacts
<1>3. ASSUME NEW k \in DOMAIN more, k # Len(layers) + 1
      PROVE  Scheduled(k, more)
  <2>1. k \in 1 .. Len(layers) /\ (k # 1 => k - 1 \in 1 .. Len(layers))
    BY <1>1, <1>2, <1>3
  <2>2. more[k] = layers[k] /\ (k # 1 => more[k - 1] = layers[k - 1])
    BY <1>1, <2>1
  <2>3. Scheduled(k, layers)
    BY <1>1, <2>1
  <2> HIDE DEF should_pack_leaves, StepAt, LastLayerLog, LiftingLog
  <2> QED BY <2>2, <2>3 DEF Scheduled
<1> QED BY <1>3

(* The setting's terms do not change.                                        *)
LEMMA TermsStay ==
  ASSUME setting' = setting
  PROVE  /\ LiftingLog' = LiftingLog /\ LastLayerLog' = LastLayerLog
         /\ \A k, c : Scheduled(k, c)' <=> Scheduled(k, c)
BY DEF LiftingLog, LastLayerLog, Scheduled, StepAt

(* Every step of the prover and the verifier keeps the schedule: a layer is  *)
(* pushed with the size that commit_inner_layers folds the last one to, and  *)
(* nothing changes the layers afterwards.                                    *)
LEMMA ScheduleStep ==
  ASSUME ProverInv, ProverInv', ScheduleInv, [Next]_vars
  PROVE  ScheduleInv'
<1> DEFINE n == Len(layers)
           L == LiftingLog
           low == LastLayerLog
<1>1. /\ setting \in Settings /\ IsSeq(layers) /\ IsSeq(drawn) /\ ProverProgress
      /\ IsSeq(folds) /\ (n = 0 => Len(folds) = 0)
      /\ \A k \in DOMAIN layers : Scheduled(k, layers)
      /\ n >= 1 => LineLeft(layers, line, folds)
      /\ \A k \in DOMAIN drawn : Plain(drawn[k])
      /\ IsPlaces(positions) /\ \A k \in DOMAIN positions : positions[k] \in 0 .. 2 ^ L - 1
  BY DEF ProverInv, ScheduleInv
<1>2. /\ setting.fold_step \in Nat /\ setting.fold_step >= 1 /\ L \in Nat /\ low \in Nat
      /\ low + setting.fold_step <= L
  BY <1>1, SettingFacts
<1>3. n \in Nat /\ DOMAIN layers = 1 .. n /\ Len(folds) \in Nat
  BY <1>1, SeqFacts
<1>4. ASSUME setting' = setting
      PROVE  L' = L /\ low' = low
  BY <1>4, TermsStay
<1> HIDE DEF n, L, low
<1>5. ASSUME setting' = setting, UNCHANGED <<layers, folds, line, positions>>,
             stage' \in ProverSteps \ {"grind"} \/ line.log = low,
             \A k \in DOMAIN drawn' : Plain(drawn'[k])
      PROVE  ScheduleInv'
  <2>1. \A k \in DOMAIN layers' : Scheduled(k, layers)'
    BY <1>1, <1>5, TermsStay
  <2>2. LineLeft(layers, line, folds)' <=> LineLeft(layers, line, folds)
    BY <1>4, <1>5 DEF LineLeft, L, low
  <2> QED BY <1>1, <1>4, <1>5, <2>1, <2>2 DEF ScheduleInv, n, L, low
<1>6. CASE CommitTrace
  <2>1. stage' \in {"commit", "sample"} /\ UNCHANGED <<setting, layers, folds, line, positions, drawn>>
    BY <1>6 DEF CommitTrace
  <2> QED BY <1>1, <1>5, <2>1 DEF ProverSteps
<1>7. CASE SampleValues
  <2>1. /\ stage' = "fri" /\ UNCHANGED <<setting, layers, folds, line, positions>>
        /\ MixAndDraw(<<"sampled", 1>>)
    BY <1>7 DEF SampleValues
  <2>2. \A k \in DOMAIN drawn' : Plain(drawn'[k])
    BY <1>1, <2>1, PlainDraws
  <2> QED BY <1>5, <2>1, <2>2 DEF ProverSteps
<1>8. CASE CommitLastLayer
  <2>1. /\ line.log = low /\ UNCHANGED <<setting, layers, folds, line, positions, drawn>>
    BY <1>8 DEF CommitLastLayer, low
  <2> QED BY <1>1, <1>5, <2>1
<1>9. CASE GrindAndDrawQueries
  <2>1. PICK raw : positions' = SortedQueries(raw)
    BY <1>9 DEF GrindAndDrawQueries
  <2>2. /\ stage = "grind" /\ UNCHANGED <<setting, layers, folds, line>> /\ MixAndDraw(<<"nonce", 1>>)
    BY <1>9 DEF GrindAndDrawQueries
  <2>3. line.log = low
    BY <2>2 DEF ScheduleInv, low
  <2>4. \A k \in DOMAIN drawn' : Plain(drawn'[k])
    BY <1>1, <2>2, PlainDraws
  <2>5. IsPlaces(positions') /\ \A k \in DOMAIN positions' : positions'[k] \in 0 .. 2 ^ L - 1
    BY <1>1, <2>1, SortedQueriesFacts DEF L
  <2>6. \A k \in DOMAIN layers' : Scheduled(k, layers)'
    BY <1>1, <2>2, TermsStay
  <2>7. LineLeft(layers, line, folds)' <=> LineLeft(layers, line, folds)
    BY <1>4, <2>2 DEF LineLeft, L, low
  <2> QED BY <1>1, <1>4, <2>2, <2>3, <2>4, <2>5, <2>6, <2>7 DEF ScheduleInv, n, L, low
<1>10. CASE LaterStep /\ UNCHANGED <<drawn, layers, folds, line, positions>>
  <2>1. line.log = low
    BY <1>10 DEF ScheduleInv, LaterStep, low
  <2> QED BY <1>1, <1>5, <1>10, <2>1 DEF LaterStep
<1>11. CASE UNCHANGED vars
  <2>1. UNCHANGED <<setting, stage, drawn, layers, folds, line, positions>>
    BY <1>11 DEF vars, prover
  <2>2. stage' \in ProverSteps \ {"grind"} \/ line.log = low
    BY <2>1 DEF ScheduleInv, low
  <2> QED BY <1>1, <1>5, <2>1, <2>2
(* A layer more, and the line that its fold leaves.                          *)
<1>12. ASSUME setting' = setting, UNCHANGED positions, stage' \in ProverSteps \ {"grind"},
              NEW item, MixAndDraw(item), NEW level, NEW log, NEW step,
              NEW layer, layer = CommittedLayer(level, log, step), layers' = Append(layers, layer),
              Len(drawn) = n + 1,
              log \in low + 1 .. L, step \in 1 .. setting.fold_step, low + step <= log,
              log = IF n = 0 THEN L ELSE line.log,
              step = IF n = 0 THEN setting.fold_step ELSE StepAt(log),
              NEW more, IsSeq(more), Len(more) = step, folds' = folds \o more,
              line'.log = log - step
       PROVE  ScheduleInv'
  <2>1. /\ layer.log = log /\ layer.fold_step = step
        /\ layer.pack_leaves = should_pack_leaves(log, step) /\ layer.alpha = Challenge(n + 2)
    BY <1>3, <1>12 DEF CommittedLayer, NextDraw
  <2>2. /\ IsSeq(layers') /\ Len(layers') = n + 1 /\ layers'[n + 1] = layer
        /\ \A k \in 1 .. n : layers'[k] = layers[k]
    BY <1>1, <1>12, AppendFacts DEF n
  <2>3. n # 0 => line.log = layers[n].log - layers[n].fold_step /\ Len(folds) = L - line.log
    BY <1>1, <1>3 DEF LineLeft, n, L
  <2>4. Scheduled(n + 1, layers')
    <3>1. layer.log = IF n + 1 = 1 THEN L ELSE layers'[n].log - layers'[n].fold_step
      <4>1. CASE n = 0
        BY <1>12, <2>1, <4>1
      <4>2. CASE n # 0
        <5>1. n \in 1 .. n /\ n + 1 # 1
          BY <1>3, <4>2
        <5> QED BY <1>12, <2>1, <2>2, <2>3, <4>2, <5>1
      <4> QED BY <4>1, <4>2
    <3>2. layer.fold_step = IF n + 1 = 1 THEN setting.fold_step ELSE StepAt(log)
      BY <1>3, <1>12, <2>1
    <3>3. (n + 1) - 1 = n /\ Challenge((n + 1) + 1) = layer.alpha
      BY <1>3, <2>1
    <3> HIDE DEF Challenge
    <3> QED BY <1>12, <2>1, <2>2, <3>1, <3>2, <3>3 DEF Scheduled, L, low
  <2>5. \A k \in DOMAIN layers' : Scheduled(k, layers')
    BY <1>1, <1>12, <2>4, LayerScheduled DEF n
  <2>6. \A k \in DOMAIN layers' : Scheduled(k, layers)'
    BY <1>12, <2>5, TermsStay
  <2>7. IsSeq(folds') /\ Len(folds') = Len(folds) + step
    BY <1>1, <1>12, JoinedLength
  <2>8. Len(folds') = L - (log - step)
    <3>1. Len(folds) = L - log
      BY <1>1, <1>2, <1>12, <2>3
    <3>2. log \in Int /\ step \in Int
      BY <1>2, <1>12
    <3> QED BY <1>2, <2>7, <3>1, <3>2
  <2>9. LineLeft(layers, line, folds)'
    <3>1. log - step \in low .. L
      <4>1. log \in low + 1 .. L /\ step \in 1 .. setting.fold_step /\ low + step <= log
        BY ONLY <1>12
      <4>2. setting.fold_step \in Nat /\ L \in Nat /\ low \in Nat
        BY ONLY <1>2
      <4> HIDE DEF L, low
      <4> QED BY ONLY <4>1, <4>2
    <3>2. line'.log = layers'[Len(layers')].log - layers'[Len(layers')].fold_step
      BY <1>12, <2>1, <2>2
    <3> QED BY <1>4, <1>12, <2>8, <3>1, <3>2 DEF LineLeft, L, low
  <2>10. \A k \in DOMAIN drawn' : Plain(drawn'[k])
    BY <1>1, <1>12, PlainDraws
  <2>11. Len(layers') # 0
    BY <1>3, <2>2
  <2> QED BY <1>1, <1>4, <1>12, <2>6, <2>7, <2>9, <2>10, <2>11 DEF ScheduleInv, L, low
<1>13. CASE CommitFirstLayer
  <2> DEFINE step == setting.fold_step
             layer == CommittedLayer(0, L, step)
             item == <<"fri", 0>>
             first == [coords |-> CircleCoords(HalfCoset), alpha |-> NextDraw]
             rest == LineHalvings(half_odds(HalfCoset.log), Square(NextDraw), step - 1)
             more == <<first>> \o rest
  <2>1. /\ stage = "fri" /\ stage' = "fri_inner" /\ setting' = setting /\ UNCHANGED positions
        /\ MixAndDraw(item) /\ layers' = <<layer>> /\ folds' = more /\ line'.log = L - step
    BY <1>13 DEF CommitFirstLayer, L
  <2>2. n = 0 /\ Len(drawn) = n + 1
    BY <1>1, <2>1 DEF ProverProgress, n
  <2>3. step \in Nat /\ step - 1 \in Nat /\ step \in 1 .. step
    BY <1>2
  <2>4. IsSeq(rest) /\ Len(rest) = step - 1
    BY <2>3, LineHalvingsLength
  <2>5. IsSeq(<<first>>) /\ Len(<<first>>) = 1
    <3> HIDE DEF first
    <3> QED BY OneIsSeq
  <2> HIDE DEF first, rest
  <2>6. IsSeq(more) /\ Len(more) = step
    BY <2>3, <2>4, <2>5, JoinedLength
  <2>7. layers' = Append(layers, layer) /\ folds' = folds \o more
    <3> HIDE DEF layer, more
    <3>1. layers = <<>>
      BY <1>1, <2>2, SeqFacts DEF n
    <3>2. folds = <<>>
      BY <1>1, <2>2, SeqFacts
    <3>3. <<>> \o more = more
      BY <2>6 DEF IsSeq
    <3> QED BY <2>1, <3>1, <3>2, <3>3
  <2>8. layer = CommittedLayer(0, L, step)
    OBVIOUS
  <2>9. L \in low + 1 .. L /\ low + step <= L
    BY <1>2
  <2>10. L = (IF n = 0 THEN L ELSE line.log) /\ step = (IF n = 0 THEN setting.fold_step ELSE StepAt(L))
    BY <2>2
  <2>11. stage' \in ProverSteps \ {"grind"}
    BY <2>1 DEF ProverSteps
  <2> HIDE DEF layer, item, more
  <2> QED BY <1>12, <2>1, <2>2, <2>3, <2>6, <2>7, <2>8, <2>9, <2>10, <2>11
<1>14. CASE CommitInnerLayer
  <2> DEFINE log == line.log
             step == StepAt(log)
             level == LiftingLog - log
             layer == CommittedLayer(level, log, step)
             item == <<"fri", level>>
             more == LineHalvings(line.domain, NextDraw, step)
  <2>1. /\ stage = "fri_inner" /\ stage' = stage /\ setting' = setting /\ UNCHANGED positions
        /\ log > low
        /\ MixAndDraw(item) /\ layers' = Append(layers, layer) /\ folds' = folds \o more
        /\ line'.log = log - step
    BY <1>14 DEF CommitInnerLayer, StepAt, low
  <2>2. n >= 1 /\ Len(drawn) = n + 1
    BY <1>1, <2>1 DEF ProverProgress, n
  <2>3. log \in low + 1 .. L
    BY <1>1, <1>2, <2>1, <2>2 DEF LineLeft, L, low
  <2>4. step \in 1 .. setting.fold_step /\ low + step <= log
    BY <1>2, <2>3 DEF StepAt, low
  <2>5. step \in Nat
    BY <2>4
  <2>6. IsSeq(more) /\ Len(more) = step
    <3> HIDE DEF step
    <3> QED BY <2>5, LineHalvingsLength
  <2>7. layer = CommittedLayer(level, log, step)
    OBVIOUS
  <2>8. log = (IF n = 0 THEN L ELSE line.log) /\ step = (IF n = 0 THEN setting.fold_step ELSE StepAt(log))
    BY <1>3, <2>2
  <2>9. stage' \in ProverSteps \ {"grind"}
    BY <2>1 DEF ProverSteps
  <2> HIDE DEF layer, item, more, level, log, step
  <2> QED BY <1>12, <2>1, <2>2, <2>3, <2>4, <2>6, <2>7, <2>8, <2>9
<1> QED
  BY <1>6, <1>7, <1>8, <1>9, <1>10, <1>11, <1>13, <1>14, VerifierIsLater DEF Next

-----------------------------------------------------------------------------
(* The shapes of the verifier *)

Folding == {"verify_layers", "done"}
VerifierTypes ==
  /\ bound \in 0 .. LiftingLog
  /\ \A k \in DOMAIN challenges : challenges[k] \in 0 .. Len(drawn)
  /\ IsPlaces(queries)
  /\ evals = <<>> \/ DOMAIN evals = DOMAIN queries
  /\ stage \notin Folding => evals = <<>>

(* The verifier has read nothing at first.                                   *)
LEMMA VerifierTypesInit == Init => VerifierTypes
<1> SUFFICES ASSUME Init PROVE VerifierTypes
  OBVIOUS
<1>1. bound = 0 /\ challenges = <<>> /\ queries = <<>> /\ evals = <<>> /\ setting \in Settings
  BY DEF Init
<1>2. LiftingLog \in Nat /\ DOMAIN challenges = {} /\ IsPlaces(queries)
  BY <1>1, SettingFacts, NoPlaces
<1> HIDE DEF Init
<1> QED BY <1>1, <1>2 DEF VerifierTypes

(* The steps before the delivery leave the verifier alone.                   *)
LEMMA VerifierWaits ==
  ASSUME CommitTrace \/ SampleValues \/ CommitFirstLayer \/ CommitInnerLayer \/ CommitLastLayer
           \/ GrindAndDrawQueries \/ Open \/ Deliver
  PROVE  /\ UNCHANGED <<setting, verifier>>
         /\ stage \in BeforeDelivery /\ stage' \in BeforeDelivery \cup {"read"}
<1>1. CASE CommitTrace
  BY <1>1 DEF CommitTrace, BeforeDelivery, ProverSteps
<1>2. CASE SampleValues
  BY <1>2 DEF SampleValues, BeforeDelivery, ProverSteps
<1>3. CASE CommitFirstLayer
  BY <1>3 DEF CommitFirstLayer, BeforeDelivery, ProverSteps
<1>4. CASE CommitInnerLayer
  BY <1>4 DEF CommitInnerLayer, BeforeDelivery, ProverSteps
<1>5. CASE CommitLastLayer
  BY <1>5 DEF CommitLastLayer, BeforeDelivery, ProverSteps
<1>6. CASE GrindAndDrawQueries
  BY <1>6 DEF GrindAndDrawQueries, BeforeDelivery, ProverSteps
<1>7. CASE Open \/ Deliver
  BY <1>7, Zenon DEF Open, Deliver, BeforeDelivery, ProverSteps
<1> QED BY <1>1, <1>2, <1>3, <1>4, <1>5, <1>6, <1>7

(* A draw is one of the prover's or none.                                    *)
LEMMA DrawNumbers ==
  ASSUME IsSeq(drawn), NEW ch
  PROVE  DrawOf(ch) \in 0 .. Len(drawn)
<1>1. Len(drawn) \in Nat /\ DOMAIN drawn = 1 .. Len(drawn)
  BY SeqFacts
<1>2. DrawOf(ch) = 0 \/ DrawOf(ch) \in DOMAIN drawn
  BY DrawOfMeans
<1> QED BY <1>1, <1>2

(* The reads of FriVerifier::commit and the folds of decommit_inner_layers   *)
(* keep the sizes in range and the evaluations at the places of the queries. *)
LEMMA VerifierTypesStep ==
  ASSUME OpeningInv, ScheduleInv, VerifierTypes, [Next]_vars
  PROVE  VerifierTypes'
<1> DEFINE L == LiftingLog
           InRange(c, n) == \A k \in DOMAIN c : c[k] \in 0 .. n
<1>1. /\ setting \in Settings /\ IsSeq(drawn) /\ IsSeq(challenges) /\ VerifierProgress /\ IsPlaces(positions)
  BY DEF OpeningInv, ProverInv, VerifierInv, ScheduleInv
<1>2. /\ bound \in 0 .. L /\ InRange(challenges, Len(drawn)) /\ IsPlaces(queries)
      /\ evals = <<>> \/ DOMAIN evals = DOMAIN queries
      /\ stage \notin Folding => evals = <<>>
  BY DEF VerifierTypes
<1>3. /\ L \in Nat /\ setting.blowup \in Nat /\ setting.fold_step \in Nat /\ setting.last \in Nat
      /\ setting.blowup + setting.fold_step <= L /\ setting.fold_step >= 1
  BY <1>1, SettingFacts DEF LastLayerLog
<1>4. ASSUME setting' = setting PROVE L' = L
  BY <1>4, TermsStay
<1> HIDE DEF L
<1>5. ASSUME UNCHANGED <<setting, drawn>>, bound' \in 0 .. L, InRange(challenges', Len(drawn)),
             IsPlaces(queries'), evals' = <<>> \/ DOMAIN evals' = DOMAIN queries',
             stage' \notin Folding => evals' = <<>>
      PROVE  VerifierTypes'
  BY <1>4, <1>5 DEF VerifierTypes, L
<1> HIDE DEF InRange
<1>6. CASE CommitTrace \/ SampleValues \/ CommitFirstLayer \/ CommitInnerLayer \/ CommitLastLayer
             \/ GrindAndDrawQueries \/ Open \/ Deliver
  <2>1. /\ UNCHANGED <<setting, challenges, bound, queries, evals>>
        /\ stage \in BeforeDelivery /\ stage' \in BeforeDelivery \cup {"read"}
    BY <1>6, VerifierWaits DEF verifier
  <2>2. stage \notin Folding /\ stage' \notin Folding
    BY <2>1 DEF BeforeDelivery, ProverSteps, Folding
  <2>3. Len(challenges) = 0
    BY <1>1, <2>1 DEF VerifierProgress
  <2>4. DOMAIN challenges = {}
    BY <1>1, <2>3, SeqFacts
  <2> QED BY <1>2, <1>4, <2>1, <2>2, <2>4 DEF VerifierTypes, L
<1>7. ASSUME NEW item, ReadAndDraw(item)
      PROVE  InRange(challenges', Len(drawn))
  <2> DEFINE c == DrawOf(Mix(transcript, item))
  <2>1. challenges' = Append(challenges, c)
    BY <1>7 DEF ReadAndDraw
  <2>2. c \in 0 .. Len(drawn)
    BY <1>1, DrawNumbers
  <2> HIDE DEF c
  <2> QED BY <1>1, <1>2, <2>1, <2>2, AppendFacts DEF InRange
<1>8. CASE ReadCommitment
  <2>1. /\ UNCHANGED <<setting, drawn, challenges, bound, queries, evals>>
        /\ stage = "read" /\ stage' \in {"read", "read_samples"}
    BY <1>8 DEF ReadCommitment, prover
  <2> QED BY <1>2, <1>5, <2>1 DEF Folding
<1>9. CASE ReadSamples
  <2>1. /\ UNCHANGED <<setting, drawn, bound, queries, evals>>
        /\ stage = "read_samples" /\ stage' = "read_fri" /\ ReadAndDraw(<<"sampled", received.sampled>>)
    BY <1>9 DEF ReadSamples, prover
  <2>2. InRange(challenges', Len(drawn))
    BY <1>7, <2>1
  <2> QED BY <1>2, <1>5, <2>1, <2>2 DEF Folding
<1>10. CASE ReadFirstLayer
  <2>1. /\ UNCHANGED <<setting, drawn, queries, evals>> /\ stage = "read_fri"
        /\ ReadAndDraw(received.first_layer.commitment)
        /\ \/ UNCHANGED bound
           \/ bound' = L - setting.blowup - setting.fold_step
    BY <1>10 DEF ReadFirstLayer, prover, L
  <2>2. InRange(challenges', Len(drawn))
    BY <1>7, <2>1
  <2>3. bound' \in 0 .. L
    BY <1>2, <1>3, <2>1
  <2>4. evals' = <<>>
    BY <1>2, <2>1 DEF Folding
  <2> QED BY <1>2, <1>5, <2>1, <2>2, <2>3, <2>4
<1>11. CASE ReadInnerLayer
  <2> DEFINE item == received.inner_layers[LayersRead + 1].commitment
  <2>1. /\ UNCHANGED <<setting, drawn, queries, evals>> /\ stage = "read_inner"
        /\ UNCHANGED challenges \/ ReadAndDraw(item)
        /\ \/ UNCHANGED bound
           \/ ~BadLastStep /\ ~(StepOfNext > bound) /\ bound' = bound - StepOfNext
    BY <1>11 DEF ReadInnerLayer, prover
  <2>2. InRange(challenges', Len(drawn))
    BY <1>2, <1>7, <2>1 DEF InRange
  <2>3. bound' \in 0 .. L
    <3>1. CASE UNCHANGED bound
      BY <1>2, <3>1
    <3>2. CASE ~(StepOfNext > bound) /\ bound' = bound - StepOfNext
      <4>1. StepOfNext \in {setting.fold_step, bound - setting.last}
        BY DEF StepOfNext
      <4> HIDE DEF StepOfNext
      <4>2. CASE StepOfNext = setting.fold_step
        BY <1>2, <1>3, <3>2, <4>2
      <4>3. CASE StepOfNext = bound - setting.last
        <5>1. bound' = setting.last
          BY <1>2, <1>3, <3>2, <4>3
        <5>2. setting.last <= L
          BY <1>1, <1>3, SettingFacts DEF LastLayerLog, L
        <5> QED BY <1>3, <5>1, <5>2
      <4> QED BY <4>1, <4>2, <4>3
    <3> QED BY <2>1, <3>1, <3>2
  <2>4. evals' = <<>>
    BY <1>2, <2>1 DEF Folding
  <2> QED BY <1>2, <1>5, <2>1, <2>2, <2>3, <2>4
<1>12. CASE ReadLastLayer
  <2>1. /\ UNCHANGED <<setting, drawn, challenges, bound, queries, evals>> /\ stage = "read_inner"
    BY <1>12 DEF ReadLastLayer, prover
  <2>2. evals' = <<>>
    BY <1>2, <2>1 DEF Folding
  <2> QED BY <1>2, <1>5, <2>1, <2>2
<1>13. CASE CheckNonceAndDrawQueries
  <2>1. /\ UNCHANGED <<setting, drawn, bound, evals>> /\ stage = "check_nonce"
        /\ UNCHANGED challenges \/ ReadAndDraw(<<"nonce", received.nonce>>)
        /\ queries' = queries \/ queries' = positions \/ \E raw : queries' = SortedQueries(raw)
    BY <1>13 DEF CheckNonceAndDrawQueries, prover
  <2>2. InRange(challenges', Len(drawn))
    BY <1>2, <1>7, <2>1 DEF InRange
  <2>3. IsPlaces(queries')
    BY <1>1, <1>2, <2>1, SortedQueriesFacts
  <2>4. evals' = <<>>
    BY <1>2, <2>1 DEF Folding
  <2> QED BY <1>2, <1>5, <2>1, <2>2, <2>3, <2>4
<1>14. CASE VerifyTrees
  <2>1. /\ UNCHANGED <<setting, drawn, challenges, bound, queries, evals>> /\ stage = "verify_trees"
    BY <1>14, Zenon DEF VerifyTrees, prover
  <2>2. evals' = <<>>
    BY <1>2, <2>1 DEF Folding
  <2> QED BY <1>2, <1>5, <2>1, <2>2
<1>15. CASE AnswerQueries
  <2>1. /\ UNCHANGED <<setting, drawn, challenges, bound, queries>> /\ stage = "answer"
        /\ stage' \in Folding
        /\ evals' = evals \/ DOMAIN evals' = DOMAIN queries
    <3>1. \/ stage' = "done" /\ UNCHANGED evals
          \/ stage' = "verify_layers" /\ DOMAIN evals' = DOMAIN queries
      <4> DEFINE flat == FlattenSeq(received.queried)
                 Honest(k) == /\ challenges[1] = 1
                              /\ \A tc \in Sampled :
                                   flat[IndexInFlat(tc[1], tc[2])][k] =
                                     <<tc[1], tc[2],
                                       Lift(queries[k], LiftingLog - setting.columns[tc[1]][tc[2]])>>
                 given == [k \in DOMAIN queries |-> IF Honest(k) THEN Value(0, queries[k]) ELSE Wrong]
                 Short == \E j \in DOMAIN flat : Len(flat[j]) # Len(queries)
      <4>1. IF Short THEN Conclude("Panic") /\ UNCHANGED evals
            ELSE evals' = given /\ stage' = "verify_layers" /\ UNCHANGED verdict
        BY <1>15, Zenon DEF AnswerQueries
      <4>2. DOMAIN given = DOMAIN queries
        BY Zenon
      <4> HIDE DEF given, Short
      <4> QED BY <4>1, <4>2 DEF Conclude
    <3>2. UNCHANGED <<setting, drawn, challenges, bound, queries>> /\ stage = "answer"
      BY <1>15, Zenon DEF AnswerQueries, prover
    <3> QED BY <3>1, <3>2 DEF Folding
  <2>2. evals = <<>>
    BY <1>2, <2>1 DEF Folding
  <2> QED BY <1>2, <1>5, <2>1, <2>2
<1>16. CASE VerifyLayer
  <2> DEFINE step == verifiers[opening].fold_step
  <2>1. /\ UNCHANGED <<setting, drawn, challenges, bound>> /\ stage = "verify_layers"
        /\ \/ UNCHANGED <<queries, evals>> /\ stage' = "done"
           \/ evals' = FoldedEvals /\ queries' = FoldQueries(queries, step) /\ stage' = stage
    BY <1>16, Zenon DEF VerifyLayer, Conclude, prover
  <2>2. stage' \in Folding
    BY <2>1 DEF Folding
  <2>3. DOMAIN FoldedEvals = DOMAIN SubsetStarts(queries, step)
    BY Zenon DEF FoldedEvals, SparseFoldCircle, SparseFoldLine
  <2> HIDE DEF step, FoldedEvals
  <2>4. /\ DOMAIN FoldQueries(queries, step) = DOMAIN SubsetStarts(queries, step)
        /\ IsPlaces(FoldQueries(queries, step))
    BY <1>2, FoldedPlaces
  <2> QED BY <1>2, <1>5, <2>1, <2>2, <2>3, <2>4
<1>17. CASE VerifyLastLayer
  <2>1. /\ UNCHANGED <<setting, drawn, challenges, bound, queries, evals>> /\ stage' = "done"
    BY <1>17, Zenon DEF VerifyLastLayer, Conclude, prover
  <2> QED BY <1>2, <1>5, <2>1 DEF Folding
<1>18. CASE UNCHANGED vars
  <2>1. UNCHANGED <<setting, stage, drawn, challenges, bound, queries, evals>>
    BY <1>18 DEF vars, prover, verifier
  <2> QED BY <1>2, <1>5, <2>1
<1>19. Finished => UNCHANGED vars
  BY DEF Finished
<1> QED
  BY <1>6, <1>8, <1>9, <1>10, <1>11, <1>12, <1>13, <1>14, <1>15, <1>16, <1>17, <1>18, <1>19 DEF Next

(* The schedules of both sides, for every setting.                           *)
ShapeInv == OpeningInv /\ ScheduleInv /\ VerifierTypes

(* For every setting both sides keep to the schedule of the folds: the       *)
(* prover's k-th layer has the size its place gives, and what the verifier   *)
(* holds at any step has the sizes that TypeOK says.                         *)
THEOREM ShapeInvariant == Spec => []ShapeInv
<1>1. Init => ShapeInv
  BY OpeningInit, ScheduleInit, VerifierTypesInit DEF ShapeInv
<1>2. ShapeInv /\ [Next]_vars => ShapeInv'
  <2> SUFFICES ASSUME ShapeInv, [Next]_vars PROVE ShapeInv'
    OBVIOUS
  <2>1. OpeningInv /\ ScheduleInv /\ VerifierTypes
    BY DEF ShapeInv
  <2>2. OpeningInv' /\ ProverInv /\ ProverInv'
    BY <2>1, OpeningStep DEF OpeningInv
  <2>3. ScheduleInv'
    BY <2>1, <2>2, ScheduleStep
  <2>4. VerifierTypes'
    BY <2>1, VerifierTypesStep
  <2> QED BY <2>2, <2>3, <2>4 DEF ShapeInv
<1> QED BY <1>1, <1>2, PTL DEF Spec

(* Every variable keeps its type, for all settings: among it, that the       *)
(* evaluations of the verifier always sit at the places of its queries, from *)
(* the first answers to the last fold of decommit_inner_layers.              *)
THEOREM TypeCorrect == Spec => []TypeOK
<1>1. ASSUME ShapeInv PROVE TypeOK
  <2>1. /\ setting \in Settings /\ VerifierTypes /\ ScheduleInv /\ IsSeq(layers)
    BY <1>1 DEF ShapeInv, OpeningInv, ProverInv
  <2>2. \A k \in DOMAIN layers :
          layers[k].alpha = Challenge(k + 1) /\ layers[k].fold_step \in 1 .. setting.fold_step
    BY <2>1 DEF ScheduleInv, Scheduled
  <2>3. Len(folds) = IF layers = <<>> THEN 0 ELSE LiftingLog - line.log
    <3>1. Len(layers) \in Nat /\ (Len(layers) = 0 <=> layers = <<>>)
      BY <2>1 DEF IsSeq
    <3> QED BY <2>1, <3>1 DEF ScheduleInv, LineLeft
  <2> QED BY <2>1, <2>2, <2>3 DEF TypeOK, VerifierTypes, ScheduleInv
<1> QED BY <1>1, ShapeInvariant, PTL

-----------------------------------------------------------------------------
(* The verifier goes through the prover's layers *)

(* Two digests of one length with the items of the proof are the same, of    *)
(* the prover and of the verifier that reads the proof as it was sent.       *)
LEMMA HonestDigest ==
  ASSUME ProofShape(proof), IsSeq(layers), LastTree \in Nat, LastTree >= 1, Trees = 1 .. LastTree,
         NEW v, IsSeq(v), ReadItems(v, LastTree, proof),
         NEW w, IsSeq(w), ProverItems(w, LastTree, layers),
         Len(v) = Len(w), Len(v) <= LastTree + Len(layers) + 3
  PROVE  v = w
<1> DEFINE n == Len(layers)
           T == LastTree
           inner == proof.inner_layers
<1>1. /\ n \in Nat /\ n >= 1 /\ DOMAIN layers = 1 .. n /\ DOMAIN inner = 1 .. n - 1 /\ Len(inner) = n - 1
  <2>1. n \in Nat /\ n >= 1 /\ DOMAIN layers = 1 .. n /\ DOMAIN inner = 1 .. n - 1
    BY InnerLayers
  <2>2. Len(inner) + 1 = n /\ IsSeq(inner)
    BY DEF ProofShape
  <2> HIDE DEF inner, n
  <2>3. Len(inner) \in Nat
    BY <2>2, SeqFacts
  <2> QED BY <2>1, <2>2, <2>3
<1>2. /\ Len(v) \in Nat /\ DOMAIN v = 1 .. Len(v) /\ v = [i \in 1 .. Len(v) |-> v[i]]
      /\ DOMAIN w = 1 .. Len(w) /\ w = [i \in 1 .. Len(w) |-> w[i]]
  BY SeqFacts
<1>3. /\ \A i \in DOMAIN v : ReadAt(i, v[i], T, proof)
      /\ \A i \in DOMAIN w : ItemAt(i, w[i], T, layers)
  BY DEF ReadItems, ProverItems
<1>4. /\ \A t \in 1 .. T : proof.commitments[t] = <<"trace", t>>
      /\ proof.sampled = 1 /\ proof.last_layer_poly = 1 /\ proof.nonce = 1
      /\ proof.first_layer.commitment = <<"fri", layers[1].level>>
      /\ \A k \in 1 .. n - 1 : inner[k].commitment = <<"fri", layers[k + 1].level>>
  BY <1>1 DEF ProofShape, LayerName
<1>5. ASSUME NEW i \in 1 .. Len(v)
      PROVE  v[i] = w[i]
  <2>1. ReadAt(i, v[i], T, proof) /\ ItemAt(i, w[i], T, layers) /\ i <= T + n + 3
    BY <1>2, <1>3
  <2> HIDE DEF inner, n, T
  <2>2. CASE i <= T
    <3>1. i \in 1 .. T /\ v[i] = proof.commitments[i] /\ w[i] = <<"trace", i>>
      <4>1. v[i] = proof.commitments[i]
        BY ONLY <2>1, <2>2 DEF ReadAt
      <4>2. w[i] = <<"trace", i>>
        BY ONLY <2>1, <2>2 DEF ItemAt
      <4>3. i \in 1 .. T
        BY <1>2, <2>2 DEF T
      <4> QED BY ONLY <4>1, <4>2, <4>3
    <3> QED BY ONLY <1>4, <3>1
  <2>3. CASE i = T + 1
    BY <1>4, <2>1, <2>3 DEF ReadAt, ItemAt
  <2>4. CASE i = T + 2
    <3>1. i = T + 1 + 1 /\ 1 \in DOMAIN layers
      BY <1>1, <2>4 DEF T
    <3> QED BY <1>4, <2>1, <2>4, <3>1 DEF ReadAt, ItemAt
  <2>5. CASE i \in T + 3 .. T + n + 1
    <3> DEFINE k == i - T - 2
    <3>1. /\ k \in 1 .. n - 1 /\ k + 1 \in DOMAIN layers
          /\ i = T + 2 + k /\ i = T + 1 + (k + 1)
      BY <1>1, <2>5 DEF T
    <3> HIDE DEF k
    <3>2. v[i] = inner[k].commitment
      BY <1>1, <2>1, <3>1 DEF ReadAt, inner
    <3>3. w[i] = <<"fri", layers[k + 1].level>>
      BY <2>1, <3>1 DEF ItemAt
    <3> QED BY <1>4, <3>1, <3>2, <3>3
  <2>6. CASE i = T + n + 2
    <3>1. i = T + Len(inner) + 3
      BY <1>1, <2>6 DEF T
    <3>2. v[i] = <<"poly", 1>>
      BY <1>4, <2>1, <3>1 DEF ReadAt, inner
    <3>3. w[i] = <<"poly", 1>>
      BY <2>1, <2>6 DEF ItemAt, n
    <3> QED BY <3>2, <3>3
  <2>7. CASE i = T + n + 3
    <3>1. i = T + Len(inner) + 4
      BY <1>1, <2>7 DEF T
    <3>2. v[i] = <<"nonce", 1>>
      BY <1>4, <2>1, <3>1 DEF ReadAt, inner
    <3>3. w[i] = <<"nonce", 1>>
      BY <2>1, <2>7 DEF ItemAt, n
    <3> QED BY <3>2, <3>3
  <2>8. i <= T \/ i = T + 1 \/ i = T + 2 \/ i \in T + 3 .. T + n + 1 \/ i = T + n + 2 \/ i = T + n + 3
    <3>1. i \in Int /\ T \in Int /\ n \in Int /\ i <= T + n + 3
      BY <1>1, <1>2, <2>1 DEF T
    <3> QED BY <3>1
  <2> QED BY <2>2, <2>3, <2>4, <2>5, <2>6, <2>7, <2>8
<1> QED BY <1>2, <1>5

(* The verifier then draws what the prover drew, number by number.           *)
LEMMA HonestDraw ==
  ASSUME OpeningInv, ScheduleInv, stage \in ReadSteps, received = proof,
         NEW item, ReadAt(Len(transcript.digest) + 1, item, LastTree, received),
         NEW k \in 1 .. Len(drawn),
         Len(transcript.digest) + 1 = DrawPlace(k, LastTree, Len(layers))
  PROVE  DrawOf(Mix(transcript, item)) = k
<1> DEFINE n == Len(layers)
           e == Append(transcript.digest, item)
           mixed == Mix(transcript, item)
<1>1. /\ ProverInv /\ VerifierInv /\ setting \in Settings /\ IsSeq(layers) /\ IsSeq(drawn)
      /\ IsSeq(transcript.digest) /\ Draws(drawn, LastTree, layers)
      /\ \A j \in DOMAIN drawn : Plain(drawn[j])
  BY DEF OpeningInv, ProverInv, VerifierInv, ScheduleInv
<1>2. LastTree \in Nat /\ LastTree >= 1 /\ Trees = 1 .. LastTree
  BY <1>1, Places
<1>3. stage \notin ProverSteps /\ stage \notin BeforeDelivery
  BY DEF ReadSteps, ProverSteps, BeforeDelivery
<1>4. ProofShape(proof) /\ ReceivedShape(received) /\ n >= 1 /\ Len(drawn) = n + 2
  BY <1>1, <1>3 DEF VerifierInv, ProverInv, ProverProgress
<1>5. n \in Nat /\ DOMAIN drawn = 1 .. n + 2 /\ k \in 1 .. n + 2
  BY <1>1, <1>4, SeqFacts
<1>6. mixed = [digest |-> e, n_draws |-> 0] /\ mixed.digest = e
  BY DEF Mix
<1>7. Len(transcript.digest) \in Nat /\ IsSeq(e) /\ Len(e) = Len(transcript.digest) + 1
      /\ ReadItems(e, LastTree, received)
  <2> DEFINE d == transcript.digest
  <2>1. IsSeq(d) /\ ReadItems(d, LastTree, received) /\ ReadAt(Len(d) + 1, item, LastTree, received)
    BY <1>1 DEF VerifierInv
  <2> HIDE DEF d
  <2>2. Len(d) \in Nat /\ IsSeq(Append(d, item)) /\ Len(Append(d, item)) = Len(d) + 1
    BY <2>1, AppendFacts, SeqFacts
  <2>3. ReadItems(Append(d, item), LastTree, received)
    BY <2>1, ReadAppended
  <2> QED BY <2>2, <2>3, Zenon DEF d
<1> DEFINE w == drawn[k].digest
<1>8. IsSeq(w) /\ Len(w) = DrawPlace(k, LastTree, n) /\ ProverItems(w, LastTree, layers) /\ Plain(drawn[k])
  BY <1>1, <1>5 DEF Draws
<1> HIDE DEF n, e, w, mixed
<1>9. Len(e) = Len(w) /\ Len(e) <= LastTree + Len(layers) + 3
  BY <1>2, <1>5, <1>7, <1>8 DEF DrawPlace, n
<1>10. e = w
  BY <1>1, <1>2, <1>4, <1>7, <1>8, <1>9, HonestDigest
<1>11. drawn[k] = mixed
  BY <1>6, <1>8, <1>10 DEF Plain, w
<1>12. DrawOf(mixed) \in DOMAIN drawn
  <2>1. \E j \in DOMAIN drawn : drawn[j] = mixed
    BY <1>5, <1>11
  <2> QED BY <2>1, Zenon DEF DrawOf
<1>13. DrawOf(mixed) # 0
  BY <1>5, <1>12
<1>14. Len(received.inner_layers) = n - 1
  <2> DEFINE inner == proof.inner_layers
  <2>1. IsSeq(inner) /\ Len(inner) + 1 = n
    BY <1>4 DEF ProofShape, n
  <2> HIDE DEF inner
  <2>2. Len(inner) = n - 1
    BY <1>5, <2>1, SeqFacts
  <2> QED BY <2>2 DEF inner
<1>15. ReadBefore(k, mixed.digest, received)
  <2>1. Len(e) = DrawPlace(k, LastTree, n)
    BY <1>8, <1>9
  <2> QED BY <1>2, <1>5, <1>6, <1>14, <2>1 DEF ReadBefore, DrawPlace
<1>16. ReadItems(mixed.digest, LastTree, received) /\ k \in Nat /\ k >= 1
  BY <1>5, <1>6, <1>7
<1>17. DrawOf(mixed) = k
  BY <1>1, <1>3, <1>4, <1>13, <1>15, <1>16, DrawBinds
<1> QED BY <1>17 DEF mixed

SizeErrors == {"InvalidNumFriLayers", "LastLayerDegreeInvalid", "ProofOfWork"}
LateSteps == {"check_nonce", "verify_trees", "answer"}
Matches(v, l) ==
  /\ v.log = l.log /\ v.fold_step = l.fold_step /\ v.pack_leaves = l.pack_leaves /\ v.alpha = l.alpha
Follows ==
  /\ \A k \in DOMAIN challenges : challenges[k] = k
  /\ Len(verifiers) <= Len(layers)
  /\ \A k \in DOMAIN verifiers : Matches(verifiers[k], layers[k])
  /\ \A k \in DOMAIN verifiers : k # 1 => verifiers[k].domain.log = verifiers[k].log
  /\ stage = "read_inner" =>
       bound + setting.blowup = layers[Len(verifiers)].log - layers[Len(verifiers)].fold_step
  /\ stage \in LateSteps => Len(verifiers) = Len(layers)
  /\ stage \in {"verify_trees", "answer"} => queries = positions
  /\ verdict \notin SizeErrors

(* Before the delivery nothing is received and no verdict is given.          *)
HonestInv ==
  /\ stage \in BeforeDelivery => received = NoProof /\ verdict = "none"
  /\ stage \notin BeforeDelivery /\ received = proof => Follows

(* At first nothing is delivered and there is no verdict.                    *)
LEMMA HonestInit == Init => HonestInv
<1> SUFFICES ASSUME Init PROVE HonestInv
  OBVIOUS
<1>1. stage = "commit" /\ received = NoProof /\ verdict = "none"
  BY DEF Init
<1>2. stage \in BeforeDelivery
  BY <1>1 DEF BeforeDelivery, ProverSteps
<1> HIDE DEF Init
<1> QED BY <1>1, <1>2 DEF HonestInv

(* What the verifier follows is kept while neither side reads or commits.    *)
LEMMA FollowsStays ==
  ASSUME Follows, UNCHANGED <<setting, challenges, layers, verifiers>>,
         stage' # "read_inner" \/ UNCHANGED <<stage, bound>>,
         stage' \in LateSteps => stage \in LateSteps,
         stage' \in {"verify_trees", "answer"} =>
           stage \in {"verify_trees", "answer"} /\ UNCHANGED <<queries, positions>>,
         verdict' \notin SizeErrors
  PROVE  Follows'
BY DEF Follows, Matches

(* The verdicts of the trees and of the layers are not about sizes.          *)
LEMMA OpeningVerdicts ==
  ASSUME NEW root, NEW logs, NEW height, NEW at, NEW values, NEW witness
  PROVE  verify(root, logs, height, at, values, witness) \notin SizeErrors
<1> DEFINE x == verify(root, logs, height, at, values, witness)
<1> DEFINE Bad == \/ Len(values) # Len(logs)
                  \/ \E c \in DOMAIN values : Len(values[c]) # Len(at)
                  \/ \E i \in 2 .. Len(at) :
                       at[i] = at[i - 1] /\ \E c \in DOMAIN values : values[c][i] # values[c][i - 1]
           climbed[l \in 0 .. height] ==
             IF l = 0 THEN [nodes |-> QueriedLeaves(logs, height, at, values), used |-> 0, short |-> FALSE]
             ELSE Climb(climbed[l - 1], witness)
           top == climbed[height]
<1>1. x = IF height = 0 THEN "ok" ELSE IF Bad THEN "Panic"
          ELSE CASE top.short -> "WitnessTooShort"
                 [] ~top.short /\ top.used < Len(witness) -> "WitnessTooLong"
                 [] ~top.short /\ top.used = Len(witness) /\ Len(top.nodes) # 1 -> "Panic"
                 [] OTHER -> IF top.nodes[1][2] = root THEN "ok" ELSE "RootMismatch"
  BY Zenon DEF verify
<1> HIDE DEF Bad, top
<1> HIDE DEF x
<1>2. x \in {"ok", "Panic", "WitnessTooShort", "WitnessTooLong", "RootMismatch"}
  BY <1>1
<1> QED BY <1>2 DEF x, SizeErrors

(* The sizes of the proof that was sent.                                     *)
LEMMA HonestSizes ==
  ASSUME ProofShape(proof), IsSeq(layers), received = proof
  PROVE  Len(layers) \in Nat /\ Len(layers) >= 1 /\ Len(received.inner_layers) = Len(layers) - 1
<1> DEFINE inner == proof.inner_layers
<1>1. IsSeq(inner) /\ Len(inner) + 1 = Len(layers)
  BY DEF ProofShape
<1> HIDE DEF inner
<1>2. Len(inner) \in Nat /\ Len(layers) \in Nat
  BY <1>1, SeqFacts
<1>3. Len(layers) >= 1 /\ Len(inner) = Len(layers) - 1
  BY <1>1, <1>2
<1> QED BY <1>2, <1>3 DEF inner

(* The verifier derives the next layer from the degree bound as the prover   *)
(* did from the domain: FriVerifier::commit and commit_inner_layers.         *)
LEMMA NextLayerAgrees ==
  ASSUME ShapeInv, Follows, stage = "read_inner", ProofShape(proof), received = proof, InnerLeft,
         NEW m, m = Len(verifiers)
  PROVE  /\ m \in Nat /\ m >= 1 /\ m + 1 \in DOMAIN layers
         /\ StepOfNext = layers[m + 1].fold_step /\ ~BadLastStep /\ ~(StepOfNext > bound)
         /\ DomainOfNext.log = layers[m + 1].log
         /\ bound - StepOfNext + setting.blowup = layers[m + 1].log - layers[m + 1].fold_step
<1> DEFINE n == Len(layers)
           log == layers[m + 1].log
           step == layers[m + 1].fold_step
           fs == setting.fold_step
           low == LastLayerLog
<1>1. /\ setting \in Settings /\ IsSeq(layers) /\ IsSeq(verifiers) /\ VerifierProgress
      /\ ScheduleInv /\ VerifierTypes /\ \A k \in DOMAIN layers : Scheduled(k, layers)
  BY DEF ShapeInv, OpeningInv, ProverInv, VerifierInv, ScheduleInv
<1>2. n \in Nat /\ n >= 1 /\ DOMAIN layers = 1 .. n /\ Len(received.inner_layers) = n - 1
  BY <1>1, HonestSizes, SeqFacts
<1>3. m \in 1 .. n - 1 /\ LayersRead = m - 1 /\ DOMAIN verifiers = 1 .. m
  <2>1. m \in 1 .. n /\ DOMAIN verifiers = 1 .. m
    <3>1. m \in 1 .. Len(received.inner_layers) + 1
      BY <1>1 DEF VerifierProgress
    <3>2. m \in 1 .. n
      <4> HIDE DEF n
      <4> QED BY <1>2, <3>1
    <3> QED BY <1>1, <3>2, SeqFacts
  <2>2. LayersRead < Len(received.inner_layers) /\ LayersRead = m - 1
    BY DEF InnerLeft, LayersRead
  <2> HIDE DEF n
  <2> QED BY <1>2, <2>1, <2>2
<1>4. /\ fs \in Nat /\ fs >= 1 /\ setting.last \in Nat /\ setting.blowup \in Nat /\ low \in Nat
      /\ low = setting.last + setting.blowup /\ LiftingLog \in Nat
  BY <1>1, SettingFacts DEF LastLayerLog
<1> HIDE DEF n
<1>5. /\ m \in DOMAIN layers /\ m + 1 \in DOMAIN layers /\ m \in DOMAIN verifiers
      /\ m + 1 # 1 /\ (m + 1) - 1 = m
  BY <1>2, <1>3
<1>6. /\ log = layers[m].log - layers[m].fold_step /\ step = StepAt(log)
      /\ log \in low + 1 .. LiftingLog /\ step \in 1 .. fs
  BY <1>1, <1>5 DEF Scheduled
<1>7. /\ layers[m].log \in Nat /\ layers[m].fold_step \in Nat
  <2>1. Scheduled(m, layers)
    BY <1>1, <1>5
  <2>2. layers[m].log \in low + 1 .. LiftingLog /\ layers[m].fold_step \in 1 .. fs
    BY <2>1 DEF Scheduled
  <2> QED BY <1>4, <2>2
<1>8. bound + setting.blowup = log /\ bound \in Nat
  <2>1. bound \in 0 .. LiftingLog
    BY <1>1 DEF VerifierTypes
  <2>2. bound + setting.blowup = layers[m].log - layers[m].fold_step
    BY DEF Follows
  <2> QED BY <1>4, <1>6, <2>1, <2>2
<1>9. stage \notin ProverSteps
  BY DEF ProverSteps
<1>10. StepOfNext = step /\ log - step >= low
  <2>1. CASE m + 1 = n
    <3>1. LineLeft(layers, line, folds) /\ line.log = low
      BY <1>1, <1>2, <1>9 DEF ScheduleInv, n
    <3>2. line.log = log - step
      BY <2>1, <3>1 DEF LineLeft, n
    <3>3. ~(m < Len(received.inner_layers)) /\ LayersRead + 1 = m
      BY <1>2, <1>3, <2>1
    <3>4. StepOfNext = bound - setting.last
      BY <3>3 DEF StepOfNext
    <3> HIDE DEF log, step, fs, low
    <3>5. step \in Nat /\ log \in Nat
      BY <1>4, <1>6
    <3> QED BY <1>4, <1>8, <3>1, <3>2, <3>4, <3>5
  <2>2. CASE m + 1 # n
    <3>1. m + 2 \in DOMAIN layers /\ m + 2 # 1 /\ (m + 2) - 1 = m + 1
      BY <1>2, <1>3, <2>2
    <3>2. /\ layers[m + 2].log = log - step
          /\ layers[m + 2].log \in low + 1 .. LiftingLog
      BY <1>1, <3>1 DEF Scheduled
    <3>3. log - step > low
      BY <1>4, <3>2
    <3>4. step = IF log > low + fs THEN fs ELSE log - low
      BY <1>6 DEF StepAt
    <3>5. m < Len(received.inner_layers) /\ LayersRead + 1 = m
      BY <1>2, <1>3, <2>2
    <3>6. StepOfNext = fs
      BY <3>5 DEF StepOfNext
    <3> HIDE DEF log, step, fs, low
    <3>7. step = fs
      <4>1. log \in Nat
        BY <1>4, <1>6
      <4> QED BY <1>4, <3>3, <3>4, <4>1
    <3>8. step \in Nat /\ log \in Nat
      BY <1>4, <1>6
    <3> QED BY <1>4, <3>3, <3>6, <3>7, <3>8
  <2> QED BY <2>1, <2>2
<1>11. ~BadLastStep
  BY <1>6, <1>10 DEF BadLastStep
<1>12. DomainOfNext.log = log
  <2>1. CASE m = 1
    <3>1. LayersRead = 0
      BY <1>3, <2>1
    <3>2. DomainOfNext = half_odds(bound + setting.blowup)
      BY <3>1, Zenon DEF DomainOfNext
    <3> QED BY <1>8, <3>2 DEF half_odds, Coset
  <2>2. CASE m # 1
    <3> DEFINE previous == verifiers[m]
    <3>1. LayersRead # 0
      BY <1>3, <2>2
    <3>2. DomainOfNext = RepeatedDouble(previous.domain, previous.fold_step)
      BY <3>1, Zenon DEF DomainOfNext
    <3>3. /\ previous.domain.log = layers[m].log /\ previous.fold_step = layers[m].fold_step
      BY <1>5, <2>2 DEF Follows, Matches
    <3>4. previous.domain.log \in Int /\ previous.fold_step \in Nat
      BY <1>7, <3>3
    <3> HIDE DEF previous
    <3> DEFINE coset == previous.domain
    <3>5. RepeatedDouble(coset, previous.fold_step).log = coset.log - previous.fold_step
      <4> HIDE DEF coset
      <4>1. coset.log \in Int
        BY <3>4 DEF coset
      <4> QED BY <3>4, <4>1, RepeatedDoubleLog
    <3> QED BY <1>6, <3>2, <3>3, <3>5
  <2> QED BY <2>1, <2>2
<1> HIDE DEF log, step, fs, low
<1>13. log \in Nat /\ step \in Nat /\ step <= log
  BY <1>4, <1>6, <1>10
<1>14. ~(StepOfNext > bound) /\ bound - StepOfNext + setting.blowup = log - step
  BY <1>4, <1>8, <1>10, <1>13
<1> QED BY <1>3, <1>5, <1>10, <1>11, <1>12, <1>14 DEF log, step

(* A draw more that is the next of the prover's.                             *)
LEMMA NextChallenge ==
  ASSUME IsSeq(challenges), \A k \in DOMAIN challenges : challenges[k] = k,
         NEW item, ReadAndDraw(item), DrawOf(Mix(transcript, item)) = Len(challenges) + 1
  PROVE  \A k \in DOMAIN challenges' : challenges'[k] = k
<1>1. challenges' = Append(challenges, Len(challenges) + 1)
  BY DEF ReadAndDraw
<1> QED BY <1>1, AppendFacts

(* The verifier's next layer is the prover's, with the draw it comes with.   *)
LEMMA LayerFollows ==
  ASSUME NEW domain, NEW log, NEW fold_step, NEW alpha, NEW layer,
         layer.log = log, layer.fold_step = fold_step, layer.alpha = alpha,
         layer.pack_leaves = should_pack_leaves(log, fold_step)
  PROVE  /\ Matches(VerifierOf(domain, log, fold_step, alpha), layer)
         /\ VerifierOf(domain, log, fold_step, alpha).domain = domain
         /\ VerifierOf(domain, log, fold_step, alpha).log = log
BY DEF Matches, VerifierOf, should_pack_leaves

(* Reading a proof that arrived as it was sent: the challenge drawn is the   *)
(* prover's next one, and the layer pushed is the prover's next layer.       *)
LEMMA HonestRead ==
  ASSUME ShapeInv, Follows, received = proof,
         ReadCommitment \/ ReadSamples \/ ReadFirstLayer \/ ReadInnerLayer \/ ReadLastLayer
           \/ CheckNonceAndDrawQueries
  PROVE  Follows'
<1> DEFINE n == Len(layers)
           m == Len(verifiers)
           t == Len(transcript.digest)
           q == Len(received.inner_layers)
           T == LastTree
<1>1. /\ OpeningInv /\ ScheduleInv /\ ProverInv /\ VerifierInv
      /\ setting \in Settings /\ IsSeq(layers) /\ IsSeq(drawn) /\ IsSeq(verifiers)
      /\ IsSeq(challenges) /\ IsSeq(transcript.digest) /\ VerifierProgress /\ ProverProgress
      /\ \A k \in DOMAIN layers : Scheduled(k, layers)
  BY DEF ShapeInv, OpeningInv, ProverInv, VerifierInv, ScheduleInv
<1>2. UNCHANGED <<setting, drawn, line, layers, positions, proof, received>> /\ stage \in ReadSteps
  <2>1. CASE ReadCommitment \/ ReadSamples \/ ReadFirstLayer
    BY <2>1 DEF ReadCommitment, ReadSamples, ReadFirstLayer, ReadSteps, prover
  <2>2. CASE ReadInnerLayer \/ ReadLastLayer \/ CheckNonceAndDrawQueries
    BY <2>2 DEF ReadInnerLayer, ReadLastLayer, CheckNonceAndDrawQueries, ReadSteps, prover
  <2> QED BY <2>1, <2>2
<1>3. stage \notin BeforeDelivery /\ stage \notin ProverSteps
  BY <1>2 DEF ReadSteps, BeforeDelivery, ProverSteps
<1>4. ProofShape(proof) /\ Len(drawn) = n + 2 /\ LineLeft(layers, line, folds) /\ line.log = LastLayerLog
  BY <1>1, <1>3 DEF VerifierInv, ProverProgress, ScheduleInv
<1>5. n \in Nat /\ n >= 1 /\ q = n - 1 /\ DOMAIN layers = 1 .. n
  BY <1>1, <1>2, <1>4, HonestSizes, SeqFacts
<1>6. T \in Nat /\ T >= 1
  BY <1>1, Places
<1>7. m \in Nat /\ t \in Nat /\ DOMAIN verifiers = 1 .. m /\ DOMAIN challenges = 1 .. Len(challenges)
  BY <1>1, SeqFacts
<1>8. /\ setting.fold_step \in Nat /\ setting.last \in Nat /\ setting.blowup \in Nat
      /\ setting.fold_step >= 1 /\ LiftingLog \in Nat /\ LastLayerLog = setting.last + setting.blowup
      /\ LastLayerLog + setting.fold_step <= LiftingLog
  BY <1>1, SettingFacts DEF LastLayerLog
<1>9. /\ \A k \in DOMAIN challenges : challenges[k] = k
      /\ m <= n /\ \A k \in DOMAIN verifiers : Matches(verifiers[k], layers[k])
      /\ \A k \in DOMAIN verifiers : k # 1 => verifiers[k].domain.log = verifiers[k].log
      /\ verdict \notin SizeErrors
  BY DEF Follows
<1>10. DOMAIN received.inner_layers = 1 .. q
  <2>1. IsSeq(received.inner_layers)
    BY <1>4 DEF ProofShape
  <2> QED BY <2>1, SeqFacts
<1> HIDE DEF n, m, t, q, T
<1>11. ASSUME NEW item, ReadAt(t + 1, item, T, received), ReadAndDraw(item),
              NEW k \in 1 .. n + 2, t + 1 = DrawPlace(k, T, n), k = Len(challenges) + 1
       PROVE  /\ DrawOf(Mix(transcript, item)) = k
              /\ \A j \in DOMAIN challenges' : challenges'[j] = j
  <2>1. DrawOf(Mix(transcript, item)) = k
    BY <1>1, <1>2, <1>4, <1>11, HonestDraw DEF t, T, n
  <2>2. \A j \in DOMAIN challenges' : challenges'[j] = j
    BY <1>1, <1>9, <1>11, <2>1, NextChallenge
  <2> QED BY <2>1, <2>2
<1>12. CASE ReadCommitment
  <2>1. /\ stage' \in {"read", "read_samples"} /\ UNCHANGED <<challenges, verifiers, verdict>>
    BY <1>12 DEF ReadCommitment
  <2> QED BY <1>2, <1>9, <2>1, FollowsStays DEF LateSteps
<1>13. CASE ReadSamples
  <2> DEFINE item == <<"sampled", received.sampled>>
  <2>1. /\ stage = "read_samples" /\ stage' = "read_fri" /\ UNCHANGED <<verifiers, verdict>>
        /\ ReadAndDraw(item)
    BY <1>13 DEF ReadSamples
  <2>2. t = T /\ Len(challenges) = 0
    BY <1>1, <2>1 DEF VerifierProgress, t, T
  <2>3. ReadAt(t + 1, item, T, received)
    BY <1>5, <1>6, <1>10, <2>2 DEF ReadAt, q
  <2> HIDE DEF item
  <2>4. 1 \in 1 .. n + 2 /\ t + 1 = DrawPlace(1, T, n) /\ 1 = Len(challenges) + 1
    BY <1>5, <2>2 DEF DrawPlace
  <2>5. \A j \in DOMAIN challenges' : challenges'[j] = j
    BY <1>11, <2>1, <2>3, <2>4
  <2> QED BY <1>2, <1>9, <2>1, <2>5 DEF Follows, LateSteps, m, n
<1>14. CASE ReadFirstLayer
  <2> DEFINE item == received.first_layer.commitment
             log == LiftingLog - setting.blowup + setting.blowup
             alpha == DrawAfter(item)
             layer == VerifierOf(CanonicHalfCoset(log), log, setting.fold_step, alpha)
  <2>1. /\ stage = "read_fri" /\ ReadAndDraw(item) /\ verifiers' = <<layer>>
        /\ IF LiftingLog - setting.blowup < setting.fold_step
           THEN Conclude("InvalidNumFriLayers")
           ELSE /\ bound' = LiftingLog - setting.blowup - setting.fold_step
                /\ stage' = "read_inner" /\ UNCHANGED verdict
    BY <1>14 DEF ReadFirstLayer
  <2>2. t = T + 1 /\ Len(challenges) = 1
    BY <1>1, <2>1 DEF VerifierProgress, t, T
  <2>3. ReadAt(t + 1, item, T, received)
    BY <1>5, <1>6, <1>10, <2>2 DEF ReadAt, q
  <2>4. 2 \in 1 .. n + 2 /\ t + 1 = DrawPlace(2, T, n) /\ 2 = Len(challenges) + 1
    BY <1>5, <1>6, <2>2 DEF DrawPlace
  <2> HIDE DEF item, layer
  <2>5. DrawOf(Mix(transcript, item)) = 2 /\ \A j \in DOMAIN challenges' : challenges'[j] = j
    BY <1>11, <2>1, <2>3, <2>4
  <2>6. alpha = Challenge(2)
    BY <2>5 DEF DrawAfter
  <2> HIDE DEF alpha
  <2>7. log = LiftingLog /\ ~(LiftingLog - setting.blowup < setting.fold_step)
    BY <1>8
  <2>8. 1 \in DOMAIN layers /\ 1 + 1 = 2
    BY <1>5
  <2>9. /\ layers[1].log = LiftingLog /\ layers[1].fold_step = setting.fold_step
        /\ layers[1].alpha = Challenge(2)
        /\ layers[1].pack_leaves = should_pack_leaves(layers[1].log, layers[1].fold_step)
    BY <1>1, <2>8 DEF Scheduled
  <2>10. Matches(layer, layers[1])
    BY <2>6, <2>7, <2>9, LayerFollows DEF layer
  <2>11. Len(verifiers') = 1 /\ DOMAIN verifiers' = {1} /\ verifiers'[1] = layer
    BY <2>1
  <2>12. bound' + setting.blowup = LiftingLog - setting.fold_step /\ stage' = "read_inner"
         /\ UNCHANGED verdict
    BY <1>8, <2>1, <2>7
  <2> QED BY <1>2, <1>5, <1>9, <2>5, <2>9, <2>10, <2>11, <2>12 DEF Follows, LateSteps, n
<1>15. CASE ReadInnerLayer
  <2> DEFINE item == received.inner_layers[LayersRead + 1].commitment
             log == DomainOfNext.log
             alpha == DrawAfter(item)
             layer == VerifierOf(DomainOfNext, log, StepOfNext, alpha)
  <2>1. stage = "read_inner" /\ InnerLeft
    BY <1>15 DEF ReadInnerLayer
  <2>2. /\ m >= 1 /\ m + 1 \in DOMAIN layers
        /\ StepOfNext = layers[m + 1].fold_step /\ ~BadLastStep /\ ~(StepOfNext > bound)
        /\ log = layers[m + 1].log
        /\ bound - StepOfNext + setting.blowup = layers[m + 1].log - layers[m + 1].fold_step
    BY <1>4, <2>1, NextLayerAgrees DEF m
  <2>3. /\ ReadAndDraw(item) /\ verifiers' = Append(verifiers, layer)
        /\ bound' = bound - StepOfNext /\ UNCHANGED <<stage, verdict>>
    BY <1>15, <2>2, Zenon DEF ReadInnerLayer
  <2>4. t = T + 1 + m /\ Len(challenges) = m + 1
    BY <1>1, <2>1 DEF VerifierProgress, t, m, T
  <2>5. m \in 1 .. n - 1 /\ LayersRead + 1 = m
    <3>1. LayersRead + 1 = m
      BY <1>7 DEF LayersRead, m
    <3> QED BY <1>5, <1>7, <2>2, <3>1
  <2>6. ReadAt(t + 1, item, T, received)
    <3>1. \A j \in 1 .. q : t + 1 = T + 2 + j => j = m
      BY <1>5, <1>6, <1>7, <2>4
    <3>2. /\ ~(t + 1 <= T) /\ t + 1 # T + 1 /\ t + 1 # T + 2
          /\ t + 1 # T + q + 3 /\ t + 1 # T + q + 4
      BY <1>5, <1>6, <1>7, <2>4, <2>5
    <3> QED BY <1>10, <2>5, <3>1, <3>2 DEF ReadAt, q
  <2>7. m + 2 \in 1 .. n + 2 /\ t + 1 = DrawPlace(m + 2, T, n) /\ m + 2 = Len(challenges) + 1
    BY <1>5, <1>6, <2>4, <2>5 DEF DrawPlace
  <2> HIDE DEF item, layer
  <2>8. DrawOf(Mix(transcript, item)) = m + 2 /\ \A j \in DOMAIN challenges' : challenges'[j] = j
    BY <1>11, <2>3, <2>6, <2>7
  <2>9. alpha = Challenge(m + 2)
    BY <2>8 DEF DrawAfter
  <2> HIDE DEF alpha
  <2>10. /\ layers[m + 1].alpha = Challenge(m + 2)
         /\ layers[m + 1].pack_leaves = should_pack_leaves(layers[m + 1].log, layers[m + 1].fold_step)
    <3>1. (m + 1) + 1 = m + 2
      BY <1>7
    <3>2. Scheduled(m + 1, layers)
      BY <1>1, <2>2
    <3> HIDE DEF Challenge
    <3> QED BY <3>1, <3>2 DEF Scheduled
  <2>11. Matches(layer, layers[m + 1]) /\ layer.domain.log = layer.log
    <3>1. /\ Matches(VerifierOf(DomainOfNext, log, StepOfNext, alpha), layers[m + 1])
          /\ VerifierOf(DomainOfNext, log, StepOfNext, alpha).domain = DomainOfNext
          /\ VerifierOf(DomainOfNext, log, StepOfNext, alpha).log = log
      BY <2>2, <2>9, <2>10, LayerFollows
    <3> QED BY <3>1 DEF layer
  <2>12. /\ IsSeq(verifiers') /\ Len(verifiers') = m + 1 /\ verifiers'[m + 1] = layer
         /\ \A k \in DOMAIN verifiers' : k # m + 1 => k \in DOMAIN verifiers /\ verifiers'[k] = verifiers[k]
    BY <1>1, <2>3, AppendFacts DEF m
  <2> HIDE DEF log
  <2>13. \A k \in DOMAIN verifiers' : /\ Matches(verifiers'[k], layers[k])
                                      /\ k # 1 => verifiers'[k].domain.log = verifiers'[k].log
    BY <1>9, <2>11, <2>12
  <2>14. stage' \notin LateSteps /\ stage' \notin {"verify_trees", "answer"}
    BY <2>1, <2>3 DEF LateSteps
  <2>15. Len(verifiers') <= n
    BY <1>5, <2>5, <2>12
  <2>16. \A k \in DOMAIN verifiers' : Matches(verifiers[k], layers[k])'
    BY <1>2, <2>13 DEF Matches
  <2> QED BY <1>2, <1>9, <2>2, <2>3, <2>8, <2>12, <2>13, <2>14, <2>15, <2>16 DEF Follows, n
<1>16. CASE ReadLastLayer
  <2>1. /\ stage = "read_inner" /\ ~(m - 1 < q) /\ UNCHANGED <<challenges, verifiers>>
        /\ IF bound # setting.last THEN Conclude("InvalidNumFriLayers")
           ELSE IF received.last_layer_poly = 3 THEN Conclude("LastLayerDegreeInvalid")
           ELSE stage' = "check_nonce" /\ UNCHANGED verdict
    BY <1>16 DEF ReadLastLayer, InnerLeft, LayersRead, m, q
  <2>2. m = n
    BY <1>5, <1>7, <1>9, <2>1
  <2>3. bound + setting.blowup = LastLayerLog
    <3>1. bound + setting.blowup = layers[n].log - layers[n].fold_step
      BY <2>1, <2>2 DEF Follows, m
    <3>2. line.log = layers[n].log - layers[n].fold_step
      BY <1>4 DEF LineLeft, n
    <3> QED BY <1>4, <3>1, <3>2
  <2>4. bound = setting.last
    <3>1. bound \in Nat
      BY <1>8 DEF ShapeInv, VerifierTypes
    <3> QED BY <1>8, <2>3, <3>1
  <2>5. received.last_layer_poly = 1
    BY <1>4 DEF ProofShape
  <2>6. stage' = "check_nonce" /\ UNCHANGED verdict
    BY <2>1, <2>4, <2>5
  <2> QED BY <1>2, <1>9, <2>1, <2>2, <2>6 DEF Follows, Matches, LateSteps, m, n
<1>17. CASE CheckNonceAndDrawQueries
  <2> DEFINE item == <<"nonce", received.nonce>>
             w == drawn[Len(drawn)].digest
  <2>1. /\ stage = "check_nonce" /\ UNCHANGED verifiers
        /\ \/ FALSE \in Solves(received.nonce)
           \/ /\ ReadAndDraw(item) /\ stage' = "verify_trees" /\ UNCHANGED verdict
              /\ DrawAfter(item).draw # 0 => queries' = positions
    BY <1>17 DEF CheckNonceAndDrawQueries
  <2>2. t = T + 3 + q /\ Len(challenges) = q + 2
    BY <1>1, <2>1 DEF VerifierProgress, t, q, T
  <2>3. m = n
    BY <2>1 DEF Follows, LateSteps, m, n
  <2>4. transcript.digest = Front(w)
    <3>1. n + 2 \in DOMAIN drawn
      BY <1>1, <1>4, <1>5, SeqFacts
    <3>2. IsSeq(w) /\ Len(w) = T + n + 3 /\ ProverItems(w, T, layers)
      <4>1. DrawPlace(n + 2, T, n) = T + n + 3
        BY <1>5, <1>6 DEF DrawPlace
      <4> QED BY <1>1, <1>4, <3>1, <4>1 DEF ProverInv, Draws, n, T
    <3> DEFINE f == SubSeq(w, 1, Len(w) - 1)
    <3>3. f = Front(w)
      BY DEF Front
    <3> HIDE DEF w
    <3>4. /\ f \in Seq(Range(w)) /\ Len(f) = T + n + 2 /\ \A i \in 1 .. T + n + 2 : f[i] = w[i]
      <4>1. w \in Seq(Range(w)) /\ Len(w) - 1 = T + n + 2 /\ Len(w) - 1 \in Nat
        BY <1>5, <1>6, <3>2 DEF IsSeq
      <4> QED BY <4>1
    <3> HIDE DEF f
    <3>5. IsSeq(f) /\ DOMAIN f = 1 .. T + n + 2 /\ DOMAIN w = 1 .. T + n + 3
      BY <3>2, <3>4, SeqOfMembers, SeqFacts
    <3>6. ProverItems(f, T, layers)
      <4>1. ASSUME NEW i \in DOMAIN f PROVE ItemAt(i, f[i], T, layers)
        <5>1. i \in DOMAIN w /\ f[i] = w[i]
          BY <1>5, <1>6, <3>4, <3>5
        <5> QED BY <3>2, <5>1 DEF ProverItems
      <4> QED BY <4>1 DEF ProverItems
    <3>7. Len(transcript.digest) = Len(f) /\ Len(transcript.digest) <= T + Len(layers) + 3
      BY <1>5, <1>6, <2>2, <3>4 DEF t, n
    <3>8. ReadItems(transcript.digest, T, proof) /\ Trees = 1 .. T
      BY <1>1, <1>2, Places DEF VerifierInv, T
    <3> DEFINE d == transcript.digest
    <3>9. IsSeq(d) /\ ReadItems(d, T, proof) /\ Len(d) = Len(f) /\ Len(d) <= T + Len(layers) + 3
      BY <1>1, <3>7, <3>8
    <3> HIDE DEF d
    <3>10. d = f
      BY <1>1, <1>4, <1>6, <3>5, <3>6, <3>8, <3>9, HonestDigest DEF T
    <3> QED BY <3>3, <3>10 DEF d
  <2>5. received.nonce = 1
    BY <1>4 DEF ProofShape
  <2>6. FALSE \notin Solves(received.nonce)
    <3>1. Solves(received.nonce) = {received.nonce # 3}
      BY <2>4, Zenon DEF Solves
    <3>2. received.nonce # 3
      BY <2>5
    <3>3. \A x \in {received.nonce # 3} : x
      BY <3>2
    <3> QED BY <3>1, <3>3, Zenon
  <2>7. ReadAt(t + 1, item, T, received)
    <3>1. t + 1 = T + q + 4
      BY <1>5, <1>6, <2>2
    <3>2. /\ ~(t + 1 <= T) /\ t + 1 # T + 1 /\ t + 1 # T + 2
          /\ \A j \in 1 .. q : t + 1 # T + 2 + j
          /\ t + 1 # T + q + 3
      BY <1>5, <1>6, <3>1
    <3> QED BY <1>10, <3>2 DEF ReadAt, q
  <2>8. n + 2 \in 1 .. n + 2 /\ t + 1 = DrawPlace(n + 2, T, n) /\ n + 2 = Len(challenges) + 1
    BY <1>5, <1>6, <2>2 DEF DrawPlace
  <2> HIDE DEF item
  <2>9. DrawOf(Mix(transcript, item)) = n + 2 /\ \A j \in DOMAIN challenges' : challenges'[j] = j
    BY <1>11, <2>1, <2>6, <2>7, <2>8
  <2>10. DrawAfter(item).draw = n + 2 /\ n + 2 # 0
    BY <1>5, <2>9 DEF DrawAfter, Challenge
  <2>11. queries' = positions' /\ stage' = "verify_trees" /\ UNCHANGED verdict
    BY <1>2, <2>1, <2>6, <2>10
  <2> QED BY <1>2, <1>9, <2>1, <2>3, <2>9, <2>11 DEF Follows, Matches, LateSteps, m, n
<1> QED BY <1>12, <1>13, <1>14, <1>15, <1>16, <1>17

(* Behind the last draw only the checks of values are left.                  *)
LEMMA HonestChecks ==
  ASSUME Follows, VerifyTrees \/ AnswerQueries \/ VerifyLayer \/ VerifyLastLayer \/ Finished
  PROVE  Follows'
<1>1. verdict \notin SizeErrors
  BY DEF Follows
<1>2. CASE VerifyTrees
  <2>1. \A t : TreeVerdict(t) \notin SizeErrors
    BY OpeningVerdicts DEF TreeVerdict
  <2> HIDE DEF TreeVerdict
  <2>2. /\ stage = "verify_trees" /\ UNCHANGED <<setting, challenges, layers, verifiers, queries, positions>>
        /\ \/ stage' = "answer" /\ UNCHANGED verdict
           \/ stage' = "done" /\ \E t : verdict' = TreeVerdict(t)
    BY <1>2, Zenon DEF VerifyTrees, Conclude, prover
  <2>3. verdict' \notin SizeErrors
    BY <1>1, <2>1, <2>2
  <2> QED BY <2>2, <2>3, FollowsStays DEF LateSteps
<1>3. CASE AnswerQueries
  <2>1. /\ UNCHANGED <<setting, challenges, layers, verifiers>>
        /\ stage' \in {"verify_layers", "done"} /\ verdict' \in {verdict, "Panic"}
    <3>1. \/ stage' = "done" /\ verdict' = "Panic"
          \/ stage' = "verify_layers" /\ verdict' = verdict
      BY <1>3, Zenon DEF AnswerQueries, Conclude
    <3> QED BY <1>3, <3>1, Zenon DEF AnswerQueries, prover
  <2>2. verdict' \notin SizeErrors
    BY <1>1, <2>1 DEF SizeErrors
  <2> QED BY <2>1, <2>2, FollowsStays DEF LateSteps
<1>4. CASE VerifyLayer
  <2>1. LayerVerdict \notin SizeErrors
    <3>1. LayerVerdict = "EvaluationsInvalid" \/ \E a, b, c, d, e, f : LayerVerdict = verify(a, b, c, d, e, f)
      BY Zenon DEF LayerVerdict, verify_layer
    <3> HIDE DEF LayerVerdict
    <3>2. "EvaluationsInvalid" \notin SizeErrors
      BY DEF SizeErrors
    <3> QED BY <3>1, <3>2, OpeningVerdicts, Zenon
  <2> HIDE DEF LayerVerdict
  <2>2. /\ UNCHANGED <<setting, challenges, layers, verifiers>> /\ stage = "verify_layers"
        /\ stage' \in {"verify_layers", "done"} /\ verdict' \in {verdict, LayerVerdict}
    <3>1. \/ stage' = "done" /\ verdict' = LayerVerdict
          \/ stage' = stage /\ verdict' = verdict
      BY <1>4, Zenon DEF VerifyLayer, Conclude
    <3> QED BY <1>4, <3>1, Zenon DEF VerifyLayer, prover
  <2>3. verdict' \notin SizeErrors
    BY <1>1, <2>1, <2>2
  <2> QED BY <2>2, <2>3, FollowsStays DEF LateSteps
<1>5. CASE VerifyLastLayer
  <2>1. /\ UNCHANGED <<setting, challenges, layers, verifiers>> /\ stage' = "done"
        /\ verdict' \in {"LastLayerEvaluationsInvalid", "ok"}
    <3>1. \/ verdict' = "LastLayerEvaluationsInvalid" /\ stage' = "done"
          \/ verdict' = "ok" /\ stage' = "done"
      BY <1>5, Zenon DEF VerifyLastLayer, Conclude
    <3> QED BY <1>5, <3>1, Zenon DEF VerifyLastLayer, prover
  <2>2. verdict' \notin SizeErrors
    BY <2>1 DEF SizeErrors
  <2> QED BY <2>1, <2>2, FollowsStays DEF LateSteps
<1>6. CASE Finished
  <2>1. UNCHANGED <<setting, challenges, layers, verifiers, stage, bound, queries, positions, verdict>>
    BY <1>6 DEF Finished, vars, prover, verifier
  <2> QED BY <1>1, <2>1, FollowsStays
<1> QED BY <1>2, <1>3, <1>4, <1>5, <1>6

(* Every step keeps the verifier on the prover's layers.                     *)
LEMMA HonestStep ==
  ASSUME ShapeInv, HonestInv, [Next]_vars
  PROVE  HonestInv'
<1>1. /\ stage \in BeforeDelivery => received = NoProof /\ verdict = "none"
      /\ stage \notin BeforeDelivery /\ received = proof => Follows
      /\ VerifierProgress /\ IsSeq(challenges) /\ IsSeq(verifiers) /\ IsSeq(layers)
  BY DEF HonestInv, ShapeInv, OpeningInv, VerifierInv, ProverInv
<1>2. CASE CommitTrace \/ SampleValues \/ CommitFirstLayer \/ CommitInnerLayer \/ CommitLastLayer
             \/ GrindAndDrawQueries
  <2>1. /\ stage \in BeforeDelivery /\ stage' \in BeforeDelivery /\ UNCHANGED received
    BY <1>2, ProverIsEarly
  <2>2. UNCHANGED verdict
    BY <1>2, VerifierWaits DEF verifier
  <2> QED BY <1>1, <2>1, <2>2 DEF HonestInv
<1>3. CASE Open
  <2>1. stage = "open" /\ stage' = "deliver" /\ UNCHANGED <<received, verdict>>
    BY <1>3, Zenon DEF Open, verifier
  <2>2. stage \in BeforeDelivery /\ stage' \in BeforeDelivery
    BY <2>1 DEF BeforeDelivery
  <2> QED BY <1>1, <2>1, <2>2 DEF HonestInv
<1>4. CASE Deliver
  <2>1. stage = "deliver" /\ stage' = "read" /\ UNCHANGED <<challenges, verifiers, layers, verdict>>
    BY <1>4, Zenon DEF Deliver, prover, verifier
  <2>2. stage \in BeforeDelivery /\ stage' \notin BeforeDelivery
    BY <2>1 DEF BeforeDelivery, ProverSteps
  <2>3. Len(challenges) = 0 /\ Len(verifiers) = 0 /\ verdict = "none"
    BY <1>1, <2>2 DEF VerifierProgress
  <2>4. DOMAIN challenges = {} /\ DOMAIN verifiers = {} /\ Len(layers) \in Nat
    BY <1>1, <2>3, SeqFacts
  <2>5. Follows'
    BY <2>1, <2>3, <2>4 DEF Follows, LateSteps, SizeErrors
  <2> QED BY <2>2, <2>5 DEF HonestInv
<1>5. CASE ReadCommitment \/ ReadSamples \/ ReadFirstLayer \/ ReadInnerLayer \/ ReadLastLayer
             \/ CheckNonceAndDrawQueries
  <2>1. /\ UNCHANGED <<proof, received>> /\ stage \notin BeforeDelivery /\ stage' \notin BeforeDelivery
    <3>1. CASE ReadCommitment \/ ReadSamples \/ ReadFirstLayer
      BY <3>1 DEF ReadCommitment, ReadSamples, ReadFirstLayer, Conclude, BeforeDelivery, ProverSteps, prover
    <3>2. CASE ReadInnerLayer
      BY <3>2 DEF ReadInnerLayer, Conclude, BeforeDelivery, ProverSteps, prover
    <3>3. CASE ReadLastLayer \/ CheckNonceAndDrawQueries
      BY <3>3 DEF ReadLastLayer, CheckNonceAndDrawQueries, Conclude, BeforeDelivery, ProverSteps, prover
    <3> QED BY <1>5, <3>1, <3>2, <3>3
  <2>2. received = proof => Follows'
    BY <1>1, <1>5, <2>1, HonestRead
  <2> QED BY <2>1, <2>2 DEF HonestInv
<1>6. CASE VerifyTrees \/ AnswerQueries \/ VerifyLayer \/ VerifyLastLayer \/ Finished
  <2>1. /\ UNCHANGED <<proof, received>> /\ stage \notin BeforeDelivery /\ stage' \notin BeforeDelivery
    BY <1>6, ChecksAreLate
  <2>2. received = proof => Follows'
    BY <1>1, <1>6, <2>1, HonestChecks
  <2> QED BY <2>1, <2>2 DEF HonestInv
<1>7. CASE UNCHANGED vars
  <2>1. /\ UNCHANGED <<setting, stage, proof, received, verdict, challenges, layers, verifiers, bound>>
        /\ UNCHANGED <<queries, positions>>
    BY <1>7 DEF vars, prover, verifier
  <2>2. Follows => Follows'
    BY <2>1 DEF Follows, Matches
  <2> QED BY <1>1, <2>1, <2>2 DEF HonestInv
<1> QED BY <1>2, <1>3, <1>4, <1>5, <1>6, <1>7 DEF Next

(* A verifier that reads the proof as it was sent goes through the layers,   *)
(* the challenges and the queries of the prover, and no error about their    *)
(* number or sizes is left: FriVerifier::commit against commit_inner_layers. *)
THEOREM VerifierFollowsProver == Spec => []VerifierFollows
<1>1. Init => HonestInv
  BY HonestInit
<1>2. ShapeInv /\ HonestInv /\ [Next]_vars => HonestInv'
  BY HonestStep
<1>3. HonestInv => VerifierFollows
  <2> SUFFICES ASSUME HonestInv, proof # NoProof, received = proof
               PROVE  VerifierFollows
    BY Zenon DEF VerifierFollows
  <2>1. Follows
    BY DEF HonestInv
  <2>2. verdict \notin {"InvalidNumFriLayers", "LastLayerDegreeInvalid", "ProofOfWork"}
    BY <2>1 DEF Follows, SizeErrors
  <2> QED BY <2>1, <2>2 DEF VerifierFollows, Follows, Matches, LateSteps
<1> QED BY <1>1, <1>2, <1>3, ShapeInvariant, PTL DEF Spec
==============================================================================
