--------------------------- MODULE LowMemoryProver ---------------------------
(* One proof from the first commitment to the last opening, and where every  *)
(* column is on the way: CommitmentSchemeProver and CommitmentTreeProver     *)
(* (prover/pcs/mod.rs) driven by a caller that commits trees and then by     *)
(* prove_ex (prover/mod.rs).  In the modes that rematerialize, evaluations   *)
(* go after each commit and come back for each component of the composition  *)
(* and for the openings; coefficients move to files.  Every file operation   *)
(* may fail, and the proof then goes on with what is on the heap.            *)
(*                                                                           *)
(* The prover is one thread: the steps are its own, and what is open is the  *)
(* caller's choices, the outcome of each spill, and which columns it moved   *)
(* (any subset: see EvalSpill).                                              *)
EXTENDS CommitmentTree, FiniteSets

CONSTANTS
  Backend,            \* "simd" or "cpu"
  Settings,           \* what one proof is made of (below): one is chosen
  ColumnBytes,        \* the bytes of a column's evaluations, by column
  Budget              \* rematerialize_budget_bytes, by mode

(* A setting:                                                                *)
(*   modes       the memory modes the caller picks from                      *)
(*   direct      the iOS path: rematerialize straight into maps              *)
(*   domain      EvaluationMode: "sub" (SubDomain) or "extend"               *)
(*   components  [declared, columns]: declared if it has an access pattern;  *)
(*               columns are <<tree, column>> pairs                          *)
(*   given       trees the caller may pass to commit_tree                    *)
(*   liberties   what the caller does although the prover expects otherwise  *)
(*   spillBatch  DEFAULT_LOW_MEMORY_EVAL_SPILL_BATCH_BYTES                   *)
(*   maxTrees, maxColumns    bounds: trees before the composition, columns   *)
(*                           of a committed tree                             *)
(*   compositionColumns      columns of the composition tree (8 in the code) *)
(*   failures    file operations may fail                                    *)
AllLiberties == {"set late", "bring any tree", "call any"}

ASSUME ProverConstants ==
  /\ Backend \in {"simd", "cpu"}
  /\ ColumnBytes \in Seq(Nat)
  /\ \A s \in Settings :
       /\ s.modes \subseteq {"Fast", "SmoothedPeak", "LowMemory", "UltraLow"}
       /\ \A m \in s.modes : Budget[m] \in Nat \ {0}
       /\ s.direct \in BOOLEAN /\ s.failures \in BOOLEAN
       /\ s.domain \in {"sub", "extend"}
       /\ s.liberties \subseteq AllLiberties
       /\ s.spillBatch \in Nat \ {0}
       /\ {s.maxTrees, s.maxColumns, s.compositionColumns} \subseteq Nat
       /\ s.maxColumns <= Len(ColumnBytes) /\ s.compositionColumns <= Len(ColumnBytes)
       /\ s.components \in Seq([declared : BOOLEAN, columns : SUBSET (Nat \X Nat)])
       /\ \A t \in s.given : IsTree(t) /\ GuardsMatch(t) /\ Len(t.polys) <= Len(ColumnBytes)

VARIABLES
  setting,       \* one of Settings
  mode, store,   \* memory_mode, store_polynomials_coefficients
  trees,         \* the trees of the scheme
  pc, ret,       \* where the proof stands; where a loop goes when it ends
  new, todo,     \* the tree under construction, the columns it still lacks
  turn,          \* the component, later the tree, whose turn it is
  at,            \* cursor of a materialize loop: tree, last, column, and the
                 \* open batch: its first column (0: none) and its bytes
  channel,       \* the operations on the channel
  handed,        \* <<destination, kind>> of every buffer handed over
  casts,         \* backends whose polynomials were cast to SimdBackend's
  faults         \* some file operation failed

scheme == <<setting, mode, store>>
build == <<new, todo>>
history == <<handed, casts, faults>>
vars == <<scheme, trees, pc, ret, build, turn, at, channel, history>>

Modes == setting.modes
Direct == setting.direct
Domain == setting.domain
Components == setting.components
Liberties == setting.liberties
MaxColumns == setting.maxColumns
CompositionColumns == setting.compositionColumns

Rematerializes == mode \in {"LowMemory", "UltraLow"}
SpillsCoefficients == mode # "Fast"
Checkpoints == mode \in {"LowMemory", "UltraLow"}
(* Mutant: only the flag asks for coefficients.                              *)
RetainByFlag == store
RetainCoefficients == store \/ Rematerializes

EmptyTree == Tree(TRUE, "full", <<>>)
NoCursor == [tree |-> 0, last |-> 0, column |-> 1, start |-> 0, bytes |-> 0]

Init ==
  /\ setting \in Settings
  /\ mode \in Modes /\ store \in BOOLEAN
  /\ Domain = "extend" => RetainCoefficients
  /\ trees = <<>>
  /\ pc = "setup" /\ ret = "setup"
  /\ new = EmptyTree /\ todo = 0 /\ turn = 0 /\ at = NoCursor
  /\ channel = <<>>
  /\ handed = {} /\ casts = {} /\ faults = FALSE

Owned == {i \in DOMAIN trees : trees[i].owned}
Note(failed) == faults' = (faults \/ failed) /\ (failed => setting.failures)
Hand(buffers) == handed' = handed \cup buffers

(* A failed expect, unwrap or panic! of the code.                            *)
Panic ==
  /\ pc' = "panic"
  /\ UNCHANGED <<scheme, trees, ret, build, turn, at, channel, history>>

------------------------------------------------------------------------------
(* The caller.                                                               *)

(* What the prover expects of a caller and nothing enforces.                 *)
Lawful(liberty, condition) == liberty \in Liberties \/ condition

(* set_store_polynomials_coefficients, set_memory_mode: a lawful caller has  *)
(* them called before it commits.                                            *)
SetStore ==
  /\ pc = "setup" /\ Lawful("set late", trees = <<>>)
  /\ store' = TRUE
  /\ UNCHANGED <<setting, mode, trees, pc, ret, build, turn, at, channel, history>>

SetMode(m) ==
  /\ pc = "setup" /\ Lawful("set late", trees = <<>> /\ (Domain = "extend" => store))
  /\ mode' = m
  /\ UNCHANGED <<setting, store, trees, pc, ret, build, turn, at, channel, history>>

ToSpill == {i \in Owned : InMemory(trees[i]) # {}}
SpillTrees(S) == [i \in DOMAIN trees |-> IF i \in S THEN SpillCoefficients(trees[i]) ELSE trees[i]]

(* Mutant: there is always a first column to extend.                         *)
ExtendFirst(n) == "extend"
AfterBegin(n) == IF n = 0 THEN "spillNew" ELSE "extend"

(* CommitmentSchemeProver::commit, up to the new tree: the coefficients of   *)
(* the trees before it are spilled; a tree whose file fails is left alone.   *)
BeginCommit(n, back) ==
  /\ \E S \in SUBSET ToSpill :
       /\ IF SpillsCoefficients THEN Note(S # ToSpill) ELSE S = {} /\ UNCHANGED faults
       /\ trees' = SpillTrees(S)
  /\ new' = EmptyTree /\ todo' = n
  /\ at' = [NoCursor EXCEPT !.start = 1]
  /\ ret' = back
  /\ pc' = AfterBegin(n)
  /\ UNCHANGED <<scheme, turn, channel, handed, casts>>

Commit(n) ==
  /\ pc = "setup" /\ Len(trees) < setting.maxTrees
  /\ BeginCommit(n, "setup")

(* What the caller must bring for a tree it made itself.                     *)
Legal(t) ==
  /\ RetainCoefficients => CanRecompute(t)
  /\ (Rematerializes /\ (t.owned \/ Domain = "extend")) \/ Resident(t) = Columns(t)

(* commit_tree: an owned tree is checkpointed, then its coefficients spilled.*)
CommitTree(t) ==
  /\ pc = "setup" /\ Len(trees) < setting.maxTrees
  /\ Lawful("bring any tree", Legal(t))
  /\ LET kept == IF Checkpoints /\ t.owned THEN Checkpoint(t) ELSE t
         spills == SpillsCoefficients /\ t.owned /\ InMemory(t) # {}
     IN \E failed \in BOOLEAN :
          /\ failed => spills
          /\ Note(failed)
          /\ trees' = Append(trees, IF spills /\ ~failed THEN SpillCoefficients(kept) ELSE kept)
  /\ channel' = Append(channel, "mix root")
  /\ UNCHANGED <<scheme, pc, ret, build, turn, at, handed, casts>>

------------------------------------------------------------------------------
(* CommitmentTreeProver::new_with_memory_mode.                               *)

(* Mutant: the mode is not asked whether coefficients are needed later.      *)
NewColumnByFlag == [coeffs |-> IF store THEN "heap" ELSE "none", evals |-> "heap"]
NewColumn == [coeffs |-> IF RetainCoefficients THEN "heap" ELSE "none", evals |-> "heap"]

(* evaluate_polynomials, one column: SimdBackend spills each full batch in   *)
(* the modes that rematerialize.                                             *)
ExtendColumn ==
  /\ pc = "extend"
  /\ LET grown == [new EXCEPT !.polys = Append(@, NewColumn)]
         last == Len(grown.polys)
         bytes == at.bytes + ColumnBytes[last]
         full == Backend = "simd" /\ Rematerializes /\ (bytes >= setting.spillBatch \/ todo = 1)
     IN IF full
        THEN \E S \in SUBSET (at.start .. last) :
               /\ Note(S # at.start .. last)
               /\ new' = SpillColumns(grown, at.start, S)
               /\ Hand(HandedBySpill(grown, S))
               /\ at' = [at EXCEPT !.start = last + 1, !.bytes = 0]
        ELSE /\ new' = grown
             /\ at' = [at EXCEPT !.bytes = bytes]
             /\ UNCHANGED <<handed, faults>>
  /\ todo' = todo - 1
  /\ pc' = IF todo = 1 THEN "spillNew" ELSE "extend"
  /\ UNCHANGED <<scheme, trees, ret, turn, channel, casts>>

(* spill_polys_coefficients, before the Merkle tree is built.                *)
SpillNewCoefficients ==
  /\ pc = "spillNew"
  /\ IF SpillsCoefficients /\ RetainCoefficients /\ InMemory(new) # {}
     THEN \E failed \in BOOLEAN :
            Note(failed) /\ new' = IF failed THEN new ELSE SpillCoefficients(new)
     ELSE UNCHANGED <<new, faults>>
  /\ pc' = "spillExtension"
  /\ UNCHANGED <<scheme, trees, ret, todo, turn, at, channel, handed, casts>>

(* The fallback when no guard came out of the extension: the polynomials are *)
(* cast to those of SimdBackend.                                             *)
SpillExtension ==
  /\ pc = "spillExtension"
  /\ IF Rematerializes /\ new.guards = <<>>
     THEN \E S \in SUBSET (IF Backend = "simd" THEN Columns(new) ELSE {}) :
            /\ Note(Backend = "simd" /\ S # Columns(new))
            /\ casts' = casts \cup {Backend}
            /\ new' = SpillColumns(new, 1, S)
            /\ Hand(HandedBySpill(new, S))
     ELSE UNCHANGED <<new, history>>
  /\ pc' = "merkle"
  /\ UNCHANGED <<scheme, trees, ret, todo, turn, at, channel>>

(* The Merkle tree over the evaluations, their release, and the push of the  *)
(* tree with its root mixed into the channel.                                *)
FinishTree ==
  /\ pc = "merkle"
  /\ LET built == IF Checkpoints THEN Checkpoint(new) ELSE new IN
       IF Rematerializes
       THEN /\ trees' = Append(trees, WithoutEvaluations(built))
            /\ Hand(HandedByRelease(built, "allocator"))
       ELSE trees' = Append(trees, built) /\ UNCHANGED handed
  /\ new' = EmptyTree
  /\ channel' = Append(channel, "mix root")
  /\ pc' = ret /\ at' = NoCursor
  /\ UNCHANGED <<scheme, ret, todo, turn, casts, faults>>

------------------------------------------------------------------------------
(* prove_ex: the composition polynomial.                                     *)

Prove ==
  /\ pc = "setup" /\ trees # <<>>
  /\ channel' = Append(channel, "draw composition coefficient")
  /\ pc' = IF Rematerializes THEN "releaseTrace" ELSE "compose"
  /\ UNCHANGED <<scheme, trees, ret, build, turn, at, history>>

UsedBy(k, t) == {i \in Columns(trees[t]) : <<t, i>> \in Components[k].columns}

(* get_trace_columns.                                                        *)
CanEvaluate(k) ==
  \A t \in DOMAIN trees : \A i \in UsedBy(k, t) :
    IF Domain = "sub" THEN i \in Resident(trees[t]) ELSE HasCoefficients(trees[t], i)

Compose ==
  /\ pc = "compose"
  /\ \A k \in DOMAIN Components : CanEvaluate(k)
  /\ pc' = "commitComposition"
  /\ UNCHANGED <<scheme, trees, ret, build, turn, at, channel, history>>

ComposePanics == pc = "compose" /\ (\E k \in DOMAIN Components : ~CanEvaluate(k)) /\ Panic

(* release_recomputable_evaluations, in a mode that rematerializes: owned    *)
(* trees that can be recomputed drop their evaluations.                      *)
Recomputable == {i \in Owned : CanRecompute(trees[i])}

ReleaseTrees(S, to) ==
  /\ trees' = [i \in DOMAIN trees |-> IF i \in S THEN WithoutEvaluations(trees[i]) ELSE trees[i]]
  /\ Hand(UNION {HandedByRelease(trees[i], to) : i \in S})

(* Mutant: it is left to the components to drop what they used.              *)
ReleaseTraceSkipped ==
  /\ pc = "releaseTrace"
  /\ pc' = "spillTrace"
  /\ UNCHANGED <<scheme, trees, ret, build, turn, at, channel, history>>

ReleaseTrace ==
  /\ pc = "releaseTrace"
  /\ ReleaseTrees(Recomputable, "allocator")
  /\ pc' = "spillTrace"
  /\ UNCHANGED <<scheme, ret, build, turn, at, channel, casts, faults>>

(* spill_coefficients of the scheme stops at the first tree that fails.      *)
SpillTrace ==
  /\ pc = "spillTrace"
  /\ \E n \in 0 .. Len(trees) :
       /\ Note(ToSpill \cap 1 .. n # ToSpill)
       /\ trees' = SpillTrees(ToSpill \cap 1 .. n)
  /\ pc' = "component" /\ turn' = 1
  /\ UNCHANGED <<scheme, ret, build, at, channel, handed, casts>>

CanMaterializePattern(k) == \A t \in Owned : CanMaterialize(trees[t], UsedBy(k, t))

(* materialize_access_pattern_evaluations with an access pattern ...         *)
MaterializePattern(k, next) ==
  /\ Components[k].declared /\ CanMaterializePattern(k)
  /\ trees' = [t \in DOMAIN trees |-> IF t \in Owned
                 THEN MaterializeColumns(trees[t], UsedBy(k, t)) ELSE trees[t]]
  /\ pc' = next
  /\ UNCHANGED <<scheme, ret, build, turn, at, channel, history>>

(* ... and without one: all owned trees, through the loop below.             *)
MaterializeAll(next) ==
  /\ at' = [NoCursor EXCEPT !.tree = 1, !.last = Len(trees)]
  /\ pc' = "materialize" /\ ret' = next
  /\ UNCHANGED <<scheme, trees, build, turn, channel, history>>

InComponent == pc = "component" /\ turn \in DOMAIN Components
MaterializeComponent == InComponent /\ MaterializePattern(turn, "evaluate")
MaterializeTrace == InComponent /\ ~Components[turn].declared /\ MaterializeAll("evaluate")
MaterializePatternPanics ==
  InComponent /\ Components[turn].declared /\ ~CanMaterializePattern(turn) /\ Panic

EvaluateComponent ==
  /\ pc = "evaluate" /\ CanEvaluate(turn)
  /\ pc' = "dropComponent"
  /\ UNCHANGED <<scheme, trees, ret, build, turn, at, channel, history>>

EvaluatePanics == pc = "evaluate" /\ ~CanEvaluate(turn) /\ Panic

(* drop_access_pattern_evaluations with an access pattern.                   *)
DropPattern(k) ==
  /\ trees' = [t \in DOMAIN trees |-> IF t \in Owned
                 THEN DropColumns(trees[t], UsedBy(k, t)) ELSE trees[t]]
  /\ Hand(UNION {HandedByDrop(trees[t], UsedBy(k, t)) : t \in Owned})

(* A component is done: what its turn brought back goes again.               *)
DropComponent ==
  /\ pc = "dropComponent"
  /\ IF Components[turn].declared THEN DropPattern(turn)
     ELSE ReleaseTrees(Recomputable, "allocator")
  /\ pc' = "component" /\ turn' = turn + 1
  /\ UNCHANGED <<scheme, ret, build, at, channel, casts, faults>>

(* After the last component the trace is released once more.                 *)
ReleaseComposed ==
  /\ pc = "component" /\ turn \notin DOMAIN Components
  /\ ReleaseTrees(Recomputable, "allocator")
  /\ pc' = "commitComposition"
  /\ UNCHANGED <<scheme, ret, build, turn, at, channel, casts, faults>>

CommitComposition ==
  /\ pc = "commitComposition"
  /\ BeginCommit(CompositionColumns, "oods")

------------------------------------------------------------------------------
(* materialize_evaluations_low_memory_with_budget, a column at a time.       *)

InLoop == pc = "materialize" /\ at.tree <= at.last
CursorOn(t, i) == InLoop /\ at.tree = t /\ at.column = i /\ t \in Owned /\ i \in Columns(trees[t])
NextColumn(start, bytes) ==
  at' = [at EXCEPT !.column = @ + 1, !.start = start, !.bytes = bytes]
Pending(end) == IF at.start = 0 THEN {} ELSE at.start .. end - 1

(* Mutant: the batch always ends on the heap.                                *)
FlushOnHeap(t, tree, S) ==
  /\ trees' = [trees EXCEPT ![t] = SetEvals(tree, S, "heap")]
  /\ UNCHANGED <<handed, faults>>

(* What materialize_direct_mmap_layouts may end with.  A map that is refused *)
(* is tried again in two parts, down to single columns, so the maps are runs *)
(* of the batch, left before right, and a column in none of them was refused *)
(* alone.  Where a batch is cut depends on sizes and is left open.           *)
Runs(S) == {run \in SUBSET S \ {{}} : \E a, b \in S : run = a .. b}
MapsOf(S) ==
  UNION {{maps \in [1 .. n -> Runs(S)] :
            \A j, k \in 1 .. n : j < k => \A a \in maps[j], b \in maps[k] : a < b}
         : n \in 0 .. Cardinality(S)}

(* A flush of the columns of S.  On the direct path they are made in their   *)
(* maps, and on the heap where no map could be had; on the heap path they    *)
(* were materialized before, and some of them are spilled.                   *)
Flush(t, tree, S) ==
  IF S = {} THEN trees' = [trees EXCEPT ![t] = tree] /\ UNCHANGED <<handed, faults>>
  ELSE IF Direct
  THEN \E maps \in MapsOf(S) :
         /\ Note(maps # <<S>>)
         /\ trees' = [trees EXCEPT ![t] = MapGroups(SetEvals(tree, S, "heap"), maps)]
         /\ UNCHANGED handed
  ELSE \E moved \in SUBSET S :
         /\ Note(moved # S)
         /\ trees' = [trees EXCEPT ![t] = SpillColumns(tree, at.start, moved)]
         /\ Hand(HandedBySpill(tree, moved))

(* A column that is there already ends the batch and is left alone.          *)
SkipResident(t, i) ==
  /\ CursorOn(t, i) /\ i \in Resident(trees[t])
  /\ Flush(t, trees[t], Pending(i))
  /\ NextColumn(0, 0)
  /\ UNCHANGED <<scheme, pc, ret, build, turn, channel, casts>>

(* A missing column is made on the heap; a full batch is spilled.            *)
MaterializeOnHeap(t, i) ==
  /\ CursorOn(t, i) /\ i \notin Resident(trees[t]) /\ ~Direct
  /\ HasCoefficients(trees[t], i)
  /\ LET start == IF at.start = 0 THEN i ELSE at.start
         bytes == at.bytes + ColumnBytes[i]
         made == SetEvals(trees[t], {i}, "heap")
     IN IF bytes >= Budget[mode]
        THEN /\ \E moved \in SUBSET (start .. i) :
                  /\ Note(moved # start .. i)
                  /\ trees' = [trees EXCEPT ![t] = SpillColumns(made, start, moved)]
                  /\ Hand(HandedBySpill(made, moved))
             /\ NextColumn(0, 0)
        ELSE /\ trees' = [trees EXCEPT ![t] = made]
             /\ NextColumn(start, bytes)
             /\ UNCHANGED <<handed, faults>>
  /\ UNCHANGED <<scheme, pc, ret, build, turn, channel, casts>>

(* materialize_evaluations_low_memory_direct_mmap_with_budget: the column    *)
(* joins the batch, after a flush if the batch would grow past the budget.   *)
MaterializeDirect(t, i) ==
  /\ CursorOn(t, i) /\ i \notin Resident(trees[t]) /\ Direct
  /\ HasCoefficients(trees[t], i)
  /\ IF at.start # 0 /\ at.bytes + ColumnBytes[i] > Budget[mode]
     THEN Flush(t, trees[t], Pending(i)) /\ NextColumn(i, ColumnBytes[i])
     ELSE /\ NextColumn(IF at.start = 0 THEN i ELSE at.start, at.bytes + ColumnBytes[i])
          /\ UNCHANGED <<trees, handed, faults>>
  /\ UNCHANGED <<scheme, pc, ret, build, turn, channel, casts>>

MaterializePanics(t, i) ==
  /\ CursorOn(t, i) /\ i \notin Resident(trees[t])
  /\ ~HasCoefficients(trees[t], i)
  /\ Panic

(* The end of a tree: the last batch stays on the heap, except on the direct *)
(* path.  A borrowed tree is passed over.                                    *)
NextTree ==
  /\ InLoop
  /\ IF at.tree \in Owned
     THEN /\ at.column > Len(trees[at.tree].polys)
          /\ Flush(at.tree, trees[at.tree], IF Direct THEN Pending(at.column) ELSE {})
     ELSE UNCHANGED <<trees, handed, faults>>
  /\ at' = [NoCursor EXCEPT !.tree = at.tree + 1, !.last = at.last]
  /\ UNCHANGED <<scheme, pc, ret, build, turn, channel, casts>>

LoopEnds ==
  /\ pc = "materialize" /\ at.tree > at.last
  /\ pc' = ret /\ at' = NoCursor
  /\ UNCHANGED <<scheme, trees, ret, build, turn, channel, history>>

Materialize ==
  \/ \E t \in DOMAIN trees : \E i \in Columns(trees[t]) :
       \/ SkipResident(t, i) \/ MaterializeOnHeap(t, i)
       \/ MaterializeDirect(t, i) \/ MaterializePanics(t, i)
  \/ NextTree \/ LoopEnds

------------------------------------------------------------------------------
(* prove_values.                                                             *)

Absorb(op, from, to) ==
  /\ pc = from
  /\ channel' = Append(channel, op)
  /\ pc' = to
  /\ UNCHANGED <<scheme, trees, ret, build, turn, at, history>>

DrawOods == Absorb("draw OODS point", "oods", "values")

AllColumns == UNION {{<<t, i>> : i \in Columns(trees[t])} : t \in DOMAIN trees}

(* The barycentric weights exist only when coefficients are not retained.    *)
HasValues(t, i) == CanEvaluateAtPoints(trees[t], i, ~RetainCoefficients)

(* Mutant: the sampled values are not absorbed.                              *)
SampleValuesSilent ==
  /\ pc = "values"
  /\ pc' = "quotients"
  /\ UNCHANGED <<scheme, trees, ret, build, turn, at, channel, history>>

SampleValues ==
  /\ \A x \in AllColumns : HasValues(x[1], x[2])
  /\ Absorb("mix sampled values", "values", "quotients")

SampleValuesPanics == pc = "values" /\ (\E x \in AllColumns : ~HasValues(x[1], x[2])) /\ Panic

(* compute_fri_quotients_from_polys makes what is missing, a few columns at  *)
(* a time, and keeps none of it; compute_fri_quotients needs all there.      *)
HasQuotient(t, i) ==
  IF Rematerializes THEN CanSample(trees[t], i) ELSE i \in Resident(trees[t])

Quotients ==
  /\ \A x \in AllColumns : HasQuotient(x[1], x[2])
  /\ Absorb("draw quotient coefficient", "quotients",
            IF Rematerializes THEN "releaseOpened" ELSE "fri")

QuotientsPanic == pc = "quotients" /\ (\E x \in AllColumns : ~HasQuotient(x[1], x[2])) /\ Panic

ReleaseOpened ==
  /\ pc = "releaseOpened"
  /\ ReleaseTrees(Recomputable, "pool")
  /\ pc' = "fri"
  /\ UNCHANGED <<scheme, ret, build, turn, at, channel, casts, faults>>

FriCommit == Absorb("FRI commit", "fri", "grind")
Grind == Absorb("mix nonce", "grind", "queries")

DrawQueries ==
  /\ pc = "queries"
  /\ channel' = Append(channel, "draw queries")
  /\ pc' = "decommit" /\ turn' = 1
  /\ UNCHANGED <<scheme, trees, ret, build, at, history>>

(* The decommitment of one tree: materialized first if it can be.            *)
Recomputes(t) == Rematerializes /\ t \in Recomputable

Decommit ==
  /\ pc = "decommit" /\ turn \in DOMAIN trees
  /\ IF Recomputes(turn)
     THEN /\ at' = [NoCursor EXCEPT !.tree = turn, !.last = turn]
          /\ pc' = "materialize" /\ ret' = "open"
     ELSE pc' = "open" /\ UNCHANGED <<at, ret>>
  /\ UNCHANGED <<scheme, trees, build, turn, channel, history>>

(* tree.decommit, then drop_evaluations.                                     *)
Open ==
  /\ pc = "open"
  /\ IF \A i \in Columns(trees[turn]) : CanSample(trees[turn], i)
     THEN /\ ReleaseTrees({turn} \cap {t \in Owned : Recomputes(t)}, "allocator")
          /\ pc' = "decommit" /\ turn' = turn + 1
          /\ UNCHANGED <<scheme, ret, build, at, channel, casts, faults>>
     ELSE Panic

(* Mutant: trees that cannot be recomputed keep their evaluations.           *)
FinishRecomputable ==
  /\ pc = "decommit" /\ turn \notin DOMAIN trees
  /\ ReleaseTrees(Recomputable, IF Rematerializes THEN "allocator" ELSE "pool")
  /\ pc' = "done"
  /\ UNCHANGED <<scheme, ret, build, turn, at, channel, casts, faults>>

(* The final release, of every owned tree.                                   *)
Finish ==
  /\ pc = "decommit" /\ turn \notin DOMAIN trees
  /\ ReleaseTrees(Owned, IF Rematerializes THEN "allocator" ELSE "pool")
  /\ pc' = "done"
  /\ UNCHANGED <<scheme, ret, build, turn, at, channel, casts, faults>>

Stopped == pc \in {"done", "panic"} /\ UNCHANGED vars

------------------------------------------------------------------------------
(* The public calls of the scheme that a caller may make between commits.    *)

Between == pc = "setup" /\ trees # <<>> /\ Lawful("call any", Rematerializes)

CallMaterialize(k) == Between /\ MaterializePattern(k, "setup")
CallMaterializeAll == Between /\ MaterializeAll("setup")

CallDrop(k) ==
  /\ Between /\ Components[k].declared
  /\ Lawful("call any", \A t \in Owned : UsedBy(k, t) \cap MappedColumns(trees[t]) = {})
  /\ DropPattern(k)
  /\ UNCHANGED <<scheme, pc, ret, build, turn, at, channel, casts, faults>>

CallRelease ==
  /\ Between
  /\ ReleaseTrees(Recomputable, IF Rematerializes THEN "allocator" ELSE "pool")
  /\ UNCHANGED <<scheme, pc, ret, build, turn, at, channel, casts, faults>>

CallSpill ==
  /\ Between /\ ToSpill # {}
  /\ \E n \in 0 .. Len(trees) :
       Note(ToSpill \cap 1 .. n # ToSpill) /\ trees' = SpillTrees(ToSpill \cap 1 .. n)
  /\ UNCHANGED <<scheme, pc, ret, build, turn, at, channel, handed, casts>>

Calls ==
  \/ \E k \in DOMAIN Components : CallMaterialize(k) \/ CallDrop(k)
  \/ CallMaterializeAll \/ CallRelease \/ CallSpill

Setup ==
  \/ SetStore \/ \E m \in Modes : SetMode(m)
  \/ \E n \in 0 .. MaxColumns : Commit(n)
  \/ \E t \in setting.given : CommitTree(t)
  \/ Calls \/ Prove

NewTree == ExtendColumn \/ SpillNewCoefficients \/ SpillExtension \/ FinishTree

Composition ==
  \/ Compose \/ ComposePanics \/ ReleaseTrace \/ SpillTrace
  \/ MaterializeComponent \/ MaterializeTrace \/ MaterializePatternPanics
  \/ EvaluateComponent \/ EvaluatePanics \/ DropComponent
  \/ ReleaseComposed \/ CommitComposition

Opening ==
  \/ DrawOods \/ SampleValues \/ SampleValuesPanics \/ Quotients \/ QuotientsPanic
  \/ ReleaseOpened \/ FriCommit \/ Grind \/ DrawQueries
  \/ Decommit \/ Open \/ Finish

Next == Setup \/ NewTree \/ Composition \/ Materialize \/ Opening \/ Stopped

Spec == Init /\ [][Next]_vars

(* The prover is called and runs: nothing but itself can hold it up.         *)
FairSpec == Spec /\ WF_vars(NewTree) /\ WF_vars(Composition) /\ WF_vars(Materialize) /\ WF_vars(Opening)

------------------------------------------------------------------------------
(* The state has its shape, and the cursor stays in the trees it walks.      *)
TypeOK ==
  /\ setting \in Settings /\ mode \in Modes /\ store \in BOOLEAN
  /\ \A t \in DOMAIN trees : IsTree(trees[t])
  /\ IsTree(new) /\ todo \in 0 .. (MaxColumns + CompositionColumns)
  /\ turn \in 0 .. (Len(trees) + Len(Components) + 1)
  /\ at.tree \in 0 .. (Len(trees) + 1)

(* Every buffer ends where it belongs: heap buffers in the pool or with the  *)
(* allocator, columns in a map forgotten and never freed, none leaked.       *)
BuffersGoHome ==
  handed \subseteq {<<"pool", "heap">>, <<"allocator", "heap">>, <<"forgotten", "map">>}

(* The columns in maps are those the live guards back, and those they will   *)
(* forget: no dangling column, and no stale index that would leak or free    *)
(* what came back to the heap.                                               *)
GuardsMatchColumns == \A t \in DOMAIN trees : GuardsMatch(trees[t])

LawfulCaller == Liberties = {}

(* Both, for a lawful caller: the memory a column points into outlives it.   *)
MappedMemoryIsSound == LawfulCaller => BuffersGoHome /\ GuardsMatchColumns

(* A lawful caller never meets a missing buffer, whatever fails.             *)
NoPanic == LawfulCaller => pc # "panic"

(* Until the last release, every column of a lawful caller's trees has       *)
(* coefficients or evaluations: no release, spill or drop of a phase, in any *)
(* mode, takes what a later phase cannot make again.                         *)
NoColumnIsLost ==
  LawfulCaller /\ pc # "done" =>
    \A t \in DOMAIN trees : \A i \in Columns(trees[t]) :
      HasCoefficients(trees[t], i) \/ Evals(trees[t], i) # "none"

(* Where memory peaks, the trace is gone: while the composition is committed *)
(* and FRI folds, no owned tree has evaluations, and a component finds only  *)
(* its own columns there.                                                    *)
PeakIsLow ==
  LawfulCaller /\ Rematerializes => \A t \in Owned :
    /\ pc \in {"commitComposition", "fri", "grind", "queries", "done"} => Resident(trees[t]) = {}
    /\ pc = "extend" /\ ret = "oods" => Resident(trees[t]) = {}
    /\ pc = "evaluate" /\ Components[turn].declared
         => Resident(trees[t]) \subseteq UsedBy(turn, t)
    /\ pc = "open" /\ t # turn => Resident(trees[t]) = {}

HeapBytes(t) ==
  LET upTo[i \in 0 .. Len(t.polys)] ==
        IF i = 0 THEN 0
        ELSE upTo[i - 1] + (IF Evals(t, i) = "heap" THEN ColumnBytes[i] ELSE 0)
  IN upTo[Len(t.polys)]

(* Unless a spill failed, a tree that is brought back for its opening keeps  *)
(* less than the budget on the heap; on the direct path, nothing.  This is   *)
(* what the batches keep; the comment at the call (pcs/mod.rs:764) says one  *)
(* column at a time, which holds only if each reaches the budget alone.      *)
HeapWithinBudget ==
  (LawfulCaller /\ Rematerializes /\ ~faults /\ pc \in {"materialize", "open"} /\ ret = "open") =>
    \A t \in Owned : IF Direct THEN HeapBytes(trees[t]) = 0 ELSE HeapBytes(trees[t]) < Budget[mode]

(* The polynomials are cast to those of SimdBackend only when they are.      *)
CastsAreSound == casts \subseteq {"simd"}

(* Coefficients move from the heap to a file and nowhere else: no step takes *)
(* them from a column that has them, or gives them to one that has none.     *)
CoefficientsKept ==
  [][\A t \in DOMAIN trees : \A i \in Columns(trees[t]) :
       /\ HasCoefficients(trees[t], i) = HasCoefficients(trees'[t], i)
       /\ Coeffs(trees[t], i) = "file" => Coeffs(trees'[t], i) = "file"]_vars

(* A proof that was started ends, with nothing left in maps or on the heap   *)
(* by the trees the scheme owns.                                             *)
ProofEnds ==
  LawfulCaller /\ pc \in {"releaseTrace", "compose"} ~>
    pc = "done" /\ \A t \in Owned : Resident(trees[t]) = {} /\ trees[t].guards = <<>>

(* In every mode the channel sees the one order of ProvingProtocol.          *)
Protocol == INSTANCE ProvingProtocol WITH answered <- pc = "done"
ImplementsProtocol == Protocol!Spec
==============================================================================
