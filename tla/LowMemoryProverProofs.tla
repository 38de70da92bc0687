----------------------- MODULE LowMemoryProverProofs -------------------------
(* The prover's invariants and its refinement of the protocol, for settings  *)
(* of any size.  IInv says where the control stands (ControlOK), where the   *)
(* materialization loop stands (CursorOK), what the trees look like          *)
(* (ShapeOK), and what a lawful caller finds (LawfulOK): which columns have  *)
(* evaluations at each point, and that what is read is there.  Each action   *)
(* has a lemma that it keeps IInv and, whoever calls, keeps the trees.       *)
(* HeapInv adds that no tree is wider than ColumnBytes, and that the loop    *)
(* counts what it has on the heap of the tree it brings back.                *)
EXTENDS LowMemoryProver, CommitmentTreeProofs, WellFoundedInduction

(* A tree is being built; steps that only the low-memory modes take; stages  *)
(* at which no owned tree has evaluations in those modes.                    *)
Building == pc \in {"extend", "spillNew", "spillExtension", "merkle"}
LowOnly ==
  \/ pc \in {"releaseTrace", "spillTrace", "component", "evaluate", "dropComponent", "releaseOpened"}
  \/ pc = "materialize" /\ ret \in {"evaluate", "open"}
Emptied ==
  \/ pc \in {"spillTrace", "component", "commitComposition", "oods", "values", "quotients", "fri",
             "releaseOpened", "grind", "queries", "decommit", "done"}
  \/ Building /\ ret = "oods"

(* Where the control stands.                                                 *)
ControlOK ==
  /\ pc \in {"setup", "extend", "spillNew", "spillExtension", "merkle", "compose", "releaseTrace",
             "spillTrace", "component", "evaluate", "dropComponent", "materialize",
             "commitComposition", "oods", "values", "quotients", "releaseOpened", "fri", "grind",
             "queries", "decommit", "open", "done", "panic"}
  /\ Building => ret \in {"setup", "oods"}
  /\ new.owned /\ (Building \/ new = EmptyTree)
  /\ pc = "extend" => todo > 0 /\ at.start \in 1 .. Len(new.polys) + 1
  /\ pc = "materialize" => ret \in {"setup", "evaluate", "open"}
  /\ pc \in {"evaluate", "dropComponent"} \/ (pc = "materialize" /\ ret = "evaluate")
       => turn \in DOMAIN Components
  /\ pc = "materialize" /\ ret = "evaluate" => ~Components[turn].declared
  /\ pc = "component" => turn \in 1 .. Len(Components) + 1
  /\ pc = "decommit" => turn \in 1 .. Len(trees) + 1
  /\ pc = "open" \/ (pc = "materialize" /\ ret = "open") => turn \in DOMAIN trees
  /\ LowOnly => Rematerializes
  /\ pc = "compose" => ~Rematerializes

(* Where the loop over the columns stands: a batch is open from at.start.    *)
CursorOK ==
  /\ at = [tree |-> at.tree, last |-> at.last, column |-> at.column, start |-> at.start,
           bytes |-> at.bytes]
  /\ {at.tree, at.last, at.column, at.start} \subseteq Nat
  /\ pc = "materialize" =>
       /\ at.tree \in 1 .. at.last + 1 /\ at.last <= Len(trees)
       /\ at.column > 0 /\ at.start < at.column
       /\ at.tree \in DOMAIN trees => at.column <= Len(trees[at.tree].polys) + 1
       /\ ret = "open" => at.last = turn /\ at.tree >= turn
       /\ ret = "evaluate" => at.last = Len(trees)

(* What the trees look like, with the numbers that point into them.          *)
ShapeOK ==
  /\ setting \in Settings /\ mode \in Modes /\ store \in BOOLEAN
  /\ trees \in Seq(TreeRecord) /\ \A t \in DOMAIN trees : IsTree(trees[t])
  /\ IsTree(new) /\ todo \in 0 .. (MaxColumns + CompositionColumns)
  /\ turn \in 0 .. (Len(trees) + Len(Components) + 1)
  /\ at.tree \in 0 .. (Len(trees) + 1)

(* What a lawful caller's choices keep.                                      *)
CoefficientsOK ==
  /\ Domain = "extend" => RetainCoefficients
  /\ RetainCoefficients => \A t \in DOMAIN trees : CanRecompute(trees[t])
  /\ RetainCoefficients => CanRecompute(new)

(* Evaluations stay where nothing is to be recomputed.                       *)
ResidentOK ==
  /\ AllResident(new)
  /\ ~Rematerializes /\ pc # "done" => \A t \in DOMAIN trees : AllResident(trees[t])
  /\ Domain = "sub" => \A t \in DOMAIN trees \ Owned : AllResident(trees[t])

(* An open batch is what the next flush takes: columns on the heap, or none  *)
(* yet where they are evaluated straight into their map.                     *)
BatchOK ==
  /\ pc = "extend" => \A i \in at.start .. Len(new.polys) : Evals(new, i) = "heap"
  /\ pc = "materialize" =>
       /\ Rematerializes
       /\ at.tree \in Owned => \A i \in Pending(at.column) :
            Evals(trees[at.tree], i) = IF Direct THEN "none" ELSE "heap"
       /\ ret = "evaluate" => \A t \in Owned :
            /\ t < at.tree => AllResident(trees[t])
            /\ t = at.tree => \A i \in Columns(trees[t]) :
                 i < at.column => i \in Resident(trees[t]) \cup Pending(at.column)

(* Which columns have evaluations, stage by stage.                           *)
PeakOK ==
  Rematerializes => \A t \in Owned :
    /\ Emptied => Resident(trees[t]) = {}
    /\ (pc = "open" \/ (pc = "materialize" /\ ret = "open")) /\ t # turn => Resident(trees[t]) = {}
    /\ pc \in {"evaluate", "dropComponent"} /\ Components[turn].declared =>
         Resident(trees[t]) = UsedBy(turn, t) /\ MappedColumns(trees[t]) = {}
    /\ pc = "evaluate" /\ ~Components[turn].declared => AllResident(trees[t])

(* None of this is promised to a caller that breaks the rules, and the trees *)
(* keep their shape all the same.                                            *)
LawfulOK ==
  LawfulCaller =>
    /\ pc # "panic"
    /\ BuffersGoHome /\ GuardsMatchColumns /\ GuardsMatch(new)
    /\ CoefficientsOK /\ ResidentOK /\ BatchOK /\ PeakOK

IInv == ControlOK /\ CursorOK /\ ShapeOK /\ LawfulOK

------------------------------------------------------------------------------
SchemeVars == <<setting, mode, store>>

(* What no step may do to a tree, whoever calls.                             *)
TreesKept ==
  /\ DOMAIN trees \subseteq DOMAIN trees'
  /\ \A t \in DOMAIN trees :
       Related(trees[t], trees'[t]) /\ (trees[t].owned \/ trees'[t] = trees[t])

(* What the assumption on the settings says of the one in use.               *)
LEMMA SettingFacts ==
  ASSUME setting \in Settings
  PROVE  /\ Components \in Seq([declared : BOOLEAN, columns : SUBSET (Nat \X Nat)])
         /\ Len(Components) \in Nat /\ DOMAIN Components = 1 .. Len(Components)
         /\ MaxColumns \in Nat /\ CompositionColumns \in Nat
         /\ Domain \in {"sub", "extend"} /\ Direct \in BOOLEAN
         /\ \A t \in setting.given : IsTree(t) /\ GuardsMatch(t)
BY ProverConstants DEF Components, MaxColumns, CompositionColumns, Domain, Direct

(* The trees have the shape IsTree, those of the scheme and the new one.     *)
LEMMA TreeFacts ==
  ASSUME ShapeOK
  PROVE  /\ Len(trees) \in Nat /\ DOMAIN trees = 1 .. Len(trees)
         /\ \A t \in DOMAIN trees : trees[t] \in TreeRecord /\ IsTree(trees[t])
         /\ Owned \subseteq DOMAIN trees
         /\ new \in TreeRecord /\ IsTree(new)
BY DEF ShapeOK, Owned, IsTree

(* A tree is related to itself.                                              *)
LEMMA SelfRelated ==
  ASSUME NEW t \in TreeRecord PROVE Related(t, t)
BY DEF Related

(* A step that changes no tree keeps the trees.                              *)
LEMMA SameTreesKept == ASSUME ShapeOK, trees' = trees PROVE TreesKept
BY TreeFacts, SelfRelated DEF TreesKept

(* Without trees there is nothing to show of each.                           *)
LEMMA NoTrees == ASSUME ShapeOK, trees = <<>> PROVE DOMAIN trees = {}
BY TreeFacts

(* The tree a commit starts from satisfies all that is asked of a tree.      *)
LEMMA EmptyTreeFacts ==
  /\ EmptyTree \in TreeRecord /\ IsTree(EmptyTree) /\ GuardsMatch(EmptyTree)
  /\ AllResident(EmptyTree) /\ CanRecompute(EmptyTree)
  /\ Len(EmptyTree.polys) = 0 /\ Columns(EmptyTree) = {} /\ EmptyTree.owned
<1>1. EmptyTree = [owned |-> TRUE, merkle |-> "full", polys |-> <<>>, guards |-> <<>>]
  BY DEF EmptyTree, Tree
<1>2. <<>> \in Seq(Poly) /\ <<>> \in Seq(Guard)
  OBVIOUS
<1>3. EmptyTree \in TreeRecord /\ EmptyTree.owned /\ EmptyTree.polys = <<>> /\ EmptyTree.guards = <<>>
  BY <1>1, <1>2 DEF TreeRecord
<1>4. Columns(EmptyTree) = {} /\ Len(EmptyTree.polys) = 0
  BY <1>3 DEF Columns
<1>5. Noted(EmptyTree) = {} /\ Backed(EmptyTree) = {}
  BY <1>3 DEF Noted, Backed
<1>. QED
  BY <1>3, <1>4, <1>5 DEF IsTree, GuardsMatch, AllResident, CanRecompute, MappedColumns, Resident

(* The cursor outside the materialization loop.                              *)
LEMMA NoCursorFacts ==
  /\ NoCursor = [tree |-> NoCursor.tree, last |-> NoCursor.last, column |-> NoCursor.column,
                 start |-> NoCursor.start, bytes |-> NoCursor.bytes]
  /\ NoCursor.tree = 0 /\ NoCursor.last = 0 /\ NoCursor.column = 1 /\ NoCursor.start = 0
BY DEF NoCursor

(* A step that replaces trees one by one, and no borrowed one.               *)
UpdatesTrees ==
  /\ trees' = [t \in DOMAIN trees |-> trees'[t]]
  /\ \A t \in DOMAIN trees : Related(trees[t], trees'[t]) /\ IsTree(trees'[t])
  /\ \A t \in DOMAIN trees \ Owned : trees'[t] = trees[t]

(* A step that updates trees in place keeps their number, columns and        *)
(* coefficients.                                                             *)
LEMMA UpdateFacts ==
  ASSUME ShapeOK, UpdatesTrees, UNCHANGED <<setting, mode, store>>
  PROVE  /\ trees' \in Seq(TreeRecord) /\ Len(trees') = Len(trees) /\ DOMAIN trees' = DOMAIN trees
         /\ TreesKept /\ Owned' = Owned
         /\ \A t \in DOMAIN trees : Columns(trees'[t]) = Columns(trees[t])
         /\ \A t \in DOMAIN trees : CanRecompute(trees'[t]) = CanRecompute(trees[t])
         /\ \A k : \A t \in DOMAIN trees : UsedBy(k, t)' = UsedBy(k, t)
         /\ Components' = Components /\ Domain' = Domain /\ Direct' = Direct
         /\ Modes' = Modes /\ MaxColumns' = MaxColumns /\ Liberties' = Liberties
         /\ CompositionColumns' = CompositionColumns /\ Rematerializes' = Rematerializes
         /\ RetainCoefficients' = RetainCoefficients
<1> USE DEF UpdatesTrees
<1>1. /\ DOMAIN trees = 1 .. Len(trees) /\ Len(trees) \in Nat
      /\ \A t \in DOMAIN trees : trees[t] \in TreeRecord
  BY TreeFacts
<1>2. \A t \in DOMAIN trees : trees'[t] \in TreeRecord
  BY DEF Related
<1>3. trees' \in [1 .. Len(trees) -> TreeRecord]
  BY <1>1, <1>2
<1>4. trees' \in Seq(TreeRecord) /\ Len(trees') = Len(trees) /\ DOMAIN trees' = DOMAIN trees
  BY <1>1, <1>3
<1>5. TreesKept
  BY <1>4 DEF TreesKept, Owned
<1>6. Owned' = Owned
  BY <1>4 DEF Owned, Related
<1>7. /\ \A t \in DOMAIN trees : Columns(trees'[t]) = Columns(trees[t])
      /\ \A t \in DOMAIN trees : CanRecompute(trees'[t]) = CanRecompute(trees[t])
  BY DEF Related
<1>8. /\ Components' = Components /\ Domain' = Domain /\ Direct' = Direct
      /\ Modes' = Modes /\ MaxColumns' = MaxColumns /\ Liberties' = Liberties
      /\ CompositionColumns' = CompositionColumns /\ Rematerializes' = Rematerializes
      /\ RetainCoefficients' = RetainCoefficients
  BY DEF Components, Domain, Direct, Modes, MaxColumns, Liberties, CompositionColumns,
     Rematerializes, RetainCoefficients
<1>9. \A k : \A t \in DOMAIN trees : UsedBy(k, t)' = UsedBy(k, t)
  BY <1>7, <1>8 DEF UsedBy
<1>. QED
  BY <1>4, <1>5, <1>6, <1>7, <1>8, <1>9

(* What is left to show of such a step.                                      *)
LEMMA TreesStep ==
  ASSUME IInv, UpdatesTrees, UNCHANGED <<setting, mode, store>>,
         IsTree(new'), todo' \in 0 .. (MaxColumns + CompositionColumns),
         turn' \in 0 .. (Len(trees) + Len(Components) + 1), at'.tree \in 0 .. (Len(trees) + 1),
         ControlOK', CursorOK',
         LawfulCaller =>
           /\ pc' # "panic" /\ BuffersGoHome'
           /\ \A t \in DOMAIN trees : GuardsMatch(trees'[t])
           /\ ~Rematerializes /\ pc' # "done" => \A t \in DOMAIN trees : AllResident(trees'[t])
           /\ GuardsMatch(new') /\ AllResident(new') /\ (RetainCoefficients => CanRecompute(new'))
           /\ BatchOK' /\ PeakOK'
  PROVE  IInv' /\ TreesKept
<1>1. ShapeOK /\ LawfulOK
  BY DEF IInv
<1> USE UpdateFacts
<1>2. ShapeOK'
  <2>1. \A t \in DOMAIN trees' : IsTree(trees'[t])
    BY <1>1 DEF UpdatesTrees
  <2>. QED
    BY <1>1, <2>1 DEF ShapeOK
<1>3. ASSUME LawfulCaller PROVE CoefficientsOK' /\ ResidentOK'
  <2>1. CoefficientsOK /\ ResidentOK
    BY <1>1, <1>3 DEF LawfulOK
  <2>2. CoefficientsOK'
    BY <1>1, <1>3, <2>1 DEF CoefficientsOK
  <2>3. \A t \in DOMAIN trees \ Owned : trees'[t] = trees[t]
    BY DEF UpdatesTrees
  <2>4. ResidentOK'
    BY <1>1, <1>3, <2>1, <2>3 DEF ResidentOK
  <2>. QED
    BY <2>2, <2>4
<1>4. LawfulOK'
  <2>1. SUFFICES ASSUME LawfulCaller PROVE LawfulOK'
    BY <1>1 DEF LawfulOK, LawfulCaller
  <2>2. GuardsMatchColumns' /\ GuardsMatch(new)'
    BY <1>1, <2>1 DEF GuardsMatchColumns, LawfulOK
  <2>. QED
    BY <1>3, <2>1, <2>2 DEF LawfulOK
<1>. QED
  BY <1>1, <1>2, <1>4 DEF IInv

(* The same, when it leaves the new tree alone.                              *)
LEMMA UpdateStep ==
  ASSUME IInv, UpdatesTrees, UNCHANGED <<setting, mode, store, new, todo>>,
         turn' \in 0 .. (Len(trees) + Len(Components) + 1), at'.tree \in 0 .. (Len(trees) + 1),
         ControlOK', CursorOK',
         LawfulCaller =>
           /\ pc' # "panic" /\ BuffersGoHome'
           /\ \A t \in DOMAIN trees : GuardsMatch(trees'[t])
           /\ ~Rematerializes /\ pc' # "done" => \A t \in DOMAIN trees : AllResident(trees'[t])
           /\ BatchOK' /\ PeakOK'
  PROVE  IInv' /\ TreesKept
<1>1. IsTree(new') /\ todo' \in 0 .. (MaxColumns + CompositionColumns)
  BY DEF IInv, ShapeOK
<1>2. LawfulCaller =>
        GuardsMatch(new') /\ AllResident(new') /\ (RetainCoefficients => CanRecompute(new'))
  BY DEF IInv, LawfulOK, ResidentOK, CoefficientsOK
<1>. QED
  BY <1>1, <1>2, TreesStep

(* What is left to show of a step that adds a tree.                          *)
LEMMA AppendStep ==
  ASSUME IInv, NEW u, IsTree(u), trees' = Append(trees, u), UNCHANGED <<setting, mode, store, todo>>,
         new' = EmptyTree, pc # "done",
         turn' \in 0 .. (Len(trees) + Len(Components) + 1), at'.tree \in 0 .. (Len(trees) + 1),
         ControlOK', CursorOK',
         LawfulCaller =>
           /\ pc' # "panic" /\ BuffersGoHome' /\ GuardsMatch(u)
           /\ RetainCoefficients => CanRecompute(u)
           /\ ~Rematerializes => AllResident(u)
           /\ Domain = "sub" /\ ~u.owned => AllResident(u)
           /\ BatchOK' /\ PeakOK'
  PROVE  IInv' /\ TreesKept
<1>1. ShapeOK /\ LawfulOK
  BY DEF IInv
<1>2. /\ trees \in Seq(TreeRecord) /\ u \in TreeRecord
      /\ Len(trees) \in Nat /\ DOMAIN trees = 1 .. Len(trees)
      /\ \A t \in DOMAIN trees : trees[t] \in TreeRecord /\ IsTree(trees[t])
  BY <1>1, TreeFacts DEF ShapeOK, IsTree
<1>3. /\ trees' \in Seq(TreeRecord) /\ Len(trees') = Len(trees) + 1
      /\ DOMAIN trees' = DOMAIN trees \cup {Len(trees) + 1}
      /\ \A t \in DOMAIN trees : trees'[t] = trees[t]
      /\ trees'[Len(trees) + 1] = u
  BY <1>2
<1>4. TreesKept
  BY <1>2, <1>3, SelfRelated DEF TreesKept
<1>5. /\ Components' = Components /\ Domain' = Domain
      /\ Modes' = Modes /\ MaxColumns' = MaxColumns /\ Liberties' = Liberties
      /\ CompositionColumns' = CompositionColumns /\ Rematerializes' = Rematerializes
      /\ RetainCoefficients' = RetainCoefficients
  BY DEF Components, Domain, Modes, MaxColumns, Liberties, CompositionColumns,
     Rematerializes, RetainCoefficients
<1>6. ShapeOK'
  <2>1. \A t \in DOMAIN trees' : IsTree(trees'[t])
    BY <1>2, <1>3
  <2>2. IsTree(new')
    BY EmptyTreeFacts
  <2>3. Len(Components) \in Nat
    BY <1>1, SettingFacts DEF ShapeOK
  <2>4. /\ turn' \in 0 .. (Len(trees') + Len(Components') + 1)
        /\ at'.tree \in 0 .. (Len(trees') + 1)
    BY <1>2, <1>3, <1>5, <2>3
  <2>. QED
    BY <1>1, <1>3, <1>5, <2>1, <2>2, <2>4 DEF ShapeOK
<1>7. ASSUME LawfulCaller PROVE CoefficientsOK' /\ ResidentOK' /\ GuardsMatchColumns'
  <2>1. CoefficientsOK /\ ResidentOK /\ GuardsMatchColumns
    BY <1>1, <1>7 DEF LawfulOK
  <2>2. CoefficientsOK'
    BY <1>3, <1>5, <1>7, <2>1, EmptyTreeFacts DEF CoefficientsOK
  <2>3. \A t \in DOMAIN trees' \ Owned' :
          t \in DOMAIN trees \ Owned \/ (t = Len(trees) + 1 /\ ~u.owned)
    BY <1>3 DEF Owned
  <2>4. ResidentOK'
    BY <1>3, <1>5, <1>7, <2>1, <2>3, EmptyTreeFacts DEF ResidentOK
  <2>5. GuardsMatchColumns'
    BY <1>3, <1>7, <2>1 DEF GuardsMatchColumns
  <2>. QED
    BY <2>2, <2>4, <2>5
<1>8. LawfulOK'
  <2>1. SUFFICES ASSUME LawfulCaller PROVE LawfulOK'
    BY <1>5 DEF LawfulOK, LawfulCaller
  <2>. QED
    BY <1>7, <2>1, EmptyTreeFacts DEF LawfulOK
<1>. QED
  BY <1>4, <1>6, <1>8 DEF IInv

(* To change no tree is such an update.                                      *)
LEMMA SameTreesUpdate == ASSUME ShapeOK, trees' = trees PROVE UpdatesTrees
BY TreeFacts, SelfRelated DEF UpdatesTrees, ShapeOK

(* A step that changes no tree and hands nothing over.                       *)
LEMMA QuietStep ==
  ASSUME IInv, UNCHANGED <<setting, mode, store, trees, new, todo, handed>>,
         turn' \in 0 .. (Len(trees) + Len(Components) + 1), at'.tree \in 0 .. (Len(trees) + 1),
         ControlOK', CursorOK', pc # "done",
         LawfulCaller => pc' # "panic" /\ BatchOK' /\ PeakOK'
  PROVE  IInv' /\ TreesKept
<1>1. ShapeOK /\ LawfulOK
  BY DEF IInv
<1>2. UpdatesTrees
  BY <1>1, SameTreesUpdate
<1>3. ASSUME LawfulCaller
      PROVE  /\ BuffersGoHome' /\ \A t \in DOMAIN trees : GuardsMatch(trees'[t])
             /\ ~Rematerializes => \A t \in DOMAIN trees : AllResident(trees'[t])
  BY <1>1, <1>3 DEF LawfulOK, BuffersGoHome, GuardsMatchColumns, ResidentOK
<1>. QED
  BY <1>2, <1>3, UpdateStep

------------------------------------------------------------------------------
(* A scheme without trees satisfies the invariant.                           *)
LEMMA InitIInv == Init => IInv
<1> SUFFICES ASSUME Init PROVE IInv
  OBVIOUS
<1> USE DEF Init
<1>1. ControlOK
  BY EmptyTreeFacts DEF ControlOK, Building, LowOnly
<1>2. CursorOK
  BY NoCursorFacts DEF CursorOK
<1>3. ShapeOK
  BY SettingFacts, EmptyTreeFacts, NoCursorFacts DEF ShapeOK
<1>4. DOMAIN trees = {} /\ Owned = {}
  BY DEF Owned
<1>5. CoefficientsOK /\ ResidentOK
  BY <1>4, EmptyTreeFacts DEF CoefficientsOK, ResidentOK
<1>6. BatchOK /\ PeakOK
  BY <1>4 DEF BatchOK, PeakOK
<1>7. BuffersGoHome /\ GuardsMatchColumns /\ GuardsMatch(new) /\ pc # "panic"
  BY <1>4, EmptyTreeFacts DEF BuffersGoHome, GuardsMatchColumns
<1>. QED
  BY <1>1, <1>2, <1>3, <1>5, <1>6, <1>7 DEF IInv, LawfulOK

(* The caller sets its flags.                                                *)
LEMMA SetFlagsStep ==
  ASSUME IInv, SetStore \/ \E m \in Modes : SetMode(m)
  PROVE  IInv' /\ TreesKept
<1>1. /\ UNCHANGED <<setting, trees, pc, ret, new, todo, turn, at, channel, handed, casts, faults>>
      /\ pc = "setup" /\ mode' \in Modes
      /\ (store' = TRUE /\ mode' = mode) \/ store' = store
      /\ LawfulCaller => trees = <<>>
      /\ LawfulCaller /\ Domain = "extend" => store'
  BY DEF SetStore, SetMode, build, history, Lawful, LawfulCaller, IInv, ShapeOK
<1>2. ControlOK' /\ CursorOK'
  BY <1>1 DEF IInv, ControlOK, CursorOK, Building, LowOnly
<1>3. ShapeOK'
  BY <1>1 DEF IInv, ShapeOK, Modes, MaxColumns, CompositionColumns, Components
<1>4. LawfulOK'
  <2>1. SUFFICES ASSUME LawfulCaller PROVE LawfulOK'
    BY <1>1 DEF LawfulOK, LawfulCaller, Liberties
  <2>2. DOMAIN trees = {} /\ Owned = {} /\ Owned' = {}
    BY <1>1, <2>1, NoTrees DEF IInv, Owned
  <2>3. new = EmptyTree /\ DOMAIN trees' = {} /\ new' = EmptyTree
    BY <1>1, <2>2 DEF IInv, ControlOK, Building
  <2>4. CoefficientsOK'
    BY <1>1, <2>1, <2>2, <2>3, EmptyTreeFacts DEF CoefficientsOK, RetainCoefficients, Domain
  <2>5. ResidentOK' /\ GuardsMatch(new)'
    BY <2>3, EmptyTreeFacts DEF ResidentOK
  <2>6. BatchOK' /\ PeakOK'
    BY <1>1, <2>2 DEF BatchOK, PeakOK
  <2>7. BuffersGoHome' /\ GuardsMatchColumns' /\ pc' # "panic"
    BY <1>1, <2>1, <2>3 DEF IInv, LawfulOK, BuffersGoHome, GuardsMatchColumns
  <2>. QED
    BY <2>4, <2>5, <2>6, <2>7 DEF LawfulOK
<1>. QED
  BY <1>1, <1>2, <1>3, <1>4, SameTreesKept DEF IInv

------------------------------------------------------------------------------
(* Steps that only move the control.                                         *)
LEMMA StutterStep == ASSUME IInv, UNCHANGED vars PROVE IInv' /\ TreesKept
<1>1. UNCHANGED <<setting, mode, store, trees, pc, ret, new, todo, turn, at, channel, handed,
                  casts, faults>>
  BY DEF vars, scheme, build, history
<1>2. IInv'
  BY <1>1, SMTT(30) DEF IInv, ControlOK, CursorOK, ShapeOK, LawfulOK, Building, LowOnly, Emptied,
     CoefficientsOK, ResidentOK, BatchOK, PeakOK, BuffersGoHome, GuardsMatchColumns,
     LawfulCaller, Liberties, Rematerializes, RetainCoefficients, Domain, Direct, Owned, Pending,
     UsedBy, Components, Modes, MaxColumns, CompositionColumns
<1>. QED
  BY <1>1, <1>2, SameTreesKept DEF IInv

(* Trees and components are numbered from 1.                                 *)
LEMMA ComponentCount ==
  ASSUME IInv
  PROVE  /\ Len(Components) \in Nat /\ DOMAIN Components = 1 .. Len(Components)
         /\ Len(trees) \in Nat /\ DOMAIN trees = 1 .. Len(trees)
BY SettingFacts, TreeFacts DEF IInv, ShapeOK

(* prove_ex draws the composition coefficient and chooses its mode.          *)
LEMMA ProveStep == ASSUME IInv, Prove PROVE IInv' /\ TreesKept
<1>1. /\ UNCHANGED <<setting, mode, store, trees, ret, new, todo, turn, at, handed>>
      /\ pc = "setup" /\ pc' = IF Rematerializes THEN "releaseTrace" ELSE "compose"
  BY DEF Prove, scheme, build, history
<1>2. ControlOK' /\ CursorOK'
  BY <1>1 DEF IInv, ControlOK, CursorOK, Building, LowOnly, Rematerializes
<1>3. BatchOK' /\ PeakOK'
  BY <1>1 DEF BatchOK, PeakOK, Emptied, Building
<1>. QED
  BY <1>1, <1>2, <1>3, QuietStep DEF IInv, ShapeOK

(* Without rematerialization all components are evaluated at once.           *)
LEMMA ComposeStep == ASSUME IInv, Compose PROVE IInv' /\ TreesKept
<1>1. /\ UNCHANGED <<setting, mode, store, trees, ret, new, todo, turn, at, handed>>
      /\ pc = "compose" /\ pc' = "commitComposition"
  BY DEF Compose, scheme, build, history
<1>2. ControlOK' /\ CursorOK'
  BY <1>1 DEF IInv, ControlOK, CursorOK, Building, LowOnly, Rematerializes
<1>3. BatchOK' /\ PeakOK'
  BY <1>1 DEF IInv, ControlOK, BatchOK, PeakOK, Rematerializes
<1>. QED
  BY <1>1, <1>2, <1>3, QuietStep DEF IInv, ShapeOK

(* A component is evaluated on the columns the trees hold.                   *)
LEMMA EvaluateStep == ASSUME IInv, EvaluateComponent PROVE IInv' /\ TreesKept
<1>1. /\ UNCHANGED <<setting, mode, store, trees, ret, new, todo, turn, at, handed>>
      /\ pc = "evaluate" /\ pc' = "dropComponent"
  BY DEF EvaluateComponent, scheme, build, history
<1>2. ControlOK' /\ CursorOK'
  BY <1>1 DEF IInv, ControlOK, CursorOK, Building, LowOnly, Rematerializes, Components
<1>3. LawfulCaller => BatchOK' /\ PeakOK'
  BY <1>1 DEF IInv, LawfulOK, ControlOK, BatchOK, PeakOK, Emptied, Building, Rematerializes, Owned,
     UsedBy, Components
<1>. QED
  BY <1>1, <1>2, <1>3, QuietStep DEF IInv, ShapeOK

(* The loop over all trees is entered from a call of the caller's, or for a  *)
(* component without an access pattern.                                      *)
LEMMA MaterializeAllStep ==
  ASSUME IInv, NEW next, MaterializeAll(next),
         (next = "setup" /\ pc = "setup" /\ (LawfulCaller => Rematerializes)) \/
         (next = "evaluate" /\ InComponent /\ ~Components[turn].declared)
  PROVE  IInv' /\ TreesKept
<1>1. /\ UNCHANGED <<setting, mode, store, trees, new, todo, turn, handed>>
      /\ pc' = "materialize" /\ ret' = next
      /\ at' = [tree |-> 1, last |-> Len(trees), column |-> 1, start |-> 0, bytes |-> 0]
  BY DEF MaterializeAll, NoCursor, scheme, build, history
<1>2. /\ pc \in {"setup", "component"} /\ next \in {"setup", "evaluate"}
      /\ LawfulCaller => Rematerializes
      /\ next = "evaluate" => Rematerializes /\ turn \in DOMAIN Components /\ ~Components[turn].declared
  BY DEF InComponent, IInv, ControlOK, LowOnly
<1>3. ControlOK'
  BY <1>1, <1>2 DEF IInv, ControlOK, Building, LowOnly, Rematerializes, Components
<1>4. CursorOK'
  <2>1. Len(trees) \in Nat /\ \A t \in DOMAIN trees : Len(trees[t].polys) \in Nat
    BY ComponentCount, TreeFacts, ColumnFacts DEF IInv
  <2>. QED
    BY <1>1, <1>2, <2>1, ComponentCount DEF CursorOK
<1>5. LawfulCaller => BatchOK' /\ PeakOK'
  <2>1. \A t \in Owned' : t \in DOMAIN trees /\ t >= 1
    BY <1>1, ComponentCount DEF Owned
  <2>2. \A t \in DOMAIN trees : \A i \in Columns(trees[t]) : i >= 1
    BY TreeFacts, ColumnFacts DEF IInv
  <2>. QED
    <3>1. pc' = "materialize" /\ ret' \in {"setup", "evaluate"} /\ Pending(at.column)' = {}
      BY <1>1, <1>2 DEF Pending
    <3>2. PeakOK'
      BY <3>1 DEF PeakOK, Emptied, Building
    <3>3. /\ LawfulCaller => Rematerializes'
          /\ at'.tree = 1 /\ at'.column = 1 /\ trees' = trees
      BY <1>1, <1>2 DEF Rematerializes
    <3>4. \A t \in Owned' : ~(t < at'.tree)
      BY <2>1, <3>3, ComponentCount
    <3>5. \A t \in Owned' : \A i \in Columns(trees'[t]) : ~(i < at'.column)
      BY <2>1, <2>2, <3>3, TreeFacts, ColumnFacts DEF IInv
    <3>6. LawfulCaller => BatchOK'
      BY <3>1, <3>3, <3>4, <3>5 DEF BatchOK
    <3>. QED
      BY <3>2, <3>6
<1>. QED
  BY <1>1, <1>2, <1>3, <1>4, <1>5, ComponentCount, QuietStep DEF IInv, ShapeOK

(* The loop over the trees ends and its caller goes on.                      *)
LEMMA LoopEndsStep == ASSUME IInv, LoopEnds PROVE IInv' /\ TreesKept
<1>1. /\ UNCHANGED <<setting, mode, store, trees, ret, new, todo, turn, handed>>
      /\ pc = "materialize" /\ at.tree > at.last /\ pc' = ret /\ at' = NoCursor
  BY DEF LoopEnds, scheme, build, history
<1>2. ControlOK'
  BY <1>1 DEF IInv, ControlOK, Building, LowOnly, Rematerializes, Components
<1>3. CursorOK'
  BY <1>1, NoCursorFacts DEF IInv, ControlOK, CursorOK
<1>4. LawfulCaller => BatchOK' /\ PeakOK'
  <2>1. SUFFICES ASSUME LawfulCaller PROVE BatchOK' /\ PeakOK'
    OBVIOUS
  <2>2. ret \in {"setup", "evaluate", "open"}
    BY <1>1 DEF IInv, ControlOK
  <2>3. BatchOK'
    BY <1>1, <2>2 DEF BatchOK
  <2>4. /\ BatchOK /\ PeakOK
        /\ at.tree \in Nat /\ at.last \in Nat
    BY <2>1 DEF IInv, LawfulOK, CursorOK
  <2>5. ret = "evaluate" => \A t \in Owned : AllResident(trees[t])
    BY <1>1, <2>4, ComponentCount DEF BatchOK, IInv, CursorOK, Owned
  <2>6. CASE ret = "evaluate"
    <3>1. pc' = "evaluate" /\ ~Components[turn].declared /\ Components' = Components
      BY <1>1, <2>6 DEF IInv, ControlOK, Components
    <3>2. Owned' = Owned /\ trees' = trees /\ turn' = turn
      BY <1>1 DEF Owned
    <3>. QED
      BY <2>3, <2>5, <2>6, <3>1, <3>2 DEF PeakOK, Emptied, Building
  <2>7. CASE ret # "evaluate"
    BY <1>1, <2>2, <2>3, <2>4, <2>7 DEF PeakOK, Emptied, Building, Rematerializes, Owned
  <2>. QED
    BY <2>3, <2>6, <2>7
<1>5. turn' \in 0 .. (Len(trees) + Len(Components) + 1) /\ at'.tree \in 0 .. (Len(trees) + 1)
  BY <1>1, NoCursorFacts, ComponentCount DEF IInv, ShapeOK
<1>6. pc' # "panic"
  BY <1>1 DEF IInv, ControlOK
<1>. QED
  BY <1>1, <1>2, <1>3, <1>4, <1>5, <1>6, QuietStep

(* Steps of prove_values that only use the channel.                          *)
LEMMA AbsorbStep ==
  ASSUME IInv, DrawOods \/ SampleValues \/ Quotients \/ FriCommit \/ Grind
  PROVE  IInv' /\ TreesKept
<1>1. /\ UNCHANGED <<setting, mode, store, trees, ret, new, todo, turn, at, handed>>
      /\ pc \in {"oods", "values", "quotients", "fri", "grind"}
      /\ pc' \in {"values", "quotients", "releaseOpened", "fri", "grind", "queries"}
      /\ pc' = "releaseOpened" => Rematerializes
  BY DEF DrawOods, SampleValues, Quotients, FriCommit, Grind, Absorb, scheme, build, history
<1>2. ControlOK' /\ CursorOK'
  BY <1>1 DEF IInv, ControlOK, CursorOK, Building, LowOnly, Rematerializes
<1>3. LawfulCaller => BatchOK' /\ PeakOK'
  BY <1>1 DEF IInv, LawfulOK, BatchOK, PeakOK, Emptied, Rematerializes, Owned
<1>. QED
  BY <1>1, <1>2, <1>3, QuietStep DEF IInv, ShapeOK

(* The queries are drawn and the first tree is next to be opened.            *)
LEMMA DrawQueriesStep == ASSUME IInv, DrawQueries PROVE IInv' /\ TreesKept
<1>1. /\ UNCHANGED <<setting, mode, store, trees, ret, new, todo, at, handed>>
      /\ pc = "queries" /\ pc' = "decommit" /\ turn' = 1
  BY DEF DrawQueries, scheme, build, history
<1>2. ControlOK' /\ CursorOK'
  BY <1>1, ComponentCount DEF IInv, ControlOK, CursorOK, Building, LowOnly, Rematerializes
<1>3. LawfulCaller => BatchOK' /\ PeakOK'
  BY <1>1 DEF IInv, LawfulOK, BatchOK, PeakOK, Emptied, Rematerializes, Owned
<1>. QED
  BY <1>1, <1>2, <1>3, ComponentCount, QuietStep DEF IInv, ShapeOK

(* The next tree is opened, after it has been brought back where that is     *)
(* needed.                                                                   *)
LEMMA DecommitStep == ASSUME IInv, Decommit PROVE IInv' /\ TreesKept
<1>1. /\ UNCHANGED <<setting, mode, store, trees, new, todo, turn, handed>>
      /\ pc = "decommit" /\ turn \in DOMAIN trees
      /\ \/ /\ pc' = "open" /\ UNCHANGED <<at, ret>>
         \/ /\ pc' = "materialize" /\ ret' = "open" /\ Recomputes(turn)
            /\ at' = [tree |-> turn, last |-> turn, column |-> 1, start |-> 0, bytes |-> 0]
  BY DEF Decommit, NoCursor, scheme, build, history
<1>2. turn \in 1 .. Len(trees) /\ Len(trees) \in Nat
  BY <1>1, ComponentCount
<1>3. Recomputes(turn) => Rematerializes
  BY DEF Recomputes
<1>4. ControlOK'
  BY <1>1, <1>3 DEF IInv, ControlOK, Building, LowOnly, Rematerializes
<1>5. CursorOK'
  <2>1. \A t \in DOMAIN trees : Len(trees[t].polys) \in Nat
    BY TreeFacts, ColumnFacts DEF IInv
  <2>. QED
    BY <1>1, <1>2, <2>1 DEF CursorOK, IInv
<1>6. LawfulCaller => BatchOK' /\ PeakOK'
  <2>1. LawfulCaller => PeakOK'
    BY <1>1 DEF IInv, LawfulOK, PeakOK, Emptied, Building, Rematerializes, Owned
  <2>2. pc' = "materialize" => Rematerializes' /\ Pending(at.column)' = {} /\ ret' = "open"
    BY <1>1, <1>3 DEF Pending, Rematerializes
  <2>3. BatchOK'
    BY <1>1, <2>2 DEF BatchOK
  <2>. QED
    BY <2>1, <2>3
<1>7. at'.tree \in 0 .. (Len(trees) + 1)
  BY <1>1, <1>2 DEF IInv, ShapeOK
<1>. QED
  BY <1>1, <1>4, <1>5, <1>6, <1>7, QuietStep DEF IInv, ShapeOK

------------------------------------------------------------------------------
(* No panic is within a lawful caller's reach.                               *)
LEMMA PanicStep ==
  ASSUME IInv, Panic, ~Building, pc # "done", LawfulCaller => FALSE
  PROVE  IInv' /\ TreesKept
<1>1. /\ UNCHANGED <<setting, mode, store, trees, ret, new, todo, turn, at, handed>>
      /\ pc' = "panic"
  BY DEF Panic, scheme, build, history
<1>2. ControlOK' /\ CursorOK'
  BY <1>1 DEF IInv, ControlOK, CursorOK, Building, LowOnly, Rematerializes
<1>. QED
  BY <1>1, <1>2, QuietStep DEF IInv, ShapeOK

(* What the prover reads is there: coefficients where they are kept, and     *)
(* evaluations where they never leave.                                       *)
LEMMA ReadFacts ==
  ASSUME IInv, LawfulCaller
  PROVE  /\ Rematerializes => RetainCoefficients
         /\ RetainCoefficients =>
              \A t \in DOMAIN trees : \A i \in Columns(trees[t]) : HasCoefficients(trees[t], i)
         /\ ~Rematerializes /\ pc # "done" =>
              \A t \in DOMAIN trees : \A i \in Columns(trees[t]) : i \in Resident(trees[t])
         /\ Domain = "extend" => RetainCoefficients
         /\ Domain = "sub" => \A t \in DOMAIN trees \ Owned : \A i \in Columns(trees[t]) :
                                i \in Resident(trees[t])
         /\ Rematerializes => Recomputable = Owned
         /\ Domain \in {"sub", "extend"}
BY SettingFacts DEF IInv, ShapeOK, LawfulOK, CoefficientsOK, ResidentOK, RetainCoefficients,
   CanRecompute, AllResident, Recomputable, Owned

(* The values and the quotient of any column can be computed.                *)
LEMMA SampleFacts ==
  ASSUME IInv, LawfulCaller, pc # "done", NEW t \in DOMAIN trees, NEW i \in Columns(trees[t])
  PROVE  CanSample(trees[t], i) /\ HasValues(t, i) /\ HasQuotient(t, i)
<1>1. i \in Resident(trees[t]) <=> Evals(trees[t], i) # "none"
  BY DEF Resident
<1>. QED
  BY <1>1, ReadFacts DEF CanSample, HasValues, HasQuotient, CanEvaluateAtPoints

(* The columns a component is evaluated on can be had.                       *)
LEMMA EvaluateFacts ==
  ASSUME IInv, LawfulCaller, pc \in {"compose", "evaluate"}, NEW k \in DOMAIN Components,
         pc = "evaluate" => k = turn
  PROVE  CanEvaluate(k)
<1> SUFFICES ASSUME NEW t \in DOMAIN trees, NEW i \in UsedBy(k, t)
             PROVE  IF Domain = "sub" THEN i \in Resident(trees[t]) ELSE HasCoefficients(trees[t], i)
  BY DEF CanEvaluate
<1>1. i \in Columns(trees[t])
  BY DEF UsedBy
<1>2. CASE Domain # "sub"
  BY <1>1, <1>2, ReadFacts
<1>3. CASE Domain = "sub" /\ (t \notin Owned \/ ~Rematerializes)
  BY <1>1, <1>3, ReadFacts
<1>4. CASE Domain = "sub" /\ t \in Owned /\ Rematerializes
  <2>1. pc = "evaluate" /\ k = turn
    BY <1>4 DEF IInv, ControlOK
  <2>2. PeakOK
    BY DEF IInv, LawfulOK
  <2>3. CASE Components[turn].declared
    BY <1>4, <2>1, <2>2, <2>3 DEF PeakOK
  <2>4. CASE ~Components[turn].declared
    BY <1>1, <1>4, <2>1, <2>2, <2>4 DEF PeakOK, AllResident
  <2>. QED
    BY <1>4, <2>3, <2>4
<1>. QED
  BY <1>2, <1>3, <1>4

(* The evaluation of the components panics only under an unlawful caller.    *)
LEMMA ComposePanicsStep == ASSUME IInv, ComposePanics PROVE IInv' /\ TreesKept
BY EvaluateFacts, PanicStep DEF ComposePanics, Building

(* So does the evaluation of one component,                                  *)
LEMMA EvaluatePanicsStep == ASSUME IInv, EvaluatePanics PROVE IInv' /\ TreesKept
<1>1. turn \in DOMAIN Components
  BY DEF EvaluatePanics, IInv, ControlOK
<1>. QED
  BY <1>1, EvaluateFacts, PanicStep DEF EvaluatePanics, Building

(* the materialization of an access pattern,                                 *)
LEMMA PatternPanicsStep == ASSUME IInv, MaterializePatternPanics PROVE IInv' /\ TreesKept
<1>1. pc = "component" /\ Rematerializes
  BY DEF MaterializePatternPanics, InComponent, IInv, ControlOK, LowOnly
<1>2. LawfulCaller => CanMaterializePattern(turn)
  BY <1>1, ReadFacts DEF CanMaterializePattern, CanMaterialize, UsedBy, Owned
<1>. QED
  BY <1>1, <1>2, PanicStep DEF MaterializePatternPanics, Building

(* the materialization of a column,                                          *)
LEMMA MaterializePanicsStep ==
  ASSUME IInv, NEW t \in DOMAIN trees, NEW i \in Columns(trees[t]), MaterializePanics(t, i)
  PROVE  IInv' /\ TreesKept
<1>1. pc = "materialize"
  BY DEF MaterializePanics, CursorOn, InLoop
<1>2. LawfulCaller => Rematerializes
  BY <1>1 DEF IInv, LawfulOK, BatchOK
<1>3. LawfulCaller => HasCoefficients(trees[t], i)
  BY <1>2, ReadFacts
<1>. QED
  BY <1>1, <1>3, PanicStep DEF MaterializePanics, Building

(* and the sampling of values or the computation of quotients.               *)
LEMMA ValuesPanicStep ==
  ASSUME IInv, SampleValuesPanics \/ QuotientsPanic PROVE IInv' /\ TreesKept
<1>1. pc \in {"values", "quotients"} /\ Panic
  BY DEF SampleValuesPanics, QuotientsPanic
<1>2. \A x \in AllColumns : x[1] \in DOMAIN trees /\ x[2] \in Columns(trees[x[1]])
  BY DEF AllColumns
<1>3. LawfulCaller => \A x \in AllColumns : HasValues(x[1], x[2]) /\ HasQuotient(x[1], x[2])
  BY <1>1, <1>2, SampleFacts
<1>. QED
  BY <1>1, <1>3, PanicStep DEF SampleValuesPanics, QuotientsPanic, Building

------------------------------------------------------------------------------
(* Steps that release, spill, bring back or drop columns of whole trees.     *)
LEMMA ReleaseFacts ==
  ASSUME IInv, UNCHANGED <<setting, mode, store>>, NEW S \in SUBSET Owned,
         NEW to \in {"allocator", "pool"}, ReleaseTrees(S, to)
  PROVE  /\ UpdatesTrees
         /\ \A t \in S : Resident(trees'[t]) = {} /\ MappedColumns(trees'[t]) = {}
         /\ \A t \in DOMAIN trees \ S : trees'[t] = trees[t]
         /\ LawfulCaller => BuffersGoHome' /\ \A t \in DOMAIN trees : GuardsMatch(trees'[t])
<1>1. /\ trees' = [t \in DOMAIN trees |->
                     IF t \in S THEN WithoutEvaluations(trees[t]) ELSE trees[t]]
      /\ handed' = handed \cup UNION {HandedByRelease(trees[i], to) : i \in S}
  BY DEF ReleaseTrees, Hand
<1>2. /\ \A t \in DOMAIN trees : trees[t] \in TreeRecord /\ IsTree(trees[t])
      /\ Owned \subseteq DOMAIN trees
  BY TreeFacts DEF IInv
<1>3. ASSUME NEW t \in DOMAIN trees
      PROVE  /\ Related(trees[t], trees'[t]) /\ IsTree(trees'[t])
             /\ t \in S => /\ GuardsMatch(trees'[t])
                           /\ Resident(trees'[t]) = {} /\ MappedColumns(trees'[t]) = {}
             /\ t \notin S => trees'[t] = trees[t]
  BY <1>1, <1>2, WithoutEvaluationsFacts, SelfRelated
<1>4. UpdatesTrees
  BY <1>1, <1>3 DEF UpdatesTrees
<1>5. ASSUME LawfulCaller
      PROVE  BuffersGoHome' /\ \A t \in DOMAIN trees : GuardsMatch(trees'[t])
  <2>1. BuffersGoHome /\ \A t \in DOMAIN trees : GuardsMatch(trees[t])
    BY <1>5 DEF IInv, LawfulOK, GuardsMatchColumns
  <2>2. \A t \in S : HandedByRelease(trees[t], to) \subseteq {<<"forgotten", "map">>, <<to, "heap">>}
    BY <1>2, <2>1, HandedByReleaseFacts
  <2>. QED
    BY <1>1, <1>3, <2>1, <2>2 DEF BuffersGoHome
<1>. QED
  BY <1>2, <1>3, <1>4, <1>5

(* Coefficients of the owned trees go to their files.                        *)
LEMMA SpillTreesFacts ==
  ASSUME IInv, UNCHANGED <<setting, mode, store>>, NEW S \in SUBSET Owned, trees' = SpillTrees(S)
  PROVE  /\ UpdatesTrees
         /\ \A t \in DOMAIN trees : /\ Resident(trees'[t]) = Resident(trees[t])
                                    /\ MappedColumns(trees'[t]) = MappedColumns(trees[t])
         /\ LawfulCaller => \A t \in DOMAIN trees : GuardsMatch(trees'[t])
<1>1. \A t \in DOMAIN trees : trees[t] \in TreeRecord /\ IsTree(trees[t])
  BY TreeFacts DEF IInv
<1>2. ASSUME NEW t \in DOMAIN trees
      PROVE  /\ Related(trees[t], trees'[t]) /\ IsTree(trees'[t])
             /\ Resident(trees'[t]) = Resident(trees[t])
             /\ MappedColumns(trees'[t]) = MappedColumns(trees[t])
             /\ GuardsMatch(trees[t]) => GuardsMatch(trees'[t])
             /\ t \notin Owned => trees'[t] = trees[t]
  BY <1>1, SpillCoefficientsFacts, SelfRelated DEF SpillTrees
<1>3. UpdatesTrees
  BY <1>2 DEF UpdatesTrees, SpillTrees
<1>. QED
  BY <1>2, <1>3 DEF IInv, LawfulOK, GuardsMatchColumns

(* Where no owned tree has an evaluation, memory is at its lowest.           *)
LEMMA NothingResident ==
  ASSUME ShapeOK, UpdatesTrees, UNCHANGED <<setting, mode, store>>,
         \A t \in Owned : Resident(trees'[t]) = {}, pc' \notin {"evaluate", "dropComponent"}
  PROVE  PeakOK'
BY UpdateFacts DEF PeakOK

(* The trace is released before the components are evaluated one by one.     *)
LEMMA ReleaseTraceStep == ASSUME IInv, ReleaseTrace PROVE IInv' /\ TreesKept
<1>1. /\ UNCHANGED <<setting, mode, store, new, todo, ret, turn, at>>
      /\ pc = "releaseTrace" /\ pc' = "spillTrace" /\ ReleaseTrees(Recomputable, "allocator")
  BY DEF ReleaseTrace, scheme, build
<1>2. Rematerializes /\ Recomputable \subseteq Owned
  BY <1>1 DEF IInv, ControlOK, LowOnly, Recomputable
<1>3. /\ UpdatesTrees
      /\ \A t \in Recomputable : Resident(trees'[t]) = {}
      /\ LawfulCaller => BuffersGoHome' /\ \A t \in DOMAIN trees : GuardsMatch(trees'[t])
  BY <1>1, <1>2, ReleaseFacts
<1>4. ControlOK' /\ CursorOK'
  BY <1>1, <1>2 DEF IInv, ControlOK, CursorOK, Building, LowOnly, Rematerializes
<1>5. LawfulCaller => BatchOK' /\ PeakOK'
  BY <1>1, <1>2, <1>3, ReadFacts, NothingResident DEF BatchOK, IInv
<1>. QED
  BY <1>1, <1>2, <1>3, <1>4, <1>5, UpdateStep DEF IInv, ShapeOK

(* Its coefficients are spilled where the caller asked for it.               *)
LEMMA SpillTraceStep == ASSUME IInv, SpillTrace PROVE IInv' /\ TreesKept
<1>1. /\ UNCHANGED <<setting, mode, store, new, todo, ret, at, handed>>
      /\ pc = "spillTrace" /\ pc' = "component" /\ turn' = 1
      /\ \E S \in SUBSET Owned : trees' = SpillTrees(S)
  BY DEF SpillTrace, ToSpill, scheme, build
<1>2. Rematerializes
  BY <1>1 DEF IInv, ControlOK, LowOnly
<1>3. /\ UpdatesTrees
      /\ \A t \in DOMAIN trees : Resident(trees'[t]) = Resident(trees[t])
      /\ LawfulCaller => \A t \in DOMAIN trees : GuardsMatch(trees'[t])
  BY <1>1, SpillTreesFacts
<1>4. ControlOK' /\ CursorOK'
  BY <1>1, <1>2, ComponentCount DEF IInv, ControlOK, CursorOK, Building, LowOnly, Rematerializes,
     Components
<1>5. LawfulCaller => BatchOK' /\ PeakOK' /\ BuffersGoHome'
  <2>1. SUFFICES ASSUME LawfulCaller PROVE BatchOK' /\ PeakOK' /\ BuffersGoHome'
    OBVIOUS
  <2>2. \A t \in Owned : Resident(trees[t]) = {}
    BY <1>1, <1>2, <2>1 DEF IInv, LawfulOK, PeakOK, Emptied
  <2>3. PeakOK'
    BY <1>1, <1>3, <2>2, NothingResident DEF IInv, Owned
  <2>. QED
    BY <1>1, <2>1, <2>3 DEF BatchOK, BuffersGoHome, IInv, LawfulOK
<1>. QED
  BY <1>1, <1>2, <1>3, <1>4, <1>5, ComponentCount, UpdateStep DEF IInv, ShapeOK

(* The columns of an access pattern are brought back, on the heap.           *)
LEMMA MaterializePatternStep ==
  ASSUME IInv, NEW k \in DOMAIN Components, NEW next, MaterializePattern(k, next),
         (next = "setup" /\ pc = "setup" /\ (LawfulCaller => Rematerializes)) \/
         (next = "evaluate" /\ InComponent /\ k = turn)
  PROVE  IInv' /\ TreesKept
<1>1. /\ UNCHANGED <<setting, mode, store, ret, new, todo, turn, at, handed>>
      /\ pc' = next /\ Components[k].declared
      /\ trees' = [t \in DOMAIN trees |-> IF t \in Owned
                     THEN MaterializeColumns(trees[t], UsedBy(k, t)) ELSE trees[t]]
  BY DEF MaterializePattern, scheme, build, history
<1>2. \A t \in DOMAIN trees : trees[t] \in TreeRecord /\ IsTree(trees[t])
  BY TreeFacts DEF IInv
<1>3. ASSUME NEW t \in DOMAIN trees
      PROVE  /\ Related(trees[t], trees'[t]) /\ IsTree(trees'[t])
             /\ t \in Owned => Resident(trees'[t]) = Resident(trees[t]) \cup UsedBy(k, t)
             /\ MappedColumns(trees'[t]) = MappedColumns(trees[t])
             /\ GuardsMatch(trees[t]) => GuardsMatch(trees'[t])
             /\ t \notin Owned => trees'[t] = trees[t]
  <2>1. UsedBy(k, t) \cap Columns(trees[t]) = UsedBy(k, t)
    BY DEF UsedBy
  <2>. QED
    BY <1>1, <1>2, <2>1, MaterializeColumnsFacts, SelfRelated
<1>4. UpdatesTrees
  BY <1>1, <1>3 DEF UpdatesTrees
<1>5. pc \in {"setup", "component"} /\ next \in {"setup", "evaluate"}
      /\ (LawfulCaller => Rematerializes) /\ (next = "evaluate" => Rematerializes)
  BY DEF InComponent, IInv, ControlOK, LowOnly
<1>6. ControlOK' /\ CursorOK'
  BY <1>1, <1>5 DEF IInv, ControlOK, CursorOK, Building, LowOnly, Rematerializes, Components,
     InComponent
<1>7. LawfulCaller =>
        BatchOK' /\ PeakOK' /\ BuffersGoHome' /\ \A t \in DOMAIN trees : GuardsMatch(trees'[t])
  <2>1. SUFFICES ASSUME LawfulCaller
                 PROVE  /\ BatchOK' /\ PeakOK' /\ BuffersGoHome'
                        /\ \A t \in DOMAIN trees : GuardsMatch(trees'[t])
    OBVIOUS
  <2>2. LawfulOK /\ ShapeOK
    BY DEF IInv
  <2>3. BuffersGoHome' /\ \A t \in DOMAIN trees : GuardsMatch(trees'[t])
    BY <1>1, <1>3, <2>1, <2>2 DEF LawfulOK, BuffersGoHome, GuardsMatchColumns
  <2>4. BatchOK'
    BY <1>1, <1>5 DEF BatchOK
  <2>5. CASE next = "evaluate"
    <3>1. /\ pc = "component" /\ k = turn /\ turn' = turn /\ pc' = "evaluate"
      BY <1>1, <2>5 DEF InComponent
    <3>2. Rematerializes /\ PeakOK
      BY <1>5, <2>1, <2>2, <2>5 DEF LawfulOK
    <3>3. \A t \in Owned : Resident(trees[t]) = {}
      BY <3>1, <3>2 DEF PeakOK, Emptied
    <3>4. ASSUME NEW t \in Owned
          PROVE  Resident(trees'[t]) = UsedBy(turn, t) /\ MappedColumns(trees'[t]) = {}
      <4>1. t \in DOMAIN trees /\ MappedColumns(trees[t]) \subseteq Resident(trees[t])
        BY DEF Owned, MappedColumns, Resident
      <4>. QED
        BY <1>3, <3>1, <3>3, <4>1
    <3>5. Components[turn].declared
      BY <1>1, <3>1
    <3>6. /\ Owned' = Owned /\ Components' = Components
          /\ \A t \in Owned : UsedBy(turn, t)' = UsedBy(turn, t)
      BY <1>1, <1>4, <2>2, <3>1, UpdateFacts DEF Owned
    <3>. QED
      BY <2>3, <2>4, <3>1, <3>4, <3>5, <3>6 DEF PeakOK, Emptied, Building
  <2>6. CASE next = "setup"
    BY <1>1, <2>3, <2>4, <2>6 DEF PeakOK, Emptied, Building
  <2>. QED
    BY <1>5, <2>5, <2>6
<1>. QED
  BY <1>1, <1>4, <1>5, <1>6, <1>7, UpdateStep DEF IInv, ShapeOK

(* The columns of an access pattern are dropped: none of them is in a map.   *)
LEMMA DropPatternFacts ==
  ASSUME IInv, UNCHANGED <<setting, mode, store>>, NEW k, DropPattern(k),
         LawfulCaller => \A t \in Owned : UsedBy(k, t) \cap MappedColumns(trees[t]) = {}
  PROVE  /\ UpdatesTrees
         /\ \A t \in Owned : Resident(trees'[t]) = Resident(trees[t]) \ UsedBy(k, t)
         /\ LawfulCaller => BuffersGoHome' /\ \A t \in DOMAIN trees : GuardsMatch(trees'[t])
<1>1. /\ trees' = [t \in DOMAIN trees |-> IF t \in Owned
                     THEN DropColumns(trees[t], UsedBy(k, t)) ELSE trees[t]]
      /\ handed' = handed \cup UNION {HandedByDrop(trees[t], UsedBy(k, t)) : t \in Owned}
  BY DEF DropPattern, Hand
<1>2. /\ \A t \in DOMAIN trees : trees[t] \in TreeRecord /\ IsTree(trees[t])
      /\ Owned \subseteq DOMAIN trees
  BY TreeFacts DEF IInv
<1>3. ASSUME NEW t \in DOMAIN trees
      PROVE  /\ Related(trees[t], trees'[t]) /\ IsTree(trees'[t])
             /\ t \in Owned => Resident(trees'[t]) = Resident(trees[t]) \ UsedBy(k, t)
             /\ t \notin Owned => trees'[t] = trees[t]
             /\ LawfulCaller /\ GuardsMatch(trees[t]) =>
                  /\ GuardsMatch(trees'[t])
                  /\ t \in Owned => HandedByDrop(trees[t], UsedBy(k, t)) \subseteq {<<"allocator", "heap">>}
  BY <1>1, <1>2, DropColumnsFacts, SelfRelated
<1>4. UpdatesTrees
  BY <1>1, <1>3 DEF UpdatesTrees
<1>5. ASSUME LawfulCaller
      PROVE  BuffersGoHome' /\ \A t \in DOMAIN trees : GuardsMatch(trees'[t])
  BY <1>1, <1>2, <1>3, <1>5 DEF IInv, LawfulOK, GuardsMatchColumns, BuffersGoHome
<1>. QED
  BY <1>2, <1>3, <1>4, <1>5

(* A component that declared its columns gives them up after its evaluation. *)
LEMMA DropComponentStep == ASSUME IInv, DropComponent PROVE IInv' /\ TreesKept
<1>1. /\ UNCHANGED <<setting, mode, store, new, todo, ret, at>>
      /\ pc = "dropComponent" /\ pc' = "component" /\ turn' = turn + 1
      /\ Components[turn].declared => DropPattern(turn)
      /\ ~Components[turn].declared => ReleaseTrees(Recomputable, "allocator")
  BY DEF DropComponent, scheme, build
<1>2. Rematerializes /\ Recomputable \subseteq Owned /\ turn \in DOMAIN Components
  BY <1>1 DEF IInv, ControlOK, LowOnly, Recomputable
<1>3. LawfulCaller /\ Components[turn].declared =>
        \A t \in Owned : Resident(trees[t]) = UsedBy(turn, t) /\ MappedColumns(trees[t]) = {}
  BY <1>1, <1>2 DEF IInv, LawfulOK, PeakOK
<1>4. /\ UpdatesTrees
      /\ LawfulCaller => BuffersGoHome' /\ \A t \in DOMAIN trees : GuardsMatch(trees'[t])
      /\ LawfulCaller => \A t \in Owned : Resident(trees'[t]) = {}
  <2>1. CASE Components[turn].declared
    BY <1>1, <1>3, <2>1, DropPatternFacts
  <2>2. CASE ~Components[turn].declared
    BY <1>1, <1>2, <2>2, ReleaseFacts, ReadFacts
  <2>. QED
    BY <2>1, <2>2
<1>5. turn + 1 \in 1 .. Len(Components) + 1
  BY <1>2, ComponentCount
<1>6. ControlOK' /\ CursorOK'
  BY <1>1, <1>2, <1>5 DEF IInv, ControlOK, CursorOK, Building, LowOnly, Rematerializes, Components
<1>7. LawfulCaller => BatchOK' /\ PeakOK'
  BY <1>1, <1>4, NothingResident DEF BatchOK, IInv
<1>. QED
  BY <1>1, <1>2, <1>4, <1>5, <1>6, <1>7, ComponentCount, UpdateStep DEF IInv, ShapeOK

(* The trees are released when the last component has been evaluated.        *)
LEMMA ReleaseComposedStep == ASSUME IInv, ReleaseComposed PROVE IInv' /\ TreesKept
<1>1. /\ UNCHANGED <<setting, mode, store, new, todo, ret, turn, at>>
      /\ pc = "component" /\ pc' = "commitComposition" /\ ReleaseTrees(Recomputable, "allocator")
  BY DEF ReleaseComposed, scheme, build
<1>2. Rematerializes /\ Recomputable \subseteq Owned
  BY <1>1 DEF IInv, ControlOK, LowOnly, Recomputable
<1>3. /\ UpdatesTrees
      /\ \A t \in Recomputable : Resident(trees'[t]) = {}
      /\ LawfulCaller => BuffersGoHome' /\ \A t \in DOMAIN trees : GuardsMatch(trees'[t])
  BY <1>1, <1>2, ReleaseFacts
<1>4. ControlOK' /\ CursorOK'
  BY <1>1, <1>2 DEF IInv, ControlOK, CursorOK, Building, LowOnly, Rematerializes
<1>5. LawfulCaller => BatchOK' /\ PeakOK'
  BY <1>1, <1>2, <1>3, ReadFacts, NothingResident DEF BatchOK, IInv
<1>. QED
  BY <1>1, <1>2, <1>3, <1>4, <1>5, UpdateStep DEF IInv, ShapeOK

(* The trees are released once the quotients are computed.                   *)
LEMMA ReleaseOpenedStep == ASSUME IInv, ReleaseOpened PROVE IInv' /\ TreesKept
<1>1. /\ UNCHANGED <<setting, mode, store, new, todo, ret, turn, at>>
      /\ pc = "releaseOpened" /\ pc' = "fri" /\ ReleaseTrees(Recomputable, "pool")
  BY DEF ReleaseOpened, scheme, build
<1>2. Rematerializes /\ Recomputable \subseteq Owned
  BY <1>1 DEF IInv, ControlOK, LowOnly, Recomputable
<1>3. /\ UpdatesTrees
      /\ \A t \in Recomputable : Resident(trees'[t]) = {}
      /\ LawfulCaller => BuffersGoHome' /\ \A t \in DOMAIN trees : GuardsMatch(trees'[t])
  BY <1>1, <1>2, ReleaseFacts
<1>4. ControlOK' /\ CursorOK'
  BY <1>1, <1>2 DEF IInv, ControlOK, CursorOK, Building, LowOnly, Rematerializes
<1>5. LawfulCaller => BatchOK' /\ PeakOK'
  BY <1>1, <1>2, <1>3, ReadFacts, NothingResident DEF BatchOK, IInv
<1>. QED
  BY <1>1, <1>2, <1>3, <1>4, <1>5, UpdateStep DEF IInv, ShapeOK

(* The opening of a tree ends with the release of what was brought back.     *)
LEMMA OpenStep == ASSUME IInv, Open PROVE IInv' /\ TreesKept
<1>1. pc = "open" /\ turn \in DOMAIN trees /\ Len(trees) \in Nat /\ DOMAIN trees = 1 .. Len(trees)
  BY ComponentCount DEF Open, IInv, ControlOK
<1>2. CASE ~ \A i \in Columns(trees[turn]) : CanSample(trees[turn], i)
  BY <1>1, <1>2, SampleFacts, PanicStep DEF Open, Building
<1>3. CASE \A i \in Columns(trees[turn]) : CanSample(trees[turn], i)
  <2> DEFINE S == {turn} \cap {t \in Owned : Recomputes(t)}
  <2>1. /\ UNCHANGED <<setting, mode, store, new, todo, ret, at>>
        /\ pc' = "decommit" /\ turn' = turn + 1 /\ ReleaseTrees(S, "allocator")
        /\ S \subseteq Owned
    BY <1>3 DEF Open, scheme, build
  <2>2. /\ UpdatesTrees
        /\ \A t \in S : Resident(trees'[t]) = {}
        /\ \A t \in DOMAIN trees \ S : trees'[t] = trees[t]
        /\ LawfulCaller => BuffersGoHome' /\ \A t \in DOMAIN trees : GuardsMatch(trees'[t])
    BY <2>1, ReleaseFacts
  <2>3. Len(trees') = Len(trees)
    BY <2>1, <2>2, UpdateFacts DEF IInv
  <2>4. ControlOK' /\ CursorOK'
    BY <1>1, <2>1, <2>3 DEF IInv, ControlOK, CursorOK, Building, LowOnly, Rematerializes
  <2>5. LawfulCaller /\ Rematerializes => \A t \in Owned : Resident(trees'[t]) = {}
    <3>1. SUFFICES ASSUME LawfulCaller, Rematerializes, NEW t \in Owned
                   PROVE  Resident(trees'[t]) = {}
      OBVIOUS
    <3>2. CASE t = turn
      BY <2>2, <3>1, <3>2, ReadFacts DEF Recomputes
    <3>3. CASE t # turn
      BY <1>1, <2>2, <3>1, <3>3 DEF IInv, LawfulOK, PeakOK, Owned
    <3>. QED
      BY <3>2, <3>3
  <2>6. LawfulCaller => BatchOK' /\ PeakOK'
    <3>1. Rematerializes' = Rematerializes
      BY <2>1 DEF Rematerializes
    <3>2. LawfulCaller /\ Rematerializes => PeakOK'
      BY <2>1, <2>2, <2>5, NothingResident DEF IInv
    <3>3. ~Rematerializes => PeakOK'
      BY <3>1 DEF PeakOK
    <3>. QED
      BY <2>1, <3>2, <3>3 DEF BatchOK
  <2>7. LawfulCaller /\ ~Rematerializes => \A t \in DOMAIN trees : AllResident(trees'[t])
    BY <1>1, <2>2 DEF IInv, LawfulOK, ResidentOK, Recomputes
  <2>8. turn' \in 0 .. (Len(trees) + Len(Components) + 1)
    BY <1>1, <2>1, ComponentCount
  <2> HIDE DEF S
  <2>. QED
    BY <2>1, <2>2, <2>4, <2>6, <2>7, <2>8, UpdateStep DEF IInv, ShapeOK
<1>. QED
  BY <1>2, <1>3

(* The proof is complete.                                                    *)
LEMMA FinishStep == ASSUME IInv, Finish PROVE IInv' /\ TreesKept
<1>1. /\ UNCHANGED <<setting, mode, store, new, todo, ret, turn, at>>
      /\ pc = "decommit" /\ pc' = "done"
      /\ \E to \in {"allocator", "pool"} : ReleaseTrees(Owned, to)
  BY DEF Finish, scheme, build
<1>2. /\ UpdatesTrees
      /\ \A t \in Owned : Resident(trees'[t]) = {}
      /\ LawfulCaller => BuffersGoHome' /\ \A t \in DOMAIN trees : GuardsMatch(trees'[t])
  BY <1>1, ReleaseFacts
<1>3. ControlOK' /\ CursorOK'
  BY <1>1 DEF IInv, ControlOK, CursorOK, Building, LowOnly, Rematerializes
<1>4. BatchOK' /\ PeakOK'
  BY <1>1, <1>2, NothingResident DEF BatchOK, IInv
<1>. QED
  BY <1>1, <1>2, <1>3, <1>4, UpdateStep DEF IInv, ShapeOK

(* Between commits the caller releases, spills and drops as it likes.        *)
LEMMA CallStep ==
  ASSUME IInv, CallRelease \/ CallSpill \/ \E k \in DOMAIN Components : CallDrop(k)
  PROVE  IInv' /\ TreesKept
<1>1. /\ UNCHANGED <<setting, mode, store, pc, ret, new, todo, turn, at>>
      /\ pc = "setup" /\ (LawfulCaller => Rematerializes)
  BY DEF CallRelease, CallSpill, CallDrop, Between, Lawful, LawfulCaller, scheme, build
<1>2. /\ UpdatesTrees
      /\ LawfulCaller => BuffersGoHome' /\ \A t \in DOMAIN trees : GuardsMatch(trees'[t])
  <2>1. CASE CallRelease
    <3>1. \E to \in {"allocator", "pool"} : ReleaseTrees(Recomputable, to)
      BY <2>1 DEF CallRelease
    <3>2. Recomputable \subseteq Owned
      BY DEF Recomputable
    <3>. QED
      BY <1>1, <3>1, <3>2, ReleaseFacts
  <2>2. CASE CallSpill
    <3>1. handed' = handed /\ \E S \in SUBSET Owned : trees' = SpillTrees(S)
      BY <2>2 DEF CallSpill, ToSpill
    <3>2. LawfulCaller => BuffersGoHome'
      BY <3>1 DEF IInv, LawfulOK, BuffersGoHome
    <3>. QED
      BY <1>1, <3>1, <3>2, SpillTreesFacts
  <2>3. CASE \E k \in DOMAIN Components : CallDrop(k)
    <3>1. PICK k \in DOMAIN Components : CallDrop(k)
      BY <2>3
    <3>2. /\ DropPattern(k)
          /\ LawfulCaller => \A t \in Owned : UsedBy(k, t) \cap MappedColumns(trees[t]) = {}
      BY <3>1 DEF CallDrop, Lawful, LawfulCaller
    <3>. QED
      BY <1>1, <3>2, DropPatternFacts
  <2>. QED
    BY <2>1, <2>2, <2>3
<1>3. ControlOK' /\ CursorOK'
  BY <1>1 DEF IInv, ControlOK, CursorOK, Building, LowOnly, Rematerializes
<1>4. BatchOK' /\ PeakOK'
  BY <1>1 DEF BatchOK, PeakOK, Emptied, Building
<1>. QED
  BY <1>1, <1>2, <1>3, <1>4, UpdateStep DEF IInv, ShapeOK

------------------------------------------------------------------------------
(* Steps that build a tree and add it to the scheme.                         *)
LEMMA BeginCommitStep ==
  ASSUME IInv, NEW n \in Nat, NEW back, BeginCommit(n, back), n <= MaxColumns + CompositionColumns,
         (pc = "setup" /\ back = "setup") \/ (pc = "commitComposition" /\ back = "oods")
  PROVE  IInv' /\ TreesKept
<1>1. /\ UNCHANGED <<setting, mode, store, turn, handed>>
      /\ new' = EmptyTree /\ todo' = n /\ ret' = back /\ pc' = AfterBegin(n)
      /\ at' = [tree |-> 0, last |-> 0, column |-> 1, start |-> 1, bytes |-> 0]
      /\ \E S \in SUBSET Owned : trees' = SpillTrees(S)
  BY DEF BeginCommit, NoCursor, ToSpill, scheme
<1>2. /\ UpdatesTrees
      /\ \A t \in DOMAIN trees : Resident(trees'[t]) = Resident(trees[t])
      /\ LawfulCaller => \A t \in DOMAIN trees : GuardsMatch(trees'[t])
  BY <1>1, SpillTreesFacts
<1>3. pc' \in {"spillNew", "extend"} /\ (pc' = "extend" => n > 0)
  BY <1>1 DEF AfterBegin
<1>4. ControlOK' /\ CursorOK'
  BY <1>1, <1>3, EmptyTreeFacts DEF IInv, ControlOK, CursorOK, Building, LowOnly
<1>5. LawfulCaller =>
        /\ BuffersGoHome' /\ BatchOK' /\ PeakOK'
        /\ ~Rematerializes => \A t \in DOMAIN trees : AllResident(trees'[t])
  <2>1. SUFFICES ASSUME LawfulCaller
                 PROVE  /\ BuffersGoHome' /\ BatchOK' /\ PeakOK'
                        /\ ~Rematerializes => \A t \in DOMAIN trees : AllResident(trees'[t])
    OBVIOUS
  <2>2. LawfulOK
    BY <2>1 DEF IInv
  <2>3. BuffersGoHome'
    BY <1>1, <2>1, <2>2 DEF LawfulOK, BuffersGoHome
  <2>4. BatchOK'
    BY <1>1, <1>3, EmptyTreeFacts DEF BatchOK
  <2>5. PeakOK'
    <3>1. CASE back = "setup"
      BY <1>1, <1>3, <3>1 DEF PeakOK, Emptied, Building
    <3>2. CASE pc = "commitComposition"
      <4>1. Rematerializes => \A t \in Owned : Resident(trees'[t]) = {}
        BY <1>2, <2>1, <2>2, <3>2 DEF LawfulOK, PeakOK, Emptied, Owned
      <4>2. Rematerializes' = Rematerializes
        BY <1>1 DEF Rematerializes
      <4>3. Rematerializes => PeakOK'
        BY <1>1, <1>2, <1>3, <4>1, NothingResident DEF IInv
      <4>. QED
        BY <4>2, <4>3 DEF PeakOK
    <3>. QED
      BY <3>1, <3>2
  <2>6. ~Rematerializes => \A t \in DOMAIN trees : AllResident(trees'[t])
    <3>1. \A t \in DOMAIN trees : Columns(trees'[t]) = Columns(trees[t])
      BY <1>1, <1>2, UpdateFacts DEF IInv
    <3>. QED
      BY <1>2, <2>1, <2>2, <3>1 DEF LawfulOK, ResidentOK, AllResident
  <2>. QED
    BY <2>3, <2>4, <2>5, <2>6
<1>6. MaxColumns \in Nat /\ CompositionColumns \in Nat /\ Len(trees) \in Nat
  BY SettingFacts, ComponentCount DEF IInv, ShapeOK
<1>7. /\ todo' \in 0 .. (MaxColumns + CompositionColumns)
      /\ turn' \in 0 .. (Len(trees) + Len(Components) + 1) /\ at'.tree \in 0 .. (Len(trees) + 1)
  BY <1>1, <1>6 DEF IInv, ShapeOK
<1>. QED
  BY <1>1, <1>2, <1>3, <1>4, <1>5, <1>7, EmptyTreeFacts, TreesStep

(* The caller commits a tree it keeps: the scheme only borrows it.           *)
LEMMA CommitTreeStep ==
  ASSUME IInv, NEW t \in setting.given, CommitTree(t) PROVE IInv' /\ TreesKept
<1> DEFINE kept == IF Checkpoints /\ t.owned THEN Checkpoint(t) ELSE t
<1>1. /\ UNCHANGED <<setting, mode, store, new, todo, pc, ret, turn, at, handed>>
      /\ pc = "setup" /\ (LawfulCaller => Legal(t))
      /\ \E u \in {kept, SpillCoefficients(kept)} : trees' = Append(trees, u)
  BY DEF CommitTree, Lawful, LawfulCaller, scheme, build
<1>2. IsTree(t) /\ GuardsMatch(t) /\ t \in TreeRecord
  BY SettingFacts DEF IInv, ShapeOK, IsTree
<1>3. /\ Related(t, kept) /\ IsTree(kept) /\ GuardsMatch(kept) /\ Resident(kept) = Resident(t)
  BY <1>2, CheckpointFacts, SelfRelated
<1>4. PICK u \in {kept, SpillCoefficients(kept)} : trees' = Append(trees, u)
  BY <1>1
<1> HIDE DEF kept
<1>5. /\ u \in TreeRecord /\ IsTree(u) /\ GuardsMatch(u) /\ Resident(u) = Resident(t)
      /\ Columns(u) = Columns(t) /\ u.owned = t.owned /\ CanRecompute(u) = CanRecompute(t)
  <2>1. kept \in TreeRecord
    BY <1>3 DEF Related
  <2>2. /\ Related(kept, u) /\ IsTree(u) /\ GuardsMatch(u) /\ Resident(u) = Resident(kept)
    BY <1>3, <1>4, <2>1, SpillCoefficientsFacts, SelfRelated
  <2>. QED
    BY <1>3, <2>2 DEF Related
<1>6. ControlOK' /\ CursorOK' /\ new = EmptyTree
  BY <1>1 DEF IInv, ControlOK, CursorOK, Building, LowOnly
<1>7. BatchOK' /\ PeakOK'
  BY <1>1 DEF BatchOK, PeakOK, Emptied, Building
<1>8. LawfulCaller =>
        /\ BuffersGoHome' /\ (RetainCoefficients => CanRecompute(u))
        /\ ~Rematerializes => AllResident(u)
        /\ Domain = "sub" /\ ~u.owned => AllResident(u)
  BY <1>1, <1>5 DEF IInv, LawfulOK, BuffersGoHome, Legal, AllResident
<1>9. /\ turn' \in 0 .. (Len(trees) + Len(Components) + 1) /\ at'.tree \in 0 .. (Len(trees) + 1)
  BY <1>1 DEF IInv, ShapeOK
<1>. QED
  BY <1>1, <1>4, <1>5, <1>6, <1>7, <1>8, <1>9, AppendStep

(* One more column, and with it perhaps a batch that moves to a map.         *)
LEMMA ExtendColumnStep == ASSUME IInv, ExtendColumn PROVE IInv' /\ TreesKept
<1> DEFINE grown == [new EXCEPT !.polys = Append(@, NewColumn)]
           last == Len(grown.polys)
           old == Len(new.polys)
<1>1. /\ UNCHANGED <<setting, mode, store, trees, ret, turn>>
      /\ pc = "extend" /\ todo' = todo - 1
      /\ pc' = IF todo = 1 THEN "spillNew" ELSE "extend"
      /\ \/ \E S \in SUBSET (at.start .. last) :
              /\ new' = SpillColumns(grown, at.start, S)
              /\ handed' = handed \cup HandedBySpill(grown, S)
              /\ at' = [at EXCEPT !.start = last + 1, !.bytes = 0]
         \/ \E bytes : new' = grown /\ at' = [at EXCEPT !.bytes = bytes] /\ UNCHANGED handed
  BY DEF ExtendColumn, Hand, scheme
<1>2. /\ new \in TreeRecord /\ IsTree(new) /\ old \in Nat /\ Columns(new) = 1 .. old
      /\ todo > 0 /\ at.start \in 1 .. old + 1 /\ CursorOK /\ ShapeOK /\ ControlOK
  BY <1>1, TreeFacts, ColumnFacts DEF IInv, ControlOK
<1>3. /\ NewColumn \in Poly /\ NewColumn.evals = "heap"
      /\ RetainCoefficients => NewColumn.coeffs # "none"
  BY DEF NewColumn, Poly
<1>4. /\ grown \in TreeRecord /\ IsTree(grown) /\ last = old + 1 /\ grown.owned = new.owned
      /\ GuardsMatch(new) => GuardsMatch(grown)
      /\ Evals(grown, last) = "heap" /\ \A i \in Columns(new) : Evals(grown, i) = Evals(new, i)
      /\ CanRecompute(new) /\ RetainCoefficients => CanRecompute(grown)
      /\ AllResident(new) => AllResident(grown)
  <2> HIDE DEF grown
  <2>1. grown = [new EXCEPT !.polys = Append(@, NewColumn)]
    BY DEF grown
  <2>. QED
    BY <1>2, <1>3, <2>1, AppendColumnFacts
<1>5. Columns(grown) = 1 .. last /\ last \in Nat
  BY <1>2, <1>4, ColumnFacts
<1> HIDE DEF grown
<1>6. /\ Related(grown, new') /\ IsTree(new')
      /\ GuardsMatch(grown) => GuardsMatch(new')
      /\ \A i \in Columns(grown) : Evals(grown, i) # "none" => Evals(new', i) # "none"
      /\ Len(new'.polys) = last /\ at'.start \in {at.start, last + 1} /\ at'.tree = at.tree
      /\ at' = [tree |-> at.tree, last |-> at.last, column |-> at.column, start |-> at'.start,
                bytes |-> at'.bytes]
      /\ \A i \in at'.start .. last : new' = grown
      /\ new'.owned
  <2>1. at = [tree |-> at.tree, last |-> at.last, column |-> at.column, start |-> at.start,
              bytes |-> at.bytes]
    BY <1>2 DEF CursorOK
  <2>2. CASE \E bytes : new' = grown /\ at' = [at EXCEPT !.bytes = bytes]
    BY <1>2, <1>4, <2>1, <2>2, SelfRelated DEF ControlOK
  <2>3. CASE \E S \in SUBSET (at.start .. last) :
               /\ new' = SpillColumns(grown, at.start, S)
               /\ at' = [at EXCEPT !.start = last + 1, !.bytes = 0]
    <3>1. PICK S \in SUBSET (at.start .. last) :
               /\ new' = SpillColumns(grown, at.start, S)
               /\ at' = [at EXCEPT !.start = last + 1, !.bytes = 0]
      BY <2>3
    <3>2. S \in SUBSET Columns(grown) /\ at.start \in Int
      BY <1>2, <1>4, <1>5
    <3>3. /\ Related(grown, new') /\ IsTree(new')
          /\ GuardsMatch(grown) => GuardsMatch(new')
          /\ \A i \in Columns(grown) : Evals(new', i) = IF i \in S THEN "map" ELSE Evals(grown, i)
      BY <1>4, <3>1, <3>2, SpillColumnsFacts
    <3>4. at' = [tree |-> at.tree, last |-> at.last, column |-> at.column, start |-> last + 1,
                 bytes |-> 0]
      BY <2>1, <3>1
    <3>5. (last + 1) .. last = {}
      BY <1>5
    <3>. QED
      BY <1>2, <1>4, <3>3, <3>4, <3>5 DEF Related, ControlOK
  <2>. QED
    BY <1>1, <2>2, <2>3
<1>7. ControlOK' /\ CursorOK' /\ todo' \in 0 .. (MaxColumns + CompositionColumns)
  <2>1. at'.start \in 1 .. last + 1
    BY <1>2, <1>4, <1>6
  <2>2. todo \in Int /\ todo > 0 /\ todo - 1 \in 0 .. (MaxColumns + CompositionColumns)
        /\ (todo # 1 => todo - 1 > 0)
    BY <1>2, SettingFacts DEF ShapeOK
  <2>3. ControlOK'
    BY <1>1, <1>2, <1>6, <2>1, <2>2 DEF ControlOK, Building, LowOnly
  <2>4. CursorOK'
    BY <1>1, <1>2, <1>5, <1>6, <2>1 DEF CursorOK
  <2>. QED
    BY <1>1, <2>2, <2>3, <2>4
<1>8. ASSUME LawfulCaller
      PROVE  /\ BuffersGoHome' /\ GuardsMatch(new') /\ AllResident(new')
             /\ RetainCoefficients => CanRecompute(new')
             /\ BatchOK' /\ PeakOK'
             /\ \A t \in DOMAIN trees : GuardsMatch(trees[t])
             /\ ~Rematerializes => \A t \in DOMAIN trees : AllResident(trees[t])
  <2>1. LawfulOK
    BY <1>8 DEF IInv
  <2>2. \A i \in at.start .. last : Evals(grown, i) = "heap"
    <3>1. \A i \in at.start .. old : i \in Columns(new) /\ Evals(new, i) = "heap"
      BY <1>1, <1>2, <1>8, <2>1 DEF LawfulOK, BatchOK
    <3>. QED
      BY <1>2, <1>4, <3>1
  <2>3. BuffersGoHome'
    <3>1. \A S \in SUBSET (at.start .. last) : HandedBySpill(grown, S) \subseteq {<<"allocator", "heap">>}
      BY <2>2, HandedBySpillFacts
    <3>. QED
      BY <1>1, <1>8, <2>1, <3>1 DEF LawfulOK, BuffersGoHome
  <2>4. /\ GuardsMatch(new') /\ AllResident(new')
        /\ RetainCoefficients => CanRecompute(new')
    BY <1>4, <1>6, <1>8, <2>1 DEF LawfulOK, ResidentOK, CoefficientsOK, AllResident, Resident, Related
  <2>5. BatchOK'
    <3>1. \A i \in at'.start .. last : i \in at.start .. last
      BY <1>2, <1>4, <1>6
    <3>2. \A i \in at'.start .. last : Evals(new', i) = "heap"
      BY <1>6, <2>2, <3>1
    <3>. QED
      BY <1>1, <1>6, <3>2 DEF BatchOK
  <2>6. PeakOK'
    BY <1>1, <1>8, <2>1 DEF LawfulOK, PeakOK, Emptied, Building, Rematerializes, Owned
  <2>7. /\ \A t \in DOMAIN trees : GuardsMatch(trees[t])
        /\ ~Rematerializes => \A t \in DOMAIN trees : AllResident(trees[t])
    BY <1>1, <1>8, <2>1 DEF LawfulOK, GuardsMatchColumns, ResidentOK
  <2>. QED
    BY <1>6, <2>3, <2>4, <2>5, <2>6, <2>7
<1>9. UpdatesTrees
  BY <1>1, <1>2, SameTreesUpdate
<1>10. /\ turn' \in 0 .. (Len(trees) + Len(Components) + 1) /\ at'.tree \in 0 .. (Len(trees) + 1)
  BY <1>1, <1>2, <1>6 DEF ShapeOK
<1>. QED
  BY <1>1, <1>6, <1>7, <1>8, <1>9, <1>10, TreesStep

(* What a step that leaves the trees and the cursor alone, and moves the     *)
(* build on, still has to show.                                              *)
LEMMA BuildStep ==
  ASSUME IInv, UNCHANGED <<setting, mode, store, trees, ret, todo, turn, at>>,
         <<pc, pc'>> \in {<<"spillNew", "spillExtension">>, <<"spillExtension", "merkle">>},
         IsTree(new'), new'.owned = new.owned, GuardsMatch(new) => GuardsMatch(new'),
         LawfulCaller => BuffersGoHome' /\ AllResident(new') /\ (RetainCoefficients => CanRecompute(new'))
  PROVE  IInv' /\ TreesKept
<1>1. ControlOK' /\ CursorOK'
  BY DEF IInv, ControlOK, CursorOK, Building, LowOnly
<1>2. UpdatesTrees
  BY SameTreesUpdate DEF IInv
<1>3. ASSUME LawfulCaller
      PROVE  /\ BatchOK' /\ PeakOK' /\ GuardsMatch(new')
             /\ \A t \in DOMAIN trees : GuardsMatch(trees[t])
             /\ ~Rematerializes => \A t \in DOMAIN trees : AllResident(trees[t])
  <2>1. LawfulOK
    BY <1>3 DEF IInv
  <2>2. BatchOK'
    BY DEF BatchOK
  <2>3. PeakOK'
    BY <1>3, <2>1 DEF LawfulOK, PeakOK, Emptied, Building, Rematerializes, Owned
  <2>. QED
    BY <1>3, <2>1, <2>2, <2>3 DEF LawfulOK, GuardsMatchColumns, ResidentOK
<1>. QED
  BY <1>1, <1>2, <1>3, TreesStep DEF IInv, ShapeOK

(* The coefficients of the new tree go to a file,                            *)
LEMMA SpillNewStep == ASSUME IInv, SpillNewCoefficients PROVE IInv' /\ TreesKept
<1>1. /\ UNCHANGED <<setting, mode, store, trees, ret, todo, turn, at, handed>>
      /\ pc = "spillNew" /\ pc' = "spillExtension"
      /\ new' \in {new, SpillCoefficients(new)}
  BY DEF SpillNewCoefficients, scheme
<1>2. new \in TreeRecord /\ IsTree(new)
  BY TreeFacts DEF IInv
<1>3. /\ Related(new, new') /\ IsTree(new') /\ (GuardsMatch(new) => GuardsMatch(new'))
      /\ Resident(new') = Resident(new) /\ new'.owned = new.owned
  BY <1>1, <1>2, SpillCoefficientsFacts, SelfRelated DEF Related
<1>4. LawfulCaller =>
        BuffersGoHome' /\ AllResident(new') /\ (RetainCoefficients => CanRecompute(new'))
  BY <1>1, <1>3 DEF IInv, LawfulOK, BuffersGoHome, ResidentOK, CoefficientsOK, AllResident, Related
<1>. QED
  BY <1>1, <1>3, <1>4, BuildStep

(* its last batch of evaluations to a map,                                   *)
LEMMA SpillExtensionStep == ASSUME IInv, SpillExtension PROVE IInv' /\ TreesKept
<1>1. new \in TreeRecord /\ IsTree(new) /\ UNCHANGED <<setting, mode, store, trees, ret, todo, turn, at>>
      /\ pc = "spillExtension" /\ pc' = "merkle"
  BY TreeFacts DEF IInv, SpillExtension, scheme
<1>2. CASE new' = new /\ handed' = handed
  <2>1. LawfulCaller =>
          BuffersGoHome' /\ AllResident(new') /\ (RetainCoefficients => CanRecompute(new'))
    BY <1>2 DEF IInv, LawfulOK, BuffersGoHome, ResidentOK, CoefficientsOK
  <2>. QED
    BY <1>1, <1>2, <2>1, BuildStep
<1>3. CASE /\ Rematerializes /\ new.guards = <<>>
           /\ \E S \in SUBSET Columns(new) :
                /\ new' = SpillColumns(new, 1, S)
                /\ handed' = handed \cup HandedBySpill(new, S)
  <2>1. PICK S \in SUBSET Columns(new) :
                /\ new' = SpillColumns(new, 1, S)
                /\ handed' = handed \cup HandedBySpill(new, S)
    BY <1>3
  <2>2. /\ Related(new, new') /\ IsTree(new') /\ (GuardsMatch(new) => GuardsMatch(new'))
        /\ \A i \in Columns(new) : Evals(new', i) = IF i \in S THEN "map" ELSE Evals(new, i)
        /\ new'.owned = new.owned
    BY <1>1, <2>1, SpillColumnsFacts DEF Related
  <2>3. ASSUME LawfulCaller
        PROVE  BuffersGoHome' /\ AllResident(new') /\ (RetainCoefficients => CanRecompute(new'))
    <3>1. LawfulOK
      BY <2>3 DEF IInv
    <3>2. MappedColumns(new) = {}
      BY <1>3, <2>3, <3>1 DEF LawfulOK, GuardsMatch, Noted
    <3>3. \A i \in Columns(new) : Evals(new, i) = "heap"
      BY <1>1, <2>3, <3>1, <3>2, ColumnFacts DEF LawfulOK, ResidentOK, AllResident, Resident,
         MappedColumns
    <3>4. HandedBySpill(new, S) \subseteq {<<"allocator", "heap">>}
      BY <2>1, <3>3, HandedBySpillFacts
    <3>5. BuffersGoHome'
      BY <2>1, <2>3, <3>1, <3>4 DEF LawfulOK, BuffersGoHome
    <3>6. AllResident(new')
      BY <2>2, <3>3 DEF AllResident, Resident, Related
    <3>. QED
      BY <2>2, <2>3, <3>1, <3>5, <3>6 DEF LawfulOK, CoefficientsOK, Related
  <2>. QED
    BY <1>1, <2>2, <2>3, BuildStep
<1>. QED
  BY <1>2, <1>3 DEF SpillExtension, Hand, history

(* and the tree, hashed, joins the trees of the scheme.                      *)
LEMMA FinishTreeStep == ASSUME IInv, FinishTree PROVE IInv' /\ TreesKept
<1> DEFINE built == IF Checkpoints THEN Checkpoint(new) ELSE new
           u == IF Rematerializes THEN WithoutEvaluations(built) ELSE built
<1>1. /\ UNCHANGED <<setting, mode, store, ret, todo, turn>>
      /\ pc = "merkle" /\ pc' = ret /\ at' = NoCursor /\ new' = EmptyTree
      /\ trees' = Append(trees, u)
      /\ handed' = IF Rematerializes THEN handed \cup HandedByRelease(built, "allocator") ELSE handed
  BY DEF FinishTree, Hand, scheme
<1>2. new \in TreeRecord /\ IsTree(new)
  BY TreeFacts DEF IInv
<1>3. /\ Related(new, built) /\ IsTree(built) /\ (GuardsMatch(new) => GuardsMatch(built))
      /\ Resident(built) = Resident(new)
  BY <1>2, CheckpointFacts, SelfRelated
<1>4. built \in TreeRecord
  BY <1>3 DEF Related
<1> HIDE DEF built
<1>5. /\ Related(built, u) /\ IsTree(u) /\ (GuardsMatch(built) => GuardsMatch(u))
      /\ Rematerializes => Resident(u) = {}
      /\ ~Rematerializes => u = built
  BY <1>3, <1>4, WithoutEvaluationsFacts, SelfRelated
<1>6. u \in TreeRecord /\ CanRecompute(u) = CanRecompute(new)
  BY <1>3, <1>5 DEF Related
<1> HIDE DEF u
<1>7. ret \in {"setup", "oods"} /\ ~Building' /\ Rematerializes' = Rematerializes
  BY <1>1 DEF IInv, ControlOK, Building, Rematerializes
<1>8. trees \in Seq(TreeRecord) /\ Len(trees) \in Nat /\ DOMAIN trees = 1 .. Len(trees)
  BY ComponentCount DEF IInv, ShapeOK
<1>9. /\ DOMAIN trees' = DOMAIN trees \cup {Len(trees) + 1}
      /\ \A t \in DOMAIN trees : trees'[t] = trees[t]
      /\ trees'[Len(trees) + 1] = u
  BY <1>1, <1>6, <1>8
<1>10. ControlOK'
  BY <1>1, <1>7, EmptyTreeFacts DEF ControlOK, LowOnly
<1>11. CursorOK'
  BY <1>1, <1>7, NoCursorFacts DEF CursorOK
<1>12. ASSUME LawfulCaller
       PROVE  /\ BuffersGoHome' /\ GuardsMatch(u)
              /\ RetainCoefficients => CanRecompute(u)
              /\ ~Rematerializes => AllResident(u)
              /\ new.owned => u.owned
  <2>1. LawfulOK
    BY <1>12 DEF IInv
  <2>2. GuardsMatch(built)
    BY <1>3, <1>12, <2>1 DEF LawfulOK
  <2>3. BuffersGoHome'
    BY <1>1, <1>4, <1>12, <2>1, <2>2, HandedByReleaseFacts DEF LawfulOK, BuffersGoHome
  <2>4. ~Rematerializes => AllResident(u)
    BY <1>3, <1>5, <1>12, <2>1 DEF LawfulOK, ResidentOK, AllResident, Related
  <2>. QED
    BY <1>3, <1>5, <1>6, <1>12, <2>1, <2>2, <2>3, <2>4 DEF LawfulOK, CoefficientsOK, Related
<1>13. new.owned
  BY DEF IInv, ControlOK
<1>14. LawfulCaller => BatchOK' /\ PeakOK'
  <2>1. BatchOK'
    BY <1>1, <1>7 DEF BatchOK
  <2>2. \A t \in Owned' : t \in Owned \/ t = Len(trees) + 1
    BY <1>9 DEF Owned
  <2>3. LawfulCaller /\ ret = "oods" /\ Rematerializes => \A t \in Owned : Resident(trees[t]) = {}
    BY <1>1 DEF IInv, LawfulOK, PeakOK, Emptied, Building
  <2>4. LawfulCaller /\ ret = "oods" /\ Rematerializes => \A t \in Owned' : Resident(trees'[t]) = {}
    BY <1>5, <1>9, <2>2, <2>3 DEF Owned
  <2>. QED
    BY <1>1, <1>7, <2>1, <2>4 DEF PeakOK, Emptied
<1>15. /\ turn' \in 0 .. (Len(trees) + Len(Components) + 1) /\ at'.tree \in 0 .. (Len(trees) + 1)
  BY <1>1, <1>8, NoCursorFacts DEF IInv, ShapeOK
<1>16. pc' # "panic" /\ pc # "done"
  BY <1>1, <1>7
<1>. QED
  BY <1>1, <1>5, <1>10, <1>11, <1>12, <1>13, <1>14, <1>15, <1>16, AppendStep

------------------------------------------------------------------------------
(* The loop that brings evaluations back, a column at a time.                *)
LEMMA OneTreeUpdate ==
  ASSUME IInv, NEW t \in Owned, NEW u, Related(trees[t], u), IsTree(u),
         trees' = [trees EXCEPT ![t] = u]
  PROVE  /\ UpdatesTrees
         /\ trees'[t] = u /\ \A s \in DOMAIN trees \ {t} : trees'[s] = trees[s]
<1>1. /\ \A s \in DOMAIN trees : trees[s] \in TreeRecord /\ IsTree(trees[s])
      /\ t \in DOMAIN trees /\ trees' = [s \in DOMAIN trees |-> IF s = t THEN u ELSE trees[s]]
  BY TreeFacts DEF IInv, Owned, ShapeOK
<1>2. \A s \in DOMAIN trees : Related(trees[s], trees'[s]) /\ IsTree(trees'[s])
  BY <1>1, SelfRelated
<1>. QED
  BY <1>1, <1>2 DEF UpdatesTrees

(* The cursor: where the open batch lies, and what a lawful caller finds.    *)
LEMMA CursorFacts ==
  ASSUME IInv, InLoop, at.tree \in Owned
  PROVE  /\ trees[at.tree] \in TreeRecord /\ IsTree(trees[at.tree]) /\ at.tree \in DOMAIN trees
         /\ at.column \in Nat /\ at.start \in Nat /\ at.start < at.column
         /\ Pending(at.column) \subseteq Columns(trees[at.tree])
         /\ \A i \in Pending(at.column) : i < at.column
         /\ LawfulCaller =>
              /\ GuardsMatch(trees[at.tree]) /\ BuffersGoHome
              /\ \A i \in Pending(at.column) :
                   Evals(trees[at.tree], i) = IF Direct THEN "none" ELSE "heap"
<1>1. /\ trees[at.tree] \in TreeRecord /\ IsTree(trees[at.tree]) /\ at.tree \in DOMAIN trees
      /\ pc = "materialize"
  BY TreeFacts DEF IInv, Owned, InLoop
<1>2. /\ at.column \in Nat /\ at.start \in Nat /\ at.start < at.column
      /\ at.column <= Len(trees[at.tree].polys) + 1
  BY <1>1 DEF IInv, CursorOK
<1>3. Columns(trees[at.tree]) = 1 .. Len(trees[at.tree].polys) /\ Len(trees[at.tree].polys) \in Nat
  BY <1>1, ColumnFacts
<1>4. /\ Pending(at.column) \subseteq Columns(trees[at.tree])
      /\ \A i \in Pending(at.column) : i < at.column
  BY <1>2, <1>3 DEF Pending
<1>5. LawfulCaller =>
        /\ GuardsMatch(trees[at.tree]) /\ BuffersGoHome
        /\ \A i \in Pending(at.column) :
             Evals(trees[at.tree], i) = IF Direct THEN "none" ELSE "heap"
  BY <1>1 DEF IInv, LawfulOK, GuardsMatchColumns, BatchOK
<1>. QED
  BY <1>1, <1>2, <1>4, <1>5

(* The maps of a direct flush are parts of its batch.                        *)
LEMMA MapsAreRuns ==
  ASSUME NEW S, NEW maps \in MapsOf(S)
  PROVE  \E n \in Nat : maps \in [1 .. n -> SUBSET S]
<1>1. PICK n \in 0 .. Cardinality(S) : maps \in [1 .. n -> Runs(S)]
  BY DEF MapsOf
<1>2. n \in Nat /\ Runs(S) \subseteq SUBSET S
  BY <1>1 DEF Runs
<1>. QED
  BY <1>1, <1>2

(* A flush of the open batch leaves the columns of the batch resident.       *)
LEMMA FlushFacts ==
  ASSUME IInv, InLoop, NEW t \in Owned, t = at.tree, NEW S, S = {} \/ S = Pending(at.column),
         UNCHANGED <<setting, mode, store>>, Flush(t, trees[t], S)
  PROVE  \E u :
           /\ trees' = [trees EXCEPT ![t] = u]
           /\ Related(trees[t], u) /\ IsTree(u)
           /\ \A i \in Columns(trees[t]) \ S : Evals(u, i) = Evals(trees[t], i)
           /\ LawfulCaller => /\ GuardsMatch(u) /\ BuffersGoHome'
                              /\ Resident(u) = Resident(trees[t]) \cup S
<1>1. /\ trees[t] \in TreeRecord /\ IsTree(trees[t]) /\ at.start \in Nat
      /\ S \subseteq Columns(trees[t])
      /\ LawfulCaller => /\ GuardsMatch(trees[t]) /\ BuffersGoHome
                         /\ \A i \in S : Evals(trees[t], i) = IF Direct THEN "none" ELSE "heap"
  BY CursorFacts
<1>2. CASE S = {}
  <2>1. trees' = [trees EXCEPT ![t] = trees[t]] /\ handed' = handed
    BY <1>2 DEF Flush
  <2>2. LawfulCaller => GuardsMatch(trees[t]) /\ BuffersGoHome'
    BY <1>1, <2>1 DEF BuffersGoHome
  <2>. QED
    BY <1>1, <1>2, <2>1, <2>2, SelfRelated
<1>3. CASE S # {} /\ Direct
  <2>1. PICK maps \in MapsOf(S) :
          /\ trees' = [trees EXCEPT ![t] = MapGroups(SetEvals(trees[t], S, "heap"), maps)]
          /\ handed' = handed
    BY <1>3 DEF Flush
  <2>2. PICK n \in Nat : maps \in [1 .. n -> SUBSET S]
    BY MapsAreRuns
  <2> DEFINE v == SetEvals(trees[t], S, "heap")
             u == MapGroups(v, maps)
  <2>3. /\ Related(trees[t], v) /\ IsTree(v) /\ v \in TreeRecord /\ Columns(v) = Columns(trees[t])
        /\ GuardsMatch(trees[t]) /\ S \cap MappedColumns(trees[t]) = {} => GuardsMatch(v)
        /\ \A i \in Columns(trees[t]) : Evals(v, i) = IF i \in S THEN "heap" ELSE Evals(trees[t], i)
    BY <1>1, SetEvalsOffMaps DEF Related
  <2> HIDE DEF v
  <2>4. /\ Related(v, u) /\ IsTree(u)
        /\ GuardsMatch(v) => GuardsMatch(u)
        /\ \A i \in Columns(v) :
             Evals(u, i) = IF \E k \in 1 .. n : i \in maps[k] THEN "map" ELSE Evals(v, i)
    <3>1. maps \in [1 .. n -> SUBSET Columns(v)]
      BY <1>1, <2>2, <2>3
    <3>. QED
      BY <2>3, <3>1, MapGroupsFacts
  <2>5. Related(trees[t], u)
    BY <2>3, <2>4 DEF Related
  <2>6. trees' = [trees EXCEPT ![t] = u]
    BY <2>1 DEF v
  <2> HIDE DEF u
  <2>7. \A i \in Columns(trees[t]) :
          /\ i \in S => Evals(u, i) \in {"map", "heap"}
          /\ i \notin S => Evals(u, i) = Evals(trees[t], i)
    BY <2>2, <2>3, <2>4
  <2>8. Resident(u) = Resident(trees[t]) \cup S
    BY <1>1, <2>5, <2>7 DEF Resident, Related
  <2>9. ASSUME LawfulCaller PROVE GuardsMatch(u) /\ BuffersGoHome'
    <3>1. S \cap MappedColumns(trees[t]) = {}
      BY <1>1, <1>3, <2>9 DEF MappedColumns
    <3>. QED
      BY <1>1, <2>1, <2>3, <2>4, <2>9, <3>1 DEF BuffersGoHome
  <2>. QED
    BY <2>5, <2>6, <2>7, <2>8, <2>9, <2>4
<1>4. CASE S # {} /\ ~Direct
  <2>1. PICK moved \in SUBSET S :
          /\ trees' = [trees EXCEPT ![t] = SpillColumns(trees[t], at.start, moved)]
          /\ handed' = handed \cup HandedBySpill(trees[t], moved)
    BY <1>4 DEF Flush, Hand
  <2> DEFINE u == SpillColumns(trees[t], at.start, moved)
  <2>2. /\ Related(trees[t], u) /\ IsTree(u)
        /\ GuardsMatch(trees[t]) => GuardsMatch(u)
        /\ \A i \in Columns(trees[t]) : Evals(u, i) = IF i \in moved THEN "map" ELSE Evals(trees[t], i)
    <3>1. moved \in SUBSET Columns(trees[t]) /\ at.start \in Int
      BY <1>1
    <3>. QED
      BY <1>1, <3>1, SpillColumnsFacts
  <2>3. trees' = [trees EXCEPT ![t] = u]
    BY <2>1
  <2> HIDE DEF u
  <2>4. LawfulCaller => Resident(u) = Resident(trees[t]) \cup S
    <3>1. LawfulCaller => \A i \in S : Evals(trees[t], i) = "heap"
      BY <1>1, <1>4
    <3>. QED
      BY <1>1, <2>2, <3>1 DEF Resident, Related
  <2>5. ASSUME LawfulCaller PROVE BuffersGoHome'
    <3>1. HandedBySpill(trees[t], moved) \subseteq {<<"allocator", "heap">>}
      BY <1>1, <1>4, <2>5, HandedBySpillFacts
    <3>. QED
      BY <1>1, <2>1, <2>5, <3>1 DEF BuffersGoHome
  <2>. QED
    BY <1>1, <2>2, <2>3, <2>4, <2>5
<1>. QED
  BY <1>2, <1>3, <1>4

(* The cursor moves on to the next column of its tree.                       *)
LEMMA LoopStep ==
  ASSUME IInv, UNCHANGED <<setting, mode, store, new, todo, pc, ret, turn>>,
         NEW t, NEW i, CursorOn(t, i), NEW u, Related(trees[t], u), IsTree(u),
         trees' = [trees EXCEPT ![t] = u],
         NEW start \in 0 .. i, NEW bytes, NextColumn(start, bytes),
         LawfulCaller =>
           /\ BuffersGoHome' /\ GuardsMatch(u)
           /\ start # 0 => \A j \in start .. i : Evals(u, j) = IF Direct THEN "none" ELSE "heap"
           /\ \A j \in Resident(trees[t]) \cup Pending(i) \cup {i} :
                j \in Resident(u) \/ (start # 0 /\ j \in start .. i)
  PROVE  IInv' /\ TreesKept
<1>1. /\ pc = "materialize" /\ at.tree = t /\ at.column = i /\ t <= at.last /\ t \in Owned
      /\ t \in DOMAIN trees /\ i \in Columns(trees[t]) /\ InLoop /\ ShapeOK
  BY DEF CursorOn, InLoop, Owned, IInv
<1>2. /\ UpdatesTrees /\ trees'[t] = u /\ \A s \in DOMAIN trees \ {t} : trees'[s] = trees[s]
  BY <1>1, OneTreeUpdate
<1>3. /\ Len(trees') = Len(trees) /\ DOMAIN trees' = DOMAIN trees /\ Owned' = Owned
      /\ Columns(trees'[t]) = Columns(trees[t]) /\ Len(trees) \in Nat
      /\ DOMAIN trees = 1 .. Len(trees)
      /\ Components' = Components /\ Rematerializes' = Rematerializes /\ Direct' = Direct
      /\ \A s \in DOMAIN trees : Columns(trees'[s]) = Columns(trees[s])
  BY <1>1, <1>2, UpdateFacts, ComponentCount
<1>4. /\ i \in Nat /\ i <= Len(u.polys) /\ Len(u.polys) = Len(trees[t].polys) /\ i > 0
      /\ Len(trees[t].polys) \in Nat
  BY <1>1, TreeFacts, ColumnFacts DEF Related
<1>5. /\ at' = [tree |-> t, last |-> at.last, column |-> i + 1, start |-> start, bytes |-> bytes]
      /\ at.last \in Nat /\ t \in Nat
  <2>1. /\ at = [tree |-> at.tree, last |-> at.last, column |-> at.column, start |-> at.start,
                 bytes |-> at.bytes]
        /\ at.last \in Nat /\ at.tree \in Nat
    BY DEF IInv, CursorOK
  <2>2. at' = [at EXCEPT !.column = @ + 1, !.start = start, !.bytes = bytes]
    BY DEF NextColumn
  <2>. QED
    BY <1>1, <2>1, <2>2
<1>6. ControlOK'
  BY <1>1, <1>3 DEF IInv, ControlOK, Building, LowOnly
<1>7. CursorOK'
  BY <1>1, <1>2, <1>3, <1>4, <1>5 DEF IInv, CursorOK
<1>8. Pending(at.column)' = IF start = 0 THEN {} ELSE start .. i
  BY <1>4, <1>5 DEF Pending
<1>9. ASSUME LawfulCaller
      PROVE  /\ BatchOK' /\ PeakOK'
             /\ \A s \in DOMAIN trees : GuardsMatch(trees'[s])
             /\ ~Rematerializes => \A s \in DOMAIN trees : AllResident(trees'[s])
  <2>1. LawfulOK
    BY <1>9 DEF IInv
  <2>2. Rematerializes /\ BatchOK /\ PeakOK
    BY <1>1, <1>9, <2>1 DEF LawfulOK, BatchOK
  <2>3. \A s \in DOMAIN trees : GuardsMatch(trees'[s])
    BY <1>2, <1>9, <2>1 DEF LawfulOK, GuardsMatchColumns
  <2>4. \A j \in Pending(at.column)' : Evals(trees'[t], j) = IF Direct' THEN "none" ELSE "heap"
    BY <1>2, <1>3, <1>8, <1>9
  <2>5. ASSUME ret = "evaluate"
        PROVE  \A s \in Owned' :
                 /\ s < t => AllResident(trees'[s])
                 /\ s = t => \A j \in Columns(trees'[s]) :
                      j < i + 1 => j \in Resident(trees'[s]) \cup Pending(at.column)'
    <3>1. \A s \in Owned : s < t => AllResident(trees'[s])
      BY <1>1, <1>2, <1>5, <2>2, <2>5 DEF BatchOK, Owned
    <3>2. \A j \in Columns(trees[t]) : j < i + 1 => j \in Resident(trees[t]) \cup Pending(i) \cup {i}
      <4>1. \A j \in Columns(trees[t]) : j \in Nat
        BY <1>1, TreeFacts, ColumnFacts
      <4>2. \A j \in Columns(trees[t]) : j < i => j \in Resident(trees[t]) \cup Pending(i)
        BY <1>1, <2>2, <2>5 DEF BatchOK
      <4>. QED
        BY <1>4, <4>1, <4>2
    <3>3. \A j \in Resident(trees[t]) \cup Pending(i) \cup {i} :
            j \in Resident(trees'[t]) \cup Pending(at.column)'
      BY <1>2, <1>8, <1>9
    <3>. QED
      BY <1>3, <3>1, <3>2, <3>3
  <2>6. BatchOK'
    BY <1>1, <1>3, <1>5, <2>2, <2>4, <2>5 DEF BatchOK
  <2>7. PeakOK'
    <3>1. ret = "open" => t = turn
      BY <1>1, <1>5 DEF IInv, ControlOK, CursorOK
    <3>2. ret = "open" => \A s \in Owned : s # turn => Resident(trees'[s]) = {}
      BY <1>1, <1>2, <2>2, <3>1 DEF PeakOK, Owned
    <3>. QED
      BY <1>1, <1>3, <3>2 DEF PeakOK, Emptied, Building
  <2>. QED
    BY <2>2, <2>3, <2>6, <2>7
<1>10. /\ turn' \in 0 .. (Len(trees) + Len(Components) + 1) /\ at'.tree \in 0 .. (Len(trees) + 1)
  BY <1>1, <1>3, <1>5 DEF ShapeOK
<1>. QED
  BY <1>1, <1>2, <1>6, <1>7, <1>9, <1>10, UpdateStep

(* A column that is resident ends the batch before it.                       *)
LEMMA SkipResidentStep ==
  ASSUME IInv, NEW t \in DOMAIN trees, NEW i \in Columns(trees[t]), SkipResident(t, i)
  PROVE  IInv' /\ TreesKept
<1>1. /\ UNCHANGED <<setting, mode, store, new, todo, pc, ret, turn>>
      /\ CursorOn(t, i) /\ i \in Resident(trees[t])
      /\ Flush(t, trees[t], Pending(i)) /\ NextColumn(0, 0)
      /\ InLoop /\ t \in Owned /\ t = at.tree /\ i = at.column
  BY DEF SkipResident, CursorOn, scheme, build
<1>2. PICK u :
        /\ trees' = [trees EXCEPT ![t] = u]
        /\ Related(trees[t], u) /\ IsTree(u)
        /\ LawfulCaller => /\ GuardsMatch(u) /\ BuffersGoHome'
                           /\ Resident(u) = Resident(trees[t]) \cup Pending(i)
  BY <1>1, FlushFacts
<1>3. 0 \in 0 .. i
  BY <1>1, CursorFacts
<1>4. LawfulCaller =>
        \A j \in Resident(trees[t]) \cup Pending(i) \cup {i} : j \in Resident(u)
  BY <1>1, <1>2
<1>. QED
  BY <1>1, <1>2, <1>3, <1>4, LoopStep

(* The open batch with the column under the cursor added.                    *)
LEMMA GrownBatch ==
  ASSUME IInv, NEW t, NEW i, CursorOn(t, i),
         NEW start, start = IF at.start = 0 THEN i ELSE at.start
  PROVE  /\ i \in Nat /\ start \in 1 .. i /\ start .. i \subseteq Columns(trees[t])
         /\ start .. i = Pending(i) \cup {i} /\ i \notin Pending(i)
<1>1. InLoop /\ t \in Owned /\ t = at.tree /\ i = at.column /\ i \in Columns(trees[t])
  BY DEF CursorOn
<1>2. /\ i \in Nat /\ at.start \in Nat /\ at.start < i /\ trees[t] \in TreeRecord
  BY <1>1, CursorFacts
<1>3. Len(trees[t].polys) \in Nat /\ Columns(trees[t]) = 1 .. Len(trees[t].polys)
  BY <1>2, ColumnFacts
<1>4. i \in 1 .. Len(trees[t].polys)
  BY <1>1, <1>3
<1>. QED
  BY <1>2, <1>3, <1>4 DEF Pending

(* A column is evaluated on the heap and joins the open batch.               *)
LEMMA MaterializeOnHeapStep ==
  ASSUME IInv, NEW t \in DOMAIN trees, NEW i \in Columns(trees[t]), MaterializeOnHeap(t, i)
  PROVE  IInv' /\ TreesKept
<1> DEFINE start == IF at.start = 0 THEN i ELSE at.start
           made == SetEvals(trees[t], {i}, "heap")
<1>1. /\ UNCHANGED <<setting, mode, store, new, todo, pc, ret, turn>>
      /\ CursorOn(t, i) /\ i \notin Resident(trees[t]) /\ ~Direct
      /\ InLoop /\ t \in Owned /\ t = at.tree /\ i = at.column
      /\ \/ \E moved \in SUBSET (start .. i) :
              /\ trees' = [trees EXCEPT ![t] = SpillColumns(made, start, moved)]
              /\ handed' = handed \cup HandedBySpill(made, moved)
              /\ NextColumn(0, 0)
         \/ \E bytes : /\ trees' = [trees EXCEPT ![t] = made] /\ handed' = handed
                       /\ NextColumn(start, bytes)
  BY DEF MaterializeOnHeap, CursorOn, Hand, scheme, build
<1>2. /\ i \in Nat /\ start \in 1 .. i /\ start .. i \subseteq Columns(trees[t])
      /\ start .. i = Pending(i) \cup {i} /\ i \notin Pending(i)
  BY <1>1, GrownBatch
<1>3. /\ trees[t] \in TreeRecord /\ IsTree(trees[t])
      /\ LawfulCaller => /\ GuardsMatch(trees[t]) /\ BuffersGoHome
                         /\ \A j \in Pending(i) : Evals(trees[t], j) = "heap"
  BY <1>1, CursorFacts
<1>4. /\ Related(trees[t], made) /\ IsTree(made)
      /\ GuardsMatch(trees[t]) => GuardsMatch(made)
      /\ \A j \in Columns(trees[t]) : Evals(made, j) = IF j = i THEN "heap" ELSE Evals(trees[t], j)
  <2>1. {i} \cap MappedColumns(trees[t]) = {}
    BY <1>1 DEF Resident, MappedColumns
  <2>. QED
    BY <1>3, <2>1, SetEvalsOffMaps
<1>5. made \in TreeRecord /\ Columns(made) = Columns(trees[t])
  BY <1>4 DEF Related
<1> HIDE DEF start, made
<1>6. Resident(made) = Resident(trees[t]) \cup {i}
  BY <1>4, <1>5 DEF Resident
<1>7. LawfulCaller => \A j \in start .. i : Evals(made, j) = "heap" /\ j \in Resident(made)
  BY <1>2, <1>3, <1>4, <1>5 DEF Resident
<1>8. CASE \E bytes : /\ trees' = [trees EXCEPT ![t] = made] /\ handed' = handed
                      /\ NextColumn(start, bytes)
  <2>1. PICK bytes : /\ trees' = [trees EXCEPT ![t] = made] /\ handed' = handed
                     /\ NextColumn(start, bytes)
    BY <1>8
  <2>2. LawfulCaller => BuffersGoHome' /\ GuardsMatch(made)
    BY <1>3, <1>4, <2>1 DEF BuffersGoHome
  <2>3. start \in 0 .. i
    BY <1>2
  <2>. QED
    BY <1>1, <1>2, <1>4, <1>6, <1>7, <2>1, <2>2, <2>3, LoopStep
<1>9. CASE \E moved \in SUBSET (start .. i) :
              /\ trees' = [trees EXCEPT ![t] = SpillColumns(made, start, moved)]
              /\ handed' = handed \cup HandedBySpill(made, moved)
              /\ NextColumn(0, 0)
  <2>1. PICK moved \in SUBSET (start .. i) :
              /\ trees' = [trees EXCEPT ![t] = SpillColumns(made, start, moved)]
              /\ handed' = handed \cup HandedBySpill(made, moved)
              /\ NextColumn(0, 0)
    BY <1>9
  <2> DEFINE u == SpillColumns(made, start, moved)
  <2>2. /\ Related(made, u) /\ IsTree(u)
        /\ GuardsMatch(made) => GuardsMatch(u)
        /\ \A j \in Columns(made) : Evals(u, j) = IF j \in moved THEN "map" ELSE Evals(made, j)
    <3>1. moved \in SUBSET Columns(made) /\ start \in Int
      BY <1>2, <1>5
    <3>. QED
      BY <1>4, <1>5, <3>1, SpillColumnsFacts
  <2>3. trees' = [trees EXCEPT ![t] = u]
    BY <2>1
  <2> HIDE DEF u
  <2>4. Related(trees[t], u)
    BY <1>4, <2>2 DEF Related
  <2>5. Resident(made) \subseteq Resident(u)
    BY <1>5, <2>2, <2>4 DEF Resident, Related
  <2>6. ASSUME LawfulCaller
        PROVE  /\ BuffersGoHome' /\ GuardsMatch(u)
               /\ \A j \in Resident(trees[t]) \cup Pending(i) \cup {i} : j \in Resident(u)
    <3>1. HandedBySpill(made, moved) \subseteq {<<"allocator", "heap">>}
      BY <1>7, <2>6, HandedBySpillFacts
    <3>. QED
      BY <1>2, <1>3, <1>4, <1>6, <1>7, <2>1, <2>2, <2>5, <2>6, <3>1 DEF BuffersGoHome
  <2>7. 0 \in 0 .. i /\ NextColumn(0, 0)
    BY <1>2, <2>1
  <2>. QED
    BY <1>1, <2>2, <2>3, <2>4, <2>6, <2>7, LoopStep
<1>. QED
  BY <1>1, <1>8, <1>9

(* A column joins the open batch, which is evaluated into its map.           *)
LEMMA MaterializeDirectStep ==
  ASSUME IInv, NEW t \in DOMAIN trees, NEW i \in Columns(trees[t]), MaterializeDirect(t, i)
  PROVE  IInv' /\ TreesKept
<1> DEFINE start == IF at.start = 0 THEN i ELSE at.start
<1>1. /\ UNCHANGED <<setting, mode, store, new, todo, pc, ret, turn>>
      /\ CursorOn(t, i) /\ i \notin Resident(trees[t]) /\ Direct
      /\ InLoop /\ t \in Owned /\ t = at.tree /\ i = at.column
      /\ \E bytes :
           \/ Flush(t, trees[t], Pending(i)) /\ NextColumn(i, bytes)
           \/ UNCHANGED <<trees, handed>> /\ NextColumn(start, bytes)
  BY DEF MaterializeDirect, CursorOn, scheme, build
<1>2. /\ i \in Nat /\ start \in 1 .. i /\ start .. i \subseteq Columns(trees[t])
      /\ start .. i = Pending(i) \cup {i} /\ i \notin Pending(i)
  BY <1>1, GrownBatch
<1>3. /\ trees[t] \in TreeRecord /\ IsTree(trees[t])
      /\ LawfulCaller => /\ GuardsMatch(trees[t]) /\ BuffersGoHome
                         /\ \A j \in Pending(i) : Evals(trees[t], j) = "none"
  BY <1>1, CursorFacts
<1>4. Evals(trees[t], i) = "none"
  BY <1>1 DEF Resident
<1> HIDE DEF start
<1>5. PICK bytes : \/ Flush(t, trees[t], Pending(i)) /\ NextColumn(i, bytes)
                   \/ UNCHANGED <<trees, handed>> /\ NextColumn(start, bytes)
  BY <1>1
<1>6. CASE UNCHANGED <<trees, handed>> /\ NextColumn(start, bytes)
  <2>1. trees' = [trees EXCEPT ![t] = trees[t]]
    <3>1. trees = [s \in DOMAIN trees |-> trees[s]]
      BY DEF IInv, ShapeOK
    <3>. QED
      BY <1>6, <3>1
  <2>2. LawfulCaller =>
          /\ BuffersGoHome' /\ GuardsMatch(trees[t])
          /\ \A j \in start .. i : Evals(trees[t], j) = "none"
    BY <1>2, <1>3, <1>4, <1>6 DEF BuffersGoHome
  <2>3. start \in 0 .. i /\ start # 0
    BY <1>2
  <2>4. \A j \in Resident(trees[t]) \cup Pending(i) \cup {i} :
          j \in Resident(trees[t]) \/ j \in start .. i
    BY <1>2
  <2>5. Related(trees[t], trees[t]) /\ IsTree(trees[t])
    BY <1>3, SelfRelated
  <2>. QED
    BY <1>1, <1>6, <2>1, <2>2, <2>3, <2>4, <2>5, LoopStep
<1>7. CASE Flush(t, trees[t], Pending(i)) /\ NextColumn(i, bytes)
  <2>1. PICK u :
          /\ trees' = [trees EXCEPT ![t] = u]
          /\ Related(trees[t], u) /\ IsTree(u)
          /\ \A j \in Columns(trees[t]) \ Pending(i) : Evals(u, j) = Evals(trees[t], j)
          /\ LawfulCaller => /\ GuardsMatch(u) /\ BuffersGoHome'
                             /\ Resident(u) = Resident(trees[t]) \cup Pending(i)
    BY <1>1, <1>7, FlushFacts
  <2>2. i \in 0 .. i /\ i .. i = {i} /\ i # 0
    BY <1>2
  <2>3. \A j \in i .. i : Evals(u, j) = "none"
    BY <1>2, <1>4, <2>1, <2>2
  <2>4. LawfulCaller =>
          \A j \in Resident(trees[t]) \cup Pending(i) \cup {i} : j \in Resident(u) \/ j \in i .. i
    BY <2>1, <2>2
  <2>. QED
    BY <1>1, <1>7, <2>1, <2>2, <2>3, <2>4, LoopStep
<1>. QED
  BY <1>5, <1>6, <1>7

(* The cursor moves on to the next tree.                                     *)
LEMMA NextTreeStep == ASSUME IInv, NextTree PROVE IInv' /\ TreesKept
<1> DEFINE t == at.tree
<1>1. /\ UNCHANGED <<setting, mode, store, new, todo, pc, ret, turn>> /\ InLoop
      /\ pc = "materialize" /\ t <= at.last
      /\ at' = [tree |-> t + 1, last |-> at.last, column |-> 1, start |-> 0, bytes |-> 0]
      /\ IF t \in Owned
         THEN /\ at.column > Len(trees[t].polys)
              /\ Flush(t, trees[t], IF Direct THEN Pending(at.column) ELSE {})
         ELSE UNCHANGED <<trees, handed>>
  BY DEF NextTree, InLoop, NoCursor, scheme, build
<1>2. /\ at.tree \in Nat /\ at.last \in Nat /\ at.last <= Len(trees) /\ t \in 1 .. at.last
      /\ Len(trees) \in Nat /\ DOMAIN trees = 1 .. Len(trees) /\ t \in DOMAIN trees
      /\ ret = "open" => at.last = turn /\ t = turn
      /\ ret = "evaluate" => at.last = Len(trees)
  BY <1>1, ComponentCount DEF IInv, CursorOK, ControlOK
<1>3. /\ UpdatesTrees
      /\ \A s \in DOMAIN trees \ {t} : trees'[s] = trees[s]
      /\ LawfulCaller => BuffersGoHome' /\ \A s \in DOMAIN trees : GuardsMatch(trees'[s])
      /\ LawfulCaller /\ ret = "evaluate" /\ t \in Owned => AllResident(trees'[t])
  <2>1. CASE t \notin Owned
    <3>1. trees' = trees /\ handed' = handed
      BY <1>1, <2>1
    <3>. QED
      BY <2>1, <3>1, SameTreesUpdate DEF IInv, LawfulOK, BuffersGoHome, GuardsMatchColumns
  <2>2. CASE t \in Owned
    <3> DEFINE S == IF Direct THEN Pending(at.column) ELSE {}
    <3>1. PICK u :
            /\ trees' = [trees EXCEPT ![t] = u]
            /\ Related(trees[t], u) /\ IsTree(u)
            /\ LawfulCaller => /\ GuardsMatch(u) /\ BuffersGoHome'
                               /\ Resident(u) = Resident(trees[t]) \cup S
      <4>1. /\ InLoop /\ t \in Owned /\ t = at.tree /\ (S = {} \/ S = Pending(at.column))
            /\ UNCHANGED <<setting, mode, store>> /\ Flush(t, trees[t], S)
        BY <1>1, <2>2
      <4> HIDE DEF S
      <4>. QED
        BY <4>1, FlushFacts
    <3>2. UpdatesTrees /\ trees'[t] = u /\ \A s \in DOMAIN trees \ {t} : trees'[s] = trees[s]
      BY <2>2, <3>1, OneTreeUpdate
    <3>3. LawfulCaller => \A s \in DOMAIN trees : GuardsMatch(trees'[s])
      BY <3>1, <3>2 DEF IInv, LawfulOK, GuardsMatchColumns
    <3>4. ASSUME LawfulCaller, ret = "evaluate" PROVE AllResident(u)
      <4>1. /\ trees[t] \in TreeRecord /\ at.column \in Nat
            /\ \A i \in Pending(at.column) : Evals(trees[t], i) = IF Direct THEN "none" ELSE "heap"
            /\ Pending(at.column) \subseteq Columns(trees[t])
        BY <1>1, <2>2, <3>4, CursorFacts
      <4>2. \A i \in Columns(trees[t]) : i < at.column
        BY <1>1, <2>2, <4>1, ColumnFacts
      <4>3. \A i \in Columns(trees[t]) : i \in Resident(trees[t]) \cup Pending(at.column)
        BY <1>1, <2>2, <3>4, <4>2 DEF IInv, LawfulOK, BatchOK
      <4>4. \A i \in Columns(trees[t]) : i \in Resident(trees[t]) \cup S
        BY <4>1, <4>3 DEF Resident
      <4>5. Columns(u) = Columns(trees[t]) /\ Resident(u) \subseteq Columns(u)
        BY <3>1 DEF Related, Resident
      <4> HIDE DEF S
      <4>. QED
        BY <3>1, <3>4, <4>4, <4>5 DEF AllResident
    <3>. QED
      BY <3>1, <3>2, <3>3, <3>4
  <2>. QED
    BY <2>1, <2>2
<1>4. /\ Len(trees') = Len(trees) /\ DOMAIN trees' = DOMAIN trees /\ Owned' = Owned
      /\ Components' = Components /\ Rematerializes' = Rematerializes
      /\ \A s \in DOMAIN trees' : trees'[s] \in TreeRecord
  BY <1>1, <1>3, UpdateFacts DEF IInv, UpdatesTrees, Related
<1>5. ControlOK'
  BY <1>1, <1>4 DEF IInv, ControlOK, Building, LowOnly
<1>6. CursorOK'
  <2>1. \A s \in DOMAIN trees' : Len(trees'[s].polys) \in Nat
    BY <1>4, ColumnFacts
  <2>. QED
    BY <1>1, <1>2, <1>4, <2>1 DEF CursorOK
<1>7. ASSUME LawfulCaller
      PROVE  /\ BatchOK' /\ PeakOK'
             /\ ~Rematerializes => \A s \in DOMAIN trees : AllResident(trees'[s])
  <2>1. Rematerializes /\ BatchOK /\ PeakOK
    BY <1>1, <1>7 DEF IInv, LawfulOK, BatchOK
  <2>2. Pending(at.column)' = {}
    BY <1>1 DEF Pending
  <2>3. ASSUME ret = "evaluate", NEW s \in Owned
        PROVE  /\ s < t + 1 => AllResident(trees'[s])
               /\ \A j \in Columns(trees'[s]) : ~(j < 1)
    <3>1. s \in DOMAIN trees /\ s \in Nat
      BY <1>2 DEF Owned
    <3>2. s < t => AllResident(trees'[s])
      BY <1>1, <1>2, <1>3, <2>1, <2>3, <3>1 DEF BatchOK
    <3>3. s = t => AllResident(trees'[s])
      BY <1>3, <1>7, <2>3
    <3>4. \A j \in Columns(trees'[s]) : ~(j < 1)
      BY <1>4, <3>1, ColumnFacts
    <3>. QED
      BY <1>2, <3>1, <3>2, <3>3, <3>4
  <2>4. BatchOK'
    BY <1>1, <1>4, <2>1, <2>2, <2>3 DEF BatchOK
  <2>5. ret = "open" => \A s \in Owned : s # turn => Resident(trees'[s]) = {}
    BY <1>1, <1>2, <1>3, <2>1 DEF PeakOK, Owned
  <2>6. PeakOK'
    BY <1>1, <1>4, <2>5 DEF PeakOK, Emptied, Building
  <2>. QED
    BY <2>1, <2>4, <2>6
<1>8. /\ turn' \in 0 .. (Len(trees) + Len(Components) + 1) /\ at'.tree \in 0 .. (Len(trees) + 1)
  BY <1>1, <1>2 DEF IInv, ShapeOK
<1>9. /\ UNCHANGED <<setting, mode, store, new, todo>> /\ pc' # "panic" /\ UpdatesTrees
      /\ LawfulCaller => BuffersGoHome' /\ \A s \in DOMAIN trees : GuardsMatch(trees'[s])
  BY <1>1, <1>3
<1> HIDE DEF t
<1>. QED
  BY <1>5, <1>6, <1>7, <1>8, <1>9, UpdateStep

------------------------------------------------------------------------------
(* The steps of the caller before prove_ex,                                  *)
LEMMA SetupStep == ASSUME IInv, Setup PROVE IInv' /\ TreesKept
<1>1. CASE SetStore \/ \E m \in Modes : SetMode(m)
  BY <1>1, SetFlagsStep
<1>2. CASE \E n \in 0 .. MaxColumns : Commit(n)
  <2>1. PICK n \in 0 .. MaxColumns : Commit(n)
    BY <1>2
  <2>2. n \in Nat /\ n <= MaxColumns + CompositionColumns
    BY <2>1, SettingFacts DEF IInv, ShapeOK
  <2>. QED
    BY <2>1, <2>2, BeginCommitStep DEF Commit
<1>3. CASE \E t \in setting.given : CommitTree(t)
  BY <1>3, CommitTreeStep
<1>4. CASE Calls
  <2>1. CASE \E k \in DOMAIN Components : CallMaterialize(k)
    <3>1. PICK k \in DOMAIN Components : CallMaterialize(k)
      BY <2>1
    <3>2. MaterializePattern(k, "setup") /\ pc = "setup" /\ (LawfulCaller => Rematerializes)
      BY <3>1 DEF CallMaterialize, Between, Lawful, LawfulCaller
    <3>. QED
      BY <3>2, MaterializePatternStep
  <2>2. CASE CallMaterializeAll
    <3>1. MaterializeAll("setup") /\ pc = "setup" /\ (LawfulCaller => Rematerializes)
      BY <2>2 DEF CallMaterializeAll, Between, Lawful, LawfulCaller
    <3>. QED
      BY <3>1, MaterializeAllStep
  <2>. QED
    BY <1>4, <2>1, <2>2, CallStep DEF Calls
<1>. QED
  BY <1>1, <1>2, <1>3, <1>4, ProveStep DEF Setup

(* of the composition,                                                       *)
LEMMA CompositionStep == ASSUME IInv, Composition PROVE IInv' /\ TreesKept
<1>1. CASE MaterializeComponent
  <2>1. InComponent /\ turn \in DOMAIN Components /\ MaterializePattern(turn, "evaluate")
    BY <1>1 DEF MaterializeComponent, InComponent
  <2>. QED
    BY <2>1, MaterializePatternStep
<1>2. CASE MaterializeTrace
  <2>1. InComponent /\ ~Components[turn].declared /\ MaterializeAll("evaluate")
    BY <1>2 DEF MaterializeTrace
  <2>. QED
    BY <2>1, MaterializeAllStep
<1>3. CASE CommitComposition
  <2>1. /\ CompositionColumns \in Nat /\ CompositionColumns <= MaxColumns + CompositionColumns
        /\ pc = "commitComposition" /\ BeginCommit(CompositionColumns, "oods")
    BY <1>3, SettingFacts DEF CommitComposition, IInv, ShapeOK
  <2>. QED
    BY <2>1, BeginCommitStep
<1>. QED
  BY <1>1, <1>2, <1>3, ComposeStep, ComposePanicsStep, ReleaseTraceStep, SpillTraceStep,
     PatternPanicsStep, EvaluateStep, EvaluatePanicsStep, DropComponentStep, ReleaseComposedStep
     DEF Composition

(* of the opening,                                                           *)
LEMMA OpeningStep == ASSUME IInv, Opening PROVE IInv' /\ TreesKept
BY AbsorbStep, ValuesPanicStep, ReleaseOpenedStep, DrawQueriesStep, DecommitStep, OpenStep,
   FinishStep DEF Opening

(* and of the materialization loop.                                          *)
LEMMA MaterializeStep == ASSUME IInv, Materialize PROVE IInv' /\ TreesKept
BY SkipResidentStep, MaterializeOnHeapStep, MaterializeDirectStep, MaterializePanicsStep,
   NextTreeStep, LoopEndsStep DEF Materialize

(* The invariant is inductive, and every step keeps the trees.               *)
LEMMA NextStep == ASSUME IInv, [Next]_vars PROVE IInv' /\ TreesKept
<1>1. CASE Setup
  BY <1>1, SetupStep
<1>2. CASE NewTree
  BY <1>2, ExtendColumnStep, SpillNewStep, SpillExtensionStep, FinishTreeStep DEF NewTree
<1>3. CASE Composition
  BY <1>3, CompositionStep
<1>4. CASE Materialize
  BY <1>4, MaterializeStep
<1>5. CASE Opening
  BY <1>5, OpeningStep
<1>6. CASE Stopped \/ UNCHANGED vars
  BY <1>6, StutterStep DEF Stopped
<1>. QED
  BY <1>1, <1>2, <1>3, <1>4, <1>5, <1>6 DEF Next

(* The invariant holds in every state of every proof, whoever calls, and     *)
(* whichever file operations fail.                                           *)
THEOREM InvariantHolds == Spec => []IInv
<1>1. Init => IInv
  BY InitIInv
<1>2. IInv /\ [Next]_vars => IInv'
  BY NextStep
<1>. QED
  BY <1>1, <1>2, PTL DEF Spec

(* The trees, the tree under construction and the cursor have their shape in *)
(* every state, for a caller of any manners.                                 *)
THEOREM TypeCorrect == Spec => []TypeOK
<1>1. IInv => TypeOK
  BY DEF IInv, ShapeOK, TypeOK
<1>. QED
  BY <1>1, InvariantHolds, PTL

(* No column of a lawful caller points into a map that is gone, no map is    *)
(* freed as if it were heap memory, and no buffer leaks: forget, release,    *)
(* spill and materialize (prover/pcs/mod.rs) keep guards and columns matched *)
(* in any order prove_ex and the caller can put them.                        *)
THEOREM MappedMemorySound == Spec => []MappedMemoryIsSound
<1>1. IInv => MappedMemoryIsSound
  BY DEF IInv, LawfulOK, MappedMemoryIsSound
<1>. QED
  BY <1>1, InvariantHolds, PTL

(* A lawful caller reaches none of the panics of prove_ex and prove_values:  *)
(* each buffer that is read was kept, or can be recomputed and has been.     *)
THEOREM LawfulNeverPanics == Spec => []NoPanic
<1>1. IInv => NoPanic
  BY DEF IInv, LawfulOK, NoPanic
<1>. QED
  BY <1>1, InvariantHolds, PTL

(* Where memory peaks, in the modes that rematerialize, the trace is gone.   *)
THEOREM PeakStaysLow == Spec => []PeakIsLow
<1>1. IInv => PeakIsLow
  <2>1. SUFFICES ASSUME IInv, LawfulCaller, Rematerializes, NEW t \in Owned
        PROVE  /\ pc \in {"commitComposition", "fri", "grind", "queries", "done"}
                    => Resident(trees[t]) = {}
               /\ pc = "extend" /\ ret = "oods" => Resident(trees[t]) = {}
               /\ pc = "evaluate" /\ Components[turn].declared
                    => Resident(trees[t]) \subseteq UsedBy(turn, t)
               /\ pc = "open" /\ t # turn => Resident(trees[t]) = {}
    BY DEF PeakIsLow
  <2>2. PeakOK
    BY <2>1 DEF IInv, LawfulOK
  <2>. QED
    BY <2>1, <2>2 DEF PeakOK, Emptied, Building
<1>. QED
  BY <1>1, InvariantHolds, PTL

(* Every step of a behaviour keeps the trees.                                *)
LEMMA TreesAlwaysKept == Spec => [][TreesKept]_vars
<1>1. IInv /\ [Next]_vars => [TreesKept]_vars
  BY NextStep
<1>. QED
  BY <1>1, InvariantHolds, PTL DEF Spec

(* No step takes a column's coefficients away or brings them back from their *)
(* file.                                                                     *)
THEOREM CoefficientsAreKept == Spec => CoefficientsKept
<1>1. TreesKept => \A t \in DOMAIN trees : \A i \in Columns(trees[t]) :
        /\ HasCoefficients(trees[t], i) = HasCoefficients(trees'[t], i)
        /\ Coeffs(trees[t], i) = "file" => Coeffs(trees'[t], i) = "file"
  BY DEF TreesKept, Related
<1>. QED
  BY <1>1, TreesAlwaysKept, PTL DEF CoefficientsKept

(* Until the proof is done, every column of a lawful caller can be read or   *)
(* made again: what is released has coefficients, in memory or in a file.    *)
THEOREM ColumnsStayReadable == Spec => []NoColumnIsLost
<1>1. IInv => NoColumnIsLost
  <2>1. SUFFICES ASSUME IInv, LawfulCaller, pc # "done",
                        NEW t \in DOMAIN trees, NEW i \in Columns(trees[t])
        PROVE  HasCoefficients(trees[t], i) \/ Evals(trees[t], i) # "none"
    BY DEF NoColumnIsLost
  <2>2. CoefficientsOK /\ ResidentOK
    BY <2>1 DEF IInv, LawfulOK
  <2>3. CASE RetainCoefficients
    BY <2>2, <2>3 DEF CoefficientsOK, CanRecompute
  <2>4. CASE ~RetainCoefficients
    <3>1. AllResident(trees[t])
      BY <2>1, <2>2, <2>4 DEF ResidentOK, RetainCoefficients
    <3>. QED
      BY <3>1 DEF AllResident, Resident
  <2>. QED
    BY <2>3, <2>4
<1>. QED
  BY <1>1, InvariantHolds, PTL

------------------------------------------------------------------------------
(* The channel.  d operations of the script follow the roots of the trees.   *)
ChannelAt(d) ==
  \E k \in 0 .. Len(channel) :
    /\ \A i \in 1 .. k : channel[i] = Protocol!Root
    /\ k < Len(channel) => channel[k + 1] # Protocol!Root
    /\ Len(channel) - k = d

Operations == {Protocol!Script[i] : i \in 1 .. 8}

ChannelOK ==
  /\ channel \in Seq(Operations)
  /\ pc = "setup" \/ ((Building \/ pc = "materialize") /\ ret = "setup") => ChannelAt(0)
  /\ \/ pc \in {"compose", "releaseTrace", "spillTrace", "component", "evaluate",
                "dropComponent", "commitComposition"}
     \/ Building /\ ret = "oods"
     \/ pc = "materialize" /\ ret = "evaluate"
     => ChannelAt(1)
  /\ pc = "oods" => ChannelAt(2)
  /\ pc = "values" => ChannelAt(3)
  /\ pc = "quotients" => ChannelAt(4)
  /\ pc \in {"releaseOpened", "fri"} => ChannelAt(5)
  /\ pc = "grind" => ChannelAt(6)
  /\ pc = "queries" => ChannelAt(7)
  /\ pc \in {"decommit", "open", "done"} \/ (pc = "materialize" /\ ret = "open") => ChannelAt(8)

(* The operations of the protocol, one by one.                               *)
LEMMA ScriptFacts ==
  /\ Len(Protocol!Script) = 8 /\ Protocol!Root = "mix root"
  /\ Protocol!Script[1] = "draw composition coefficient" /\ Protocol!Script[2] = "mix root"
  /\ Protocol!Script[3] = "draw OODS point" /\ Protocol!Script[4] = "mix sampled values"
  /\ Protocol!Script[5] = "draw quotient coefficient" /\ Protocol!Script[6] = "FRI commit"
  /\ Protocol!Script[7] = "mix nonce" /\ Protocol!Script[8] = "draw queries"
BY DEF Protocol!Script, Protocol!Root

(* There are eight of them.                                                  *)
LEMMA ScriptLength == Len(Protocol!Script) = 8
BY ScriptFacts

(* The first is no root, so the roots of the trees before it can be told     *)
(* apart.                                                                    *)
LEMMA ScriptRoots ==
  Protocol!Script[1] # Protocol!Root /\ Protocol!Script[2] = Protocol!Root
BY DEF Protocol!Script, Protocol!Root

(* Protocol counts the operations after the longest prefix of roots:         *)
(* ChannelAt says how many.                                                  *)
LEMMA DrawnFacts ==
  ASSUME NEW S, channel \in Seq(S), NEW d \in Nat, ChannelAt(d) PROVE Protocol!Drawn = d
<1>1. PICK k \in 0 .. Len(channel) :
        /\ \A i \in 1 .. k : channel[i] = Protocol!Root
        /\ k < Len(channel) => channel[k + 1] # Protocol!Root
        /\ Len(channel) - k = d
  BY DEF ChannelAt
<1>2. Len(channel) \in Nat
  OBVIOUS
<1>3. k \in Protocol!Roots
  BY <1>1 DEF Protocol!Roots
<1>4. ASSUME NEW m \in Protocol!Roots PROVE m \in Nat /\ m <= k
  <2>1. m \in 0 .. Len(channel) /\ \A i \in 1 .. m : channel[i] = Protocol!Root
    BY <1>4 DEF Protocol!Roots
  <2>2. ~(k < m)
    <3>1. SUFFICES ASSUME k < m PROVE FALSE
      OBVIOUS
    <3>2. k < Len(channel) /\ k + 1 \in 1 .. m
      BY <1>1, <1>2, <2>1, <3>1
    <3>. QED
      BY <1>1, <2>1, <3>2
  <2>. QED
    BY <1>1, <1>2, <2>1, <2>2
<1>5. Protocol!Trees = k
  <2> DEFINE Largest(n) == n \in Protocol!Roots /\ \A m \in Protocol!Roots : m <= n
  <2>1. Largest(k)
    BY <1>3, <1>4
  <2>2. \A n : Largest(n) => n = k
    BY <1>1, <1>3, <1>4
  <2>3. Protocol!Trees = CHOOSE n \in Protocol!Roots : \A m \in Protocol!Roots : m <= n
    BY DEF Protocol!Trees
  <2>4. /\ Protocol!Trees \in Protocol!Roots
        /\ \A m \in Protocol!Roots : m <= Protocol!Trees
    BY <2>1, <2>3
  <2>. QED
    BY <2>2, <2>4
<1>. QED
  BY <1>1, <1>5 DEF Protocol!Drawn

(* A root joins the roots of the trees while no other operation has been     *)
(* performed,                                                                *)
LEMMA AddRoot ==
  ASSUME NEW S, channel \in Seq(S), Protocol!Root \in S, ChannelAt(0), channel' = Append(channel, Protocol!Root)
  PROVE  channel' \in Seq(S) /\ ChannelAt(0)'
<1>1. /\ Len(channel) \in Nat /\ \A i \in 1 .. Len(channel) : channel[i] = Protocol!Root
  BY DEF ChannelAt
<1>2. /\ channel' \in Seq(S) /\ Len(channel') = Len(channel) + 1
      /\ \A i \in 1 .. Len(channel) : channel'[i] = channel[i]
      /\ channel'[Len(channel) + 1] = Protocol!Root
  OBVIOUS
<1>3. \A i \in 1 .. Len(channel') : channel'[i] = Protocol!Root
  BY <1>1, <1>2
<1>4. Len(channel') \in 0 .. Len(channel') /\ Len(channel') - Len(channel') = 0
      /\ ~(Len(channel') < Len(channel'))
  BY <1>1, <1>2
<1>. QED
  BY <1>2, <1>3, <1>4 DEF ChannelAt

(* and any other operation, or a root after one, counts as the next of the   *)
(* script.                                                                   *)
LEMMA AddNext ==
  ASSUME NEW S, channel \in Seq(S), NEW d \in Nat, ChannelAt(d), NEW op \in S,
         d = 0 => op # Protocol!Root, channel' = Append(channel, op)
  PROVE  channel' \in Seq(S) /\ ChannelAt(d + 1)'
<1>1. PICK k \in 0 .. Len(channel) :
        /\ \A i \in 1 .. k : channel[i] = Protocol!Root
        /\ k < Len(channel) => channel[k + 1] # Protocol!Root
        /\ Len(channel) - k = d
  BY DEF ChannelAt
<1>2. /\ channel' \in Seq(S) /\ Len(channel') = Len(channel) + 1 /\ Len(channel) \in Nat
      /\ \A i \in 1 .. Len(channel) : channel'[i] = channel[i]
      /\ channel'[Len(channel) + 1] = op
  OBVIOUS
<1>3. /\ k \in 0 .. Len(channel') /\ Len(channel') - k = d + 1
      /\ \A i \in 1 .. k : channel'[i] = Protocol!Root
  BY <1>1, <1>2
<1>4. channel'[k + 1] # Protocol!Root
  <2>1. CASE k < Len(channel)
    BY <1>1, <1>2, <2>1
  <2>2. CASE k = Len(channel)
    BY <1>1, <1>2, <2>2
  <2>. QED
    BY <1>1, <2>1, <2>2
<1>. QED
  BY <1>2, <1>3, <1>4 DEF ChannelAt

Composing ==
  pc \in {"compose", "releaseTrace", "spillTrace", "component", "evaluate", "dropComponent",
          "commitComposition"}

(* The control moves within one stage of the script, or panics.              *)
SameStage ==
  \/ UNCHANGED <<pc, ret>> \/ pc' = "panic"
  \/ pc = "setup" /\ pc' \in {"extend", "spillNew", "materialize"} /\ ret' = "setup"
  \/ Building /\ Building' /\ ret' = ret
  \/ Composing /\ Composing'
  \/ Composing /\ pc' \in {"extend", "spillNew"} /\ ret' = "oods"
  \/ Composing /\ pc' = "materialize" /\ ret' = "evaluate"
  \/ pc = "materialize" /\ pc' = ret /\ ret' = ret
  \/ pc = "releaseOpened" /\ pc' = "fri"
  \/ pc \in {"decommit", "open"} /\ pc' \in {"decommit", "open"}
  \/ pc = "decommit" /\ pc' = "materialize" /\ ret' = "open"

SilentStep ==
  \/ SetStore \/ (\E m \in Modes : SetMode(m)) \/ (\E n \in 0 .. MaxColumns : Commit(n)) \/ Calls
  \/ ExtendColumn \/ SpillNewCoefficients \/ SpillExtension
  \/ Composition \/ Materialize
  \/ SampleValuesPanics \/ QuotientsPanic \/ ReleaseOpened \/ Decommit \/ Open

(* Steps the channel does not see stay between the same two operations.      *)
LEMMA SilentFacts ==
  ASSUME ControlOK, SilentStep
  PROVE  channel' = channel /\ SameStage /\ pc # "done" /\ pc' # "done"
<1> SUFFICES ASSUME SilentStep, ~ (pc' = "panic" /\ UNCHANGED channel /\ pc # "done")
             PROVE  channel' = channel /\ SameStage /\ pc # "done" /\ pc' # "done"
  BY DEF SameStage
<1>1. CASE SetStore \/ (\E m \in Modes : SetMode(m))
  BY <1>1 DEF SetStore, SetMode, SameStage
<1>2. CASE \E n \in 0 .. MaxColumns : Commit(n)
  BY <1>2 DEF Commit, BeginCommit, AfterBegin, SameStage
<1>3. CASE Calls
  BY <1>3 DEF Calls, CallMaterialize, CallDrop, CallMaterializeAll, CallRelease, CallSpill, Between,
     MaterializePattern, MaterializeAll, SameStage
<1>4. CASE ExtendColumn \/ SpillNewCoefficients \/ SpillExtension
  BY <1>4 DEF ExtendColumn, SpillNewCoefficients, SpillExtension, Building, SameStage
<1>5. CASE Composition
  <2>1. CASE Compose \/ ComposePanics \/ ReleaseTrace \/ SpillTrace
    BY <2>1 DEF Compose, ComposePanics, ReleaseTrace, SpillTrace, Panic, Composing, SameStage
  <2>2. CASE MaterializeComponent \/ MaterializeTrace \/ MaterializePatternPanics
    BY <2>2 DEF MaterializeComponent, MaterializeTrace, MaterializePatternPanics, Panic,
       MaterializePattern, MaterializeAll, InComponent, Composing, SameStage
  <2>3. CASE EvaluateComponent \/ EvaluatePanics \/ DropComponent \/ ReleaseComposed
    BY <2>3 DEF EvaluateComponent, EvaluatePanics, DropComponent, ReleaseComposed, Panic,
       Composing, SameStage
  <2>4. CASE CommitComposition
    BY <2>4 DEF CommitComposition, BeginCommit, AfterBegin, Composing, SameStage
  <2>. QED
    BY <1>5, <2>1, <2>2, <2>3, <2>4 DEF Composition
<1>6. CASE Materialize
  <2>1. CASE \E t \in DOMAIN trees : \E i \in Columns(trees[t]) :
               SkipResident(t, i) \/ MaterializeOnHeap(t, i) \/ MaterializeDirect(t, i)
    <3>1. UNCHANGED <<pc, ret, channel>> /\ pc = "materialize"
      <4>1. ASSUME NEW t \in DOMAIN trees, NEW i \in Columns(trees[t]),
                   SkipResident(t, i) \/ MaterializeOnHeap(t, i) \/ MaterializeDirect(t, i)
            PROVE  CursorOn(t, i) /\ UNCHANGED <<pc, ret, channel>>
        <5>1. CASE SkipResident(t, i)
          BY ONLY <5>1, Zenon DEF SkipResident
        <5>2. CASE MaterializeOnHeap(t, i)
          BY ONLY <5>2, Zenon DEF MaterializeOnHeap
        <5>3. CASE MaterializeDirect(t, i)
          BY ONLY <5>3, Zenon DEF MaterializeDirect
        <5>. QED
          BY ONLY <4>1, <5>1, <5>2, <5>3
      <4>. QED
        BY ONLY <2>1, <4>1, Zenon DEF CursorOn, InLoop
    <3>. QED
      BY <3>1 DEF SameStage
  <2>2. CASE \E t \in DOMAIN trees : \E i \in Columns(trees[t]) : MaterializePanics(t, i)
    BY <2>2 DEF MaterializePanics, Panic, CursorOn, InLoop, SameStage
  <2>3. CASE NextTree \/ LoopEnds
    BY <2>3 DEF NextTree, LoopEnds, InLoop, SameStage, ControlOK
  <2>. QED
    BY <1>6, <2>1, <2>2, <2>3 DEF Materialize
<1>7. CASE SampleValuesPanics \/ QuotientsPanic \/ ReleaseOpened
  BY <1>7 DEF SampleValuesPanics, QuotientsPanic, ReleaseOpened, Panic, SameStage
<1>8. CASE Decommit \/ Open
  BY <1>8 DEF Decommit, Open, Panic, SameStage
<1>. QED
  BY <1>1, <1>2, <1>3, <1>4, <1>5, <1>6, <1>7, <1>8 DEF SilentStep

(* They keep the channel where it is.                                        *)
LEMMA SilentKeepsChannel ==
  ASSUME ControlOK, ChannelOK, channel' = channel, SameStage, pc' # "done"
  PROVE  ChannelOK'
<1>1. \A d \in 0 .. 8 : ChannelAt(d) => ChannelAt(d)'
  BY DEF ChannelAt
<1>2. ChannelAt(0) => ChannelAt(0)'
  BY <1>1
<1>3. ChannelAt(1) => ChannelAt(1)'
  BY <1>1
<1>4. ChannelAt(2) => ChannelAt(2)'
  BY <1>1
<1>5. ChannelAt(3) => ChannelAt(3)'
  BY <1>1
<1>6. ChannelAt(4) => ChannelAt(4)'
  BY <1>1
<1>7. ChannelAt(5) => ChannelAt(5)'
  BY <1>1
<1>8. ChannelAt(6) => ChannelAt(6)'
  BY <1>1
<1>9. ChannelAt(7) => ChannelAt(7)'
  BY <1>1
<1>10. ChannelAt(8) => ChannelAt(8)'
  BY <1>1
<1>. QED
  BY <1>2, <1>3, <1>4, <1>5, <1>6, <1>7, <1>8, <1>9, <1>10
     DEF ChannelOK, SameStage, Composing, Building, ControlOK

(* The next operation of the script is a step of the protocol.               *)
LEMMA NextOperation ==
  ASSUME channel \in Seq(Operations), NEW d \in 0 .. 7, NEW e, e = d + 1, ChannelAt(d),
         channel' = Append(channel, Protocol!Script[e]), pc # "done", pc' # "done"
  PROVE  channel' \in Seq(Operations) /\ ChannelAt(e)' /\ Protocol!Step
<1>1. Protocol!Drawn = d /\ d \in Nat
  BY DrawnFacts
<1>2. Protocol!Step
  BY <1>1, ScriptLength DEF Protocol!Step
<1> DEFINE op == Protocol!Script[e]
<1>3. op \in Operations
  BY DEF Operations
<1>4. d = 0 => op # Protocol!Root
  BY ScriptRoots
<1>5. channel' = Append(channel, op)
  OBVIOUS
<1> HIDE DEF op
<1>6. ChannelAt(d + 1)' /\ channel' \in Seq(Operations)
  BY <1>1, <1>3, <1>4, <1>5, AddNext
<1>. QED
  BY <1>2, <1>6 DEF ChannelAt

(* The root of a tree is an operation of the script.                         *)
LEMMA RootIsOperation == Protocol!Root \in Operations
<1>1. 2 \in 1 .. 8
  OBVIOUS
<1>2. PICK two \in 1 .. 8 : two = 2
  BY <1>1, Zenon
<1>3. Protocol!Script[two] \in Operations
  BY <1>2, Zenon DEF Operations
<1>4. Protocol!Script[two] = Protocol!Root
  BY <1>2, ScriptRoots, Zenon
<1>. QED
  BY <1>3, <1>4, Zenon

(* The root of a tree of the trace is a step of the protocol before the      *)
(* script starts.                                                            *)
LEMMA FirstRoots ==
  ASSUME channel \in Seq(Operations), ChannelAt(0), channel' = Append(channel, "mix root"),
         pc # "done", pc' # "done"
  PROVE  channel' \in Seq(Operations) /\ ChannelAt(0)' /\ Protocol!CommitTree
<1>1. Protocol!Drawn = 0
  BY DrawnFacts
<1>2. Protocol!Root \in Operations /\ Protocol!Root = "mix root"
  <2>1. Protocol!Root \in Operations
    BY RootIsOperation
  <2>. QED
    BY <2>1 DEF Protocol!Root
<1>3. Protocol!CommitTree
  BY <1>1, <1>2 DEF Protocol!CommitTree
<1>4. channel' = Append(channel, Protocol!Root)
  BY <1>2
<1>. QED
  BY <1>2, <1>3, <1>4, AddRoot

(* Every step of the prover is a step of the protocol or leaves it           *)
(* unchanged.                                                                *)
LEMMA ProtocolStep ==
  ASSUME IInv, ChannelOK, [Next]_vars
  PROVE  ChannelOK' /\ [Protocol!Next]_(Protocol!vars)
<1> USE DEF Protocol!Next, Protocol!vars
<1>1. ControlOK /\ channel \in Seq(Operations)
  BY DEF IInv, ChannelOK
<1>2. CASE SilentStep
  BY <1>1, <1>2, SilentFacts, SilentKeepsChannel
<1>3. CASE (\E t \in setting.given : CommitTree(t)) \/ (FinishTree /\ ret = "setup")
  <2>1. /\ pc' = "setup" /\ channel' = Append(channel, "mix root") /\ pc # "done" /\ ChannelAt(0)
    BY <1>3 DEF CommitTree, FinishTree, ChannelOK, Building
  <2>2. channel' \in Seq(Operations) /\ ChannelAt(0)' /\ Protocol!CommitTree
    BY <1>1, <2>1, FirstRoots
  <2>. QED
    BY <2>1, <2>2 DEF ChannelOK, Building
<1>4. CASE Prove
  <2>1. /\ pc' \in {"releaseTrace", "compose"} /\ pc = "setup" /\ ChannelAt(0)
        /\ channel' = Append(channel, Protocol!Script[1])
    BY <1>4, ScriptFacts DEF Prove, ChannelOK
  <2>2. channel' \in Seq(Operations) /\ ChannelAt(1)' /\ Protocol!Step
    <3>1. 0 \in 0 .. 7 /\ 1 = 0 + 1
      OBVIOUS
    <3>. QED
      BY <1>1, <2>1, <3>1, NextOperation
  <2>. QED
    BY <2>1, <2>2 DEF ChannelOK, Building
<1>5. CASE FinishTree /\ ret = "oods"
  <2>1. /\ pc' = "oods" /\ pc = "merkle" /\ ChannelAt(1)
        /\ channel' = Append(channel, Protocol!Script[2])
    BY <1>5, ScriptFacts DEF FinishTree, ChannelOK, Building
  <2>2. channel' \in Seq(Operations) /\ ChannelAt(2)' /\ Protocol!Step
    <3>1. 1 \in 0 .. 7 /\ 2 = 1 + 1
      OBVIOUS
    <3>. QED
      BY <1>1, <2>1, <3>1, NextOperation
  <2>. QED
    BY <2>1, <2>2 DEF ChannelOK, Building
<1>6. CASE DrawOods
  <2>1. /\ pc' = "values" /\ pc = "oods" /\ ChannelAt(2)
        /\ channel' = Append(channel, Protocol!Script[3])
    BY <1>6, ScriptFacts DEF DrawOods, Absorb, ChannelOK
  <2>2. channel' \in Seq(Operations) /\ ChannelAt(3)' /\ Protocol!Step
    <3>1. 2 \in 0 .. 7 /\ 3 = 2 + 1
      OBVIOUS
    <3>. QED
      BY <1>1, <2>1, <3>1, NextOperation
  <2>. QED
    BY <2>1, <2>2 DEF ChannelOK, Building
<1>7. CASE SampleValues
  <2>1. /\ pc' = "quotients" /\ pc = "values" /\ ChannelAt(3)
        /\ channel' = Append(channel, Protocol!Script[4])
    BY <1>7, ScriptFacts DEF SampleValues, Absorb, ChannelOK
  <2>2. channel' \in Seq(Operations) /\ ChannelAt(4)' /\ Protocol!Step
    <3>1. 3 \in 0 .. 7 /\ 4 = 3 + 1
      OBVIOUS
    <3>. QED
      BY <1>1, <2>1, <3>1, NextOperation
  <2>. QED
    BY <2>1, <2>2 DEF ChannelOK, Building
<1>8. CASE Quotients
  <2>1. /\ pc' \in {"releaseOpened", "fri"} /\ pc = "quotients" /\ ChannelAt(4)
        /\ channel' = Append(channel, Protocol!Script[5])
    BY <1>8, ScriptFacts DEF Quotients, Absorb, ChannelOK
  <2>2. channel' \in Seq(Operations) /\ ChannelAt(5)' /\ Protocol!Step
    <3>1. 4 \in 0 .. 7 /\ 5 = 4 + 1
      OBVIOUS
    <3>. QED
      BY <1>1, <2>1, <3>1, NextOperation
  <2>. QED
    BY <2>1, <2>2 DEF ChannelOK, Building
<1>9. CASE FriCommit
  <2>1. /\ pc' = "grind" /\ pc = "fri" /\ ChannelAt(5)
        /\ channel' = Append(channel, Protocol!Script[6])
    BY <1>9, ScriptFacts DEF FriCommit, Absorb, ChannelOK
  <2>2. channel' \in Seq(Operations) /\ ChannelAt(6)' /\ Protocol!Step
    <3>1. 5 \in 0 .. 7 /\ 6 = 5 + 1
      OBVIOUS
    <3>. QED
      BY <1>1, <2>1, <3>1, NextOperation
  <2>. QED
    BY <2>1, <2>2 DEF ChannelOK, Building
<1>10. CASE Grind
  <2>1. /\ pc' = "queries" /\ pc = "grind" /\ ChannelAt(6)
        /\ channel' = Append(channel, Protocol!Script[7])
    BY <1>10, ScriptFacts DEF Grind, Absorb, ChannelOK
  <2>2. channel' \in Seq(Operations) /\ ChannelAt(7)' /\ Protocol!Step
    <3>1. 6 \in 0 .. 7 /\ 7 = 6 + 1
      OBVIOUS
    <3>. QED
      BY <1>1, <2>1, <3>1, NextOperation
  <2>. QED
    BY <2>1, <2>2 DEF ChannelOK, Building
<1>11. CASE DrawQueries
  <2>1. /\ pc' = "decommit" /\ pc = "queries" /\ ChannelAt(7)
        /\ channel' = Append(channel, Protocol!Script[8])
    BY <1>11, ScriptFacts DEF DrawQueries, ChannelOK
  <2>2. channel' \in Seq(Operations) /\ ChannelAt(8)' /\ Protocol!Step
    <3>1. 7 \in 0 .. 7 /\ 8 = 7 + 1
      OBVIOUS
    <3>. QED
      BY <1>1, <2>1, <3>1, NextOperation
  <2>. QED
    BY <2>1, <2>2 DEF ChannelOK, Building
<1>12. CASE Finish
  <2>1. pc = "decommit" /\ pc' = "done" /\ channel' = channel /\ ChannelAt(8)
    BY <1>12 DEF Finish, ChannelOK
  <2>2. Protocol!Drawn = 8
    BY <1>1, <2>1, DrawnFacts
  <2>3. Protocol!Answer
    BY <2>1, <2>2, ScriptFacts DEF Protocol!Answer
  <2>4. ChannelAt(8)'
    BY <2>1 DEF ChannelAt
  <2>. QED
    BY <1>1, <2>1, <2>3, <2>4 DEF ChannelOK, Building
<1>13. CASE Stopped \/ UNCHANGED vars
  <2>1. UNCHANGED <<pc, ret, channel>>
    BY <1>13 DEF Stopped, vars
  <2>2. ChannelOK'
    BY <2>1 DEF ChannelOK, Building, ChannelAt
  <2>. QED
    BY <2>1, <2>2
<1>14. FinishTree => ret \in {"setup", "oods"}
  BY <1>1 DEF FinishTree, ControlOK, Building
<1>. QED
  BY <1>2, <1>3, <1>4, <1>5, <1>6, <1>7, <1>8, <1>9, <1>10, <1>11, <1>12, <1>13, <1>14
     DEF Next, Setup, NewTree, Opening, SilentStep

(* In every mode, and whatever the caller does to its trees between commits, *)
(* prove_ex and prove_values put the operations on the channel in the one    *)
(* order of ProvingProtocol: a step of the prover is a step of the protocol, *)
(* or the channel does not see it.                                           *)
THEOREM RefinesProtocol == Spec => ImplementsProtocol
<1>1. Init => ChannelOK /\ Protocol!Init
  <2>1. SUFFICES ASSUME Init PROVE ChannelOK /\ Protocol!Init
    OBVIOUS
  <2>2. channel = <<>> /\ pc = "setup"
    BY <2>1 DEF Init
  <2>3. ChannelAt(0)
    BY <2>2 DEF ChannelAt
  <2>. QED
    BY <2>2, <2>3 DEF ChannelOK, Building, Protocol!Init
<1>2. IInv /\ ChannelOK /\ [Next]_vars => ChannelOK' /\ [Protocol!Next]_(Protocol!vars)
  BY ProtocolStep
<1>. QED
  BY <1>1, <1>2, InvariantHolds, PTL DEF Spec, ImplementsProtocol, Protocol!Spec

------------------------------------------------------------------------------
(* The bytes of a tree on the heap are a sum over its columns, and what is   *)
(* known of sums is by induction on the column: a set of naturals with zero  *)
(* and the successors of its members has all.                                *)
LEMMA Counting ==
  ASSUME NEW S, 0 \in S, \A k \in Nat : k \in S => k + 1 \in S
  PROVE  \A n \in Nat : n \in S
<1> DEFINE T == Nat \ S
<1> SUFFICES ASSUME T # {} PROVE FALSE
  OBVIOUS
<1>1. T \subseteq Nat
  OBVIOUS
<1> HIDE DEF T
<1>2. PICK m \in T : \A c \in T : ~(<<c, m>> \in OpToRel(<, Nat))
  BY <1>1, NatLessThanWellFounded, WFMin
<1>3. m \in Nat /\ m \notin S
  BY DEF T
<1>4. m # 0 /\ m - 1 \in Nat
  BY <1>3
<1>5. m - 1 \in S
  <2>1. <<m - 1, m>> \in OpToRel(<, Nat)
    <3>1. m - 1 < m
      BY <1>3
    <3>. QED
      BY <1>3, <1>4, <3>1, Zenon DEF OpToRel
  <2>. QED
    BY <1>2, <1>4, <2>1 DEF T
<1>6. (m - 1) + 1 = m
  BY <1>3
<1>. QED
  BY <1>3, <1>4, <1>5, <1>6

(* There is a function that sums the first values of a sequence.             *)
LEMMA PrefixSums ==
  ASSUME NEW n \in Nat, NEW w \in [1 .. n -> Nat]
  PROVE  \E f : f = [i \in 0 .. n |-> IF i = 0 THEN 0 ELSE f[i - 1] + w[i]]
<1> DEFINE Sums(f, k) == f = [i \in 0 .. k |-> IF i = 0 THEN 0 ELSE f[i - 1] + w[i]]
           S == {k \in Nat : k <= n => \E f : Sums(f, k)}
<1>1. 0 \in S
  <2>1. Sums([i \in 0 .. 0 |-> 0], 0)
    OBVIOUS
  <2>. QED
    BY <2>1
<1>2. ASSUME NEW k \in Nat, k \in S PROVE k + 1 \in S
  <2>1. SUFFICES ASSUME k + 1 <= n PROVE \E f : Sums(f, k + 1)
    BY <1>2
  <2>2. PICK f : Sums(f, k)
    BY <1>2, <2>1
  <2> DEFINE g == [i \in 0 .. k + 1 |-> IF i = k + 1 THEN f[k] + w[k + 1] ELSE f[i]]
  <2>3. \A i \in 0 .. k : g[i] = f[i] /\ i # k + 1
    OBVIOUS
  <2>4. \A i \in 0 .. k : f[i] = IF i = 0 THEN 0 ELSE f[i - 1] + w[i]
    BY <2>2
  <2>5. ASSUME NEW i \in 0 .. k + 1
        PROVE  g[i] = IF i = 0 THEN 0 ELSE g[i - 1] + w[i]
    <3>1. CASE i = k + 1
      <4>1. i # 0 /\ i - 1 = k /\ k \in 0 .. k
        BY <3>1
      <4>2. g[i] = f[k] + w[k + 1]
        BY <3>1
      <4>. QED
        BY <2>3, <3>1, <4>1, <4>2
    <3>2. CASE i # k + 1
      <4>1. i \in 0 .. k /\ (i # 0 => i - 1 \in 0 .. k)
        BY <3>2
      <4>. QED
        BY <2>3, <2>4, <4>1
    <3>. QED
      BY <3>1, <3>2
  <2>6. g = [i \in 0 .. k + 1 |-> g[i]]
    OBVIOUS
  <2> HIDE DEF g
  <2>7. Sums(g, k + 1)
    BY <2>5, <2>6
  <2>. QED
    BY <2>7
<1> HIDE DEF S
<1>3. n \in S
  BY <1>1, <1>2, Counting
<1>. QED
  BY <1>3 DEF S

(* The bytes a column has on the heap, and the sums of HeapBytes.            *)
BytesOn(t, i) == IF Evals(t, i) = "heap" THEN ColumnBytes[i] ELSE 0
HeapSums(t) ==
  CHOOSE upTo :
    upTo = [i \in 0 .. Len(t.polys) |->
              IF i = 0 THEN 0
              ELSE upTo[i - 1] + (IF Evals(t, i) = "heap" THEN ColumnBytes[i] ELSE 0)]
Wide(t) == t \in TreeRecord /\ Len(t.polys) <= Len(ColumnBytes)

(* HeapBytes adds column after column.                                       *)
LEMMA HeapSumFacts ==
  ASSUME NEW t, Wide(t)
  PROVE  /\ Len(t.polys) \in Nat /\ Columns(t) = 1 .. Len(t.polys)
         /\ HeapBytes(t) = HeapSums(t)[Len(t.polys)]
         /\ HeapSums(t)[0] = 0
         /\ \A i \in 1 .. Len(t.polys) :
              BytesOn(t, i) \in Nat /\ HeapSums(t)[i] = HeapSums(t)[i - 1] + BytesOn(t, i)
<1>1. Len(t.polys) \in Nat /\ Columns(t) = 1 .. Len(t.polys)
  BY ColumnFacts DEF Wide
<1> DEFINE n == Len(t.polys)
           w == [i \in 1 .. n |-> BytesOn(t, i)]
<1>2. \A i \in 1 .. n : BytesOn(t, i) \in Nat
  <2>1. \A i \in 1 .. n : ColumnBytes[i] \in Nat
    BY <1>1, ProverConstants DEF Wide
  <2>. QED
    BY <2>1 DEF BytesOn
<1>3. n \in Nat /\ w \in [1 .. n -> Nat] /\ \A i \in 1 .. n : w[i] = BytesOn(t, i)
  BY <1>1, <1>2
<1>4. PICK f : f = [i \in 0 .. n |-> IF i = 0 THEN 0 ELSE f[i - 1] + w[i]]
  <2> HIDE DEF n, w
  <2>. QED
    BY <1>3, PrefixSums
<1>5. f = [i \in 0 .. n |-> IF i = 0 THEN 0
                            ELSE f[i - 1] + (IF Evals(t, i) = "heap" THEN ColumnBytes[i] ELSE 0)]
  <2>1. \A i \in 0 .. n : i # 0 => w[i] = IF Evals(t, i) = "heap" THEN ColumnBytes[i] ELSE 0
    BY <1>1, <1>3 DEF BytesOn
  <2> HIDE DEF w, n
  <2>. QED
    BY <1>4, <2>1
<1>6. HeapSums(t) = [i \in 0 .. n |-> IF i = 0 THEN 0
                 ELSE HeapSums(t)[i - 1] + (IF Evals(t, i) = "heap" THEN ColumnBytes[i] ELSE 0)]
  BY <1>5, Zenon DEF HeapSums
<1>7. HeapBytes(t) = HeapSums(t)[n]
  BY Zenon DEF HeapBytes, HeapSums
<1>8. HeapSums(t)[0] = 0 /\ \A i \in 1 .. n : HeapSums(t)[i] = HeapSums(t)[i - 1] + BytesOn(t, i)
  <2> HIDE DEF w
  <2>1. \A i \in 0 .. n : HeapSums(t)[i] = IF i = 0 THEN 0
                 ELSE HeapSums(t)[i - 1] + (IF Evals(t, i) = "heap" THEN ColumnBytes[i] ELSE 0)
    BY <1>6
  <2>. QED
    BY <1>1, <2>1 DEF BytesOn
<1>. QED
  BY <1>1, <1>2, <1>7, <1>8

(* Columns without heap memory add nothing.                                  *)
LEMMA SumStays ==
  ASSUME NEW t, Wide(t), NEW m \in Nat, NEW n \in Nat, m <= n, n <= Len(t.polys),
         \A i \in m + 1 .. n : BytesOn(t, i) = 0, HeapSums(t)[m] \in Nat
  PROVE  HeapSums(t)[n] = HeapSums(t)[m]
<1> DEFINE S == {k \in Nat : m + k <= n => HeapSums(t)[m + k] = HeapSums(t)[m]}
<1>1. 0 \in S
  OBVIOUS
<1>2. ASSUME NEW k \in Nat, k \in S PROVE k + 1 \in S
  <2>1. SUFFICES ASSUME m + (k + 1) <= n PROVE HeapSums(t)[m + (k + 1)] = HeapSums(t)[m]
    BY <1>2
  <2>2. m + k <= n /\ m + (k + 1) \in m + 1 .. n /\ m + (k + 1) \in 1 .. Len(t.polys)
        /\ (m + (k + 1)) - 1 = m + k
    BY <2>1, HeapSumFacts
  <2>3. HeapSums(t)[m + (k + 1)] = HeapSums(t)[m + k] + BytesOn(t, m + (k + 1))
    BY <2>2, HeapSumFacts
  <2>. QED
    BY <1>2, <2>2, <2>3
<1> HIDE DEF S
<1>3. \A k \in Nat : k \in S
  BY <1>1, <1>2, Counting
<1>4. n - m \in S /\ m + (n - m) = n
  BY <1>3
<1>. QED
  BY <1>4 DEF S

(* Equal columns have equal sums.                                            *)
LEMMA SumsAgree ==
  ASSUME NEW t, Wide(t), NEW u, Wide(u), NEW n \in Nat, n <= Len(t.polys), n <= Len(u.polys),
         \A i \in 1 .. n : BytesOn(t, i) = BytesOn(u, i)
  PROVE  HeapSums(t)[n] = HeapSums(u)[n]
<1> DEFINE S == {k \in Nat : k <= n => HeapSums(t)[k] = HeapSums(u)[k]}
<1>1. 0 \in S
  BY HeapSumFacts
<1>2. ASSUME NEW k \in Nat, k \in S PROVE k + 1 \in S
  <2>1. SUFFICES ASSUME k + 1 <= n PROVE HeapSums(t)[k + 1] = HeapSums(u)[k + 1]
    BY <1>2
  <2>2. k <= n /\ k + 1 \in 1 .. n /\ (k + 1) - 1 = k
        /\ k + 1 \in 1 .. Len(t.polys) /\ k + 1 \in 1 .. Len(u.polys)
    BY <2>1, HeapSumFacts
  <2>3. /\ HeapSums(t)[k + 1] = HeapSums(t)[k] + BytesOn(t, k + 1)
        /\ HeapSums(u)[k + 1] = HeapSums(u)[k] + BytesOn(u, k + 1)
    BY <2>2, HeapSumFacts
  <2>. QED
    BY <1>2, <2>2, <2>3
<1> HIDE DEF S
<1>3. n \in S
  BY <1>1, <1>2, Counting
<1>. QED
  BY <1>3 DEF S

(* A tree with nothing on the heap.                                          *)
LEMMA NothingOnHeap ==
  ASSUME NEW t, Wide(t), \A i \in Columns(t) : Evals(t, i) # "heap"
  PROVE  HeapBytes(t) = 0
<1>1. \A i \in 0 + 1 .. Len(t.polys) : BytesOn(t, i) = 0
  BY HeapSumFacts DEF BytesOn
<1>2. HeapSums(t)[Len(t.polys)] = HeapSums(t)[0]
  BY <1>1, HeapSumFacts, SumStays
<1>. QED
  BY <1>2, HeapSumFacts

------------------------------------------------------------------------------
(* No tree is wider than there are columns with a size.                      *)
WidthOK ==
  /\ \A t \in DOMAIN trees : Len(trees[t].polys) <= Len(ColumnBytes)
  /\ Len(new.polys) + todo <= Len(ColumnBytes)

(* What such a tree has on the heap, for its opening.                        *)
Within(t) ==
  IF Direct THEN \A i \in Columns(t) : Evals(t, i) # "heap" ELSE HeapBytes(t) < Budget[mode]

(* Unless a spill failed, the open batch is all that the tree brought back   *)
(* has on the heap, its bytes are counted, and nothing is there beyond the   *)
(* cursor.                                                                   *)
BatchIsCounted(t) ==
  /\ \A i \in Columns(t) : i >= at.column => Evals(t, i) = "none"
  /\ \A i \in Columns(t) : Evals(t, i) = "heap" => ~Direct /\ at.start # 0 /\ at.start <= i
  /\ ~Direct => /\ at.bytes \in Nat /\ at.bytes < Budget[mode]
                /\ at.bytes = HeapSums(t)[at.column - 1]

HeapOK ==
  LawfulCaller /\ Rematerializes /\ ~faults /\ ret = "open" /\ turn \in Owned =>
    /\ pc = "materialize" /\ at.tree = turn => BatchIsCounted(trees[turn])
    /\ pc = "open" \/ (pc = "materialize" /\ at.tree # turn) => Within(trees[turn])

HeapInv == IInv /\ WidthOK /\ HeapOK

(* What the settings say of widths and budgets.                              *)
LEMMA WidthSettings ==
  ASSUME setting \in Settings, mode \in Modes
  PROVE  /\ ColumnBytes \in Seq(Nat) /\ Len(ColumnBytes) \in Nat
         /\ MaxColumns <= Len(ColumnBytes) /\ CompositionColumns <= Len(ColumnBytes)
         /\ MaxColumns \in Nat /\ CompositionColumns \in Nat
         /\ Budget[mode] \in Nat \ {0}
         /\ \A t \in setting.given : IsTree(t) /\ Len(t.polys) <= Len(ColumnBytes)
BY ProverConstants DEF Modes, MaxColumns, CompositionColumns

(* Most steps leave the build alone and add no tree.                         *)
Settled == UNCHANGED <<new, todo>> /\ DOMAIN trees' = DOMAIN trees

(* The calls between commits,                                               *)
LEMMA CallsSettled == ASSUME Calls PROVE Settled
BY DEF Calls, CallMaterialize, CallDrop, CallMaterializeAll, CallRelease, CallSpill,
   MaterializePattern, MaterializeAll, DropPattern, ReleaseTrees, SpillTrees, Settled, build

(* the composition up to its commit,                                         *)
LEMMA CompositionSettled == ASSUME Composition, ~CommitComposition PROVE Settled
BY DEF Composition, Compose, ComposePanics, ReleaseTrace, SpillTrace, InComponent,
   MaterializeComponent, MaterializeTrace, MaterializePatternPanics, EvaluateComponent,
   EvaluatePanics, DropComponent, ReleaseComposed, MaterializePattern, MaterializeAll,
   DropPattern, ReleaseTrees, SpillTrees, Panic, Settled, build

(* the opening,                                                              *)
LEMMA OpeningSettled == ASSUME Opening PROVE Settled
BY DEF Opening, DrawOods, SampleValues, SampleValuesPanics, Quotients, QuotientsPanic,
   ReleaseOpened, FriCommit, Grind, DrawQueries, Decommit, Open, Finish, Absorb, Panic,
   ReleaseTrees, Settled, build

(* and the loop are such steps.                                              *)
LEMMA MaterializeSettled == ASSUME Materialize PROVE Settled
<1>1. \A t, tree, S : Flush(t, tree, S) => DOMAIN trees' = DOMAIN trees
  BY DEF Flush
<1>2. ASSUME NEW t \in DOMAIN trees, NEW i \in Columns(trees[t]),
             SkipResident(t, i) \/ MaterializeOnHeap(t, i)
             \/ MaterializeDirect(t, i) \/ MaterializePanics(t, i)
      PROVE  Settled
  <2>1. CASE SkipResident(t, i)
    BY <1>1, <2>1 DEF SkipResident, Settled, build
  <2>2. CASE MaterializeOnHeap(t, i)
    BY <2>2 DEF MaterializeOnHeap, Settled, build
  <2>3. CASE MaterializeDirect(t, i)
    BY <1>1, <2>3 DEF MaterializeDirect, Settled, build
  <2>4. CASE MaterializePanics(t, i)
    BY <2>4 DEF MaterializePanics, Panic, Settled, build
  <2>. QED
    BY <1>2, <2>1, <2>2, <2>3, <2>4
<1>3. ASSUME NextTree PROVE Settled
  BY <1>1, <1>3 DEF NextTree, Settled, build
<1>4. ASSUME LoopEnds PROVE Settled
  BY <1>4 DEF LoopEnds, Settled, build
<1>. QED
  BY <1>2, <1>3, <1>4 DEF Materialize

(* The others commit.                                                        *)
Committing ==
  \/ \E n \in 0 .. Len(ColumnBytes) : \E back : BeginCommit(n, back)
  \/ \E t \in setting.given : CommitTree(t)
  \/ NewTree

(* Every step is one or the other.                                           *)
LEMMA SettledOrCommitting == ASSUME IInv, [Next]_vars PROVE Settled \/ Committing
<1>0. /\ 0 .. MaxColumns \subseteq 0 .. Len(ColumnBytes)
      /\ CompositionColumns \in 0 .. Len(ColumnBytes)
  BY WidthSettings DEF IInv, ShapeOK
<1>1. CASE Setup
  <2>1. CASE \E n \in 0 .. MaxColumns : Commit(n)
    <3>1. PICK n \in 0 .. MaxColumns : BeginCommit(n, "setup")
      BY <2>1 DEF Commit
    <3>. QED
      BY <1>0, <3>1 DEF Committing
  <2>2. CASE \E t \in setting.given : CommitTree(t)
    BY <2>2 DEF Committing
  <2>3. CASE SetStore \/ (\E m \in Modes : SetMode(m)) \/ Prove
    BY <2>3 DEF SetStore, SetMode, Prove, Settled, build
  <2>. QED
    BY <1>1, <2>1, <2>2, <2>3, CallsSettled DEF Setup
<1>2. CASE NewTree
  BY <1>2 DEF Committing
<1>3. CASE Composition
  <2>1. CASE CommitComposition
    <3>1. CompositionColumns \in 0 .. Len(ColumnBytes) /\ BeginCommit(CompositionColumns, "oods")
      BY <1>0, <2>1 DEF CommitComposition
    <3>. QED
      BY <3>1 DEF Committing
  <2>. QED
    BY <1>3, <2>1, CompositionSettled
<1>4. CASE Materialize \/ Opening
  BY <1>4, MaterializeSettled, OpeningSettled
<1>5. CASE Stopped \/ UNCHANGED vars
  BY <1>5 DEF Stopped, vars, build, Settled
<1>. QED
  BY <1>1, <1>2, <1>3, <1>4, <1>5 DEF Next

(* A step keeps the width of the trees that were there.                      *)
LEMMA KeptWidths ==
  ASSUME IInv, WidthOK, [Next]_vars
  PROVE  \A t \in DOMAIN trees : t \in DOMAIN trees' /\ Len(trees'[t].polys) <= Len(ColumnBytes)
<1>1. TreesKept
  BY NextStep
<1>. QED
  BY <1>1 DEF TreesKept, Related, WidthOK

(* and no commit makes a wider one.                                          *)
LEMMA WidthStep == ASSUME IInv, WidthOK, [Next]_vars PROVE WidthOK'
<1>1. /\ ShapeOK /\ setting \in Settings /\ mode \in Modes /\ trees \in Seq(TreeRecord)
      /\ new \in TreeRecord /\ IsTree(new) /\ todo \in Int /\ Len(new.polys) \in Nat
      /\ Len(ColumnBytes) \in Nat /\ Len(new.polys) + todo <= Len(ColumnBytes)
      /\ DOMAIN trees = 1 .. Len(trees) /\ Len(trees) \in Nat
      /\ \A t \in DOMAIN trees : t \in DOMAIN trees' /\ Len(trees'[t].polys) <= Len(ColumnBytes)
  <2>1. /\ ShapeOK /\ setting \in Settings /\ mode \in Modes
        /\ trees \in Seq(TreeRecord) /\ todo \in Int
    BY SettingFacts DEF IInv, ShapeOK
  <2>2. new \in TreeRecord /\ IsTree(new) /\ Len(new.polys) \in Nat
    BY <2>1, TreeFacts, ColumnFacts
  <2>. QED
    BY <2>1, <2>2, TreeFacts, WidthSettings, KeptWidths DEF WidthOK
<1>2. CASE Settled
  BY <1>1, <1>2 DEF Settled, WidthOK
<1>3. CASE \E n \in 0 .. Len(ColumnBytes) : \E back : BeginCommit(n, back)
  <2>1. PICK n \in 0 .. Len(ColumnBytes) :
          new' = EmptyTree /\ todo' = n /\ DOMAIN trees' = DOMAIN trees
    BY <1>3 DEF BeginCommit, SpillTrees
  <2>. QED
    BY <1>1, <2>1, EmptyTreeFacts DEF WidthOK
<1>4. CASE \E t \in setting.given : CommitTree(t)
  <2>1. PICK t \in setting.given : CommitTree(t)
    BY <1>4
  <2> DEFINE kept == IF Checkpoints /\ t.owned THEN Checkpoint(t) ELSE t
  <2>2. t \in TreeRecord /\ IsTree(t) /\ Len(t.polys) <= Len(ColumnBytes)
    BY <1>1, <2>1, WidthSettings DEF IsTree
  <2>3. kept \in TreeRecord /\ IsTree(kept) /\ Len(kept.polys) = Len(t.polys)
    BY <2>2, CheckpointFacts DEF Related
  <2>4. /\ trees' \in {Append(trees, kept), Append(trees, SpillCoefficients(kept))}
        /\ UNCHANGED <<new, todo>>
    BY <2>1 DEF CommitTree, build
  <2> HIDE DEF kept
  <2>5. /\ SpillCoefficients(kept) \in TreeRecord
        /\ Len(SpillCoefficients(kept).polys) = Len(t.polys)
    BY <2>3, SpillCoefficientsFacts DEF Related
  <2>6. PICK u \in TreeRecord : Len(u.polys) <= Len(ColumnBytes) /\ trees' = Append(trees, u)
    BY <2>2, <2>3, <2>4, <2>5
  <2>7. DOMAIN trees' = 1 .. Len(trees) + 1 /\ trees'[Len(trees) + 1] = u
    BY <1>1, <2>6
  <2>. QED
    BY <1>1, <2>4, <2>6, <2>7 DEF WidthOK
<1>5. CASE NewTree
  <2>1. CASE ExtendColumn
    <3> DEFINE grown == [new EXCEPT !.polys = Append(@, NewColumn)]
    <3>1. /\ trees' = trees /\ todo' = todo - 1 /\ pc = "extend"
          /\ \/ new' = grown
             \/ \E S \in SUBSET (at.start .. Len(grown.polys)) :
                  new' = SpillColumns(grown, at.start, S)
      BY <2>1 DEF ExtendColumn
    <3>2. NewColumn \in Poly /\ NewColumn.evals = "heap"
      BY DEF NewColumn, Poly
    <3>3. grown \in TreeRecord /\ IsTree(grown) /\ Len(grown.polys) = Len(new.polys) + 1
      BY <1>1, <3>2, AppendColumnFacts
    <3> HIDE DEF grown
    <3>4. at.start \in Nat /\ at.start > 0
      BY <1>1, <3>1 DEF IInv, ControlOK
    <3>5. Columns(grown) = 1 .. Len(grown.polys)
      BY <3>3, ColumnFacts
    <3>6. \A S \in SUBSET (at.start .. Len(grown.polys)) :
            Len(SpillColumns(grown, at.start, S).polys) = Len(grown.polys)
      <4>1. TAKE S \in SUBSET (at.start .. Len(grown.polys))
      <4>2. S \in SUBSET Columns(grown) /\ at.start \in Int
        BY <1>1, <3>3, <3>4, <3>5
      <4>. QED
        BY <3>3, <4>2, SpillColumnsFacts DEF Related
    <3>7. Len(new'.polys) = Len(new.polys) + 1
      BY <3>1, <3>3, <3>6
    <3>. QED
      BY <1>1, <3>1, <3>7 DEF WidthOK
  <2>2. CASE SpillNewCoefficients
    <3>1. trees' = trees /\ todo' = todo /\ new' \in {new, SpillCoefficients(new)}
      BY <2>2 DEF SpillNewCoefficients
    <3>2. Len(SpillCoefficients(new).polys) = Len(new.polys)
      BY <1>1, SpillCoefficientsFacts DEF Related
    <3>. QED
      BY <1>1, <3>1, <3>2 DEF WidthOK
  <2>3. CASE SpillExtension
    <3>1. /\ trees' = trees /\ todo' = todo
          /\ new' = new \/ \E S \in SUBSET Columns(new) : new' = SpillColumns(new, 1, S)
      BY <2>3 DEF SpillExtension
    <3>2. \A S \in SUBSET Columns(new) : Len(SpillColumns(new, 1, S).polys) = Len(new.polys)
      BY <1>1, SpillColumnsFacts DEF Related
    <3>. QED
      BY <1>1, <3>1, <3>2 DEF WidthOK
  <2>4. CASE FinishTree
    <3> DEFINE built == IF Checkpoints THEN Checkpoint(new) ELSE new
    <3>1. /\ trees' \in {Append(trees, built), Append(trees, WithoutEvaluations(built))}
          /\ new' = EmptyTree /\ todo' = todo
      BY <2>4 DEF FinishTree
    <3>2. built \in TreeRecord /\ Len(built.polys) = Len(new.polys)
      BY <1>1, CheckpointFacts DEF Related
    <3> HIDE DEF built
    <3>3. /\ WithoutEvaluations(built) \in TreeRecord
          /\ Len(WithoutEvaluations(built).polys) = Len(new.polys)
      BY <3>2, WithoutEvaluationsFacts DEF Related
    <3>4. todo >= 0
      BY <1>1, SettingFacts DEF ShapeOK
    <3>5. PICK u \in TreeRecord : Len(u.polys) <= Len(ColumnBytes) /\ trees' = Append(trees, u)
      BY <1>1, <3>1, <3>2, <3>3, <3>4
    <3>6. DOMAIN trees' = 1 .. Len(trees) + 1 /\ trees'[Len(trees) + 1] = u
      BY <1>1, <3>5
    <3>. QED
      BY <1>1, <3>1, <3>4, <3>5, <3>6, EmptyTreeFacts DEF WidthOK
  <2>. QED
    BY <1>5, <2>1, <2>2, <2>3, <2>4 DEF NewTree
<1>. QED
  BY <1>2, <1>3, <1>4, <1>5, SettledOrCommitting DEF Committing

(* Only the loop and what calls it for an opening lead to an opening.        *)
LEMMA OpeningSteps ==
  ASSUME IInv, [Next]_vars, pc' \in {"materialize", "open"}, ret' = "open"
  PROVE  Materialize \/ Decommit \/ UNCHANGED vars
<1>1. CASE Setup
  BY <1>1 DEF Setup, SetStore, SetMode, Commit, BeginCommit, AfterBegin, CommitTree, Prove, Calls,
     Between, CallMaterialize, CallDrop, CallMaterializeAll, CallRelease, CallSpill,
     MaterializePattern, MaterializeAll
<1>2. CASE NewTree
  BY <1>2 DEF NewTree, ExtendColumn, SpillNewCoefficients, SpillExtension, FinishTree, IInv,
     ControlOK, Building
<1>3. CASE Composition
  BY <1>3 DEF Composition, Compose, ComposePanics, ReleaseTrace, SpillTrace, InComponent,
     MaterializeComponent, MaterializeTrace, MaterializePatternPanics, EvaluateComponent,
     EvaluatePanics, DropComponent, ReleaseComposed, MaterializePattern, MaterializeAll, Panic,
     CommitComposition, BeginCommit, AfterBegin
<1>4. CASE Opening
  BY <1>4 DEF Opening, DrawOods, SampleValues, SampleValuesPanics, Quotients, QuotientsPanic,
     ReleaseOpened, FriCommit, Grind, DrawQueries, Open, Finish, Absorb, Panic
<1>5. CASE Materialize \/ Stopped \/ UNCHANGED vars
  BY <1>5 DEF Stopped
<1>. QED
  BY <1>1, <1>2, <1>3, <1>4, <1>5 DEF Next

(* A tree without evaluations is within any budget.                          *)
LEMMA EmptiedWithin ==
  ASSUME NEW t, Wide(t), Resident(t) = {}, Budget[mode] \in Nat \ {0}
  PROVE  Within(t)
<1>1. \A i \in Columns(t) : Evals(t, i) # "heap"
  BY DEF Resident
<1>. QED
  BY <1>1, NothingOnHeap DEF Within

(* The state of the loop before a step for an opening.                       *)
LEMMA LoopFacts ==
  ASSUME HeapInv, LawfulCaller, Rematerializes, ~faults, ret = "open", turn \in Owned
  PROVE  /\ Wide(trees[turn]) /\ Budget[mode] \in Nat \ {0}
         /\ pc = "materialize" => at.tree \in {turn, at.last + 1} /\ at.last = turn
         /\ at.column \in Nat /\ at.start \in Nat
         /\ pc = "materialize" /\ at.tree = turn =>
              /\ BatchIsCounted(trees[turn]) /\ at.column > 0 /\ at.start < at.column
              /\ at.column <= Len(trees[turn].polys) + 1
         /\ pc = "open" \/ (pc = "materialize" /\ at.tree # turn) => Within(trees[turn])
<1>1. turn \in DOMAIN trees /\ ShapeOK /\ CursorOK
  BY DEF HeapInv, IInv, Owned
<1>2. Wide(trees[turn]) /\ Budget[mode] \in Nat \ {0}
  BY <1>1, TreeFacts, WidthSettings DEF HeapInv, WidthOK, Wide, ShapeOK
<1>3. turn \in Nat
  BY <1>1, TreeFacts
<1>. QED
  BY <1>1, <1>2, <1>3 DEF HeapInv, HeapOK, CursorOK

(* A flush without a fault leaves the batch in maps.                         *)
LEMMA FlushMaps ==
  ASSUME IInv, InLoop, NEW t \in Owned, t = at.tree, NEW S, S = {} \/ S = Pending(at.column),
         Flush(t, trees[t], S), ~faults'
  PROVE  \A i \in Columns(trees[t]) :
           /\ i \in Columns(trees'[t])
           /\ Evals(trees'[t], i) = IF i \in S THEN "map" ELSE Evals(trees[t], i)
<1>1. /\ trees[t] \in TreeRecord /\ IsTree(trees[t]) /\ at.start \in Nat /\ t \in DOMAIN trees
      /\ S \subseteq Columns(trees[t])
  BY CursorFacts
<1>2. CASE S = {}
  <2>1. trees' = [trees EXCEPT ![t] = trees[t]]
    BY <1>2 DEF Flush
  <2>. QED
    BY <1>1, <1>2, <2>1
<1>3. CASE S # {} /\ Direct
  <2> DEFINE v == SetEvals(trees[t], S, "heap")
             maps == <<S>>
             u == MapGroups(v, maps)
  <2>1. trees' = [trees EXCEPT ![t] = u]
    <3>1. PICK some \in MapsOf(S) :
            /\ Note(some # maps)
            /\ trees' = [trees EXCEPT ![t] = MapGroups(v, some)]
      BY <1>3 DEF Flush
    <3>2. some = maps
      BY <3>1 DEF Note
    <3>. QED
      BY <3>1, <3>2
  <2>2. /\ Related(trees[t], v) /\ IsTree(v) /\ v \in TreeRecord /\ Columns(v) = Columns(trees[t])
        /\ \A i \in Columns(trees[t]) : Evals(v, i) = IF i \in S THEN "heap" ELSE Evals(trees[t], i)
    BY <1>1, SetEvalsOffMaps DEF Related
  <2> HIDE DEF v
  <2>3. /\ Related(v, u)
        /\ \A i \in Columns(v) : Evals(u, i) = IF i \in S THEN "map" ELSE Evals(v, i)
    <3>1. PICK n \in Nat : n = 1
      OBVIOUS
    <3>2. maps \in [1 .. n -> SUBSET Columns(v)] /\ \A i : (\E k \in 1 .. n : i \in maps[k]) <=> i \in S
      BY <1>1, <2>2, <3>1
    <3> HIDE DEF maps
    <3>. QED
      BY <2>2, <3>2, MapGroupsFacts
  <2> HIDE DEF u, maps
  <2>4. Columns(u) = Columns(trees[t]) /\ trees'[t] = u
    BY <1>1, <2>1, <2>2, <2>3 DEF Related
  <2>. QED
    BY <2>2, <2>3, <2>4
<1>4. CASE S # {} /\ ~Direct
  <2> DEFINE u == SpillColumns(trees[t], at.start, S)
  <2>1. trees' = [trees EXCEPT ![t] = u]
    <3>1. PICK moved \in SUBSET S :
            /\ Note(moved # S)
            /\ trees' = [trees EXCEPT ![t] = SpillColumns(trees[t], at.start, moved)]
      BY <1>4 DEF Flush
    <3>2. moved = S
      BY <3>1 DEF Note
    <3>. QED
      BY <3>1, <3>2
  <2>2. /\ Related(trees[t], u)
        /\ \A i \in Columns(trees[t]) : Evals(u, i) = IF i \in S THEN "map" ELSE Evals(trees[t], i)
    <3>1. S \in SUBSET Columns(trees[t]) /\ at.start \in Int
      BY <1>1
    <3>. QED
      BY <1>1, <3>1, SpillColumnsFacts
  <2> HIDE DEF u
  <2>3. Columns(u) = Columns(trees[t]) /\ trees'[t] = u
    BY <1>1, <2>1, <2>2 DEF Related
  <2>. QED
    BY <2>2, <2>3
<1>. QED
  BY <1>2, <1>3, <1>4

(* A step of the loop, for an opening, with no fault until after it.         *)
ForOpening ==
  /\ HeapInv /\ LawfulCaller /\ Rematerializes /\ ~faults /\ ~faults' /\ ret = "open"
  /\ turn \in Owned /\ Wide(trees'[turn]) /\ UNCHANGED <<setting, mode, turn, ret>>

(* A column made on the heap is counted, until the batch moves to a map.     *)
LEMMA OnHeapCounts ==
  ASSUME ForOpening, NEW i \in Columns(trees[turn]), MaterializeOnHeap(turn, i)
  PROVE  at'.tree = turn /\ BatchIsCounted(trees[turn])'
<1> DEFINE t == trees[turn]
           u == trees'[turn]
           made == SetEvals(t, {i}, "heap")
           start == IF at.start = 0 THEN i ELSE at.start
           bytes == at.bytes + ColumnBytes[i]
<1>1. /\ CursorOn(turn, i) /\ InLoop /\ at.tree = turn /\ at.column = i /\ ~Direct
      /\ turn \in DOMAIN trees /\ pc = "materialize"
      /\ \/ /\ bytes >= Budget[mode]
            /\ \E moved \in SUBSET (start .. i) :
                 /\ Note(moved # start .. i)
                 /\ trees' = [trees EXCEPT ![turn] = SpillColumns(made, start, moved)]
            /\ NextColumn(0, 0)
         \/ /\ bytes < Budget[mode]
            /\ trees' = [trees EXCEPT ![turn] = made]
            /\ NextColumn(start, bytes)
  <2>1. /\ CursorOn(turn, i) /\ ~Direct
        /\ IF bytes >= Budget[mode]
           THEN /\ \E moved \in SUBSET (start .. i) :
                     /\ Note(moved # start .. i)
                     /\ trees' = [trees EXCEPT ![turn] = SpillColumns(made, start, moved)]
                /\ NextColumn(0, 0)
           ELSE /\ trees' = [trees EXCEPT ![turn] = made]
                /\ NextColumn(start, bytes)
    BY DEF MaterializeOnHeap
  <2>2. InLoop /\ at.tree = turn /\ at.column = i /\ turn \in DOMAIN trees /\ pc = "materialize"
    BY <2>1 DEF CursorOn, InLoop, ForOpening, Owned
  <2>3. at.bytes \in Nat /\ ColumnBytes[i] \in Nat /\ Budget[mode] \in Nat
    <3>1. BatchIsCounted(t) /\ Wide(t) /\ Budget[mode] \in Nat
      BY <2>2, LoopFacts DEF ForOpening
    <3>2. i \in 1 .. Len(ColumnBytes) /\ ColumnBytes \in Seq(Nat)
      BY <3>1, ColumnFacts, ProverConstants DEF Wide
    <3>. QED
      BY <2>1, <3>1, <3>2 DEF BatchIsCounted
  <2> HIDE DEF made, start
  <2>. QED
    BY <2>1, <2>2, <2>3
<1>2. /\ Wide(t) /\ t \in TreeRecord /\ IsTree(t) /\ Wide(u) /\ Budget[mode] \in Nat \ {0}
      /\ at.start \in Nat /\ at.start < i /\ i \in Nat /\ i > 0
      /\ \A j \in Columns(t) : j >= i => Evals(t, j) = "none"
      /\ \A j \in Columns(t) : Evals(t, j) = "heap" => at.start # 0 /\ at.start <= j
      /\ at.bytes \in Nat /\ at.bytes = HeapSums(t)[i - 1]
      /\ Columns(t) = 1 .. Len(t.polys) /\ Len(t.polys) \in Nat
  BY <1>1, LoopFacts, CursorFacts, ColumnFacts DEF ForOpening, HeapInv, BatchIsCounted
<1>3. /\ made \in TreeRecord /\ IsTree(made) /\ Len(made.polys) = Len(t.polys)
      /\ Columns(made) = Columns(t)
      /\ \A j \in Columns(t) : Evals(made, j) = IF j = i THEN "heap" ELSE Evals(t, j)
  BY <1>2, SetEvalsOffMaps DEF Related
<1>4. /\ start \in Nat /\ start > 0 /\ start <= i
      /\ \A j \in Columns(t) : Evals(made, j) = "heap" => start <= j /\ j <= i
      /\ start .. i \subseteq Columns(made)
  <2>1. start \in Nat /\ start > 0 /\ start <= i
    BY <1>2
  <2>2. ASSUME NEW j \in Columns(t), Evals(made, j) = "heap" PROVE start <= j /\ j <= i
    <3>1. j \in Nat /\ (j = i \/ Evals(t, j) = "heap")
      <4>1. j \in Nat
        BY <1>2, <2>2
      <4>2. Evals(made, j) = IF j = i THEN "heap" ELSE Evals(t, j)
        BY <1>3, <2>2
      <4>. QED
        BY <2>2, <4>1, <4>2, Zenon
    <3>. QED
      BY <1>2, <2>1, <3>1
  <2>3. start .. i \subseteq Columns(made)
    BY <1>2, <1>3, <2>1
  <2>. QED
    BY <2>1, <2>2, <2>3
<1> HIDE DEF start, made
<1>5. at = [tree |-> at.tree, last |-> at.last, column |-> at.column, start |-> at.start,
            bytes |-> at.bytes]
  BY DEF ForOpening, HeapInv, IInv, CursorOK
<1>6. Direct' = Direct
  BY DEF ForOpening, Direct
<1>7. ASSUME bytes < Budget[mode], trees' = [trees EXCEPT ![turn] = made], NextColumn(start, bytes)
      PROVE  at'.tree = turn /\ BatchIsCounted(trees[turn])'
  <2>1. u = made /\ at' = [tree |-> turn, last |-> at.last, column |-> i + 1, start |-> start,
                           bytes |-> bytes]
    BY <1>1, <1>5, <1>7 DEF NextColumn
  <2>2. HeapSums(u)[i] = bytes /\ bytes \in Nat
    <3>1. \A j \in 1 .. i - 1 : BytesOn(t, j) = BytesOn(u, j)
      BY <1>2, <1>3, <2>1 DEF BytesOn
    <3>2. i - 1 \in Nat /\ i - 1 <= Len(t.polys) /\ i - 1 <= Len(u.polys) /\ i \in 1 .. Len(u.polys)
      BY <1>2, <1>3, <2>1
    <3>3. HeapSums(u)[i - 1] = at.bytes
      BY <1>2, <3>1, <3>2, SumsAgree
    <3>4. BytesOn(u, i) = ColumnBytes[i]
      BY <1>3, <2>1 DEF BytesOn
    <3>. QED
      BY <1>2, <3>2, <3>3, <3>4, HeapSumFacts
  <2>3. \A j \in Columns(u) : j >= i + 1 => Evals(u, j) = "none"
    BY <1>2, <1>3, <2>1
  <2>4. \A j \in Columns(u) : Evals(u, j) = "heap" => start # 0 /\ start <= j
    BY <1>3, <1>4, <2>1
  <2>5. (i + 1) - 1 = i
    BY <1>2
  <2>. QED
    BY <1>1, <1>6, <1>7, <2>1, <2>2, <2>3, <2>4, <2>5 DEF BatchIsCounted, ForOpening
<1>8. ASSUME NEW moved \in SUBSET (start .. i), Note(moved # start .. i),
             trees' = [trees EXCEPT ![turn] = SpillColumns(made, start, moved)], NextColumn(0, 0)
      PROVE  at'.tree = turn /\ BatchIsCounted(trees[turn])'
  <2>1. moved = start .. i
    BY <1>8 DEF Note, ForOpening
  <2>2. at' = [tree |-> turn, last |-> at.last, column |-> i + 1, start |-> 0, bytes |-> 0]
    BY <1>1, <1>5, <1>8 DEF NextColumn
  <2>3. u = SpillColumns(made, start, moved)
    BY <1>1, <1>8
  <2>4. /\ Columns(u) = Columns(t) /\ Len(u.polys) = Len(t.polys)
        /\ \A j \in Columns(t) : Evals(u, j) = IF j \in start .. i THEN "map" ELSE Evals(made, j)
    <3>1. start \in Int /\ moved \in SUBSET Columns(made)
      BY <1>4, <2>1
    <3> HIDE DEF u
    <3>2. Related(made, u)
          /\ \A j \in Columns(made) : Evals(u, j) = IF j \in moved THEN "map" ELSE Evals(made, j)
      BY <1>3, <2>3, <3>1, SpillColumnsFacts
    <3>. QED
      BY <1>3, <2>1, <3>2 DEF Related
  <2>5. \A j \in Columns(u) : Evals(u, j) # "heap"
    BY <1>2, <1>4, <2>4
  <2>6. \A j \in Columns(u) : j >= i + 1 => Evals(u, j) = "none"
    <3>1. TAKE j \in Columns(u)
    <3>2. j \in Nat
      BY <1>2, <2>4
    <3>. QED
      BY <1>2, <1>3, <1>4, <2>4, <3>2
  <2>7. HeapSums(u)[i] = 0
    <3>1. \A j \in 0 + 1 .. i : BytesOn(u, j) = 0
      BY <1>2, <2>4, <2>5 DEF BytesOn
    <3>2. HeapSums(u)[0] = 0 /\ 0 <= i /\ i <= Len(u.polys)
      BY <1>2, <2>4, HeapSumFacts
    <3>. QED
      BY <1>2, <3>1, <3>2, SumStays
  <2>8. (i + 1) - 1 = i /\ 0 < Budget[mode]
    BY <1>2
  <2>. QED
    BY <2>2, <2>5, <2>6, <2>7, <2>8 DEF BatchIsCounted, ForOpening
<1>. QED
  BY <1>1, <1>7, <1>8

(* On the direct path columns are in maps or not there.                      *)
LEMMA DirectCounts ==
  ASSUME ForOpening, NEW i \in Columns(trees[turn]), MaterializeDirect(turn, i)
  PROVE  at'.tree = turn /\ BatchIsCounted(trees[turn])'
<1> DEFINE t == trees[turn]
           u == trees'[turn]
<1>1. /\ CursorOn(turn, i) /\ InLoop /\ at.tree = turn /\ at.column = i /\ Direct
      /\ turn \in DOMAIN trees /\ pc = "materialize"
      /\ Flush(turn, t, Pending(at.column)) \/ trees' = trees
      /\ \E start, bytes : NextColumn(start, bytes)
  BY DEF MaterializeDirect, CursorOn, InLoop, ForOpening, Owned
<1>2. /\ Wide(t) /\ t \in TreeRecord /\ Wide(u) /\ u \in TreeRecord
      /\ at.start \in Nat /\ at.start < i /\ i \in Nat /\ i > 0
      /\ \A j \in Columns(t) : j >= i => Evals(t, j) = "none"
      /\ \A j \in Columns(t) : Evals(t, j) # "heap"
      /\ \A j \in Pending(at.column) : j < i
  BY <1>1, LoopFacts, CursorFacts DEF ForOpening, HeapInv, BatchIsCounted, Wide
<1>3. at = [tree |-> at.tree, last |-> at.last, column |-> at.column, start |-> at.start,
            bytes |-> at.bytes]
  BY DEF ForOpening, HeapInv, IInv, CursorOK
<1>4. at'.tree = turn /\ at'.column = i + 1
  BY <1>1, <1>3 DEF NextColumn
<1>5. /\ Columns(u) = Columns(t)
      /\ \A j \in Columns(t) : Evals(u, j) = Evals(t, j) \/ (j < i /\ Evals(u, j) = "map")
  <2>1. CASE trees' = trees
    BY <2>1
  <2>2. CASE Flush(turn, t, Pending(at.column))
    <3> DEFINE S == Pending(at.column)
    <3>1. /\ IInv /\ InLoop /\ turn \in Owned /\ turn = at.tree /\ ~faults'
          /\ Flush(turn, trees[turn], S) /\ S = Pending(at.column)
          /\ UNCHANGED <<setting, mode, store>> /\ \A j \in S : j < i
      BY <1>1, <1>2, <2>2 DEF ForOpening, HeapInv, MaterializeDirect, scheme
    <3> HIDE DEF S
    <3>2. \A j \in Columns(t) : Evals(u, j) = IF j \in S THEN "map" ELSE Evals(t, j)
      BY <3>1, FlushMaps
    <3>3. Columns(u) = Columns(t)
      <4>1. PICK v : trees' = [trees EXCEPT ![turn] = v] /\ Related(t, v)
        BY <3>1, FlushFacts
      <4>. QED
        BY <1>1, <4>1 DEF Related
    <3>. QED
      BY <3>1, <3>2, <3>3
  <2>. QED
    BY <1>1, <2>1, <2>2
<1>6. \A j \in Columns(u) : j >= i + 1 => Evals(u, j) = "none"
  <2>1. TAKE j \in Columns(u)
  <2>2. j \in Nat
    BY <1>2, ColumnFacts
  <2>. QED
    BY <1>2, <1>5, <2>2
<1>7. Direct'
  BY <1>1 DEF ForOpening, Direct
<1>. QED
  <2>1. \A j \in Columns(u) : Evals(u, j) # "heap"
    BY ONLY <1>2, <1>5
  <2>2. \A j \in Columns(u) : j >= at'.column => Evals(u, j) = "none"
    BY ONLY <1>4, <1>6
  <2>3. trees'[turn'] = u /\ turn' = turn
    BY DEF ForOpening
  <2>. QED
    BY ONLY <1>4, <1>7, <2>1, <2>2, <2>3 DEF BatchIsCounted

(* The last column leaves a tree within the budget.                          *)
LEMMA NextTreeWithin ==
  ASSUME ForOpening, NextTree
  PROVE  at'.tree # turn /\ Within(trees[turn])'
<1> DEFINE t == trees[turn]
           u == trees'[turn]
<1>1. /\ InLoop /\ pc = "materialize" /\ at.tree <= at.last /\ turn \in DOMAIN trees
      /\ at'.tree = at.tree + 1
  BY DEF NextTree, InLoop, ForOpening, Owned, NoCursor
<1>2. /\ Wide(t) /\ t \in TreeRecord /\ at.tree = turn /\ at.column \in Nat
      /\ BatchIsCounted(t) /\ at.column <= Len(t.polys) + 1 /\ turn \in Nat
  <2>1. turn \in Nat /\ at.last \in Nat
    BY <1>1, TreeFacts DEF ForOpening, HeapInv, IInv, CursorOK
  <2>. QED
    BY <1>1, <2>1, LoopFacts DEF ForOpening, Wide
<1>3. /\ at.column > Len(t.polys)
      /\ Flush(turn, t, IF Direct THEN Pending(at.column) ELSE {})
  BY <1>2 DEF NextTree, ForOpening
<1>4. Direct' = Direct /\ Direct \in BOOLEAN
  BY SettingFacts DEF ForOpening, Direct, HeapInv, IInv, ShapeOK
<1>5. CASE Direct
  <2> DEFINE S == Pending(at.column)
  <2>1. /\ IInv /\ InLoop /\ turn \in Owned /\ turn = at.tree /\ ~faults'
        /\ Flush(turn, trees[turn], S) /\ S = Pending(at.column)
        /\ UNCHANGED <<setting, mode, store>>
    BY <1>1, <1>2, <1>3, <1>5 DEF ForOpening, HeapInv, NextTree, scheme
  <2> HIDE DEF S
  <2>2. \A j \in Columns(t) : Evals(u, j) = IF j \in S THEN "map" ELSE Evals(t, j)
    BY <2>1, FlushMaps
  <2>3. Columns(u) = Columns(t)
    <3>1. PICK v : trees' = [trees EXCEPT ![turn] = v] /\ Related(t, v)
      BY <2>1, FlushFacts
    <3>. QED
      BY <1>1, <3>1 DEF Related
  <2>4. \A j \in Columns(u) : Evals(u, j) # "heap"
    BY <1>2, <1>5, <2>2, <2>3 DEF BatchIsCounted
  <2>. QED
    BY <1>1, <1>2, <1>4, <1>5, <2>4 DEF Within, ForOpening
<1>6. CASE ~Direct
  <2>1. trees' = [trees EXCEPT ![turn] = t]
    BY <1>3, <1>6 DEF Flush
  <2>2. u = t
    BY <1>1, <2>1
  <2>3. HeapBytes(t) = at.bytes /\ at.bytes < Budget[mode]
    <3>1. at.column - 1 = Len(t.polys)
      BY <1>2, <1>3, HeapSumFacts
    <3>. QED
      BY <1>2, <1>6, <3>1, HeapSumFacts DEF BatchIsCounted
  <2>. QED
    BY <1>1, <1>2, <1>4, <1>6, <2>2, <2>3 DEF Within, HeapBytes, ForOpening
<1>. QED
  BY <1>4, <1>5, <1>6

(* So every step keeps the count.                                            *)
LEMMA HeapStep == ASSUME HeapInv, WidthOK', [Next]_vars PROVE HeapOK'
<1>1. SUFFICES ASSUME LawfulCaller', Rematerializes', ~faults', ret' = "open", turn' \in Owned',
                      pc' \in {"materialize", "open"}
               PROVE  /\ pc' = "materialize" /\ at'.tree = turn' => BatchIsCounted(trees[turn])'
                      /\ pc' = "open" \/ (pc' = "materialize" /\ at'.tree # turn')
                           => Within(trees[turn])'
  BY DEF HeapOK
<1>2. IInv /\ IInv' /\ TreesKept
  BY NextStep DEF HeapInv
<1>3. turn' \in DOMAIN trees' /\ Wide(trees'[turn'])
  <2>1. turn' \in DOMAIN trees' /\ trees'[turn'] \in TreeRecord
    BY <1>1, <1>2 DEF IInv, ShapeOK, Owned, IsTree
  <2>. QED
    BY <2>1 DEF Wide, WidthOK
<1>4. CASE UNCHANGED vars
  <2>1. UNCHANGED <<setting, mode, store, trees, pc, ret, turn, at, faults>>
    BY <1>4 DEF vars, scheme, history
  <2>2. LawfulCaller /\ Rematerializes /\ turn \in Owned /\ ~faults /\ ret = "open"
    BY <1>1, <2>1 DEF LawfulCaller, Liberties, Rematerializes, Owned
  <2>3. /\ pc = "materialize" /\ at.tree = turn => BatchIsCounted(trees[turn])
        /\ pc = "open" \/ (pc = "materialize" /\ at.tree # turn) => Within(trees[turn])
    BY <2>2 DEF HeapInv, HeapOK
  <2>4. Direct' = Direct /\ \A t : HeapBytes(t)' = HeapBytes(t)
    BY <2>1 DEF Direct, HeapBytes
  <2>. QED
    BY <2>1, <2>3, <2>4 DEF BatchIsCounted, Within
<1>5. CASE Decommit
  <2>1. /\ UNCHANGED <<setting, mode, store, trees, turn>> /\ pc = "decommit"
        /\ pc' = "open" \/ at' = [NoCursor EXCEPT !.tree = turn, !.last = turn]
    BY <1>5 DEF Decommit, scheme
  <2>2. LawfulCaller /\ Rematerializes /\ turn \in Owned
    BY <1>1, <2>1 DEF LawfulCaller, Liberties, Rematerializes, Owned
  <2>3. Resident(trees[turn]) = {}
    BY <1>2, <2>1, <2>2 DEF IInv, LawfulOK, PeakOK, Emptied
  <2>4. Budget[mode] \in Nat \ {0} /\ Direct \in BOOLEAN
    BY <1>2, WidthSettings, SettingFacts DEF IInv, ShapeOK
  <2>5. Within(trees[turn])
    BY <1>3, <2>1, <2>3, <2>4, EmptiedWithin
  <2>6. Direct' = Direct /\ \A t : HeapBytes(t)' = HeapBytes(t)
    BY <2>1 DEF Direct, HeapBytes
  <2>7. Within(trees[turn])'
    BY <2>1, <2>5, <2>6 DEF Within
  <2>8. ASSUME at' = [NoCursor EXCEPT !.tree = turn, !.last = turn]
        PROVE  at'.tree = turn /\ BatchIsCounted(trees[turn])'
    <3>1. at' = [tree |-> turn, last |-> turn, column |-> 1, start |-> 0, bytes |-> 0]
      BY <2>8 DEF NoCursor
    <3>2. \A i \in Columns(trees[turn]) : Evals(trees[turn], i) = "none"
      BY <2>3 DEF Resident
    <3>3. HeapSums(trees[turn])[0] = 0
      BY <1>3, <2>1, HeapSumFacts
    <3>. QED
      BY <2>1, <2>4, <3>1, <3>2, <3>3 DEF BatchIsCounted
  <2>. QED
    BY <2>1, <2>7, <2>8
<1>6. CASE Materialize
  <2>1. /\ UNCHANGED <<setting, mode, store, turn, ret>> /\ pc = "materialize"
        /\ faults => faults'
    <3>1. \A t, tree, S : Flush(t, tree, S) => (faults => faults')
      BY DEF Flush, Note
    <3>2. CASE \E t \in DOMAIN trees : \E i \in Columns(trees[t]) : SkipResident(t, i)
      BY <3>1, <3>2 DEF SkipResident, CursorOn, InLoop, scheme
    <3>3. CASE \E t \in DOMAIN trees : \E i \in Columns(trees[t]) : MaterializeOnHeap(t, i)
      BY <3>3 DEF MaterializeOnHeap, CursorOn, InLoop, Note, scheme
    <3>4. CASE \E t \in DOMAIN trees : \E i \in Columns(trees[t]) : MaterializeDirect(t, i)
      BY <3>1, <3>4 DEF MaterializeDirect, CursorOn, InLoop, scheme
    <3>5. CASE \E t \in DOMAIN trees : \E i \in Columns(trees[t]) : MaterializePanics(t, i)
      BY <3>5 DEF MaterializePanics, CursorOn, InLoop, Panic, scheme, history
    <3>6. CASE NextTree
      BY <3>1, <3>6 DEF NextTree, InLoop, scheme
    <3>7. CASE LoopEnds
      BY <1>1, <3>7 DEF LoopEnds, scheme, history
    <3>. QED
      BY <1>6, <3>2, <3>3, <3>4, <3>5, <3>6, <3>7 DEF Materialize
  <2>2. LawfulCaller /\ Rematerializes /\ turn \in Owned /\ ~faults /\ ret = "open"
    <3>1. turn \in Owned
      BY <1>1, <1>2, <1>3, <1>6, <2>1, MaterializeSettled DEF Settled, TreesKept, Related, Owned
    <3>. QED
      BY <1>1, <2>1, <3>1 DEF LawfulCaller, Liberties, Rematerializes
  <2>3. ForOpening
    BY <1>1, <1>3, <2>1, <2>2 DEF ForOpening
  <2>4. CASE NextTree
    <3>1. pc' = "materialize"
      BY <2>1, <2>4 DEF NextTree
    <3>. QED
      BY <2>1, <2>3, <2>4, <3>1, NextTreeWithin
  <2>5. CASE LoopEnds
    <3>1. /\ UNCHANGED <<trees, turn>> /\ pc' = "open" /\ at.tree > at.last
      BY <2>2, <2>5 DEF LoopEnds
    <3>2. at.tree # turn /\ Within(trees[turn])
      <4>1. at.last = turn /\ at.last \in Nat /\ at.tree \in Nat
        BY <2>1, <2>2, LoopFacts DEF HeapInv, IInv, CursorOK
      <4>2. at.tree # turn
        BY <3>1, <4>1
      <4>. QED
        BY <2>1, <2>2, <4>2, LoopFacts
    <3>3. Direct' = Direct /\ \A t : HeapBytes(t)' = HeapBytes(t)
      BY <2>1 DEF Direct, HeapBytes
    <3>. QED
      BY <2>1, <3>1, <3>2, <3>3 DEF Within
  <2>6. ASSUME NEW t \in DOMAIN trees, NEW i \in Columns(trees[t]),
               SkipResident(t, i) \/ MaterializeOnHeap(t, i) \/ MaterializeDirect(t, i)
        PROVE  at'.tree = turn /\ BatchIsCounted(trees[turn])' /\ pc' = "materialize"
    <3>1. CursorOn(t, i) /\ pc' = pc
      BY <2>6 DEF SkipResident, MaterializeOnHeap, MaterializeDirect
    <3>2. InLoop /\ at.tree = t /\ at.column = i /\ at.tree <= at.last
      BY <3>1 DEF CursorOn, InLoop
    <3>3. t = turn
      <4>1. at.last = turn /\ at.last \in Nat /\ at.tree \in {turn, at.last + 1}
        BY <2>1, <2>2, LoopFacts DEF HeapInv, IInv, CursorOK
      <4>. QED
        BY <3>2, <4>1
    <3>4. ~SkipResident(t, i)
      <4>1. BatchIsCounted(trees[t]) /\ i \in Nat
        BY <2>1, <2>2, <3>2, <3>3, LoopFacts
      <4>2. i \notin Resident(trees[t])
        BY <3>2, <4>1 DEF BatchIsCounted, Resident
      <4>. QED
        BY <4>2 DEF SkipResident
    <3>. QED
      BY <2>1, <2>3, <2>6, <3>1, <3>3, <3>4, OnHeapCounts, DirectCounts
  <2>7. \A t, i : ~MaterializePanics(t, i)
    BY <1>1 DEF MaterializePanics, Panic
  <2>. QED
    BY <1>6, <2>1, <2>4, <2>5, <2>6, <2>7 DEF Materialize
<1>. QED
  BY <1>1, <1>2, <1>4, <1>5, <1>6, OpeningSteps

(* When evaluations come back for an opening, in the modes that              *)
(* rematerialize, the heap holds less of the tree than the budget, whatever  *)
(* the columns weigh, unless a spill failed: a batch is spilled as soon as   *)
(* its bytes reach the budget, and what was spilled before is in maps.       *)
THEOREM HeapStaysInBudget == Spec => []HeapWithinBudget
<1>1. Init => HeapInv
  <2>1. SUFFICES ASSUME Init PROVE WidthOK /\ HeapOK
    BY InitIInv DEF HeapInv
  <2>2. IInv /\ trees = <<>> /\ new = EmptyTree /\ todo = 0 /\ ret = "setup"
    BY <2>1, InitIInv DEF Init
  <2>3. Len(ColumnBytes) \in Nat /\ DOMAIN trees = {}
    BY <2>2, WidthSettings, NoTrees DEF IInv, ShapeOK
  <2>. QED
    BY <2>2, <2>3, EmptyTreeFacts DEF WidthOK, HeapOK
<1>2. HeapInv /\ [Next]_vars => HeapInv'
  BY NextStep, WidthStep, HeapStep DEF HeapInv
<1>3. HeapInv => HeapWithinBudget
  <2>1. SUFFICES ASSUME HeapInv, LawfulCaller, Rematerializes, ~faults,
                        pc \in {"materialize", "open"}, ret = "open", NEW t \in Owned
                 PROVE  IF Direct THEN HeapBytes(trees[t]) = 0
                        ELSE HeapBytes(trees[t]) < Budget[mode]
    BY DEF HeapWithinBudget
  <2>2. Wide(trees[t]) /\ Budget[mode] \in Nat \ {0}
    BY <2>1, TreeFacts, WidthSettings DEF HeapInv, IInv, ShapeOK, WidthOK, Wide, Owned
  <2>3. CASE t # turn
    <3>1. Resident(trees[t]) = {}
      BY <2>1, <2>3 DEF HeapInv, IInv, LawfulOK, PeakOK
    <3>2. HeapBytes(trees[t]) = 0
      BY <2>2, <3>1, NothingOnHeap DEF Resident
    <3>. QED
      BY <2>2, <3>2
  <2>4. CASE t = turn /\ (pc = "open" \/ at.tree # turn)
    <3>1. Within(trees[t])
      BY <2>1, <2>4, LoopFacts
    <3>. QED
      BY <2>2, <3>1, NothingOnHeap DEF Within
  <2>5. CASE t = turn /\ pc = "materialize" /\ at.tree = turn
    <3>1. /\ BatchIsCounted(trees[t]) /\ at.column \in Nat /\ at.column > 0
          /\ at.column <= Len(trees[t].polys) + 1
      BY <2>1, <2>5, LoopFacts
    <3>2. CASE Direct
      BY <2>2, <3>1, <3>2, NothingOnHeap DEF BatchIsCounted
    <3>3. CASE ~Direct
      <4> DEFINE u == trees[t]
      <4>1. at.column - 1 \in Nat /\ at.column - 1 <= Len(u.polys) /\ Len(u.polys) \in Nat
        BY <2>2, <3>1, HeapSumFacts
      <4>2. \A j \in (at.column - 1) + 1 .. Len(u.polys) : BytesOn(u, j) = 0
        <5>1. TAKE j \in (at.column - 1) + 1 .. Len(u.polys)
        <5>2. j \in Columns(u) /\ j >= at.column
          BY <2>2, <3>1, <4>1, HeapSumFacts
        <5>. QED
          BY <3>1, <5>2 DEF BatchIsCounted, BytesOn
      <4>3. HeapSums(u)[at.column - 1] = at.bytes /\ at.bytes \in Nat /\ at.bytes < Budget[mode]
        BY <3>1, <3>3 DEF BatchIsCounted
      <4>4. HeapSums(u)[Len(u.polys)] = HeapSums(u)[at.column - 1]
        BY <2>2, <4>1, <4>2, <4>3, SumStays
      <4>. QED
        BY <2>2, <3>3, <4>3, <4>4, HeapSumFacts
    <3>. QED
      BY <3>2, <3>3
  <2>. QED
    BY <2>1, <2>3, <2>4, <2>5
<1>. QED
  BY <1>1, <1>2, <1>3, PTL DEF Spec
==============================================================================
