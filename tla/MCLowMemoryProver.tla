-------------------------- MODULE MCLowMemoryProver --------------------------
(* Instances of LowMemoryProver for TLC.                                     *)
EXTENDS LowMemoryProver

Bytes == <<1, 2, 1, 1>>
Budgets == [Fast |-> 9, SmoothedPeak |-> 9, LowMemory |-> 3, UltraLow |-> 1]

AllModes == {"Fast", "SmoothedPeak", "LowMemory", "UltraLow"}
TwoModes == {"Fast", "LowMemory"}
LowModes == {"LowMemory", "UltraLow"}

(* A component with an access pattern over two trees, then one without.      *)
Mixed == << [declared |-> TRUE, columns |-> {<<1, 1>>, <<2, 1>>}],
            [declared |-> FALSE, columns |-> {<<1, 2>>, <<2, 1>>}] >>
(* A pattern over one column, then a component without one.                  *)
Overlapping == << [declared |-> TRUE, columns |-> {<<1, 2>>}],
                  [declared |-> FALSE, columns |-> {<<1, 1>>, <<1, 2>>}] >>

Fresh(owned, coeffs) ==
  Tree(owned, "full", [i \in 1 .. 2 |-> [coeffs |-> coeffs, evals |-> "heap"]])
(* A tree that an earlier proof in a low mode left behind.                   *)
Reused(owned) ==
  Tree(owned, "checkpointed", [i \in 1 .. 2 |-> [coeffs |-> "file", evals |-> "none"]])

(* Four columns in one tree, through the loop, and some by a pattern.        *)
Whole == << [declared |-> TRUE, columns |-> {<<1, 1>>, <<1, 3>>}],
            [declared |-> FALSE, columns |-> {<<1, 1>>, <<1, 4>>}] >>

NoTrees == {}
SomeTrees == {Fresh(o, c) : o \in BOOLEAN, c \in {"none", "heap"}} \cup {Reused(TRUE), Reused(FALSE)}


Setting(modes, direct, domain, components, given, liberties, batch, trees0, columns, composition, failures) ==
  [modes |-> modes, direct |-> direct, domain |-> domain, components |-> components,
   given |-> given, liberties |-> liberties, spillBatch |-> batch,
   maxTrees |-> trees0, maxColumns |-> columns, compositionColumns |-> composition,
   failures |-> failures]

(* Two trees, committed or handed in, in all the modes.                      *)
TwoTrees == Setting(AllModes, FALSE, "sub", Mixed, SomeTrees, {}, 2, 2, 2, 2, TRUE)
(* The same, with components that extend their columns from coefficients.    *)
Extending == Setting(AllModes, FALSE, "extend", Mixed, SomeTrees, {}, 2, 2, 2, 2, TRUE)
(* One tree of up to four columns through the budgeted loop, on both paths.  *)
Looping(direct) == Setting(LowModes, direct, "sub", Whole, NoTrees, {}, 3, 1, 4, 2, TRUE)
(* A caller that sets flags late and brings trees the prover cannot use.     *)
AnyCaller ==
  Setting(TwoModes, FALSE, "sub", Overlapping, SomeTrees, {"set late", "bring any tree"}, 4, 2, 1, 1, FALSE)

AllSettings == {TwoTrees, Extending, Looping(FALSE), Looping(TRUE), AnyCaller}

(* The prover on CpuBackend, in the modes that rematerialize.                *)
LowSettings == {Setting(LowModes, FALSE, "sub", Mixed, NoTrees, {}, 2, 2, 2, 2, FALSE)}
(* A caller that calls the public operations of the scheme in any order.     *)
AnyCalls == {Setting(LowModes, FALSE, "sub", Overlapping, NoTrees, {"call any"}, 2, 1, 2, 2, FALSE)}
==============================================================================
