------------------------ MODULE CommitmentTreeProofs -------------------------
(* What each memory operation on a tree (CommitmentTree) changes and what it *)
(* keeps, for trees of any number of columns: its columns and ownership, the *)
(* coefficients a column can be recomputed from, and the match between the   *)
(* columns in maps and the guards of those maps.                             *)
EXTENDS CommitmentTree, TLAPS

AllResident(t) == Resident(t) = Columns(t)

(* u is t with other evaluations and other places for its coefficients.      *)
Related(t, u) ==
  /\ u \in TreeRecord /\ u.owned = t.owned
  /\ Len(u.polys) = Len(t.polys) /\ Columns(u) = Columns(t)
  /\ \A i \in Columns(t) : HasCoefficients(u, i) = HasCoefficients(t, i)
  /\ \A i \in Columns(t) : Coeffs(t, i) = "file" => Coeffs(u, i) = "file"
  /\ CanRecompute(u) = CanRecompute(t)

(* A column of a tree is a pair of places: its coefficients and its          *)
(* evaluations.                                                              *)
LEMMA ColumnFacts ==
  ASSUME NEW t \in TreeRecord
  PROVE  /\ Len(t.polys) \in Nat /\ Columns(t) = 1 .. Len(t.polys)
         /\ t.owned \in BOOLEAN /\ t.polys \in Seq(Poly) /\ t.guards \in Seq(Guard)
         /\ \A i \in Columns(t) :
              /\ i \in Nat /\ i > 0
              /\ t.polys[i] = [coeffs |-> Coeffs(t, i), evals |-> Evals(t, i)]
              /\ Evals(t, i) \in {"none", "heap", "map"}
              /\ Coeffs(t, i) \in {"none", "heap", "file"}
<1>1. /\ Len(t.polys) \in Nat /\ Columns(t) = 1 .. Len(t.polys)
      /\ t.owned \in BOOLEAN /\ t.polys \in Seq(Poly) /\ t.guards \in Seq(Guard)
  BY DEF TreeRecord, Columns
<1>2. ASSUME NEW i \in Columns(t)
      PROVE  /\ t.polys[i] = [coeffs |-> Coeffs(t, i), evals |-> Evals(t, i)]
             /\ Evals(t, i) \in {"none", "heap", "map"}
             /\ Coeffs(t, i) \in {"none", "heap", "file"}
  <2>1. t.polys[i] \in Poly
    BY <1>1
  <2>. QED
    BY <2>1 DEF Poly, Coeffs, Evals
<1>. QED
  BY <1>1, <1>2

(* A tree whose columns are replaced one by one.                             *)
LEMMA WithPolys ==
  ASSUME NEW t \in TreeRecord, NEW f,
         f \in [Columns(t) -> Poly],
         NEW u, u = [t EXCEPT !.polys = f]
  PROVE  /\ u \in TreeRecord /\ u.owned = t.owned /\ u.merkle = t.merkle /\ u.guards = t.guards
         /\ u.polys = f /\ Len(u.polys) = Len(t.polys) /\ Columns(u) = Columns(t)
<1>1. Len(t.polys) \in Nat /\ Columns(t) = 1 .. Len(t.polys)
  BY ColumnFacts
<1>2. f \in Seq(Poly) /\ Len(f) = Len(t.polys) /\ DOMAIN f = Columns(t)
  BY <1>1
<1>3. u = [owned |-> t.owned, merkle |-> t.merkle, polys |-> f, guards |-> t.guards]
  BY DEF TreeRecord
<1>. QED
  BY <1>2, <1>3 DEF TreeRecord, Columns

(* A tree whose guards are replaced keeps its columns.                       *)
LEMMA WithGuards ==
  ASSUME NEW t \in TreeRecord, NEW gs \in Seq(Guard), NEW u, u = [t EXCEPT !.guards = gs]
  PROVE  u \in TreeRecord /\ u.owned = t.owned /\ u.polys = t.polys /\ u.guards = gs
<1>1. u = [owned |-> t.owned, merkle |-> t.merkle, polys |-> t.polys, guards |-> gs]
  BY DEF TreeRecord
<1>. QED
  BY <1>1 DEF TreeRecord

(* SetEvals changes the evaluations of the columns it names and nothing      *)
(* else.                                                                     *)
LEMMA SetEvalsFacts ==
  ASSUME NEW t \in TreeRecord, NEW S, NEW kind \in {"none", "heap", "map"},
         NEW u, u = SetEvals(t, S, kind)
  PROVE  /\ u \in TreeRecord /\ u.owned = t.owned /\ u.merkle = t.merkle /\ u.guards = t.guards
         /\ Len(u.polys) = Len(t.polys) /\ Columns(u) = Columns(t)
         /\ \A i \in Columns(t) : Coeffs(u, i) = Coeffs(t, i)
         /\ \A i \in Columns(t) : Evals(u, i) = IF i \in S THEN kind ELSE Evals(t, i)
<1> DEFINE f == [i \in Columns(t) |->
      IF i \in S THEN [t.polys[i] EXCEPT !.evals = kind] ELSE t.polys[i]]
<1>1. ASSUME NEW i \in Columns(t)
      PROVE  /\ f[i] \in Poly /\ f[i].coeffs = Coeffs(t, i)
             /\ f[i].evals = IF i \in S THEN kind ELSE Evals(t, i)
  <2>1. t.polys[i] \in Poly
    BY DEF TreeRecord, Columns
  <2>2. [t.polys[i] EXCEPT !.evals = kind] = [coeffs |-> t.polys[i].coeffs, evals |-> kind]
    BY <2>1 DEF Poly
  <2>. QED
    BY <2>1, <2>2 DEF Poly, Coeffs, Evals
<1>2. f \in [Columns(t) -> Poly]
  BY <1>1
<1>3. u = [t EXCEPT !.polys = f]
  BY DEF SetEvals
<1> HIDE DEF f
<1>4. /\ u \in TreeRecord /\ u.owned = t.owned /\ u.merkle = t.merkle /\ u.guards = t.guards
      /\ u.polys = f /\ Len(u.polys) = Len(t.polys) /\ Columns(u) = Columns(t)
  BY <1>2, <1>3, WithPolys
<1>. QED
  BY <1>1, <1>4 DEF Coeffs, Evals

(* So it leaves the coefficients, and what the guards name and back, alone.  *)
LEMMA SetEvalsRelated ==
  ASSUME NEW t \in TreeRecord, NEW S, NEW kind \in {"none", "heap", "map"},
         NEW u, u = SetEvals(t, S, kind)
  PROVE  /\ Related(t, u) /\ u.guards = t.guards /\ Noted(u) = Noted(t) /\ Backed(u) = Backed(t)
         /\ \A i \in Columns(t) : Evals(u, i) = IF i \in S THEN kind ELSE Evals(t, i)
<1>1. /\ u \in TreeRecord /\ u.owned = t.owned /\ u.guards = t.guards
      /\ Len(u.polys) = Len(t.polys) /\ Columns(u) = Columns(t)
      /\ \A i \in Columns(t) : Coeffs(u, i) = Coeffs(t, i)
      /\ \A i \in Columns(t) : Evals(u, i) = IF i \in S THEN kind ELSE Evals(t, i)
  BY SetEvalsFacts
<1>. QED
  BY <1>1 DEF Related, HasCoefficients, CanRecompute, Noted, Backed

(* Only evaluations that are not in maps are set, to something not in a map. *)
LEMMA SetEvalsOffMaps ==
  ASSUME NEW t \in TreeRecord, IsTree(t), NEW S, NEW kind \in {"none", "heap"},
         NEW u, u = SetEvals(t, S, kind)
  PROVE  /\ Related(t, u) /\ IsTree(u)
         /\ GuardsMatch(t) /\ S \cap MappedColumns(t) = {} =>
              GuardsMatch(u) /\ MappedColumns(u) = MappedColumns(t)
         /\ \A i \in Columns(t) : Evals(u, i) = IF i \in S THEN kind ELSE Evals(t, i)
<1>1. /\ Related(t, u) /\ Noted(u) = Noted(t) /\ Backed(u) = Backed(t)
      /\ \A i \in Columns(t) : Evals(u, i) = IF i \in S THEN kind ELSE Evals(t, i)
  BY SetEvalsRelated
<1>2. u \in TreeRecord /\ Columns(u) = Columns(t)
  BY <1>1 DEF Related
<1>3. IsTree(u)
  BY <1>1, <1>2 DEF IsTree
<1>4. ASSUME S \cap MappedColumns(t) = {} PROVE MappedColumns(u) = MappedColumns(t)
  BY <1>1, <1>2, <1>4 DEF MappedColumns
<1>. QED
  BY <1>1, <1>3, <1>4 DEF GuardsMatch

(* After a release no column has evaluations, no guard is left, and the two  *)
(* agree.                                                                    *)
LEMMA WithoutEvaluationsFacts ==
  ASSUME NEW t \in TreeRecord, NEW u, u = WithoutEvaluations(t)
  PROVE  /\ Related(t, u) /\ IsTree(u) /\ GuardsMatch(u)
         /\ Resident(u) = {} /\ MappedColumns(u) = {}
<1> DEFINE v == SetEvals(t, Columns(t), "none")
<1>1. /\ Related(t, v)
      /\ \A i \in Columns(t) : Evals(v, i) = "none"
  BY SetEvalsRelated
<1> HIDE DEF v
<1>2. u = [v EXCEPT !.guards = <<>>]
  BY DEF WithoutEvaluations, v
<1>3. v \in TreeRecord
  BY <1>1 DEF Related
<1>4. /\ u \in TreeRecord /\ u.owned = v.owned /\ u.polys = v.polys /\ u.guards = <<>>
  <2>1. PICK gs \in Seq(Guard) : gs = <<>>
    <3>1. <<>> \in Seq(Guard)
      OBVIOUS
    <3>. QED
      BY ONLY <3>1, Zenon
  <2>2. u = [v EXCEPT !.guards = gs]
    BY ONLY <1>2, <2>1
  <2>3. u \in TreeRecord /\ u.owned = v.owned /\ u.polys = v.polys /\ u.guards = gs
    BY ONLY <1>3, <2>2, WithGuards
  <2>. QED
    BY ONLY <2>1, <2>3
<1>5. Related(t, u) /\ Columns(u) = Columns(t) /\ \A i \in Columns(t) : Evals(u, i) = "none"
  BY <1>1, <1>4 DEF Related, Columns, Evals, Coeffs, HasCoefficients, CanRecompute
<1>6. Resident(u) = {} /\ MappedColumns(u) = {}
  BY <1>5 DEF Resident, MappedColumns
<1>7. Noted(u) = {} /\ Backed(u) = {}
  BY <1>4 DEF Noted, Backed
<1>. QED
  BY <1>4, <1>5, <1>6, <1>7 DEF IsTree, GuardsMatch

(* A release forgets what is in maps and frees the rest.                     *)
LEMMA HandedByReleaseFacts ==
  ASSUME NEW t \in TreeRecord, GuardsMatch(t), NEW to
  PROVE  HandedByRelease(t, to) \subseteq {<<"forgotten", "map">>, <<to, "heap">>}
<1> DEFINE v == ForgetMapped(t)
<1>1. /\ Columns(v) = Columns(t)
      /\ \A i \in Columns(t) : Evals(v, i) = IF i \in Noted(t) THEN "none" ELSE Evals(t, i)
  <2>1. CASE t.guards = <<>>
    BY <2>1 DEF ForgetMapped, Noted
  <2>2. CASE t.guards # <<>>
    <3>1. v = SetEvals(t, Noted(t), "none")
      BY <2>2 DEF ForgetMapped
    <3> HIDE DEF v
    <3>. QED
      BY <3>1, SetEvalsFacts
  <2>. QED
    BY <2>1, <2>2
<1>2. Noted(t) = {i \in Columns(t) : Evals(t, i) = "map"}
  BY DEF GuardsMatch, MappedColumns
<1>3. HandedByForget(t) \subseteq {<<"forgotten", "map">>}
  <2>1. HandedByForget(t) = {<<"forgotten", Evals(t, i)>> : i \in Resident(t) \ Resident(v)}
    BY DEF HandedByForget
  <2> HIDE DEF v
  <2>2. \A i \in Resident(t) \ Resident(v) : Evals(t, i) = "map"
    BY <1>1, <1>2 DEF Resident
  <2>. QED
    BY <2>1, <2>2
<1>4. {<<to, Evals(v, i)>> : i \in Resident(v)} \subseteq {<<to, "heap">>}
  <2> HIDE DEF v
  <2>1. \A i \in Resident(v) : Evals(v, i) = "heap"
    BY <1>1, <1>2, ColumnFacts DEF Resident
  <2>. QED
    BY <2>1
<1>. QED
  BY <1>3, <1>4 DEF HandedByRelease

(* The guards are not asked, so what is dropped must not be in a map.        *)
LEMMA DropColumnsFacts ==
  ASSUME NEW t \in TreeRecord, IsTree(t), NEW S, NEW u, u = DropColumns(t, S)
  PROVE  /\ Related(t, u) /\ IsTree(u) /\ Resident(u) = Resident(t) \ S
         /\ GuardsMatch(t) /\ S \cap MappedColumns(t) = {} =>
              /\ GuardsMatch(u) /\ MappedColumns(u) = MappedColumns(t)
              /\ HandedByDrop(t, S) \subseteq {<<"allocator", "heap">>}
<1>1. u = SetEvals(t, S, "none")
  BY DEF DropColumns
<1>2. /\ Related(t, u) /\ IsTree(u)
      /\ GuardsMatch(t) /\ S \cap MappedColumns(t) = {} =>
           GuardsMatch(u) /\ MappedColumns(u) = MappedColumns(t)
      /\ \A i \in Columns(t) : Evals(u, i) = IF i \in S THEN "none" ELSE Evals(t, i)
  BY <1>1, SetEvalsOffMaps
<1>3. Columns(u) = Columns(t)
  BY <1>2 DEF Related
<1>4. Resident(u) = Resident(t) \ S
  BY <1>2, <1>3 DEF Resident
<1>5. ASSUME S \cap MappedColumns(t) = {}
      PROVE  HandedByDrop(t, S) \subseteq {<<"allocator", "heap">>}
  <2>1. \A i \in S \cap Resident(t) : Evals(t, i) = "heap"
    BY <1>5, ColumnFacts DEF Resident, MappedColumns
  <2>. QED
    BY <2>1 DEF HandedByDrop
<1>. QED
  BY <1>2, <1>4, <1>5

(* What is missing of S comes to the heap, and nothing else moves.           *)
LEMMA MaterializeColumnsFacts ==
  ASSUME NEW t \in TreeRecord, IsTree(t), NEW S, NEW u, u = MaterializeColumns(t, S)
  PROVE  /\ Related(t, u) /\ IsTree(u)
         /\ Resident(u) = Resident(t) \cup (S \cap Columns(t))
         /\ MappedColumns(u) = MappedColumns(t)
         /\ GuardsMatch(t) => GuardsMatch(u)
<1>1. u = SetEvals(t, S \ Resident(t), "heap")
  BY DEF MaterializeColumns
<1>2. (S \ Resident(t)) \cap MappedColumns(t) = {}
  BY DEF Resident, MappedColumns
<1>3. /\ Related(t, u) /\ IsTree(u)
      /\ GuardsMatch(t) => GuardsMatch(u)
      /\ \A i \in Columns(t) :
           Evals(u, i) = IF i \in S \ Resident(t) THEN "heap" ELSE Evals(t, i)
  BY <1>1, <1>2, SetEvalsOffMaps
<1>4. Columns(u) = Columns(t)
  BY <1>3 DEF Related
<1>. QED
  BY <1>3, <1>4 DEF Resident, MappedColumns

(* Indices relative to the start of a batch, shifted back, are the indices   *)
(* of the tree.                                                              *)
LEMMA OffsetIsIdentity ==
  ASSUME NEW S \in SUBSET Int, NEW start \in Int
  PROVE  OffsetIndices(S, start) = S
<1>1. \A i \in S : (i - start + 1) + (start - 1) = i
  OBVIOUS
<1>. QED
  BY <1>1 DEF OffsetIndices

(* Columns move to a new map, and its guard names them.                      *)
LEMMA SpillColumnsFacts ==
  ASSUME NEW t \in TreeRecord, IsTree(t), NEW start \in Int, NEW S \in SUBSET Columns(t),
         NEW u, u = SpillColumns(t, start, S)
  PROVE  /\ Related(t, u) /\ IsTree(u)
         /\ GuardsMatch(t) => GuardsMatch(u)
         /\ \A i \in Columns(t) : Evals(u, i) = IF i \in S THEN "map" ELSE Evals(t, i)
<1>1. CASE S = {}
  BY <1>1 DEF SpillColumns, Related
<1>2. CASE S # {}
  <2> DEFINE v == SetEvals(t, S, "map")
             g == [backs |-> S, indices |-> OffsetIndices(S, start)]
  <2>1. /\ Related(t, v) /\ v.guards = t.guards /\ v \in TreeRecord
        /\ \A i \in Columns(t) : Evals(v, i) = IF i \in S THEN "map" ELSE Evals(t, i)
    BY SetEvalsRelated DEF Related
  <2>2. u = [v EXCEPT !.guards = Append(@, g)]
    BY <1>2 DEF SpillColumns
  <2>3. g = [backs |-> S, indices |-> S] /\ g \in Guard
    <3>1. \A i \in Columns(t) : i \in Nat
      BY ColumnFacts
    <3>. QED
      BY <3>1, OffsetIsIdentity DEF Guard
  <2> HIDE DEF v, g
  <2>4. t.guards \in Seq(Guard)
    BY ColumnFacts
  <2>5. /\ u \in TreeRecord /\ u.owned = v.owned /\ u.polys = v.polys
        /\ u.guards = Append(t.guards, g)
    <3> DEFINE gs == Append(t.guards, g)
    <3>1. gs \in Seq(Guard)
      BY <2>3, <2>4
    <3>2. u = [v EXCEPT !.guards = gs]
      BY <2>1, <2>2
    <3> HIDE DEF gs
    <3>3. u \in TreeRecord /\ u.owned = v.owned /\ u.polys = v.polys /\ u.guards = gs
      BY <2>1, <3>1, <3>2, WithGuards
    <3>. QED
      BY <3>3 DEF gs
  <2>6. /\ Related(t, u) /\ Columns(u) = Columns(t)
        /\ \A i \in Columns(t) : Evals(u, i) = IF i \in S THEN "map" ELSE Evals(t, i)
    BY <2>1, <2>5 DEF Related, Columns, Evals, Coeffs, HasCoefficients, CanRecompute
  <2>7. Noted(u) = Noted(t) \cup S /\ Backed(u) = Backed(t) \cup S
    <3>1. /\ DOMAIN u.guards = DOMAIN t.guards \cup {Len(t.guards) + 1}
          /\ \A k \in DOMAIN t.guards : u.guards[k] = t.guards[k]
          /\ u.guards[Len(t.guards) + 1] = g
      BY <2>3, <2>4, <2>5
    <3>. QED
      BY <2>3, <3>1 DEF Noted, Backed
  <2>8. MappedColumns(u) = MappedColumns(t) \cup S
    BY <2>6 DEF MappedColumns
  <2>. QED
    BY <2>5, <2>6, <2>7, <2>8 DEF IsTree, GuardsMatch
<1>. QED
  BY <1>1, <1>2

(* The places of a concatenation: those of the first sequence, then those   *)
(* of the second.                                                            *)
LEMMA Concatenation ==
  ASSUME NEW A, NEW s \in Seq(A), NEW r \in Seq(A)
  PROVE  /\ \A k \in DOMAIN s : k \in DOMAIN (s \o r) /\ (s \o r)[k] = s[k]
         /\ \A k \in 1 .. Len(r) :
              Len(s) + k \in DOMAIN (s \o r) /\ (s \o r)[Len(s) + k] = r[k]
         /\ \A k \in DOMAIN (s \o r) :
              k \in DOMAIN s \/ \E j \in 1 .. Len(r) : k = Len(s) + j
<1>1. /\ Len(s) \in Nat /\ DOMAIN s = 1 .. Len(s)
      /\ Len(r) \in Nat /\ DOMAIN r = 1 .. Len(r)
      /\ Len(s \o r) = Len(s) + Len(r) /\ DOMAIN (s \o r) = 1 .. Len(s \o r)
  OBVIOUS
<1>2. \A k \in DOMAIN s : k \in DOMAIN (s \o r) /\ (s \o r)[k] = s[k]
  BY <1>1
<1>3. \A k \in 1 .. Len(r) : Len(s) + k \in DOMAIN (s \o r) /\ (s \o r)[Len(s) + k] = r[k]
  BY <1>1
<1>4. ASSUME NEW k \in DOMAIN (s \o r), k \notin DOMAIN s
      PROVE  \E j \in 1 .. Len(r) : k = Len(s) + j
  <2>1. k - Len(s) \in 1 .. Len(r) /\ k = Len(s) + (k - Len(s))
    BY ONLY <1>1, <1>4
  <2>. QED
    BY ONLY <2>1
<1>. QED
  BY ONLY <1>2, <1>3, <1>4

(* Columns are made in maps, and the guard of each map names its group.      *)
LEMMA MapGroupsFacts ==
  ASSUME NEW t \in TreeRecord, IsTree(t), NEW n \in Nat,
         NEW groups \in [1 .. n -> SUBSET Columns(t)], NEW u, u = MapGroups(t, groups)
  PROVE  /\ Related(t, u) /\ IsTree(u)
         /\ GuardsMatch(t) => GuardsMatch(u)
         /\ \A i \in Columns(t) :
              Evals(u, i) = IF \E k \in 1 .. n : i \in groups[k] THEN "map" ELSE Evals(t, i)
<1> DEFINE S == UNION {groups[k] : k \in DOMAIN groups}
           v == SetEvals(t, S, "map")
           made == [k \in DOMAIN groups |-> [backs |-> groups[k], indices |-> groups[k]]]
           gs == t.guards \o made
<1>1. S \in SUBSET Columns(t) /\ \A i : i \in S <=> \E k \in 1 .. n : i \in groups[k]
  OBVIOUS
<1>2. u = [v EXCEPT !.guards = @ \o made]
  BY DEF MapGroups
<1>3. t.guards \in Seq(Guard) /\ \A i \in Columns(t) : i \in Nat
  BY ColumnFacts
<1>4. /\ made \in Seq(Guard) /\ Len(made) = n
      /\ \A k \in 1 .. n : made[k].backs = groups[k] /\ made[k].indices = groups[k]
  <2>1. \A k \in 1 .. n : [backs |-> groups[k], indices |-> groups[k]] \in Guard
    BY <1>3 DEF Guard
  <2>. QED
    BY <2>1
<1> HIDE DEF S, made
<1>5. /\ Related(t, v) /\ v.guards = t.guards /\ v \in TreeRecord
      /\ \A i \in Columns(t) : Evals(v, i) = IF i \in S THEN "map" ELSE Evals(t, i)
  BY <1>1, SetEvalsRelated DEF Related
<1> HIDE DEF v
<1>6. u = [v EXCEPT !.guards = gs] /\ gs \in Seq(Guard)
  <2>1. gs \in Seq(Guard)
    BY ONLY <1>3, <1>4
  <2>2. v.guards \o made = gs
    BY ONLY <1>5
  <2>. QED
    BY ONLY <1>2, <2>1, <2>2
<1>7. /\ \A k \in DOMAIN t.guards : k \in DOMAIN gs /\ gs[k] = t.guards[k]
      /\ \A k \in 1 .. n : Len(t.guards) + k \in DOMAIN gs /\ gs[Len(t.guards) + k] = made[k]
      /\ \A k \in DOMAIN gs : k \in DOMAIN t.guards
           \/ \E j \in 1 .. n : k = Len(t.guards) + j
  <2>1. /\ \A k \in DOMAIN t.guards : k \in DOMAIN gs /\ gs[k] = t.guards[k]
        /\ \A k \in 1 .. Len(made) :
             Len(t.guards) + k \in DOMAIN gs /\ gs[Len(t.guards) + k] = made[k]
        /\ \A k \in DOMAIN gs :
             k \in DOMAIN t.guards \/ \E j \in 1 .. Len(made) : k = Len(t.guards) + j
    <3>1. t.guards \in Seq(Guard) /\ made \in Seq(Guard)
      BY ONLY <1>3, <1>4
    <3>. QED
      BY ONLY <3>1, Concatenation, Zenon
  <2>2. Len(made) = n
    BY ONLY <1>4
  <2>. QED
    BY ONLY <2>1, <2>2
<1> HIDE DEF gs
<1>8. u \in TreeRecord /\ u.owned = v.owned /\ u.polys = v.polys /\ u.guards = gs
  BY <1>5, <1>6, WithGuards
<1>9. /\ Related(t, u) /\ Columns(u) = Columns(t)
      /\ \A i \in Columns(t) : Evals(u, i) = IF i \in S THEN "map" ELSE Evals(t, i)
  BY <1>5, <1>8 DEF Related, Columns, Evals, Coeffs, HasCoefficients, CanRecompute
<1>10. Noted(u) = Noted(t) \cup S /\ Backed(u) = Backed(t) \cup S
  <2>1. \A k \in DOMAIN gs :
          \/ k \in DOMAIN t.guards /\ gs[k] = t.guards[k]
          \/ \E j \in 1 .. n : gs[k].indices = groups[j] /\ gs[k].backs = groups[j]
    <3>1. ASSUME NEW k \in DOMAIN gs, k \notin DOMAIN t.guards
          PROVE  \E j \in 1 .. n : gs[k].indices = groups[j] /\ gs[k].backs = groups[j]
      <4>1. PICK j \in 1 .. n : k = Len(t.guards) + j
        BY <1>7, <3>1
      <4>2. gs[k] = made[j]
        BY ONLY <1>7, <4>1
      <4>. QED
        BY <1>4, <4>1, <4>2
    <3>. QED
      BY <1>7, <3>1
  <2>2. /\ \A k \in DOMAIN t.guards : \E l \in DOMAIN gs : gs[l] = t.guards[k]
        /\ \A j \in 1 .. n : \E l \in DOMAIN gs : gs[l].indices = groups[j] /\ gs[l].backs = groups[j]
    <3>1. ASSUME NEW j \in 1 .. n
          PROVE  \E l \in DOMAIN gs : gs[l].indices = groups[j] /\ gs[l].backs = groups[j]
      <4>1. /\ Len(t.guards) + j \in DOMAIN gs
            /\ gs[Len(t.guards) + j].indices = groups[j] /\ gs[Len(t.guards) + j].backs = groups[j]
        BY <1>4, <1>7, <3>1
      <4>. QED
        BY <4>1
    <3>. QED
      BY <1>7, <3>1
  <2>3. Noted(u) \subseteq Noted(t) \cup S /\ Backed(u) \subseteq Backed(t) \cup S
    BY ONLY <1>1, <1>8, <2>1 DEF Noted, Backed
  <2>4. Noted(t) \cup S \subseteq Noted(u) /\ Backed(t) \cup S \subseteq Backed(u)
    BY ONLY <1>1, <1>8, <2>2 DEF Noted, Backed
  <2>. QED
    BY <2>3, <2>4
<1>11. MappedColumns(u) = MappedColumns(t) \cup S
  BY <1>1, <1>9 DEF MappedColumns
<1>. QED
  BY <1>1, <1>8, <1>9, <1>10, <1>11 DEF IsTree, GuardsMatch

(* A spill hands the allocator the heap buffers it copied.                   *)
LEMMA HandedBySpillFacts ==
  ASSUME NEW t, NEW S, \A i \in S : Evals(t, i) = "heap"
  PROVE  HandedBySpill(t, S) \subseteq {<<"allocator", "heap">>}
BY DEF HandedBySpill

(* Coefficients go from the heap to a file; evaluations stay where they are. *)
LEMMA SpillCoefficientsFacts ==
  ASSUME NEW t \in TreeRecord, IsTree(t), NEW u, u = SpillCoefficients(t)
  PROVE  /\ Related(t, u) /\ IsTree(u)
         /\ GuardsMatch(t) => GuardsMatch(u)
         /\ u.guards = t.guards
         /\ \A i \in Columns(t) : Evals(u, i) = Evals(t, i)
         /\ Resident(u) = Resident(t) /\ MappedColumns(u) = MappedColumns(t)
<1> DEFINE f == [i \in Columns(t) |->
      IF i \in InMemory(t) THEN [t.polys[i] EXCEPT !.coeffs = "file"] ELSE t.polys[i]]
<1>1. ASSUME NEW i \in Columns(t)
      PROVE  /\ f[i] \in Poly /\ f[i].evals = Evals(t, i)
             /\ f[i].coeffs = IF Coeffs(t, i) = "heap" THEN "file" ELSE Coeffs(t, i)
  <2>1. t.polys[i] \in Poly
    BY DEF TreeRecord, Columns
  <2>2. [t.polys[i] EXCEPT !.coeffs = "file"] = [coeffs |-> "file", evals |-> t.polys[i].evals]
    BY <2>1 DEF Poly
  <2>3. i \in InMemory(t) <=> Coeffs(t, i) = "heap"
    BY DEF InMemory
  <2>. QED
    BY <2>1, <2>2, <2>3 DEF Poly, Coeffs, Evals
<1>2. f \in [Columns(t) -> Poly]
  BY <1>1
<1>3. u = [t EXCEPT !.polys = f]
  BY DEF SpillCoefficients
<1> HIDE DEF f
<1>4. /\ u \in TreeRecord /\ u.owned = t.owned /\ u.guards = t.guards
      /\ u.polys = f /\ Len(u.polys) = Len(t.polys) /\ Columns(u) = Columns(t)
  BY <1>2, <1>3, WithPolys
<1>5. \A i \in Columns(t) :
        /\ Evals(u, i) = Evals(t, i)
        /\ Coeffs(u, i) = IF Coeffs(t, i) = "heap" THEN "file" ELSE Coeffs(t, i)
  BY <1>1, <1>4 DEF Coeffs, Evals
<1>6. Related(t, u)
  BY <1>4, <1>5 DEF Related, HasCoefficients, CanRecompute
<1>7. Resident(u) = Resident(t) /\ MappedColumns(u) = MappedColumns(t)
  BY <1>4, <1>5 DEF Resident, MappedColumns
<1>8. Noted(u) = Noted(t) /\ Backed(u) = Backed(t)
  BY <1>4 DEF Noted, Backed
<1>. QED
  BY <1>4, <1>5, <1>6, <1>7, <1>8 DEF IsTree, GuardsMatch

(* A checkpoint thins the Merkle tree and leaves columns and guards alone.   *)
LEMMA CheckpointFacts ==
  ASSUME NEW t \in TreeRecord, IsTree(t), NEW u, u = Checkpoint(t)
  PROVE  /\ Related(t, u) /\ IsTree(u)
         /\ GuardsMatch(t) => GuardsMatch(u)
         /\ u.polys = t.polys /\ u.guards = t.guards
         /\ Resident(u) = Resident(t) /\ MappedColumns(u) = MappedColumns(t)
<1>1. /\ u \in TreeRecord /\ u.owned = t.owned /\ u.polys = t.polys /\ u.guards = t.guards
  BY DEF Checkpoint, TreeRecord
<1>. QED
  BY <1>1 DEF Related, IsTree, GuardsMatch, Noted, Backed, Resident, MappedColumns, Columns,
     Evals, Coeffs, HasCoefficients, CanRecompute

(* The extension adds a column to the tree under construction.               *)
LEMMA AppendColumnFacts ==
  ASSUME NEW t \in TreeRecord, IsTree(t), NEW p \in Poly, p.evals = "heap",
         NEW u, u = [t EXCEPT !.polys = Append(@, p)]
  PROVE  /\ u \in TreeRecord /\ IsTree(u) /\ u.owned = t.owned
         /\ GuardsMatch(t) => GuardsMatch(u)
         /\ Len(u.polys) = Len(t.polys) + 1
         /\ Evals(u, Len(u.polys)) = "heap"
         /\ \A i \in Columns(t) : Evals(u, i) = Evals(t, i)
         /\ CanRecompute(t) /\ p.coeffs # "none" => CanRecompute(u)
         /\ AllResident(t) => AllResident(u)
<1> DEFINE ps == Append(t.polys, p)
<1>1. Len(t.polys) \in Nat /\ Columns(t) = 1 .. Len(t.polys) /\ t.polys \in Seq(Poly)
  BY ColumnFacts
<1>2. ps \in Seq(Poly) /\ Len(ps) = Len(t.polys) + 1 /\ DOMAIN ps = 1 .. Len(t.polys) + 1
  BY <1>1
<1>3. /\ ps[Len(t.polys) + 1] = p
      /\ \A i \in Columns(t) : ps[i] = t.polys[i]
  BY <1>1
<1>4. u = [t EXCEPT !.polys = ps]
  OBVIOUS
<1> HIDE DEF ps
<1>5. u \in TreeRecord /\ u.owned = t.owned /\ u.polys = ps /\ u.guards = t.guards
  BY <1>2, <1>4 DEF TreeRecord
<1>6. Columns(u) = Columns(t) \cup {Len(t.polys) + 1} /\ Len(u.polys) = Len(t.polys) + 1
  BY <1>1, <1>2, <1>5 DEF Columns
<1>7. /\ \A i \in Columns(t) : Evals(u, i) = Evals(t, i) /\ Coeffs(u, i) = Coeffs(t, i)
      /\ Evals(u, Len(t.polys) + 1) = "heap" /\ Coeffs(u, Len(t.polys) + 1) = p.coeffs
  BY <1>3, <1>5 DEF Evals, Coeffs
<1>8. MappedColumns(u) = MappedColumns(t)
  BY <1>6, <1>7 DEF MappedColumns
<1>9. Noted(u) = Noted(t) /\ Backed(u) = Backed(t)
  BY <1>5 DEF Noted, Backed
<1>10. AllResident(t) => AllResident(u)
  BY <1>6, <1>7 DEF AllResident, Resident
<1>11. CanRecompute(t) /\ p.coeffs # "none" => CanRecompute(u)
  BY <1>6, <1>7 DEF CanRecompute, HasCoefficients
<1>. QED
  BY <1>5, <1>6, <1>7, <1>8, <1>9, <1>10, <1>11 DEF IsTree, GuardsMatch
==============================================================================
