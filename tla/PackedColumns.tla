---------------------------- MODULE PackedColumns ----------------------------
(***************************************************************************)
(* The columns of SimdBackend: BaseColumn, SecureColumn (CM31Column is     *)
(* alike), SecureColumnByCoords and VeryPackedBaseColumn, each a vector of *)
(* packed vectors and a length, the last vector padded.                    *)
(***************************************************************************)
EXTENDS PackedFields, FiniteSets

CONSTANTS ColumnLengths, MaxEdits    \* bounds: lengths, writes

ASSUME LengthsAssumption ==
  ColumnLengths \subseteq Nat /\ \E longest \in ColumnLengths : \A n \in ColumnLengths : n <= longest

VARIABLES packed, edits,
          torn   \* history: a split has parted the column elsewhere than at its half
packed_vars == <<packed, edits, torn>>

VeryPacked == 2    \* N_VERY_PACKED_ELEMS
WidthOf(kind) == IF kind = "very" THEN VeryPacked * Lanes ELSE Lanes
Cells(n) == 0 .. n - 1
CeilDiv(n, d) == (n + d - 1) \div d
IsSecure(kind) == kind \in {"secure", "coords"}
ReduceCell(kind, v) == IF IsSecure(kind) THEN ReduceQM31(v) ELSE LaneReduce(v)
ZeroCell(kind) == IF IsSecure(kind) THEN QM31Zero ELSE 0

(* from_iter: full vectors, then the remainder padded with zeros.          *)
FromIter(kind, cells) ==
  LET n == Cardinality(DOMAIN cells)
      width == WidthOf(kind)
  IN  [kind |-> kind, length |-> n,
       data |-> [k \in Cells(CeilDiv(n, width)) |-> [l \in Cells(width) |->
                  IF k * width + l < n THEN cells[k * width + l] ELSE ZeroCell(kind)]]]
Zeros(kind, n) == FromIter(kind, [i \in Cells(n) |-> ZeroCell(kind)])

(* at and set: a vector as an array of reduced elements.                   *)
CellAt(column, i) == ReduceCell(column.kind, column.data[i \div WidthOf(column.kind)][i % WidthOf(column.kind)])
SetCell(column, i, v) ==
  LET width == WidthOf(column.kind)
  IN  [column EXCEPT !.data[i \div width] =
         [l \in Cells(width) |-> IF l = i % width THEN v ELSE ReduceCell(column.kind, @[l])]]
(* The cells as they are read one by one, and by to_cpu of every column    *)
(* but BaseColumn, whose to_cpu hands out words as they are, P included.   *)
CellsOf(column) == [i \in Cells(column.length) |-> CellAt(column, i)]

(* split_at_mid: half of the vectors and half of the length, whatever the  *)
(* number of cells; its halves are those of the column when the first      *)
(* vectors hold the first half of the cells, no more and no less.          *)
PartsAtHalf(column) ==
  (Cardinality(DOMAIN column.data) \div 2) * WidthOf(column.kind) = column.length \div 2
SplitColumn(column) ==
  LET n == Cardinality(DOMAIN column.data)
      half == n \div 2
      mid == column.length \div 2
  IN  <<[kind |-> column.kind, length |-> mid,
         data |-> [k \in Cells(half) |-> column.data[k]]],
        [kind |-> column.kind, length |-> column.length - mid,
         data |-> [k \in Cells(n - half) |-> column.data[half + k]]]>>

(* BaseColumn and VeryPackedBaseColumn share their memory: cast_vec takes  *)
(* an even number of vectors.                                              *)
IntoVeryPacked(column) ==
  [kind |-> "very", length |-> column.length,
   data |-> [k \in Cells(Cardinality(DOMAIN column.data) \div VeryPacked) |->
              [l \in Cells(VeryPacked * Lanes) |-> column.data[VeryPacked * k + l \div Lanes][l % Lanes]]]]
FromVeryPacked(column) ==
  [kind |-> "base", length |-> column.length,
   data |-> [k \in Cells(Cardinality(DOMAIN column.data) * VeryPacked) |->
              [l \in Cells(Lanes) |-> column.data[k \div VeryPacked][(k % VeryPacked) * Lanes + l]]]]

(* into_secure_column, and into_secure_column_by_coords, which goes over   *)
(* the CPU for less than a vector.                                         *)
IntoSecureColumn(column) ==
  [kind |-> "secure", length |-> column.length,
   data |-> [k \in DOMAIN column.data |-> [l \in Cells(Lanes) |-> FromM31(column.data[k][l])]]]
Coordinate(v, c) == v[1 + c \div 2][1 + (c % 2)]
IntoCoords(column) ==
  LET cells == IF column.length < Lanes THEN FromIter("coords", CellsOf(column)).data ELSE column.data
  IN  [kind |-> "coords", length |-> column.length,
       data |-> [c \in Cells(4) |-> [k \in DOMAIN cells |->
                  [l \in Cells(Lanes) |-> Coordinate(cells[k][l], c)]]]]
(* packed_at and set_packed, through the four coordinate columns.          *)
PackedAt(column, k) ==
  [l \in Cells(Lanes) |-> <<<<column.data[0][k][l], column.data[1][k][l]>>,
                            <<column.data[2][k][l], column.data[3][k][l]>>>>]
(* Mutant: the last two coordinates change places.                         *)
SetPackedSwapped(column, k, v) ==
  [column EXCEPT !.data = [c \in Cells(4) |->
     [column.data[c] EXCEPT ![k] = [l \in Cells(Lanes) |-> Coordinate(v[l], IF c < 2 THEN c ELSE 5 - c)]]]]
SetPacked(column, k, v) ==
  [column EXCEPT !.data = [c \in Cells(4) |->
     [column.data[c] EXCEPT ![k] = [l \in Cells(Lanes) |-> Coordinate(v[l], c)]]]]
CoordsToVec(column) ==
  [i \in Cells(column.length) |-> ReduceQM31(PackedAt(column, i \div Lanes)[i % Lanes])]

NoColumn == [kind |-> "base", length |-> 0, data |-> <<>>]
PackedIdle == packed = NoColumn /\ edits = 0 /\ torn = FALSE
PackedInit ==
  /\ \E n \in ColumnLengths :
       packed \in {FromIter("base", [i \in Cells(n) |-> (i + 1) % P]), Zeros("base", n),
                   FromIter("base", [i \in Cells(n) |-> IF i = 0 THEN P ELSE i % P])}
  /\ edits = 0 /\ torn = FALSE

BaseElements == {0, P - 1}
SecureElements == {QM31Zero, <<<<1, 2>>, <<3, 4>>>>}
Edit == edits < MaxEdits /\ edits' = edits + 1 /\ UNCHANGED torn
SetAt(i) ==
  /\ packed.kind # "coords" /\ Edit
  /\ \E v \in IF IsSecure(packed.kind) THEN SecureElements ELSE BaseElements :
       packed' = SetCell(packed, i, v)
SetPackedAt(k) ==
  /\ packed.kind = "coords" /\ Edit
  /\ \E v \in SecureElements, w \in SecureElements :
       packed' = SetPacked(packed, k, [l \in Cells(Lanes) |-> IF l % 2 = 0 THEN v ELSE w])
Split ==
  /\ packed.kind # "coords"
  /\ \E half \in 1 .. 2 : packed' = SplitColumn(packed)[half]
  /\ torn' = ~PartsAtHalf(packed)
  /\ UNCHANGED edits
Cast ==
  /\ \/ /\ packed.kind = "base" /\ Cardinality(DOMAIN packed.data) % VeryPacked = 0
        /\ packed' = IntoVeryPacked(packed)
     \/ packed.kind = "very" /\ packed' = FromVeryPacked(packed)
     \/ packed.kind = "base" /\ packed' = IntoSecureColumn(packed)
     \/ packed.kind = "secure" /\ packed' = IntoCoords(packed)
  /\ UNCHANGED <<edits, torn>>
(* What is left of a torn column is not looked at.                         *)
PackedNext ==
  /\ packed.length > 0 /\ ~torn
  /\ \/ \E i \in Cells(packed.length) : SetAt(i)
     \/ \E k \in Cells(CeilDiv(packed.length, Lanes)) : SetPackedAt(k)
     \/ Split \/ Cast
PackedSpec == PackedInit /\ [][PackedNext]_packed_vars

(* PROPERTIES *)
ColumnElements(field) == IF field = "secure" THEN SecureElements ELSE BaseElements
ValuesOf(column) == IF column.kind = "coords" THEN CoordsToVec(column) ELSE CellsOf(column)
ColumnValues == IF torn THEN <<>> ELSE ValuesOf(packed)
LongestColumn == CHOOSE n \in ColumnLengths : \A m \in ColumnLengths : m <= n
Abstract == INSTANCE FieldColumn
  WITH Fields <- {"base", "secure"}, ElementsOf <- ColumnElements, Embed <- FromM31, VectorWidth <- Lanes, MaxLength <- LongestColumn,
       values <- ColumnValues, field <- IF IsSecure(packed.kind) THEN "secure" ELSE "base",
       width <- WidthOf(packed.kind)
(* A packed column is a vector of elements: no write touches another cell, *)
(* no cast or padding loses one, and P is zero wherever a cell is read.  A *)
(* split gives the two halves of any column of an even number of whole     *)
(* vectors.  Of others it may tear the column, and then nothing is said:   *)
(* "Splits the column into two halves" (backend/mod.rs:64) is not so.      *)
PackedColumnsAreColumns == Abstract!Spec
=============================================================================
