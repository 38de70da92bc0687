--------------------------- MODULE FieldArithmetic ---------------------------
(***************************************************************************)
(* Batches of field elements and their inverses.  A batch is cut into      *)
(* chunks that worker threads invert, each into its own part of the        *)
(* destination.  The elements are scalars of M31, whole vectors PackedM31, *)
(* or one lane of a PackedQM31 whose other lanes are not zero.             *)
(***************************************************************************)
EXTENDS PackedFields, FiniteSets, TLC

CONSTANTS BatchSizes, ChunkSizes

VARIABLES batch, inverses, uninverted
field_vars == <<batch, inverses, uninverted>>

Batch(n) == 0 .. n - 1
Forced(f) == f @@ <<>>

(* Fraction's sum, over QM31.                                              *)
FractionAdd(f, g) ==
  <<QM31Add(QM31Mul(g[2], f[1]), QM31Mul(f[2], g[1])), QM31Mul(f[2], g[2])>>
FractionZero == <<QM31Zero, QM31One>>

(* A vector's operators act on each of its lanes.                          *)
LaneIndices(field) == IF field = "PackedM31" THEN 0 .. Lanes - 1 ELSE {0}
FieldMul(field, v, w) ==
  CASE field = "M31"        -> M31Mul(v, w)
    [] field = "PackedM31"  -> Forced([l \in LaneIndices(field) |-> LaneMul(v[l], w[l])])
    [] field = "PackedQM31" -> LaneQM31Mul(v, w)
FieldInverse(field, v) ==
  CASE field = "M31"        -> M31Inverse(v)
    [] field = "PackedM31"  -> Forced([l \in LaneIndices(field) |-> LaneInverse(v[l])])
    [] field = "PackedQM31" -> LaneQM31Inverse(v)
FieldOne(field) ==
  CASE field = "M31"        -> 1
    [] field = "PackedM31"  -> [l \in LaneIndices(field) |-> 1]
    [] field = "PackedQM31" -> QM31One
(* is_zero: a packed element is zero when each of its lanes is.            *)
IsZero(field, v) ==
  CASE field = "M31"        -> v = 0
    [] field = "PackedM31"  -> \A l \in LaneIndices(field) : LaneReduce(v[l]) = 0
    [] field = "PackedQM31" -> FALSE

(* Cumulative products with a stride, and the second pass from the         *)
(* inverses of the last ones.                                              *)
Products(field, column, stride) ==
  LET n == Cardinality(DOMAIN column)
      upto[k \in 0 .. n] ==
        IF k = 0 THEN <<>>
        ELSE LET before == upto[k - 1]
                 last == IF k <= stride THEN FieldOne(field) ELSE before[k - 1 - stride]
             IN  before @@ (k - 1 :> FieldMul(field, last, column[k - 1]))
  IN  upto[n]
(* Mutant: the running inverse is not multiplied by the column.            *)
SecondPassStale(field, column, products, tails) ==
  LET stride == Cardinality(DOMAIN tails)
      At(i) == tails[i % stride]
  IN  [i \in DOMAIN column |-> IF i < stride THEN At(i) ELSE FieldMul(field, products[i - stride], At(i))]
SecondPass(field, column, products, tails) ==
  LET n == Cardinality(DOMAIN products)
      stride == Cardinality(DOMAIN tails)
      from[i \in 0 .. n] ==
        IF i = n THEN <<>>
        ELSE LET after == from[i + 1]
             IN  after @@ (i :> IF i + stride >= n THEN tails[i % stride]
                                ELSE FieldMul(field, after[i + stride], column[i + stride]))
      running == from[0]
  IN  [i \in DOMAIN column |->
         IF i < stride THEN running[i] ELSE FieldMul(field, products[i - stride], running[i])]

batch_inverse_classic(field, column) ==
  LET n == Cardinality(DOMAIN column)
      products == Products(field, column, 1)
  IN  SecondPass(field, column, products, Forced([k \in {0} |-> FieldInverse(field, products[n - 1])]))

WIDTH == 4
IsClassic(n) == n <= WIDTH \/ n % WIDTH # 0
(* The last cumulative products of each stride.                            *)
Tails(products) ==
  LET n == Cardinality(DOMAIN products)
  IN  Forced([k \in Batch(WIDTH) |-> products[n - WIDTH + k]])
batch_inverse_in_place(field, column) ==
  LET products == Products(field, column, WIDTH)
  IN  IF IsClassic(Cardinality(DOMAIN column)) THEN batch_inverse_classic(field, column)
      ELSE SecondPass(field, column, products, Forced(batch_inverse_classic(field, Tails(products))))
(* The assertion "0 has no inverse": one element stands for the chunk.     *)
HasInverse(field, column) ==
  LET factors == IF IsClassic(Cardinality(DOMAIN column)) THEN column
                 ELSE Tails(Products(field, column, WIDTH))
  IN  ~IsZero(field, Products(field, factors, 1)[Cardinality(DOMAIN factors) - 1])

(* Requests.  "lane": one element has a zero, in one lane; "spread": every *)
(* vector has one, each in the lane after that of the vector before it.    *)
(* A packed zero is written 0 or P.                                        *)
ZeroAt(r, i, l) ==
  CASE r.zeros = "none"   -> FALSE
    [] r.zeros = "lane"   -> i = r.size \div 2 /\ l = 0
    [] r.zeros = "spread" -> l = i % Lanes
LaneZero(i) == IF i % 2 = 0 THEN 0 ELSE P
Entry(k) == 1 + ((k * 29) % (P - 1))
Element(r, i) ==
  CASE r.field = "M31" -> IF ZeroAt(r, i, 0) THEN 0 ELSE Entry(i + 1)
    [] r.field = "PackedM31" ->
         Forced([l \in LaneIndices(r.field) |-> IF ZeroAt(r, i, l) THEN LaneZero(i) ELSE Entry(i + 3 * l + 1)])
    [] r.field = "PackedQM31" ->
         IF ZeroAt(r, i, 0) THEN <<<<0, P>>, <<P, 0>>>>
         ELSE <<<<i + 1, P>>, <<2 + i, ((i + 1) * 13) % P>>>>
Column(r) == Forced([i \in Batch(r.size) |-> Element(r, i)])
Uninitialized(field) ==
  CASE field = "M31"        -> 0
    [] field = "PackedM31"  -> [l \in LaneIndices(field) |-> 0]
    [] field = "PackedQM31" -> QM31Zero

FieldIdle ==
  /\ batch = [field |-> "none", zeros |-> "none", size |-> 0, chunk |-> 0]
  /\ inverses = <<>> /\ uninverted = {}
FieldInit ==
  /\ batch \in [field : {"M31", "PackedM31", "PackedQM31"}, zeros : {"none", "lane", "spread"},
                 size : BatchSizes, chunk : ChunkSizes]
  /\ batch.zeros = "spread" => batch.field = "PackedM31"
  /\ inverses = Forced([i \in Batch(batch.size) |-> Uninitialized(batch.field)])
  /\ uninverted = {c \in Batch(batch.size) : c * batch.chunk < batch.size}

(* batch_inverse_chunked: one task per chunk; a panic of one takes the     *)
(* whole batch with it.                                                    *)
ChunkOf(c) == {i \in Batch(batch.size) : i \div batch.chunk = c}
InvertChunk(c) ==
  LET start == c * batch.chunk
      column == Forced([i \in Batch(Cardinality(ChunkOf(c))) |-> Column(batch)[start + i]])
      inverted == batch_inverse_in_place(batch.field, column)
  IN  /\ c \in uninverted
      /\ HasInverse(batch.field, column)
      /\ inverses' = [i \in ChunkOf(c) |-> inverted[i - start]] @@ inverses
      /\ uninverted' = uninverted \ {c}
      /\ UNCHANGED batch
ChunkPanics(c) ==
  LET column == Forced([i \in Batch(Cardinality(ChunkOf(c))) |-> Column(batch)[c * batch.chunk + i]])
  IN  /\ c \in uninverted
      /\ ~HasInverse(batch.field, column)
      /\ inverses' = <<>> /\ uninverted' = {}
      /\ UNCHANGED batch

FieldNext == \E c \in uninverted : InvertChunk(c) \/ ChunkPanics(c)

(* PROPERTIES *)
EdgeLanes == {0, 1, 2, P \div 2, P \div 2 + 1, P - 1, P}
CanonicalLane(a) == a % P

ProductsOfVectors ==
  \A shift \in 0 .. 6 :
    LET edges == [i \in 0 .. 6 |-> (<<0, 1, 2, P \div 2, P \div 2 + 1, P - 1, P>>)[i + 1]]
        a == [i \in 0 .. Lanes - 1 |-> edges[(i + shift) % 7]]
        b == [i \in 0 .. Lanes - 1 |-> edges[(3 * i + 2 * shift) % 7]]
        double == [i \in 0 .. Lanes - 1 |-> b[i] + b[i]]
    IN  \A i \in 0 .. Lanes - 1 :
          /\ PackedMul(a, b)[i] = LaneMul(a[i], b[i])
          /\ MulDoubledNeon(a, double)[i] = LaneMul(a[i], b[i])
LanesOfM31 ==
  \A a, b \in EdgeLanes :
    LET x == CanonicalLane(a)
        y == CanonicalLane(b)
    IN  /\ {LaneAdd(a, b), LaneSub(a, b), LaneMul(a, b), LaneNeg(a)} \subseteq PackedLane
        /\ LaneReduce(LaneAdd(a, b)) = M31Add(x, y)
        /\ LaneReduce(LaneSub(a, b)) = M31Sub(x, y)
        /\ LaneReduce(LaneMul(a, b)) = M31Mul(x, y)
        /\ LaneReduce(LaneNeg(a)) = M31Neg(x)
LanesOfQM31 ==
  \A a, b, c \in {1, P \div 2, P} :
    LET v == <<<<a, b>>, <<c, P - 1>>>>
        w == <<<<c, P>>, <<b, a>>>>
        scalar == [x \in {v, w} |-> ReduceQM31(x)]
    IN  /\ ReduceQM31(LaneQM31Mul(v, w)) = QM31Mul(scalar[v], scalar[w])
        /\ ReduceQM31(LaneQM31Inverse(v)) = QM31Inverse(scalar[v])
        /\ QM31Mul(QM31Inverse(scalar[v]), scalar[v]) = QM31One
(* A zero in a lane, of any element of a chunk.                            *)
Spoiled(c, l) == \E i \in ChunkOf(c) : ZeroAt(batch, i, l)
Scalar(v, l) ==
  CASE batch.field = "M31"        -> v
    [] batch.field = "PackedM31"  -> LaneReduce(v[l])
    [] batch.field = "PackedQM31" -> ReduceQM31(v)
ScalarMul(x, y) == IF batch.field = "PackedQM31" THEN QM31Mul(x, y) ELSE M31Mul(x, y)
ScalarOne == IF batch.field = "PackedQM31" THEN QM31One ELSE 1
ScalarZero == IF batch.field = "PackedQM31" THEN QM31Zero ELSE 0
NoInverse(c) == batch.field # "PackedQM31" /\ \A l \in LaneIndices(batch.field) : Spoiled(c, l)
ChunksOfBatch == {i \div batch.chunk : i \in Batch(batch.size)}
BatchIsInverted ==
  \A c \in ChunksOfBatch, l \in LaneIndices(batch.field) : \A i \in ChunkOf(c) :
    LET x == Scalar(inverses[i], l)
    IN  IF Spoiled(c, l) THEN x = ScalarZero
        ELSE ScalarMul(x, Scalar(Column(batch)[i], l)) = ScalarOne

(* The packed fields compute what the scalar fields compute, lane by lane  *)
(* and whatever the representation of zero, and so do the vector products  *)
(* of every target.  Each chunk inverts its own part of a batch; a zero    *)
(* makes its lane zero in all of its chunk and in no other chunk, leaves   *)
(* the other lanes right, and only a chunk with a zero in every lane       *)
(* panics, though no element of it need be zero.                           *)
PackedAgreesWithScalar ==
  /\ batch.field = "PackedM31" => ProductsOfVectors /\ LanesOfM31
  /\ batch.field = "PackedQM31" => LanesOfQM31
  /\ (batch.field # "none" /\ uninverted = {}) =>
       IF \E c \in ChunksOfBatch : NoInverse(c) THEN inverses = <<>> ELSE BatchIsInverted
=============================================================================
