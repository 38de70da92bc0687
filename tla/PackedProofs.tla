---------------------------- MODULE PackedProofs ----------------------------
(***************************************************************************)
(* The packed fields compute the scalar fields, for every modulus          *)
(* 2^ModulusBits - 1 and every even number of lanes: addition,             *)
(* subtraction, negation and multiplication of M31 and QM31, whichever of  *)
(* its two representations a zero has, and the vector products of every    *)
(* target.  Over them, the packed columns implement FieldColumn.           *)
(*                                                                         *)
(* Equality modulo P is Same; a lane, which is in 0 .. P, is followed with *)
(* the integer it is Same as, so that Karatsuba's products become          *)
(* identities of integers.  A column is Whole when it has the vectors its  *)
(* length asks for, each cell in range, and Tight when it has none beyond  *)
(* them, which decides where a split parts it; its Contents are what a     *)
(* reader gets, and every operation is a lemma about them.                 *)
(***************************************************************************)
EXTENDS FieldArithmetic, PackedColumns, FiniteSetTheorems, TLAPS

(* Quotient and remainder of integers, which \div and % are. *)
LEMMA DivMod ==
  ASSUME NEW a \in Int, NEW b \in Nat, b > 0
  PROVE  a = b * (a \div b) + (a % b) /\ a % b \in 0 .. b - 1 /\ a \div b \in Int
  OBVIOUS

(* A multiple grows by the factor. *)
LEMMA TimesSucc ==
  ASSUME NEW x \in Int, NEW y \in Int, NEW b \in Nat, x >= y + 1
  PROVE  b * x >= b * y + b
  OBVIOUS

(* Only the quotient and the remainder divide so. *)
LEMMA DivModUnique ==
  ASSUME NEW a \in Int, NEW b \in Nat, b > 0, NEW q \in Int, NEW r \in 0 .. b - 1, a = b * q + r
  PROVE  a \div b = q /\ a % b = r
<1> DEFINE d == a \div b
           m == a % b
<1>1. a = b * d + m /\ m \in 0 .. b - 1 /\ d \in Int
  BY DivMod
<1> HIDE DEF d, m
<1>2. ~(q >= d + 1)
  <2> SUFFICES ASSUME q >= d + 1 PROVE FALSE
    OBVIOUS
  <2>1. b * q >= b * d + b
    BY TimesSucc, <1>1
  <2> QED
    BY <2>1, <1>1
<1>3. ~(d >= q + 1)
  <2> SUFFICES ASSUME d >= q + 1 PROVE FALSE
    OBVIOUS
  <2>1. b * d >= b * q + b
    BY TimesSucc, <1>1
  <2> QED
    BY <2>1, <1>1
<1>4. d = q
  BY <1>1, <1>2, <1>3
<1> QED
  BY <1>1, <1>4 DEF d, m

(* The modulus and the words that hold it. *)
LEMMA Sizes == /\ P \in Nat /\ P >= 7
               /\ 2 ^ ModulusBits = P + 1
               /\ Word = 2 * (P + 1)
  BY ModulusAssumption DEF Word

(* PackedM31::reduce, the smaller of a and a - P as unsigned words, subtracts P once. *)
LEMMA LaneReduceIs ==
  ASSUME NEW a \in 0 .. 2 * P
  PROVE  LaneReduce(a) = IF a < P THEN a ELSE a - P
<1>1. CASE a < P
  <2>1. (a - P) % Word = a - P + Word
    BY <1>1, Sizes, DivModUnique, a - P = Word * (-1) + (a - P + Word)
  <2> QED
    BY <2>1, <1>1, Sizes DEF LaneReduce, MinLane
<1>2. CASE a >= P
  <2>1. (a - P) % Word = a - P
    BY <1>2, Sizes, DivModUnique, a - P = Word * 0 + (a - P)
  <2> QED
    BY <2>1, <1>2, Sizes DEF LaneReduce, MinLane
<1> QED
  BY <1>1, <1>2, Sizes

(* A lane reduces to its value modulo P, P itself to zero. *)
LEMMA Reduced ==
  ASSUME NEW a \in PackedLane
  PROVE  LaneReduce(a) = a % P /\ a % P \in BaseField
<1>1. CASE a < P
  BY <1>1, Sizes, LaneReduceIs, DivModUnique, a = P * 0 + a DEF PackedLane, BaseField
<1>2. CASE a = P
  BY <1>2, Sizes, LaneReduceIs, DivModUnique, a = P * 1 + 0 DEF PackedLane, BaseField
<1> QED
  BY <1>1, <1>2, Sizes DEF PackedLane

(* Equality modulo P. *)
Same(a, b) == a % P = b % P

(* Numbers a multiple of P apart are equal modulo P. *)
LEMMA SameByMultiple ==
  ASSUME NEW a \in Int, NEW b \in Int, NEW k \in Int, a = b + P * k
  PROVE  Same(a, b)
<1> DEFINE d == b \div P
           m == b % P
<1>1. b = P * d + m /\ m \in 0 .. P - 1 /\ d \in Int
  BY DivMod, Sizes
<1> HIDE DEF d, m
<1>2. a = P * (d + k) + m
  BY <1>1, Sizes
<1>3. d + k \in Int
  BY <1>1
<1>4. a % P = m
  BY <1>1, <1>2, <1>3, DivModUnique, Sizes
<1> QED
  BY <1>4 DEF Same, m

(* Numbers equal modulo P are a multiple of P apart. *)
LEMMA MultipleOfSame ==
  ASSUME NEW a \in Int, NEW b \in Int, Same(a, b)
  PROVE  \E k \in Int : a = b + P * k
<1> DEFINE d == a \div P
           e == b \div P
           m == b % P
<1>1. a = P * d + m /\ b = P * e + m /\ d \in Int /\ e \in Int /\ m \in Int
  BY DivMod, Sizes DEF Same
<1> HIDE DEF d, e, m
<1>2. a = b + P * (d - e) /\ d - e \in Int
  BY <1>1, Sizes
<1> QED
  BY <1>2

(* Equality modulo P goes through sums, differences and products. *)
LEMMA SameSums ==
  ASSUME NEW a \in Int, NEW b \in Int, NEW c \in Int, NEW d \in Int, Same(a, b), Same(c, d)
  PROVE  Same(a + c, b + d) /\ Same(a - c, b - d) /\ Same(a * c, b * d)
<1>1. PICK k \in Int : a = b + P * k
  BY MultipleOfSame
<1>2. PICK l \in Int : c = d + P * l
  BY MultipleOfSame
<1>3. a + c = b + d + P * (k + l)
  BY <1>1, <1>2, Sizes
<1>4. a - c = b - d + P * (k - l)
  BY <1>1, <1>2, Sizes
<1>5. a * c = b * d + P * (k * d + b * l + P * k * l)
  BY <1>1, <1>2, Sizes
<1>6. /\ k + l \in Int /\ k - l \in Int /\ k * d + b * l + P * k * l \in Int
      /\ a + c \in Int /\ a - c \in Int /\ a * c \in Int
      /\ b + d \in Int /\ b - d \in Int /\ b * d \in Int
  BY Sizes
<1>7. Same(a + c, b + d)
  BY <1>3, <1>6, SameByMultiple
<1>8. Same(a - c, b - d)
  BY <1>4, <1>6, SameByMultiple
<1>9. Same(a * c, b * d)
  BY <1>5, <1>6, SameByMultiple
<1> QED
  BY <1>7, <1>8, <1>9

(* The remainder is a field element, equal to the number modulo P. *)
LEMMA SameReduced ==
  ASSUME NEW a \in Int
  PROVE  Same(a % P, a) /\ a % P \in BaseField /\ a % P \in Int
<1>1. a = P * (a \div P) + (a % P) /\ a % P \in 0 .. P - 1 /\ a \div P \in Int
  BY DivMod, Sizes
<1>2. (a % P) = a + P * (-(a \div P)) /\ -(a \div P) \in Int
  BY <1>1, Sizes
<1>3. Same(a % P, a)
  BY <1>1, <1>2, SameByMultiple
<1> QED
  BY <1>1, <1>3 DEF BaseField

(* A sum of two lanes is a lane, and fits its word. *)
LEMMA LaneSum ==
  ASSUME NEW a \in PackedLane, NEW b \in PackedLane
  PROVE  LaneAdd(a, b) \in PackedLane /\ Same(LaneAdd(a, b), a + b)
<1>1. (a + b) % Word = a + b
  BY Sizes, DivModUnique, a + b = Word * 0 + (a + b) DEF PackedLane
<1>2. LaneAdd(a, b) = IF a + b < P THEN a + b ELSE a + b - P
  BY <1>1, Sizes, LaneReduceIs DEF LaneAdd, PackedLane
<1>3. LaneAdd(a, b) = a + b + P * 0 \/ LaneAdd(a, b) = a + b + P * (-1)
  BY <1>2, Sizes DEF PackedLane
<1>4. LaneAdd(a, b) \in PackedLane
  BY <1>2, Sizes DEF PackedLane
<1>5. LaneAdd(a, b) \in Int /\ a + b \in Int
  BY <1>4, Sizes DEF PackedLane
<1> QED
  BY <1>3, <1>4, <1>5, SameByMultiple

(* So is a difference: the borrow adds P back. *)
LEMMA LaneDifference ==
  ASSUME NEW a \in PackedLane, NEW b \in PackedLane
  PROVE  LaneSub(a, b) \in PackedLane /\ Same(LaneSub(a, b), a - b)
<1>1. CASE a >= b
  <2>1. (a - b) % Word = a - b
    BY <1>1, Sizes, DivModUnique, a - b = Word * 0 + (a - b) DEF PackedLane
  <2>2. (a - b + P) % Word = a - b + P
    BY <1>1, Sizes, DivModUnique, a - b + P = Word * 0 + (a - b + P) DEF PackedLane
  <2>3. LaneSub(a, b) = a - b
    BY <1>1, <2>1, <2>2, Sizes DEF LaneSub, LaneBorrow, MinLane, PackedLane
  <2> QED
    BY <1>1, <2>3, Sizes DEF PackedLane, Same
<1>2. CASE a < b
  <2>1. (a - b) % Word = a - b + Word
    BY <1>2, Sizes, DivModUnique, a - b = Word * (-1) + (a - b + Word) DEF PackedLane
  <2>2. (a - b + Word + P) % Word = a - b + P
    BY <1>2, Sizes, DivModUnique, a - b + Word + P = Word * 1 + (a - b + P) DEF PackedLane
  <2>3. LaneSub(a, b) = a - b + P
    BY <1>2, <2>1, <2>2, Sizes DEF LaneSub, LaneBorrow, MinLane, PackedLane
  <2>4. LaneSub(a, b) \in PackedLane /\ LaneSub(a, b) = a - b + P * 1
    BY <1>2, <2>3, Sizes DEF PackedLane
  <2>5. LaneSub(a, b) \in Int /\ a - b \in Int
    BY <2>4, Sizes DEF PackedLane
  <2> QED
    BY <2>4, <2>5, SameByMultiple
<1> QED
  BY <1>1, <1>2, Sizes DEF PackedLane

(* So is a negation, which takes 0 to P. *)
LEMMA LaneOpposite ==
  ASSUME NEW a \in PackedLane
  PROVE  LaneNeg(a) \in PackedLane /\ Same(LaneNeg(a), -a)
<1>1. LaneNeg(a) = P - a
  BY Sizes, DivModUnique, P - a = Word * 0 + (P - a) DEF PackedLane, LaneNeg
<1>2. LaneNeg(a) \in PackedLane /\ LaneNeg(a) = -a + P * 1
  BY <1>1, Sizes DEF PackedLane
<1>3. LaneNeg(a) \in Int /\ -a \in Int
  BY <1>2, Sizes DEF PackedLane
<1> QED
  BY <1>2, <1>3, SameByMultiple

(* So is a product: the halves of the doubled product are lanes, and add up to it modulo P. *)
LEMMA LaneProduct ==
  ASSUME NEW a \in PackedLane, NEW b \in PackedLane
  PROVE  LaneMul(a, b) \in PackedLane /\ Same(LaneMul(a, b), a * b)
<1> DEFINE B == P + 1
           ab == a * b
           q == ab \div B
           r == ab % B
<1>0. B \in Nat /\ B > 0 /\ a \in Int /\ b \in Int /\ P \in Nat
  BY Sizes DEF PackedLane
<1>1. ab \in Nat /\ ab =< P * P
  <2>1. a * b =< P * b /\ P * b =< P * P /\ a * b \in Nat
    BY Sizes DEF PackedLane
  <2> QED
    BY <2>1, Sizes DEF PackedLane
<1>2. ab = B * q + r /\ r \in 0 .. P /\ q \in Int
  BY <1>0, <1>1, DivMod
<1> HIDE DEF q, r, ab
<1>3. q \in 0 .. P
  <2>1. ~(q >= P)
    <3> SUFFICES ASSUME q >= P PROVE FALSE
      BY <1>2
    <3>1. B * q >= B * P
      BY <1>0, <1>2
    <3>2. B * P = P * P + P
      BY <1>0
    <3> QED
      BY <3>1, <3>2, <1>1, <1>2, Sizes
  <2>2. ~(q =< -1)
    <3> SUFFICES ASSUME q =< -1 PROVE FALSE
      BY <1>2
    <3>1. 0 >= B * q + B
      BY <1>0, <1>2
    <3> QED
      BY <3>1, <1>1, <1>2, <1>0
  <2> QED
    BY <2>1, <2>2, <1>2, Sizes
<1>4. a * (b + b) = Word * q + 2 * r
  <2>1. a * (b + b) = 2 * ab
    BY <1>0 DEF ab
  <2>2. Word * q = 2 * (B * q)
    BY <1>2, Sizes
  <2> QED
    BY <2>1, <2>2, <1>2, <1>0
<1>5. (a * (b + b)) \div Word = q /\ (a * (b + b)) % Word = 2 * r
  <2>1. 2 * r \in 0 .. Word - 1 /\ Word \in Nat /\ Word > 0 /\ a * (b + b) \in Int
    BY <1>0, <1>2, Sizes
  <2> QED
    BY <1>2, <1>4, <2>1, DivModUnique
<1>6. (2 * r) \div 2 = r
  BY <1>2
<1>7. LaneMul(a, b) = LaneAdd(r, q)
  BY <1>5, <1>6 DEF LaneMul, AddHalves
<1>8. LaneAdd(r, q) \in PackedLane /\ Same(LaneAdd(r, q), r + q)
  BY <1>2, <1>3, LaneSum DEF PackedLane
<1>9. Same(r + q, ab)
  <2>1. r + q = ab + P * (-q)
    BY <1>2, Sizes
  <2> QED
    BY <2>1, <1>1, <1>2, SameByMultiple
<1> QED
  BY <1>7, <1>8, <1>9 DEF Same, ab

(* M31::partial_reduce reduces what is below 2P. *)
LEMMA PartialReduced ==
  ASSUME NEW val \in 0 .. 2 * P - 1
  PROVE  PartialReduce(val) = val % P
<1>1. CASE val < P
  BY <1>1, Sizes, DivModUnique, val = P * 0 + val DEF PartialReduce
<1>2. CASE val >= P
  BY <1>2, Sizes, DivModUnique, val = P * 1 + (val - P) DEF PartialReduce
<1> QED
  BY <1>1, <1>2, Sizes

(* M31::reduce reduces what is below P^2. *)
LEMMA WideReduced ==
  ASSUME NEW val \in Nat, val < P * P
  PROVE  ReduceWide(val) = val % P
<1> DEFINE B == P + 1
           k == val \div P
           r == val % P
<1>0. B \in Nat /\ B > 0 /\ P \in Nat /\ 2 ^ ModulusBits = B
  BY Sizes
<1>1. val = P * k + r /\ r \in 0 .. P - 1 /\ k \in Int
  BY DivMod, Sizes
<1> HIDE DEF k, r
<1>2. k \in 0 .. P - 1
  <2>1. ~(k >= P)
    <3> SUFFICES ASSUME k >= P PROVE FALSE
      BY <1>1
    <3>1. P * k >= P * P
      BY <1>0, <1>1
    <3> QED
      BY <3>1, <1>1, <1>0
  <2>2. ~(k =< -1)
    <3> SUFFICES ASSUME k =< -1 PROVE FALSE
      BY <1>1
    <3>1. 0 >= P * k + P
      BY <1>0, <1>1
    <3> QED
      BY <3>1, <1>1, <1>0
  <2> QED
    BY <2>1, <2>2, <1>1, <1>0
<1>3. ((val \div B) + val + 1) \div B = k
  <2>1. CASE r >= k
    <3>1. val = B * k + (r - k) /\ r - k \in 0 .. B - 1 /\ k \in Int /\ val \in Int
      BY <2>1, <1>0, <1>1, <1>2
    <3>2. val \div B = k
      <4> HIDE DEF B
      <4> QED
        BY <3>1, <1>0, DivModUnique
    <3>3. k + val + 1 = B * k + (r + 1) /\ r + 1 \in 0 .. B - 1 /\ k + val + 1 \in Int
      BY <1>0, <1>1, <1>2
    <3>4. (k + val + 1) \div B = k
      BY <3>3, <1>0, <1>2, DivModUnique
    <3> QED
      BY <3>2, <3>4
  <2>2. CASE r < k
    <3>1. val = B * (k - 1) + (r - k + B) /\ r - k + B \in 0 .. B - 1 /\ k - 1 \in Int /\ val \in Int
      BY <2>2, <1>0, <1>1, <1>2
    <3>2. val \div B = k - 1
      <4> HIDE DEF B
      <4> QED
        BY <3>1, <1>0, DivModUnique
    <3>3. (k - 1) + val + 1 = B * k + r /\ r \in 0 .. B - 1 /\ (k - 1) + val + 1 \in Int
      BY <1>0, <1>1, <1>2
    <3>4. ((k - 1) + val + 1) \div B = k
      BY <3>3, <1>0, <1>2, DivModUnique
    <3> QED
      BY <3>2, <3>4
  <2> QED
    BY <2>1, <2>2, <1>1, <1>2
<1>4. (k + val) % B = r
  <2>1. k + val = B * k + r /\ r \in 0 .. B - 1 /\ k + val \in Int
    BY <1>0, <1>1, <1>2
  <2> QED
    BY <2>1, <1>0, <1>2, DivModUnique
<1>5. ReduceWide(val) = r
  BY <1>0, <1>3, <1>4 DEF ReduceWide
<1> QED
  BY <1>5 DEF r

(* The scalar operators compute modulo P. *)
LEMMA ScalarSums ==
  ASSUME NEW x \in BaseField, NEW y \in BaseField
  PROVE  /\ M31Add(x, y) = (x + y) % P /\ M31Sub(x, y) = (x - y) % P
         /\ M31Mul(x, y) = (x * y) % P /\ M31Neg(x) = (-x) % P
<1>0. x \in Int /\ y \in Int /\ P \in Int
  BY Sizes DEF BaseField
<1>1. M31Add(x, y) = (x + y) % P
  <2>1. x + y \in 0 .. 2 * P - 1
    BY Sizes DEF BaseField
  <2> QED
    BY <2>1, PartialReduced DEF M31Add
<1>2. M31Sub(x, y) = (x - y) % P
  <2>1. x + P - y \in 0 .. 2 * P - 1
    BY Sizes DEF BaseField
  <2>2. x + P - y \in Int /\ x - y \in Int /\ x + P - y = x - y + P * 1
    BY <1>0, Sizes
  <2>3. Same(x + P - y, x - y)
    BY <2>2, SameByMultiple
  <2> QED
    BY <2>1, <2>3, PartialReduced DEF M31Sub, Same
<1>3. M31Neg(x) = (-x) % P
  <2>1. P - x \in 0 .. 2 * P - 1
    BY Sizes DEF BaseField
  <2>2. P - x \in Int /\ -x \in Int /\ P - x = -x + P * 1
    BY <1>0, Sizes
  <2>3. Same(P - x, -x)
    BY <2>2, SameByMultiple
  <2> QED
    BY <2>1, <2>3, PartialReduced DEF M31Neg, Same
<1>4. M31Mul(x, y) = (x * y) % P
  <2>1. x * y =< (P - 1) * y /\ (P - 1) * y =< (P - 1) * (P - 1) /\ x * y \in Nat
    BY Sizes DEF BaseField
  <2>2. (P - 1) * (P - 1) = P * P - 2 * P + 1
    BY Sizes
  <2>3. x * y \in Nat /\ x * y < P * P
    BY <2>1, <2>2, Sizes, <1>0
  <2> QED
    BY <2>3, WideReduced DEF M31Mul
<1> QED
  BY <1>1, <1>2, <1>3, <1>4

(* A lane that is Same as a number reduces to its value. *)
LEMMA ReducedLane ==
  ASSUME NEW l \in PackedLane, NEW a \in Int, Same(l, a)
  PROVE  LaneReduce(l) = a % P
  BY Reduced DEF Same

(* Every operator of PackedM31 gives lanes that reduce to what M31 gives: LanesOfM31 for all lanes, the
   two representations of zero included, not only those at the edges. *)
THEOREM LanesComputeM31 ==
  \A a, b \in PackedLane :
    LET x == CanonicalLane(a)
        y == CanonicalLane(b)
    IN  /\ {LaneAdd(a, b), LaneSub(a, b), LaneMul(a, b), LaneNeg(a)} \subseteq PackedLane
        /\ LaneReduce(LaneAdd(a, b)) = M31Add(x, y)
        /\ LaneReduce(LaneSub(a, b)) = M31Sub(x, y)
        /\ LaneReduce(LaneMul(a, b)) = M31Mul(x, y)
        /\ LaneReduce(LaneNeg(a)) = M31Neg(x)
<1> SUFFICES ASSUME NEW a \in PackedLane, NEW b \in PackedLane
    PROVE LET x == CanonicalLane(a)
              y == CanonicalLane(b)
          IN  /\ {LaneAdd(a, b), LaneSub(a, b), LaneMul(a, b), LaneNeg(a)} \subseteq PackedLane
              /\ LaneReduce(LaneAdd(a, b)) = M31Add(x, y)
              /\ LaneReduce(LaneSub(a, b)) = M31Sub(x, y)
              /\ LaneReduce(LaneMul(a, b)) = M31Mul(x, y)
              /\ LaneReduce(LaneNeg(a)) = M31Neg(x)
  OBVIOUS
<1> DEFINE x == CanonicalLane(a)
           y == CanonicalLane(b)
<1>0. a \in Int /\ b \in Int
  BY Sizes DEF PackedLane
<1>1. Same(x, a) /\ Same(y, b) /\ x \in BaseField /\ y \in BaseField /\ x \in Int /\ y \in Int
  BY <1>0, SameReduced DEF CanonicalLane
<1> HIDE DEF x, y
<1>2. /\ Same(x + y, a + b) /\ Same(x - y, a - b) /\ Same(x * y, a * b)
  BY <1>0, <1>1, SameSums
<1>3. Same(-x, -a)
  <2>1. Same(0, 0)
    BY DEF Same
  <2>2. Same(0 - x, 0 - a)
    BY <2>1, <1>0, <1>1, SameSums
  <2>3. 0 - x = -x /\ 0 - a = -a
    BY <1>0, <1>1
  <2> QED
    BY <2>2, <2>3
<1>4. a + b \in Int /\ a - b \in Int /\ a * b \in Int /\ -a \in Int
  BY <1>0
<1>5. /\ LaneReduce(LaneAdd(a, b)) = (a + b) % P
      /\ LaneReduce(LaneSub(a, b)) = (a - b) % P
      /\ LaneReduce(LaneMul(a, b)) = (a * b) % P
      /\ LaneReduce(LaneNeg(a)) = (-a) % P
  BY <1>4, LaneSum, LaneDifference, LaneProduct, LaneOpposite, ReducedLane
<1>6. /\ M31Add(x, y) = (a + b) % P /\ M31Sub(x, y) = (a - b) % P
      /\ M31Mul(x, y) = (a * b) % P /\ M31Neg(x) = (-a) % P
  BY <1>1, <1>2, <1>3, ScalarSums DEF Same
<1>7. {LaneAdd(a, b), LaneSub(a, b), LaneMul(a, b), LaneNeg(a)} \subseteq PackedLane
  BY LaneSum, LaneDifference, LaneProduct, LaneOpposite
<1> QED
  BY <1>5, <1>6, <1>7 DEF x, y

(* What the run evaluates of M31's lanes, for every modulus. *)
THEOREM EdgeLanesComputeM31 == LanesOfM31
<1>1. EdgeLanes \subseteq PackedLane
  <2>1. P \div 2 \in Int /\ P = 2 * (P \div 2) + (P % 2) /\ P % 2 \in 0 .. 1
    BY DivMod, Sizes
  <2>2. P \div 2 \in 0 .. P - 1
    BY <2>1, Sizes
  <2> QED
    BY <2>2, Sizes DEF EdgeLanes, PackedLane
<1> QED
  BY <1>1, LanesComputeM31 DEF LanesOfM31

(* Pairs of integers, what elements of CM31 are followed with, and packed elements. *)
Complex == Int \X Int
PackedComplex == PackedLane \X PackedLane
PackedSecure == PackedComplex \X PackedComplex
SameComplex(v, x) == Same(v[1], x[1]) /\ Same(v[2], x[2])
Sum(x, y) == <<x[1] + y[1], x[2] + y[2]>>
Difference(x, y) == <<x[1] - y[1], x[2] - y[2]>>
Product(x, y) == <<x[1] * y[1] - x[2] * y[2], x[1] * y[2] + x[2] * y[1]>>

(* Equality modulo P is transitive. *)
LEMMA SameIsTransitive ==
  ASSUME NEW a, NEW b, NEW c, Same(a, b), Same(b, c)
  PROVE  Same(a, c)
  BY DEF Same

(* Lanes follow the integers they are Same as. *)
LEMMA SumOfSame ==
  ASSUME NEW a \in PackedLane, NEW b \in PackedLane, NEW x \in Int, NEW y \in Int, Same(a, x), Same(b, y)
  PROVE  /\ LaneAdd(a, b) \in PackedLane /\ Same(LaneAdd(a, b), x + y)
         /\ LaneSub(a, b) \in PackedLane /\ Same(LaneSub(a, b), x - y)
         /\ LaneMul(a, b) \in PackedLane /\ Same(LaneMul(a, b), x * y)
<1>1. a \in Int /\ b \in Int
  BY Sizes DEF PackedLane
<1>2. Same(a + b, x + y) /\ Same(a - b, x - y) /\ Same(a * b, x * y)
  BY <1>1, SameSums
<1> QED
  BY <1>2, LaneSum, LaneDifference, LaneProduct, SameIsTransitive

(* Sums and differences of CM31 lanes follow those of the pairs of integers. *)
LEMMA ComplexLaneSum ==
  ASSUME NEW v \in PackedComplex, NEW w \in PackedComplex, NEW x \in Complex, NEW y \in Complex,
         SameComplex(v, x), SameComplex(w, y)
  PROVE  /\ LaneCM31Add(v, w) \in PackedComplex /\ SameComplex(LaneCM31Add(v, w), Sum(x, y))
         /\ LaneCM31Sub(v, w) \in PackedComplex /\ SameComplex(LaneCM31Sub(v, w), Difference(x, y))
<1>1. /\ v[1] \in PackedLane /\ v[2] \in PackedLane /\ w[1] \in PackedLane /\ w[2] \in PackedLane
      /\ x[1] \in Int /\ x[2] \in Int /\ y[1] \in Int /\ y[2] \in Int
      /\ Same(v[1], x[1]) /\ Same(v[2], x[2]) /\ Same(w[1], y[1]) /\ Same(w[2], y[2])
  BY DEF PackedComplex, Complex, SameComplex
<1>2. /\ LaneAdd(v[1], w[1]) \in PackedLane /\ Same(LaneAdd(v[1], w[1]), x[1] + y[1])
      /\ LaneSub(v[1], w[1]) \in PackedLane /\ Same(LaneSub(v[1], w[1]), x[1] - y[1])
      /\ LaneAdd(v[2], w[2]) \in PackedLane /\ Same(LaneAdd(v[2], w[2]), x[2] + y[2])
      /\ LaneSub(v[2], w[2]) \in PackedLane /\ Same(LaneSub(v[2], w[2]), x[2] - y[2])
  BY <1>1, SumOfSame
<1> QED
  BY <1>2 DEF LaneCM31Add, LaneCM31Sub, PackedComplex, SameComplex, Sum, Difference

(* So does Karatsuba's product, though it multiplies three times only. *)
LEMMA ComplexLaneProduct ==
  ASSUME NEW v \in PackedComplex, NEW w \in PackedComplex, NEW x \in Complex, NEW y \in Complex,
         SameComplex(v, x), SameComplex(w, y)
  PROVE  LaneCM31Mul(v, w) \in PackedComplex /\ SameComplex(LaneCM31Mul(v, w), Product(x, y))
<1>1. /\ v[1] \in PackedLane /\ v[2] \in PackedLane /\ w[1] \in PackedLane /\ w[2] \in PackedLane
      /\ x[1] \in Int /\ x[2] \in Int /\ y[1] \in Int /\ y[2] \in Int
      /\ Same(v[1], x[1]) /\ Same(v[2], x[2]) /\ Same(w[1], y[1]) /\ Same(w[2], y[2])
  BY DEF PackedComplex, Complex, SameComplex
<1> DEFINE ac == LaneMul(v[1], w[1])
           bd == LaneMul(v[2], w[2])
           ab == LaneAdd(v[1], v[2])
           cd == LaneAdd(w[1], w[2])
           abcd == LaneMul(ab, cd)
           xac == x[1] * y[1]
           xbd == x[2] * y[2]
           xsums == (x[1] + x[2]) * (y[1] + y[2])
<1>2. /\ ac \in PackedLane /\ Same(ac, xac) /\ bd \in PackedLane /\ Same(bd, xbd)
      /\ ab \in PackedLane /\ Same(ab, x[1] + x[2]) /\ cd \in PackedLane /\ Same(cd, y[1] + y[2])
  BY <1>1, SumOfSame
<1>3. x[1] + x[2] \in Int /\ y[1] + y[2] \in Int /\ xac \in Int /\ xbd \in Int /\ xsums \in Int
  BY <1>1
<1> HIDE DEF ac, bd, ab, cd
<1>4. abcd \in PackedLane /\ Same(abcd, xsums)
  BY <1>2, <1>3, SumOfSame
<1> HIDE DEF abcd, xac, xbd, xsums
<1>5. /\ LaneSub(ac, bd) \in PackedLane /\ Same(LaneSub(ac, bd), xac - xbd)
      /\ LaneSub(abcd, ac) \in PackedLane /\ Same(LaneSub(abcd, ac), xsums - xac)
  BY <1>2, <1>3, <1>4, SumOfSame
<1>6. /\ LaneSub(LaneSub(abcd, ac), bd) \in PackedLane
      /\ Same(LaneSub(LaneSub(abcd, ac), bd), (xsums - xac) - xbd)
  <2>1. xsums - xac \in Int
    BY <1>3
  <2> QED
    BY <2>1, <1>2, <1>3, <1>5, SumOfSame
<1>7. (xsums - xac) - xbd = x[1] * y[2] + x[2] * y[1]
  BY <1>1 DEF xsums, xac, xbd
<1>8. LaneCM31Mul(v, w) = <<LaneSub(ac, bd), LaneSub(LaneSub(abcd, ac), bd)>>
  BY DEF LaneCM31Mul, LaneProducts, LaneSums, LaneCM31OfThree, LaneCM31OfProducts, ac, bd, ab, cd, abcd
<1> QED
  BY <1>5, <1>6, <1>7, <1>8 DEF PackedComplex, SameComplex, Product, xac, xbd

(* The scalar CM31 follows the same integers. *)
LEMMA ComplexScalarSum ==
  ASSUME NEW x \in Complex, NEW y \in Complex, NEW a \in Complex, NEW b \in Complex,
         SameComplex(a, x), SameComplex(b, y)
  PROVE  /\ CM31Add(a, b) \in BaseField \X BaseField /\ SameComplex(CM31Add(a, b), Sum(x, y))
         /\ CM31Sub(a, b) \in BaseField \X BaseField /\ SameComplex(CM31Sub(a, b), Difference(x, y))
         /\ CM31Mul(a, b) \in BaseField \X BaseField /\ SameComplex(CM31Mul(a, b), Product(x, y))
<1>1. /\ a[1] \in Int /\ a[2] \in Int /\ b[1] \in Int /\ b[2] \in Int
      /\ x[1] \in Int /\ x[2] \in Int /\ y[1] \in Int /\ y[2] \in Int
      /\ Same(a[1], x[1]) /\ Same(a[2], x[2]) /\ Same(b[1], y[1]) /\ Same(b[2], y[2])
  BY DEF Complex, SameComplex
<1>2. /\ Same(a[1] + b[1], x[1] + y[1]) /\ Same(a[2] + b[2], x[2] + y[2])
      /\ Same(a[1] - b[1], x[1] - y[1]) /\ Same(a[2] - b[2], x[2] - y[2])
      /\ Same(a[1] * b[1], x[1] * y[1]) /\ Same(a[2] * b[2], x[2] * y[2])
      /\ Same(a[1] * b[2], x[1] * y[2]) /\ Same(a[2] * b[1], x[2] * y[1])
  BY <1>1, SameSums
<1>3. /\ a[1] * b[1] \in Int /\ a[2] * b[2] \in Int /\ a[1] * b[2] \in Int /\ a[2] * b[1] \in Int
      /\ x[1] * y[1] \in Int /\ x[2] * y[2] \in Int /\ x[1] * y[2] \in Int /\ x[2] * y[1] \in Int
  BY <1>1
<1>4. /\ Same(a[1] * b[1] - a[2] * b[2], x[1] * y[1] - x[2] * y[2])
      /\ Same(a[1] * b[2] + a[2] * b[1], x[1] * y[2] + x[2] * y[1])
  BY <1>2, <1>3, SameSums
<1>5. /\ a[1] + b[1] \in Int /\ a[2] + b[2] \in Int /\ a[1] - b[1] \in Int /\ a[2] - b[2] \in Int
      /\ a[1] * b[1] - a[2] * b[2] \in Int /\ a[1] * b[2] + a[2] * b[1] \in Int
  BY <1>1
<1>6. \A z \in Int : Same(z % P, z) /\ z % P \in BaseField
  BY SameReduced
<1>7. CM31Add(a, b) \in BaseField \X BaseField /\ SameComplex(CM31Add(a, b), Sum(x, y))
  <2>1. /\ (a[1] + b[1]) % P \in BaseField /\ (a[2] + b[2]) % P \in BaseField
        /\ Same((a[1] + b[1]) % P, x[1] + y[1]) /\ Same((a[2] + b[2]) % P, x[2] + y[2])
    BY <1>2, <1>5, <1>6, SameIsTransitive
  <2> QED
    BY <2>1 DEF CM31Add, SameComplex, Sum
<1>8. CM31Sub(a, b) \in BaseField \X BaseField /\ SameComplex(CM31Sub(a, b), Difference(x, y))
  <2>1. /\ (a[1] - b[1]) % P \in BaseField /\ (a[2] - b[2]) % P \in BaseField
        /\ Same((a[1] - b[1]) % P, x[1] - y[1]) /\ Same((a[2] - b[2]) % P, x[2] - y[2])
    BY <1>2, <1>5, <1>6, SameIsTransitive
  <2> QED
    BY <2>1 DEF CM31Sub, SameComplex, Difference
<1>9. CM31Mul(a, b) \in BaseField \X BaseField /\ SameComplex(CM31Mul(a, b), Product(x, y))
  <2>1. /\ (a[1] * b[1] - a[2] * b[2]) % P \in BaseField
        /\ (a[1] * b[2] + a[2] * b[1]) % P \in BaseField
        /\ Same((a[1] * b[1] - a[2] * b[2]) % P, x[1] * y[1] - x[2] * y[2])
        /\ Same((a[1] * b[2] + a[2] * b[1]) % P, x[1] * y[2] + x[2] * y[1])
    BY <1>4, <1>5, <1>6, SameIsTransitive
  <2> QED
    BY <2>1 DEF CM31Mul, SameComplex, Product
<1> QED
  BY <1>7, <1>8, <1>9

(* A pair times 1 + i. *)
OnePlusI(z) == <<z[1] - z[2], z[1] + z[2]>>

(* The pairs of integers are closed under the operators. *)
LEMMA ComplexClosed ==
  ASSUME NEW x \in Complex, NEW y \in Complex
  PROVE  Sum(x, y) \in Complex /\ Difference(x, y) \in Complex /\ Product(x, y) \in Complex /\ OnePlusI(x) \in Complex
  BY DEF Complex, Sum, Difference, Product, OnePlusI

(* The factor 1 + i of the product of QM31. *)
LEMMA TimesOnePlusI ==
  ASSUME NEW v \in PackedComplex, NEW x \in Complex, SameComplex(v, x)
  PROVE  LaneTimesOnePlusI(v) \in PackedComplex /\ SameComplex(LaneTimesOnePlusI(v), OnePlusI(x))
<1>1. /\ v[1] \in PackedLane /\ v[2] \in PackedLane /\ x[1] \in Int /\ x[2] \in Int
      /\ Same(v[1], x[1]) /\ Same(v[2], x[2])
  BY DEF PackedComplex, Complex, SameComplex
<1>2. /\ LaneSub(v[1], v[2]) \in PackedLane /\ Same(LaneSub(v[1], v[2]), x[1] - x[2])
      /\ LaneAdd(v[1], v[2]) \in PackedLane /\ Same(LaneAdd(v[1], v[2]), x[1] + x[2])
  BY <1>1, SumOfSame
<1> QED
  BY <1>2 DEF LaneTimesOnePlusI, PackedComplex, SameComplex, OnePlusI

(* A lane and a scalar that follow the same integers are equal once reduced. *)
LEMMA ReducedComplex ==
  ASSUME NEW l \in PackedComplex, NEW s \in BaseField \X BaseField, NEW z \in Complex,
         SameComplex(l, z), SameComplex(s, z)
  PROVE  ReduceCM31(l) = s
<1>1. /\ l[1] \in PackedLane /\ l[2] \in PackedLane /\ s[1] \in BaseField /\ s[2] \in BaseField
      /\ s = <<s[1], s[2]>> /\ Same(l[1], z[1]) /\ Same(l[2], z[2]) /\ Same(s[1], z[1]) /\ Same(s[2], z[2])
      /\ z[1] \in Int /\ z[2] \in Int
  BY DEF PackedComplex, SameComplex, Complex
<1>2. LaneReduce(l[1]) = z[1] % P /\ LaneReduce(l[2]) = z[2] % P
  BY <1>1, ReducedLane
<1>3. \A t \in BaseField : t % P = t
  BY Sizes, DivModUnique, \A t \in BaseField : t = P * 0 + t /\ t \in Int DEF BaseField
<1> QED
  BY <1>1, <1>2, <1>3 DEF ReduceCM31, Same

(* An element of the packed QM31 and its reduction follow the same integers. *)
LEMMA ReducedSecure ==
  ASSUME NEW v \in PackedSecure
  PROVE  /\ v[1] \in PackedComplex /\ v[2] \in PackedComplex /\ v[1] \in Complex /\ v[2] \in Complex
         /\ \A k \in {1, 2} : /\ SameComplex(v[k], v[k])
                              /\ ReduceQM31(v)[k] \in Complex
                              /\ SameComplex(ReduceQM31(v)[k], v[k])
<1>1. v[1] \in PackedComplex /\ v[2] \in PackedComplex
  BY DEF PackedSecure
<1>2. ASSUME NEW c \in PackedComplex
      PROVE  c \in Complex /\ ReduceCM31(c) \in Complex /\ SameComplex(ReduceCM31(c), c) /\ SameComplex(c, c)
  <2>1. c[1] \in PackedLane /\ c[2] \in PackedLane
    BY DEF PackedComplex
  <2>2. \A l \in PackedLane : l \in Int
    BY Sizes DEF PackedLane
  <2>3. /\ LaneReduce(c[1]) = c[1] % P /\ LaneReduce(c[2]) = c[2] % P
    BY <2>1, Reduced
  <2>4. /\ Same(c[1] % P, c[1]) /\ Same(c[2] % P, c[2]) /\ c[1] % P \in Int /\ c[2] % P \in Int
    BY <2>1, <2>2, SameReduced
  <2>5. c \in Complex
    BY <2>2 DEF Complex, PackedComplex
  <2> QED
    BY <2>3, <2>4, <2>5 DEF ReduceCM31, SameComplex, Complex, Same
<1> QED
  BY <1>1, <1>2 DEF ReduceQM31

(* The packed secure field computes the secure field: for all lanes, sums, differences and products
   reduce to those of the reduced elements, although one multiplies by Karatsuba and the other does not. *)
THEOREM LanesComputeQM31 ==
  \A v, w \in PackedSecure :
    /\ ReduceQM31(LaneQM31Add(v, w)) = QM31Add(ReduceQM31(v), ReduceQM31(w))
    /\ ReduceQM31(LaneQM31Sub(v, w)) = QM31Sub(ReduceQM31(v), ReduceQM31(w))
    /\ ReduceQM31(LaneQM31Mul(v, w)) = QM31Mul(ReduceQM31(v), ReduceQM31(w))
    /\ {LaneQM31Add(v, w), LaneQM31Sub(v, w), LaneQM31Mul(v, w)} \subseteq PackedSecure
<1> TAKE v, w \in PackedSecure
<1> DEFINE x == ReduceQM31(v)
           y == ReduceQM31(w)
           v1 == v[1]
           v2 == v[2]
           w1 == w[1]
           w2 == w[2]
           x1 == x[1]
           x2 == x[2]
           y1 == y[1]
           y2 == y[2]
<1>1. /\ v1 \in PackedComplex /\ v2 \in PackedComplex /\ w1 \in PackedComplex /\ w2 \in PackedComplex
      /\ v1 \in Complex /\ v2 \in Complex /\ w1 \in Complex /\ w2 \in Complex
      /\ SameComplex(v1, v1) /\ SameComplex(v2, v2) /\ SameComplex(w1, w1) /\ SameComplex(w2, w2)
      /\ x1 \in Complex /\ x2 \in Complex /\ y1 \in Complex /\ y2 \in Complex
      /\ SameComplex(x1, v1) /\ SameComplex(x2, v2) /\ SameComplex(y1, w1) /\ SameComplex(y2, w2)
  BY ReducedSecure
<1> HIDE DEF x1, x2, y1, y2, v1, v2, w1, w2
<1>2. /\ ReduceQM31(LaneQM31Add(v, w)) = QM31Add(x, y)
      /\ LaneQM31Add(v, w) \in PackedSecure
  <2>1. /\ LaneCM31Add(v1, w1) \in PackedComplex /\ LaneCM31Add(v2, w2) \in PackedComplex
        /\ SameComplex(LaneCM31Add(v1, w1), Sum(v1, w1)) /\ SameComplex(LaneCM31Add(v2, w2), Sum(v2, w2))
    BY <1>1, ComplexLaneSum
  <2>2. /\ CM31Add(x1, y1) \in BaseField \X BaseField /\ CM31Add(x2, y2) \in BaseField \X BaseField
        /\ SameComplex(CM31Add(x1, y1), Sum(v1, w1)) /\ SameComplex(CM31Add(x2, y2), Sum(v2, w2))
    BY <1>1, ComplexScalarSum
  <2>3. Sum(v1, w1) \in Complex /\ Sum(v2, w2) \in Complex
    BY <1>1, ComplexClosed
  <2>4. /\ ReduceCM31(LaneCM31Add(v1, w1)) = CM31Add(x1, y1)
        /\ ReduceCM31(LaneCM31Add(v2, w2)) = CM31Add(x2, y2)
    BY <2>1, <2>2, <2>3, ReducedComplex
  <2>5. LaneQM31Add(v, w) = <<LaneCM31Add(v1, w1), LaneCM31Add(v2, w2)>>
    BY DEF LaneQM31Add, v1, v2, w1, w2
  <2>6. QM31Add(x, y) = <<CM31Add(x1, y1), CM31Add(x2, y2)>>
    BY DEF QM31Add, x1, x2, y1, y2
  <2> QED
    BY <2>1, <2>4, <2>5, <2>6 DEF ReduceQM31, PackedSecure
<1>3. /\ ReduceQM31(LaneQM31Sub(v, w)) = QM31Sub(x, y)
      /\ LaneQM31Sub(v, w) \in PackedSecure
  <2>1. /\ LaneCM31Sub(v1, w1) \in PackedComplex /\ LaneCM31Sub(v2, w2) \in PackedComplex
        /\ SameComplex(LaneCM31Sub(v1, w1), Difference(v1, w1))
        /\ SameComplex(LaneCM31Sub(v2, w2), Difference(v2, w2))
    BY <1>1, ComplexLaneSum
  <2>2. /\ CM31Sub(x1, y1) \in BaseField \X BaseField /\ CM31Sub(x2, y2) \in BaseField \X BaseField
        /\ SameComplex(CM31Sub(x1, y1), Difference(v1, w1))
        /\ SameComplex(CM31Sub(x2, y2), Difference(v2, w2))
    BY <1>1, ComplexScalarSum
  <2>3. Difference(v1, w1) \in Complex /\ Difference(v2, w2) \in Complex
    BY <1>1, ComplexClosed
  <2>4. /\ ReduceCM31(LaneCM31Sub(v1, w1)) = CM31Sub(x1, y1)
        /\ ReduceCM31(LaneCM31Sub(v2, w2)) = CM31Sub(x2, y2)
    BY <2>1, <2>2, <2>3, ReducedComplex
  <2>5. LaneQM31Sub(v, w) = <<LaneCM31Sub(v1, w1), LaneCM31Sub(v2, w2)>>
    BY DEF LaneQM31Sub, v1, v2, w1, w2
  <2>6. QM31Sub(x, y) = <<CM31Sub(x1, y1), CM31Sub(x2, y2)>>
    BY DEF QM31Sub, x1, x2, y1, y2
  <2> QED
    BY <2>1, <2>4, <2>5, <2>6 DEF ReduceQM31, PackedSecure
<1>4. /\ ReduceQM31(LaneQM31Mul(v, w)) = QM31Mul(x, y)
      /\ LaneQM31Mul(v, w) \in PackedSecure
  <2> DEFINE ac == LaneCM31Mul(v1, w1)
             bd == LaneCM31Mul(v2, w2)
             ab == LaneCM31Add(v1, v2)
             cd == LaneCM31Add(w1, w2)
             abcd == LaneCM31Mul(ab, cd)
             ac_p_bd == LaneCM31Add(ac, bd)
             first == LaneCM31Add(ac_p_bd, LaneTimesOnePlusI(bd))
             second == LaneCM31Sub(abcd, ac_p_bd)
             zac == Product(v1, w1)
             zbd == Product(v2, w2)
             zad == Product(v1, w2)
             zbc == Product(v2, w1)
             zab == Sum(v1, v2)
             zcd == Sum(w1, w2)
             zabcd == Product(zab, zcd)
             zfirst == Sum(Sum(zac, zbd), OnePlusI(zbd))
             zsecond == Difference(zabcd, Sum(zac, zbd))
  <2>1. /\ ac \in PackedComplex /\ SameComplex(ac, zac) /\ zac \in Complex
        /\ bd \in PackedComplex /\ SameComplex(bd, zbd) /\ zbd \in Complex
        /\ zad \in Complex /\ zbc \in Complex
    BY <1>1, ComplexLaneProduct, ComplexClosed
  <2>2. /\ ab \in PackedComplex /\ SameComplex(ab, zab) /\ zab \in Complex
        /\ cd \in PackedComplex /\ SameComplex(cd, zcd) /\ zcd \in Complex
    BY <1>1, ComplexLaneSum, ComplexClosed
  <2> HIDE DEF ac, bd, ab, cd, zac, zbd, zad, zbc, zab, zcd
  <2>3. abcd \in PackedComplex /\ SameComplex(abcd, zabcd) /\ zabcd \in Complex
    BY <2>2, ComplexLaneProduct, ComplexClosed
  <2>4. /\ ac_p_bd \in PackedComplex /\ SameComplex(ac_p_bd, Sum(zac, zbd)) /\ Sum(zac, zbd) \in Complex
    BY <2>1, ComplexLaneSum, ComplexClosed
  <2>5. /\ LaneTimesOnePlusI(bd) \in PackedComplex /\ OnePlusI(zbd) \in Complex
        /\ SameComplex(LaneTimesOnePlusI(bd), OnePlusI(zbd))
    BY <2>1, TimesOnePlusI, ComplexClosed
  <2> HIDE DEF abcd, zabcd, ac_p_bd
  <2>6. first \in PackedComplex /\ SameComplex(first, zfirst) /\ zfirst \in Complex
    BY <2>4, <2>5, ComplexLaneSum, ComplexClosed
  <2>7. second \in PackedComplex /\ SameComplex(second, zsecond) /\ zsecond \in Complex
    BY <2>3, <2>4, ComplexLaneSum, ComplexClosed
  <2>8. LaneQM31Mul(v, w) = <<first, second>>
    BY DEF LaneQM31Mul, LaneSecureProducts, LaneSecureSums, LaneQM31OfThree, LaneQM31Karatsuba,
           LaneQM31OfProducts, first, second, ac_p_bd, abcd, ac, bd, ab, cd, v1, v2, w1, w2
  <2> DEFINE p11 == CM31Mul(x1, y1)
             p22 == CM31Mul(x2, y2)
             p12 == CM31Mul(x1, y2)
             p21 == CM31Mul(x2, y1)
             rp == CM31Mul(R, p22)
             one == CM31Add(p11, rp)
             two == CM31Add(p12, p21)
             r == <<2, 1>>
  <2>9. \A e \in BaseField \X BaseField : e \in Complex
    BY Sizes DEF BaseField, Complex
  <2>10. /\ p11 \in Complex /\ SameComplex(p11, zac) /\ p22 \in Complex /\ SameComplex(p22, zbd)
         /\ p12 \in Complex /\ SameComplex(p12, zad) /\ p21 \in Complex /\ SameComplex(p21, zbc)
    BY <1>1, <2>9, ComplexScalarSum DEF zac, zbd, zad, zbc
  <2>11. R \in Complex /\ SameComplex(R, R)
    BY DEF R, Complex, SameComplex, Same
  <2> HIDE DEF p11, p22, p12, p21, first, second
  <2>12. rp \in Complex /\ SameComplex(rp, Product(R, zbd)) /\ Product(R, zbd) \in Complex
    BY <2>1, <2>9, <2>10, <2>11, ComplexScalarSum, ComplexClosed
  <2> HIDE DEF rp
  <2>13. one \in BaseField \X BaseField /\ SameComplex(one, Sum(zac, Product(R, zbd)))
    BY <2>1, <2>10, <2>12, ComplexScalarSum
  <2>14. two \in BaseField \X BaseField /\ SameComplex(two, Sum(zad, zbc))
    BY <2>1, <2>10, ComplexScalarSum
  <2>15. QM31Mul(x, y) = <<one, two>>
    <3> HIDE DEF x, y
    <3> QED
      BY DEF QM31Mul, QM31OfProducts, one, two, rp, p11, p22, p12, p21, x1, x2, y1, y2
  <2>16. Sum(zac, Product(R, zbd)) = zfirst
    <3>1. zac[1] \in Int /\ zac[2] \in Int /\ zbd[1] \in Int /\ zbd[2] \in Int
      BY <2>1 DEF Complex
    <3> QED
      BY <3>1 DEF Sum, Product, OnePlusI, R
  <2>17. Sum(zad, zbc) = zsecond
    <3>1. /\ v1[1] \in Int /\ v1[2] \in Int /\ v2[1] \in Int /\ v2[2] \in Int
          /\ w1[1] \in Int /\ w1[2] \in Int /\ w2[1] \in Int /\ w2[2] \in Int
      BY <1>1 DEF Complex
    <3> QED
      BY <3>1 DEF Sum, Product, Difference, zsecond, zabcd, zab, zcd, zac, zbd, zad, zbc
  <2> HIDE DEF zfirst, zsecond, one, two
  <2>18. ReduceCM31(first) = one /\ ReduceCM31(second) = two
    BY <2>6, <2>7, <2>13, <2>14, <2>16, <2>17, ReducedComplex
  <2> QED
    BY <2>6, <2>7, <2>8, <2>15, <2>18 DEF ReduceQM31, PackedSecure
<1> QED
  BY <1>2, <1>3, <1>4

(* A lane's place, in its half. *)
LEMMA Halves ==
  ASSUME NEW i \in 0 .. Lanes - 1
  PROVE  \E j \in 0 .. Lanes \div 2 - 1 :
           \/ i = 2 * j /\ i % 2 = 0 /\ i \div 2 = j
           \/ i = 2 * j + 1 /\ i % 2 = 1 /\ i \div 2 = j
<1>1. Lanes \in Nat /\ Lanes = 2 * (Lanes \div 2) /\ Lanes \div 2 \in Int
  BY LanesAssumption, DivMod
<1>2. i = 2 * (i \div 2) + (i % 2) /\ i % 2 \in 0 .. 1 /\ i \div 2 \in Int
  BY DivMod, LanesAssumption
<1>3. i \div 2 \in 0 .. Lanes \div 2 - 1
  BY <1>1, <1>2
<1> QED
  BY <1>2, <1>3

(* Even and odd places. *)
LEMMA TwicePlus ==
  ASSUME NEW j \in Int
  PROVE  /\ (2 * j) \div 2 = j /\ (2 * j) % 2 = 0
         /\ (2 * j + 1) \div 2 = j /\ (2 * j + 1) % 2 = 1
<1>1. 2 * j \in Int /\ 2 * j + 1 \in Int /\ 2 * j = 2 * j + 0
  OBVIOUS
<1> QED
  BY <1>1, DivModUnique

(* Cells of two vectors side by side. *)
LEMMA ConcatAt ==
  ASSUME NEW v, NEW w, NEW k \in 0 .. Lanes - 1
  PROVE  Concat(v, w)[k] = v[k] /\ Concat(v, w)[Lanes + k] = w[k]
<1>1. /\ k \in 0 .. 2 * Lanes - 1 /\ k < Lanes
      /\ Lanes + k \in 0 .. 2 * Lanes - 1 /\ ~(Lanes + k < Lanes) /\ (Lanes + k) - Lanes = k
  BY LanesAssumption
<1> QED
  BY <1>1 DEF Concat

(* The products of AVX and of std::simd, which part even and odd words, and those of NEON and WASM,
   which part adjacent ones, give every lane the product of its own two lanes. *)
THEOREM EveryTargetMultipliesLanes ==
  ASSUME NEW a \in [0 .. Lanes - 1 -> PackedLane], NEW b \in [0 .. Lanes - 1 -> PackedLane]
  PROVE  \A i \in 0 .. Lanes - 1 :
           /\ PackedMul(a, b)[i] = LaneMul(a[i], b[i])
           /\ MulDoubledNeon(a, [l \in 0 .. Lanes - 1 |-> b[l] + b[l]])[i] = LaneMul(a[i], b[i])
<1> TAKE i \in 0 .. Lanes - 1
<1> DEFINE half == 0 .. Lanes \div 2 - 1
           double == [l \in 0 .. Lanes - 1 |-> b[l] + b[l]]
<1>0. Lanes \in Nat /\ Lanes = 2 * (Lanes \div 2) /\ Lanes \div 2 \in Nat
  BY LanesAssumption, DivMod
<1>1. PICK j \in half : \/ i = 2 * j /\ i % 2 = 0 /\ i \div 2 = j
                        \/ i = 2 * j + 1 /\ i % 2 = 1 /\ i \div 2 = j
  BY Halves
<1>2. 2 * j \in 0 .. Lanes - 1 /\ 2 * j + 1 \in 0 .. Lanes - 1 /\ j \in Int
  BY <1>0
<1>w. ASSUME NEW pairs, NEW k \in half
      PROVE  /\ WideProducts(pairs)[2 * k] = (pairs[k][1] * pairs[k][2]) % Word
             /\ WideProducts(pairs)[2 * k + 1] = (pairs[k][1] * pairs[k][2]) \div Word
  <2>1. 2 * k \in 0 .. Lanes - 1 /\ 2 * k + 1 \in 0 .. Lanes - 1 /\ k \in Int
    BY <1>0
  <2>2. /\ (2 * k) \div 2 = k /\ (2 * k) % 2 = 0
        /\ (2 * k + 1) \div 2 = k /\ (2 * k + 1) % 2 = 1
    BY <2>1, TwicePlus
  <2> QED
    BY <2>1, <2>2 DEF WideProducts
<1>m. LaneMul(a[i], b[i]) = LaneAdd(((a[i] * double[i]) % Word) \div 2, (a[i] * double[i]) \div Word)
  BY DEF LaneMul, AddHalves
<1>3. PackedMul(a, b)[i] = LaneMul(a[i], b[i])
  <2> DEFINE evens == [k \in half |-> <<a[2 * k], double[2 * k]>>]
             odds == [k \in half |-> <<a[2 * k + 1], double[2 * k + 1]>>]
             lo == ParityInterleave(0, WideProducts(evens), WideProducts(odds))
             hi == ParityInterleave(1, WideProducts(evens), WideProducts(odds))
  <2>1. PackedMul(a, b)[i] = LaneAdd(lo[i] \div 2, hi[i])
    BY DEF PackedMul, MulDoubledSimd, SumOfHalves
  <2>2. /\ lo[i] = Concat(WideProducts(evens), WideProducts(odds))[(i % 2) * Lanes + (i \div 2) * 2 + 0]
        /\ hi[i] = Concat(WideProducts(evens), WideProducts(odds))[(i % 2) * Lanes + (i \div 2) * 2 + 1]
    BY DEF ParityInterleave
  <2>3. /\ evens[j] = <<a[2 * j], double[2 * j]>>
        /\ odds[j] = <<a[2 * j + 1], double[2 * j + 1]>>
    OBVIOUS
  <2> HIDE DEF evens, odds, lo, hi, double, half
  <2>4. lo[i] = (a[i] * double[i]) % Word /\ hi[i] = (a[i] * double[i]) \div Word
    <3>1. CASE i = 2 * j /\ i % 2 = 0 /\ i \div 2 = j
      <4>1. /\ (i % 2) * Lanes + (i \div 2) * 2 + 0 = 2 * j
            /\ (i % 2) * Lanes + (i \div 2) * 2 + 1 = 2 * j + 1
        BY <3>1, <1>0, <1>2
      <4>2. lo[i] = WideProducts(evens)[2 * j] /\ hi[i] = WideProducts(evens)[2 * j + 1]
        BY <4>1, <2>2, <1>2, ConcatAt
      <4> QED
        BY <4>2, <2>3, <1>w, <3>1
    <3>2. CASE i = 2 * j + 1 /\ i % 2 = 1 /\ i \div 2 = j
      <4>1. /\ (i % 2) * Lanes + (i \div 2) * 2 + 0 = Lanes + 2 * j
            /\ (i % 2) * Lanes + (i \div 2) * 2 + 1 = Lanes + (2 * j + 1)
        BY <3>2, <1>0, <1>2
      <4>2. lo[i] = WideProducts(odds)[2 * j] /\ hi[i] = WideProducts(odds)[2 * j + 1]
        BY <4>1, <2>2, <1>2, ConcatAt
      <4> QED
        <5>1. odds[j][1] = a[2 * j + 1] /\ odds[j][2] = double[2 * j + 1] /\ j \in half
          BY ONLY <1>1, <2>3
        <5>2. /\ WideProducts(odds)[2 * j] = (odds[j][1] * odds[j][2]) % Word
              /\ WideProducts(odds)[2 * j + 1] = (odds[j][1] * odds[j][2]) \div Word
          BY ONLY <1>w, <5>1
        <5> QED
          BY ONLY <3>2, <4>2, <5>1, <5>2
    <3> QED
      BY <1>1, <3>1, <3>2
  <2> QED
    BY <2>1, <2>4, <1>m
<1>4. MulDoubledNeon(a, double)[i] = LaneMul(a[i], b[i])
  <2> DEFINE lowPairs == [k \in half |-> <<a[k], double[k]>>]
             highPairs == [k \in half |-> <<a[Lanes \div 2 + k], double[Lanes \div 2 + k]>>]
             parts == Deinterleave(WideProducts(lowPairs), WideProducts(highPairs))
             both == Concat(WideProducts(lowPairs), WideProducts(highPairs))
  <2>1. MulDoubledNeon(a, double)[i] = LaneAdd(parts[1][i] \div 2, parts[2][i])
    BY DEF MulDoubledNeon, SumOfHalves
  <2>2. parts[1][i] = both[2 * i] /\ parts[2][i] = both[2 * i + 1]
    BY DEF Deinterleave
  <2>3. \A k \in half : /\ lowPairs[k] = <<a[k], double[k]>>
                        /\ highPairs[k] = <<a[Lanes \div 2 + k], double[Lanes \div 2 + k]>>
    OBVIOUS
  <2> HIDE DEF lowPairs, highPairs, parts, double
  <2>4. parts[1][i] = (a[i] * double[i]) % Word /\ parts[2][i] = (a[i] * double[i]) \div Word
    <3>1. CASE i < Lanes \div 2
      <4>1. i \in half /\ 2 * i \in 0 .. Lanes - 1 /\ 2 * i + 1 \in 0 .. Lanes - 1
        BY <3>1, <1>0
      <4>2. both[2 * i] = WideProducts(lowPairs)[2 * i] /\ both[2 * i + 1] = WideProducts(lowPairs)[2 * i + 1]
        BY <4>1, ConcatAt
      <4> HIDE DEF half, both
      <4> QED
        BY <4>1, <4>2, <2>2, <2>3, <1>w
    <3>2. CASE i >= Lanes \div 2
      <4> DEFINE k == i - Lanes \div 2
      <4>1. /\ k \in half /\ Lanes \div 2 + k = i
            /\ 2 * k \in 0 .. Lanes - 1 /\ 2 * i = Lanes + 2 * k
            /\ 2 * k + 1 \in 0 .. Lanes - 1 /\ 2 * i + 1 = Lanes + (2 * k + 1)
        BY <3>2, <1>0
      <4> HIDE DEF k
      <4>2. both[2 * i] = WideProducts(highPairs)[2 * k] /\ both[2 * i + 1] = WideProducts(highPairs)[2 * k + 1]
        BY <4>1, ConcatAt
      <4> HIDE DEF half, both
      <4> QED
        BY <4>1, <4>2, <2>2, <2>3, <1>w
    <3> QED
      BY <3>1, <3>2, <1>0
  <2> QED
    BY <2>1, <2>4, <1>m
<1> QED
  BY <1>3, <1>4

(* What the run evaluates of the vector products, for every modulus and number of lanes. *)
THEOREM EdgeVectorsMultiply == ProductsOfVectors
<1> SUFFICES ASSUME NEW shift \in 0 .. 6
    PROVE  LET edges == [i \in 0 .. 6 |-> (<<0, 1, 2, P \div 2, P \div 2 + 1, P - 1, P>>)[i + 1]]
               a == [i \in 0 .. Lanes - 1 |-> edges[(i + shift) % 7]]
               b == [i \in 0 .. Lanes - 1 |-> edges[(3 * i + 2 * shift) % 7]]
               double == [i \in 0 .. Lanes - 1 |-> b[i] + b[i]]
           IN  \A i \in 0 .. Lanes - 1 :
                 /\ PackedMul(a, b)[i] = LaneMul(a[i], b[i])
                 /\ MulDoubledNeon(a, double)[i] = LaneMul(a[i], b[i])
  BY DEF ProductsOfVectors
<1> DEFINE edges == [i \in 0 .. 6 |-> (<<0, 1, 2, P \div 2, P \div 2 + 1, P - 1, P>>)[i + 1]]
           a == [i \in 0 .. Lanes - 1 |-> edges[(i + shift) % 7]]
           b == [i \in 0 .. Lanes - 1 |-> edges[(3 * i + 2 * shift) % 7]]
           double == [i \in 0 .. Lanes - 1 |-> b[i] + b[i]]
<1>1. edges \in [0 .. 6 -> PackedLane]
  <2>1. P \div 2 \in 0 .. P - 1
    <3>1. P \div 2 \in Int /\ P = 2 * (P \div 2) + (P % 2) /\ P % 2 \in 0 .. 1
      BY DivMod, Sizes
    <3> QED
      BY <3>1, Sizes
  <2>2. \A i \in 0 .. 6 : edges[i] = (<<0, 1, 2, P \div 2, P \div 2 + 1, P - 1, P>>)[i + 1]
    OBVIOUS
  <2>3. \A i \in 0 .. 6 : edges[i] \in PackedLane
    BY <2>1, <2>2, Sizes DEF PackedLane
  <2> QED
    BY <2>3
<1>2. \A i \in 0 .. Lanes - 1 : (i + shift) % 7 \in 0 .. 6 /\ (3 * i + 2 * shift) % 7 \in 0 .. 6
  BY LanesAssumption
<1> HIDE DEF edges
<1>3. a \in [0 .. Lanes - 1 -> PackedLane] /\ b \in [0 .. Lanes - 1 -> PackedLane]
  BY <1>1, <1>2
<1> HIDE DEF a, b
<1> QED
  BY <1>3, EveryTargetMultipliesLanes DEF a, b, edges

(* The cells, vectors and contents of a column of a kind, with m vectors. *)
CellOf(kind) == IF IsSecure(kind) THEN PackedSecure ELSE PackedLane
Kinds == {"base", "very", "secure", "coords"}
Vectors(kind, m) ==
  IF kind = "coords" THEN [Cells(4) -> [Cells(m) -> [Cells(Lanes) -> PackedLane]]]
  ELSE [Cells(m) -> [Cells(WidthOf(kind)) -> CellOf(kind)]]
Whole(column, m) ==
  /\ column = [kind |-> column.kind, length |-> column.length, data |-> column.data]
  /\ column.kind \in Kinds /\ column.length \in Nat /\ m \in Nat
  /\ column.length <= m * WidthOf(column.kind)
  /\ column.data \in Vectors(column.kind, m)
Tight(column, m) ==
  column.kind # "coords" => m * WidthOf(column.kind) < column.length + Lanes
Cell(column, k, l) ==
  IF column.kind = "coords"
  THEN <<<<column.data[0][k][l], column.data[1][k][l]>>, <<column.data[2][k][l], column.data[3][k][l]>>>>
  ELSE column.data[k][l]
Value(column, i) ==
  ReduceCell(column.kind, Cell(column, i \div WidthOf(column.kind), i % WidthOf(column.kind)))
Contents(column) == [i \in Cells(column.length) |-> Value(column, i)]

(* Vectors are not empty. *)
LEMMA Widths ==
  ASSUME NEW kind
  PROVE  WidthOf(kind) \in Nat /\ WidthOf(kind) >= 1 /\ Lanes \in Nat /\ Lanes >= 1
  BY LanesAssumption DEF WidthOf, VeryPacked

(* A cell below the length is in one of the vectors. *)
LEMMA CellIndex ==
  ASSUME NEW n \in Nat, NEW m \in Nat, NEW w \in Nat, w >= 1, n <= m * w, NEW i \in Cells(n)
  PROVE  i \div w \in Cells(m) /\ i % w \in Cells(w) /\ i = w * (i \div w) + (i % w)
<1>1. /\ i = w * (i \div w) + (i % w) /\ i % w \in 0 .. w - 1 /\ i \div w \in Int /\ i \in Nat
  BY DivMod DEF Cells
<1> DEFINE q == i \div w
<1> HIDE DEF q
<1>2. ~(i \div w >= m)
  <2> SUFFICES ASSUME i \div w >= m PROVE FALSE
    OBVIOUS
  <2>1. w * (i \div w) >= w * m
    BY <1>1
  <2> QED
    BY <2>1, <1>1 DEF Cells
<1>3. ~(i \div w =< -1)
  <2> SUFFICES ASSUME i \div w =< -1 PROVE FALSE
    OBVIOUS
  <2>1. 0 >= w * (i \div w) + w
    BY <1>1
  <2> QED
    BY <2>1, <1>1
<1> QED
  BY <1>1, <1>2, <1>3 DEF Cells

(* Reducing twice is reducing once. *)
LEMMA Reducing ==
  /\ \A x \in PackedLane : LaneReduce(x) \in PackedLane /\ LaneReduce(LaneReduce(x)) = LaneReduce(x)
  /\ \A x \in PackedSecure : ReduceQM31(x) \in PackedSecure /\ ReduceQM31(ReduceQM31(x)) = ReduceQM31(x)
<1>1. ASSUME NEW x \in PackedLane
      PROVE  LaneReduce(x) \in PackedLane /\ LaneReduce(LaneReduce(x)) = LaneReduce(x)
  <2>1. LaneReduce(x) = IF x < P THEN x ELSE x - P
    BY LaneReduceIs, Sizes DEF PackedLane
  <2>2. LaneReduce(x) \in PackedLane /\ LaneReduce(x) < P /\ LaneReduce(x) \in 0 .. 2 * P
    BY <2>1, Sizes DEF PackedLane
  <2> DEFINE y == LaneReduce(x)
  <2> HIDE DEF y
  <2>3. LaneReduce(y) = y
    BY <2>2, LaneReduceIs DEF y
  <2> QED
    BY <2>2, <2>3 DEF y
<1>2. ASSUME NEW c \in PackedComplex
      PROVE  ReduceCM31(c) \in PackedComplex /\ ReduceCM31(ReduceCM31(c)) = ReduceCM31(c)
  BY <1>1 DEF PackedComplex, ReduceCM31
<1>3. ASSUME NEW x \in PackedSecure
      PROVE  ReduceQM31(x) \in PackedSecure /\ ReduceQM31(ReduceQM31(x)) = ReduceQM31(x)
  BY <1>2 DEF PackedSecure, ReduceQM31
<1> QED
  BY <1>1, <1>3

(* The same, for a column's cells. *)
LEMMA ReducingCells ==
  ASSUME NEW kind, NEW x \in CellOf(kind)
  PROVE  ReduceCell(kind, x) \in CellOf(kind) /\ ReduceCell(kind, ReduceCell(kind, x)) = ReduceCell(kind, x)
  BY Reducing DEF ReduceCell, CellOf

(* The cells of a whole column are in range. *)
LEMMA CellsOfWhole ==
  ASSUME NEW column, NEW m, Whole(column, m), NEW k \in Cells(m), NEW l \in Cells(WidthOf(column.kind))
  PROVE  Cell(column, k, l) \in CellOf(column.kind)
<1>1. CASE column.kind = "coords"
  <2>1. \A c \in Cells(4) : column.data[c][k][l] \in PackedLane
    BY <1>1 DEF Whole, Vectors, WidthOf
  <2>2. 0 \in Cells(4) /\ 1 \in Cells(4) /\ 2 \in Cells(4) /\ 3 \in Cells(4)
    BY DEF Cells
  <2> QED
    BY <1>1, <2>1, <2>2 DEF Cell, CellOf, IsSecure, PackedSecure, PackedComplex
<1>2. CASE column.kind # "coords"
  BY <1>2 DEF Cell, Whole, Vectors
<1> QED
  BY <1>1, <1>2

(* at and to_vec read the reduced cells. *)
LEMMA ValuesAreContents ==
  ASSUME NEW column, NEW m, Whole(column, m)
  PROVE  ValuesOf(column) = Contents(column)
<1> DEFINE w == WidthOf(column.kind)
<1>1. /\ column.length \in Nat /\ m \in Nat /\ w \in Nat /\ w >= 1 /\ column.length <= m * w
  BY Widths DEF Whole
<1> HIDE DEF w
<1>2. \A i \in Cells(column.length) : i \div w \in Cells(m) /\ i % w \in Cells(w)
  BY <1>1, CellIndex
<1>3. CASE column.kind = "coords"
  <2>1. w = Lanes
    BY <1>3 DEF w, WidthOf
  <2>2. \A i \in Cells(column.length) : ReduceQM31(PackedAt(column, i \div Lanes)[i % Lanes]) = Value(column, i)
    BY <1>2, <1>3, <2>1 DEF PackedAt, Value, Cell, ReduceCell, IsSecure, w
  <2> QED
    BY <2>2, <1>3 DEF ValuesOf, CoordsToVec, Contents
<1>4. CASE column.kind # "coords"
  <2>1. \A i \in Cells(column.length) : CellAt(column, i) = Value(column, i)
    BY <1>4 DEF CellAt, Value, Cell
  <2> QED
    BY <2>1, <1>4 DEF ValuesOf, CellsOf, Contents
<1> QED
  BY <1>3, <1>4

(* The number of vectors. *)
LEMMA VectorCount ==
  ASSUME NEW m \in Nat
  PROVE  Cardinality(Cells(m)) = m
  BY FS_Interval DEF Cells

(* The vectors of a column that is not parted by coordinates. *)
LEMMA FlatColumn ==
  ASSUME NEW column, NEW m, Whole(column, m), column.kind # "coords"
  PROVE  /\ DOMAIN column.data = Cells(m) /\ Cardinality(DOMAIN column.data) = m
         /\ \A k \in Cells(m) : /\ DOMAIN column.data[k] = Cells(WidthOf(column.kind))
                                /\ \A l \in Cells(WidthOf(column.kind)) : column.data[k][l] \in CellOf(column.kind)
  BY VectorCount DEF Whole, Vectors

(* set writes its cell and reduces the others of the vector, which no reader sees. *)
LEMMA SetKeepsOthers ==
  ASSUME NEW column, NEW m, Whole(column, m), column.kind # "coords", NEW i \in Cells(column.length),
         NEW v \in CellOf(column.kind), ReduceCell(column.kind, v) = v
  PROVE  /\ Whole(SetCell(column, i, v), m)
         /\ Contents(SetCell(column, i, v)) = [Contents(column) EXCEPT ![i] = v]
<1> DEFINE kind == column.kind
           w == WidthOf(kind)
           q == i \div w
           r == i % w
           vector == [l \in Cells(w) |-> IF l = r THEN v ELSE ReduceCell(kind, column.data[q][l])]
           data == [column.data EXCEPT ![q] = vector]
           set == [kind |-> kind, length |-> column.length, data |-> data]
<1>1. /\ column.length \in Nat /\ m \in Nat /\ w \in Nat /\ w >= 1 /\ column.length <= m * w
      /\ column = [kind |-> column.kind, length |-> column.length, data |-> column.data]
  BY Widths DEF Whole
<1>2. SetCell(column, i, v) = set
  BY <1>1 DEF SetCell
<1> HIDE DEF w
<1>3. \A j \in Cells(column.length) :
        j \div w \in Cells(m) /\ j % w \in Cells(w) /\ j = w * (j \div w) + (j % w)
  BY <1>1, CellIndex
<1>4. q \in Cells(m) /\ r \in Cells(w) /\ i = w * q + r
  BY <1>3
<1>5. column.data \in [Cells(m) -> [Cells(w) -> CellOf(kind)]] /\ kind \in Kinds
  BY DEF Whole, Vectors, w
<1>6. vector \in [Cells(w) -> CellOf(kind)]
  <2>1. \A l \in Cells(w) : column.data[q][l] \in CellOf(kind)
    BY <1>4, <1>5
  <2>2. \A l \in Cells(w) : ReduceCell(kind, column.data[q][l]) \in CellOf(kind)
    BY <2>1, ReducingCells
  <2> QED
    BY <2>2
<1> HIDE DEF q, r, vector
<1>7. data \in [Cells(m) -> [Cells(w) -> CellOf(kind)]]
  BY <1>4, <1>5, <1>6
<1>8. Whole(set, m)
  BY <1>1, <1>5, <1>7 DEF Whole, Vectors, w
<1>9. ASSUME NEW j \in Cells(column.length)
      PROVE  Value(set, j) = IF j = i THEN v ELSE Value(column, j)
  <2> DEFINE k == j \div w
             l == j % w
             x == column.data[k][l]
  <2>1. k \in Cells(m) /\ l \in Cells(w) /\ j = w * k + l
    BY <1>3
  <2>2. Value(set, j) = ReduceCell(kind, data[k][l]) /\ Value(column, j) = ReduceCell(kind, x)
    BY DEF Value, Cell, w
  <2> HIDE DEF k, l
  <2>3. x \in CellOf(kind)
    BY <2>1, <1>5
  <2>4. CASE k = q
    <3>1. data[k][l] = IF l = r THEN v ELSE ReduceCell(kind, x)
      BY <2>1, <2>4, <1>5 DEF vector
    <3>2. l = r <=> j = i
      <4>1. l = r => j = i
        BY <2>1, <2>4, <1>4
      <4>2. j = i => l = r
        BY DEF l, r
      <4> QED
        BY <4>1, <4>2
    <3> QED
      BY <2>2, <2>3, <3>1, <3>2, ReducingCells
  <2>5. CASE k # q
    <3>1. data[k][l] = x
      BY <2>1, <2>5, <1>5
    <3>2. j # i
      BY <2>5 DEF k, q
    <3> QED
      BY <2>2, <3>1, <3>2
  <2> QED
    BY <2>4, <2>5
<1> HIDE DEF data
<1>10. Contents(set) = [Contents(column) EXCEPT ![i] = v]
  BY <1>9 DEF Contents
<1> QED
  BY <1>2, <1>8, <1>10

(* An integer and its half. *)
LEMMA HalfOfNat ==
  ASSUME NEW k \in Nat
  PROVE  k \div 2 \in Nat /\ k - k \div 2 \in Nat
         /\ (k - k \div 2 = k \div 2 \/ k - k \div 2 = k \div 2 + 1)
  OBVIOUS

(* split_at_mid gives each half its own cells, in no more vectors than they need, when it parts the
   column at half of its cells. *)
LEMMA SplitParts ==
  ASSUME NEW column, NEW m, Whole(column, m), Tight(column, m), column.kind # "coords",
         PartsAtHalf(column), NEW part \in 1 .. 2
  PROVE  LET n == column.length \div 2
             half == SplitColumn(column)[part]
         IN  /\ \E k \in Nat : Whole(half, k) /\ Tight(half, k)
             /\ half.length = IF part = 1 THEN n ELSE column.length - n
             /\ half.kind = column.kind
             /\ \A i \in Cells(half.length) :
                  /\ Value(half, i) = Value(column, IF part = 1 THEN i ELSE n + i)
                  /\ (IF part = 1 THEN i ELSE n + i) \in Cells(column.length)
<1> DEFINE kind == column.kind
           w == WidthOf(kind)
           half == m \div 2
           n == column.length \div 2
           start == IF part = 1 THEN 0 ELSE half
           count == IF part = 1 THEN half ELSE m - half
           cells == IF part = 1 THEN n ELSE column.length - n
           data == [k \in Cells(count) |-> column.data[start + k]]
           split == [kind |-> kind, length |-> cells, data |-> data]
<1>1. /\ column.length \in Nat /\ m \in Nat /\ w \in Nat /\ w >= 1 /\ Lanes \in Nat /\ Lanes >= 1
      /\ column.length <= m * w /\ m * w < column.length + Lanes
      /\ column = [kind |-> column.kind, length |-> column.length, data |-> column.data]
  BY Widths DEF Whole, Tight
<1>2. Cardinality(DOMAIN column.data) = m
  BY FlatColumn
<1>3. /\ half \in Nat /\ m - half \in Nat /\ n \in Nat /\ column.length - n \in Nat
      /\ (m - half = half \/ m - half = half + 1)
      /\ (column.length - n = n \/ column.length - n = n + 1)
      /\ half * w = n
  <2>1. half * w = n
    BY <1>2 DEF PartsAtHalf
  <2> HIDE DEF w
  <2>2. half \in Nat /\ m - half \in Nat /\ (m - half = half \/ m - half = half + 1)
    BY <1>1, HalfOfNat
  <2>3. n \in Nat /\ column.length - n \in Nat /\ (column.length - n = n \/ column.length - n = n + 1)
    <3> DEFINE length == column.length
    <3>1. length \in Nat
      BY <1>1
    <3> HIDE DEF length
    <3>2. length \div 2 \in Nat /\ length - length \div 2 \in Nat
          /\ (length - length \div 2 = length \div 2 \/ length - length \div 2 = length \div 2 + 1)
      BY <3>1, HalfOfNat
    <3> QED
      BY <3>2 DEF length
  <2> QED
    BY <2>1, <2>2, <2>3
<1>4. column.data \in [Cells(m) -> [Cells(w) -> CellOf(kind)]] /\ kind \in Kinds
  BY DEF Whole, Vectors
<1>5. SplitColumn(column)[part] = split
  <2> DEFINE left == [k \in Cells(half) |-> column.data[k]]
             right == [k \in Cells(m - half) |-> column.data[half + k]]
             rightLength == column.length - column.length \div 2
  <2>1. SplitColumn(column) = <<[kind |-> kind, length |-> n, data |-> left],
                                [kind |-> kind, length |-> rightLength, data |-> right]>>
    BY <1>2 DEF SplitColumn
  <2>2. rightLength = column.length - n
    OBVIOUS
  <2>3. CASE part = 1
    <3>1. left = data /\ cells = n
      BY <2>3, <1>3 DEF Cells
    <3> HIDE DEF left, right, data, rightLength, n, cells
    <3> QED
      BY <2>1, <2>3, <3>1
  <2>4. CASE part = 2
    <3>1. right = data /\ cells = rightLength
      BY <2>2, <2>4
    <3> HIDE DEF left, right, data, rightLength, n, cells
    <3> QED
      BY <2>1, <2>4, <3>1
  <2> QED
    BY <2>3, <2>4
<1> HIDE DEF n, half, w
<1>6. m * w = half * w + (m - half) * w /\ (half + 1) * w = half * w + w
  BY <1>1, <1>3
<1>7. /\ count \in Nat /\ cells \in Nat
      /\ cells <= count * w /\ count * w < cells + Lanes
  <2>0. half * w = n /\ n \in Nat /\ half \in Nat /\ Lanes \in Nat /\ Lanes >= 1
    BY <1>1, <1>3
  <2>1. CASE part = 1
    <3>1. count = half /\ cells = n
      BY <2>1
    <3> HIDE DEF count, cells
    <3>2. count * w = n
      BY <3>1, <2>0
    <3> DEFINE x == count * w
    <3>3. x = n
      BY <3>2
    <3> HIDE DEF x
    <3>4. cells <= x /\ x < cells + Lanes
      BY <3>1, <3>3, <2>0
    <3> QED
      BY <3>1, <3>4, <2>0 DEF x
  <2>2. CASE part = 2
    <3> DEFINE x == half * w
               y == (m - half) * w
               z == m * w
    <3>1. count = m - half /\ cells = column.length - n /\ count * w = y
      BY <2>2
    <3>2. x = n /\ z = x + y /\ column.length <= z /\ z < column.length + Lanes
      BY <1>1, <1>3, <1>6
    <3>3. x \in Nat /\ y \in Nat /\ z \in Nat
      BY <1>1, <1>3
    <3> DEFINE length == column.length
               rest == m - half
    <3>4. /\ length \in Nat /\ length - n \in Nat /\ rest \in Nat /\ n \in Nat /\ Lanes \in Nat
          /\ length <= z /\ z < length + Lanes /\ cells = length - n /\ count = rest
      BY <3>1, <3>2, <1>1, <1>3
    <3> HIDE DEF x, y, z, count, cells, length, rest
    <3>5. cells <= y /\ y < cells + Lanes
      BY <3>2, <3>3, <3>4
    <3> QED
      BY <3>1, <3>4, <3>5
  <2> QED
    BY <2>1, <2>2
<1>8. start \in Nat /\ \A k \in Cells(count) : start + k \in Cells(m)
  BY <1>1, <1>3 DEF Cells
<1>9. data \in [Cells(count) -> [Cells(w) -> CellOf(kind)]]
  BY <1>4, <1>8
<1>10. Whole(split, count) /\ Tight(split, count)
  <2> HIDE DEF count, cells, data
  <2>1. Whole(split, count)
    BY <1>4, <1>7, <1>9 DEF Whole, Vectors, w
  <2>2. Tight(split, count)
    BY <1>7 DEF Tight, w
  <2> QED
    BY <2>1, <2>2
<1>11. ASSUME NEW i \in Cells(cells)
       PROVE  /\ Value(split, i) = Value(column, IF part = 1 THEN i ELSE n + i)
              /\ (IF part = 1 THEN i ELSE n + i) \in Cells(column.length)
  <2> DEFINE q == i \div w
             u == i % w
             j == IF part = 1 THEN i ELSE n + i
  <2>1. q \in Cells(count) /\ u \in Cells(w) /\ i = w * q + u
    <3> HIDE DEF count, cells
    <3> QED
      BY <1>1, <1>7, CellIndex
  <2>2. Value(split, i) = ReduceCell(kind, data[q][u])
    BY <1>4 DEF Value, Cell, w
  <2>3. j \in Cells(column.length)
    BY <1>1, <1>3 DEF Cells
  <2> HIDE DEF q, u
  <2>4. data[q][u] = column.data[start + q][u]
    BY <2>1
  <2>5. start * w = IF part = 1 THEN 0 ELSE n
    BY <1>1, <1>3
  <2>6. j = w * (start + q) + u /\ j \in Int /\ start + q \in Int /\ u \in 0 .. w - 1
    <3>1. q \in Nat /\ u \in 0 .. w - 1 /\ i \in Int
      BY <2>1, <1>1, <1>7 DEF Cells
    <3>2. j = start * w + i
      BY <2>5, <3>1, <1>3
    <3>3. w * (start + q) = start * w + w * q /\ start * w \in Int /\ w * q \in Int
      BY <3>1, <1>1, <1>8
    <3> HIDE DEF start, j
    <3> QED
      BY <3>1, <3>2, <3>3, <2>1, <1>8
  <2>7. j \div w = start + q /\ j % w = u
    <3> DEFINE s == start + q
    <3>1. j = w * s + u /\ s \in Int
      BY <2>6
    <3> HIDE DEF s, j
    <3>2. j \div w = s /\ j % w = u
      BY <3>1, <2>6, <1>1, DivModUnique
    <3> QED
      BY <3>2 DEF s
  <2> HIDE DEF j, start
  <2>8. Value(column, j) = ReduceCell(kind, column.data[start + q][u])
    BY <2>7, <1>4 DEF Value, Cell, w
  <2> QED
    BY <2>2, <2>3, <2>4, <2>8 DEF j
<1> HIDE DEF data, cells, count
<1>12. split.length = cells /\ split.kind = kind
  OBVIOUS
<1> HIDE DEF split
<1>13. \E k \in Nat : Whole(split, k) /\ Tight(split, k)
  BY <1>7, <1>10
<1> QED
  BY <1>5, <1>11, <1>12, <1>13 DEF n, cells

(* A column of an even number of whole vectors is parted at half of its cells. *)
LEMMA WholePairsPart ==
  ASSUME NEW column, NEW m, Whole(column, m), Tight(column, m), column.kind # "coords",
         column.length % (2 * WidthOf(column.kind)) = 0
  PROVE  PartsAtHalf(column)
<1> DEFINE w == WidthOf(column.kind)
           b == 2 * w
           d == column.length \div b
<1>1. /\ column.length \in Nat /\ m \in Nat /\ w \in Nat /\ w >= 1 /\ Lanes \in Nat /\ Lanes <= w
      /\ column.length <= m * w /\ m * w < column.length + Lanes
  <2>1. Lanes \in Nat /\ Lanes <= w
    BY Widths DEF WidthOf, VeryPacked
  <2>2. w \in Nat /\ w >= 1
    BY Widths
  <2> HIDE DEF w
  <2> QED
    BY <2>1, <2>2 DEF Whole, Tight, w
<1>2. Cardinality(DOMAIN column.data) = m
  BY FlatColumn
<1> HIDE DEF w
<1>3. column.length = b * d /\ d \in Int
  <2>1. b \in Nat /\ b > 0 /\ column.length \in Int
    BY <1>1
  <2>2. column.length % b = 0
    BY DEF w
  <2> HIDE DEF b
  <2>3. column.length = b * d + (column.length % b) /\ d \in Int
    BY <2>1, DivMod
  <2>4. b * d \in Int
    BY <2>1, <2>3
  <2> QED
    BY <2>2, <2>3, <2>4
<1> HIDE DEF d
<1>4. column.length = w * (2 * d) /\ w * (2 * d) = 2 * (w * d) /\ w * d \in Int /\ 2 * d \in Int /\ m * w = w * m
  BY <1>1, <1>3
<1>5. m = 2 * d
  <2> DEFINE e == 2 * d
  <2>0. e \in Int /\ column.length = w * e /\ w * e \in Int /\ w * m \in Int
    BY <1>1, <1>4
  <2> HIDE DEF e
  <2>1. ~(e >= m + 1)
    <3> SUFFICES ASSUME e >= m + 1 PROVE FALSE
      OBVIOUS
    <3>1. w * e >= w * m + w
      BY <2>0, <1>1, TimesSucc
    <3> QED
      BY <3>1, <2>0, <1>1, <1>4
  <2>2. ~(m >= e + 1)
    <3> SUFFICES ASSUME m >= e + 1 PROVE FALSE
      OBVIOUS
    <3>1. w * m >= w * e + w
      BY <2>0, <1>1, TimesSucc
    <3> QED
      BY <3>1, <2>0, <1>1, <1>4
  <2>3. m = e
    BY <2>0, <2>1, <2>2, <1>1
  <2> QED
    BY <2>3 DEF e
<1>6. m \div 2 = d
  BY <1>1, <1>3, <1>5
<1>7. column.length \div 2 = w * d
  <2> DEFINE x == w * d
  <2>1. x \in Int /\ column.length = 2 * x
    BY <1>4
  <2> HIDE DEF x
  <2>2. column.length \div 2 = x
    BY <2>1
  <2> QED
    BY <2>2 DEF x
<1>8. d * w = w * d
  BY <1>1, <1>3
<1> QED
  BY <1>2, <1>6, <1>7, <1>8 DEF PartsAtHalf, w

(* A cell's place in a vector, and in one twice as wide. *)
LEMMA WordsOfVectors ==
  ASSUME NEW q \in Nat, NEW t \in 0 .. 1, NEW u \in Cells(Lanes), NEW i, i = Lanes * (2 * q + t) + u
  PROVE  /\ i \div Lanes = 2 * q + t /\ i % Lanes = u
         /\ i \div (2 * Lanes) = q /\ i % (2 * Lanes) = t * Lanes + u
         /\ t * Lanes + u \in Cells(2 * Lanes)
         /\ (2 * q + t) \div 2 = q /\ (2 * q + t) % 2 = t
         /\ (t * Lanes + u) \div Lanes = t /\ (t * Lanes + u) % Lanes = u
<1>0. Lanes \in Nat /\ Lanes >= 1 /\ u \in 0 .. Lanes - 1
  BY Widths DEF Cells
<1>1. i \in Int /\ 2 * q + t \in Int
  BY <1>0
<1>2. i \div Lanes = 2 * q + t /\ i % Lanes = u
  <2> DEFINE k == 2 * q + t
  <2>1. i = Lanes * k + u /\ k \in Int
    BY <1>1
  <2> HIDE DEF k
  <2>2. i \div Lanes = k /\ i % Lanes = u
    BY <2>1, <1>0, <1>1, DivModUnique
  <2> QED
    BY <2>2 DEF k
<1>3. /\ i \div (2 * Lanes) = q /\ i % (2 * Lanes) = t * Lanes + u
      /\ t * Lanes + u \in 0 .. 2 * Lanes - 1
  <2> DEFINE s == t * Lanes + u
             b == 2 * Lanes
  <2>1. t = 0 \/ t = 1
    OBVIOUS
  <2>2. s \in 0 .. b - 1 /\ b \in Nat /\ b > 0
    BY <2>1, <1>0
  <2>3. i = b * q + s
    BY <1>0
  <2> HIDE DEF s, b
  <2>4. i \div b = q /\ i % b = s
    BY <2>2, <2>3, <1>1, DivModUnique
  <2> QED
    BY <2>2, <2>4 DEF s, b
<1>4. (2 * q + t) \div 2 = q /\ (2 * q + t) % 2 = t
  BY DivModUnique
<1>5. (t * Lanes + u) \div Lanes = t /\ (t * Lanes + u) % Lanes = u
  <2> DEFINE s == t * Lanes + u
  <2>1. s = Lanes * t + u /\ s \in Int
    BY <1>0
  <2> HIDE DEF s
  <2>2. s \div Lanes = t /\ s % Lanes = u
    BY <2>1, <1>0, DivModUnique
  <2> QED
    BY <2>2 DEF s
<1> QED
  BY <1>2, <1>3, <1>4, <1>5 DEF Cells

(* A vector's place in a wider one. *)
LEMMA VectorParts ==
  ASSUME NEW k \in Int
  PROVE  k = 2 * (k \div 2) + (k % 2) /\ k % 2 \in 0 .. 1 /\ k \div 2 \in Int
  BY DivMod

(* The cast to wider vectors keeps the cells. *)
LEMMA IntoVeryPackedKeeps ==
  ASSUME NEW column, NEW m, Whole(column, m), column.kind = "base", m % 2 = 0
  PROVE  /\ Whole(IntoVeryPacked(column), m \div 2)
         /\ Contents(IntoVeryPacked(column)) = Contents(column)
<1> DEFINE half == m \div 2
           data == [k \in Cells(half) |->
                      [l \in Cells(2 * Lanes) |-> column.data[2 * k + (l \div Lanes)][l % Lanes]]]
           cast == [kind |-> "very", length |-> column.length, data |-> data]
<1>0. Lanes \in Nat /\ Lanes >= 1
  BY Widths
<1>1. /\ column.length \in Nat /\ m \in Nat /\ column.length <= m * Lanes
      /\ column.data \in [Cells(m) -> [Cells(Lanes) -> PackedLane]]
  BY DEF Whole, Vectors, WidthOf, CellOf, IsSecure
<1>2. m = 2 * half /\ half \in Nat
  <2>1. m = 2 * half + (m % 2) /\ half \in Int
    BY <1>1, DivMod
  <2> QED
    BY <2>1, <1>1
<1>3. IntoVeryPacked(column) = cast
  BY FlatColumn DEF IntoVeryPacked, VeryPacked
<1>4. ASSUME NEW k \in Cells(half), NEW l \in Cells(2 * Lanes)
      PROVE  2 * k + (l \div Lanes) \in Cells(m) /\ l % Lanes \in Cells(Lanes)
  <2>1. l \div Lanes \in Cells(2) /\ l % Lanes \in Cells(Lanes)
    BY <1>0, CellIndex
  <2> QED
    BY <2>1, <1>2 DEF Cells
<1> HIDE DEF half
<1>5. data \in [Cells(half) -> [Cells(2 * Lanes) -> PackedLane]]
  BY <1>1, <1>4
<1>6. Whole(cast, half)
  <2>1. column.length <= half * (2 * Lanes)
    BY <1>0, <1>1, <1>2
  <2> QED
    BY <2>1, <1>1, <1>2, <1>5 DEF Whole, Vectors, WidthOf, VeryPacked, CellOf, IsSecure, Kinds
<1>7. ASSUME NEW i \in Cells(column.length)
      PROVE  Value(cast, i) = Value(column, i)
  <2> DEFINE k == i \div Lanes
             u == i % Lanes
             q == k \div 2
             t == k % 2
  <2>1. k \in Cells(m) /\ u \in Cells(Lanes) /\ i = Lanes * k + u
    BY <1>0, <1>1, CellIndex
  <2> HIDE DEF k, u
  <2>2. k \in Nat /\ k = 2 * q + t /\ t \in 0 .. 1 /\ q \in Int
    BY <2>1, VectorParts DEF Cells
  <2> HIDE DEF q, t
  <2>3. q \in Nat /\ q \in Cells(half)
    BY <2>1, <2>2, <1>2 DEF Cells
  <2>4. /\ i \div Lanes = k /\ i % Lanes = u
        /\ i \div (2 * Lanes) = q /\ i % (2 * Lanes) = t * Lanes + u
        /\ t * Lanes + u \in Cells(2 * Lanes)
        /\ (t * Lanes + u) \div Lanes = t /\ (t * Lanes + u) % Lanes = u
    <3>1. i = Lanes * (2 * q + t) + u
      BY <2>1, <2>2
    <3> QED
      BY <3>1, <2>1, <2>2, <2>3, WordsOfVectors
  <2>5. data[q][t * Lanes + u] = column.data[k][u]
    BY <2>2, <2>3, <2>4
  <2>6. Value(cast, i) = LaneReduce(data[q][t * Lanes + u])
    BY <2>4 DEF Value, Cell, WidthOf, VeryPacked, ReduceCell, IsSecure
  <2>7. Value(column, i) = LaneReduce(column.data[k][u])
    BY <2>4 DEF Value, Cell, WidthOf, ReduceCell, IsSecure
  <2> QED
    BY <2>5, <2>6, <2>7
<1> HIDE DEF data
<1>8. Contents(cast) = Contents(column)
  BY <1>7 DEF Contents
<1> QED
  BY <1>3, <1>6, <1>8 DEF half

(* So does the cast back. *)
LEMMA FromVeryPackedKeeps ==
  ASSUME NEW column, NEW m, Whole(column, m), column.kind = "very"
  PROVE  /\ Whole(FromVeryPacked(column), 2 * m)
         /\ Contents(FromVeryPacked(column)) = Contents(column)
<1> DEFINE data == [k \in Cells(m * 2) |->
                      [l \in Cells(Lanes) |-> column.data[k \div 2][(k % 2) * Lanes + l]]]
           cast == [kind |-> "base", length |-> column.length, data |-> data]
<1>0. Lanes \in Nat /\ Lanes >= 1
  BY Widths
<1>1. /\ column.length \in Nat /\ m \in Nat /\ column.length <= m * (2 * Lanes)
      /\ column.data \in [Cells(m) -> [Cells(2 * Lanes) -> PackedLane]]
  BY DEF Whole, Vectors, WidthOf, VeryPacked, CellOf, IsSecure
<1>2. FromVeryPacked(column) = cast
  BY FlatColumn DEF FromVeryPacked, VeryPacked
<1>3. ASSUME NEW k \in Cells(2 * m)
      PROVE  k \div 2 \in Cells(m) /\ k % 2 \in 0 .. 1 /\ k = 2 * (k \div 2) + (k % 2) /\ k \div 2 \in Nat
  <2>1. k \in Int /\ k >= 0 /\ k <= 2 * m - 1
    BY <1>1 DEF Cells
  <2>2. k % 2 \in 0 .. 1 /\ k = 2 * (k \div 2) + (k % 2) /\ k \div 2 \in Int
    BY <2>1, VectorParts
  <2> QED
    BY <2>1, <2>2, <1>1 DEF Cells
<1>4. data \in [Cells(2 * m) -> [Cells(Lanes) -> PackedLane]]
  <2>1. ASSUME NEW k \in Cells(2 * m), NEW l \in Cells(Lanes)
        PROVE  column.data[k \div 2][(k % 2) * Lanes + l] \in PackedLane
    <3>1. (k % 2) * Lanes + l \in Cells(2 * Lanes)
      <4>1. k % 2 = 0 \/ k % 2 = 1
        BY <1>3
      <4> QED
        BY <4>1, <1>0 DEF Cells
    <3> QED
      BY <3>1, <1>1, <1>3
  <2>2. m * 2 = 2 * m
    BY <1>1
  <2> QED
    BY <2>1, <2>2
<1>5. Whole(cast, 2 * m)
  <2>1. column.length <= (2 * m) * Lanes /\ 2 * m \in Nat
    BY <1>0, <1>1
  <2> QED
    BY <2>1, <1>1, <1>4 DEF Whole, Vectors, WidthOf, CellOf, IsSecure, Kinds
<1>6. ASSUME NEW i \in Cells(column.length)
      PROVE  Value(cast, i) = Value(column, i)
  <2> DEFINE k == i \div Lanes
             u == i % Lanes
             q == k \div 2
             t == k % 2
  <2>1. k \in Cells(2 * m) /\ u \in Cells(Lanes) /\ i = Lanes * k + u
    <3>1. column.length <= (2 * m) * Lanes /\ 2 * m \in Nat
      BY <1>0, <1>1
    <3> QED
      BY <3>1, <1>0, <1>1, CellIndex
  <2> HIDE DEF k, u
  <2>2. k = 2 * q + t /\ t \in 0 .. 1 /\ q \in Nat /\ q \in Cells(m)
    BY <2>1, <1>3
  <2>3. /\ i \div Lanes = k /\ i % Lanes = u
        /\ i \div (2 * Lanes) = q /\ i % (2 * Lanes) = t * Lanes + u
    <3> HIDE DEF q, t
    <3>1. i = Lanes * (2 * q + t) + u
      BY <2>1, <2>2
    <3>2. /\ i \div Lanes = 2 * q + t /\ i % Lanes = u
          /\ i \div (2 * Lanes) = q /\ i % (2 * Lanes) = t * Lanes + u
      <4>1. q \in Nat /\ t \in 0 .. 1 /\ u \in Cells(Lanes)
        BY ONLY <2>1, <2>2
      <4> QED
        BY ONLY <3>1, <4>1, WordsOfVectors
    <3> QED
      BY <3>2, <2>2
  <2>4. data[k][u] = column.data[q][t * Lanes + u]
    <3>1. m * 2 = 2 * m
      BY <1>1
    <3> QED
      BY <3>1, <2>1
  <2>5. Value(cast, i) = LaneReduce(data[k][u])
    BY <2>3 DEF Value, Cell, WidthOf, ReduceCell, IsSecure
  <2>6. Value(column, i) = LaneReduce(column.data[q][t * Lanes + u])
    BY <2>3 DEF Value, Cell, WidthOf, VeryPacked, ReduceCell, IsSecure
  <2> QED
    BY <2>4, <2>5, <2>6
<1> HIDE DEF data
<1>7. Contents(cast) = Contents(column)
  BY <1>6 DEF Contents
<1> QED
  BY <1>2, <1>5, <1>7

(* A lane embedded in QM31 reduces to its embedded reduction. *)
LEMMA EmbedReduced ==
  ASSUME NEW x \in PackedLane
  PROVE  FromM31(x) \in PackedSecure /\ ReduceQM31(FromM31(x)) = FromM31(LaneReduce(x))
<1>1. 0 \in PackedLane /\ LaneReduce(0) = 0
  BY Sizes, LaneReduceIs DEF PackedLane
<1> QED
  BY <1>1 DEF FromM31, PackedSecure, PackedComplex, ReduceQM31, ReduceCM31

(* into_secure_column embeds every cell. *)
LEMMA IntoSecureEmbeds ==
  ASSUME NEW column, NEW m, Whole(column, m), column.kind = "base"
  PROVE  /\ Whole(IntoSecureColumn(column), m)
         /\ Contents(IntoSecureColumn(column)) = [i \in DOMAIN Contents(column) |-> FromM31(Contents(column)[i])]
<1> DEFINE data == [k \in Cells(m) |-> [l \in Cells(Lanes) |-> FromM31(column.data[k][l])]]
           cast == [kind |-> "secure", length |-> column.length, data |-> data]
<1>1. /\ column.length \in Nat /\ m \in Nat /\ column.length <= m * Lanes
      /\ column.data \in [Cells(m) -> [Cells(Lanes) -> PackedLane]]
  BY DEF Whole, Vectors, WidthOf, CellOf, IsSecure
<1>2. IntoSecureColumn(column) = cast
  BY <1>1 DEF IntoSecureColumn
<1>3. data \in [Cells(m) -> [Cells(Lanes) -> PackedSecure]]
  BY <1>1, EmbedReduced
<1>4. Whole(cast, m)
  BY <1>1, <1>3 DEF Whole, Vectors, WidthOf, CellOf, IsSecure, Kinds
<1>5. ASSUME NEW i \in Cells(column.length)
      PROVE  Value(cast, i) = FromM31(Value(column, i))
  <2> DEFINE k == i \div Lanes
             u == i % Lanes
  <2>1. k \in Cells(m) /\ u \in Cells(Lanes)
    BY <1>1, CellIndex, Widths
  <2>2. Value(cast, i) = ReduceQM31(data[k][u])
    BY DEF Value, Cell, WidthOf, ReduceCell, IsSecure
  <2>3. Value(column, i) = LaneReduce(column.data[k][u])
    BY DEF Value, Cell, WidthOf, ReduceCell, IsSecure
  <2> HIDE DEF k, u
  <2>4. data[k][u] = FromM31(column.data[k][u]) /\ column.data[k][u] \in PackedLane
    BY <2>1, <1>1
  <2> QED
    BY <2>2, <2>3, <2>4, EmbedReduced
<1> HIDE DEF data
<1>6. Contents(cast) = [i \in DOMAIN Contents(column) |-> FromM31(Contents(column)[i])]
  BY <1>5 DEF Contents
<1> QED
  BY <1>2, <1>4, <1>6

(* The vectors of n cells hold them, and each starts at one of them. *)
LEMMA CeilIs ==
  ASSUME NEW n \in Nat
  PROVE  LET m == CeilDiv(n, Lanes) IN m \in Nat /\ n <= m * Lanes /\ \A k \in Cells(m) : k * Lanes \in Cells(n)
<1> DEFINE m == CeilDiv(n, Lanes)
           r == (n + Lanes - 1) % Lanes
<1>0. Lanes \in Nat /\ Lanes >= 1
  BY Widths
<1>1. n + Lanes - 1 = Lanes * m + r /\ r \in 0 .. Lanes - 1 /\ m \in Int
  <2>1. n + Lanes - 1 \in Int
    BY <1>0
  <2> QED
    BY <2>1, <1>0, DivMod DEF CeilDiv
<1> HIDE DEF m, r
<1>2. Lanes * m >= n /\ Lanes * m <= n + Lanes - 1
  BY <1>0, <1>1
<1>3. ~(m =< -1)
  <2> SUFFICES ASSUME m =< -1 PROVE FALSE
    OBVIOUS
  <2>1. Lanes * (-1) >= Lanes * m + 0
    BY <1>0, <1>1
  <2>2. Lanes * m \in Int /\ Lanes * (-1) = -Lanes
    BY <1>0, <1>1
  <2> QED
    BY <2>1, <2>2, <1>0, <1>2
<1>4. m \in Nat /\ n <= m * Lanes
  <2>1. m * Lanes = Lanes * m
    BY <1>0, <1>1
  <2> QED
    BY <2>1, <1>1, <1>2, <1>3
<1>5. ASSUME NEW k \in Cells(m)
      PROVE  k * Lanes \in Cells(n)
  <2>1. k \in Nat /\ m >= k + 1
    BY <1>4 DEF Cells
  <2>2. Lanes * m >= Lanes * k + Lanes
    BY <2>1, <1>0, <1>1, TimesSucc
  <2>3. k * Lanes = Lanes * k /\ k * Lanes \in Nat /\ Lanes * m \in Int
    BY <2>1, <1>0, <1>1
  <2> DEFINE start == k * Lanes
             end == Lanes * m
  <2> HIDE DEF start, end
  <2>4. end >= start + Lanes /\ end <= n + Lanes - 1 /\ start \in Nat /\ end \in Int
    BY <2>2, <2>3, <1>2 DEF start, end
  <2>5. start \in Cells(n)
    BY <2>4, <1>0 DEF Cells
  <2> QED
    BY <2>5 DEF start
<1> QED
  BY <1>4, <1>5 DEF m

(* from_iter puts every cell in its place and pads the rest. *)
LEMMA FromIterCells ==
  ASSUME NEW kind \in {"base", "secure", "coords"}, NEW n \in Nat, NEW cells \in [Cells(n) -> CellOf(kind)]
  PROVE  LET column == FromIter(kind, cells)
             m == CeilDiv(n, Lanes)
         IN  /\ column = [kind |-> kind, length |-> n, data |-> column.data]
             /\ column.data \in [Cells(m) -> [Cells(Lanes) -> CellOf(kind)]]
             /\ \A i \in Cells(n) : column.data[i \div Lanes][i % Lanes] = cells[i]
<1> DEFINE m == CeilDiv(n, Lanes)
           data == [k \in Cells(m) |-> [l \in Cells(Lanes) |->
                      IF k * Lanes + l < n THEN cells[k * Lanes + l] ELSE ZeroCell(kind)]]
<1>0. Lanes \in Nat /\ Lanes >= 1 /\ m \in Nat /\ n <= m * Lanes
  BY Widths, CeilIs
<1> HIDE DEF m
<1>1. FromIter(kind, cells) = [kind |-> kind, length |-> n, data |-> data]
  <2>1. Cardinality(DOMAIN cells) = n /\ WidthOf(kind) = Lanes
    BY VectorCount DEF WidthOf
  <2> QED
    BY <2>1 DEF FromIter, m
<1>2. ZeroCell(kind) \in CellOf(kind)
  <2>1. 0 \in PackedLane
    BY Sizes DEF PackedLane
  <2> QED
    BY <2>1 DEF ZeroCell, CellOf, IsSecure, QM31Zero, FromM31, PackedSecure, PackedComplex
<1>3. ASSUME NEW k \in Cells(m), NEW l \in Cells(Lanes)
      PROVE  (IF k * Lanes + l < n THEN cells[k * Lanes + l] ELSE ZeroCell(kind)) \in CellOf(kind)
  <2>1. k \in Nat /\ l \in Nat
    BY <1>0 DEF Cells
  <2>2. k * Lanes \in Nat
    BY <2>1, <1>0
  <2>3. k * Lanes + l < n => k * Lanes + l \in Cells(n)
    BY <2>1, <2>2 DEF Cells
  <2> QED
    BY <2>3, <1>2
<1>4. data \in [Cells(m) -> [Cells(Lanes) -> CellOf(kind)]]
  BY <1>3
<1>5. ASSUME NEW i \in Cells(n)
      PROVE  data[i \div Lanes][i % Lanes] = cells[i]
  <2> DEFINE k == i \div Lanes
             l == i % Lanes
  <2>1. k \in Cells(m) /\ l \in Cells(Lanes) /\ i = Lanes * k + l
    BY <1>0, CellIndex
  <2> HIDE DEF k, l
  <2>2. k * Lanes + l = i /\ i < n
    BY <2>1, <1>0 DEF Cells
  <2>3. data[k][l] = cells[i]
    BY <2>1, <2>2
  <2> QED
    BY <2>3 DEF k, l
<1> HIDE DEF data
<1> QED
  BY <1>1, <1>4, <1>5 DEF m

(* The four coordinates are the element. *)
LEMMA CoordinatesOfCell ==
  ASSUME NEW v \in PackedSecure
  PROVE  /\ \A c \in Cells(4) : Coordinate(v, c) \in PackedLane
         /\ <<<<Coordinate(v, 0), Coordinate(v, 1)>>, <<Coordinate(v, 2), Coordinate(v, 3)>>>> = v
<1>1. /\ v = <<<<v[1][1], v[1][2]>>, <<v[2][1], v[2][2]>>>>
      /\ v[1][1] \in PackedLane /\ v[1][2] \in PackedLane /\ v[2][1] \in PackedLane /\ v[2][2] \in PackedLane
  BY DEF PackedSecure, PackedComplex
<1>2. /\ 1 + (0 \div 2) = 1 /\ 1 + (0 % 2) = 1 /\ 1 + (1 \div 2) = 1 /\ 1 + (1 % 2) = 2
      /\ 1 + (2 \div 2) = 2 /\ 1 + (2 % 2) = 1 /\ 1 + (3 \div 2) = 2 /\ 1 + (3 % 2) = 2
  OBVIOUS
<1>3. /\ Coordinate(v, 0) = v[1][1] /\ Coordinate(v, 1) = v[1][2]
      /\ Coordinate(v, 2) = v[2][1] /\ Coordinate(v, 3) = v[2][2]
  BY <1>2 DEF Coordinate
<1>4. \A c \in Cells(4) : c = 0 \/ c = 1 \/ c = 2 \/ c = 3
  BY DEF Cells
<1> QED
  BY <1>1, <1>3, <1>4

(* into_secure_column_by_coords keeps the cells, by coordinates or over the CPU. *)
LEMMA IntoCoordsKeeps ==
  ASSUME NEW column, NEW m, Whole(column, m), column.kind = "secure"
  PROVE  /\ \E n \in Nat : Whole(IntoCoords(column), n)
         /\ Contents(IntoCoords(column)) = Contents(column)
<1> DEFINE cells == IF column.length < Lanes THEN FromIter("coords", CellsOf(column)).data ELSE column.data
           n == IF column.length < Lanes THEN CeilDiv(column.length, Lanes) ELSE m
           data == [c \in Cells(4) |-> [k \in Cells(n) |-> [l \in Cells(Lanes) |-> Coordinate(cells[k][l], c)]]]
           cast == [kind |-> "coords", length |-> column.length, data |-> data]
<1>0. Lanes \in Nat /\ Lanes >= 1
  BY Widths
<1>1. /\ column.length \in Nat /\ m \in Nat /\ column.length <= m * Lanes
      /\ column.data \in [Cells(m) -> [Cells(Lanes) -> PackedSecure]]
  BY DEF Whole, Vectors, WidthOf, CellOf, IsSecure
<1>2. \A i \in Cells(column.length) : /\ column.data[i \div Lanes][i % Lanes] \in PackedSecure
                                      /\ Value(column, i) = ReduceQM31(column.data[i \div Lanes][i % Lanes])
                                      /\ CellsOf(column)[i] = Value(column, i)
  <2> TAKE i \in Cells(column.length)
  <2>1. i \div Lanes \in Cells(m) /\ i % Lanes \in Cells(Lanes)
    BY <1>0, <1>1, CellIndex
  <2>2. column.data[i \div Lanes][i % Lanes] \in PackedSecure
    BY <2>1, <1>1
  <2>3. Value(column, i) = ReduceQM31(column.data[i \div Lanes][i % Lanes])
    BY DEF Value, Cell, WidthOf, ReduceCell, IsSecure
  <2>4. CellsOf(column)[i] = ReduceQM31(column.data[i \div Lanes][i % Lanes])
    BY DEF CellsOf, CellAt, WidthOf, ReduceCell, IsSecure
  <2> QED
    BY <2>2, <2>3, <2>4
<1>3. /\ cells \in [Cells(n) -> [Cells(Lanes) -> PackedSecure]]
      /\ n \in Nat /\ column.length <= n * Lanes
      /\ \A i \in Cells(column.length) :
           ReduceQM31(cells[i \div Lanes][i % Lanes]) = Value(column, i)
  <2>1. CASE column.length < Lanes
    <3>1. CellsOf(column) \in [Cells(column.length) -> PackedSecure]
      <4>1. \A i \in Cells(column.length) : CellsOf(column)[i] \in PackedSecure
        BY <1>2, Reducing
      <4>2. CellsOf(column) = [i \in Cells(column.length) |-> CellsOf(column)[i]]
        BY DEF CellsOf
      <4> QED
        BY <4>1, <4>2
    <3>2. CellOf("coords") = PackedSecure
      BY DEF CellOf, IsSecure
    <3> DEFINE list == CellsOf(column)
    <3> HIDE DEF list
    <3>3. /\ FromIter("coords", list).data \in [Cells(CeilDiv(column.length, Lanes)) -> [Cells(Lanes) -> PackedSecure]]
          /\ \A i \in Cells(column.length) : FromIter("coords", list).data[i \div Lanes][i % Lanes] = list[i]
      BY <3>1, <3>2, <1>1, FromIterCells DEF list
    <3>4. /\ cells \in [Cells(n) -> [Cells(Lanes) -> PackedSecure]]
          /\ \A i \in Cells(column.length) : cells[i \div Lanes][i % Lanes] = Value(column, i)
      BY <3>3, <2>1, <1>2 DEF list
    <3>5. \A i \in Cells(column.length) : ReduceQM31(Value(column, i)) = Value(column, i)
      BY <1>2, Reducing
    <3>6. n \in Nat /\ column.length <= n * Lanes
      BY <2>1, <1>1, CeilIs
    <3> HIDE DEF cells, n
    <3> QED
      BY <3>4, <3>5, <3>6
  <2>2. CASE ~(column.length < Lanes)
    BY <2>2, <1>1, <1>2
  <2> QED
    BY <2>1, <2>2
<1>4. IntoCoords(column) = cast
  <2>1. DOMAIN cells = Cells(n)
    BY <1>3
  <2> QED
    BY <2>1 DEF IntoCoords
<1> HIDE DEF cells, n
<1>5. ASSUME NEW k \in Cells(n), NEW l \in Cells(Lanes)
      PROVE  /\ \A c \in Cells(4) : Coordinate(cells[k][l], c) \in PackedLane
             /\ <<<<data[0][k][l], data[1][k][l]>>, <<data[2][k][l], data[3][k][l]>>>> = cells[k][l]
  <2>1. cells[k][l] \in PackedSecure
    BY <1>3
  <2>2. 0 \in Cells(4) /\ 1 \in Cells(4) /\ 2 \in Cells(4) /\ 3 \in Cells(4)
    BY DEF Cells
  <2>3. \A c \in Cells(4) : data[c][k][l] = Coordinate(cells[k][l], c)
    OBVIOUS
  <2> HIDE DEF data
  <2>4. <<<<data[0][k][l], data[1][k][l]>>, <<data[2][k][l], data[3][k][l]>>>>
          = <<<<Coordinate(cells[k][l], 0), Coordinate(cells[k][l], 1)>>,
              <<Coordinate(cells[k][l], 2), Coordinate(cells[k][l], 3)>>>>
    BY <2>2, <2>3
  <2> QED
    BY <2>1, <2>4, CoordinatesOfCell
<1>6. data \in [Cells(4) -> [Cells(n) -> [Cells(Lanes) -> PackedLane]]]
  BY <1>5
<1>7. Whole(cast, n)
  BY <1>1, <1>3, <1>6 DEF Whole, Vectors, WidthOf, Kinds
<1>8. ASSUME NEW i \in Cells(column.length)
      PROVE  Value(cast, i) = Value(column, i)
  <2>1. i \div Lanes \in Cells(n) /\ i % Lanes \in Cells(Lanes)
    BY <1>0, <1>1, <1>3, CellIndex
  <2> DEFINE k == i \div Lanes
             l == i % Lanes
  <2>2. Value(cast, i) = ReduceQM31(<<<<data[0][k][l], data[1][k][l]>>, <<data[2][k][l], data[3][k][l]>>>>)
    <3> HIDE DEF data
    <3> QED
      BY DEF Value, Cell, WidthOf, ReduceCell, IsSecure
  <2>3. Value(cast, i) = ReduceQM31(cells[k][l])
    BY <2>1, <2>2, <1>5
  <2> QED
    BY <2>3, <1>3
<1> HIDE DEF data
<1>9. Contents(cast) = Contents(column)
  BY <1>8 DEF Contents
<1> QED
  BY <1>3, <1>4, <1>7, <1>9

(* set_packed writes the cells of its vector and no other. *)
LEMMA SetPackedKeepsOthers ==
  ASSUME NEW column, NEW m, Whole(column, m), column.kind = "coords",
         NEW k \in Cells(CeilDiv(column.length, Lanes)),
         NEW vector \in [Cells(Lanes) -> PackedSecure],
         \A l \in Cells(Lanes) : ReduceQM31(vector[l]) = vector[l]
  PROVE  /\ Whole(SetPacked(column, k, vector), m)
         /\ k * Lanes \in Cells(column.length)
         /\ Contents(SetPacked(column, k, vector))
              = [i \in DOMAIN Contents(column) |->
                   IF k * Lanes <= i /\ i < k * Lanes + Lanes THEN vector[i - k * Lanes] ELSE Contents(column)[i]]
<1> DEFINE data == [c \in Cells(4) |->
                      [column.data[c] EXCEPT ![k] = [l \in Cells(Lanes) |-> Coordinate(vector[l], c)]]]
           set == [kind |-> "coords", length |-> column.length, data |-> data]
           start == k * Lanes
<1>0. Lanes \in Nat /\ Lanes >= 1
  BY Widths
<1>1. /\ column.length \in Nat /\ m \in Nat /\ column.length <= m * Lanes
      /\ column = [kind |-> column.kind, length |-> column.length, data |-> column.data]
      /\ column.data \in [Cells(4) -> [Cells(m) -> [Cells(Lanes) -> PackedLane]]]
  BY DEF Whole, Vectors, WidthOf
<1>2. SetPacked(column, k, vector) = set
  <2>1. SetPacked(column, k, vector) = [column EXCEPT !.data = data]
    BY DEF SetPacked
  <2> HIDE DEF data
  <2> QED
    BY <2>1, <1>1
<1>3. start \in Cells(column.length) /\ start \in Nat /\ k \in Nat
  <2>1. start \in Cells(column.length) /\ CeilDiv(column.length, Lanes) \in Nat
    BY <1>1, CeilIs
  <2>2. k \in Nat
    BY <2>1 DEF Cells
  <2> QED
    BY <2>1, <2>2, <1>0 DEF Cells
<1>4. ASSUME NEW i \in Cells(column.length)
      PROVE  /\ i \div Lanes \in Cells(m) /\ i % Lanes \in Cells(Lanes)
             /\ i = Lanes * (i \div Lanes) + (i % Lanes)
             /\ (start <= i /\ i < start + Lanes) <=> i \div Lanes = k
             /\ i \div Lanes = k => i - start = i % Lanes
  <2> DEFINE q == i \div Lanes
             u == i % Lanes
  <2>1. q \in Cells(m) /\ u \in Cells(Lanes) /\ i = Lanes * q + u
    BY <1>0, <1>1, CellIndex
  <2> HIDE DEF q, u
  <2>2. q \in Nat /\ u \in 0 .. Lanes - 1 /\ i \in Nat
    BY <2>1, <1>0, <1>1 DEF Cells
  <2>3. q = k => start <= i /\ i < start + Lanes /\ i - start = u
    BY <2>1, <2>2, <1>0, <1>3
  <2>4. (start <= i /\ i < start + Lanes) => q = k
    <3> SUFFICES ASSUME start <= i, i < start + Lanes PROVE q = k
      OBVIOUS
    <3>1. i = Lanes * k + (i - start) /\ i - start \in 0 .. Lanes - 1
      BY <2>2, <1>0, <1>3
    <3> QED
      BY <3>1, <2>2, <1>0, <1>3, DivModUnique DEF q
  <2> QED
    BY <2>1, <2>3, <2>4 DEF q, u
<1> HIDE DEF start
<1>5. k \in Cells(m)
  <2>1. start \div Lanes = k
    BY <1>0, <1>3, <1>4
  <2> QED
    BY <2>1, <1>3, <1>4
<1>6. \A l \in Cells(Lanes) : /\ vector[l] \in PackedSecure
                              /\ \A c \in Cells(4) : Coordinate(vector[l], c) \in PackedLane
  BY CoordinatesOfCell
<1>7. data \in [Cells(4) -> [Cells(m) -> [Cells(Lanes) -> PackedLane]]]
  <2> SUFFICES ASSUME NEW c \in Cells(4)
               PROVE  [column.data[c] EXCEPT ![k] = [l \in Cells(Lanes) |-> Coordinate(vector[l], c)]]
                        \in [Cells(m) -> [Cells(Lanes) -> PackedLane]]
    OBVIOUS
  <2>1. column.data[c] \in [Cells(m) -> [Cells(Lanes) -> PackedLane]]
    BY <1>1
  <2>2. [l \in Cells(Lanes) |-> Coordinate(vector[l], c)] \in [Cells(Lanes) -> PackedLane]
    BY <1>6
  <2> QED
    BY <2>1, <2>2
<1>8. Whole(set, m)
  BY <1>1, <1>7 DEF Whole, Vectors, WidthOf, Kinds
<1>9. ASSUME NEW q \in Cells(m), NEW u \in Cells(Lanes), NEW c \in Cells(4)
      PROVE  data[c][q][u] = IF q = k THEN Coordinate(vector[u], c) ELSE column.data[c][q][u]
  <2>1. column.data[c] \in [Cells(m) -> [Cells(Lanes) -> PackedLane]]
    BY <1>1
  <2>2. data[c] = [column.data[c] EXCEPT ![k] = [l \in Cells(Lanes) |-> Coordinate(vector[l], c)]]
    OBVIOUS
  <2> QED
    BY <2>1, <2>2, <1>5
<1>10. ASSUME NEW i \in Cells(column.length)
       PROVE  Value(set, i) = IF start <= i /\ i < start + Lanes THEN vector[i - start] ELSE Value(column, i)
  <2> DEFINE q == i \div Lanes
             u == i % Lanes
             D == column.data
  <2>1. /\ q \in Cells(m) /\ u \in Cells(Lanes)
        /\ (start <= i /\ i < start + Lanes) <=> q = k
        /\ q = k => i - start = u
    BY <1>4
  <2>2. /\ Value(set, i) = ReduceQM31(<<<<data[0][q][u], data[1][q][u]>>, <<data[2][q][u], data[3][q][u]>>>>)
        /\ Value(column, i) = ReduceQM31(<<<<D[0][q][u], D[1][q][u]>>, <<D[2][q][u], D[3][q][u]>>>>)
    <3> HIDE DEF data
    <3> QED
      BY DEF Value, Cell, WidthOf, ReduceCell, IsSecure
  <2>3. 0 \in Cells(4) /\ 1 \in Cells(4) /\ 2 \in Cells(4) /\ 3 \in Cells(4)
    BY DEF Cells
  <2> HIDE DEF q, u, data
  <2>4. CASE q = k
    <3>1. /\ data[0][q][u] = Coordinate(vector[u], 0) /\ data[1][q][u] = Coordinate(vector[u], 1)
          /\ data[2][q][u] = Coordinate(vector[u], 2) /\ data[3][q][u] = Coordinate(vector[u], 3)
      BY <2>1, <2>3, <2>4, <1>9
    <3>2. Value(set, i) = ReduceQM31(vector[u])
      BY <3>1, <2>1, <2>2, <1>6, CoordinatesOfCell
    <3> QED
      BY <3>2, <2>1, <2>4
  <2>5. CASE q # k
    <3>1. /\ data[0][q][u] = D[0][q][u] /\ data[1][q][u] = D[1][q][u]
          /\ data[2][q][u] = D[2][q][u] /\ data[3][q][u] = D[3][q][u]
      BY <2>1, <2>3, <2>5, <1>9
    <3> QED
      BY <3>1, <2>1, <2>2, <2>5
  <2> QED
    BY <2>4, <2>5
<1> HIDE DEF data
<1>11. Contents(set)
         = [i \in DOMAIN Contents(column) |->
              IF start <= i /\ i < start + Lanes THEN vector[i - start] ELSE Contents(column)[i]]
  BY <1>10 DEF Contents
<1> QED
  BY <1>2, <1>3, <1>8, <1>11 DEF start

(* The inductive invariant. *)
PackedInv ==
  torn \in BOOLEAN /\ (~torn => \E m \in Nat : Whole(packed, m) /\ Tight(packed, m))

(* The first columns are whole. *)
LEMMA InitIsWhole ==
  ASSUME PackedInit
  PROVE  PackedInv /\ ~torn /\ packed.kind = "base" /\ packed.length \in ColumnLengths
<1>0. torn = FALSE
  BY DEF PackedInit
<1>1. PICK n \in ColumnLengths :
        packed \in {FromIter("base", [i \in Cells(n) |-> (i + 1) % P]), Zeros("base", n),
                    FromIter("base", [i \in Cells(n) |-> IF i = 0 THEN P ELSE i % P])}
  BY DEF PackedInit
<1> DEFINE m == CeilDiv(n, Lanes)
<1>2. n \in Nat /\ m \in Nat /\ n <= m * Lanes /\ CellOf("base") = PackedLane
  BY LengthsAssumption, CeilIs DEF CellOf, IsSecure
<1>9. m * Lanes < n + Lanes
  <2>0. Lanes \in Nat /\ Lanes >= 1
    BY Widths
  <2>1. CASE m = 0
    <3>1. m * Lanes = 0
      BY <2>0, <2>1
    <3> QED
      BY <3>1, <2>0, <1>2
  <2>2. CASE m # 0
    <3> DEFINE last == m - 1
    <3>1. last \in Cells(m) /\ last \in Nat
      BY <2>2, <1>2 DEF Cells
    <3>2. last * Lanes \in Cells(n)
      BY <3>1, <1>2, CeilIs
    <3>3. m * Lanes = last * Lanes + Lanes /\ last * Lanes \in Nat
      <4>1. m = last + 1
        BY <1>2
      <4> HIDE DEF last
      <4> QED
        BY <4>1, <3>1, <2>0
    <3> DEFINE x == last * Lanes
               y == m * Lanes
    <3>4. x \in Cells(n) /\ y = x + Lanes /\ x \in Nat
      BY <3>2, <3>3
    <3> HIDE DEF x, y, m, last
    <3>5. y < n + Lanes
      BY <3>4, <2>0, <1>2 DEF Cells
    <3> QED
      BY <3>5 DEF y
  <2> QED
    BY <2>1, <2>2
<1> HIDE DEF m
<1>3. ASSUME NEW cells \in [Cells(n) -> PackedLane]
      PROVE  LET column == FromIter("base", cells)
             IN  /\ column = [kind |-> "base", length |-> n, data |-> column.data]
                 /\ column.data \in [Cells(m) -> [Cells(Lanes) -> PackedLane]]
  BY <1>2, FromIterCells DEF m
<1>4. ASSUME NEW data \in [Cells(m) -> [Cells(Lanes) -> PackedLane]], packed = [kind |-> "base", length |-> n, data |-> data]
      PROVE  PackedInv /\ ~torn /\ packed.kind = "base" /\ packed.length \in ColumnLengths
  <2>1. Whole(packed, m)
    BY <1>2, <1>4 DEF Whole, Vectors, WidthOf, Kinds
  <2>2. Tight(packed, m)
    BY <1>4, <1>9 DEF Tight, WidthOf
  <2> QED
    BY <2>1, <2>2, <1>0, <1>2, <1>4 DEF PackedInv
<1>5. \A i \in Cells(n) : (i + 1) % P \in PackedLane /\ i % P \in PackedLane /\ 0 \in PackedLane /\ P \in PackedLane
  <2>1. \A i \in Int : i % P \in PackedLane
    BY Sizes, SameReduced DEF PackedLane, BaseField
  <2>2. \A i \in Cells(n) : i \in Int /\ i + 1 \in Int
    BY <1>2 DEF Cells
  <2> QED
    BY <2>1, <2>2, Sizes DEF PackedLane
<1>6. CASE packed = FromIter("base", [i \in Cells(n) |-> (i + 1) % P])
  <2>1. [i \in Cells(n) |-> (i + 1) % P] \in [Cells(n) -> PackedLane]
    BY <1>5
  <2> QED
    BY <2>1, <1>3, <1>4, <1>6
<1>7. CASE packed = Zeros("base", n)
  <2>1. [i \in Cells(n) |-> ZeroCell("base")] \in [Cells(n) -> PackedLane]
    BY <1>5 DEF ZeroCell, IsSecure
  <2> QED
    BY <2>1, <1>3, <1>4, <1>7 DEF Zeros
<1>8. CASE packed = FromIter("base", [i \in Cells(n) |-> IF i = 0 THEN P ELSE i % P])
  <2>1. [i \in Cells(n) |-> IF i = 0 THEN P ELSE i % P] \in [Cells(n) -> PackedLane]
    BY <1>5
  <2> QED
    BY <2>1, <1>3, <1>4, <1>8
<1> QED
  BY <1>0, <1>1, <1>6, <1>7, <1>8

(* The elements written are reduced. *)
LEMMA ElementsAreReduced ==
  /\ \A v \in BaseElements : v \in PackedLane /\ LaneReduce(v) = v
  /\ \A v \in SecureElements : v \in PackedSecure /\ ReduceQM31(v) = v
<1>1. \A v \in 0 .. P - 1 : v \in PackedLane /\ LaneReduce(v) = v
  BY Sizes, LaneReduceIs DEF PackedLane
<1>2. 0 \in 0 .. P - 1 /\ 1 \in 0 .. P - 1 /\ 2 \in 0 .. P - 1 /\ 3 \in 0 .. P - 1 /\ 4 \in 0 .. P - 1 /\ P - 1 \in 0 .. P - 1
  BY Sizes
<1>3. \A v \in BaseElements : v \in PackedLane /\ LaneReduce(v) = v
  BY <1>1, <1>2 DEF BaseElements
<1>4. \A v \in SecureElements : v \in PackedSecure /\ ReduceQM31(v) = v
  BY <1>1, <1>2 DEF SecureElements, QM31Zero, FromM31, ReduceQM31, ReduceCM31, PackedSecure, PackedComplex
<1> QED
  BY <1>3, <1>4

(* The field of a column. *)
Field(column) == IF IsSecure(column.kind) THEN "secure" ELSE "base"

(* A step keeps a column whole or tears it, and is a step of the abstract column or leaves its values
   alone. *)
LEMMA PackedStep ==
  ASSUME PackedInv, PackedNext
  PROVE  /\ PackedInv'
         /\ \/ Abstract!Next
            \/ UNCHANGED <<ColumnValues, Field(packed), torn>>
<1>0. torn = FALSE
  BY DEF PackedInv, PackedNext
<1>1. PICK m \in Nat : Whole(packed, m) /\ Tight(packed, m)
  BY <1>0 DEF PackedInv
<1>2. ColumnValues = Contents(packed) /\ DOMAIN Contents(packed) = Cells(packed.length)
  BY <1>0, <1>1, ValuesAreContents DEF ColumnValues, Contents
<1>3. ASSUME UNCHANGED torn, NEW n \in Nat, Whole(packed', n), Tight(packed', n)
      PROVE  PackedInv' /\ ColumnValues' = Contents(packed')
  <2>1. torn' = FALSE
    BY <1>0, <1>3
  <2>2. ValuesOf(packed') = Contents(packed')
    BY <1>3, ValuesAreContents
  <2> QED
    BY <1>3, <2>1, <2>2 DEF PackedInv, ColumnValues
<1>4. ASSUME NEW i \in Cells(packed.length), SetAt(i)
      PROVE  PackedInv' /\ Abstract!Next
  <2> DEFINE kind == packed.kind
  <2>1. kind # "coords"
    BY <1>4 DEF SetAt
  <2>2. PICK v \in IF IsSecure(kind) THEN SecureElements ELSE BaseElements : packed' = SetCell(packed, i, v)
    BY <1>4 DEF SetAt
  <2>3. v \in CellOf(kind) /\ ReduceCell(kind, v) = v /\ v \in ColumnElements(Field(packed))
    BY ElementsAreReduced DEF CellOf, ReduceCell, ColumnElements, Field
  <2>4. Whole(packed', m) /\ Contents(packed') = [Contents(packed) EXCEPT ![i] = v]
    BY <1>1, <2>1, <2>2, <2>3, SetKeepsOthers
  <2>6. packed'.kind = packed.kind /\ packed'.length = packed.length /\ UNCHANGED torn
    BY <1>1, <1>4, <2>2 DEF SetCell, SetAt, Edit, Whole
  <2>8. Tight(packed', m)
    BY <1>1, <2>6 DEF Tight
  <2>5. PackedInv' /\ ColumnValues' = [ColumnValues EXCEPT ![i] = v]
    BY <1>2, <1>3, <2>4, <2>6, <2>8
  <2>7. Abstract!Set
    BY <1>2, <2>3, <2>5, <2>6 DEF Abstract!Set, Field
  <2> QED
    BY <1>0, <2>5, <2>7 DEF Abstract!Next
<1>5. ASSUME NEW k \in Cells(CeilDiv(packed.length, Lanes)), SetPackedAt(k)
      PROVE  PackedInv' /\ Abstract!Next
  <2>1. packed.kind = "coords"
    BY <1>5 DEF SetPackedAt
  <2>2. PICK v \in SecureElements : \E w \in SecureElements :
          packed' = SetPacked(packed, k, [l \in Cells(Lanes) |-> IF l % 2 = 0 THEN v ELSE w])
    BY <1>5 DEF SetPackedAt
  <2>3. PICK w \in SecureElements :
          packed' = SetPacked(packed, k, [l \in Cells(Lanes) |-> IF l % 2 = 0 THEN v ELSE w])
    BY <2>2
  <2> DEFINE vector == [l \in Cells(Lanes) |-> IF l % 2 = 0 THEN v ELSE w]
             start == k * Lanes
  <2>4. vector \in [Cells(Lanes) -> SecureElements]
    OBVIOUS
  <2>5. packed' = SetPacked(packed, k, vector)
    BY <2>3
  <2> HIDE DEF vector
  <2>6. vector \in [Cells(Lanes) -> PackedSecure] /\ \A l \in Cells(Lanes) : ReduceQM31(vector[l]) = vector[l]
    BY <2>4, ElementsAreReduced
  <2>7. /\ Whole(packed', m) /\ start \in Cells(packed.length)
        /\ Contents(packed')
             = [i \in DOMAIN Contents(packed) |->
                  IF start <= i /\ i < start + Lanes THEN vector[i - start] ELSE Contents(packed)[i]]
    BY <1>1, <2>1, <2>5, <2>6, SetPackedKeepsOthers
  <2> HIDE DEF start
  <2>9. packed'.kind = packed.kind /\ IsSecure(packed.kind) /\ UNCHANGED torn
    BY <1>5, <2>1, <2>5 DEF SetPacked, IsSecure, SetPackedAt, Edit
  <2>12. Tight(packed', m)
    BY <2>1, <2>9 DEF Tight
  <2>8. /\ PackedInv'
        /\ ColumnValues'
             = [i \in DOMAIN ColumnValues |->
                  IF start <= i /\ i < start + Lanes THEN vector[i - start] ELSE ColumnValues[i]]
    BY <1>2, <1>3, <2>7, <2>9, <2>12
  <2>10. vector \in [0 .. Lanes - 1 -> ColumnElements("secure")]
    BY <2>4 DEF ColumnElements, Cells
  <2>11. Abstract!SetVector
    BY <1>2, <2>7, <2>8, <2>9, <2>10 DEF Abstract!SetVector
  <2> QED
    BY <1>0, <2>8, <2>11 DEF Abstract!Next
<1>6. ASSUME Split, PartsAtHalf(packed)
      PROVE  PackedInv' /\ Abstract!Next
  <2>1. packed.kind # "coords" /\ torn' = FALSE /\ UNCHANGED torn
    BY <1>0, <1>6 DEF Split
  <2>2. PICK part \in 1 .. 2 : packed' = SplitColumn(packed)[part]
    BY <1>6 DEF Split
  <2> DEFINE n == packed.length \div 2
             size == IF part = 1 THEN n ELSE packed.length - n
             Place(i) == IF part = 1 THEN i ELSE n + i
  <2>3. /\ \E k \in Nat : Whole(packed', k) /\ Tight(packed', k)
        /\ packed'.length = size /\ packed'.kind = packed.kind
        /\ \A i \in Cells(size) : /\ Value(packed', i) = Value(packed, Place(i))
                                 /\ Place(i) \in Cells(packed.length)
    BY <1>1, <1>6, <2>1, <2>2, SplitParts
  <2>4. packed.length \in Nat
    BY <1>1 DEF Whole
  <2>5. PackedInv' /\ ColumnValues' = Contents(packed')
    BY <1>3, <2>1, <2>3
  <2> HIDE DEF n, size, Place
  <2>6. ColumnValues' = [i \in Cells(size) |-> ColumnValues[Place(i)]]
    <3>1. \A i \in Cells(size) : ColumnValues[Place(i)] = Value(packed, Place(i))
      BY <1>2, <2>3 DEF Contents
    <3> QED
      BY <2>3, <2>5, <3>1 DEF Contents
  <2>7. Abstract!Size = packed.length
    BY <1>2, <2>4, VectorCount DEF Abstract!Size, Abstract!Cardinality, Cardinality
  <2>8. Abstract!Split
    <3> DEFINE mid == Abstract!Size \div 2
    <3>1. mid = n
      BY <2>7 DEF n
    <3>2. CASE part = 1
      <4>1. ColumnValues' = [i \in 0 .. mid - 1 |-> ColumnValues[i]]
        BY <2>6, <3>1, <3>2 DEF Cells, size, Place
      <4> QED
        BY <4>1, <2>1, <2>3 DEF Abstract!Split
    <3>3. CASE part = 2
      <4>1. ColumnValues' = [i \in 0 .. Abstract!Size - mid - 1 |-> ColumnValues[mid + i]]
        BY <2>6, <2>7, <3>1, <3>3 DEF Cells, size, Place
      <4> QED
        BY <4>1, <2>1, <2>3 DEF Abstract!Split
    <3> QED
      BY <3>2, <3>3
  <2> QED
    BY <1>0, <2>5, <2>8 DEF Abstract!Next
<1>8. ASSUME Split, ~PartsAtHalf(packed)
      PROVE  PackedInv' /\ Abstract!Next
  <2>1. packed.kind # "coords" /\ torn' = TRUE
    BY <1>8 DEF Split
  <2>2. packed.length % (2 * WidthOf(packed.kind)) # 0
    BY <1>1, <1>8, <2>1, WholePairsPart
  <2>3. Abstract!Size = packed.length
    BY <1>1, <1>2, VectorCount DEF Abstract!Size, Abstract!Cardinality, Cardinality, Whole
  <2>4. ColumnValues' = <<>>
    BY <2>1 DEF ColumnValues
  <2>5. PICK part \in 1 .. 2 : packed' = SplitColumn(packed)[part]
    BY <1>8 DEF Split
  <2>6. packed'.kind = packed.kind
    <3> DEFINE left == [k \in Cells(Cardinality(DOMAIN packed.data) \div 2) |-> packed.data[k]]
               right == [k \in Cells(Cardinality(DOMAIN packed.data) - Cardinality(DOMAIN packed.data) \div 2)
                           |-> packed.data[Cardinality(DOMAIN packed.data) \div 2 + k]]
    <3>1. SplitColumn(packed) = <<[kind |-> packed.kind, length |-> packed.length \div 2, data |-> left],
                                  [kind |-> packed.kind, length |-> packed.length - packed.length \div 2, data |-> right]>>
      BY DEF SplitColumn
    <3> HIDE DEF left, right
    <3> QED
      BY <2>5, <3>1
  <2>7. Abstract!Tear
    BY <2>1, <2>2, <2>3, <2>4, <2>6 DEF Abstract!Tear
  <2>8. PackedInv'
    BY <2>1 DEF PackedInv
  <2> QED
    BY <1>0, <2>7, <2>8 DEF Abstract!Next
<1>7. ASSUME Cast
      PROVE  PackedInv' /\ (Abstract!Next \/ UNCHANGED <<ColumnValues, Field(packed), torn>>)
  <2>0. UNCHANGED torn
    BY <1>7 DEF Cast
  <2>1. CASE packed.kind = "base" /\ Cardinality(DOMAIN packed.data) % VeryPacked = 0 /\ packed' = IntoVeryPacked(packed)
    <3>1. m % 2 = 0
      BY <1>1, <2>1, FlatColumn DEF VeryPacked
    <3> DEFINE half == m \div 2
    <3>2. half \in Nat
      BY <1>1 DEF Whole
    <3>3. Whole(packed', half) /\ Contents(packed') = Contents(packed)
      BY <1>1, <2>1, <3>1, IntoVeryPackedKeeps
    <3>6. Tight(packed', half)
      <4>1. m * Lanes < packed.length + Lanes
        BY <1>1, <2>1 DEF Tight, WidthOf
      <4>2. half * (2 * Lanes) = m * Lanes
        <5>1. m = 2 * half /\ Lanes \in Nat
          BY <3>1, Widths
        <5> HIDE DEF half
        <5> QED
          BY <5>1, <3>2
      <4>3. packed'.kind = "very" /\ packed'.length = packed.length
        BY <2>1 DEF IntoVeryPacked
      <4> HIDE DEF half
      <4> QED
        BY <4>1, <4>2, <4>3 DEF Tight, WidthOf, VeryPacked
    <3> HIDE DEF half
    <3>4. PackedInv' /\ ColumnValues' = ColumnValues
      BY <1>2, <1>3, <2>0, <3>2, <3>3, <3>6
    <3>5. Field(packed)' = Field(packed)
      BY <2>1 DEF Field, IsSecure, IntoVeryPacked
    <3> QED
      BY <2>0, <3>4, <3>5
  <2>2. CASE packed.kind = "very" /\ packed' = FromVeryPacked(packed)
    <3> DEFINE twice == 2 * m
    <3>1. twice \in Nat
      OBVIOUS
    <3>2. Whole(packed', twice) /\ Contents(packed') = Contents(packed)
      BY <1>1, <2>2, FromVeryPackedKeeps
    <3>5. Tight(packed', twice)
      <4>1. m * (2 * Lanes) < packed.length + Lanes
        BY <1>1, <2>2 DEF Tight, WidthOf, VeryPacked
      <4>2. twice * Lanes = m * (2 * Lanes)
        BY Widths
      <4>3. packed'.kind = "base" /\ packed'.length = packed.length
        BY <2>2 DEF FromVeryPacked
      <4> HIDE DEF twice
      <4> QED
        BY <4>1, <4>2, <4>3 DEF Tight, WidthOf
    <3> HIDE DEF twice
    <3>3. PackedInv' /\ ColumnValues' = ColumnValues
      BY <1>2, <1>3, <2>0, <3>1, <3>2, <3>5
    <3>4. Field(packed)' = Field(packed)
      BY <2>2 DEF Field, IsSecure, FromVeryPacked
    <3> QED
      BY <2>0, <3>3, <3>4
  <2>3. CASE packed.kind = "base" /\ packed' = IntoSecureColumn(packed)
    <3>1. /\ Whole(packed', m)
          /\ Contents(packed') = [i \in DOMAIN Contents(packed) |-> FromM31(Contents(packed)[i])]
      BY <1>1, <2>3, IntoSecureEmbeds
    <3>3. packed'.kind = "secure" /\ packed'.length = packed.length
      BY <2>3 DEF IntoSecureColumn
    <3>5. Tight(packed', m)
      BY <1>1, <2>3, <3>3 DEF Tight, WidthOf
    <3>2. PackedInv' /\ ColumnValues' = [i \in DOMAIN ColumnValues |-> FromM31(ColumnValues[i])]
      BY <1>2, <1>3, <2>0, <3>1, <3>5
    <3>4. Abstract!IntoSecure
      BY <2>0, <2>3, <3>2, <3>3 DEF Abstract!IntoSecure, IsSecure
    <3> QED
      BY <1>0, <3>2, <3>4 DEF Abstract!Next
  <2>4. CASE packed.kind = "secure" /\ packed' = IntoCoords(packed)
    <3>1. /\ \E n \in Nat : Whole(packed', n)
          /\ Contents(packed') = Contents(packed)
      BY <1>1, <2>4, IntoCoordsKeeps
    <3>4. \A n : Tight(packed', n)
      BY <2>4 DEF Tight, IntoCoords
    <3>2. PackedInv' /\ ColumnValues' = ColumnValues
      BY <1>2, <1>3, <2>0, <3>1, <3>4
    <3>3. Field(packed)' = Field(packed)
      BY <2>4 DEF Field, IsSecure, IntoCoords
    <3> QED
      BY <2>0, <3>2, <3>3
  <2> QED
    BY <1>7, <2>1, <2>2, <2>3, <2>4 DEF Cast
<1> QED
  BY <1>4, <1>5, <1>6, <1>7, <1>8 DEF PackedNext

(* Until a split tears it, a packed column has the vectors its length asks for and no more, each word in
   0 .. P, whatever is cast, split or written: so every read is in bounds, and reduces to one field
   element, and where split_at_mid parts the column depends on its length alone. *)
THEOREM PackedColumnInvariant == PackedSpec => []PackedInv
<1>1. PackedInit => PackedInv
  BY InitIsWhole
<1>2. PackedInv /\ [PackedNext]_packed_vars => PackedInv'
  <2> SUFFICES ASSUME PackedInv, [PackedNext]_packed_vars PROVE PackedInv'
    OBVIOUS
  <2>1. CASE PackedNext
    BY <2>1, PackedStep
  <2>2. CASE UNCHANGED packed_vars
    BY <2>2 DEF packed_vars, PackedInv
  <2> QED
    BY <2>1, <2>2
<1> QED
  BY <1>1, <1>2, PTL DEF PackedSpec

(* A packed column is a vector of field elements, whatever its memory: PackedColumns implements
   FieldColumn, for every number of lanes, every length and every order of its operations, splits of
   any column included: a split that does not give the two halves is one of a column that is not an
   even number of whole vectors. *)
THEOREM PackedRefinement == PackedSpec => PackedColumnsAreColumns
<1>1. PackedInit => Abstract!Init
  <2> SUFFICES ASSUME PackedInit PROVE Abstract!Init
    OBVIOUS
  <2>1. PackedInv /\ ~torn /\ packed.kind = "base" /\ packed.length \in ColumnLengths
    BY InitIsWhole
  <2>2. PICK m \in Nat : Whole(packed, m)
    BY <2>1 DEF PackedInv
  <2>3. DOMAIN ColumnValues = 0 .. packed.length - 1
    BY <2>1, <2>2, ValuesAreContents DEF ColumnValues, Contents, Cells
  <2>4. LongestColumn \in ColumnLengths /\ \A n \in ColumnLengths : n <= LongestColumn
    BY LengthsAssumption DEF LongestColumn
  <2>5. packed.length \in 0 .. LongestColumn
    <3>1. packed.length \in Nat /\ LongestColumn \in Nat
      BY <2>1, <2>4, LengthsAssumption
    <3> QED
      BY <2>1, <2>4, <3>1
  <2>6. torn = FALSE
    BY DEF PackedInit
  <2> QED
    BY <2>1, <2>3, <2>5, <2>6 DEF Abstract!Init, IsSecure
<1>2. PackedInv /\ [PackedNext]_packed_vars => [Abstract!Next]_<<ColumnValues, Field(packed), torn>>
  <2> SUFFICES ASSUME PackedInv, [PackedNext]_packed_vars
               PROVE  [Abstract!Next]_<<ColumnValues, Field(packed), torn>>
    OBVIOUS
  <2>1. CASE PackedNext
    BY <2>1, PackedStep
  <2>2. CASE UNCHANGED packed_vars
    BY <2>2 DEF packed_vars, ColumnValues, Field
  <2> QED
    BY <2>1, <2>2
<1> QED
  BY <1>1, <1>2, PackedColumnInvariant, PTL DEF PackedSpec, PackedColumnsAreColumns, Abstract!Spec, Field
=============================================================================
