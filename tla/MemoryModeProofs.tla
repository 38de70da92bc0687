-------------------------- MODULE MemoryModeProofs --------------------------
(* Proofs that the low-memory modes of an opening (CommitmentOpening) give   *)
(* the proof of the full trees and the kept layers, for any settings whose   *)
(* trees are as high as the queries' domain (Aligned).                       *)
(*                                                                           *)
(* A checkpointed tree keeps a few layers.  Its nodes between two of them    *)
(* are hashed again from the layer below, and a node is the node of the full *)
(* tree when the kept layer holds, and the source gives, every hash under it *)
(* (NodesAgree, CheckpointedOpening, SourcedOpening).  The leaves computed   *)
(* again for some blocks are those built at the commitment: build_leaves,    *)
(* layer by layer over the columns by size, is unrolled to the row of lifted *)
(* cells that compute_leaf_hashes absorbs (RowIs, LeavesGiven).              *)
(*                                                                           *)
(* A layer folded a second time is the layer that was committed to, because  *)
(* the halvings the prover recorded are those of the layer's line and of the *)
(* powers of its challenge (FoldInv), whose domains halve and double in      *)
(* step (LayerFolded, LayerValuesAgree).                                     *)
EXTENDS OpeningProofs

------------------------------------------------------------------------------
(* Division, powers of two and shifts *)

(* Quotient and remainder, which \div and % are.                             *)
LEMMA Division ==
  ASSUME NEW a \in Nat, NEW b \in Nat \ {0}
  PROVE  a = b * (a \div b) + (a % b) /\ a % b \in 0 .. b - 1 /\ a \div b \in Nat
BY ONLY a \in Nat, b \in Nat \ {0}

(* Only the quotient and the remainder divide so.                            *)
LEMMA DivisionIs ==
  ASSUME NEW a \in Nat, NEW b \in Nat \ {0}, NEW q \in Nat, NEW r \in 0 .. b - 1, a = b * q + r
  PROVE  a \div b = q /\ a % b = r
<1> DEFINE d == a \div b
           m == a % b
<1>1. a = b * d + m /\ m \in 0 .. b - 1 /\ d \in Nat
  BY Division
<1> HIDE DEF d, m
<1>2. \A x, y \in Nat : x >= y + 1 => b * x >= b * y + b
  BY ONLY b \in Nat \ {0}
<1>3. ~(q >= d + 1)
  <2> SUFFICES ASSUME q >= d + 1 PROVE FALSE
    OBVIOUS
  <2>1. b * q >= b * d + b
    BY ONLY <1>1, <1>2, q \in Nat, q >= d + 1
  <2>2. b * q \in Int /\ b * d \in Int
    BY ONLY <1>1, q \in Nat, b \in Nat \ {0}
  <2> QED BY ONLY <2>1, <2>2, <1>1, r \in 0 .. b - 1, a = b * q + r, b \in Nat \ {0}
<1>4. ~(d >= q + 1)
  <2> SUFFICES ASSUME d >= q + 1 PROVE FALSE
    OBVIOUS
  <2>1. b * d >= b * q + b
    BY ONLY <1>1, <1>2, q \in Nat, d >= q + 1
  <2>2. b * q \in Int /\ b * d \in Int
    BY ONLY <1>1, q \in Nat, b \in Nat \ {0}
  <2> QED BY ONLY <2>1, <2>2, <1>1, r \in 0 .. b - 1, a = b * q + r, b \in Nat \ {0}
<1>5. d = q
  BY ONLY <1>1, <1>3, <1>4, q \in Nat
<1>6. b * d \in Int
  BY ONLY <1>1, b \in Nat \ {0}
<1> QED
  BY <1>1, <1>5, <1>6 DEF d, m

(* A set has twice as many subsets with a member more.                       *)
LEMMA PowerDoubles ==
  ASSUME NEW n \in Nat
  PROVE  2 ^ (n + 1) = 2 * 2 ^ n /\ 2 ^ n \in Nat /\ 2 ^ n >= 1
<1> DEFINE S == 1 .. n
           A == SUBSET S
           B == {T \cup {n + 1} : T \in A}
<1>1. IsFiniteSet(S) /\ Cardinality(S) = n
  BY FS_Interval
<1>2. IsFiniteSet(A) /\ Cardinality(A) = 2 ^ n
  <2> HIDE DEF S
  <2> QED BY <1>1, FS_SUBSET
<1>3. IsFiniteSet(B) /\ Cardinality(B) = Cardinality(A)
  <2> DEFINE f == [T \in A |-> T \cup {n + 1}]
  <2>1. \A T \in A : n + 1 \notin T
    OBVIOUS
  <2>2. f \in Bijection(A, B)
    <3>1. \A T, U \in A : f[T] = f[U] => T = U
      <4> SUFFICES ASSUME NEW T \in A, NEW U \in A, T \cup {n + 1} = U \cup {n + 1} PROVE T = U
        OBVIOUS
      <4> QED BY <2>1
    <3>2. f \in [A -> B] /\ \A b \in B : \E a \in A : f[a] = b
      OBVIOUS
    <3> HIDE DEF f, A, B
    <3> QED BY <3>1, <3>2, Zenon DEF Bijection, Injection, Surjection, IsInjective
  <2> HIDE DEF f, A, B
  <2> QED BY <1>2, <2>2, FS_Bijection DEF ExistsBijection
<1>4. A \cap B = {} /\ SUBSET (1 .. n + 1) = A \cup B
  <2>1. A \cap B = {}
    BY n + 1 \notin S
  <2>2. ASSUME NEW T \in SUBSET (1 .. n + 1) PROVE T \in A \cup B
    <3>1. CASE n + 1 \in T
      <4>1. T = (T \ {n + 1}) \cup {n + 1} /\ T \ {n + 1} \in A
        BY <3>1
      <4> QED BY <4>1
    <3>2. CASE n + 1 \notin T
      <4>1. T \in A
        BY <3>2
      <4> QED BY <4>1
    <3> QED BY <3>1, <3>2
  <2>3. S \subseteq 1 .. n + 1 /\ {n + 1} \subseteq 1 .. n + 1
    OBVIOUS
  <2>4. \A T \in A : T \subseteq 1 .. n + 1 /\ T \cup {n + 1} \subseteq 1 .. n + 1
    <3> HIDE DEF S
    <3> QED BY <2>3
  <2>5. A \cup B \subseteq SUBSET (1 .. n + 1)
    <3> HIDE DEF A
    <3> QED BY <2>4, Zenon
  <2> QED BY <2>1, <2>2, <2>5
<1>5. IsFiniteSet(1 .. n + 1) /\ Cardinality(1 .. n + 1) = n + 1
  BY FS_Interval
<1>6. Cardinality(SUBSET (1 .. n + 1)) = 2 ^ (n + 1)
  BY <1>5, FS_SUBSET
<1>7. Cardinality({}) = 0
  BY FS_EmptySet
<1>8. 2 ^ n \in Nat
  BY PowerOfTwo
<1>9. 2 ^ n # 0
  <2>1. {} \in A
    OBVIOUS
  <2> HIDE DEF A
  <2> QED BY <1>2, <2>1, FS_EmptySet
<1> HIDE DEF A, B, S
<1>10. Cardinality(A \cup B) = Cardinality(A) + Cardinality(B) - Cardinality(A \cap B)
  BY <1>2, <1>3, FS_Union
<1>11. 2 ^ (n + 1) = 2 ^ n + 2 ^ n - 0
  BY ONLY <1>2, <1>3, <1>4, <1>6, <1>7, <1>10
<1> QED BY ONLY <1>8, <1>9, <1>11

(* Exponents add.                                                            *)
LEMMA PowerSum ==
  ASSUME NEW a \in Nat, NEW b \in Nat
  PROVE  2 ^ (a + b) = 2 ^ a * 2 ^ b
<1> DEFINE N == {k \in Nat : 2 ^ (a + k) = 2 ^ a * 2 ^ k}
<1>0. 2 ^ a \in Nat
  BY PowerDoubles
<1>1. 0 \in N
  <2>1. 2 ^ 0 = 1 /\ a + 0 = a
    OBVIOUS
  <2> QED BY <1>0, <2>1
<1>2. ASSUME NEW k \in Nat, k \in N PROVE k + 1 \in N
  <2> DEFINE x == 2 ^ a
             y == 2 ^ k
  <2>1. 2 ^ (a + k) = x * y
    BY <1>2
  <2>2. a + (k + 1) = (a + k) + 1 /\ a + k \in Nat
    OBVIOUS
  <2>3. 2 ^ (a + (k + 1)) = 2 * 2 ^ (a + k)
    BY <2>2, PowerDoubles
  <2>4. 2 ^ (k + 1) = 2 * y /\ y \in Nat /\ x \in Nat
    BY PowerDoubles
  <2> HIDE DEF x, y
  <2>5. 2 * (x * y) = x * (2 * y)
    BY ONLY <2>4
  <2>6. 2 ^ (a + (k + 1)) = 2 ^ a * 2 ^ (k + 1)
    BY ONLY <2>1, <2>3, <2>4, <2>5 DEF x
  <2> QED BY <2>6
<1> HIDE DEF N
<1>3. b \in N
  BY <1>1, <1>2, Counting
<1> QED BY <1>3 DEF N

(* Dividing twice.                                                           *)
LEMMA DivideTwice ==
  ASSUME NEW x \in Nat, NEW m \in Nat \ {0}, NEW n \in Nat \ {0}
  PROVE  (x \div m) \div n = x \div (m * n)
<1> DEFINE d == x \div m
           q == d \div n
           s == d % n
           r == x % m
<1>1. x = m * d + r /\ r \in 0 .. m - 1 /\ d \in Nat
  BY Division
<1>2. d = n * q + s /\ s \in 0 .. n - 1 /\ q \in Nat
  BY <1>1, Division
<1> HIDE DEF d, q, s, r
<1>3. m * n \in Nat \ {0} /\ m * s \in Nat /\ m * s <= m * (n - 1) /\ m * (n - 1) = m * n - m
  BY ONLY <1>2, m \in Nat \ {0}, n \in Nat \ {0}
<1>4. m * s + r \in 0 .. m * n - 1
  BY ONLY <1>1, <1>3, m \in Nat \ {0}
<1>5. m * d = (m * n) * q + m * s
  BY ONLY <1>2, m \in Nat \ {0}, n \in Nat \ {0}
<1>6. x = (m * n) * q + (m * s + r)
  <2>1. m * d \in Nat /\ (m * n) * q \in Nat /\ m * s \in Nat /\ r \in Nat
    BY ONLY <1>1, <1>2, <1>3, m \in Nat \ {0}
  <2> QED BY ONLY <1>1, <1>5, <2>1
<1>7. x \div (m * n) = q
  BY <1>2, <1>3, <1>4, <1>6, DivisionIs
<1> QED BY <1>7 DEF d, q

(* Shifting twice.                                                           *)
LEMMA ShiftTwice ==
  ASSUME NEW x \in Nat, NEW a \in Nat, NEW b \in Nat
  PROVE  (x \div 2 ^ a) \div 2 ^ b = x \div 2 ^ (a + b)
<1>1. 2 ^ a \in Nat \ {0} /\ 2 ^ b \in Nat \ {0}
  BY PowerDoubles
<1>2. (x \div 2 ^ a) \div 2 ^ b = x \div (2 ^ a * 2 ^ b)
  BY <1>1, DivideTwice
<1> QED BY ONLY <1>2, PowerSum, a \in Nat, b \in Nat

(* Half of what a shift leaves.                                              *)
LEMMA ShiftAndHalve ==
  ASSUME NEW x \in Nat, NEW a \in Nat
  PROVE  (x \div 2 ^ a) \div 2 = x \div 2 ^ (a + 1)
<1>1. \A b \in Nat : (x \div 2 ^ a) \div 2 ^ b = x \div 2 ^ (a + b)
  BY ShiftTwice
<1> DEFINE one == 1
<1>2. one \in Nat /\ 2 ^ one = 2 /\ a + one = a + 1
  OBVIOUS
<1> HIDE DEF one
<1>3. (x \div 2 ^ a) \div 2 ^ one = x \div 2 ^ (a + one)
  BY ONLY <1>1, <1>2
<1> QED BY ONLY <1>2, <1>3

(* A shift of what is within some bits is within the bits that are left.     *)
LEMMA ShiftInRange ==
  ASSUME NEW a \in Nat, NEW b \in Nat, NEW x \in 0 .. 2 ^ (a + b) - 1
  PROVE  x \div 2 ^ a \in 0 .. 2 ^ b - 1
<1> DEFINE m == 2 ^ a
           n == 2 ^ b
           q == x \div m
<1>1. m \in Nat \ {0} /\ n \in Nat \ {0} /\ 2 ^ (a + b) = m * n /\ 2 ^ (a + b) \in Nat
  <2>1. a + b \in Nat
    OBVIOUS
  <2>2. 2 ^ (a + b) = m * n
    BY PowerSum
  <2>3. 2 ^ (a + b) \in Nat /\ m \in Nat \ {0} /\ n \in Nat \ {0}
    BY <2>1, PowerDoubles
  <2> QED BY <2>2, <2>3
<1>2. x \in Nat
  BY ONLY <1>1, x \in 0 .. 2 ^ (a + b) - 1
<1>3. x = m * q + (x % m) /\ x % m \in 0 .. m - 1 /\ q \in Nat
  BY <1>1, <1>2, Division
<1>4. x < m * n
  BY ONLY <1>1, x \in 0 .. 2 ^ (a + b) - 1
<1> HIDE DEF m, n, q
<1>5. q < n
  <2> SUFFICES ASSUME q >= n PROVE FALSE
    BY ONLY <1>1, <1>3
  <2>1. m * q >= m * n
    BY ONLY <1>1, <1>3, q >= n
  <2>2. m * q \in Nat /\ m * n \in Nat
    BY ONLY <1>1, <1>3
  <2> QED BY ONLY <1>1, <1>2, <1>3, <1>4, <2>1, <2>2
<1> QED BY <1>1, <1>3, <1>5 DEF m, n, q

------------------------------------------------------------------------------
(* Sets of numbers in increasing order *)

(* Sorted, entry by entry.                                                   *)
LEMMA SortedRecursion ==
  ASSUME NEW S, NEW top \in Nat
  PROVE  \E below : /\ Sorted(S, top) = below[top]
                    /\ \A n \in 0 .. top :
                         below[n] = IF n = 0 THEN <<>>
                                    ELSE IF n - 1 \in S THEN Append(below[n - 1], n - 1)
                                    ELSE below[n - 1]
<1> DEFINE Longer(x, n) == IF n - 1 \in S THEN Append(x, n - 1) ELSE x
           Fills(f, k) == f = [n \in 0 .. k |-> IF n = 0 THEN <<>> ELSE Longer(f[n - 1], n)]
           Found == {k \in Nat : \E f : Fills(f, k)}
<1>1. 0 \in Found
  <2>1. Fills([n \in 0 .. 0 |-> <<>>], 0)
    OBVIOUS
  <2> QED BY <2>1
<1>2. ASSUME NEW k \in Nat, k \in Found PROVE k + 1 \in Found
  <2>1. PICK f : Fills(f, k)
    BY <1>2
  <2> HIDE DEF Longer
  <2> DEFINE g == [n \in 0 .. k + 1 |-> IF n = k + 1 THEN Longer(f[k], k + 1) ELSE f[n]]
  <2>2. \A n \in 0 .. k : g[n] = f[n] /\ n # k + 1
    OBVIOUS
  <2>3. \A n \in 0 .. k : f[n] = IF n = 0 THEN <<>> ELSE Longer(f[n - 1], n)
    BY <2>1
  <2>4. ASSUME NEW n \in 0 .. k + 1
        PROVE  g[n] = IF n = 0 THEN <<>> ELSE Longer(g[n - 1], n)
    <3>1. CASE n = k + 1
      <4>1. n # 0 /\ n - 1 = k /\ k \in 0 .. k
        BY <3>1
      <4>2. g[n] = Longer(f[k], k + 1)
        BY <3>1
      <4> QED BY <2>2, <3>1, <4>1, <4>2
    <3>2. CASE n # k + 1
      <4>1. n \in 0 .. k /\ (n # 0 => n - 1 \in 0 .. k)
        BY <3>2
      <4> QED BY <2>2, <2>3, <4>1
    <3> QED BY <3>1, <3>2
  <2>5. g = [n \in 0 .. k + 1 |-> g[n]]
    OBVIOUS
  <2> HIDE DEF g
  <2>6. Fills(g, k + 1)
    BY <2>4, <2>5
  <2> QED BY <2>6
<1> HIDE DEF Found
<1>3. top \in Found
  BY <1>1, <1>2, Counting
<1>4. \E f : Fills(f, top)
  BY <1>3 DEF Found
<1> DEFINE Below == CHOOSE f : Fills(f, top)
<1>5. Fills(Below, top)
  <2> HIDE DEF Fills
  <2> QED BY <1>4, Zenon
<1>6. Below = [n \in 0 .. top |->
                  IF n = 0 THEN <<>>
                  ELSE IF n - 1 \in S THEN Append(Below[n - 1], n - 1) ELSE Below[n - 1]]
  <2> HIDE DEF Below
  <2> QED BY <1>5
<1>7. Sorted(S, top) = Below[top]
  BY Zenon DEF Sorted
<1> HIDE DEF Below
<1>8. \A n \in 0 .. top : Below[n] = IF n = 0 THEN <<>>
                  ELSE IF n - 1 \in S THEN Append(Below[n - 1], n - 1) ELSE Below[n - 1]
  BY <1>6
<1> QED BY <1>7, <1>8

(* A sequence of numbers that increase.                                      *)
Increasing(s) == \A i, j \in DOMAIN s : i < j => s[i] < s[j]

(* The members of a set below a bound, in order, each once.                  *)
LEMMA SortedMembers ==
  ASSUME NEW S, NEW top \in Nat
  PROVE  /\ Sorted(S, top) \in Seq(S \cap 0 .. top - 1)
         /\ Len(Sorted(S, top)) = Cardinality(S \cap 0 .. top - 1)
         /\ Increasing(Sorted(S, top))
         /\ \A x \in S \cap 0 .. top - 1 : \E k \in DOMAIN Sorted(S, top) : Sorted(S, top)[k] = x
<1>1. PICK below : /\ Sorted(S, top) = below[top]
                   /\ \A n \in 0 .. top :
                        below[n] = IF n = 0 THEN <<>>
                                   ELSE IF n - 1 \in S THEN Append(below[n - 1], n - 1)
                                   ELSE below[n - 1]
  BY SortedRecursion
<1> DEFINE Under(n) == S \cap 0 .. n - 1
           Holds(s, n) == /\ s \in Seq(Under(n))
                          /\ Len(s) = Cardinality(Under(n))
                          /\ \A i, j \in DOMAIN s : i < j => s[i] < s[j]
                          /\ \A x \in Under(n) : \E k \in DOMAIN s : s[k] = x
           N == {n \in Nat : n <= top => Holds(below[n], n)}
<1>2. 0 \in N
  <2>1. below[0] = <<>>
    BY <1>1
  <2>2. Under(0) = {}
    OBVIOUS
  <2>3. Cardinality({}) = 0
    BY FS_EmptySet
  <2>4. <<>> \in Seq({}) /\ Len(<<>>) = 0 /\ DOMAIN <<>> = {}
    OBVIOUS
  <2>5. Holds(<<>>, 0)
    <3> HIDE DEF Under
    <3> QED BY ONLY <2>2, <2>3, <2>4
  <2> QED BY <2>1, <2>5
<1>3. ASSUME NEW n \in Nat, n \in N PROVE n + 1 \in N
  <2> SUFFICES ASSUME n + 1 <= top PROVE Holds(below[n + 1], n + 1)
    OBVIOUS
  <2> DEFINE s == below[n]
  <2>1. Holds(s, n)
    BY <1>3
  <2>2. below[n + 1] = IF n \in S THEN Append(s, n) ELSE s
    <3>1. n + 1 \in 0 .. top /\ n + 1 # 0 /\ (n + 1) - 1 = n
      OBVIOUS
    <3> QED BY ONLY <1>1, <3>1
  <2> HIDE DEF s
  <2>3. Under(n) \subseteq 0 .. n - 1 /\ IsFiniteSet(0 .. n - 1)
    BY FS_Interval
  <2>4. IsFiniteSet(Under(n))
    <3> HIDE DEF Under
    <3> QED BY <2>3, FS_Subset
  <2>5. CASE n \notin S
    <3>1. Under(n + 1) = Under(n)
      BY <2>5
    <3> HIDE DEF Under
    <3>2. below[n + 1] = s
      BY ONLY <2>2, <2>5
    <3> QED BY ONLY <2>1, <3>1, <3>2
  <2>6. CASE n \in S
    <3>1. Under(n + 1) = Under(n) \cup {n} /\ n \notin Under(n)
      BY <2>6
    <3>2. Cardinality(Under(n + 1)) = Cardinality(Under(n)) + 1
      <4> HIDE DEF Under
      <4> QED BY ONLY <2>4, <3>1, FS_AddElement
    <3> DEFINE t == Append(s, n)
    <3>3. below[n + 1] = t
      BY ONLY <2>2, <2>6
    <3>4. s \in Seq(Under(n)) /\ Len(s) \in Nat /\ DOMAIN s = 1 .. Len(s)
      BY <2>1
    <3>5. t \in Seq(Under(n + 1)) /\ Len(t) = Len(s) + 1
      <4>1. s \in Seq(Under(n + 1)) /\ n \in Under(n + 1)
        <5> HIDE DEF Under
        <5> QED BY ONLY <3>1, <3>4
      <4> HIDE DEF Under
      <4> QED BY ONLY <4>1
    <3>6. t[Len(s) + 1] = n /\ \A i \in 1 .. Len(s) : t[i] = s[i]
      <4> HIDE DEF Under
      <4> QED BY ONLY <3>4
    <3>7. DOMAIN t = 1 .. Len(s) + 1
      <4> HIDE DEF Under, t
      <4> QED BY ONLY <3>5
    <3>8. \A i \in 1 .. Len(s) : s[i] \in 0 .. n - 1
      <4>1. \A i \in 1 .. Len(s) : s[i] \in Under(n)
        <5> HIDE DEF Under
        <5> QED BY ONLY <3>4
      <4> QED BY ONLY <2>3, <4>1
    <3> HIDE DEF t
    <3>9. ASSUME NEW i \in DOMAIN t, NEW j \in DOMAIN t, i < j PROVE t[i] < t[j]
      <4>0. i \in 1 .. Len(s)
        BY ONLY <3>4, <3>7, <3>9
      <4>1. CASE j = Len(s) + 1
        BY ONLY <3>6, <3>8, <4>0, <4>1, n \in Nat
      <4>2. CASE j # Len(s) + 1
        <5>1. j \in 1 .. Len(s)
          BY ONLY <3>4, <3>7, <3>9, <4>2
        <5>2. s[i] < s[j]
          BY ONLY <2>1, <3>4, <3>9, <4>0, <5>1
        <5> QED BY ONLY <3>6, <4>0, <5>1, <5>2
      <4> QED BY <4>1, <4>2
    <3>10. ASSUME NEW x \in Under(n + 1) PROVE \E k \in DOMAIN t : t[k] = x
      <4>1. CASE x = n
        <5>1. Len(s) + 1 \in DOMAIN t
          BY ONLY <3>4, <3>7
        <5> QED BY ONLY <3>6, <4>1, <5>1
      <4>2. CASE x # n
        <5>1. x \in Under(n)
          <6> HIDE DEF Under
          <6> QED BY ONLY <3>1, <3>10, <4>2
        <5>2. PICK k \in DOMAIN s : s[k] = x
          BY ONLY <2>1, <5>1
        <5>3. k \in 1 .. Len(s) /\ k \in DOMAIN t
          BY ONLY <3>4, <3>7, <5>2
        <5> QED BY ONLY <3>6, <5>2, <5>3
      <4> QED BY <4>1, <4>2
    <3>11. Len(t) = Cardinality(Under(n + 1))
      BY ONLY <2>1, <3>2, <3>5
    <3> HIDE DEF Under
    <3> QED BY ONLY <3>3, <3>5, <3>9, <3>10, <3>11
  <2> QED BY <2>5, <2>6
<1> HIDE DEF N
<1>4. top \in N
  BY <1>2, <1>3, Counting
<1>5. Holds(below[top], top)
  BY <1>4 DEF N
<1> HIDE DEF Under
<1>6. /\ Sorted(S, top) \in Seq(Under(top))
      /\ Len(Sorted(S, top)) = Cardinality(Under(top))
      /\ \A i, j \in DOMAIN Sorted(S, top) : i < j => Sorted(S, top)[i] < Sorted(S, top)[j]
      /\ \A x \in Under(top) : \E k \in DOMAIN Sorted(S, top) : Sorted(S, top)[k] = x
  BY ONLY <1>1, <1>5
<1> QED BY ONLY <1>6 DEF Under, Increasing

(* A sequence over a set is one over a larger set.                           *)
LEMMA SeqLarger ==
  ASSUME NEW A, NEW B, A \subseteq B, NEW t \in Seq(A)
  PROVE  t \in Seq(B)
<1>1. Len(t) \in Nat /\ t = [i \in 1 .. Len(t) |-> t[i]] /\ \A i \in 1 .. Len(t) : t[i] \in A
  OBVIOUS
<1>2. t \in [1 .. Len(t) -> B]
  BY ONLY <1>1, A \subseteq B
<1> QED BY ONLY <1>1, <1>2

(* Two increasing sequences of the same members are the same.                *)
LEMMA SameIncreasing ==
  ASSUME NEW s \in Seq(Nat), NEW t \in Seq(Nat), Increasing(s), Increasing(t),
         \A i \in DOMAIN s : \E j \in DOMAIN t : s[i] = t[j],
         \A j \in DOMAIN t : \E i \in DOMAIN s : t[j] = s[i]
  PROVE  s = t
<1> DEFINE Same(k) == (k \in DOMAIN s <=> k \in DOMAIN t) /\ (k \in DOMAIN s => s[k] = t[k])
           N == {n \in Nat : \A k \in 1 .. n : Same(k)}
<1>0. /\ Len(s) \in Nat /\ DOMAIN s = 1 .. Len(s) /\ \A k \in DOMAIN s : s[k] \in Nat
      /\ Len(t) \in Nat /\ DOMAIN t = 1 .. Len(t) /\ \A k \in DOMAIN t : t[k] \in Nat
  OBVIOUS
<1>1. 0 \in N
  OBVIOUS
<1>2. ASSUME NEW n \in Nat, n \in N PROVE n + 1 \in N
  <2>1. \A k \in 1 .. n : Same(k)
    BY <1>2
  <2>2. ASSUME NEW a \in Seq(Nat), NEW b \in Seq(Nat), Increasing(a), Increasing(b),
               \A i \in DOMAIN a : \E j \in DOMAIN b : a[i] = b[j],
               \A k \in 1 .. n : k \in DOMAIN a <=> k \in DOMAIN b,
               \A k \in 1 .. n : k \in DOMAIN a => a[k] = b[k],
               n + 1 \in DOMAIN a
        PROVE  n + 1 \in DOMAIN b /\ b[n + 1] <= a[n + 1]
    <3>1. PICK j \in DOMAIN b : a[n + 1] = b[j]
      BY <2>2
    <3>2. /\ Len(a) \in Nat /\ DOMAIN a = 1 .. Len(a) /\ \A k \in DOMAIN a : a[k] \in Nat
          /\ Len(b) \in Nat /\ DOMAIN b = 1 .. Len(b) /\ \A k \in DOMAIN b : b[k] \in Nat
      OBVIOUS
    <3>6. j \in Nat /\ 1 <= j
      BY ONLY <3>2, j \in DOMAIN b
    <3>3. j >= n + 1
      <4> SUFFICES ASSUME j \in 1 .. n PROVE FALSE
        BY <3>6
      <4>1. j \in DOMAIN a /\ a[j] = b[j]
        BY <2>2, <3>1
      <4>2. a[j] < a[n + 1]
        BY ONLY <2>2, <4>1, j \in 1 .. n, n \in Nat DEF Increasing
      <4>3. a[j] \in Nat
        BY ONLY <3>2, <4>1
      <4> QED BY ONLY <3>1, <4>1, <4>2, <4>3
    <3>4. n + 1 \in DOMAIN b
      BY ONLY <3>1, <3>2, <3>3, n \in Nat
    <3>5. b[n + 1] <= b[j]
      <4>1. CASE j = n + 1
        BY ONLY <3>2, <3>4, <4>1
      <4>2. CASE j # n + 1
        <5>1. n + 1 < j
          BY ONLY <3>3, <3>6, <4>2, n \in Nat
        <5>2. b[n + 1] < b[j]
          BY ONLY <2>2, <3>1, <3>4, <5>1 DEF Increasing
        <5> QED BY ONLY <3>1, <3>2, <3>4, <5>2
      <4> QED BY <4>1, <4>2
    <3> QED BY ONLY <3>1, <3>4, <3>5
  <2>3. /\ \A k \in 1 .. n : k \in DOMAIN s <=> k \in DOMAIN t
        /\ \A k \in 1 .. n : k \in DOMAIN s => s[k] = t[k]
        /\ \A k \in 1 .. n : k \in DOMAIN t => t[k] = s[k]
    BY <2>1
  <2>4. n + 1 \in DOMAIN s => n + 1 \in DOMAIN t /\ t[n + 1] <= s[n + 1]
    BY <2>2, <2>3
  <2>5. n + 1 \in DOMAIN t => n + 1 \in DOMAIN s /\ s[n + 1] <= t[n + 1]
    BY <2>2, <2>3
  <2>6. Same(n + 1)
    BY ONLY <1>0, <2>4, <2>5
  <2>7. \A k \in 1 .. n + 1 : Same(k)
    <3> HIDE DEF Same
    <3>1. \A k \in 1 .. n + 1 : k \in 1 .. n \/ k = n + 1
      OBVIOUS
    <3> QED BY ONLY <2>1, <2>6, <3>1
  <2> QED BY <2>7
<1> HIDE DEF N
<1>3. \A n \in Nat : n \in N
  BY <1>1, <1>2, Counting
<1>4. \A n \in Nat \ {0} : Same(n)
  <2> SUFFICES ASSUME NEW n \in Nat \ {0} PROVE Same(n)
    OBVIOUS
  <2>1. n \in N /\ n \in 1 .. n
    BY <1>3
  <2> HIDE DEF Same
  <2> QED BY <2>1 DEF N
<1>5. Len(s) = Len(t)
  <2>1. ~(Len(s) < Len(t))
    <3> SUFFICES ASSUME Len(s) < Len(t) PROVE FALSE
      OBVIOUS
    <3>1. Len(t) \in Nat \ {0} /\ Len(t) \in DOMAIN t /\ Len(t) \notin DOMAIN s
      BY ONLY <1>0, Len(s) < Len(t)
    <3> QED BY ONLY <1>4, <3>1
  <2>2. ~(Len(t) < Len(s))
    <3> SUFFICES ASSUME Len(t) < Len(s) PROVE FALSE
      OBVIOUS
    <3>1. Len(s) \in Nat \ {0} /\ Len(s) \in DOMAIN s /\ Len(s) \notin DOMAIN t
      BY ONLY <1>0, Len(t) < Len(s)
    <3> QED BY ONLY <1>4, <3>1
  <2>3. Len(s) \in Nat /\ Len(t) \in Nat
    BY ONLY <1>0
  <2> QED BY ONLY <2>1, <2>2, <2>3
<1>6. \A k \in 1 .. Len(s) : s[k] = t[k]
  BY ONLY <1>0, <1>4
<1>7. s = [k \in 1 .. Len(s) |-> s[k]] /\ t = [k \in 1 .. Len(t) |-> t[k]]
  OBVIOUS
<1> QED BY ONLY <1>5, <1>6, <1>7

(* Sorting the members of an increasing sequence gives the sequence.         *)
LEMMA SortedAgain ==
  ASSUME NEW top \in Nat, NEW s \in Seq(0 .. top - 1), Increasing(s)
  PROVE  Sorted(Range(s), top) = s
<1> DEFINE t == Sorted(Range(s), top)
           M == Range(s) \cap 0 .. top - 1
<1>1. /\ t \in Seq(M) /\ Increasing(t)
      /\ \A x \in M : \E k \in DOMAIN t : t[k] = x
  BY SortedMembers
<1>2. \A i \in DOMAIN s : s[i] \in M
  BY DEF Range
<1>3. \A x \in M : \E i \in DOMAIN s : s[i] = x
  BY DEF Range
<1>4. M \subseteq Nat /\ s \in Seq(Nat)
  OBVIOUS
<1> HIDE DEF t, M
<1>5. t \in Seq(Nat) /\ \A j \in DOMAIN t : t[j] \in M
  <2>1. \A j \in DOMAIN t : t[j] \in M
    BY ONLY <1>1
  <2>2. t \in Seq(Nat)
    <3>1. t \in Seq(M) /\ M \subseteq Nat
      BY ONLY <1>1, <1>4
    <3> QED BY ONLY <3>1, SeqLarger
  <2> QED BY <2>1, <2>2
<1>6. \A i \in DOMAIN s : \E j \in DOMAIN t : s[i] = t[j]
  BY ONLY <1>1, <1>2
<1>7. \A j \in DOMAIN t : \E i \in DOMAIN s : t[j] = s[i]
  BY ONLY <1>3, <1>5
<1>8. s = t
  BY <1>1, <1>4, <1>5, <1>6, <1>7, SameIncreasing
<1> QED BY <1>8 DEF t

(* The chunks a sequence is cut into start with elements of the sequence.    *)
LEMMA CutFacts ==
  ASSUME NEW s, IsSeq(s), NEW cuts, cuts \subseteq DOMAIN s
  PROVE  /\ IsSeq(CutAt(s, cuts)) /\ Len(CutAt(s, cuts)) = Cardinality(cuts)
         /\ \A k \in DOMAIN CutAt(s, cuts) :
              \E i \in cuts : CutAt(s, cuts)[k][1] = s[i]
<1> DEFINE n == Len(s)
           starts == Sorted(cuts, n + 1)
           chunks == Cardinality(cuts)
           End(k) == IF k = chunks THEN n ELSE starts[k + 1] - 1
           c == CutAt(s, cuts)
<1>1. n \in Nat /\ DOMAIN s = 1 .. n /\ s \in Seq(Range(s))
  BY SeqFacts DEF IsSeq
<1>2. c = [k \in 1 .. chunks |-> SubSeq(s, starts[k], End(k))]
  BY Zenon DEF CutAt
<1>3. IsFiniteSet(cuts) /\ chunks \in Nat
  <2>1. IsFiniteSet(1 .. n)
    BY <1>1, FS_Interval
  <2> QED BY <1>1, <2>1, FS_Subset, FS_CardinalityType
<1>4. cuts \cap (0 .. (n + 1) - 1) = cuts
  BY <1>1
<1>5. starts \in Seq(cuts) /\ Len(starts) = chunks /\ Increasing(starts)
  <2> HIDE DEF n
  <2>1. n + 1 \in Nat
    BY <1>1
  <2> QED BY <1>4, <2>1, SortedMembers
<1>6. DOMAIN starts = 1 .. chunks /\ \A k \in 1 .. chunks : starts[k] \in cuts /\ starts[k] \in 1 .. n
  <2> HIDE DEF starts, chunks
  <2> QED BY <1>1, <1>5
<1> HIDE DEF n, starts, chunks, c
<1>7. ASSUME NEW k \in 1 .. chunks PROVE End(k) \in starts[k] .. n
  <2>1. CASE k = chunks
    BY ONLY <1>1, <1>6, <2>1
  <2>2. CASE k # chunks
    <3>1. k + 1 \in 1 .. chunks /\ k < k + 1
      BY ONLY <1>3, <2>2, k \in 1 .. chunks
    <3>2. starts[k] < starts[k + 1]
      BY ONLY <1>5, <1>6, <3>1, k \in 1 .. chunks DEF Increasing
    <3> QED BY ONLY <1>1, <1>6, <2>2, <3>1, <3>2, k \in 1 .. chunks
  <2> QED BY <2>1, <2>2
<1>8. IsSeq(c) /\ Len(c) = chunks
  BY <1>2, <1>3, SeqOfFunction
<1>9. ASSUME NEW k \in 1 .. chunks PROVE c[k][1] = s[starts[k]]
  <2>1. SubSeq(s, starts[k], End(k))[1] = s[starts[k]]
    <3> DEFINE a == starts[k]
               b == End(k)
               T == Range(s)
    <3>1. a \in 1 .. n /\ b \in a .. n
      BY <1>6, <1>7
    <3>2. s \in Seq(T) /\ Len(s) = n
      BY <1>1 DEF n
    <3> HIDE DEF a, b, T
    <3>3. SubSeq(s, a, b)[1] = s[a]
      BY ONLY <3>1, <3>2
    <3> QED BY <3>3 DEF a, b
  <2> HIDE DEF End
  <2> QED BY <1>2, <2>1
<1>10. DOMAIN c = 1 .. chunks
  BY <1>2
<1>11. \A k \in DOMAIN c : \E i \in cuts : c[k][1] = s[i]
  BY ONLY <1>6, <1>9, <1>10
<1> QED BY <1>8, <1>11 DEF c, chunks

(* What dedup leaves is part of the sequence.                                *)
LEMMA DedupFacts ==
  ASSUME NEW s, IsSeq(s)
  PROVE  /\ IsSeq(Dedup(s))
         /\ \A k \in DOMAIN Dedup(s) : \E i \in DOMAIN s : Dedup(s)[k] = s[i]
<1> DEFINE cuts == {i \in DOMAIN s : i = 1 \/ ~(s[i - 1] = s[i])}
           c == CutAt(s, cuts)
           d == Dedup(s)
<1>1. d = [k \in DOMAIN c |-> c[k][1]]
  BY Zenon DEF Dedup, Firsts, ChunkBy
<1>2. cuts \subseteq DOMAIN s
  OBVIOUS
<1> HIDE DEF cuts
<1>3. IsSeq(c) /\ \A k \in DOMAIN c : \E i \in cuts : c[k][1] = s[i]
  BY <1>2, CutFacts
<1> HIDE DEF c
<1>4. DOMAIN c = 1 .. Len(c) /\ Len(c) \in Nat
  BY <1>3, SeqFacts
<1> HIDE DEF d
<1>5. IsSeq(d)
  BY <1>1, <1>4, SeqOfFunction
<1>6. \A k \in DOMAIN d : \E i \in DOMAIN s : d[k] = s[i]
  BY ONLY <1>1, <1>2, <1>3
<1> QED BY <1>5, <1>6 DEF d

(* Nothing of an increasing sequence is repeated.                            *)
LEMMA DedupIncreasing ==
  ASSUME NEW s \in Seq(Nat), Increasing(s)
  PROVE  Dedup(s) = s
<1> DEFINE n == Len(s)
           cuts == {i \in DOMAIN s : i = 1 \/ ~(s[i - 1] = s[i])}
           ids == [i \in 1 .. n |-> i]
<1>1. n \in Nat /\ DOMAIN s = 1 .. n /\ s = [k \in 1 .. n |-> s[k]] /\ \A k \in 1 .. n : s[k] \in Nat
  OBVIOUS
<1>2. cuts = 1 .. n
  <2>1. ASSUME NEW i \in 1 .. n, i # 1 PROVE s[i - 1] # s[i]
    <3>1. i - 1 \in 1 .. n /\ i - 1 < i
      BY ONLY <1>1, <2>1
    <3>2. s[i - 1] < s[i]
      BY ONLY <1>1, <3>1, i \in 1 .. n, Increasing(s) DEF Increasing
    <3> QED BY ONLY <1>1, <3>1, <3>2
  <2> QED BY ONLY <1>1, <2>1
<1>3. Sorted(1 .. n, n + 1) = ids
  <2>1. ids \in Seq(0 .. (n + 1) - 1) /\ Range(ids) = 1 .. n /\ Increasing(ids)
    <3>0. n \in Nat
      BY <1>1
    <3> HIDE DEF n
    <3>1. ids \in [1 .. n -> 0 .. (n + 1) - 1]
      BY <3>0
    <3>2. Range(ids) = 1 .. n
      BY DEF Range
    <3>3. Increasing(ids)
      BY DEF Increasing
    <3> HIDE DEF ids
    <3> QED BY <3>0, <3>1, <3>2, <3>3
  <2>2. n + 1 \in Nat
    BY <1>1
  <2> HIDE DEF n, ids
  <2> QED BY <2>1, <2>2, SortedAgain
<1>4. Cardinality(1 .. n) = n
  <2>1. n \in Nat
    BY <1>1
  <2> HIDE DEF n
  <2>2. Cardinality(1 .. n) = IF 1 > n THEN 0 ELSE n - 1 + 1
    BY <2>1, FS_Interval
  <2> QED BY ONLY <2>1, <2>2
<1> DEFINE starts == Sorted(1 .. n, n + 1)
           End(k) == IF k = n THEN n ELSE starts[k + 1] - 1
           c == CutAt(s, 1 .. n)
<1>5. c = [k \in 1 .. n |-> SubSeq(s, starts[k], End(k))]
  <2> HIDE DEF starts
  <2>1. c = [k \in 1 .. Cardinality(1 .. n) |->
               SubSeq(s, Sorted(1 .. n, Len(s) + 1)[k],
                         IF k = Cardinality(1 .. n) THEN Len(s)
                         ELSE Sorted(1 .. n, Len(s) + 1)[k + 1] - 1)]
    BY Zenon DEF CutAt
  <2> QED BY <1>4, <2>1 DEF starts
<1>6. ASSUME NEW k \in 1 .. n PROVE c[k][1] = s[k]
  <2>0. k \in Nat /\ n \in Nat /\ k <= n
    BY <1>1
  <2>1. starts[k] = k
    BY ONLY <1>3, k \in 1 .. n
  <2>2. End(k) = IF k = n THEN n ELSE (k + 1) - 1
    <3>1. k # n => k + 1 \in 1 .. n
      BY ONLY <2>0, k \in 1 .. n
    <3>2. k # n => starts[k + 1] = k + 1
      BY ONLY <1>3, <3>1
    <3> HIDE DEF starts
    <3> QED BY ONLY <3>2
  <2>3. End(k) = k
    <3> HIDE DEF End
    <3> QED BY ONLY <2>0, <2>2
  <2> HIDE DEF starts, End
  <2>4. c[k] = SubSeq(s, k, k)
    BY ONLY <1>5, <2>1, <2>3, k \in 1 .. n
  <2>5. SubSeq(s, k, k)[1] = s[k]
    BY ONLY s \in Seq(Nat), <1>1, k \in 1 .. n
  <2> QED BY ONLY <2>4, <2>5
<1>7. Dedup(s) = [k \in DOMAIN CutAt(s, cuts) |-> CutAt(s, cuts)[k][1]]
  BY Zenon DEF Dedup, Firsts, ChunkBy
<1>8. DOMAIN c = 1 .. n
  BY <1>5
<1> HIDE DEF c, cuts, n
<1>9. Dedup(s) = [k \in 1 .. n |-> s[k]]
  <2>1. Dedup(s) = [k \in DOMAIN c |-> c[k][1]]
    BY ONLY <1>2, <1>7 DEF c
  <2> QED BY ONLY <1>6, <1>8, <2>1
<1> QED BY <1>1, <1>9

------------------------------------------------------------------------------
(* The queries of the layers, their missing siblings and the nodes of a tree *)

(* The pairs that the queries of a layer are cut into start with queries.    *)
LEMMA PairFacts ==
  ASSUME NEW s, IsSeq(s)
  PROVE  /\ IsSeq(SiblingPairs(s))
         /\ \A k \in DOMAIN SiblingPairs(s) : \E i \in DOMAIN s : SiblingPairs(s)[k][1] = s[i]
<1> DEFINE cuts == {i \in DOMAIN s : i = 1 \/ ~(Sibling(s[i - 1]) = s[i])}
<1>1. SiblingPairs(s) = CutAt(s, cuts)
  BY Zenon DEF SiblingPairs, ChunkBy
<1>2. cuts \subseteq DOMAIN s
  OBVIOUS
<1> HIDE DEF cuts
<1>3. /\ IsSeq(CutAt(s, cuts))
      /\ \A k \in DOMAIN CutAt(s, cuts) : \E i \in cuts : CutAt(s, cuts)[k][1] = s[i]
  BY <1>2, CutFacts
<1> QED BY ONLY <1>1, <1>2, <1>3

(* A filter keeps elements, in their order: those at the places asked for.   *)
LEMMA ElementsFacts ==
  ASSUME NEW s, IsSeq(s), NEW places, places \subseteq DOMAIN s
  PROVE  /\ IsSeq(ElementsAt(s, places))
         /\ \E order \in Seq(places) :
              ElementsAt(s, places) = [k \in DOMAIN order |-> s[order[k]]]
         /\ \A k \in DOMAIN ElementsAt(s, places) :
              \E i \in places : ElementsAt(s, places)[k] = s[i]
<1> DEFINE n == Len(s)
           order == Sorted(places, n + 1)
           e == ElementsAt(s, places)
<1>1. n \in Nat /\ DOMAIN s = 1 .. n
  BY SeqFacts
<1>2. e = [k \in DOMAIN order |-> s[order[k]]]
  BY Zenon DEF ElementsAt
<1> HIDE DEF n
<1>3. n + 1 \in Nat /\ places \cap (0 .. (n + 1) - 1) = places
  BY <1>1
<1>4. order \in Seq(places)
  BY <1>3, SortedMembers
<1> HIDE DEF order, e
<1>5. DOMAIN order = 1 .. Len(order) /\ Len(order) \in Nat /\ \A k \in DOMAIN order : order[k] \in places
  BY ONLY <1>4
<1>6. IsSeq(e)
  BY <1>2, <1>5, SeqOfFunction
<1>7. \A k \in DOMAIN e : \E i \in places : e[k] = s[i]
  BY ONLY <1>2, <1>5
<1>8. \E o \in Seq(places) : e = [k \in DOMAIN o |-> s[o[k]]]
  BY ONLY <1>2, <1>4
<1> QED BY <1>6, <1>7, <1>8 DEF e

(* A witness is the sibling of a query.                                      *)
LEMMA MissingFacts ==
  ASSUME NEW s, IsSeq(s)
  PROVE  \A k \in DOMAIN MissingSiblings(s) :
           \E i \in DOMAIN s : MissingSiblings(s)[k] = Sibling(s[i])
<1> DEFINE chunks == SiblingPairs(s)
           places == {k \in DOMAIN chunks : Len(chunks[k]) = 1}
           alone == ElementsAt(chunks, places)
<1>1. MissingSiblings(s) = [k \in DOMAIN alone |-> Sibling(alone[k][1])]
  BY Zenon DEF MissingSiblings
<1>2. IsSeq(chunks) /\ \A k \in DOMAIN chunks : \E i \in DOMAIN s : chunks[k][1] = s[i]
  BY PairFacts
<1>3. places \subseteq DOMAIN chunks
  OBVIOUS
<1> HIDE DEF chunks, places
<1>4. \A k \in DOMAIN alone : \E i \in places : alone[k] = chunks[i]
  BY <1>2, <1>3, ElementsFacts
<1> HIDE DEF alone
<1>5. \A k \in DOMAIN alone : \E i \in DOMAIN s : alone[k][1] = s[i]
  BY ONLY <1>2, <1>3, <1>4
<1> QED BY ONLY <1>1, <1>5

(* A query of a layer is above a query of the layer under it.                *)
EachBelow(Q, height) ==
  \A l \in 0 .. height : l < height =>
    \A k \in DOMAIN Q[l] : \E i \in DOMAIN Q[l + 1] : Q[l][k] = Q[l + 1][i] \div 2

(* The queries of a layer are half of queries below it.                      *)
LEMMA QueriesRecursion ==
  ASSUME NEW leafQueries, IsSeq(leafQueries), NEW height \in Nat,
         NEW Q, Q = QueriesByLayer(leafQueries, height)
  PROVE  /\ Q[height] = leafQueries
         /\ \A l \in 0 .. height : IsSeq(Q[l])
         /\ EachBelow(Q, height)
<1> DEFINE Up(q) == [k \in DOMAIN SiblingPairs(q) |-> SiblingPairs(q)[k][1] \div 2]
           Fills(f, m) == f = [l \in height - m .. height |->
                                 IF l = height THEN leafQueries ELSE Up(f[l + 1])]
           Found == {m \in Nat : \E f : Fills(f, m)}
<1>1. 0 \in Found
  <2>1. Fills([l \in height - 0 .. height |-> leafQueries], 0)
    <3> HIDE DEF Up
    <3>1. \A l \in height - 0 .. height : l = height
      OBVIOUS
    <3> QED BY <3>1
  <2> QED BY <2>1
<1>2. ASSUME NEW m \in Nat, m \in Found PROVE m + 1 \in Found
  <2>1. PICK f : Fills(f, m)
    BY <1>2
  <2> DEFINE low == height - (m + 1)
             g == [l \in low .. height |-> IF l = low THEN Up(f[l + 1]) ELSE f[l]]
  <2> HIDE DEF Up
  <2>2. height - m = low + 1 /\ low \in Int /\ low < height
    OBVIOUS
  <2>3. \A l \in low + 1 .. height : f[l] = IF l = height THEN leafQueries ELSE Up(f[l + 1])
    BY <2>1, <2>2
  <2> HIDE DEF low
  <2>4. \A l \in low + 1 .. height : g[l] = f[l] /\ l # low
    BY <2>2
  <2>5. ASSUME NEW l \in low .. height
        PROVE  g[l] = IF l = height THEN leafQueries ELSE Up(g[l + 1])
    <3>1. CASE l = low
      <4>1. l # height /\ l + 1 \in low + 1 .. height
        BY <2>2, <3>1
      <4>2. g[l] = Up(f[l + 1])
        BY <3>1
      <4> QED BY ONLY <2>4, <4>1, <4>2
    <3>2. CASE l # low
      <4>1. l \in low + 1 .. height /\ (l # height => l + 1 \in low + 1 .. height)
        BY <2>2, <3>2
      <4> QED BY ONLY <2>3, <2>4, <4>1
    <3> QED BY <3>1, <3>2
  <2>6. g = [l \in low .. height |-> g[l]]
    OBVIOUS
  <2> HIDE DEF g
  <2>7. g = [l \in low .. height |-> IF l = height THEN leafQueries ELSE Up(g[l + 1])]
    BY ONLY <2>5, <2>6
  <2> QED BY <2>7 DEF low
<1> HIDE DEF Found
<1>3. height \in Found
  BY <1>1, <1>2, Counting
<1>4. \E f : f = [l \in 0 .. height |-> IF l = height THEN leafQueries ELSE Up(f[l + 1])]
  <2>1. height - height = 0
    OBVIOUS
  <2> HIDE DEF Up
  <2> QED BY <1>3, <2>1 DEF Found
<1> DEFINE R == CHOOSE f : f = [l \in 0 .. height |-> IF l = height THEN leafQueries ELSE Up(f[l + 1])]
<1>5. R = [l \in 0 .. height |-> IF l = height THEN leafQueries ELSE Up(R[l + 1])]
  <2> HIDE DEF Up
  <2> QED BY <1>4, Zenon
<1>6. Q = R
  BY Zenon DEF QueriesByLayer
<1> HIDE DEF R
<1>7. \A l \in 0 .. height : Q[l] = IF l = height THEN leafQueries ELSE Up(Q[l + 1])
  <2> HIDE DEF Up
  <2> QED BY ONLY <1>5, <1>6
<1>8. ASSUME NEW q, IsSeq(q)
      PROVE  IsSeq(Up(q)) /\ \A k \in DOMAIN Up(q) : \E i \in DOMAIN q : Up(q)[k] = q[i] \div 2
  <2> DEFINE p == SiblingPairs(q)
             u == Up(q)
  <2>1. IsSeq(p) /\ \A k \in DOMAIN p : \E i \in DOMAIN q : p[k][1] = q[i]
    BY <1>8, PairFacts
  <2>2. u = [k \in DOMAIN p |-> p[k][1] \div 2]
    OBVIOUS
  <2> HIDE DEF p, u
  <2>3. DOMAIN p = 1 .. Len(p) /\ Len(p) \in Nat
    BY <2>1, SeqFacts
  <2>4. IsSeq(u)
    BY <2>2, <2>3, SeqOfFunction
  <2>5. \A k \in DOMAIN u : \E i \in DOMAIN q : u[k] = q[i] \div 2
    BY ONLY <2>1, <2>2
  <2> QED BY <2>4, <2>5 DEF u
<1> HIDE DEF Up
<1> DEFINE N == {m \in Nat : m <= height => IsSeq(Q[height - m])}
<1>9. 0 \in N
  BY <1>7
<1>10. ASSUME NEW m \in Nat, m \in N PROVE m + 1 \in N
  <2> SUFFICES ASSUME m + 1 <= height PROVE IsSeq(Q[height - (m + 1)])
    OBVIOUS
  <2>1. IsSeq(Q[height - m])
    BY <1>10
  <2>2. height - (m + 1) \in 0 .. height /\ height - (m + 1) # height /\ (height - (m + 1)) + 1 = height - m
    OBVIOUS
  <2>3. Q[height - (m + 1)] = Up(Q[height - m])
    BY ONLY <1>7, <2>2
  <2> QED BY <1>8, <2>1, <2>3
<1> HIDE DEF N
<1>11. \A m \in Nat : m \in N
  BY <1>9, <1>10, Counting
<1>12. \A l \in 0 .. height : IsSeq(Q[l])
  <2> SUFFICES ASSUME NEW l \in 0 .. height PROVE IsSeq(Q[l])
    OBVIOUS
  <2>1. height - l \in N /\ height - l <= height /\ height - (height - l) = l
    BY <1>11
  <2> QED BY <2>1 DEF N
<1>13. ASSUME NEW l \in 0 .. height, l < height
       PROVE  \A k \in DOMAIN Q[l] : \E i \in DOMAIN Q[l + 1] : Q[l][k] = Q[l + 1][i] \div 2
  <2>1. l # height /\ l + 1 \in 0 .. height
    BY <1>13
  <2>2. Q[l] = Up(Q[l + 1]) /\ IsSeq(Q[l + 1])
    BY ONLY <1>7, <1>12, <2>1, l \in 0 .. height
  <2> QED BY <1>8, <2>2
<1>14. Q[height] = leafQueries
  BY <1>7
<1>15. \A l \in 0 .. height : l < height =>
          \A k \in DOMAIN Q[l] : \E i \in DOMAIN Q[l + 1] : Q[l][k] = Q[l + 1][i] \div 2
  BY <1>13, Zenon
<1> HIDE DEF N
<1> QED BY <1>12, <1>14, <1>15, Zenon DEF EachBelow

(* A query of a layer is above a query of each layer under it.               *)
LEMMA QueriesAbove ==
  ASSUME NEW leafQueries, IsSeq(leafQueries), NEW height \in Nat,
         NEW Q, Q = QueriesByLayer(leafQueries, height),
         NEW s \in 0 .. height, \A j \in DOMAIN Q[s] : Q[s][j] \in Nat
  PROVE  \A l \in 0 .. s : \A k \in DOMAIN Q[l] :
           \E j \in DOMAIN Q[s] : Q[l][k] = Q[s][j] \div 2 ^ (s - l)
<1> DEFINE Above(m) == \A k \in DOMAIN Q[s - m] : \E j \in DOMAIN Q[s] : Q[s - m][k] = Q[s][j] \div 2 ^ m
           N == {m \in Nat : m <= s => Above(m)}
<1>0. \A j \in DOMAIN Q[s] : Q[s][j] \in Nat
  OBVIOUS
<1>1. \A l \in 0 .. height : l < height =>
        \A k \in DOMAIN Q[l] : \E i \in DOMAIN Q[l + 1] : Q[l][k] = Q[l + 1][i] \div 2
  <2>1. EachBelow(Q, height)
    BY ONLY IsSeq(leafQueries), height \in Nat, Q = QueriesByLayer(leafQueries, height),
            QueriesRecursion
  <2> QED BY <2>1, Zenon DEF EachBelow
<1>2. 0 \in N
  <2>1. 2 ^ 0 = 1 /\ s - 0 = s
    OBVIOUS
  <2>2. \A x \in Nat : x \div 1 = x
    OBVIOUS
  <2> QED BY <1>0, <2>1, <2>2
<1>3. ASSUME NEW m \in Nat, m \in N PROVE m + 1 \in N
  <2> SUFFICES ASSUME m + 1 <= s PROVE Above(m + 1)
    OBVIOUS
  <2>1. Above(m)
    BY <1>3
  <2> DEFINE l == s - (m + 1)
  <2>2. l \in 0 .. height /\ l < height /\ l + 1 = s - m
    OBVIOUS
  <2>4. ASSUME NEW k \in DOMAIN Q[l]
        PROVE  \E j \in DOMAIN Q[s] : Q[l][k] = Q[s][j] \div 2 ^ (m + 1)
    <3>1. PICK i \in DOMAIN Q[l + 1] : Q[l][k] = Q[l + 1][i] \div 2
      BY <1>1, <2>2
    <3>2. PICK j \in DOMAIN Q[s] : Q[l + 1][i] = Q[s][j] \div 2 ^ m
      BY <2>1, <2>2
    <3>3. Q[s][j] \in Nat
      BY <1>0
    <3>4. (Q[s][j] \div 2 ^ m) \div 2 = Q[s][j] \div 2 ^ (m + 1)
      BY <3>3, ShiftAndHalve
    <3> QED BY ONLY <3>1, <3>2, <3>4
  <2> QED BY <2>4
<1> HIDE DEF N
<1>4. \A m \in Nat : m \in N
  BY <1>2, <1>3, Counting
<1>5. ASSUME NEW l \in 0 .. s
      PROVE  \A k \in DOMAIN Q[l] : \E j \in DOMAIN Q[s] : Q[l][k] = Q[s][j] \div 2 ^ (s - l)
  <2>1. s - l \in N /\ s - l <= s /\ s - (s - l) = l
    BY <1>4
  <2>2. Above(s - l)
    BY <2>1 DEF N
  <2> QED BY ONLY <2>1, <2>2
<1> QED BY <1>5

(* The queries of a layer are nodes of that layer.                           *)
LEMMA QueriesInRange ==
  ASSUME NEW leafQueries, IsSeq(leafQueries), NEW height \in Nat,
         \A i \in DOMAIN leafQueries : leafQueries[i] \in 0 .. 2 ^ height - 1,
         NEW Q, Q = QueriesByLayer(leafQueries, height)
  PROVE  \A l \in 0 .. height : \A k \in DOMAIN Q[l] : Q[l][k] \in 0 .. 2 ^ l - 1
<1>1. Q[height] = leafQueries
  BY QueriesRecursion
<1>2. \A x \in 0 .. 2 ^ height - 1 : x \in Nat
  OBVIOUS
<1>3. \A j \in DOMAIN Q[height] : Q[height][j] \in Nat
  BY <1>1, <1>2
<1>4. height \in 0 .. height
  OBVIOUS
<1>5. \A l \in 0 .. height : \A k \in DOMAIN Q[l] :
        \E j \in DOMAIN Q[height] : Q[l][k] = Q[height][j] \div 2 ^ (height - l)
  BY <1>3, <1>4, QueriesAbove
<1>6. ASSUME NEW l \in 0 .. height, NEW k \in DOMAIN Q[l] PROVE Q[l][k] \in 0 .. 2 ^ l - 1
  <2>1. PICK j \in DOMAIN leafQueries : Q[l][k] = leafQueries[j] \div 2 ^ (height - l)
    BY <1>1, <1>5
  <2> DEFINE x == leafQueries[j]
             a == height - l
  <2>2. a \in Nat /\ l \in Nat /\ a + l = height
    OBVIOUS
  <2>3. x \in 0 .. 2 ^ (a + l) - 1
    BY <2>2
  <2> HIDE DEF x, a
  <2>4. x \div 2 ^ a \in 0 .. 2 ^ l - 1
    BY <2>2, <2>3, ShiftInRange
  <2> QED BY <2>1, <2>4 DEF x, a
<1> QED BY <1>6

(* The sibling of a node is a node of its layer, under the same parent.      *)
LEMMA SiblingFacts ==
  ASSUME NEW l \in Nat \ {0}, NEW p \in 0 .. 2 ^ l - 1
  PROVE  Sibling(p) \in 0 .. 2 ^ l - 1 /\ Sibling(p) \div 2 = p \div 2
<1> DEFINE h == 2 ^ (l - 1)
<1>1. 2 ^ l = 2 * h /\ h \in Nat
  <2>1. l - 1 \in Nat /\ (l - 1) + 1 = l
    OBVIOUS
  <2>2. \A n \in Nat : 2 ^ (n + 1) = 2 * 2 ^ n /\ 2 ^ n \in Nat
    BY PowerDoubles
  <2> QED BY <2>1, <2>2
<1> HIDE DEF h
<1>2. p \in 0 .. 2 * h - 1
  BY <1>1
<1>3. Sibling(p) \in 0 .. 2 * h - 1 /\ Sibling(p) \div 2 = p \div 2
  BY ONLY <1>1, <1>2 DEF Sibling
<1> QED BY ONLY <1>1, <1>3

(* Two ways to give the hashes agree at the siblings of the queries.          *)
AgreeAtSiblings(Q, height, f, g) ==
  \A l \in 1 .. height : \A i \in DOMAIN Q[l] :
    f[<<l, Sibling(Q[l][i])>>] = g[<<l, Sibling(Q[l][i])>>]

(* The witness is made of the siblings of queries, and of nothing else of    *)
(* the layers.                                                               *)
LEMMA WitnessesAgree ==
  ASSUME NEW leafQueries, IsSeq(leafQueries), NEW height \in Nat,
         NEW Q, Q = QueriesByLayer(leafQueries, height),
         NEW f, NEW g, AgreeAtSiblings(Q, height, f, g)
  PROVE  HashWitness(leafQueries, height, f) = HashWitness(leafQueries, height, g)
<1> DEFINE Of(hash, l) == [k \in DOMAIN MissingSiblings(Q[l]) |-> hash[<<l, MissingSiblings(Q[l])[k]>>]]
           Layers(hash) == [k \in 1 .. height |-> Of(hash, height + 1 - k)]
<1>1. \A hash : HashWitness(leafQueries, height, hash) = FlattenSeq(Layers(hash))
  BY Zenon DEF HashWitness
<1>2. \A l \in 0 .. height : IsSeq(Q[l])
  BY QueriesRecursion
<1>3. \A l \in 1 .. height : \A i \in DOMAIN Q[l] : f[<<l, Sibling(Q[l][i])>>] = g[<<l, Sibling(Q[l][i])>>]
  BY DEF AgreeAtSiblings
<1>4. ASSUME NEW l \in 1 .. height PROVE Of(f, l) = Of(g, l)
  <2>1. IsSeq(Q[l])
    <3>1. l \in 0 .. height
      OBVIOUS
    <3> QED BY ONLY <1>2, <3>1
  <2> DEFINE missing == MissingSiblings(Q[l])
  <2>2. \A k \in DOMAIN missing : \E i \in DOMAIN Q[l] : missing[k] = Sibling(Q[l][i])
    BY <2>1, MissingFacts
  <2> HIDE DEF missing
  <2>3. \A k \in DOMAIN missing : f[<<l, missing[k]>>] = g[<<l, missing[k]>>]
    BY ONLY <1>3, <2>2, l \in 1 .. height
  <2> QED BY <2>3 DEF missing
<1>5. \A k \in 1 .. height : height + 1 - k \in 1 .. height
  BY ONLY height \in Nat
<1>6. Layers(f) = Layers(g)
  <2> HIDE DEF Of
  <2> QED BY ONLY <1>4, <1>5
<1> HIDE DEF Layers
<1> QED BY ONLY <1>1, <1>6

(* The hash of a node is made of those of its children, down to the source.  *)
LEMMA NodeFacts ==
  ASSUME NEW source, NEW from \in Nat, NEW node, node = NodesOver(source, from)
  PROVE  /\ \A i \in Nat : node[<<from, i>>] = source[i]
         /\ \A l \in 0 .. from : l < from =>
              \A i \in Nat : node[<<l, i>>] = Parent(node[<<l + 1, 2 * i>>], node[<<l + 1, 2 * i + 1>>])
<1> DEFINE Hash(f, n) == IF n[1] = from THEN source[n[2]]
                         ELSE Parent(f[<<n[1] + 1, 2 * n[2]>>], f[<<n[1] + 1, 2 * n[2] + 1>>])
           From(m) == (from - m .. from) \X Nat
           Fills(f, m) == f = [n \in From(m) |-> Hash(f, n)]
           Found == {m \in Nat : \E f : Fills(f, m)}
<1>1. 0 \in Found
  <2>1. \A n \in From(0) : n[1] = from
    OBVIOUS
  <2> DEFINE g == [n \in From(0) |-> source[n[2]]]
  <2> HIDE DEF From
  <2>2. g = [n \in From(0) |-> Hash(g, n)]
    <3> HIDE DEF g
    <3>1. \A n \in From(0) : source[n[2]] = Hash(g, n)
      BY ONLY <2>1
    <3> HIDE DEF Hash
    <3> QED BY ONLY <3>1 DEF g
  <2> QED BY <2>2
<1>2. ASSUME NEW m \in Nat, m \in Found PROVE m + 1 \in Found
  <2>1. PICK f : f = [n \in From(m) |-> Hash(f, n)]
    BY <1>2
  <2> DEFINE low == from - (m + 1)
             g == [n \in From(m + 1) |-> IF n[1] = low THEN Hash(f, n) ELSE f[n]]
  <2>2. low \in Int /\ low < from /\ low + 1 = from - m
    OBVIOUS
  <2> HIDE DEF low
  <2>3. /\ \A n \in From(m) : n \in From(m + 1) /\ n[1] # low
        /\ \A n \in From(m + 1) : n[1] # low => n \in From(m)
        /\ \A n \in From(m + 1) : n[1] # from =>
             <<n[1] + 1, 2 * n[2]>> \in From(m) /\ <<n[1] + 1, 2 * n[2] + 1>> \in From(m)
        /\ low # from
    <3>1. \A n \in From(m + 1) : n[1] \in low .. from /\ n[2] \in Nat /\ n = <<n[1], n[2]>>
      BY DEF low
    <3>2. From(m) = (low + 1 .. from) \X Nat /\ From(m + 1) = (low .. from) \X Nat
      BY <2>2 DEF low
    <3> HIDE DEF From
    <3>3. \A n \in From(m) : n \in From(m + 1) /\ n[1] # low
      BY ONLY <2>2, <3>2
    <3>4. \A n \in From(m + 1) : n[1] # low => n \in From(m)
      BY ONLY <2>2, <3>1, <3>2
    <3>5. ASSUME NEW n \in From(m + 1), n[1] # from
          PROVE  <<n[1] + 1, 2 * n[2]>> \in From(m) /\ <<n[1] + 1, 2 * n[2] + 1>> \in From(m)
      <4>1. n[1] \in low .. from /\ n[2] \in Nat
        BY ONLY <3>1, n \in From(m + 1)
      <4>2. n[1] + 1 \in low + 1 .. from /\ 2 * n[2] \in Nat /\ 2 * n[2] + 1 \in Nat
        BY ONLY <2>2, <3>5, <4>1, from \in Nat
      <4> QED BY ONLY <3>2, <4>2
    <3>6. low # from
      BY ONLY <2>2, from \in Nat
    <3> QED BY ONLY <3>3, <3>4, <3>5, <3>6
  <2> HIDE DEF From
  <2>4. \A n \in From(m) : f[n] = Hash(f, n)
    <3> HIDE DEF Hash
    <3> QED BY ONLY <2>1
  <2>5. \A n \in From(m) : g[n] = f[n]
    <3> HIDE DEF Hash
    <3> QED BY ONLY <2>3
  <2>6. \A n \in From(m + 1) : Hash(g, n) = Hash(f, n)
    <3> HIDE DEF g
    <3> QED BY ONLY <2>3, <2>5
  <2>7. \A n \in From(m + 1) : g[n] = Hash(g, n)
    <3> HIDE DEF Hash
    <3> QED BY ONLY <2>3, <2>4, <2>6
  <2>8. g = [n \in From(m + 1) |-> g[n]]
    <3> HIDE DEF Hash
    <3> QED OBVIOUS
  <2> HIDE DEF g, Hash
  <2>9. g = [n \in From(m + 1) |-> Hash(g, n)]
    BY ONLY <2>7, <2>8
  <2> QED BY <2>9
<1> HIDE DEF Found
<1>3. from \in Found
  BY <1>1, <1>2, Counting
<1>4. From(from) = (0 .. from) \X Nat
  OBVIOUS
<1>5. \E f : f = [n \in (0 .. from) \X Nat |-> Hash(f, n)]
  <2> HIDE DEF From, Hash
  <2> QED BY <1>3, <1>4 DEF Found
<1> DEFINE R == CHOOSE f : f = [n \in (0 .. from) \X Nat |-> Hash(f, n)]
<1>6. R = [n \in (0 .. from) \X Nat |-> Hash(R, n)]
  <2> HIDE DEF Hash
  <2> QED BY <1>5, Zenon
<1>7. node = R
  BY Zenon DEF NodesOver
<1> HIDE DEF R
<1>8. \A n \in (0 .. from) \X Nat : node[n] = Hash(node, n)
  <2> HIDE DEF Hash
  <2> QED BY ONLY <1>6, <1>7
<1>9. ASSUME NEW i \in Nat PROVE node[<<from, i>>] = source[i]
  <2>1. <<from, i>> \in (0 .. from) \X Nat
    OBVIOUS
  <2> QED BY ONLY <1>8, <2>1
<1>10. ASSUME NEW l \in 0 .. from, l < from, NEW i \in Nat
       PROVE  node[<<l, i>>] = Parent(node[<<l + 1, 2 * i>>], node[<<l + 1, 2 * i + 1>>])
  <2>1. <<l, i>> \in (0 .. from) \X Nat /\ l # from
    BY <1>10
  <2> QED BY ONLY <1>8, <2>1
<1> QED BY ONLY <1>9, <1>10

(* Above a layer of a tree the nodes over it are the tree's: a node depends  *)
(* on the part of the source below it and on nothing else.                   *)
LEMMA NodesAgree ==
  ASSUME NEW leaves, NEW top \in Nat, NEW full, full = NodesOver(leaves, top),
         NEW source, NEW from \in 0 .. top, NEW node, node = NodesOver(source, from),
         NEW l \in 0 .. from, NEW i \in Nat,
         \A j \in Nat : j \div 2 ^ (from - l) = i => source[j] = full[<<from, j>>]
  PROVE  node[<<l, i>>] = full[<<l, i>>]
<1> DEFINE Given(m, k) == \A j \in Nat : j \div 2 ^ m = k => source[j] = full[<<from, j>>]
           N == {m \in Nat : m <= from =>
                   \A k \in Nat : Given(m, k) => node[<<from - m, k>>] = full[<<from - m, k>>]}
<1>1. /\ \A k \in Nat : node[<<from, k>>] = source[k]
      /\ \A h \in 0 .. from : h < from =>
           \A k \in Nat : node[<<h, k>>] = Parent(node[<<h + 1, 2 * k>>], node[<<h + 1, 2 * k + 1>>])
  <2>1. from \in Nat
    OBVIOUS
  <2> QED BY <2>1, NodeFacts
<1>2. /\ \A k \in Nat : full[<<top, k>>] = leaves[k]
      /\ \A h \in 0 .. top : h < top =>
           \A k \in Nat : full[<<h, k>>] = Parent(full[<<h + 1, 2 * k>>], full[<<h + 1, 2 * k + 1>>])
  BY NodeFacts
<1>3. 0 \in N
  <2>1. 2 ^ 0 = 1 /\ from - 0 = from /\ \A k \in Nat : k \div 1 = k
    OBVIOUS
  <2>2. ASSUME NEW k \in Nat, Given(0, k) PROVE node[<<from - 0, k>>] = full[<<from - 0, k>>]
    <3>1. k \div 2 ^ 0 = k
      BY ONLY <2>1, k \in Nat
    <3>2. source[k] = full[<<from, k>>]
      BY ONLY <2>2, <3>1, k \in Nat
    <3> QED BY ONLY <1>1, <2>1, <3>2, k \in Nat
  <2> HIDE DEF Given
  <2> QED BY <2>2
<1>4. ASSUME NEW m \in Nat, m \in N PROVE m + 1 \in N
  <2> SUFFICES ASSUME m + 1 <= from, NEW k \in Nat, Given(m + 1, k)
               PROVE  node[<<from - (m + 1), k>>] = full[<<from - (m + 1), k>>]
    OBVIOUS
  <2>1. \A c \in Nat : Given(m, c) => node[<<from - m, c>>] = full[<<from - m, c>>]
    BY <1>4
  <2> DEFINE h == from - (m + 1)
  <2>2. h \in 0 .. from /\ h < from /\ h + 1 = from - m /\ h \in 0 .. top /\ h < top
    OBVIOUS
  <2>3. ASSUME NEW c \in Nat, c \div 2 = k PROVE Given(m, c)
    <3> SUFFICES ASSUME NEW j \in Nat, j \div 2 ^ m = c PROVE source[j] = full[<<from, j>>]
      OBVIOUS
    <3>1. (j \div 2 ^ m) \div 2 = j \div 2 ^ (m + 1)
      BY ShiftAndHalve
    <3>3. j \div 2 ^ (m + 1) = k
      BY ONLY <2>3, <3>1, j \div 2 ^ m = c
    <3> QED BY ONLY Given(m + 1, k), <3>3, j \in Nat
  <2> HIDE DEF Given, h
  <2>4. 2 * k \in Nat /\ 2 * k + 1 \in Nat /\ (2 * k) \div 2 = k /\ (2 * k + 1) \div 2 = k
    OBVIOUS
  <2>5. Given(m, 2 * k) /\ Given(m, 2 * k + 1)
    BY ONLY <2>3, <2>4
  <2>6. /\ node[<<h + 1, 2 * k>>] = full[<<h + 1, 2 * k>>]
        /\ node[<<h + 1, 2 * k + 1>>] = full[<<h + 1, 2 * k + 1>>]
    BY ONLY <2>1, <2>2, <2>4, <2>5
  <2>7. node[<<h, k>>] = Parent(node[<<h + 1, 2 * k>>], node[<<h + 1, 2 * k + 1>>])
    BY ONLY <1>1, <2>2, k \in Nat
  <2>8. full[<<h, k>>] = Parent(full[<<h + 1, 2 * k>>], full[<<h + 1, 2 * k + 1>>])
    BY ONLY <1>2, <2>2, k \in Nat
  <2>9. node[<<h, k>>] = full[<<h, k>>]
    BY ONLY <2>6, <2>7, <2>8
  <2> QED BY <2>9 DEF h
<1> HIDE DEF N
<1>5. \A m \in Nat : m \in N
  BY <1>3, <1>4, Counting
<1>6. from - l \in N /\ from - l <= from /\ from - (from - l) = l
  BY <1>5
<1>7. Given(from - l, i)
  OBVIOUS
<1> HIDE DEF Given
<1> QED BY <1>6, <1>7 DEF N

------------------------------------------------------------------------------
(* The source layers of a checkpointed tree *)

(* A set of numbers that is not empty has a least member.                    *)
LEMMA LeastOf ==
  ASSUME NEW S \in SUBSET Nat, S # {}
  PROVE  \E m \in S : \A x \in S : m <= x
<1> DEFINE None == ~ \E m \in S : \A x \in S : m <= x
           N == {n \in Nat : \A x \in S : x >= n}
<1> SUFFICES ASSUME None PROVE FALSE
  OBVIOUS
<1>1. 0 \in N
  OBVIOUS
<1>2. ASSUME NEW n \in Nat, n \in N PROVE n + 1 \in N
  <2>1. \A x \in S : x >= n
    BY <1>2
  <2>2. n \notin S
    BY ONLY <2>1, None, S \in SUBSET Nat
  <2>3. \A x \in S : x >= n + 1
    BY ONLY <2>1, <2>2, S \in SUBSET Nat, n \in Nat
  <2> QED BY <2>3
<1> HIDE DEF N
<1>3. \A n \in Nat : n \in N
  BY <1>1, <1>2, Counting
<1>4. PICK y \in S : y \in Nat
  OBVIOUS
<1>5. y + 1 \in N /\ y + 1 \in Nat
  BY <1>3, <1>4
<1>6. y >= y + 1
  BY <1>4, <1>5 DEF N
<1> QED BY <1>4, <1>6

(* A set of numbers below a bound has a largest member.                      *)
LEMMA LargestIn ==
  ASSUME NEW top \in Nat, NEW S \in SUBSET (0 .. top), S # {}
  PROVE  \E m \in S : \A x \in S : x <= m
<1> DEFINE below == {n \in 0 .. top : top - n \in S}
<1>1. below \in SUBSET Nat
  OBVIOUS
<1>2. \A x \in S : top - x \in below /\ top - (top - x) = x
  OBVIOUS
<1>3. below # {}
  BY <1>2
<1>4. PICK m \in below : \A x \in below : m <= x
  <2> HIDE DEF below
  <2> QED BY <1>1, <1>3, LeastOf
<1>5. \A x \in S : x <= top - m
  <2> SUFFICES ASSUME NEW x \in S PROVE x <= top - m
    OBVIOUS
  <2>1. m <= top - x
    BY <1>2, <1>4
  <2>2. m \in 0 .. top /\ x \in 0 .. top
    BY <1>4
  <2> QED BY ONLY <2>1, <2>2, top \in Nat
<1>6. top - m \in S
  BY <1>4
<1> QED BY <1>5, <1>6

(* The layer a checkpointed tree recomputes layer l from is at l or under it, *)
(* and the segment that starts there ends above l.                           *)
LEMMA SourceFacts ==
  ASSUME NEW tree, NEW height \in Nat, tree.height = height,
         DOMAIN tree.checkpoints \subseteq 1 .. height,
         NEW l \in 1 .. height, NEW s, s = SourceOf(tree, l)
  PROVE  /\ s \in SourceLayers(tree) /\ s \in l .. height
         /\ TargetOf(tree, s) \in 0 .. l - 1
<1>1. SourceLayers(tree) \in SUBSET (1 .. height) /\ height \in SourceLayers(tree)
  BY DEF SourceLayers
<1> DEFINE K == SourceLayers(tree)
           From == {t \in K : t >= l}
<1> HIDE DEF K
<1>2. K \in SUBSET (1 .. height) /\ height \in K
  BY <1>1 DEF K
<1>3. From \in SUBSET Nat /\ From # {}
  BY <1>2
<1>4. PICK m \in From : \A x \in From : m <= x
  <2> HIDE DEF From
  <2> QED BY <1>3, LeastOf
<1>5. m \in K /\ m >= l /\ \A t \in K : t >= l => m <= t
  BY <1>4
<1>6. s = CHOOSE t \in K : t >= l /\ \A u \in K : u >= l => t <= u
  BY DEF SourceOf, K
<1>7. s \in K /\ s >= l /\ \A t \in K : t >= l => s <= t
  BY ONLY <1>5, <1>6
<1>8. s \in l .. height
  BY <1>2, <1>7
<1> DEFINE Under == {t \in {0} \cup K : t < s}
<1>9. Under \in SUBSET (0 .. height) /\ 0 \in Under
  <2>1. s \in 1 .. height
    BY ONLY <1>8, l \in 1 .. height, height \in Nat
  <2>2. \A x \in {0} \cup K : x \in 0 .. height
    BY ONLY <1>2, height \in Nat
  <2>3. \A x \in Under : x \in 0 .. height
    BY ONLY <2>2
  <2>4. 0 \in Under
    BY ONLY <2>1, height \in Nat
  <2> QED BY ONLY <2>3, <2>4
<1>10. PICK u \in Under : \A x \in Under : x <= u
  <2>1. Under # {}
    BY <1>9
  <2> HIDE DEF Under
  <2> QED BY <1>9, <2>1, LargestIn
<1>11. u \in {0} \cup K /\ u < s /\ \A t \in K : t < s => t <= u
  BY <1>10
<1> DEFINE t == TargetOf(tree, s)
<1>12. t = CHOOSE v \in {0} \cup K : v < s /\ \A w \in K : w < s => w <= v
  BY DEF TargetOf, K
<1>13. t \in {0} \cup K /\ t < s /\ \A w \in K : w < s => w <= t
  BY ONLY <1>11, <1>12
<1> HIDE DEF t
<1>14. t \in 0 .. l - 1
  <2>1. t \in 0 .. height /\ s \in 0 .. height
    BY <1>2, <1>8, <1>13
  <2>2. CASE t = 0
    BY <2>2
  <2>3. CASE t # 0
    <3>1. t \in K
      BY <1>13, <2>3
    <3>2. ~(t >= l)
      BY ONLY <1>7, <1>13, <2>1, <3>1
    <3> QED BY ONLY <2>1, <3>2, l \in 1 .. height
  <2> QED BY <2>2, <2>3
<1> QED BY <1>7, <1>8, <1>14 DEF t, K

(* A number whose row above a block is in range is in range.                 *)
LEMMA Unshift ==
  ASSUME NEW a \in Nat, NEW b \in Nat, NEW j \in Nat, j \div 2 ^ a \in 0 .. 2 ^ b - 1
  PROVE  j \in 0 .. 2 ^ (a + b) - 1
<1> DEFINE m == 2 ^ a
           n == 2 ^ b
<1>1. m \in Nat \ {0} /\ n \in Nat \ {0} /\ 2 ^ (a + b) = m * n
  <2>1. \A c \in Nat : 2 ^ c \in Nat /\ 2 ^ c >= 1
    BY PowerDoubles
  <2>2. m \in Nat \ {0} /\ n \in Nat \ {0}
    BY ONLY <2>1, a \in Nat, b \in Nat
  <2>3. 2 ^ (a + b) = m * n
    BY PowerSum
  <2> QED BY ONLY <2>2, <2>3
<1> HIDE DEF m, n
<1>2. j \div m \in 0 .. n - 1
  BY DEF m, n
<1>3. j = m * (j \div m) + (j % m) /\ j % m \in 0 .. m - 1
  BY ONLY <1>1, Division, j \in Nat
<1> DEFINE q == j \div m
           r == j % m
<1> HIDE DEF q, r
<1>4. q \in 0 .. n - 1 /\ r \in 0 .. m - 1 /\ j = m * q + r
  BY <1>2, <1>3 DEF q, r
<1>5. m * q + m <= m * n
  <2>1. n - 1 - q \in Nat
    BY ONLY <1>1, <1>4
  <2>2. m * (n - 1 - q) >= 0
    BY ONLY <1>1, <2>1
  <2>3. m * (n - 1 - q) = m * n - m - m * q
    BY ONLY <1>1, <1>4
  <2> DEFINE A == m * n
             B == m * q
             C == m * (n - 1 - q)
  <2>4. A \in Int /\ B \in Int /\ C \in Int
    BY ONLY <1>1, <1>4
  <2> HIDE DEF A, B, C
  <2>5. C >= 0 /\ C = A - m - B
    BY <2>2, <2>3 DEF A, B, C
  <2>6. B + m <= A
    BY ONLY <1>1, <2>4, <2>5
  <2> QED BY <2>6 DEF A, B
<1> DEFINE A == m * n
           B == m * q
<1>6. A \in Int /\ B \in Int
  BY ONLY <1>1, <1>4
<1> HIDE DEF A, B
<1>7. B + m <= A /\ j = B + r
  BY <1>4, <1>5 DEF A, B
<1>8. j \in 0 .. A - 1
  BY ONLY <1>1, <1>4, <1>6, <1>7, j \in Nat
<1> QED BY <1>1, <1>8 DEF A

(* A checkpointed tree and its layers.                                       *)
LEMMA CheckpointFacts ==
  ASSUME NEW leaves, NEW height \in Nat, NEW stride, NEW streamed,
         NEW tree, tree = commit_checkpointed(leaves, height, stride, streamed),
         NEW full, full = NodesOver(leaves, height)
  PROVE  /\ tree.height = height
         /\ DOMAIN tree.checkpoints \subseteq 1 .. height
         /\ \A s \in DOMAIN tree.checkpoints : \A i \in 0 .. 2 ^ s - 1 :
              tree.checkpoints[s][i] = full[<<s, i>>]
<1> DEFINE kept == {l \in 1 .. height : /\ should_store_checkpoint(l, height, stride)
                                        /\ ~(streamed /\ l = height - 1)}
<1>1. tree = [root |-> Root(leaves, height), height |-> height,
              checkpoints |-> [l \in kept |-> LayerOver(leaves, height, l)]]
  BY Zenon DEF commit_checkpointed
<1>2. kept \subseteq 1 .. height
  OBVIOUS
<1> HIDE DEF kept
<1>3. tree.height = height /\ tree.checkpoints = [l \in kept |-> LayerOver(leaves, height, l)]
  BY ONLY <1>1
<1>4. ASSUME NEW s \in kept, NEW i \in 0 .. 2 ^ s - 1
      PROVE  tree.checkpoints[s][i] = full[<<s, i>>]
  <2>1. tree.checkpoints[s] = [k \in 0 .. 2 ^ s - 1 |-> full[<<s, k>>]]
    BY <1>3, Zenon DEF LayerOver
  <2> QED BY ONLY <2>1, i \in 0 .. 2 ^ s - 1
<1> QED BY <1>2, <1>3, <1>4

(* A full tree and its layers.                                               *)
LEMMA FullFacts ==
  ASSUME NEW leaves, NEW height \in Nat, NEW tree, tree = commit(leaves, height),
         NEW full, full = NodesOver(leaves, height)
  PROVE  /\ tree.height = height
         /\ \A l \in 0 .. height : \A i \in 0 .. 2 ^ l - 1 : tree.layers[l][i] = full[<<l, i>>]
<1>1. tree = [root |-> Root(leaves, height), height |-> height,
              layers |-> [l \in 0 .. height |-> LayerOver(leaves, height, l)]]
  BY Zenon DEF commit
<1>2. tree.height = height /\ tree.layers = [l \in 0 .. height |-> LayerOver(leaves, height, l)]
  BY ONLY <1>1
<1>3. ASSUME NEW l \in 0 .. height, NEW i \in 0 .. 2 ^ l - 1
      PROVE  tree.layers[l][i] = full[<<l, i>>]
  <2>1. tree.layers[l] = [k \in 0 .. 2 ^ l - 1 |-> full[<<l, k>>]]
    BY <1>2, Zenon DEF LayerOver
  <2> QED BY ONLY <2>1, i \in 0 .. 2 ^ l - 1
<1> QED BY <1>2, <1>3

(* Opening a checkpointed tree, whatever its stride and however its leaves   *)
(* came, gives the witness that the tree with all its layers gives: the      *)
(* layers recomputed from a checkpoint or from the leaves are the same.      *)
THEOREM CheckpointedOpening ==
  ASSUME NEW leaves, NEW height \in Nat, NEW stride, NEW streamed,
         NEW asked, IsSeq(asked),
         \A k \in DOMAIN asked : asked[k] \in 0 .. 2 ^ height - 1
  PROVE  decommit_from_leaves(commit_checkpointed(leaves, height, stride, streamed), asked, leaves)
           = decommit(commit(leaves, height), asked)
<1> DEFINE tree == commit_checkpointed(leaves, height, stride, streamed)
           whole == commit(leaves, height)
           full == NodesOver(leaves, height)
           leafQueries == Dedup(asked)
           Q == QueriesByLayer(leafQueries, height)
           Source(s) == IF s = tree.height THEN leaves ELSE tree.checkpoints[s]
           f == [n \in (0 .. height) \X Nat |->
                   LET s == SourceOf(tree, n[1]) IN NodesOver(Source(s), s)[n]]
           g == [n \in (0 .. height) \X Nat |-> whole.layers[n[1]][n[2]]]
<1>1. /\ tree.height = height /\ DOMAIN tree.checkpoints \subseteq 1 .. height
      /\ \A s \in DOMAIN tree.checkpoints : \A i \in 0 .. 2 ^ s - 1 :
           tree.checkpoints[s][i] = full[<<s, i>>]
  <2> DEFINE t == tree
             n == full
  <2>1. t = tree /\ n = full
    OBVIOUS
  <2> HIDE DEF t, n
  <2>2. t = commit_checkpointed(leaves, height, stride, streamed) /\ n = NodesOver(leaves, height)
    BY ONLY <2>1
  <2>3. /\ t.height = height /\ DOMAIN t.checkpoints \subseteq 1 .. height
        /\ \A s \in DOMAIN t.checkpoints : \A i \in 0 .. 2 ^ s - 1 : t.checkpoints[s][i] = n[<<s, i>>]
    BY ONLY <2>2, CheckpointFacts, height \in Nat
  <2> HIDE DEF tree, full
  <2> QED BY ONLY <2>1, <2>3
<1>2. /\ whole.height = height
      /\ \A l \in 0 .. height : \A i \in 0 .. 2 ^ l - 1 : whole.layers[l][i] = full[<<l, i>>]
  BY FullFacts
<1>3. IsSeq(leafQueries) /\ \A i \in DOMAIN leafQueries : leafQueries[i] \in 0 .. 2 ^ height - 1
  <2>1. IsSeq(leafQueries) /\ \A k \in DOMAIN leafQueries : \E i \in DOMAIN asked : leafQueries[k] = asked[i]
    BY DedupFacts
  <2>2. \A k \in DOMAIN asked : asked[k] \in 0 .. 2 ^ height - 1
    OBVIOUS
  <2> HIDE DEF leafQueries
  <2> QED BY ONLY <2>1, <2>2
<1>4. decommit_from_leaves(tree, asked, leaves) = HashWitness(leafQueries, height, f)
  <2>1. decommit_from_leaves(tree, asked, leaves)
          = HashWitness(leafQueries, tree.height,
              [n \in (0 .. tree.height) \X Nat |->
                 LET s == SourceOf(tree, n[1]) IN NodesOver(Source(s), s)[n]])
    <3> HIDE DEF tree
    <3> QED BY Zenon DEF decommit_from_leaves
  <2> QED BY ONLY <1>1, <2>1
<1>5. decommit(whole, asked) = HashWitness(leafQueries, height, g)
  <2>1. decommit(whole, asked)
          = HashWitness(leafQueries, whole.height,
              [n \in (0 .. whole.height) \X Nat |-> whole.layers[n[1]][n[2]]])
    <3> HIDE DEF whole
    <3> QED BY Zenon DEF decommit
  <2> QED BY ONLY <1>2, <2>1
<1> HIDE DEF tree, whole, full, leafQueries, Q
<1>6. \A l \in 0 .. height : \A k \in DOMAIN Q[l] : Q[l][k] \in 0 .. 2 ^ l - 1
  BY <1>3, QueriesInRange DEF Q
<1>7. ASSUME NEW l \in 1 .. height, NEW i \in 0 .. 2 ^ l - 1 PROVE f[<<l, i>>] = g[<<l, i>>]
  <2> DEFINE s == SourceOf(tree, l)
             node == NodesOver(Source(s), s)
  <2>1. s \in SourceLayers(tree) /\ s \in l .. height
    <3> HIDE DEF s
    <3> QED BY <1>1, SourceFacts DEF s
  <2>2. /\ <<l, i>> \in (0 .. height) \X Nat /\ <<l, i>>[1] = l /\ <<l, i>>[2] = i
        /\ l \in 0 .. height /\ i \in Nat
    OBVIOUS
  <2>3. f[<<l, i>>] = node[<<l, i>>]
    <3> HIDE DEF Source
    <3>1. f[<<l, i>>] = NodesOver(Source(SourceOf(tree, <<l, i>>[1])), SourceOf(tree, <<l, i>>[1]))[<<l, i>>]
      BY ONLY <2>2
    <3> QED BY ONLY <2>2, <3>1
  <2>4. g[<<l, i>>] = full[<<l, i>>]
    <3>1. g[<<l, i>>] = whole.layers[<<l, i>>[1]][<<l, i>>[2]]
      BY ONLY <2>2
    <3> QED BY ONLY <1>2, <2>2, <3>1, i \in 0 .. 2 ^ l - 1
  <2>5. node[<<l, i>>] = full[<<l, i>>]
    <3> HIDE DEF s
    <3>1. CASE s = height
      BY ONLY <1>1, <3>1 DEF full
    <3>2. CASE s # height
      <4>1. s \in DOMAIN tree.checkpoints
        BY ONLY <1>1, <2>1, <3>2 DEF SourceLayers
      <4>2. Source(s) = tree.checkpoints[s]
        BY ONLY <1>1, <3>2
      <4>3. s \in 0 .. height /\ l \in 0 .. s
        BY ONLY <2>1, height \in Nat, l \in 1 .. height
      <4>4. ASSUME NEW j \in Nat, j \div 2 ^ (s - l) = i PROVE Source(s)[j] = full[<<s, j>>]
        <5>1. s - l \in Nat /\ l \in Nat /\ (s - l) + l = s
          BY ONLY <4>3, height \in Nat
        <5>2. j \in 0 .. 2 ^ ((s - l) + l) - 1
          BY ONLY <4>4, <5>1, Unshift, j \in Nat, i \in 0 .. 2 ^ l - 1
        <5>3. j \in 0 .. 2 ^ s - 1
          BY ONLY <5>1, <5>2
        <5> QED BY ONLY <1>1, <4>1, <4>2, <5>3
      <4> HIDE DEF Source
      <4> DEFINE source == Source(s)
      <4> HIDE DEF source
      <4>5. node = NodesOver(source, s)
        BY DEF source
      <4>6. \A j \in Nat : j \div 2 ^ (s - l) = i => source[j] = full[<<s, j>>]
        BY ONLY <4>4 DEF source
      <4> HIDE DEF node
      <4> QED BY <2>2, <4>3, <4>5, <4>6, NodesAgree DEF full
    <3> QED BY <3>1, <3>2
  <2> QED BY ONLY <2>3, <2>4, <2>5
<1> HIDE DEF f, g
<1>8. ASSUME NEW l \in 1 .. height, NEW i \in DOMAIN Q[l]
      PROVE  f[<<l, Sibling(Q[l][i])>>] = g[<<l, Sibling(Q[l][i])>>]
  <2>1. Q[l][i] \in 0 .. 2 ^ l - 1
    BY ONLY <1>6, height \in Nat, l \in 1 .. height, i \in DOMAIN Q[l]
  <2>2. Sibling(Q[l][i]) \in 0 .. 2 ^ l - 1
    <3>1. l \in Nat \ {0}
      OBVIOUS
    <3> DEFINE q == Q[l][i]
    <3> HIDE DEF q
    <3>2. q \in 0 .. 2 ^ l - 1
      BY <2>1 DEF q
    <3>3. Sibling(q) \in 0 .. 2 ^ l - 1
      BY ONLY <3>1, <3>2, SiblingFacts
    <3> QED BY ONLY <3>3 DEF q
  <2> QED BY ONLY <1>7, <2>2, l \in 1 .. height
<1>9. HashWitness(leafQueries, height, f) = HashWitness(leafQueries, height, g)
  <2>1. Q = QueriesByLayer(leafQueries, height)
    BY DEF Q
  <2>2. AgreeAtSiblings(Q, height, f, g)
    BY ONLY <1>8 DEF AgreeAtSiblings
  <2>3. IsSeq(leafQueries)
    BY <1>3
  <2> HIDE DEF Source
  <2> QED BY ONLY <2>1, <2>2, <2>3, WitnessesAgree, height \in Nat
<1> QED BY ONLY <1>4, <1>5, <1>9 DEF tree, whole

------------------------------------------------------------------------------
(* Leaves that are computed again *)

(* The aligned block of a position holds what has the same place among the   *)
(* blocks.                                                                   *)
LEMMA BlockMembers ==
  ASSUME NEW p \in Nat, NEW size \in Nat \ {0}, NEW x \in Nat
  PROVE  x \in (p \div size) * size .. (p \div size) * size + size - 1 <=> x \div size = p \div size
<1> DEFINE c == p \div size
           q == x \div size
           r == x % size
<1>1. x = size * q + r /\ r \in 0 .. size - 1 /\ q \in Nat /\ c \in Nat
  <2>1. x = size * (x \div size) + (x % size) /\ x % size \in 0 .. size - 1 /\ x \div size \in Nat
    BY Division
  <2>2. p \div size \in Nat
    BY Division
  <2> QED BY ONLY <2>1, <2>2
<1> DEFINE b == size * c
           d == size * q
<1>2. b \in Nat /\ d \in Nat /\ c * size = b
  <2> HIDE DEF c, q, r
  <2> QED BY ONLY <1>1, size \in Nat \ {0}
<1>3. ASSUME x \in c * size .. c * size + size - 1 PROVE q = c
  <2>1. x - b \in 0 .. size - 1 /\ x = b + (x - b)
    <3> HIDE DEF b, c
    <3> QED BY ONLY <1>2, <1>3, size \in Nat \ {0}, x \in Nat
  <2> DEFINE e == x - b
  <2> HIDE DEF e, b
  <2>2. e \in 0 .. size - 1 /\ x = b + e
    BY ONLY <2>1 DEF e
  <2>3. x = size * c + e
    BY ONLY <2>2 DEF b
  <2> HIDE DEF c
  <2> QED BY ONLY <1>1, <2>2, <2>3, DivisionIs, size \in Nat \ {0}, x \in Nat
<1>4. ASSUME q = c PROVE x \in c * size .. c * size + size - 1
  <2>1. x = d + r /\ r \in 0 .. size - 1 /\ b = d
    <3> HIDE DEF c, q, r
    <3> QED BY ONLY <1>1, <1>4
  <2> HIDE DEF b, c, d, r
  <2> QED BY ONLY <1>2, <2>1, size \in Nat \ {0}
<1> QED BY <1>3, <1>4

(* What is under the sibling of a node and what is under the node have the   *)
(* same place above.                                                         *)
LEMMA SameAbove ==
  ASSUME NEW a \in Nat, NEW c \in Nat, NEW x \in Nat, NEW y \in Nat,
         (x \div 2 ^ a) \div 2 = (y \div 2 ^ a) \div 2, c >= a + 1
  PROVE  x \div 2 ^ c = y \div 2 ^ c
<1> DEFINE e == c - (a + 1)
<1>1. e \in Nat /\ (a + 1) + e = c /\ a + 1 \in Nat
  OBVIOUS
<1> HIDE DEF e
<1>2. x \div 2 ^ (a + 1) = y \div 2 ^ (a + 1)
  <2>1. (x \div 2 ^ a) \div 2 = x \div 2 ^ (a + 1) /\ (y \div 2 ^ a) \div 2 = y \div 2 ^ (a + 1)
    BY ShiftAndHalve
  <2> QED BY ONLY <2>1, (x \div 2 ^ a) \div 2 = (y \div 2 ^ a) \div 2
<1>3. /\ (x \div 2 ^ (a + 1)) \div 2 ^ e = x \div 2 ^ c
      /\ (y \div 2 ^ (a + 1)) \div 2 ^ e = y \div 2 ^ c
  <2> DEFINE m == a + 1
  <2>1. m \in Nat /\ m + e = c
    BY <1>1
  <2> HIDE DEF m
  <2>2. (x \div 2 ^ m) \div 2 ^ e = x \div 2 ^ (m + e) /\ (y \div 2 ^ m) \div 2 ^ e = y \div 2 ^ (m + e)
    <3>1. ASSUME NEW z \in Nat PROVE (z \div 2 ^ m) \div 2 ^ e = z \div 2 ^ (m + e)
      <4>1. e \in Nat /\ m \in Nat
        BY ONLY <1>1, <2>1
      <4> QED BY ONLY <4>1, ShiftTwice, z \in Nat
    <3> QED BY ONLY <3>1, x \in Nat, y \in Nat
  <2> QED BY ONLY <2>1, <2>2 DEF m
<1> QED BY ONLY <1>2, <1>3

(* The aligned blocks of a size that hold one of some positions.             *)
BlocksOf(held, size) == UNION {b .. b + size - 1 : b \in {(p \div size) * size : p \in held}}

(* A set of positions holds all that is a layers under node i.               *)
HoldsUnder(blocks, a, i) == \A j \in Nat : j \div 2 ^ a = i => j \in blocks

(* A segment reads the blocks of its source that hold a query: they lie in   *)
(* the source's layer, and hold all that is below the siblings of the        *)
(* queries of the segment.                                                   *)
LEMMA BlocksCover ==
  ASSUME NEW leafQueries, IsSeq(leafQueries), NEW height \in Nat,
         \A i \in DOMAIN leafQueries : leafQueries[i] \in 0 .. 2 ^ height - 1,
         NEW Q, Q = QueriesByLayer(leafQueries, height),
         NEW s \in 1 .. height, NEW t \in 0 .. s - 1, NEW size, size = 2 ^ (s - t),
         NEW blocks, blocks = BlocksOf(Range(Q[s]), size)
  PROVE  /\ blocks \in SUBSET (0 .. 2 ^ s - 1)
         /\ \A l \in t + 1 .. s : \A k \in DOMAIN Q[l] : HoldsUnder(blocks, s - l, Sibling(Q[l][k]))
<1>0. blocks = UNION {b .. b + size - 1 : b \in {(p \div size) * size : p \in Range(Q[s])}}
  BY DEF BlocksOf
<1>1. \A l \in 0 .. height : \A k \in DOMAIN Q[l] : Q[l][k] \in 0 .. 2 ^ l - 1
  BY QueriesInRange
<1>2. s \in 0 .. height /\ s \in Nat /\ t \in Nat /\ s - t \in Nat /\ (s - t) + t = s
  OBVIOUS
<1>3. size \in Nat \ {0}
  <2>1. 2 ^ (s - t) \in Nat /\ 2 ^ (s - t) >= 1
    BY <1>2, PowerDoubles
  <2> QED BY <2>1
<1>4. \A p \in Range(Q[s]) : p \in 0 .. 2 ^ s - 1 /\ p \in Nat
  BY <1>1, <1>2 DEF Range
<1>5. \A x \in Nat : x \in blocks <=> \E p \in Range(Q[s]) : x \div size = p \div size
  <2> SUFFICES ASSUME NEW x \in Nat
               PROVE  x \in blocks <=> \E p \in Range(Q[s]) : x \div size = p \div size
    OBVIOUS
  <2>1. x \in blocks <=> \E p \in Range(Q[s]) : x \in (p \div size) * size .. (p \div size) * size + size - 1
    BY <1>0
  <2>2. \A p \in Range(Q[s]) : x \in (p \div size) * size .. (p \div size) * size + size - 1
                               <=> x \div size = p \div size
    BY ONLY <1>3, <1>4, BlockMembers, x \in Nat
  <2> QED BY ONLY <2>1, <2>2
<1>6. ASSUME NEW x \in blocks PROVE x \in 0 .. 2 ^ s - 1
  <2>1. PICK p \in Range(Q[s]) : x \in (p \div size) * size .. (p \div size) * size + size - 1
    BY <1>0
  <2>2. p \in Nat /\ p \in 0 .. 2 ^ s - 1
    BY <1>4
  <2>3. x \in Nat
    <3> DEFINE c == (p \div size) * size
    <3>1. c \in Nat
      <4>1. p \div size \in Nat
        BY <1>3, <2>2, Division
      <4> QED BY ONLY <1>3, <4>1
    <3> HIDE DEF c
    <3>2. x \in c .. c + size - 1
      BY <2>1 DEF c
    <3> QED BY ONLY <1>3, <3>1, <3>2
  <2>4. x \div size = p \div size
    BY ONLY <1>3, <2>1, <2>2, <2>3, BlockMembers
  <2>5. p \div 2 ^ (s - t) \in 0 .. 2 ^ t - 1
    <3>1. p \in 0 .. 2 ^ ((s - t) + t) - 1
      BY ONLY <1>2, <2>2
    <3> DEFINE a == s - t
    <3> HIDE DEF a
    <3>2. a \in Nat /\ p \in 0 .. 2 ^ (a + t) - 1
      BY <1>2, <3>1 DEF a
    <3>3. p \div 2 ^ a \in 0 .. 2 ^ t - 1
      BY ONLY <1>2, <3>2, ShiftInRange
    <3> QED BY ONLY <3>3 DEF a
  <2>6. x \div 2 ^ (s - t) \in 0 .. 2 ^ t - 1
    BY ONLY <2>4, <2>5, size = 2 ^ (s - t)
  <2>7. x \in 0 .. 2 ^ ((s - t) + t) - 1
    <3> DEFINE a == s - t
    <3>1. a \in Nat /\ x \div 2 ^ a \in 0 .. 2 ^ t - 1
      BY ONLY <1>2, <2>6
    <3> HIDE DEF a
    <3>2. x \in 0 .. 2 ^ (a + t) - 1
      BY ONLY <1>2, <2>3, <3>1, Unshift
    <3> QED BY ONLY <3>2 DEF a
  <2> QED BY ONLY <1>2, <2>7
<1>7. ASSUME NEW l \in t + 1 .. s, NEW k \in DOMAIN Q[l], NEW j \in Nat,
             j \div 2 ^ (s - l) = Sibling(Q[l][k])
      PROVE  j \in blocks
  <2> DEFINE q == Q[l][k]
             a == s - l
  <2>1. l \in 0 .. height /\ l \in Nat \ {0} /\ l \in 0 .. s /\ a \in Nat /\ s - t >= a + 1
    BY ONLY <1>2, <1>7, height \in Nat
  <2>2. q \in 0 .. 2 ^ l - 1
    BY ONLY <1>1, <2>1, <1>7
  <2> HIDE DEF q
  <2>3. Sibling(q) \div 2 = q \div 2
    BY <2>1, <2>2, SiblingFacts
  <2>4. \A i \in DOMAIN Q[s] : Q[s][i] \in Nat
    BY <1>4 DEF Range
  <2>5. PICK i \in DOMAIN Q[s] : q = Q[s][i] \div 2 ^ a
    <3>1. \A m \in 0 .. s : \A n \in DOMAIN Q[m] : \E i \in DOMAIN Q[s] : Q[m][n] = Q[s][i] \div 2 ^ (s - m)
      BY <1>2, <2>4, QueriesAbove
    <3> QED BY ONLY <1>7, <2>1, <3>1 DEF q
  <2> DEFINE p == Q[s][i]
  <2>6. p \in Nat /\ p \in Range(Q[s])
    BY <2>4, <2>5 DEF Range
  <2>7. j \div 2 ^ a = Sibling(q) /\ q = p \div 2 ^ a
    BY <1>7, <2>5 DEF q
  <2> HIDE DEF p, a
  <2>8. (j \div 2 ^ a) \div 2 = (p \div 2 ^ a) \div 2
    BY ONLY <2>3, <2>7
  <2> DEFINE c == s - t
  <2>9. c \in Nat /\ c >= a + 1
    BY ONLY <1>2, <2>1
  <2> HIDE DEF c
  <2>10. j \div 2 ^ c = p \div 2 ^ c
    BY ONLY <2>1, <2>6, <2>8, <2>9, SameAbove, <1>7
  <2>11. j \div size = p \div size
    BY ONLY <2>10, size = 2 ^ (s - t) DEF c
  <2> QED BY ONLY <1>5, <1>7, <2>6, <2>11
<1> QED BY <1>6, <1>7 DEF HoldsUnder

(* What the low-memory opening reads of a source layer: recomputed leaves, or *)
(* a checkpoint.                                                             *)
SourceRead(tree, source_hashes, s, blocks) ==
  IF s = tree.height THEN source_hashes[blocks] ELSE [j \in blocks |-> tree.checkpoints[s][j]]
(* A checkpointed tree keeps layers of the tree over the leaves.             *)
KeepsLayers(tree, height, full) ==
  /\ tree.height = height /\ DOMAIN tree.checkpoints \subseteq 1 .. height
  /\ \A s \in DOMAIN tree.checkpoints : \A i \in 0 .. 2 ^ s - 1 : tree.checkpoints[s][i] = full[<<s, i>>]
(* Recomputed leaves, at the positions of any set, are the leaves.           *)
GivesLeaves(source_hashes, leaves, height) ==
  \A b \in SUBSET (0 .. 2 ^ height - 1) : \A j \in b : source_hashes[b][j] = leaves[j]
(* The hashes under a query's sibling, as the low-memory opening computes    *)
(* them from the blocks of the nearest source, are those of the tree.        *)
LEMMA SourcedNode ==
  ASSUME NEW leaves, NEW height \in Nat, NEW full, full = NodesOver(leaves, height),
         NEW tree, KeepsLayers(tree, height, full),
         NEW source_hashes, GivesLeaves(source_hashes, leaves, height),
         NEW s \in SourceLayers(tree), NEW l \in 1 .. s, NEW i \in Nat,
         NEW blocks \in SUBSET (0 .. 2 ^ s - 1), HoldsUnder(blocks, s - l, i),
         NEW source, source = SourceRead(tree, source_hashes, s, blocks)
  PROVE  NodesOver(source, s)[<<l, i>>] = full[<<l, i>>]
<1>0. /\ tree.height = height /\ DOMAIN tree.checkpoints \subseteq 1 .. height
      /\ \A c \in DOMAIN tree.checkpoints : \A j \in 0 .. 2 ^ c - 1 : tree.checkpoints[c][j] = full[<<c, j>>]
  BY DEF KeepsLayers
<1>1. s \in 1 .. height
  <2>1. s \in {height} \cup DOMAIN tree.checkpoints
    BY <1>0 DEF SourceLayers
  <2>2. 1 .. s # {}
    OBVIOUS
  <2>3. CASE s = height
    <3>1. l \in 1 .. height
      BY ONLY <2>3, l \in 1 .. s
    <3> QED BY ONLY <2>3, <3>1, height \in Nat
  <2>4. CASE s \in DOMAIN tree.checkpoints
    BY <1>0, <2>4
  <2> QED BY ONLY <2>1, <2>3, <2>4
<1>2. s \in 0 .. height /\ l \in 0 .. s
  BY ONLY <1>1, height \in Nat, l \in 1 .. s
<1>3. \A j \in Nat : full[<<height, j>>] = leaves[j]
  BY NodeFacts
<1>4. ASSUME NEW j \in Nat, j \div 2 ^ (s - l) = i PROVE source[j] = full[<<s, j>>]
  <2>1. j \in blocks /\ j \in 0 .. 2 ^ s - 1
    BY <1>4 DEF HoldsUnder
  <2>2. CASE s = height
    <3>1. source[j] = source_hashes[blocks][j]
      BY ONLY <1>0, <2>2, source = SourceRead(tree, source_hashes, s, blocks) DEF SourceRead
    <3>2. blocks \in SUBSET (0 .. 2 ^ height - 1)
      BY ONLY <2>2, blocks \in SUBSET (0 .. 2 ^ s - 1)
    <3>3. source_hashes[blocks][j] = leaves[j]
      BY <2>1, <3>2 DEF GivesLeaves
    <3> QED BY ONLY <1>3, <1>4, <2>2, <3>1, <3>3
  <2>3. CASE s # height
    <3>1. s \in DOMAIN tree.checkpoints
      BY <1>0, <2>3 DEF SourceLayers
    <3>2. source = [k \in blocks |-> tree.checkpoints[s][k]]
      BY ONLY <1>0, <2>3, source = SourceRead(tree, source_hashes, s, blocks) DEF SourceRead
    <3>3. source[j] = tree.checkpoints[s][j]
      BY ONLY <2>1, <3>2
    <3>4. tree.checkpoints[s][j] = full[<<s, j>>]
      BY <1>0, <2>1, <3>1
    <3> QED BY ONLY <3>3, <3>4
  <2> QED BY <2>2, <2>3
<1> DEFINE node == NodesOver(source, s)
<1>5. node = NodesOver(source, s)
  OBVIOUS
<1>6. \A j \in Nat : j \div 2 ^ (s - l) = i => source[j] = full[<<s, j>>]
  BY ONLY <1>4
<1> HIDE DEF node
<1>7. node[<<l, i>>] = full[<<l, i>>]
  BY ONLY <1>2, <1>5, <1>6, NodesAgree, height \in Nat, i \in Nat, full = NodesOver(leaves, height)
<1> QED BY ONLY <1>5, <1>7

(* Opening a checkpointed tree at increasing positions from the leaves under *)
(* them only, as leaves that are recomputed give them, makes the witness     *)
(* that the tree with all its layers gives.                                  *)
THEOREM SourcedOpening ==
  ASSUME NEW leaves, NEW height \in Nat, NEW stride, NEW streamed,
         NEW asked \in Seq(0 .. 2 ^ height - 1), Increasing(asked),
         NEW source_hashes, GivesLeaves(source_hashes, leaves, height)
  PROVE  decommit_with_source(commit_checkpointed(leaves, height, stride, streamed), asked,
                              source_hashes)
           = decommit(commit(leaves, height), asked)
<1> DEFINE tree == commit_checkpointed(leaves, height, stride, streamed)
           whole == commit(leaves, height)
           full == NodesOver(leaves, height)
           Q == QueriesByLayer(asked, height)
           Blocks(s) == UNION {b .. b + 2 ^ (s - TargetOf(tree, s)) - 1 :
                               b \in {(p \div 2 ^ (s - TargetOf(tree, s))) * 2 ^ (s - TargetOf(tree, s)) :
                                      p \in Range(Q[s])}}
           Source(s) == IF s = tree.height THEN source_hashes[Blocks(s)]
                        ELSE [i \in Blocks(s) |-> tree.checkpoints[s][i]]
           f == [n \in (0 .. height) \X Nat |->
                   LET s == SourceOf(tree, n[1]) IN NodesOver(Source(s), s)[n]]
           g == [n \in (0 .. height) \X Nat |-> whole.layers[n[1]][n[2]]]
<1>1. /\ tree.height = height /\ DOMAIN tree.checkpoints \subseteq 1 .. height
      /\ \A s \in DOMAIN tree.checkpoints : \A i \in 0 .. 2 ^ s - 1 :
           tree.checkpoints[s][i] = full[<<s, i>>]
  <2> DEFINE t == tree
             n == full
  <2>1. t = tree /\ n = full
    OBVIOUS
  <2> HIDE DEF t, n
  <2>2. t = commit_checkpointed(leaves, height, stride, streamed) /\ n = NodesOver(leaves, height)
    BY ONLY <2>1
  <2>3. /\ t.height = height /\ DOMAIN t.checkpoints \subseteq 1 .. height
        /\ \A s \in DOMAIN t.checkpoints : \A i \in 0 .. 2 ^ s - 1 : t.checkpoints[s][i] = n[<<s, i>>]
    BY ONLY <2>2, CheckpointFacts, height \in Nat
  <2> HIDE DEF tree, full
  <2> QED BY ONLY <2>1, <2>3
<1>2. /\ whole.height = height
      /\ \A l \in 0 .. height : \A i \in 0 .. 2 ^ l - 1 : whole.layers[l][i] = full[<<l, i>>]
  BY FullFacts
<1>3. 2 ^ height \in Nat
  BY PowerDoubles
<1>4. /\ IsSeq(asked) /\ asked \in Seq(Nat)
      /\ \A i \in DOMAIN asked : asked[i] \in 0 .. 2 ^ height - 1
  <2>1. asked \in Seq(Nat)
    <3> DEFINE S == 0 .. 2 ^ height - 1
    <3>1. S \subseteq Nat /\ asked \in Seq(S)
      OBVIOUS
    <3> HIDE DEF S
    <3> QED BY ONLY <3>1, SeqLarger
  <2>2. IsSeq(asked)
    BY ONLY <2>1, SeqOfMembers
  <2> QED BY <2>1, <2>2
<1>5. Sorted(Range(asked), 2 ^ height) = asked
  <2> DEFINE top == 2 ^ height
  <2>1. top \in Nat /\ asked \in Seq(0 .. top - 1)
    BY <1>3
  <2> HIDE DEF top
  <2>2. Sorted(Range(asked), top) = asked
    BY ONLY <2>1, SortedAgain, Increasing(asked)
  <2> QED BY ONLY <2>2 DEF top
<1>6. Dedup(asked) = asked
  BY ONLY <1>4, DedupIncreasing, Increasing(asked)
<1>7. decommit_with_source(tree, asked, source_hashes) = HashWitness(asked, height, f)
  <2> DEFINE lq == Sorted(Range(asked), 2 ^ tree.height)
             R == QueriesByLayer(lq, tree.height)
             Bl(s) == UNION {b .. b + 2 ^ (s - TargetOf(tree, s)) - 1 :
                             b \in {(p \div 2 ^ (s - TargetOf(tree, s))) * 2 ^ (s - TargetOf(tree, s)) :
                                    p \in Range(R[s])}}
             So(s) == IF s = tree.height THEN source_hashes[Bl(s)]
                      ELSE [i \in Bl(s) |-> tree.checkpoints[s][i]]
  <2>1. decommit_with_source(tree, asked, source_hashes)
          = HashWitness(lq, tree.height,
              [n \in (0 .. tree.height) \X Nat |->
                 LET s == SourceOf(tree, n[1]) IN NodesOver(So(s), s)[n]])
    <3> HIDE DEF tree
    <3> QED BY Zenon DEF decommit_with_source
  <2>2. lq = asked
    BY ONLY <1>1, <1>5
  <2>3. R = Q
    BY ONLY <1>1, <2>2
  <2> HIDE DEF lq, R, Q, tree
  <2> QED BY ONLY <1>1, <2>1, <2>2, <2>3
<1>8. decommit(whole, asked) = HashWitness(asked, height, g)
  <2>1. decommit(whole, asked)
          = HashWitness(Dedup(asked), whole.height,
              [n \in (0 .. whole.height) \X Nat |-> whole.layers[n[1]][n[2]]])
    <3> HIDE DEF whole
    <3> QED BY Zenon DEF decommit
  <2> QED BY ONLY <1>2, <1>6, <2>1
<1> HIDE DEF tree, whole, full, Q
<1>9. Q = QueriesByLayer(asked, height)
  BY DEF Q
<1>10. \A l \in 0 .. height : \A k \in DOMAIN Q[l] : Q[l][k] \in 0 .. 2 ^ l - 1
  BY ONLY <1>4, <1>9, QueriesInRange, height \in Nat
<1>11. ASSUME NEW l \in 1 .. height, NEW k \in DOMAIN Q[l]
       PROVE  f[<<l, Sibling(Q[l][k])>>] = g[<<l, Sibling(Q[l][k])>>]
  <2> DEFINE s == SourceOf(tree, l)
             t == TargetOf(tree, s)
             i == Sibling(Q[l][k])
             size == 2 ^ (s - t)
             blocks == Blocks(s)
             source == Source(s)
  <2>1. /\ s \in SourceLayers(tree) /\ s \in l .. height
        /\ t \in 0 .. l - 1
    <3> DEFINE r == s
    <3>1. r = SourceOf(tree, l)
      OBVIOUS
    <3> HIDE DEF r
    <3>2. /\ r \in SourceLayers(tree) /\ r \in l .. height
          /\ TargetOf(tree, r) \in 0 .. l - 1
      BY ONLY <1>1, <3>1, SourceFacts, height \in Nat, l \in 1 .. height
    <3> QED BY ONLY <3>2 DEF r
  <2>2. l \in 1 .. s /\ s \in 1 .. height /\ t \in 0 .. s - 1 /\ l \in t + 1 .. s /\ l \in 0 .. height
    <3> HIDE DEF s, t
    <3> QED BY ONLY <2>1, height \in Nat, l \in 1 .. height
  <2>3. i \in 0 .. 2 ^ l - 1 /\ i \in Nat
    <3> DEFINE q == Q[l][k]
    <3>1. q \in 0 .. 2 ^ l - 1 /\ l \in Nat \ {0}
      BY ONLY <1>10, <2>2, <1>11, height \in Nat, k \in DOMAIN Q[l], l \in 1 .. height
    <3> HIDE DEF q
    <3>2. Sibling(q) \in 0 .. 2 ^ l - 1
      BY ONLY <3>1, SiblingFacts
    <3>3. 2 ^ l \in Nat
      BY ONLY <3>1, PowerDoubles
    <3>4. Sibling(q) \in Nat
      BY ONLY <3>2, <3>3
    <3> QED BY ONLY <3>2, <3>4 DEF q
  <2>4. /\ size = 2 ^ (s - t)
        /\ blocks = BlocksOf(Range(Q[s]), size)
        /\ source = SourceRead(tree, source_hashes, s, blocks)
    <3> HIDE DEF s, Q
    <3>1. blocks = BlocksOf(Range(Q[s]), size)
      BY Zenon DEF BlocksOf
    <3>2. source = SourceRead(tree, source_hashes, s, blocks)
      BY Zenon DEF SourceRead
    <3> QED BY <3>1, <3>2
  <2>5. /\ <<l, i>> \in (0 .. height) \X Nat /\ <<l, i>>[1] = l /\ <<l, i>>[2] = i
    <3> HIDE DEF i
    <3> QED BY ONLY <2>2, <2>3
  <2>6. f[<<l, i>>] = NodesOver(source, s)[<<l, i>>]
    <3> HIDE DEF Source, i
    <3>1. f[<<l, i>>] = NodesOver(Source(SourceOf(tree, <<l, i>>[1])), SourceOf(tree, <<l, i>>[1]))[<<l, i>>]
      BY ONLY <2>5
    <3> QED BY ONLY <2>5, <3>1
  <2>7. g[<<l, i>>] = full[<<l, i>>]
    <3> HIDE DEF i
    <3>1. g[<<l, i>>] = whole.layers[<<l, i>>[1]][<<l, i>>[2]]
      BY ONLY <2>5
    <3> QED BY ONLY <1>2, <2>2, <2>3, <2>5, <3>1
  <2> HIDE DEF source, blocks, size, t, s, Source
  <2>8. /\ blocks \in SUBSET (0 .. 2 ^ s - 1)
        /\ \A m \in t + 1 .. s : \A n \in DOMAIN Q[m] : HoldsUnder(blocks, s - m, Sibling(Q[m][n]))
    BY ONLY <1>4, <1>9, <2>2, <2>4, BlocksCover, height \in Nat
  <2> HIDE DEF i
  <2>9. HoldsUnder(blocks, s - l, i)
    BY ONLY <2>2, <2>8, <1>11, k \in DOMAIN Q[l] DEF i
  <2>10. full = NodesOver(leaves, height)
    BY DEF full
  <2>11. NodesOver(source, s)[<<l, i>>] = full[<<l, i>>]
    <3>1. KeepsLayers(tree, height, full)
      BY ONLY <1>1 DEF KeepsLayers
    <3> QED BY ONLY <2>1, <2>2, <2>3, <2>4, <2>8, <2>9, <2>10, <3>1, SourcedNode, height \in Nat,
                    GivesLeaves(source_hashes, leaves, height)
  <2>12. f[<<l, i>>] = g[<<l, i>>]
    BY ONLY <2>6, <2>7, <2>11
  <2> QED BY ONLY <2>12 DEF i
<1> HIDE DEF f, g, Source
<1>12. AgreeAtSiblings(Q, height, f, g)
  BY ONLY <1>11 DEF AgreeAtSiblings
<1>13. HashWitness(asked, height, f) = HashWitness(asked, height, g)
  BY ONLY <1>4, <1>9, <1>12, WitnessesAgree, height \in Nat
<1> QED BY ONLY <1>7, <1>8, <1>13 DEF tree, whole

------------------------------------------------------------------------------
(* Columns by size, and the leaves they make *)

(* Sequences joined one after the other, unrolled.                           *)
LEMMA FlattenRecursion ==
  ASSUME NEW seqs, NEW last \in Nat \ {0}, Len(seqs) = last
  PROVE  \E flat : /\ FlattenSeq(seqs) = flat[last]
                   /\ flat[1] = seqs[1]
                   /\ \A i \in 1 .. last : i # 1 => flat[i] = flat[i - 1] \o seqs[i]
<1> DEFINE Joined(f, i) == IF i = 1 THEN seqs[i] ELSE f[i - 1] \o seqs[i]
           Fills(f, k) == f = [i \in 1 .. k |-> Joined(f, i)]
           Found == {k \in Nat : \E f : Fills(f, k)}
<1>0. last \in Nat /\ last # 0
  OBVIOUS
<1>1. 0 \in Found
  <2>1. Fills([i \in 1 .. 0 |-> 0], 0)
    OBVIOUS
  <2> QED BY <2>1
<1>2. ASSUME NEW k \in Nat, k \in Found PROVE k + 1 \in Found
  <2>1. PICK f : f = [i \in 1 .. k |-> Joined(f, i)]
    BY <1>2
  <2> DEFINE g == [i \in 1 .. k + 1 |-> IF i = k + 1 THEN Joined(f, i) ELSE f[i]]
  <2>2. \A i \in 1 .. k : g[i] = f[i] /\ f[i] = Joined(f, i) /\ i \in 1 .. k + 1
    <3>1. \A i \in 1 .. k : i \in 1 .. k + 1 /\ i # k + 1
      OBVIOUS
    <3>2. \A i \in 1 .. k : f[i] = Joined(f, i)
      <4> HIDE DEF Joined
      <4> QED BY ONLY <2>1
    <3> HIDE DEF Joined
    <3> QED BY ONLY <3>1, <3>2
  <2>3. \A i \in 1 .. k + 1 : Joined(g, i) = Joined(f, i)
    <3>1. \A i \in 1 .. k + 1 : i # 1 => i - 1 \in 1 .. k
      OBVIOUS
    <3> HIDE DEF g
    <3> QED BY ONLY <2>2, <3>1
  <2>4. \A i \in 1 .. k + 1 : g[i] = Joined(g, i)
    <3>1. \A i \in 1 .. k + 1 : i # k + 1 => i \in 1 .. k
      OBVIOUS
    <3> HIDE DEF Joined
    <3> QED BY ONLY <2>2, <2>3, <3>1
  <2>5. g = [i \in 1 .. k + 1 |-> g[i]]
    <3> HIDE DEF Joined
    <3> QED OBVIOUS
  <2> HIDE DEF g, Joined
  <2>6. g = [i \in 1 .. k + 1 |-> Joined(g, i)]
    BY ONLY <2>4, <2>5
  <2> QED BY <2>6
<1> HIDE DEF Found
<1>3. last \in Found
  BY <1>0, <1>1, <1>2, Counting
<1>4. \E f : f = [i \in 1 .. last |-> Joined(f, i)]
  <2> HIDE DEF Joined
  <2> QED BY <1>3 DEF Found
<1> DEFINE R == CHOOSE f : f = [i \in 1 .. last |-> Joined(f, i)]
<1>5. R = [i \in 1 .. last |-> Joined(R, i)]
  <2> HIDE DEF Joined
  <2> QED BY <1>4, Zenon
<1>6. FlattenSeq(seqs) = R[last]
  BY <1>0, Zenon DEF FlattenSeq
<1> HIDE DEF R
<1>7. \A i \in 1 .. last : R[i] = Joined(R, i)
  <2> HIDE DEF Joined
  <2> QED BY ONLY <1>5
<1>8. 1 \in 1 .. last
  BY <1>0
<1>9. R[1] = seqs[1] /\ \A i \in 1 .. last : i # 1 => R[i] = R[i - 1] \o seqs[i]
  BY ONLY <1>7, <1>8
<1> QED BY <1>6, <1>9

(* Sequences of the values of f at some places: their join has the values at *)
(* the join of the places.                                                   *)
JoinOf(f, order) == [k \in DOMAIN order |-> f[order[k]]]
JoinedBy(seqs, f, orders, n, D) ==
  \A i \in 1 .. n : orders[i] \in Seq(D) /\ seqs[i] = JoinOf(f, orders[i])
(* A join of values is the values at a join of places.                      *)
LEMMA FlattenMap ==
  ASSUME NEW D, NEW f, NEW n \in Nat \ {0}, NEW orders, IsSeq(orders), Len(orders) = n,
         NEW seqs, IsSeq(seqs), Len(seqs) = n, JoinedBy(seqs, f, orders, n, D)
  PROVE  /\ FlattenSeq(orders) \in Seq(D)
         /\ FlattenSeq(seqs) = JoinOf(f, FlattenSeq(orders))
<1>0. \A i \in 1 .. n : orders[i] \in Seq(D) /\ seqs[i] = JoinOf(f, orders[i])
  BY DEF JoinedBy
<1>1. PICK flat : /\ FlattenSeq(orders) = flat[n]
                  /\ flat[1] = orders[1]
                  /\ \A i \in 1 .. n : i # 1 => flat[i] = flat[i - 1] \o orders[i]
  BY FlattenRecursion
<1>2. PICK join : /\ FlattenSeq(seqs) = join[n]
                  /\ join[1] = seqs[1]
                  /\ \A i \in 1 .. n : i # 1 => join[i] = join[i - 1] \o seqs[i]
  BY FlattenRecursion
<1>3. \A a \in Seq(D), b \in Seq(D) :
        a \o b \in Seq(D) /\ JoinOf(f, a) \o JoinOf(f, b) = JoinOf(f, a \o b)
  <2> SUFFICES ASSUME NEW a \in Seq(D), NEW b \in Seq(D)
               PROVE  a \o b \in Seq(D) /\ JoinOf(f, a) \o JoinOf(f, b) = JoinOf(f, a \o b)
    OBVIOUS
  <2> DEFINE x == JoinOf(f, a)
             y == JoinOf(f, b)
             c == a \o b
             z == JoinOf(f, c)
  <2>1. /\ Len(a) \in Nat /\ DOMAIN a = 1 .. Len(a) /\ Len(b) \in Nat /\ DOMAIN b = 1 .. Len(b)
        /\ c \in Seq(D) /\ Len(c) = Len(a) + Len(b) /\ DOMAIN c = 1 .. Len(c)
        /\ \A k \in 1 .. Len(a) : c[k] = a[k]
        /\ \A k \in 1 .. Len(b) : c[Len(a) + k] = b[k]
    OBVIOUS
  <2>2. /\ IsSeq(x) /\ Len(x) = Len(a) /\ \A k \in 1 .. Len(a) : x[k] = f[a[k]]
    <3>1. x = [k \in 1 .. Len(a) |-> f[a[k]]]
      BY <2>1 DEF JoinOf
    <3> HIDE DEF x
    <3> QED BY ONLY <2>1, <3>1, SeqOfFunction
  <2>3. /\ IsSeq(y) /\ Len(y) = Len(b) /\ \A k \in 1 .. Len(b) : y[k] = f[b[k]]
    <3>1. y = [k \in 1 .. Len(b) |-> f[b[k]]]
      BY <2>1 DEF JoinOf
    <3> HIDE DEF y
    <3> QED BY ONLY <2>1, <3>1, SeqOfFunction
  <2>4. z = [k \in 1 .. Len(a) + Len(b) |-> f[c[k]]]
    <3> HIDE DEF c
    <3> QED BY <2>1 DEF JoinOf
  <2> HIDE DEF x, y, z, c
  <2>5. x \in Seq(Range(x) \cup Range(y)) /\ y \in Seq(Range(x) \cup Range(y))
    <3> DEFINE S == Range(x)
               T == Range(y)
    <3>1. x \in Seq(S) /\ y \in Seq(T)
      BY <2>2, <2>3 DEF IsSeq
    <3> HIDE DEF S, T
    <3>2. S \subseteq S \cup T /\ T \subseteq S \cup T
      OBVIOUS
    <3>3. x \in Seq(S \cup T) /\ y \in Seq(S \cup T)
      BY ONLY <3>1, <3>2, SeqLarger
    <3> QED BY ONLY <3>3 DEF S, T
  <2> DEFINE V == Range(x) \cup Range(y)
             w == x \o y
  <2>6. x \in Seq(V) /\ y \in Seq(V)
    BY <2>5
  <2> HIDE DEF V
  <2>7. /\ w = [k \in 1 .. Len(a) + Len(b) |-> w[k]]
        /\ \A k \in 1 .. Len(a) : w[k] = x[k]
        /\ \A k \in 1 .. Len(b) : w[Len(a) + k] = y[k]
    <3>1. w \in Seq(V) /\ Len(w) = Len(a) + Len(b)
      <4>1. w \in Seq(V) /\ Len(w) = Len(x) + Len(y)
        BY ONLY <2>6
      <4> HIDE DEF w
      <4> QED BY ONLY <2>2, <2>3, <4>1
    <3>2. \A k \in 1 .. Len(a) : w[k] = x[k]
      BY ONLY <2>1, <2>2, <2>3, <2>6
    <3>3. \A k \in 1 .. Len(b) : w[Len(a) + k] = y[k]
      BY ONLY <2>1, <2>2, <2>3, <2>6
    <3> HIDE DEF w
    <3>4. w = [k \in 1 .. Len(a) + Len(b) |-> w[k]]
      BY ONLY <2>1, <3>1
    <3> QED BY ONLY <3>2, <3>3, <3>4
  <2> HIDE DEF w
  <2>8. \A k \in 1 .. Len(a) + Len(b) : w[k] = f[c[k]]
    <3> SUFFICES ASSUME NEW k \in 1 .. Len(a) + Len(b) PROVE w[k] = f[c[k]]
      OBVIOUS
    <3>1. CASE k <= Len(a)
      <4>1. k \in 1 .. Len(a)
        BY ONLY <2>1, <3>1, k \in 1 .. Len(a) + Len(b)
      <4> QED BY ONLY <2>1, <2>2, <2>7, <4>1
    <3>2. CASE k > Len(a)
      <4>1. k - Len(a) \in 1 .. Len(b) /\ Len(a) + (k - Len(a)) = k
        BY ONLY <2>1, <3>2, k \in 1 .. Len(a) + Len(b)
      <4> DEFINE m == k - Len(a)
      <4>2. w[Len(a) + m] = y[m] /\ y[m] = f[b[m]] /\ c[Len(a) + m] = b[m]
        BY ONLY <2>1, <2>3, <2>7, <4>1
      <4> QED BY ONLY <4>1, <4>2
    <3> QED BY ONLY <2>1, <3>1, <3>2, k \in 1 .. Len(a) + Len(b)
  <2>9. w = z
    BY ONLY <2>4, <2>7, <2>8
  <2> QED BY <2>1, <2>9 DEF w, x, y, z, c
<1> DEFINE Good(i) == flat[i] \in Seq(D) /\ join[i] = JoinOf(f, flat[i])
           N == {i \in Nat : i + 1 <= n => Good(i + 1)}
<1>4. 0 \in N
  <2>1. 1 \in 1 .. n /\ 0 + 1 = 1
    OBVIOUS
  <2>2. orders[1] \in Seq(D) /\ seqs[1] = JoinOf(f, orders[1])
    BY <1>0, <2>1
  <2>3. Good(1)
    BY <1>1, <1>2, <2>2
  <2> HIDE DEF Good
  <2> QED BY <2>1, <2>3
<1>5. ASSUME NEW i \in Nat, i \in N PROVE i + 1 \in N
  <2> SUFFICES ASSUME (i + 1) + 1 <= n PROVE Good((i + 1) + 1)
    OBVIOUS
  <2> DEFINE j == (i + 1) + 1
  <2>1. j \in 1 .. n /\ j # 1 /\ j - 1 = i + 1 /\ i + 1 <= n
    OBVIOUS
  <2>2. Good(j - 1)
    BY <1>5, <2>1
  <2>3. orders[j] \in Seq(D) /\ seqs[j] = JoinOf(f, orders[j])
    BY <1>0, <2>1
  <2> HIDE DEF j
  <2>4. flat[j] = flat[j - 1] \o orders[j] /\ join[j] = join[j - 1] \o seqs[j]
    BY ONLY <1>1, <1>2, <2>1
  <2>5. flat[j] \in Seq(D) /\ join[j] = JoinOf(f, flat[j])
    BY ONLY <1>3, <2>2, <2>3, <2>4
  <2> QED BY <2>5 DEF j
<1> HIDE DEF N
<1>6. n - 1 \in N /\ (n - 1) + 1 = n
  <2>1. \A i \in Nat : i \in N
    BY ONLY <1>4, <1>5, Counting
  <2>2. n - 1 \in Nat /\ (n - 1) + 1 = n
    OBVIOUS
  <2> QED BY ONLY <2>1, <2>2
<1>7. Good(n)
  BY <1>6 DEF N
<1> QED BY <1>1, <1>2, <1>7

(* The places of the columns of one size, and of all by size.                *)
PlacesOfLog(logs, l) == Sorted({c \in DOMAIN logs : logs[c] = l}, Len(logs) + 1)
OrderByLog(logs, lifting) == FlattenSeq([l \in 1 .. lifting |-> PlacesOfLog(logs, l)])

(* The columns of one size are columns, each of that size.                   *)
LEMMA PlacesFacts ==
  ASSUME NEW logs, IsSeq(logs), NEW l
  PROVE  /\ PlacesOfLog(logs, l) \in Seq(DOMAIN logs)
         /\ \A k \in DOMAIN PlacesOfLog(logs, l) : logs[PlacesOfLog(logs, l)[k]] = l
         /\ \A c \in DOMAIN logs : logs[c] = l => PlacesOfLog(logs, l) # <<>>
<1> DEFINE n == Len(logs)
           S == {c \in DOMAIN logs : logs[c] = l}
           order == Sorted(S, n + 1)
<1>1. n \in Nat /\ DOMAIN logs = 1 .. n
  BY SeqFacts
<1>2. PlacesOfLog(logs, l) = order
  BY Zenon DEF PlacesOfLog
<1> HIDE DEF n
<1>3. n + 1 \in Nat /\ S \cap (0 .. (n + 1) - 1) = S
  BY <1>1
<1>4. S \subseteq DOMAIN logs /\ \A c \in S : logs[c] = l
  OBVIOUS
<1> HIDE DEF S
<1>5. order \in Seq(S) /\ \A x \in S : \E k \in DOMAIN order : order[k] = x
  BY <1>3, SortedMembers
<1> HIDE DEF order
<1>6. order \in Seq(DOMAIN logs)
  BY ONLY <1>4, <1>5, SeqLarger
<1>7. \A k \in DOMAIN order : order[k] \in S
  BY ONLY <1>5
<1>8. ASSUME NEW c \in DOMAIN logs, logs[c] = l PROVE order # <<>>
  <2>1. c \in S
    BY <1>8 DEF S
  <2>2. DOMAIN order # {}
    BY ONLY <1>5, <2>1
  <2> QED BY ONLY <2>2
<1> QED BY ONLY <1>2, <1>4, <1>6, <1>7, <1>8

(* Sorting columns by size takes them in the order their sizes alone give.   *)
LEMMA SortedByLogIs ==
  ASSUME NEW logs, IsSeq(logs), NEW lifting \in Nat \ {0},
         NEW columns, IsSeq(columns), Len(columns) = Len(logs),
         \A c \in DOMAIN logs : columns[c].log = logs[c]
  PROVE  /\ OrderByLog(logs, lifting) \in Seq(DOMAIN logs)
         /\ SortedByLog(columns, lifting) = JoinOf(columns, OrderByLog(logs, lifting))
<1> DEFINE orders == [l \in 1 .. lifting |-> PlacesOfLog(logs, l)]
           seqs == [l \in 1 .. lifting |->
                      ElementsAt(columns, {c \in DOMAIN columns : columns[c].log = l})]
<1>1. IsSeq(orders) /\ Len(orders) = lifting /\ IsSeq(seqs) /\ Len(seqs) = lifting
  BY SeqOfFunction
<1>2. \A l \in 1 .. lifting : orders[l] = PlacesOfLog(logs, l) /\ orders[l] \in Seq(DOMAIN logs)
  BY PlacesFacts
<1>3. ASSUME NEW l \in 1 .. lifting PROVE seqs[l] = JoinOf(columns, orders[l])
  <2>1. DOMAIN columns = DOMAIN logs
    <3>1. DOMAIN columns = 1 .. Len(columns) /\ DOMAIN logs = 1 .. Len(logs)
      BY SeqFacts
    <3> QED BY <3>1
  <2>2. {c \in DOMAIN columns : columns[c].log = l} = {c \in DOMAIN logs : logs[c] = l}
    BY <2>1
  <2> DEFINE places == {c \in DOMAIN columns : columns[c].log = l}
  <2>3. seqs[l] = ElementsAt(columns, places)
    BY Zenon
  <2>4. orders[l] = Sorted(places, Len(columns) + 1)
    <3>1. orders[l] = Sorted({c \in DOMAIN logs : logs[c] = l}, Len(logs) + 1)
      BY <1>2, Zenon DEF PlacesOfLog
    <3> QED BY <2>2, <3>1
  <2> HIDE DEF places, seqs, orders
  <2>5. ElementsAt(columns, places) = JoinOf(columns, Sorted(places, Len(columns) + 1))
    BY Zenon DEF ElementsAt, JoinOf
  <2> QED BY ONLY <2>3, <2>4, <2>5
<1>4. SortedByLog(columns, lifting) = FlattenSeq(seqs) /\ OrderByLog(logs, lifting) = FlattenSeq(orders)
  BY Zenon DEF SortedByLog, OrderByLog
<1> HIDE DEF orders, seqs
<1>5. \A l \in 1 .. lifting : orders[l] \in Seq(DOMAIN logs)
  BY <1>2
<1>6. /\ FlattenSeq(orders) \in Seq(DOMAIN logs)
      /\ FlattenSeq(seqs) = JoinOf(columns, FlattenSeq(orders))
  <2> DEFINE D == DOMAIN logs
  <2>1. JoinedBy(seqs, columns, orders, lifting, D)
    BY ONLY <1>3, <1>5 DEF JoinedBy
  <2> HIDE DEF D
  <2>3. FlattenSeq(orders) \in Seq(D) /\ FlattenSeq(seqs) = JoinOf(columns, FlattenSeq(orders))
    BY ONLY <1>1, <2>1, FlattenMap, lifting \in Nat \ {0}
  <2> QED BY ONLY <2>3 DEF D
<1> QED BY ONLY <1>4, <1>6

(* The order goes from the smallest column to the largest.                   *)
LEMMA OrderFacts ==
  ASSUME NEW logs, IsSeq(logs), NEW lifting \in Nat \ {0}, NEW order, order = OrderByLog(logs, lifting),
         \A c \in DOMAIN logs : logs[c] \in 1 .. lifting, Len(logs) # 0
  PROVE  /\ order # <<>>
         /\ \A a, b \in DOMAIN order : a <= b => logs[order[a]] <= logs[order[b]]
<1> DEFINE D == DOMAIN logs
           orders == [l \in 1 .. lifting |-> PlacesOfLog(logs, l)]
<1>1. IsSeq(orders) /\ Len(orders) = lifting
  BY SeqOfFunction
<1>2. ASSUME NEW l \in 1 .. lifting
      PROVE  /\ orders[l] \in Seq(D) /\ \A k \in DOMAIN orders[l] : logs[orders[l][k]] = l
             /\ \A c \in D : logs[c] = l => orders[l] # <<>>
  <2>1. orders[l] = PlacesOfLog(logs, l)
    OBVIOUS
  <2> HIDE DEF orders
  <2> QED BY <2>1, PlacesFacts
<1>3. order = FlattenSeq(orders)
  BY Zenon DEF OrderByLog
<1> HIDE DEF orders, D
<1>4. PICK flat : /\ FlattenSeq(orders) = flat[lifting]
                  /\ flat[1] = orders[1]
                  /\ \A i \in 1 .. lifting : i # 1 => flat[i] = flat[i - 1] \o orders[i]
  BY ONLY <1>1, FlattenRecursion, lifting \in Nat \ {0}
<1> DEFINE Good(i) == /\ flat[i] \in Seq(D)
                      /\ \A k \in DOMAIN flat[i] : logs[flat[i][k]] <= i
                      /\ \A a, b \in DOMAIN flat[i] : a <= b => logs[flat[i][a]] <= logs[flat[i][b]]
                      /\ \A c \in D : logs[c] <= i => flat[i] # <<>>
           N == {i \in Nat : i + 1 <= lifting => Good(i + 1)}
<1>5. \A c \in D : logs[c] \in 1 .. lifting
  BY DEF D
<1>6. 0 \in N
  <2>1. 1 \in 1 .. lifting /\ 0 + 1 = 1
    OBVIOUS
  <2>2. \A c \in D : logs[c] <= 1 => logs[c] = 1
    BY <1>5
  <2>3. Good(1)
    BY ONLY <1>2, <1>4, <2>1, <2>2
  <2> HIDE DEF Good
  <2> QED BY <2>1, <2>3
<1>7. ASSUME NEW i \in Nat, i \in N PROVE i + 1 \in N
  <2> SUFFICES ASSUME (i + 1) + 1 <= lifting PROVE Good((i + 1) + 1)
    OBVIOUS
  <2> DEFINE j == (i + 1) + 1
             x == flat[j - 1]
             y == orders[j]
             z == flat[j]
  <2>1. j \in 1 .. lifting /\ j # 1 /\ j - 1 = i + 1 /\ i + 1 <= lifting /\ j \in Nat
    OBVIOUS
  <2>2. Good(j - 1)
    BY <1>7, <2>1
  <2> HIDE DEF j
  <2>3. y \in Seq(D) /\ (\A k \in DOMAIN y : logs[y[k]] = j) /\ (\A c \in D : logs[c] = j => y # <<>>)
    BY ONLY <1>2, <2>1
  <2>4. z = x \o y
    BY ONLY <1>4, <2>1
  <2>5. /\ x \in Seq(D)
        /\ \A k \in DOMAIN x : logs[x[k]] <= j - 1
        /\ \A a, b \in DOMAIN x : a <= b => logs[x[a]] <= logs[x[b]]
        /\ \A c \in D : logs[c] <= j - 1 => x # <<>>
    BY ONLY <2>2
  <2> HIDE DEF x, y, z
  <2>6. z \in Seq(D) /\ DOMAIN z = 1 .. Len(z) /\ Len(z) = Len(x) + Len(y)
    <3>1. x \o y \in Seq(D) /\ Len(x \o y) = Len(x) + Len(y)
      BY ONLY <2>3, <2>5
    <3>2. z \in Seq(D) /\ Len(z) = Len(x) + Len(y)
      BY ONLY <2>4, <3>1
    <3> QED BY ONLY <3>2
  <2>7. /\ Len(x) \in Nat /\ Len(y) \in Nat /\ DOMAIN x = 1 .. Len(x) /\ DOMAIN y = 1 .. Len(y)
        /\ \A k \in DOMAIN x : x[k] \in D /\ \A m \in DOMAIN y : y[m] \in D
    BY ONLY <2>3, <2>5
  <2>8. ASSUME NEW k \in DOMAIN z
        PROVE  \/ k \in DOMAIN x /\ z[k] = x[k]
               \/ k > Len(x) /\ k - Len(x) \in DOMAIN y /\ z[k] = y[k - Len(x)]
    BY ONLY <2>3, <2>4, <2>5, <2>6, <2>7, <2>8
  <2>9. \A k \in DOMAIN z : logs[z[k]] \in Int /\ logs[z[k]] <= j
    <3> SUFFICES ASSUME NEW k \in DOMAIN z PROVE logs[z[k]] \in Int /\ logs[z[k]] <= j
      OBVIOUS
    <3>1. z[k] \in D
      BY ONLY <2>6, k \in DOMAIN z
    <3>2. logs[z[k]] \in Int
      BY ONLY <1>5, <3>1, lifting \in Nat \ {0}
    <3>3. logs[z[k]] <= j - 1 \/ logs[z[k]] = j
      BY ONLY <2>3, <2>5, <2>8, k \in DOMAIN z
    <3> QED BY ONLY <2>1, <3>2, <3>3, lifting \in Nat \ {0}
  <2>10. \A a, b \in DOMAIN z : a <= b => logs[z[a]] <= logs[z[b]]
    <3> SUFFICES ASSUME NEW a \in DOMAIN z, NEW b \in DOMAIN z, a <= b PROVE logs[z[a]] <= logs[z[b]]
      OBVIOUS
    <3>1. CASE b \in DOMAIN x /\ z[b] = x[b]
      <4>1. a \in DOMAIN x
        BY ONLY <2>6, <2>7, <3>1, a \in DOMAIN z, b \in DOMAIN z, a <= b
      <4>2. z[a] = x[a]
        BY ONLY <2>7, <2>8, <4>1, a \in DOMAIN z
      <4> QED BY ONLY <2>5, <3>1, <4>1, <4>2, a <= b
    <3>2. CASE b > Len(x) /\ b - Len(x) \in DOMAIN y /\ z[b] = y[b - Len(x)]
      <4>1. logs[z[b]] = j
        BY ONLY <2>3, <3>2
      <4> QED BY ONLY <2>9, <4>1, a \in DOMAIN z
    <3> QED BY ONLY <2>8, <3>1, <3>2, b \in DOMAIN z
  <2>11. \A c \in D : logs[c] <= j => z # <<>>
    <3> SUFFICES ASSUME NEW c \in D, logs[c] <= j PROVE z # <<>>
      OBVIOUS
    <3>1. x # <<>> \/ y # <<>>
      <4>1. logs[c] <= j - 1 \/ logs[c] = j
        BY ONLY <1>5, <2>1, c \in D, logs[c] <= j, lifting \in Nat \ {0}
      <4> QED BY ONLY <2>3, <2>5, <4>1, c \in D
    <3>2. Len(x) > 0 \/ Len(y) > 0
      BY ONLY <2>3, <2>5, <3>1
    <3> QED BY ONLY <2>6, <2>7, <3>2
  <2> QED BY ONLY <2>6, <2>9, <2>10, <2>11 DEF z, j
<1> HIDE DEF N
<1>8. lifting - 1 \in N /\ (lifting - 1) + 1 = lifting
  <2>1. \A i \in Nat : i \in N
    BY ONLY <1>6, <1>7, Counting
  <2>2. lifting - 1 \in Nat /\ (lifting - 1) + 1 = lifting
    OBVIOUS
  <2> QED BY ONLY <2>1, <2>2
<1>9. Good(lifting)
  BY <1>8 DEF N
<1>10. \E c \in D : logs[c] <= lifting
  <2>1. 1 \in D
    <3>1. DOMAIN logs = 1 .. Len(logs) /\ Len(logs) \in Nat
      BY SeqFacts
    <3> QED BY <3>1 DEF D
  <2> QED BY ONLY <1>5, <2>1, lifting \in Nat \ {0}
<1> QED BY ONLY <1>3, <1>4, <1>9, <1>10

(* The row a row is lifted from, as its half and its parity.                 *)
LEMMA LiftFacts ==
  ASSUME NEW x \in Nat, NEW shift \in Nat
  PROVE  /\ Lift(x, shift) \in Nat /\ Lift(x, 0) = x
         /\ Lift(x, shift) \div 2 = x \div 2 ^ (shift + 1)
         /\ Lift(x, shift) % 2 = x % 2
<1>1. \A y \in Nat : y = 2 * (y \div 2) + (y % 2) /\ y % 2 \in 0 .. 1 /\ y \div 2 \in Nat
  OBVIOUS
<1>2. 2 ^ 1 = 2
  <2>1. 2 ^ (0 + 1) = 2 * 2 ^ 0 /\ 2 ^ 0 = 1
    BY PowerDoubles
  <2> QED BY <2>1
<1> DEFINE h == x \div 2 ^ (shift + 1)
           r == x % 2
<1>3. h \in Nat
  <2>1. shift + 1 \in Nat
    OBVIOUS
  <2>2. 2 ^ (shift + 1) \in Nat \ {0}
    <3> DEFINE n == shift + 1
    <3>1. n \in Nat
      BY <2>1
    <3> HIDE DEF n
    <3>2. 2 ^ n \in Nat /\ 2 ^ n >= 1
      BY ONLY <3>1, PowerDoubles
    <3>3. 2 ^ n \in Nat \ {0}
      BY ONLY <3>2
    <3> QED BY ONLY <3>3 DEF n
  <2> QED BY <2>2, Division
<1>4. r \in 0 .. 1
  BY <1>1
<1>5. Lift(x, shift) = h * 2 + r
  BY DEF Lift
<1> HIDE DEF h, r
<1>6. h * 2 + r \in Nat /\ (h * 2 + r) \div 2 = h /\ (h * 2 + r) % 2 = r
  BY ONLY <1>3, <1>4
<1>7. Lift(x, 0) = x
  <2>1. 2 ^ (0 + 1) = 2
    <3>1. 0 + 1 = 1
      OBVIOUS
    <3> QED BY ONLY <1>2, <3>1
  <2>2. Lift(x, 0) = (x \div 2 ^ (0 + 1)) * 2 + (x % 2)
    BY Zenon DEF Lift
  <2>3. Lift(x, 0) = (x \div 2) * 2 + (x % 2)
    BY ONLY <2>1, <2>2
  <2>4. x = 2 * (x \div 2) + (x % 2) /\ x % 2 \in 0 .. 1 /\ x \div 2 \in Nat
    BY <1>1
  <2> QED BY ONLY <2>3, <2>4, x \in Nat
<1> QED BY <1>5, <1>6, <1>7 DEF h, r

(* Lifting twice is lifting by both shifts.                                  *)
LEMMA LiftTwice ==
  ASSUME NEW x \in Nat, NEW a \in Nat, NEW b \in Nat
  PROVE  Lift(Lift(x, a), b) = Lift(x, a + b)
<1> DEFINE y == Lift(x, a)
<1>1. y \in Nat /\ y \div 2 = x \div 2 ^ (a + 1) /\ y % 2 = x % 2
  BY LiftFacts
<1> HIDE DEF y
<1>2. y \div 2 ^ (b + 1) = x \div 2 ^ ((a + b) + 1)
  <2>1. (y \div 2) \div 2 ^ b = y \div 2 ^ (b + 1)
    <3>1. 2 ^ (b + 1) = 2 * 2 ^ b /\ 2 ^ b \in Nat /\ 2 ^ b >= 1
      BY PowerDoubles
    <3> DEFINE m == 2 ^ b
    <3> HIDE DEF m
    <3>2. m \in Nat \ {0} /\ 2 ^ (b + 1) = 2 * m
      BY <3>1 DEF m
    <3>3. (y \div 2) \div m = y \div (2 * m)
      <4>1. 2 \in Nat \ {0}
        OBVIOUS
      <4> QED BY ONLY <1>1, <3>2, <4>1, DivideTwice
    <3> QED BY ONLY <3>2, <3>3 DEF m
  <2>2. (x \div 2 ^ (a + 1)) \div 2 ^ b = x \div 2 ^ ((a + b) + 1)
    <3> DEFINE m == a + 1
    <3>1. m \in Nat /\ m + b = (a + b) + 1
      OBVIOUS
    <3> HIDE DEF m
    <3>2. (x \div 2 ^ m) \div 2 ^ b = x \div 2 ^ (m + b)
      BY ONLY <3>1, ShiftTwice, x \in Nat, b \in Nat, Zenon
    <3> QED BY ONLY <3>1, <3>2 DEF m
  <2> QED BY ONLY <1>1, <2>1, <2>2
<1>3. Lift(y, b) = (y \div 2 ^ (b + 1)) * 2 + (y % 2)
  BY Zenon DEF Lift
<1>4. Lift(x, a + b) = (x \div 2 ^ ((a + b) + 1)) * 2 + (x % 2)
  BY Zenon DEF Lift
<1>5. Lift(y, b) = Lift(x, a + b)
  BY ONLY <1>1, <1>2, <1>3, <1>4
<1> QED BY <1>5 DEF y

(* Lifted rows are rows of the smaller column.                               *)
LEMMA LiftInRange ==
  ASSUME NEW log \in Nat \ {0}, NEW shift \in Nat, NEW x \in 0 .. 2 ^ (log + shift) - 1
  PROVE  Lift(x, shift) \in 0 .. 2 ^ log - 1
<1> DEFINE a == shift + 1
           b == log - 1
<1>1. a \in Nat /\ b \in Nat /\ a + b = log + shift /\ b + 1 = log
  OBVIOUS
<1>2. x \in 0 .. 2 ^ (a + b) - 1
  BY ONLY <1>1, x \in 0 .. 2 ^ (log + shift) - 1
<1>3. x \in Nat
  <2>1. log + shift \in Nat
    OBVIOUS
  <2> DEFINE n == log + shift
  <2> HIDE DEF n
  <2>2. x \in 0 .. 2 ^ n - 1 /\ n \in Nat
    BY <2>1 DEF n
  <2>3. 2 ^ n \in Nat
    BY ONLY <2>2, PowerDoubles
  <2> QED BY ONLY <2>2, <2>3
<1>4. Lift(x, shift) = (x \div 2 ^ a) * 2 + (x % 2) /\ x % 2 \in 0 .. 1
  <2>1. Lift(x, shift) = (x \div 2 ^ a) * 2 + (x % 2)
    BY Zenon DEF Lift
  <2>2. x % 2 \in 0 .. 1
    BY <1>3
  <2> QED BY <2>1, <2>2
<1> HIDE DEF a
<1>5. x \div 2 ^ a \in 0 .. 2 ^ b - 1
  <2> HIDE DEF b
  <2> QED BY ONLY <1>1, <1>2, ShiftInRange
<1>6. 2 ^ log = 2 * 2 ^ b /\ 2 ^ b \in Nat
  <2> HIDE DEF b
  <2>1. 2 ^ (b + 1) = 2 * 2 ^ b /\ 2 ^ b \in Nat
    BY ONLY <1>1, PowerDoubles
  <2> QED BY ONLY <1>1, <2>1
<1> DEFINE q == x \div 2 ^ a
           r == x % 2
           m == 2 ^ b
           M == 2 ^ log
<1> HIDE DEF q, r, m, M
<1>7. Lift(x, shift) = q * 2 + r /\ r \in 0 .. 1 /\ q \in 0 .. m - 1 /\ M = 2 * m /\ m \in Nat
  BY ONLY <1>4, <1>5, <1>6 DEF q, r, m, M
<1>8. q * 2 + r \in 0 .. M - 1
  BY ONLY <1>7
<1> QED BY ONLY <1>7, <1>8 DEF M

(* The size of the hashers' layer after n columns.                           *)
LogAfter(columns, n) == IF n = 0 THEN 1 ELSE columns[n].log

(* Columns whose sizes do not decrease.                                      *)
SortedColumns(columns, last) ==
  /\ \A n \in 1 .. last : columns[n].log \in Nat \ {0}
  /\ \A a, b \in 1 .. last : a <= b => columns[a].log <= columns[b].log

(* The sizes of the hashers' layers do not decrease either.                  *)
LEMMA LogFacts ==
  ASSUME NEW columns, NEW last \in Nat, SortedColumns(columns, last)
  PROVE  /\ LogAfter(columns, 0) = 1
         /\ \A n \in 1 .. last : LogAfter(columns, n) = columns[n].log
                                  /\ LogAfter(columns, n) \in Nat \ {0}
         /\ \A a, b \in 0 .. last : a <= b => LogAfter(columns, b) - LogAfter(columns, a) \in Nat
<1> DEFINE log(n) == LogAfter(columns, n)
<1>1. /\ \A n \in 1 .. last : columns[n].log \in Nat \ {0}
      /\ \A a, b \in 1 .. last : a <= b => columns[a].log <= columns[b].log
  BY DEF SortedColumns
<1>2. /\ log(0) = 1 /\ \A n \in 1 .. last : log(n) = columns[n].log /\ log(n) \in Nat \ {0}
  <2>1. \A n \in 1 .. last : n # 0
    OBVIOUS
  <2> QED BY <1>1, <2>1 DEF LogAfter
<1>3. \A a, b \in 0 .. last : a <= b => log(b) - log(a) \in Nat
  <2> SUFFICES ASSUME NEW a \in 0 .. last, NEW b \in 0 .. last, a <= b PROVE log(b) - log(a) \in Nat
    OBVIOUS
  <2>1. CASE a = 0 /\ b = 0
    BY ONLY <1>2, <2>1
  <2>2. CASE a = 0 /\ b # 0
    <3>1. b \in 1 .. last
      BY <2>2
    <3> HIDE DEF log
    <3> QED BY ONLY <1>2, <2>2, <3>1
  <2>3. CASE a # 0
    <3>1. a \in 1 .. last /\ b \in 1 .. last
      BY <2>3
    <3>2. log(a) <= log(b)
      BY ONLY <1>1, <1>2, <3>1, a <= b
    <3> HIDE DEF log
    <3> QED BY ONLY <1>2, <3>1, <3>2
  <2> QED BY <2>1, <2>2, <2>3
<1> QED BY ONLY <1>2, <1>3

(* The row a hasher absorbs, unrolled.                                       *)
Absorbs(row, columns, last) ==
  /\ \A i \in Nat : row[<<0, i>>] = <<>>
  /\ \A n \in 1 .. last : \A i \in Nat :
       row[<<n, i>>] =
         Append(row[<<n - 1, Lift(i, LogAfter(columns, n) - LogAfter(columns, n - 1))>>],
                columns[n].at[i])
(* The rows of build_leaves take the next column from the layer below.       *)
LEMMA RowRecursion ==
  ASSUME NEW columns, NEW last \in Nat, Len(columns) = last,
         SortedColumns(columns, last),
         NEW row, row = AbsorbedRows(columns)
  PROVE  Absorbs(row, columns, last)
<1> DEFINE Shift(n) == LogAfter(columns, n) - LogAfter(columns, n - 1)
           Row(f, s) == IF s[1] = 0 THEN <<>>
                        ELSE Append(f[<<s[1] - 1, Lift(s[2], Shift(s[1]))>>], columns[s[1]].at[s[2]])
           Upto(m) == (0 .. m) \X Nat
           Fills(f, m) == f = [s \in Upto(m) |-> Row(f, s)]
           Found == {m \in Nat : m <= last => \E f : Fills(f, m)}
<1>0. \A n \in 1 .. last : Shift(n) \in Nat
  <2>1. \A a, b \in 0 .. last : a <= b => LogAfter(columns, b) - LogAfter(columns, a) \in Nat
    BY LogFacts
  <2>2. \A n \in 1 .. last : n \in 0 .. last /\ n - 1 \in 0 .. last /\ n - 1 <= n
    OBVIOUS
  <2> QED BY ONLY <2>1, <2>2
<1>1. 0 \in Found
  <2>1. \A s \in Upto(0) : s[1] = 0
    OBVIOUS
  <2> DEFINE g == [s \in Upto(0) |-> <<>>]
  <2> HIDE DEF Upto
  <2>2. g = [s \in Upto(0) |-> Row(g, s)]
    <3> HIDE DEF g
    <3>1. \A s \in Upto(0) : Row(g, s) = <<>>
      BY ONLY <2>1
    <3> HIDE DEF Row
    <3> QED BY ONLY <3>1 DEF g
  <2> QED BY <2>2
<1>2. ASSUME NEW m \in Nat, m \in Found PROVE m + 1 \in Found
  <2> SUFFICES ASSUME m + 1 <= last PROVE \E f : Fills(f, m + 1)
    <3> HIDE DEF Fills
    <3> QED OBVIOUS
  <2>0. \E f : Fills(f, m)
    <3> HIDE DEF Fills
    <3> QED BY <1>2
  <2>1. PICK f : f = [s \in Upto(m) |-> Row(f, s)]
    <3> HIDE DEF Row, Upto
    <3> QED BY <2>0
  <2> DEFINE g == [s \in Upto(m + 1) |-> IF s[1] = m + 1 THEN Row(f, s) ELSE f[s]]
  <2>3. /\ \A s \in Upto(m) : s \in Upto(m + 1) /\ s[1] # m + 1
        /\ \A s \in Upto(m + 1) : s[1] # m + 1 => s \in Upto(m)
        /\ \A s \in Upto(m + 1) : s[1] # 0 => <<s[1] - 1, Lift(s[2], Shift(s[1]))>> \in Upto(m)
    <3>1. \A s \in Upto(m + 1) : s[1] \in 0 .. m + 1 /\ s[2] \in Nat /\ s = <<s[1], s[2]>>
      OBVIOUS
    <3>2. Upto(m) = (0 .. m) \X Nat /\ Upto(m + 1) = (0 .. m + 1) \X Nat
      OBVIOUS
    <3> HIDE DEF Upto
    <3>3. \A s \in Upto(m) : s \in Upto(m + 1) /\ s[1] # m + 1
      BY ONLY <3>2, m \in Nat
    <3>4. \A s \in Upto(m + 1) : s[1] # m + 1 => s \in Upto(m)
      BY ONLY <3>1, <3>2, m \in Nat
    <3>5. ASSUME NEW s \in Upto(m + 1), s[1] # 0
          PROVE  <<s[1] - 1, Lift(s[2], Shift(s[1]))>> \in Upto(m)
      <4>1. s[1] \in 1 .. last /\ s[1] - 1 \in 0 .. m /\ s[2] \in Nat
        BY ONLY <3>1, <3>5, m + 1 <= last, m \in Nat, last \in Nat, s \in Upto(m + 1)
      <4>2. Shift(s[1]) \in Nat
        BY ONLY <1>0, <4>1
      <4> HIDE DEF Shift
      <4>3. Lift(s[2], Shift(s[1])) \in Nat
        BY ONLY <4>1, <4>2, LiftFacts
      <4> QED BY ONLY <3>2, <4>1, <4>3
    <3> HIDE DEF Shift
    <3> QED BY ONLY <3>3, <3>4, <3>5
  <2> HIDE DEF Upto, Shift
  <2>4. \A s \in Upto(m) : f[s] = Row(f, s)
    <3> HIDE DEF Row
    <3> QED BY ONLY <2>1
  <2>5. \A s \in Upto(m) : g[s] = f[s]
    <3> HIDE DEF Row
    <3> QED BY ONLY <2>3
  <2>6. \A s \in Upto(m + 1) : Row(g, s) = Row(f, s)
    <3> HIDE DEF g
    <3> QED BY ONLY <2>3, <2>5
  <2>7. \A s \in Upto(m + 1) : g[s] = Row(g, s)
    <3> HIDE DEF Row
    <3> QED BY ONLY <2>3, <2>4, <2>6
  <2>8. g = [s \in Upto(m + 1) |-> g[s]]
    <3> HIDE DEF Row
    <3> QED OBVIOUS
  <2> HIDE DEF g, Row
  <2>9. g = [s \in Upto(m + 1) |-> Row(g, s)]
    BY ONLY <2>7, <2>8
  <2> QED BY <2>9
<1> HIDE DEF Found
<1>3. last \in Found
  BY <1>1, <1>2, Counting
<1>5. \E f : f = [s \in (0 .. last) \X Nat |-> Row(f, s)]
  <2>1. \E f : Fills(f, last)
    <3> HIDE DEF Fills
    <3> QED BY <1>3 DEF Found
  <2> HIDE DEF Row
  <2> QED BY <2>1
<1> DEFINE R == CHOOSE f : f = [s \in (0 .. last) \X Nat |-> Row(f, s)]
<1>6. R = [s \in (0 .. last) \X Nat |-> Row(R, s)]
  <2> HIDE DEF Row
  <2> QED BY <1>5, Zenon
<1>7. row = R
  <2>1. AbsorbedRows(columns) =
          CHOOSE f : f = [s \in (0 .. Len(columns)) \X Nat |-> Row(f, s)]
    BY Zenon DEF AbsorbedRows, LogAfter
  <2> HIDE DEF Row
  <2> QED BY ONLY <2>1, Len(columns) = last, row = AbsorbedRows(columns)
<1> HIDE DEF R
<1>8. \A s \in (0 .. last) \X Nat : row[s] = Row(row, s)
  <2> HIDE DEF Row
  <2> QED BY ONLY <1>6, <1>7
<1>9. ASSUME NEW i \in Nat PROVE row[<<0, i>>] = <<>>
  <2>1. <<0, i>> \in (0 .. last) \X Nat
    OBVIOUS
  <2> QED BY ONLY <1>8, <2>1
<1>10. ASSUME NEW n \in 1 .. last, NEW i \in Nat
       PROVE  row[<<n, i>>] = Append(row[<<n - 1, Lift(i, Shift(n))>>], columns[n].at[i])
  <2>1. <<n, i>> \in (0 .. last) \X Nat /\ n # 0
    OBVIOUS
  <2> HIDE DEF Shift
  <2> QED BY ONLY <1>8, <2>1
<1> QED BY ONLY <1>9, <1>10 DEF Absorbs

(* The cells of the first n columns that one row is lifted from.             *)
LiftedRow(columns, n, i) ==
  [m \in 1 .. n |-> columns[m].at[Lift(i, columns[n].log - columns[m].log)]]

(* A hasher absorbs the cells its row is lifted from, one of each column.    *)
LEMMA RowIs ==
  ASSUME NEW columns, NEW last \in Nat, Len(columns) = last, SortedColumns(columns, last),
         NEW row, row = AbsorbedRows(columns), NEW count \in 1 .. last, NEW at \in Nat
  PROVE  row[<<count, at>>] = LiftedRow(columns, count, at)
<1> DEFINE log(n) == LogAfter(columns, n)
           Ok(n) == \A i \in Nat : row[<<n, i>>] = [m \in 1 .. n |-> columns[m].at[Lift(i, log(n) - log(m))]]
           N == {n \in Nat : n <= last => Ok(n)}
<1>2. /\ log(0) = 1 /\ \A n \in 1 .. last : log(n) = columns[n].log /\ log(n) \in Nat \ {0}
  BY LogFacts
<1>3. \A a, b \in 0 .. last : a <= b => log(b) - log(a) \in Nat
  BY LogFacts
<1>4. /\ \A i \in Nat : row[<<0, i>>] = <<>>
      /\ \A n \in 1 .. last : \A i \in Nat :
           row[<<n, i>>] = Append(row[<<n - 1, Lift(i, log(n) - log(n - 1))>>], columns[n].at[i])
  <2>1. Absorbs(row, columns, last)
    BY RowRecursion
  <2> QED BY ONLY <2>1 DEF Absorbs
<1> HIDE DEF log
<1>5. 0 \in N
  <2>1. \A i \in Nat : [m \in 1 .. 0 |-> columns[m].at[Lift(i, log(0) - log(m))]] = <<>>
    OBVIOUS
  <2> QED BY <1>4, <2>1
<1>6. ASSUME NEW n \in Nat, n \in N PROVE n + 1 \in N
  <2> SUFFICES ASSUME n + 1 <= last PROVE Ok(n + 1)
    <3> HIDE DEF Ok
    <3> QED OBVIOUS
  <2>1. Ok(n)
    <3>1. n <= last
      BY ONLY n + 1 <= last, n \in Nat, last \in Nat
    <3> HIDE DEF Ok
    <3> QED BY <1>6, <3>1
  <2> DEFINE p == n + 1
  <2>2. p \in 1 .. last /\ p - 1 = n /\ p \in 0 .. last /\ n \in 0 .. last /\ n <= p
    BY ONLY n + 1 <= last, n \in Nat, last \in Nat
  <2> HIDE DEF p
  <2>3. ASSUME NEW i \in Nat
        PROVE  row[<<p, i>>] = [m \in 1 .. p |-> columns[m].at[Lift(i, log(p) - log(m))]]
    <3> DEFINE d == log(p) - log(n)
               j == Lift(i, d)
               before == row[<<n, j>>]
               x == columns[p].at[i]
               after == row[<<p, i>>]
    <3>1. d \in Nat
      BY ONLY <1>3, <2>2
    <3> HIDE DEF d
    <3>2. j \in Nat
      BY ONLY <3>1, LiftFacts, i \in Nat
    <3>3. after = Append(before, x)
      BY ONLY <1>4, <2>2, i \in Nat DEF d
    <3> HIDE DEF j, after, x
    <3>4. before = [m \in 1 .. n |-> columns[m].at[Lift(j, log(n) - log(m))]]
      BY ONLY <2>1, <3>2
    <3> HIDE DEF before
    <3>5. IsSeq(before) /\ Len(before) = n
      BY ONLY <3>4, SeqOfFunction, n \in Nat
    <3>6. /\ IsSeq(after) /\ Len(after) = p /\ after[p] = x
          /\ \A m \in 1 .. n : after[m] = before[m]
      <4>1. n + 1 = p
        BY ONLY <2>2, n \in Nat, last \in Nat
      <4> QED BY ONLY <3>3, <3>5, <4>1, AppendFacts
    <3>7. after = [m \in 1 .. p |-> after[m]]
      BY ONLY <3>6, SeqFacts
    <3>8. ASSUME NEW m \in 1 .. p PROVE after[m] = columns[m].at[Lift(i, log(p) - log(m))]
      <4>1. CASE m = p
        <5>1. log(p) - log(m) = 0 /\ 0 \in Nat
          <6>1. log(p) \in Nat
            BY ONLY <1>2, <2>2
          <6> QED BY ONLY <4>1, <6>1
        <5>2. Lift(i, 0) = i
          BY ONLY <5>1, LiftFacts, i \in Nat
        <5> QED BY ONLY <3>6, <4>1, <5>1, <5>2 DEF x
      <4>2. CASE m # p
        <5>1. m \in 1 .. n /\ m \in 0 .. last /\ m <= n
          BY ONLY <2>2, <4>2, m \in 1 .. p, last \in Nat
        <5>2. log(n) - log(m) \in Nat
          BY ONLY <1>3, <2>2, <5>1
        <5> DEFINE e == log(n) - log(m)
        <5>3. d + e = log(p) - log(m)
          <6>1. log(p) \in Nat /\ log(n) \in Nat /\ log(m) \in Nat
            BY ONLY <1>2, <2>2, <5>1, last \in Nat, n \in Nat
          <6> QED BY ONLY <6>1 DEF d
        <5>4. e \in Nat
          BY <5>2
        <5>5. after[m] = columns[m].at[Lift(j, e)]
          BY ONLY <3>4, <3>6, <5>1
        <5> HIDE DEF e
        <5>6. Lift(j, e) = Lift(i, d + e)
          BY ONLY <3>1, <5>4, LiftTwice, i \in Nat DEF j
        <5> QED BY ONLY <5>3, <5>5, <5>6
      <4> QED BY <4>1, <4>2
    <3>9. after = [m \in 1 .. p |-> columns[m].at[Lift(i, log(p) - log(m))]]
      BY ONLY <3>7, <3>8
    <3> QED BY ONLY <3>9 DEF after
  <2> QED BY ONLY <2>3 DEF p
<1> HIDE DEF Ok
<1>7. \A n \in Nat : n \in N
  <2> HIDE DEF N
  <2> QED BY ONLY <1>5, <1>6, Counting
<1>8. ASSUME NEW n \in 1 .. last, NEW i \in Nat PROVE row[<<n, i>>] = LiftedRow(columns, n, i)
  <2>1. Ok(n)
    <3>1. n \in Nat /\ n <= last
      OBVIOUS
    <3> QED BY ONLY <1>7, <3>1
  <2>2. row[<<n, i>>] = [m \in 1 .. n |-> columns[m].at[Lift(i, log(n) - log(m))]]
    BY ONLY <2>1, i \in Nat DEF Ok
  <2>3. \A m \in 1 .. n : log(m) = columns[m].log /\ log(n) = columns[n].log
    <3>1. \A m \in 1 .. n : m \in 1 .. last
      OBVIOUS
    <3> QED BY ONLY <1>2, <3>1, n \in 1 .. last
  <2> QED BY ONLY <2>2, <2>3 DEF LiftedRow
<1> QED BY <1>8

(* A join of values at places.                                               *)
LEMMA JoinFacts ==
  ASSUME NEW D, NEW order \in Seq(D), NEW f, NEW join, join = JoinOf(f, order)
  PROVE  /\ IsSeq(join) /\ Len(join) = Len(order) /\ Len(order) \in Nat
         /\ DOMAIN join = 1 .. Len(order) /\ DOMAIN order = 1 .. Len(order)
         /\ \A m \in 1 .. Len(order) : join[m] = f[order[m]] /\ order[m] \in D
<1>1. Len(order) \in Nat /\ DOMAIN order = 1 .. Len(order) /\ \A m \in 1 .. Len(order) : order[m] \in D
  OBVIOUS
<1>2. join = [m \in 1 .. Len(order) |-> f[order[m]]]
  BY <1>1 DEF JoinOf
<1>3. IsSeq(join) /\ Len(join) = Len(order)
  BY ONLY <1>1, <1>2, SeqOfFunction
<1> QED BY ONLY <1>1, <1>2, <1>3

(* The leaves a low-memory opening computes again, for any set of positions, *)
(* are those the tree was committed with.                                    *)
LEMMA LeavesGiven ==
  ASSUME NEW t, NEW logs, logs = setting.columns[t], IsSeq(logs), Len(logs) # 0,
         NEW h \in Nat \ {0}, h = Height(t), \A c \in DOMAIN logs : logs[c] \in 1 .. h
  PROVE  GivesLeaves([b \in SUBSET (0 .. 2 ^ h - 1) |-> compute_leaf_hashes(t, b)], TraceLeaves(t), h)
<1> DEFINE cols == Columns(t)
           named == [c \in DOMAIN logs |-> [log |-> logs[c], column |-> c]]
           order == OrderByLog(logs, h)
           sorted == SortedByLog(cols, h)
           tagged == SortedByLog(named, h)
           n == Len(order)
<1>1. /\ IsSeq(cols) /\ Len(cols) = Len(logs) /\ DOMAIN logs = 1 .. Len(logs)
      /\ \A c \in DOMAIN logs : /\ cols[c].log = logs[c]
                                /\ cols[c].at = [i \in 0 .. 2 ^ logs[c] - 1 |-> <<t, c, i>>]
  <2>1. Len(logs) \in Nat /\ DOMAIN logs = 1 .. Len(logs)
    BY SeqFacts
  <2>2. cols = [c \in DOMAIN logs |-> [log |-> logs[c], at |-> [i \in 0 .. 2 ^ logs[c] - 1 |-> <<t, c, i>>]]]
    BY Zenon DEF Columns, Column
  <2> HIDE DEF cols
  <2>3. IsSeq(cols) /\ Len(cols) = Len(logs)
    BY ONLY <2>1, <2>2, SeqOfFunction
  <2> QED BY ONLY <2>1, <2>2, <2>3
<1>2. /\ IsSeq(named) /\ Len(named) = Len(logs)
      /\ \A c \in DOMAIN logs : named[c].log = logs[c] /\ named[c].column = c
  <2>1. Len(logs) \in Nat /\ DOMAIN logs = 1 .. Len(logs)
    BY SeqFacts
  <2> QED BY <2>1, SeqOfFunction
<1> HIDE DEF cols, named
<1>3. order \in Seq(DOMAIN logs) /\ sorted = JoinOf(cols, order) /\ tagged = JoinOf(named, order)
  <2>1. order \in Seq(DOMAIN logs) /\ sorted = JoinOf(cols, order)
    BY <1>1, SortedByLogIs
  <2>2. tagged = JoinOf(named, order)
    BY <1>2, SortedByLogIs
  <2> QED BY <2>1, <2>2
<1>4. order # <<>> /\ \A a, b \in DOMAIN order : a <= b => logs[order[a]] <= logs[order[b]]
  <2> DEFINE o == order
  <2>1. o = OrderByLog(logs, h)
    OBVIOUS
  <2> HIDE DEF o
  <2>2. o # <<>> /\ \A a, b \in DOMAIN o : a <= b => logs[o[a]] <= logs[o[b]]
    BY <2>1, OrderFacts
  <2> QED BY <2>2 DEF o
<1> HIDE DEF order, sorted, tagged
<1>5. /\ IsSeq(sorted) /\ Len(sorted) = n /\ n \in Nat \ {0} /\ DOMAIN order = 1 .. n
      /\ \A m \in 1 .. n : sorted[m] = cols[order[m]] /\ order[m] \in DOMAIN logs
  <2> DEFINE D == DOMAIN logs
  <2>1. order \in Seq(D)
    BY <1>3
  <2> HIDE DEF D
  <2>2. /\ IsSeq(sorted) /\ Len(sorted) = n /\ n \in Nat /\ DOMAIN order = 1 .. n
        /\ \A m \in 1 .. n : sorted[m] = cols[order[m]] /\ order[m] \in D
    BY ONLY <1>3, <2>1, JoinFacts
  <2>3. n # 0
    BY ONLY <1>4, <2>1
  <2> QED BY ONLY <2>2, <2>3 DEF D
<1>6. /\ DOMAIN tagged = 1 .. n
      /\ \A m \in 1 .. n : tagged[m] = named[order[m]]
  <2> DEFINE D == DOMAIN logs
  <2>1. order \in Seq(D)
    BY <1>3
  <2> HIDE DEF D
  <2> QED BY ONLY <1>3, <2>1, JoinFacts
<1> DEFINE log(m) == logs[order[m]]
<1>7. \A m \in 1 .. n : /\ sorted[m].log = log(m) /\ log(m) \in Nat \ {0} /\ h - log(m) \in Nat
                        /\ sorted[m].at = [i \in 0 .. 2 ^ log(m) - 1 |-> <<t, order[m], i>>]
                        /\ tagged[m].log = log(m) /\ tagged[m].column = order[m]
  <2> SUFFICES ASSUME NEW m \in 1 .. n
               PROVE  /\ sorted[m].log = log(m) /\ log(m) \in Nat \ {0} /\ h - log(m) \in Nat
                      /\ sorted[m].at = [i \in 0 .. 2 ^ log(m) - 1 |-> <<t, order[m], i>>]
                      /\ tagged[m].log = log(m) /\ tagged[m].column = order[m]
    OBVIOUS
  <2> DEFINE c == order[m]
  <2>1. c \in DOMAIN logs /\ sorted[m] = cols[c] /\ tagged[m] = named[c]
    BY <1>5, <1>6
  <2> HIDE DEF c
  <2>2. logs[c] \in 1 .. h
    BY <2>1
  <2>3. /\ sorted[m].log = logs[c]
        /\ sorted[m].at = [i \in 0 .. 2 ^ logs[c] - 1 |-> <<t, c, i>>]
        /\ tagged[m].log = logs[c] /\ tagged[m].column = c
    BY ONLY <1>1, <1>2, <2>1
  <2>4. logs[c] \in Nat \ {0} /\ h - logs[c] \in Nat
    BY ONLY <2>2, h \in Nat \ {0}
  <2> QED BY ONLY <2>3, <2>4 DEF c
<1>8. \A a, b \in 1 .. n : a <= b => log(b) - log(a) \in Nat /\ log(a) <= log(b)
  <2> SUFFICES ASSUME NEW a \in 1 .. n, NEW b \in 1 .. n, a <= b
               PROVE  log(b) - log(a) \in Nat /\ log(a) <= log(b)
    OBVIOUS
  <2>1. log(a) <= log(b)
    BY ONLY <1>4, <1>5, a \in 1 .. n, b \in 1 .. n, a <= b
  <2>2. log(a) \in Nat /\ log(b) \in Nat
    BY ONLY <1>7, a \in 1 .. n, b \in 1 .. n
  <2> HIDE DEF log
  <2> QED BY ONLY <2>1, <2>2
<1>9. SortedColumns(sorted, n)
  BY ONLY <1>7, <1>8 DEF SortedColumns
<1> DEFINE rows == AbsorbedRows(sorted)
<1>10. \A i \in Nat : rows[<<n, i>>] = LiftedRow(sorted, n, i)
  <2>1. n \in 1 .. n
    BY ONLY <1>5
  <2> DEFINE row == rows
  <2>2. row = AbsorbedRows(sorted)
    OBVIOUS
  <2> HIDE DEF row
  <2>3. ASSUME NEW i \in Nat PROVE row[<<n, i>>] = LiftedRow(sorted, n, i)
    BY ONLY <1>5, <1>9, <2>1, <2>2, RowIs, i \in Nat
  <2> QED BY ONLY <2>3 DEF row
<1>11. TraceLeaves(t) = [i \in 0 .. 2 ^ h - 1 |-> Leaf(rows[<<n, Lift(i, h - sorted[n].log)>>])]
  <2>1. TraceLeaves(t) = build_leaves(sorted, h)
    BY Zenon DEF TraceLeaves, sorted, cols
  <2>2. sorted # <<>>
    BY ONLY <1>5
  <2>3. build_leaves(sorted, h) =
          [i \in 0 .. 2 ^ h - 1 |-> Leaf(rows[<<Len(sorted), Lift(i, h - sorted[Len(sorted)].log)>>])]
    BY <2>2, Zenon DEF build_leaves
  <2> HIDE DEF rows
  <2> QED BY ONLY <1>5, <2>1, <2>3
<1> HIDE DEF rows
<1>12. ASSUME NEW p \in 0 .. 2 ^ h - 1
       PROVE  TraceLeaves(t)[p] = Leaf([m \in 1 .. n |-> <<t, order[m], Lift(p, h - log(m))>>])
  <2> DEFINE y == Lift(p, h - log(n))
  <2>1. n \in 1 .. n
    BY ONLY <1>5
  <2>2. p \in Nat
    <3>1. 2 ^ h \in Nat
      BY PowerDoubles
    <3> QED BY <3>1
  <2>3. h - log(n) \in Nat /\ sorted[n].log = log(n)
    BY ONLY <1>7, <2>1
  <2> DEFINE a == h - log(n)
  <2>4. a \in Nat
    BY <2>3
  <2> HIDE DEF a
  <2>5. Lift(p, a) \in Nat
    BY ONLY <2>2, <2>4, LiftFacts
  <2>6. y \in Nat /\ y = Lift(p, a)
    BY ONLY <2>5 DEF a
  <2>7. TraceLeaves(t)[p] = Leaf(rows[<<n, y>>])
    BY ONLY <1>11, <2>3, p \in 0 .. 2 ^ h - 1
  <2> HIDE DEF y
  <2>8. rows[<<n, y>>] = [m \in 1 .. n |-> sorted[m].at[Lift(y, sorted[n].log - sorted[m].log)]]
    BY ONLY <1>10, <2>6 DEF LiftedRow
  <2>9. ASSUME NEW m \in 1 .. n
        PROVE  sorted[m].at[Lift(y, sorted[n].log - sorted[m].log)] = <<t, order[m], Lift(p, h - log(m))>>
    <3> DEFINE b == log(n) - log(m)
               l == log(m)
               s == h - log(m)
    <3>1. m <= n
      BY ONLY <1>5, m \in 1 .. n
    <3>2. b \in Nat /\ l \in Nat \ {0} /\ s \in Nat
      BY ONLY <1>7, <1>8, <2>1, <3>1, m \in 1 .. n
    <3>3. a + b = s /\ l + s = h
      <4>1. log(n) \in Nat /\ log(m) \in Nat
        BY ONLY <1>7, <2>1, m \in 1 .. n
      <4> HIDE DEF log
      <4> QED BY ONLY <4>1, h \in Nat \ {0} DEF a
    <3>4. /\ sorted[n].log - sorted[m].log = b
          /\ sorted[m].at = [i \in 0 .. 2 ^ l - 1 |-> <<t, order[m], i>>]
      BY ONLY <1>7, <2>1, m \in 1 .. n
    <3> HIDE DEF b, l
    <3>5. Lift(y, b) = Lift(p, s)
      <4>1. Lift(Lift(p, a), b) = Lift(p, a + b)
        BY ONLY <2>2, <2>4, <3>2, LiftTwice
      <4> HIDE DEF s
      <4> QED BY ONLY <2>6, <3>3, <4>1
    <3>6. Lift(p, s) \in 0 .. 2 ^ l - 1
      <4> HIDE DEF s
      <4>1. p \in 0 .. 2 ^ (l + s) - 1
        BY ONLY <3>3, p \in 0 .. 2 ^ h - 1
      <4> QED BY ONLY <3>2, <4>1, LiftInRange
    <3> QED BY ONLY <3>4, <3>5, <3>6
  <2>10. [m \in 1 .. n |-> sorted[m].at[Lift(y, sorted[n].log - sorted[m].log)]]
           = [m \in 1 .. n |-> <<t, order[m], Lift(p, h - log(m))>>]
    BY ONLY <2>9
  <2> QED BY ONLY <2>7, <2>8, <2>10
<1>13. ASSUME NEW b \in SUBSET (0 .. 2 ^ h - 1), NEW p \in b
       PROVE  compute_leaf_hashes(t, b)[p] = Leaf([m \in 1 .. n |-> <<t, order[m], Lift(p, h - log(m))>>])
  <2>1. compute_leaf_hashes(t, b) =
          [q \in b |-> Leaf([m \in DOMAIN tagged |->
                               <<t, tagged[m].column, Lift(q, Height(t) - tagged[m].log)>>])]
    BY Zenon DEF compute_leaf_hashes, tagged, named
  <2>2. compute_leaf_hashes(t, b)[p] =
          Leaf([m \in DOMAIN tagged |-> <<t, tagged[m].column, Lift(p, Height(t) - tagged[m].log)>>])
    BY ONLY <2>1, p \in b
  <2>3. [m \in DOMAIN tagged |-> <<t, tagged[m].column, Lift(p, Height(t) - tagged[m].log)>>]
          = [m \in 1 .. n |-> <<t, order[m], Lift(p, h - log(m))>>]
    BY ONLY <1>6, <1>7, h = Height(t)
  <2> QED BY ONLY <2>2, <2>3
<1>14. ASSUME NEW b \in SUBSET (0 .. 2 ^ h - 1), NEW p \in b
       PROVE  [c \in SUBSET (0 .. 2 ^ h - 1) |-> compute_leaf_hashes(t, c)][b][p] = TraceLeaves(t)[p]
  <2>1. p \in 0 .. 2 ^ h - 1
    OBVIOUS
  <2>2. [c \in SUBSET (0 .. 2 ^ h - 1) |-> compute_leaf_hashes(t, c)][b] = compute_leaf_hashes(t, b)
    OBVIOUS
  <2> QED BY ONLY <1>12, <1>13, <2>1, <2>2, b \in SUBSET (0 .. 2 ^ h - 1), p \in b
<1> QED BY <1>14 DEF GivesLeaves

------------------------------------------------------------------------------
(* The trees of a setting *)

(* The settings whose trees have a row for every query: a column is no       *)
(* larger than its tree, only a preprocessed tree is empty, and none is lower *)
(* than the domain of the queries.                                           *)
Aligned(s) ==
  \A t \in DOMAIN s.columns :
    LET h == IF s.lifting > 0 THEN s.lifting ELSE LargestOf(s.columns[t])
    IN  /\ h \in Nat
        /\ \/ t = 1 /\ s.columns[t] = <<>> /\ h = 0
           \/ /\ s.columns[t] # <<>> /\ \A c \in DOMAIN s.columns[t] : s.columns[t][c] \in 1 .. h
              /\ IF t = 1 THEN h >= LiftingLogOf(s) ELSE h = LiftingLogOf(s)

(* A tree of one node is opened with no witness.                             *)
LEMMA NoWitness ==
  ASSUME NEW a, NEW b, NEW f, NEW g
  PROVE  HashWitness(a, 0, f) = HashWitness(b, 0, g)
<1> DEFINE Of(q, hash, l) ==
             [k \in DOMAIN MissingSiblings(QueriesByLayer(q, 0)[l]) |->
                hash[<<l, MissingSiblings(QueriesByLayer(q, 0)[l])[k]>>]]
<1>1. \A q, hash : HashWitness(q, 0, hash) = FlattenSeq([k \in 1 .. 0 |-> Of(q, hash, 0 + 1 - k)])
  BY Zenon DEF HashWitness
<1>2. \A k : k \notin 1 .. 0
  OBVIOUS
<1> HIDE DEF Of
<1>3. [k \in 1 .. 0 |-> Of(a, f, 0 + 1 - k)] = [k \in 1 .. 0 |-> Of(b, g, 0 + 1 - k)]
  BY ONLY <1>2
<1> QED BY ONLY <1>1, <1>3

(* A row of a larger preprocessed tree that a query is raised to.            *)
LEMMA RaisedFacts ==
  ASSUME NEW log \in Nat \ {0}, NEW d \in Nat \ {0}, NEW M, M = 2 ^ (d + 1)
  PROVE  \A p, q \in 0 .. 2 ^ log - 1 :
           /\ (p \div 2) * M + (p % 2) \in 0 .. 2 ^ (log + d) - 1
           /\ p < q => (p \div 2) * M + (p % 2) < (q \div 2) * M + (q % 2)
<1> DEFINE m == 2 ^ (log - 1)
<1>1. log - 1 \in Nat /\ (log - 1) + 1 = log /\ (log - 1) + (d + 1) = log + d /\ d + 1 \in Nat
  OBVIOUS
<1>2. 2 ^ log = 2 * m /\ m \in Nat
  <2> DEFINE l == log - 1
  <2>1. l \in Nat /\ l + 1 = log
    BY <1>1
  <2> HIDE DEF l
  <2>2. 2 ^ (l + 1) = 2 * 2 ^ l /\ 2 ^ l \in Nat
    BY ONLY <2>1, PowerDoubles
  <2> QED BY ONLY <2>1, <2>2 DEF l
<1>3. 2 ^ (log + d) = m * M
  <2> DEFINE l == log - 1
             e == d + 1
  <2>1. l \in Nat /\ e \in Nat /\ l + e = log + d
    BY ONLY <1>1
  <2> HIDE DEF l, e
  <2>2. 2 ^ (l + e) = 2 ^ l * 2 ^ e
    BY ONLY <2>1, PowerSum
  <2> QED BY ONLY <2>1, <2>2, M = 2 ^ (d + 1) DEF l, e
<1>4. M \in Nat /\ M >= 2
  <2>1. 2 ^ (d + 1) = 2 * 2 ^ d /\ 2 ^ d \in Nat /\ 2 ^ d >= 1
    BY PowerDoubles
  <2> DEFINE x == 2 ^ d
  <2> HIDE DEF x
  <2>2. M = 2 * x /\ x \in Nat /\ x >= 1
    BY ONLY <2>1, M = 2 ^ (d + 1) DEF x
  <2> QED BY ONLY <2>2
<1> HIDE DEF m
<1> SUFFICES ASSUME NEW p \in 0 .. 2 ^ log - 1, NEW q \in 0 .. 2 ^ log - 1
             PROVE  /\ (p \div 2) * M + (p % 2) \in 0 .. 2 ^ (log + d) - 1
                    /\ p < q => (p \div 2) * M + (p % 2) < (q \div 2) * M + (q % 2)
  OBVIOUS
<1> DEFINE a == p \div 2
           b == q \div 2
           r == p % 2
           s == q % 2
<1>5. p \in 0 .. 2 * m - 1 /\ q \in 0 .. 2 * m - 1
  BY ONLY <1>2, p \in 0 .. 2 ^ log - 1, q \in 0 .. 2 ^ log - 1
<1>6. /\ p = 2 * a + r /\ r \in 0 .. 1 /\ a \in 0 .. m - 1
      /\ q = 2 * b + s /\ s \in 0 .. 1 /\ b \in 0 .. m - 1
  BY ONLY <1>2, <1>5
<1> HIDE DEF a, b, r, s
<1>7. \A x, y \in 0 .. m : x < y => x * M + M <= y * M
  <2> SUFFICES ASSUME NEW x \in 0 .. m, NEW y \in 0 .. m, x < y PROVE x * M + M <= y * M
    OBVIOUS
  <2> DEFINE z == y - x - 1
  <2>1. z \in Nat /\ y = x + 1 + z
    BY ONLY <1>2, x < y, x \in 0 .. m, y \in 0 .. m
  <2> HIDE DEF z
  <2>2. z * M \in Nat
    BY ONLY <1>4, <2>1
  <2>3. x \in Int
    BY ONLY <1>2, x \in 0 .. m
  <2>4. (x + 1 + z) * M = x * M + M + z * M
    BY ONLY <1>4, <2>1, <2>3
  <2> DEFINE A == x * M
             B == y * M
             C == z * M
  <2>5. A \in Int
    BY ONLY <1>4, <2>3
  <2> HIDE DEF A, B, C
  <2>6. C \in Nat /\ B = A + M + C
    BY ONLY <2>1, <2>2, <2>4 DEF A, B, C
  <2>7. A + M <= B
    BY ONLY <1>4, <2>5, <2>6
  <2> QED BY <2>7 DEF A, B
<1>8. a * M + r \in 0 .. m * M - 1
  <2>1. a \in 0 .. m /\ m \in 0 .. m /\ a < m
    BY ONLY <1>2, <1>6
  <2>2. a * M + M <= m * M
    BY ONLY <1>7, <2>1
  <2>3. a * M \in Nat /\ m * M \in Nat
    BY ONLY <1>2, <1>4, <1>6
  <2> DEFINE A == a * M
             B == m * M
  <2> HIDE DEF A, B
  <2>4. A \in Nat /\ B \in Nat /\ A + M <= B
    BY ONLY <2>2, <2>3 DEF A, B
  <2>5. A + r \in 0 .. B - 1
    BY ONLY <1>4, <1>6, <2>4
  <2> QED BY <2>5 DEF A, B
<1>9. ASSUME p < q PROVE a * M + r < b * M + s
  <2>1. a < b \/ (a = b /\ r < s)
    BY ONLY <1>2, <1>6, <1>9
  <2> DEFINE A == a * M
             B == b * M
  <2>2. A \in Int /\ B \in Int
    BY ONLY <1>2, <1>4, <1>6
  <2>3. a < b => A + M <= B
    <3>1. a \in 0 .. m /\ b \in 0 .. m
      BY ONLY <1>2, <1>6
    <3> QED BY ONLY <1>7, <3>1
  <2>4. a = b => A = B
    OBVIOUS
  <2> HIDE DEF A, B
  <2>5. A + r < B + s
    BY ONLY <1>4, <1>6, <2>1, <2>2, <2>3, <2>4
  <2> QED BY <2>5 DEF A, B
<1> QED BY ONLY <1>3, <1>8, <1>9 DEF a, b, r, s

(* The positions of the queries in a tree that has a row for every query are *)
(* rows of it, in increasing order.                                          *)
LEMMA TreePositions ==
  ASSUME setting \in Settings, Aligned(setting), NEW t \in Trees, Height(t) # 0,
         NEW at \in Seq(0 .. 2 ^ LiftingLog - 1), Increasing(at),
         NEW there, there = PositionsIn(t, at)
  PROVE  there \in Seq(0 .. 2 ^ Height(t) - 1) /\ Increasing(there)
<1> DEFINE L == LiftingLog
           h == Height(t)
<1>1. /\ L \in Nat \ {0} /\ h \in Nat /\ h # 0
      /\ IF t = 1 THEN h >= L ELSE h = L
  <2>1. L \in Nat /\ L # 0
    <3>1. L \in Nat /\ LastLayerLog \in Nat /\ setting.fold_step \in Nat /\ setting.fold_step >= 1
          /\ LastLayerLog + setting.fold_step <= L
      BY SettingFacts
    <3> HIDE DEF L
    <3> QED BY <3>1
  <2>2. h = IF setting.lifting > 0 THEN setting.lifting ELSE LargestOf(setting.columns[t])
    BY Zenon DEF Height, HeightOf
  <2>3. L = LiftingLogOf(setting)
    BY DEF LiftingLog
  <2>4. h # 0
    OBVIOUS
  <2> HIDE DEF h, L
  <2>5. /\ h \in Nat
        /\ \/ t = 1 /\ setting.columns[t] = <<>> /\ h = 0
           \/ /\ setting.columns[t] # <<>> /\ \A c \in DOMAIN setting.columns[t] : setting.columns[t][c] \in 1 .. h
              /\ IF t = 1 THEN h >= L ELSE h = L
    BY <2>2, <2>3 DEF Aligned, Trees
  <2> QED BY ONLY <2>1, <2>4, <2>5
<1>2. there = IF t = 1 THEN prepare_preprocessed_query_positions(at, L, h) ELSE at
  <2>1. t = 1 => Height(1) = h
    OBVIOUS
  <2>2. there = IF t = 1 THEN prepare_preprocessed_query_positions(at, L, Height(1)) ELSE at
    BY Zenon DEF PositionsIn
  <2> HIDE DEF h, L
  <2> QED BY ONLY <2>1, <2>2
<1>3. at \in Seq(0 .. 2 ^ L - 1)
  OBVIOUS
<1> HIDE DEF h, L
<1>4. CASE t # 1
  BY ONLY <1>1, <1>2, <1>3, <1>4, Increasing(at) DEF h
<1>5. CASE t = 1
  <2>1. there = IF L < h
                THEN [k \in DOMAIN at |-> (at[k] \div 2) * 2 ^ (h - L + 1) + (at[k] % 2)]
                ELSE [k \in DOMAIN at |-> Lift(at[k], L - h)]
    BY ONLY <1>1, <1>2, <1>5 DEF prepare_preprocessed_query_positions
  <2> DEFINE S == 0 .. 2 ^ L - 1
  <2>2. Len(at) \in Nat /\ DOMAIN at = 1 .. Len(at) /\ (\A k \in DOMAIN at : at[k] \in S)
        /\ at = [k \in DOMAIN at |-> at[k]]
    <3>1. at \in Seq(S)
      BY ONLY <1>3 DEF S
    <3> HIDE DEF S
    <3> QED BY ONLY <3>1
  <2>3. \A x \in S : x \in Nat
    <3>1. 2 ^ L \in Nat
      BY ONLY <1>1, PowerDoubles
    <3> QED BY ONLY <3>1
  <2>4. CASE ~(L < h)
    <3>1. L - h = 0 /\ h = L /\ 0 \in Nat
      BY ONLY <1>1, <1>5, <2>4
    <3> HIDE DEF S
    <3>2. \A k \in DOMAIN at : Lift(at[k], L - h) = at[k]
      BY ONLY <2>2, <2>3, <3>1, LiftFacts
    <3>3. there = at
      BY ONLY <2>1, <2>2, <2>4, <3>2
    <3>4. at \in Seq(S)
      BY <1>3 DEF S
    <3> QED BY ONLY <3>1, <3>3, <3>4, Increasing(at) DEF S, h
  <2>5. CASE L < h
    <3> DEFINE d == h - L
               M == 2 ^ (d + 1)
               Up(x) == (x \div 2) * M + (x % 2)
    <3>1. d \in Nat \ {0} /\ L + d = h
      BY ONLY <1>1, <2>5
    <3> HIDE DEF d
    <3>2. M = 2 ^ (d + 1)
      OBVIOUS
    <3> HIDE DEF M
    <3>3. \A p, q \in 0 .. 2 ^ L - 1 :
           /\ Up(p) \in 0 .. 2 ^ (L + d) - 1
           /\ p < q => Up(p) < Up(q)
      BY ONLY <1>1, <3>1, <3>2, RaisedFacts
    <3>4. there = [k \in DOMAIN at |-> Up(at[k])]
      BY ONLY <2>1, <2>5, <3>2 DEF d
    <3> HIDE DEF Up
    <3>5. \A k \in DOMAIN at : Up(at[k]) \in 0 .. 2 ^ h - 1
      BY ONLY <2>2, <3>1, <3>3
    <3> DEFINE T == 0 .. 2 ^ h - 1
    <3>6. there \in Seq(T)
      <4> HIDE DEF T
      <4>1. \A k \in DOMAIN at : Up(at[k]) \in T
        BY ONLY <3>5 DEF T
      <4>2. there \in [1 .. Len(at) -> T]
        BY ONLY <2>2, <3>4, <4>1
      <4> QED BY ONLY <2>2, <4>2
    <3>7. Increasing(there)
      <4>1. \A i, j \in DOMAIN at : i < j => at[i] < at[j]
        BY ONLY Increasing(at) DEF Increasing
      <4>2. \A i, j \in DOMAIN at : i < j => Up(at[i]) < Up(at[j])
        BY ONLY <2>2, <3>3, <4>1
      <4> QED BY ONLY <3>4, <4>2 DEF Increasing
    <3> QED BY ONLY <3>6, <3>7 DEF h
  <2> QED BY <2>4, <2>5
<1> QED BY <1>4, <1>5

(* A tree of the trace is opened in low memory as it is in full.             *)
LEMMA TraceWitnesses ==
  ASSUME setting \in Settings, Aligned(setting), NEW t \in Trees,
         NEW at \in Seq(0 .. 2 ^ LiftingLog - 1), Increasing(at)
  PROVE  TraceWitness(t, PositionsIn(t, at), TRUE) = TraceWitness(t, PositionsIn(t, at), FALSE)
<1> DEFINE h == Height(t)
           there == PositionsIn(t, at)
           logs == setting.columns[t]
           leaves == TraceLeaves(t)
           streamed == logs # <<>>
           stride == setting.stride
           tree == commit_checkpointed(leaves, h, stride, streamed)
           given == [b \in SUBSET (0 .. 2 ^ h - 1) |-> compute_leaf_hashes(t, b)]
<1>1. /\ h \in Nat /\ IsSeq(logs)
      /\ \/ h = 0
         \/ h # 0 /\ Len(logs) # 0 /\ \A c \in DOMAIN logs : logs[c] \in 1 .. h
  <2>1. h = IF setting.lifting > 0 THEN setting.lifting ELSE LargestOf(setting.columns[t])
    BY Zenon DEF Height, HeightOf
  <2>2. logs \in Seq(Nat)
    <3>1. setting.columns \in Seq(Seq(Nat))
      BY SettingsAssumption
    <3> QED BY <3>1 DEF Trees
  <2>3. IsSeq(logs)
    BY ONLY <2>2, SeqOfMembers
  <2> HIDE DEF h, logs
  <2>4. /\ h \in Nat
        /\ \/ t = 1 /\ setting.columns[t] = <<>> /\ h = 0
           \/ setting.columns[t] # <<>> /\ \A c \in DOMAIN setting.columns[t] : setting.columns[t][c] \in 1 .. h
    BY <2>1 DEF Aligned, Trees
  <2>5. logs # <<>> => Len(logs) # 0 /\ 1 \in DOMAIN logs
    BY ONLY <2>2
  <2> QED BY ONLY <2>3, <2>4, <2>5 DEF logs
<1>2. /\ TraceWitness(t, there, TRUE) = decommit_with_source(tree, there, given)
      /\ TraceWitness(t, there, FALSE) = decommit(commit(leaves, h), there)
  BY Zenon DEF TraceWitness
<1>3. CASE h # 0
  <2>1. there \in Seq(0 .. 2 ^ h - 1) /\ Increasing(there)
    <3> DEFINE p == there
    <3>1. p = PositionsIn(t, at)
      OBVIOUS
    <3> HIDE DEF p
    <3> QED BY <1>3, <3>1, TreePositions DEF p
  <2>2. GivesLeaves(given, leaves, h)
    <3> DEFINE n == h
               s == logs
    <3>1. n = Height(t) /\ s = setting.columns[t]
      OBVIOUS
    <3> HIDE DEF n, s
    <3>2. n \in Nat \ {0} /\ IsSeq(s) /\ Len(s) # 0 /\ \A c \in DOMAIN s : s[c] \in 1 .. n
      BY <1>1, <1>3 DEF n, s
    <3>3. GivesLeaves([b \in SUBSET (0 .. 2 ^ n - 1) |-> compute_leaf_hashes(t, b)], TraceLeaves(t), n)
      BY ONLY <3>1, <3>2, LeavesGiven
    <3> QED BY ONLY <3>3 DEF n
  <2> HIDE DEF there, given, leaves, h, streamed, stride
  <2>3. decommit_with_source(tree, there, given) = decommit(commit(leaves, h), there)
    BY ONLY <1>1, <2>1, <2>2, SourcedOpening
  <2> QED BY <1>2, <2>3 DEF there
<1>4. CASE h = 0
  <2>1. tree.height = 0 /\ commit(leaves, h).height = 0
    BY <1>4 DEF commit_checkpointed, commit
  <2> DEFINE whole == commit(leaves, h)
  <2>2. \E q, f : decommit_with_source(tree, there, given) = HashWitness(q, tree.height, f)
    <3> HIDE DEF tree, given, there
    <3> QED BY Zenon DEF decommit_with_source
  <2>3. \E q, f : decommit(whole, there) = HashWitness(q, whole.height, f)
    <3> HIDE DEF whole, there
    <3> QED BY Zenon DEF decommit
  <2> HIDE DEF tree, whole, there, given
  <2>4. decommit_with_source(tree, there, given) = decommit(whole, there)
    BY ONLY <2>1, <2>2, <2>3, NoWitness DEF whole
  <2> QED BY <1>2, <2>4 DEF there, whole
<1> QED BY <1>3, <1>4

------------------------------------------------------------------------------
(* The halvings that the prover keeps *)

(* One doubling more, and none.                                              *)
LEMMA DoublingStep ==
  ASSUME NEW coset, NEW n \in Nat
  PROVE  /\ RepeatedDouble(coset, 0) = coset
         /\ RepeatedDouble(coset, n + 1) = Double(RepeatedDouble(coset, n))
<1> DEFINE Fills(f, m) == f = [k \in 0 .. m |-> IF k = 0 THEN coset ELSE Double(f[k - 1])]
           Doubled(m) == CHOOSE f : Fills(f, m)
<1>1. ASSUME NEW m \in Nat
      PROVE  /\ RepeatedDouble(coset, m) = Doubled(m)[m]
             /\ \A k \in 0 .. m : Doubled(m)[k] = IF k = 0 THEN coset ELSE Double(Doubled(m)[k - 1])
  <2>1. RepeatedDouble(coset, m) = Doubled(m)[m]
    BY Zenon DEF RepeatedDouble
  <2>2. \E f : Fills(f, m)
    BY DoublingExists, ZenonT(30)
  <2>3. Fills(Doubled(m), m)
    <3> HIDE DEF Fills
    <3> QED BY <2>2, Zenon
  <2> DEFINE D == Doubled(m)
  <2>4. D = [k \in 0 .. m |-> IF k = 0 THEN coset ELSE Double(D[k - 1])]
    BY <2>3
  <2> HIDE DEF D
  <2>5. \A k \in 0 .. m : D[k] = IF k = 0 THEN coset ELSE Double(D[k - 1])
    BY ONLY <2>4
  <2> HIDE DEF Doubled
  <2> QED BY ONLY <2>1, <2>5 DEF D
<1> HIDE DEF Doubled
<1>2. Doubled(0)[0] = coset
  <2>1. 0 \in 0 .. 0 /\ 0 \in Nat
    OBVIOUS
  <2> QED BY ONLY <1>1, <2>1
<1> DEFINE f == Doubled(n)
           g == Doubled(n + 1)
           N == {k \in Nat : k <= n => f[k] = g[k]}
<1>3. /\ \A k \in 0 .. n : f[k] = IF k = 0 THEN coset ELSE Double(f[k - 1])
      /\ \A k \in 0 .. n + 1 : g[k] = IF k = 0 THEN coset ELSE Double(g[k - 1])
      /\ RepeatedDouble(coset, n) = f[n] /\ RepeatedDouble(coset, n + 1) = g[n + 1]
  <2>1. n + 1 \in Nat
    OBVIOUS
  <2> QED BY ONLY <1>1, <2>1, n \in Nat
<1> HIDE DEF f, g
<1>4. 0 \in N
  BY ONLY <1>3, n \in Nat
<1>5. ASSUME NEW k \in Nat, k \in N PROVE k + 1 \in N
  <2>1. ASSUME k + 1 <= n PROVE f[k + 1] = g[k + 1]
    <3>1. k + 1 \in 0 .. n /\ k + 1 \in 0 .. n + 1 /\ k + 1 # 0 /\ (k + 1) - 1 = k /\ f[k] = g[k]
      BY ONLY <1>5, <2>1, n \in Nat, k \in Nat
    <3> QED BY ONLY <1>3, <3>1
  <2> QED BY ONLY <2>1, k \in Nat
<1> HIDE DEF N
<1>6. n \in N
  BY <1>4, <1>5, Counting
<1>7. f[n] = g[n]
  BY ONLY <1>6 DEF N
<1>8. g[n + 1] = Double(g[n])
  <2>1. n + 1 \in 0 .. n + 1 /\ n + 1 # 0 /\ (n + 1) - 1 = n
    BY ONLY n \in Nat
  <2> QED BY ONLY <1>3, <2>1
<1>9. RepeatedDouble(coset, 0) = coset
  <2>1. 0 \in Nat
    OBVIOUS
  <2> QED BY ONLY <1>1, <1>2, <2>1
<1> QED BY ONLY <1>3, <1>7, <1>8, <1>9

(* Doublings one after the other.                                            *)
LEMMA DoublingTwice ==
  ASSUME NEW coset, NEW a \in Nat, NEW b \in Nat
  PROVE  RepeatedDouble(RepeatedDouble(coset, a), b) = RepeatedDouble(coset, a + b)
<1> DEFINE d == RepeatedDouble(coset, a)
           N == {k \in Nat : RepeatedDouble(d, k) = RepeatedDouble(coset, a + k)}
<1>1. 0 \in N
  <2>1. RepeatedDouble(d, 0) = d
    <3> HIDE DEF d
    <3> QED BY DoublingStep
  <2>2. a + 0 = a
    OBVIOUS
  <2> QED BY ONLY <2>1, <2>2
<1>2. ASSUME NEW k \in Nat, k \in N PROVE k + 1 \in N
  <2>1. RepeatedDouble(d, k) = RepeatedDouble(coset, a + k)
    BY ONLY <1>2
  <2> DEFINE m == a + k
  <2>2. m \in Nat /\ a + (k + 1) = m + 1
    OBVIOUS
  <2> HIDE DEF m
  <2>3. RepeatedDouble(coset, m + 1) = Double(RepeatedDouble(coset, m))
    BY <2>2, DoublingStep
  <2>4. RepeatedDouble(d, k + 1) = Double(RepeatedDouble(d, k))
    <3> HIDE DEF d
    <3> QED BY DoublingStep
  <2>5. RepeatedDouble(d, k + 1) = RepeatedDouble(coset, a + (k + 1))
    BY ONLY <2>1, <2>2, <2>3, <2>4 DEF m
  <2> QED BY ONLY <2>5, k \in Nat
<1> HIDE DEF N
<1>3. b \in N
  BY <1>1, <1>2, Counting
<1> QED BY ONLY <1>3 DEF N, d

(* The i-th power of two of a challenge.                                     *)
Powered(draw, i) == [draw |-> draw, power |-> 2 ^ i]

(* A challenge is its own first power, and a square doubles the power.       *)
LEMMA PoweredFacts ==
  ASSUME NEW draw, NEW i \in Nat
  PROVE  Challenge(draw) = Powered(draw, 0) /\ Square(Powered(draw, i)) = Powered(draw, i + 1)
<1>1. 2 ^ 0 = 1
  OBVIOUS
<1>2. Challenge(draw) = Powered(draw, 0)
  BY ONLY <1>1 DEF Challenge, Powered
<1> DEFINE p == 2 ^ i
           q == 2 ^ (i + 1)
<1>3. q = 2 * p
  BY PowerDoubles
<1> HIDE DEF p, q
<1>4. Powered(draw, i) = [draw |-> draw, power |-> p] /\ Powered(draw, i + 1) = [draw |-> draw, power |-> q]
  BY ONLY i \in Nat DEF Powered, p, q
<1>5. Square([draw |-> draw, power |-> p]) = [draw |-> draw, power |-> 2 * p]
  BY ONLY TRUE DEF Square
<1> QED BY ONLY <1>2, <1>3, <1>4, <1>5

(* What the halvings of a line are: each of the next doubling of the domain, *)
(* with the next power of the challenge.                                     *)
HalvingsAre(halvings, coset, draw, p, steps) ==
  \A i \in 0 .. steps - 1 :
    halvings[i + 1] = [coords |-> LineCoords(RepeatedDouble(coset, i)), alpha |-> Powered(draw, p + i)]

(* What LineHalvings gives, from any power of a challenge on.                *)
LEMMA LineHalvingsAre ==
  ASSUME NEW coset, NEW draw, NEW p \in Nat, NEW steps \in Nat,
         NEW halvings, halvings = LineHalvings(coset, Powered(draw, p), steps)
  PROVE  HalvingsAre(halvings, coset, draw, p, steps)
<1> DEFINE alpha == Powered(draw, p)
           Next1(x) == [domain |-> Double(x.domain), alpha |-> Square(x.alpha)]
           Start == [domain |-> coset, alpha |-> alpha]
           Fills(f) == f = [k \in 1 .. steps |-> IF k = 1 THEN Start ELSE Next1(f[k - 1])]
           At(k) == [domain |-> RepeatedDouble(coset, k - 1), alpha |-> Powered(draw, p + (k - 1))]
<1>1. At(1) = Start
  <2>1. RepeatedDouble(coset, 0) = coset /\ p + 0 = p /\ 1 - 1 = 0
    BY DoublingStep
  <2> QED BY ONLY <2>1
<1>2. ASSUME NEW k \in 2 .. steps PROVE Next1(At(k - 1)) = At(k)
  <2> DEFINE m == k - 2
             e == p + m
  <2>1. m \in Nat /\ (k - 1) - 1 = m /\ k - 1 = m + 1 /\ e \in Nat /\ p + (k - 1) = e + 1
    OBVIOUS
  <2> HIDE DEF m
  <2>2. Double(RepeatedDouble(coset, m)) = RepeatedDouble(coset, m + 1)
    BY <2>1, DoublingStep
  <2> HIDE DEF e
  <2>3. Square(Powered(draw, e)) = Powered(draw, e + 1)
    BY <2>1, PoweredFacts
  <2>4. At(k - 1) = [domain |-> RepeatedDouble(coset, m), alpha |-> Powered(draw, e)]
    BY ONLY <2>1 DEF e
  <2>5. At(k) = [domain |-> RepeatedDouble(coset, m + 1), alpha |-> Powered(draw, e + 1)]
    BY ONLY <2>1
  <2> HIDE DEF At
  <2> QED BY ONLY <2>2, <2>3, <2>4, <2>5
<1>3. \E f : Fills(f)
  <2> DEFINE g == [k \in 1 .. steps |-> At(k)]
  <2>1. \A k \in 1 .. steps : At(k) = IF k = 1 THEN Start ELSE Next1(g[k - 1])
    <3>1. ASSUME NEW k \in 1 .. steps, k # 1 PROVE At(k) = Next1(g[k - 1])
      <4>1. k \in 2 .. steps /\ k - 1 \in 1 .. steps
        BY <3>1
      <4> HIDE DEF At, Next1
      <4> QED BY <1>2, <4>1
    <3> HIDE DEF At, Next1, Start
    <3> QED BY <1>1, <3>1
  <2>2. g = [k \in 1 .. steps |-> IF k = 1 THEN Start ELSE Next1(g[k - 1])]
    <3>1. g = [k \in 1 .. steps |-> At(k)]
      OBVIOUS
    <3> HIDE DEF g, At, Next1, Start
    <3> QED BY ONLY <2>1, <3>1
  <2> QED BY <2>2
<1> DEFINE after == CHOOSE f : Fills(f)
<1>4. Fills(after)
  <2> HIDE DEF Fills
  <2> QED BY <1>3, Zenon
<1>5. halvings = [k \in 1 .. steps |-> [coords |-> LineCoords(after[k].domain), alpha |-> after[k].alpha]]
  BY Zenon DEF LineHalvings
<1>6. \A k \in 1 .. steps : after[k] = IF k = 1 THEN Start ELSE Next1(after[k - 1])
  <2>1. after = [k \in 1 .. steps |-> IF k = 1 THEN Start ELSE Next1(after[k - 1])]
    BY <1>4
  <2> HIDE DEF after, Start, Next1
  <2> QED BY ONLY <2>1
<1> HIDE DEF after, Start, Next1, Fills
<1> DEFINE N == {k \in Nat : k + 1 <= steps => after[k + 1] = At(k + 1)}
<1> HIDE DEF At
<1>7. 0 \in N
  <2>1. 1 <= steps => after[1] = At(1)
    BY ONLY <1>1, <1>6, steps \in Nat
  <2> QED BY ONLY <2>1
<1>8. ASSUME NEW k \in Nat, k \in N PROVE k + 1 \in N
  <2> DEFINE m == k + 1
  <2>1. m \in Nat /\ m >= 1
    OBVIOUS
  <2>2. m <= steps => after[m] = At(m)
    BY ONLY <1>8
  <2> HIDE DEF m
  <2>3. ASSUME m + 1 <= steps PROVE after[m + 1] = At(m + 1)
    <3>1. m + 1 \in 1 .. steps /\ m + 1 # 1 /\ (m + 1) - 1 = m /\ m <= steps /\ m + 1 \in 2 .. steps
      BY ONLY <2>1, <2>3, steps \in Nat
    <3>2. after[m + 1] = Next1(after[m])
      BY ONLY <1>6, <3>1
    <3>3. Next1(At(m)) = At(m + 1)
      BY ONLY <1>2, <3>1
    <3> QED BY ONLY <2>2, <3>1, <3>2, <3>3
  <2> QED BY ONLY <2>1, <2>3 DEF m
<1>9. ASSUME NEW k \in 1 .. steps PROVE after[k] = At(k)
  <2> DEFINE m == k - 1
  <2>1. m \in Nat /\ m + 1 = k /\ k <= steps
    OBVIOUS
  <2> HIDE DEF m, N
  <2>2. m \in N
    BY <1>7, <1>8, <2>1, Counting
  <2> QED BY ONLY <2>1, <2>2 DEF N
<1>10. ASSUME NEW i \in 0 .. steps - 1
       PROVE  halvings[i + 1] = [coords |-> LineCoords(RepeatedDouble(coset, i)),
                                 alpha |-> Powered(draw, p + i)]
  <2> DEFINE k == i + 1
             e == p + i
  <2>1. k \in 1 .. steps /\ k - 1 = i /\ p + (k - 1) = e
    OBVIOUS
  <2> HIDE DEF k, e
  <2>2. halvings[k] = [coords |-> LineCoords(after[k].domain), alpha |-> after[k].alpha]
    BY ONLY <1>5, <2>1
  <2>3. At(k) = [domain |-> RepeatedDouble(coset, i), alpha |-> Powered(draw, e)]
    BY ONLY <2>1 DEF At
  <2> DEFINE d == RepeatedDouble(coset, i)
             a == Powered(draw, e)
  <2>4. At(k) = [domain |-> d, alpha |-> a]
    BY ONLY <2>3
  <2> HIDE DEF d, a
  <2>5. after[k].domain = d /\ after[k].alpha = a
    BY ONLY <1>9, <2>1, <2>4
  <2>6. halvings[k] = [coords |-> LineCoords(d), alpha |-> a]
    BY ONLY <2>2, <2>5
  <2> QED BY ONLY <2>6, Zenon DEF k, e, d, a
<1> QED BY ONLY <1>10, Zenon DEF HalvingsAre

(* The elements of two sequences one after the other.                        *)
LEMMA JoinedElements ==
  ASSUME NEW s, IsSeq(s), NEW t, IsSeq(t)
  PROVE  /\ \A i \in 1 .. Len(s) : (s \o t)[i] = s[i]
         /\ \A i \in 1 .. Len(t) : (s \o t)[Len(s) + i] = t[i]
<1> DEFINE S == Range(s) \cup Range(t)
<1>1. Range(s) \subseteq S /\ Range(t) \subseteq S
  OBVIOUS
<1>2. s \in Seq(Range(s)) /\ t \in Seq(Range(t))
  BY DEF IsSeq
<1> HIDE DEF S
<1>3. s \in Seq(S) /\ t \in Seq(S)
  BY <1>1, <1>2, SeqLarger
<1>4. \A i \in 1 .. Len(s) : (s \o t)[i] = s[i]
  BY ONLY <1>3
<1>5. \A i \in 1 .. Len(t) : (s \o t)[Len(s) + i] = t[i]
  BY ONLY <1>3
<1> QED BY ONLY <1>4, <1>5

(* The line that so many halvings of the quotients leave, and the coordinates *)
(* of the halving that follows.                                              *)
LineAt(level) == RepeatedDouble(HalfCoset, level - 1)
CoordsAt(level) == IF level = 0 THEN CircleCoords(HalfCoset) ELSE LineCoords(LineAt(level))
HalvesAt(halvings, level, alpha) ==
  /\ level \in 0 .. Len(halvings) - 1
  /\ halvings[level + 1] = [coords |-> CoordsAt(level), alpha |-> alpha]
(* So many halvings one after the other, each with the next power.           *)
HalvedFrom(halvings, level, draw, steps) ==
  \A i \in 0 .. steps - 1 :
    halvings[i + 1] = [coords |-> CoordsAt(level + i), alpha |-> Powered(draw, i)]
(* The halvings of layer k: each with the next power of its challenge.       *)
LayerHalvings(k, committed, halvings) ==
  /\ committed[k].level = LiftingLog - committed[k].log
  /\ \A i \in 0 .. committed[k].fold_step - 1 :
       HalvesAt(halvings, committed[k].level + i, Powered(k + 1, i))
(* Every layer has its halvings, the line left is the one they lead to, and  *)
(* the queries increase.                                                     *)
FoldInv ==
  /\ \A k \in DOMAIN layers : LayerHalvings(k, layers, folds)
  /\ Len(layers) >= 1 => line.domain = LineAt(LiftingLog - line.log)
  /\ positions \in Seq(0 .. 2 ^ LiftingLog - 1) /\ Increasing(positions)

(* The half coset of the quotients is the first line's domain.               *)
LEMMA FirstLine ==
  ASSUME setting \in Settings
  PROVE  HalfCoset.log = LiftingLog - 1 /\ half_odds(HalfCoset.log) = HalfCoset
<1>1. HalfCoset = half_odds(LiftingLog - 1)
  BY Zenon DEF HalfCoset, CanonicHalfCoset
<1> DEFINE l == LiftingLog - 1
<1>2. half_odds(l).log = l
  BY DEF half_odds, Coset
<1> HIDE DEF l
<1> QED BY ONLY <1>1, <1>2 DEF l

(* A layer and its halvings more.                                            *)
LEMMA HalvingsAppended ==
  ASSUME IsSeq(layers), IsSeq(folds), LiftingLog \in Nat,
         \A k \in DOMAIN layers : LayerHalvings(k, layers, folds),
         NEW layer, NEW committed, committed = Append(layers, layer),
         NEW more, IsSeq(more), Len(more) = layer.fold_step,
         layer.level = LiftingLog - layer.log, Len(folds) = layer.level,
         HalvedFrom(more, layer.level, Len(layers) + 2, layer.fold_step),
         NEW halvings, halvings = folds \o more
  PROVE  \A k \in DOMAIN committed : LayerHalvings(k, committed, halvings)
<1> DEFINE n == Len(layers)
<1>1. /\ n \in Nat /\ DOMAIN layers = 1 .. n /\ IsSeq(committed) /\ Len(committed) = n + 1
      /\ \A k \in 1 .. n : committed[k] = layers[k]
      /\ committed[n + 1] = layer
  BY AppendFacts, SeqFacts
<1>2. DOMAIN committed = 1 .. n + 1
  BY <1>1, SeqFacts
<1>3. /\ Len(folds) \in Nat /\ Len(more) \in Nat /\ Len(halvings) = Len(folds) + Len(more)
      /\ \A i \in 1 .. Len(folds) : halvings[i] = folds[i]
      /\ \A i \in 1 .. Len(more) : halvings[Len(folds) + i] = more[i]
  <2>1. Len(folds) \in Nat /\ Len(more) \in Nat
    BY SeqFacts
  <2>2. Len(folds \o more) = Len(folds) + Len(more)
    BY ONLY JoinedLength, IsSeq(folds), IsSeq(more)
  <2>3. \A i \in 1 .. Len(folds) : (folds \o more)[i] = folds[i]
    BY ONLY JoinedElements, IsSeq(folds), IsSeq(more)
  <2>4. \A i \in 1 .. Len(more) : (folds \o more)[Len(folds) + i] = more[i]
    BY ONLY JoinedElements, IsSeq(folds), IsSeq(more)
  <2> QED BY ONLY <2>1, <2>2, <2>3, <2>4, halvings = folds \o more
<1> HIDE DEF n
<1>4. ASSUME NEW k \in 1 .. n PROVE LayerHalvings(k, committed, halvings)
  <2>1. LayerHalvings(k, layers, folds) /\ committed[k] = layers[k]
    BY <1>1, <1>4
  <2>2. \A level, alpha : HalvesAt(folds, level, alpha) => HalvesAt(halvings, level, alpha)
    <3> SUFFICES ASSUME NEW level, NEW alpha, HalvesAt(folds, level, alpha)
                 PROVE  HalvesAt(halvings, level, alpha)
      OBVIOUS
    <3>1. level \in 0 .. Len(folds) - 1 /\ folds[level + 1] = [coords |-> CoordsAt(level), alpha |-> alpha]
      BY DEF HalvesAt
    <3>2. level \in 0 .. Len(halvings) - 1 /\ level + 1 \in 1 .. Len(folds)
      BY ONLY <1>3, <3>1
    <3>3. halvings[level + 1] = folds[level + 1]
      BY ONLY <1>3, <3>2
    <3> QED BY ONLY <3>1, <3>2, <3>3 DEF HalvesAt
  <2>3. layers[k].level = LiftingLog - layers[k].log
    BY <2>1 DEF LayerHalvings
  <2>4. \A i \in 0 .. layers[k].fold_step - 1 :
          HalvesAt(folds, layers[k].level + i, Powered(k + 1, i))
    BY <2>1, Zenon DEF LayerHalvings
  <2>5. \A i \in 0 .. layers[k].fold_step - 1 :
          HalvesAt(halvings, layers[k].level + i, Powered(k + 1, i))
    BY ONLY <2>2, <2>4, Zenon
  <2> QED BY ONLY <2>1, <2>3, <2>5, Zenon DEF LayerHalvings
<1>5. LayerHalvings(n + 1, committed, halvings)
  <2> DEFINE level == layer.level
  <2>1. ASSUME NEW i \in 0 .. layer.fold_step - 1
        PROVE  HalvesAt(halvings, level + i, Powered((n + 1) + 1, i))
    <3> DEFINE at == level + i
               alpha == Powered(n + 2, i)
               coords == CoordsAt(at)
    <3>1. /\ at \in 0 .. Len(halvings) - 1 /\ i + 1 \in 1 .. Len(more)
          /\ at + 1 = Len(folds) + (i + 1) /\ (n + 1) + 1 = n + 2
      BY ONLY <1>1, <1>3, Len(folds) = layer.level, Len(more) = layer.fold_step,
              i \in 0 .. layer.fold_step - 1, SMTT(30)
    <3>2. more[i + 1] = [coords |-> coords, alpha |-> alpha]
      BY Zenon DEF n, HalvedFrom
    <3> HIDE DEF coords, alpha
    <3>3. halvings[at + 1] = [coords |-> coords, alpha |-> alpha]
      BY ONLY <1>3, <3>1, <3>2
    <3> HIDE DEF at
    <3>4. HalvesAt(halvings, at, alpha)
      BY ONLY <3>1, <3>3 DEF HalvesAt, coords
    <3> QED BY ONLY <3>1, <3>4 DEF at, alpha
  <2>2. committed[n + 1] = layer
    BY <1>1
  <2> QED BY ONLY <2>1, <2>2, layer.level = LiftingLog - layer.log, Zenon DEF LayerHalvings
<1>6. \A k \in 1 .. n + 1 : k \in 1 .. n \/ k = n + 1
  BY ONLY <1>1
<1> QED BY ONLY <1>2, <1>4, <1>5, <1>6

(* The halvings of an inner layer.                                           *)
LEMMA InnerHalvings ==
  ASSUME NEW level \in Nat \ {0}, NEW steps \in Nat, NEW draw,
         NEW domain, domain = LineAt(level),
         NEW more, more = LineHalvings(domain, Challenge(draw), steps)
  PROVE  /\ HalvedFrom(more, level, draw, steps)
         /\ RepeatedDouble(domain, steps) = LineAt(level + steps)
<1> DEFINE half == HalfCoset
           low == level - 1
<1>1. low \in Nat /\ 0 \in Nat
  OBVIOUS
<1>2. domain = RepeatedDouble(half, low)
  BY Zenon DEF LineAt
<1>3. \A l : LineAt(l) = RepeatedDouble(half, l - 1)
  BY Zenon DEF LineAt
<1> HIDE DEF half, low
<1>4. \A b \in Nat : RepeatedDouble(domain, b) = RepeatedDouble(half, low + b)
  BY ONLY <1>1, <1>2, DoublingTwice
<1>5. more = LineHalvings(domain, Powered(draw, 0), steps)
  BY ONLY PoweredFacts, <1>1, more = LineHalvings(domain, Challenge(draw), steps)
<1>6. HalvingsAre(more, domain, draw, 0, steps)
  BY ONLY <1>1, <1>5, LineHalvingsAre, steps \in Nat
<1>7. ASSUME NEW i \in 0 .. steps - 1
      PROVE  more[i + 1] = [coords |-> CoordsAt(level + i), alpha |-> Powered(draw, i)]
  <2>1. i \in Nat /\ 0 + i = i
    OBVIOUS
  <2>2. more[i + 1] = [coords |-> LineCoords(RepeatedDouble(domain, i)), alpha |-> Powered(draw, 0 + i)]
    BY ONLY <1>6, i \in 0 .. steps - 1, Zenon DEF HalvingsAre
  <2>3. RepeatedDouble(domain, i) = RepeatedDouble(half, low + i)
    BY ONLY <1>4, <2>1
  <2>4. CoordsAt(level + i) = LineCoords(RepeatedDouble(half, low + i))
    <3> DEFINE l == level + i
    <3>1. l # 0 /\ l - 1 = low + i
      BY ONLY <2>1, level \in Nat \ {0} DEF low
    <3> HIDE DEF l
    <3>2. CoordsAt(l) = LineCoords(LineAt(l))
      BY <3>1, Zenon DEF CoordsAt
    <3> QED BY ONLY <1>3, <3>1, <3>2 DEF l
  <2> QED BY ONLY <2>1, <2>2, <2>3, <2>4
<1>8. RepeatedDouble(domain, steps) = LineAt(level + steps)
  <2> DEFINE l == level + steps
  <2>1. l - 1 = low + steps
    BY ONLY level \in Nat \ {0}, steps \in Nat DEF low
  <2> HIDE DEF l
  <2>2. RepeatedDouble(domain, steps) = RepeatedDouble(half, low + steps)
    BY ONLY <1>4, steps \in Nat
  <2> QED BY ONLY <1>3, <2>1, <2>2 DEF l
<1> QED BY ONLY <1>7, <1>8, Zenon DEF HalvedFrom

(* What the folds are measured with does not change.                         *)
LEMMA HalvingsStay ==
  ASSUME setting' = setting
  PROVE  /\ LiftingLog' = LiftingLog /\ \A l : LineAt(l)' = LineAt(l)
         /\ \A k, c, f : LayerHalvings(k, c, f)' <=> LayerHalvings(k, c, f)
<1>1. LiftingLog' = LiftingLog
  BY DEF LiftingLog
<1>2. HalfCoset' = HalfCoset
  BY ONLY <1>1 DEF HalfCoset
<1>3. \A l : LineAt(l)' = LineAt(l)
  BY ONLY <1>2 DEF LineAt
<1>4. \A l : CoordsAt(l)' = CoordsAt(l)
  BY ONLY <1>2, <1>3 DEF CoordsAt
<1>5. \A f, l, a : HalvesAt(f, l, a)' <=> HalvesAt(f, l, a)
  BY ONLY <1>4 DEF HalvesAt
<1>6. \A k, c, f : LayerHalvings(k, c, f)' <=> LayerHalvings(k, c, f)
  BY ONLY <1>1, <1>5 DEF LayerHalvings
<1> QED BY ONLY <1>1, <1>3, <1>6

(* The queries are positions of the domain in increasing order.              *)
LEMMA QueriesIncrease ==
  ASSUME setting \in Settings, NEW raw
  PROVE  SortedQueries(raw) \in Seq(0 .. 2 ^ LiftingLog - 1) /\ Increasing(SortedQueries(raw))
<1> DEFINE top == 2 ^ LiftingLog
           S == Range(raw)
<1>1. top \in Nat
  BY SettingFacts, PowerOfTwo
<1>2. SortedQueries(raw) = Sorted(S, top)
  BY Zenon DEF SortedQueries
<1> HIDE DEF top, S
<1>3. Sorted(S, top) \in Seq(S \cap 0 .. top - 1) /\ Increasing(Sorted(S, top))
  BY ONLY <1>1, SortedMembers
<1>5. Sorted(S, top) \in Seq(0 .. top - 1)
  <2> DEFINE B == 0 .. top - 1
             A == S \cap B
             t == Sorted(S, top)
  <2>1. A \subseteq B /\ t \in Seq(A)
    BY ONLY <1>3
  <2> HIDE DEF A, B, t
  <2>2. t \in Seq(B)
    BY ONLY <2>1, SeqLarger
  <2> QED BY ONLY <2>2 DEF B, t
<1> QED BY ONLY <1>2, <1>3, <1>5 DEF top

(* No halving has been made at first.                                        *)
LEMMA FoldInit == Init => FoldInv
<1> SUFFICES ASSUME Init PROVE FoldInv
  OBVIOUS
<1>1. layers = <<>> /\ positions = <<>>
  BY DEF Init
<1>2. Len(layers) = 0 /\ DOMAIN layers = {}
  BY <1>1, NothingIsSeq, NoPlaces
<1> DEFINE S == 0 .. 2 ^ LiftingLog - 1
<1>3. positions \in Seq(S)
  <2> HIDE DEF S
  <2> QED BY <1>1
<1>4. Increasing(positions)
  BY <1>1, NoPlaces DEF Increasing
<1> HIDE DEF Init
<1> QED BY <1>2, <1>3, <1>4 DEF FoldInv

(* The circle's halving and those of the line it leaves.                     *)
LEMMA FirstHalvings ==
  ASSUME setting \in Settings, NEW step \in Nat \ {0}, NEW first, NEW rest,
         first = [coords |-> CircleCoords(HalfCoset), alpha |-> Challenge(2)],
         rest = LineHalvings(half_odds(HalfCoset.log), Square(Challenge(2)), step - 1)
  PROVE  /\ IsSeq(<<first>> \o rest) /\ Len(<<first>> \o rest) = step
         /\ HalvedFrom(<<first>> \o rest, 0, 2, step)
         /\ RepeatedDouble(half_odds(HalfCoset.log), step - 1) = LineAt(step)
<1> DEFINE half == HalfCoset
           m == step - 1
           one == 1
<1>1. half_odds(HalfCoset.log) = half
  BY FirstLine
<1>2. m \in Nat /\ step = m + 1 /\ one \in Nat
  OBVIOUS
<1>3. \A l : LineAt(l) = RepeatedDouble(half, l - 1)
  BY Zenon DEF LineAt
<1>4. Challenge(2) = Powered(2, 0) /\ Square(Challenge(2)) = Powered(2, one)
  <2>1. 0 + 1 = 1 /\ 0 \in Nat
    OBVIOUS
  <2>2. Square(Powered(2, 0)) = Powered(2, 0 + 1) /\ Challenge(2) = Powered(2, 0)
    BY ONLY <2>1, PoweredFacts
  <2> QED BY ONLY <2>1, <2>2
<1>5. rest = LineHalvings(half, Powered(2, one), m)
  BY <1>1, <1>4
<1> HIDE DEF half, m, one
<1>6. IsSeq(rest) /\ Len(rest) = m
  BY ONLY <1>2, <1>5, LineHalvingsLength
<1>7. IsSeq(<<first>>) /\ Len(<<first>>) = 1 /\ <<first>>[1] = first
  BY ONLY OneIsSeq
<1>8. /\ IsSeq(<<first>> \o rest) /\ Len(<<first>> \o rest) = 1 + m
      /\ \A i \in 1 .. 1 : (<<first>> \o rest)[i] = <<first>>[i]
      /\ \A i \in 1 .. m : (<<first>> \o rest)[1 + i] = rest[i]
  <2> DEFINE s == <<first>>
  <2>0. IsSeq(s) /\ IsSeq(rest)
    BY ONLY <1>6, <1>7
  <2>1. IsSeq(s) /\ Len(s) = 1
    BY ONLY <1>7
  <2> HIDE DEF s
  <2>2. IsSeq(s \o rest) /\ Len(s \o rest) = Len(s) + Len(rest)
    BY ONLY <1>6, <2>1, JoinedLength
  <2>3. \A i \in 1 .. Len(s) : (s \o rest)[i] = s[i]
    BY ONLY <2>0, JoinedElements
  <2>4. \A i \in 1 .. Len(rest) : (s \o rest)[Len(s) + i] = rest[i]
    BY ONLY <2>0, JoinedElements
  <2>5. /\ IsSeq(s \o rest) /\ Len(s \o rest) = 1 + m
        /\ \A i \in 1 .. 1 : (s \o rest)[i] = s[i]
        /\ \A i \in 1 .. m : (s \o rest)[1 + i] = rest[i]
    BY ONLY <1>6, <2>1, <2>2, <2>3, <2>4
  <2> QED BY ONLY <2>5 DEF s
<1> DEFINE more == <<first>> \o rest
<1>9. ASSUME NEW i \in 0 .. step - 1
      PROVE  more[i + 1] = [coords |-> CoordsAt(0 + i), alpha |-> Powered(2, i)]
  <2>0. i \in Nat /\ 0 + i = i
    BY ONLY <1>2, i \in 0 .. step - 1
  <2>1. CASE i = 0
    <3>1. more[1] = first
      BY ONLY <1>7, <1>8
    <3>2. CoordsAt(i) = CircleCoords(half)
      BY ONLY <2>1 DEF CoordsAt, half
    <3>3. more[i + 1] = first
      BY ONLY <2>1, <3>1
    <3>4. first = [coords |-> CircleCoords(half), alpha |-> Powered(2, 0)]
      BY <1>4 DEF half
    <3> HIDE DEF more
    <3> QED BY ONLY <2>0, <2>1, <3>2, <3>3, <3>4
  <2>2. CASE i # 0
    <3> DEFINE j == i - 1
               e == one + j
    <3>1. j \in 0 .. m - 1 /\ i = j + 1 /\ i \in 1 .. m /\ 1 + i = i + 1
      BY ONLY <1>2, <2>0, <2>2, i \in 0 .. step - 1
    <3>2. e = i
      BY ONLY <2>0 DEF one
    <3>3. e = one + j
      OBVIOUS
    <3> HIDE DEF j, e, more
    <3>4. rest[j + 1] = [coords |-> LineCoords(RepeatedDouble(half, j)), alpha |-> Powered(2, e)]
      <4>1. HalvingsAre(rest, half, 2, one, m)
        BY ONLY <1>2, <1>5, LineHalvingsAre
      <4> QED BY ONLY <3>1, <3>3, <4>1, Zenon DEF HalvingsAre
    <3>5. more[i + 1] = rest[i]
      BY ONLY <1>8, <3>1 DEF more
    <3>6. CoordsAt(i) = LineCoords(RepeatedDouble(half, j))
      <4>1. CoordsAt(i) = LineCoords(LineAt(i))
        BY <2>2, Zenon DEF CoordsAt
      <4>2. LineAt(i) = RepeatedDouble(half, i - 1)
        BY ONLY <1>3
      <4>3. i - 1 = j
        BY DEF j
      <4> QED BY ONLY <4>1, <4>2, <4>3
    <3> QED BY ONLY <2>0, <3>1, <3>2, <3>4, <3>5, <3>6
  <2> QED BY ONLY <2>1, <2>2
<1>10. RepeatedDouble(half_odds(HalfCoset.log), step - 1) = LineAt(step)
  BY ONLY <1>1, <1>3
<1> HIDE DEF more
<1>11. HalvedFrom(more, 0, 2, step)
  BY ONLY <1>9, Zenon DEF HalvedFrom
<1> QED BY ONLY <1>2, <1>8, <1>10, <1>11 DEF more

(* Every step keeps the halvings: those of a layer are made when it is       *)
(* committed to, on the line the layers before it left, and nothing changes  *)
(* them afterwards.                                                          *)
LEMMA FoldStep ==
  ASSUME ProverInv, ScheduleInv, FoldInv, [Next]_vars
  PROVE  FoldInv'
<1> DEFINE n == Len(layers)
           L == LiftingLog
           S == 0 .. 2 ^ LiftingLog - 1
<1>1. /\ setting \in Settings /\ IsSeq(layers) /\ IsSeq(folds) /\ ProverProgress
      /\ n = 0 => Len(folds) = 0
      /\ n >= 1 => LineLeft(layers, line, folds)
  BY DEF ProverInv, ScheduleInv
<1>2. /\ \A k \in DOMAIN layers : LayerHalvings(k, layers, folds)
      /\ n >= 1 => line.domain = LineAt(L - line.log)
      /\ positions \in Seq(S) /\ Increasing(positions)
  BY DEF FoldInv
<1>3. /\ setting.fold_step \in Nat /\ setting.fold_step >= 1 /\ L \in Nat /\ LastLayerLog \in Nat
      /\ LastLayerLog + setting.fold_step <= L
  BY <1>1, SettingFacts
<1>4. n \in Nat /\ DOMAIN layers = 1 .. n /\ Len(folds) \in Nat
  BY <1>1, SeqFacts
<1> HIDE DEF n, L
<1>5. ASSUME setting' = setting
      PROVE  /\ L' = L /\ S' = S /\ \A l : LineAt(l)' = LineAt(l)
             /\ \A k, c, f : LayerHalvings(k, c, f)' <=> LayerHalvings(k, c, f)
  <2>1. LiftingLog' = LiftingLog
    BY <1>5, HalvingsStay
  <2>2. L' = L /\ S' = S
    BY ONLY <2>1 DEF L
  <2> HIDE DEF S
  <2> QED BY ONLY <1>5, <2>2, HalvingsStay
<1> HIDE DEF S
<1>6. ASSUME setting' = setting, UNCHANGED <<layers, folds, line>>,
             positions' \in Seq(S), Increasing(positions')
      PROVE  FoldInv'
  <2>1. \A k \in DOMAIN layers' : LayerHalvings(k, layers, folds)'
    BY <1>2, <1>5, <1>6
  <2>2. Len(layers') >= 1 => line'.domain = LineAt(LiftingLog - line.log)'
    BY <1>2, <1>5, <1>6 DEF n, L
  <2>3. positions' \in Seq((0 .. 2 ^ LiftingLog - 1)')
    BY <1>5, <1>6 DEF S
  <2> QED BY ONLY <2>1, <2>2, <2>3, <1>6 DEF FoldInv, Increasing
<1>7. ASSUME setting' = setting, UNCHANGED positions,
             NEW level, NEW log, NEW step, level = L - log, Len(folds) = level,
             NEW layer, layer = CommittedLayer(level, log, step), layers' = Append(layers, layer),
             NEW more, IsSeq(more), Len(more) = step, folds' = folds \o more,
             HalvedFrom(more, level, n + 2, step),
             line'.domain = LineAt(L - line'.log)
      PROVE  FoldInv'
  <2>1. layer.level = level /\ layer.log = log /\ layer.fold_step = step
    BY <1>7 DEF CommittedLayer
  <2>2. \A k \in DOMAIN layers' : LayerHalvings(k, layers', folds')
    <3>1. LiftingLog \in Nat /\ layer.level = LiftingLog - layer.log /\ Len(folds) = layer.level
          /\ Len(more) = layer.fold_step
      BY <1>3, <1>7, <2>1 DEF L
    <3>2. HalvedFrom(more, layer.level, Len(layers) + 2, layer.fold_step)
      BY ONLY <1>7, <2>1 DEF n
    <3> QED BY ONLY <1>1, <1>2, <1>7, <3>1, <3>2, HalvingsAppended
  <2>3. \A k \in DOMAIN layers' : LayerHalvings(k, layers, folds)'
    BY ONLY <1>5, <1>7, <2>2
  <2>4. line'.domain = LineAt(LiftingLog - line.log)'
    BY ONLY <1>5, <1>7 DEF L
  <2>5. positions' \in Seq((0 .. 2 ^ LiftingLog - 1)') /\ Increasing(positions')
    BY <1>2, <1>5, <1>7 DEF S
  <2> QED BY ONLY <2>3, <2>4, <2>5 DEF FoldInv, Increasing
<1>8. CASE CommitTrace \/ SampleValues \/ CommitLastLayer
  <2>1. UNCHANGED <<setting, layers, folds, line, positions>>
    BY <1>8 DEF CommitTrace, SampleValues, CommitLastLayer
  <2> QED BY <1>2, <1>6, <2>1
<1>9. CASE GrindAndDrawQueries
  <2>1. PICK raw : positions' = SortedQueries(raw)
    BY <1>9 DEF GrindAndDrawQueries
  <2>2. UNCHANGED <<setting, layers, folds, line>>
    BY <1>9 DEF GrindAndDrawQueries
  <2>3. positions' \in Seq(S) /\ Increasing(positions')
    BY <1>1, <2>1, QueriesIncrease DEF S
  <2> QED BY <1>6, <2>2, <2>3
<1>10. CASE UNCHANGED <<setting, layers, folds, line, positions>>
  BY <1>2, <1>6, <1>10
<1>11. CASE CommitFirstLayer
  <2> DEFINE step == setting.fold_step
             layer == CommittedLayer(0, L, step)
             first == [coords |-> CircleCoords(HalfCoset), alpha |-> NextDraw]
             rest == LineHalvings(half_odds(HalfCoset.log), Square(NextDraw), step - 1)
             more == <<first>> \o rest
  <2>1. /\ stage = "fri" /\ setting' = setting /\ UNCHANGED positions
        /\ layers' = <<layer>> /\ folds' = more
        /\ line'.log = L - step
        /\ line'.domain = RepeatedDouble(half_odds(HalfCoset.log), step - 1)
    BY <1>11 DEF CommitFirstLayer, L
  <2>2. n = 0 /\ Len(drawn) = 1
    BY <1>1, <2>1 DEF ProverProgress, n
  <2>3. NextDraw = Challenge(2)
    BY ONLY <2>2 DEF NextDraw
  <2>4. step \in Nat \ {0}
    BY ONLY <1>3
  <2>5. /\ first = [coords |-> CircleCoords(HalfCoset), alpha |-> Challenge(2)]
        /\ rest = LineHalvings(half_odds(HalfCoset.log), Square(Challenge(2)), step - 1)
    BY ONLY <2>3
  <2> HIDE DEF first, rest
  <2>6. /\ IsSeq(more) /\ Len(more) = step
        /\ HalvedFrom(more, 0, 2, step)
        /\ line'.domain = LineAt(step)
    <3> HIDE DEF step
    <3> QED BY ONLY <1>1, <2>1, <2>4, <2>5, FirstHalvings
  <2> HIDE DEF more
  <2>7. folds' = folds \o more
    <3>1. folds = <<>>
      BY <1>1, <2>2, SeqFacts
    <3> QED BY <2>1, <2>6, <3>1 DEF IsSeq
  <2> HIDE DEF layer, step
  <2>8. layers' = Append(layers, layer)
    <3>1. layers = <<>>
      BY <1>1, <2>2, SeqFacts DEF n
    <3> QED BY <2>1, <3>1
  <2>9. 0 = L - L /\ Len(folds) = 0 /\ L - line'.log = step /\ n + 2 = 2
    BY <1>1, <1>3, <2>1, <2>2, <2>4
  <2> DEFINE zero == 0
             two == n + 2
  <2>10. /\ zero = L - L /\ Len(folds) = zero /\ layer = CommittedLayer(zero, L, step)
         /\ HalvedFrom(more, zero, two, step)
    BY <2>6, <2>9 DEF layer
  <2> HIDE DEF zero
  <2>11. line'.domain = LineAt(L - line'.log)
    BY <2>6, <2>9
  <2> QED BY ONLY <1>7, <2>1, <2>6, <2>7, <2>8, <2>10, <2>11
<1>12. CASE CommitInnerLayer
  <2> DEFINE log == line.log
             step == StepAt(log)
             level == L - log
             layer == CommittedLayer(level, log, step)
             more == LineHalvings(line.domain, NextDraw, step)
             draw == n + 2
  <2>1. /\ stage = "fri_inner" /\ setting' = setting /\ UNCHANGED positions
        /\ log > LastLayerLog
        /\ layers' = Append(layers, layer) /\ folds' = folds \o more
        /\ line'.log = log - step /\ line'.domain = RepeatedDouble(line.domain, step)
    BY <1>12 DEF CommitInnerLayer, StepAt, L
  <2>2. n >= 1 /\ Len(drawn) = n + 1
    BY <1>1, <2>1 DEF ProverProgress, n
  <2>3. NextDraw = Challenge(draw)
    BY ONLY <1>4, <2>2 DEF NextDraw
  <2>4. log \in LastLayerLog .. L /\ Len(folds) = level
    BY ONLY <1>1, <2>2 DEF LineLeft, L
  <2>5. step \in Nat
    BY <1>3, <2>1, <2>4 DEF StepAt
  <2>6. level \in Nat \ {0}
    <3>1. ScheduleInv /\ n \in DOMAIN layers
      BY <1>4, <2>2
    <3>2. /\ layers[n].log \in LastLayerLog + 1 .. LiftingLog /\ layers[n].fold_step \in 1 .. setting.fold_step
      BY <3>1 DEF ScheduleInv, Scheduled
    <3>3. log = layers[n].log - layers[n].fold_step
      BY ONLY <1>1, <2>2 DEF LineLeft, n
    <3> QED BY ONLY <1>3, <2>4, <3>2, <3>3 DEF L
  <2>7. line.domain = LineAt(level)
    BY ONLY <1>2, <2>2
  <2>8. L - line'.log = level + step
    BY ONLY <1>3, <2>1, <2>4, <2>5
  <2> HIDE DEF step, level, draw
  <2>9. IsSeq(more) /\ Len(more) = step
    BY ONLY <2>5, LineHalvingsLength
  <2>10. more = LineHalvings(line.domain, Challenge(draw), step)
    BY ONLY <2>3
  <2> HIDE DEF more
  <2>11. /\ HalvedFrom(more, level, draw, step)
         /\ RepeatedDouble(line.domain, step) = LineAt(level + step)
    BY ONLY <2>5, <2>6, <2>7, <2>10, InnerHalvings
  <2>12. line'.domain = LineAt(L - line'.log)
    BY ONLY <2>1, <2>8, <2>11
  <2>13. level = L - log /\ layer = CommittedLayer(level, log, step)
    BY DEF level
  <2> HIDE DEF log, layer
  <2> QED BY ONLY <1>7, <2>1, <2>4, <2>9, <2>11, <2>12, <2>13 DEF draw
<1>13. CASE UNCHANGED vars
  <2>1. UNCHANGED <<setting, layers, folds, line, positions>>
    BY <1>13 DEF vars, prover
  <2> QED BY <1>10, <2>1
<1>14. CASE Open \/ Deliver \/ ReadCommitment \/ ReadSamples \/ ReadFirstLayer \/ ReadInnerLayer
              \/ ReadLastLayer \/ CheckNonceAndDrawQueries \/ VerifyTrees \/ AnswerQueries
              \/ VerifyLayer \/ VerifyLastLayer \/ Finished
  <2>1. LaterStep /\ UNCHANGED <<line, folds, layers, positions>>
    BY <1>14, VerifierIsLater
  <2> QED BY <1>10, <2>1 DEF LaterStep
<1> QED BY <1>8, <1>9, <1>11, <1>12, <1>13, <1>14 DEF Next

------------------------------------------------------------------------------
(* Layers that are folded again *)

(* The evaluation that so many halvings of the quotients make.               *)
LineEval(level) ==
  [domain |-> LineAt(level), at |-> [i \in 0 .. 2 ^ (LiftingLog - level) - 1 |-> Value(level, i)]]

(* The sizes of the lines, and what doubling one gives.                      *)
LEMMA LineFacts ==
  ASSUME setting \in Settings, NEW level \in 1 .. LiftingLog
  PROVE  LineAt(level).log = LiftingLog - level /\ Double(LineAt(level)) = LineAt(level + 1)
<1> DEFINE half == HalfCoset
           L == LiftingLog
           n == level - 1
           m == level + 1
<1>1. half.log = L - 1 /\ L \in Nat
  BY FirstLine, SettingFacts
<1>2. n \in Nat /\ m - 1 = n + 1 /\ level \in Nat
  BY <1>1
<1>3. \A l : LineAt(l) = RepeatedDouble(half, l - 1)
  BY Zenon DEF LineAt
<1> HIDE DEF half, L, m
<1>4. RepeatedDouble(half, n).log = half.log - n
  <2>1. half.log \in Int
    BY ONLY <1>1
  <2> HIDE DEF n
  <2> QED BY ONLY <1>2, <2>1, RepeatedDoubleLog
<1>5. half.log - n = L - level
  BY ONLY <1>1, <1>2
<1>6. Double(RepeatedDouble(half, n)) = RepeatedDouble(half, n + 1)
  <2> HIDE DEF n
  <2> QED BY ONLY <1>2, DoublingStep
<1>7. LineAt(level) = RepeatedDouble(half, n) /\ LineAt(m) = RepeatedDouble(half, n + 1)
  BY ONLY <1>2, <1>3
<1> HIDE DEF n
<1> QED BY ONLY <1>4, <1>5, <1>6, <1>7 DEF L, m

(* Two neighbours fold to the value the prover has above them.               *)
LEMMA FoldOfPair ==
  ASSUME NEW halvings, Len(halvings) \in Nat, NEW level \in Nat, level < Len(halvings),
         NEW coords, NEW alpha, halvings[level + 1] = [coords |-> coords, alpha |-> alpha],
         NEW i \in Nat, NEW left, left = Value(level, 2 * i), NEW right, right = Value(level, 2 * i + 1),
         NEW coord, coord = coords[i]
  PROVE  Fold(halvings, left, right, coord, alpha) = Value(level + 1, i)
<1>1. left[1] = level /\ left[2] = 2 * i /\ (2 * i) \div 2 = i
  <2>1. (2 * i) \div 2 = i
    OBVIOUS
  <2> QED BY <2>1 DEF Value
<1>2. left # Wrong
  <2>1. level # -1
    OBVIOUS
  <2>2. Wrong[1] = -1
    BY DEF Wrong
  <2> QED BY ONLY <1>1, <2>1, <2>2
<1>3. right = Value(level, left[2] + 1)
  BY <1>1
<1>4. halvings[level + 1].coords[i] = coord /\ halvings[level + 1].alpha = alpha
  OBVIOUS
<1>5. left[2] \div 2 = i /\ left[2] = 2 * i
  BY ONLY <1>1
<1> QED BY ONLY <1>1, <1>2, <1>3, <1>4, <1>5, level < Len(halvings) DEF Fold

(* A halving of a line gives the next line.                                  *)
LEMMA LineHalved ==
  ASSUME setting \in Settings, NEW level \in 1 .. LiftingLog, level < LiftingLog,
         NEW halvings, Len(halvings) \in Nat, NEW alpha, HalvesAt(halvings, level, alpha)
  PROVE  fold_line_cpu(halvings, LineEval(level), alpha) = LineEval(level + 1)
<1> DEFINE L == LiftingLog
           domain == LineAt(level)
           m == L - (level + 1)
           at == LineEval(level).at
           coords == LineCoords(domain)
           Folded(i) == Fold(halvings, at[2 * i], at[2 * i + 1], coords[i], alpha)
<1>1. L \in Nat /\ level \in Nat /\ level # 0 /\ m \in Nat /\ L - level = m + 1
  BY SettingFacts
<1>2. domain.log = L - level /\ Double(domain) = LineAt(level + 1)
  BY LineFacts
<1>3. domain.log - 1 = m
  BY ONLY <1>1, <1>2
<1>4. fold_line_cpu(halvings, LineEval(level), alpha) =
        [domain |-> Double(domain), at |-> [i \in 0 .. 2 ^ (domain.log - 1) - 1 |-> Folded(i)]]
  <2>1. LineEval(level).domain = domain
    BY DEF LineEval
  <2> HIDE DEF domain
  <2>2. fold_line_cpu(halvings, LineEval(level), alpha) =
        [domain |-> Double(LineEval(level).domain),
         at |-> [i \in 0 .. 2 ^ (LineEval(level).domain.log - 1) - 1 |->
             Fold(halvings, LineEval(level).at[2 * i], LineEval(level).at[2 * i + 1],
                  LineCoords(LineEval(level).domain)[i], alpha)]]
    BY Zenon DEF fold_line_cpu
  <2> QED BY ONLY <2>1, <2>2
<1>5. /\ level < Len(halvings)
      /\ halvings[level + 1] = [coords |-> coords, alpha |-> alpha]
  <2>1. level \in 0 .. Len(halvings) - 1 /\ halvings[level + 1] = [coords |-> CoordsAt(level), alpha |-> alpha]
    BY Zenon DEF HalvesAt
  <2>2. CoordsAt(level) = coords
    BY <1>1, Zenon DEF CoordsAt
  <2> QED BY ONLY <1>1, <2>1, <2>2, Len(halvings) \in Nat
<1>6. at = [i \in 0 .. 2 ^ (m + 1) - 1 |-> Value(level, i)]
  BY ONLY <1>1 DEF LineEval
<1>7. 2 ^ (m + 1) = 2 * 2 ^ m /\ 2 ^ m \in Nat
  BY ONLY <1>1, PowerDoubles
<1> HIDE DEF at, coords, m
<1>8. ASSUME NEW i \in 0 .. 2 ^ m - 1
      PROVE  Folded(i) = Value(level + 1, i)
  <2>1. i \in Nat /\ 2 * i \in 0 .. 2 ^ (m + 1) - 1 /\ 2 * i + 1 \in 0 .. 2 ^ (m + 1) - 1
    BY ONLY <1>7, i \in 0 .. 2 ^ m - 1
  <2> DEFINE left == at[2 * i]
             right == at[2 * i + 1]
             coord == coords[i]
  <2>2. left = Value(level, 2 * i) /\ right = Value(level, 2 * i + 1) /\ coord = coords[i]
    BY ONLY <1>6, <2>1
  <2> HIDE DEF left, right, coord
  <2> HIDE DEF coords
  <2> DEFINE from == level
             pair == i
  <2>4. /\ from \in Nat /\ pair \in Nat /\ from < Len(halvings)
        /\ halvings[from + 1] = [coords |-> coords, alpha |-> alpha]
        /\ left = Value(from, 2 * pair) /\ right = Value(from, 2 * pair + 1) /\ coord = coords[pair]
    BY ONLY <1>1, <1>5, <2>1, <2>2
  <2> HIDE DEF from, pair
  <2>3. Fold(halvings, left, right, coord, alpha) = Value(from + 1, pair)
    BY ONLY <2>4, FoldOfPair, Len(halvings) \in Nat
  <2> QED BY ONLY <2>3 DEF left, right, coord, from, pair
<1>9. LineEval(level + 1) = [domain |-> LineAt(level + 1), at |-> [i \in 0 .. 2 ^ m - 1 |-> Value(level + 1, i)]]
  BY Zenon DEF LineEval, m
<1> HIDE DEF Folded, domain
<1> DEFINE f == [i \in 0 .. 2 ^ m - 1 |-> Folded(i)]
           g == [i \in 0 .. 2 ^ m - 1 |-> Value(level + 1, i)]
<1>10. f = g
  BY ONLY <1>8
<1>11. fold_line_cpu(halvings, LineEval(level), alpha) = [domain |-> LineAt(level + 1), at |-> f]
  BY ONLY <1>2, <1>3, <1>4
<1> HIDE DEF f
<1> QED BY ONLY <1>9, <1>10, <1>11

(* The fold of the quotients to the first line.                              *)
LEMMA CircleHalved ==
  ASSUME setting \in Settings, NEW halvings, Len(halvings) \in Nat, NEW alpha,
         HalvesAt(halvings, 0, alpha)
  PROVE  fold_circle_into_line(halvings, HalfCoset, Quotients, alpha) = LineEval(1)
<1> DEFINE L == LiftingLog
           half == HalfCoset
           m == L - 1
           at == Quotients
           coords == CircleCoords(half)
           Folded(i) == Fold(halvings, at[2 * i], at[2 * i + 1], coords[i], alpha)
<1>1. /\ L \in Nat /\ m \in Nat /\ L = m + 1
      /\ half.log = m /\ half_odds(half.log) = half
  <2>1. L \in Nat /\ L >= 1
    BY SettingFacts
  <2>2. half.log = L - 1 /\ half_odds(half.log) = half
    BY FirstLine
  <2> HIDE DEF L, half
  <2> QED BY ONLY <2>1, <2>2
<1>2. LineAt(1) = half
  <2>1. LineAt(1) = RepeatedDouble(half, 1 - 1)
    BY Zenon DEF LineAt
  <2>2. RepeatedDouble(half, 0) = half
    BY ONLY DoublingStep
  <2>3. 1 - 1 = 0
    OBVIOUS
  <2> QED BY ONLY <2>1, <2>2, <2>3
<1>3. at = [i \in 0 .. 2 ^ (m + 1) - 1 |-> Value(0, i)]
  BY ONLY <1>1 DEF Quotients
<1>4. fold_circle_into_line(halvings, half, at, alpha) =
        [domain |-> half_odds(half.log), at |-> [i \in 0 .. 2 ^ half.log - 1 |-> Folded(i)]]
  <2> HIDE DEF half, at
  <2> QED BY Zenon DEF fold_circle_into_line
<1>5. LineEval(1) = [domain |-> LineAt(1), at |-> [i \in 0 .. 2 ^ m - 1 |-> Value(1, i)]]
  BY Zenon DEF LineEval
<1>6. 0 < Len(halvings) /\ halvings[0 + 1] = [coords |-> coords, alpha |-> alpha]
  <2>1. 0 \in 0 .. Len(halvings) - 1 /\ halvings[0 + 1] = [coords |-> CoordsAt(0), alpha |-> alpha]
    BY Zenon DEF HalvesAt
  <2>2. CoordsAt(0) = coords
    BY Zenon DEF CoordsAt
  <2> HIDE DEF coords
  <2> QED BY ONLY <2>1, <2>2, Len(halvings) \in Nat
<1>7. 2 ^ (m + 1) = 2 * 2 ^ m /\ 2 ^ m \in Nat
  BY ONLY <1>1, PowerDoubles
<1> HIDE DEF at, coords, m, half
<1> DEFINE zero == 0
<1>8. 0 = zero /\ zero \in Nat /\ zero < Len(halvings) /\ zero + 1 = 1
      /\ halvings[zero + 1] = [coords |-> coords, alpha |-> alpha]
  BY ONLY <1>6
<1> HIDE DEF zero
<1>9. ASSUME NEW i \in 0 .. 2 ^ m - 1
      PROVE  Folded(i) = Value(1, i)
  <2>1. i \in Nat /\ 2 * i \in 0 .. 2 ^ (m + 1) - 1 /\ 2 * i + 1 \in 0 .. 2 ^ (m + 1) - 1
    BY ONLY <1>7, i \in 0 .. 2 ^ m - 1
  <2> DEFINE left == at[2 * i]
             right == at[2 * i + 1]
             coord == coords[i]
  <2>2. left = Value(zero, 2 * i) /\ right = Value(zero, 2 * i + 1) /\ coord = coords[i]
    BY ONLY <1>3, <1>8, <2>1
  <2> HIDE DEF left, right, coord
  <2>3. Fold(halvings, left, right, coord, alpha) = Value(zero + 1, i)
    BY ONLY <1>8, <2>1, <2>2, FoldOfPair, Len(halvings) \in Nat
  <2> QED BY ONLY <1>8, <2>3 DEF left, right, coord
<1> HIDE DEF Folded
<1> DEFINE f == [i \in 0 .. 2 ^ m - 1 |-> Folded(i)]
           g == [i \in 0 .. 2 ^ m - 1 |-> Value(1, i)]
<1>10. f = g
  BY ONLY <1>9
<1>11. fold_circle_into_line(halvings, half, at, alpha) = [domain |-> half, at |-> f]
  BY ONLY <1>1, <1>4
<1> HIDE DEF f
<1> QED BY ONLY <1>2, <1>5, <1>10, <1>11 DEF half, at

(* The halvings from a level on are those of a line with a challenge's       *)
(* powers.                                                                   *)
HalvesFrom(halvings, level, draw, p, steps) ==
  \A i \in 0 .. steps - 1 : HalvesAt(halvings, level + i, Powered(draw, p + i))

(* fold_line, with the powers of the challenge that the halvings had, gives  *)
(* the line that they gave.                                                  *)
LEMMA LineFolded ==
  ASSUME setting \in Settings, NEW level \in Nat \ {0}, NEW steps \in Nat, level + steps <= LiftingLog,
         NEW halvings, Len(halvings) \in Nat, NEW draw, NEW p \in Nat,
         HalvesFrom(halvings, level, draw, p, steps)
  PROVE  fold_line(halvings, LineEval(level), Powered(draw, p), steps) = LineEval(level + steps)
<1> DEFINE Next1(x) == [line |-> fold_line_cpu(halvings, x.line, x.alpha), alpha |-> Square(x.alpha)]
           Start == [line |-> LineEval(level), alpha |-> Powered(draw, p)]
           Fills(f) == f = [k \in 0 .. steps |-> IF k = 0 THEN Start ELSE Next1(f[k - 1])]
           At(k) == [line |-> LineEval(level + k), alpha |-> Powered(draw, p + k)]
<1>1. At(0) = Start
  <2>1. level + 0 = level /\ p + 0 = p
    OBVIOUS
  <2> QED BY ONLY <2>1
<1>2. ASSUME NEW k \in 1 .. steps PROVE Next1(At(k - 1)) = At(k)
  <2> DEFINE m == k - 1
             l == level + m
             e == p + m
             alpha == Powered(draw, e)
  <2>1. m \in 0 .. steps - 1 /\ e \in Nat /\ l \in Nat /\ l # 0 /\ l < level + steps
        /\ level + k = l + 1 /\ p + k = e + 1
    OBVIOUS
  <2>2. LiftingLog \in Nat
    BY SettingFacts
  <2>3. l \in 1 .. LiftingLog /\ l < LiftingLog
    <3> HIDE DEF l
    <3> QED BY ONLY <2>1, <2>2, level + steps <= LiftingLog, level \in Nat \ {0}, steps \in Nat
  <2>4. HalvesAt(halvings, l, alpha)
    <3> HIDE DEF m
    <3>1. HalvesAt(halvings, level + m, Powered(draw, p + m))
      BY <2>1, Zenon DEF HalvesFrom
    <3> QED BY ONLY <3>1, Zenon
  <2> HIDE DEF l, e
  <2>5. Square(alpha) = Powered(draw, e + 1)
    BY ONLY <2>1, PoweredFacts
  <2> HIDE DEF alpha
  <2>6. fold_line_cpu(halvings, LineEval(l), alpha) = LineEval(l + 1)
    BY ONLY <2>3, <2>4, LineHalved, setting \in Settings, Len(halvings) \in Nat
  <2>7. At(k - 1) = [line |-> LineEval(l), alpha |-> alpha]
    BY Zenon DEF l, e, alpha
  <2>8. At(k) = [line |-> LineEval(l + 1), alpha |-> Powered(draw, e + 1)]
    BY ONLY <2>1
  <2> DEFINE now == LineEval(l)
             next == LineEval(l + 1)
             power == Powered(draw, e + 1)
  <2>9. /\ At(k - 1) = [line |-> now, alpha |-> alpha] /\ At(k) = [line |-> next, alpha |-> power]
        /\ fold_line_cpu(halvings, now, alpha) = next /\ Square(alpha) = power
    BY ONLY <2>5, <2>6, <2>7, <2>8
  <2> HIDE DEF At, now, next, power, m
  <2> QED BY ONLY <2>9
<1>3. \E f : Fills(f)
  <2> DEFINE g == [k \in 0 .. steps |-> At(k)]
  <2>1. ASSUME NEW k \in 0 .. steps PROVE At(k) = IF k = 0 THEN Start ELSE Next1(g[k - 1])
    <3>1. ASSUME k # 0 PROVE At(k) = Next1(g[k - 1])
      <4>1. k \in 1 .. steps /\ k - 1 \in 0 .. steps
        BY <3>1
      <4> HIDE DEF At, Next1
      <4>2. g[k - 1] = At(k - 1)
        BY ONLY <4>1
      <4> QED BY ONLY <1>2, <4>1, <4>2
    <3> HIDE DEF At, Next1, Start, g
    <3> QED BY ONLY <1>1, <3>1
  <2>2. g = [k \in 0 .. steps |-> IF k = 0 THEN Start ELSE Next1(g[k - 1])]
    <3>1. g = [k \in 0 .. steps |-> At(k)]
      OBVIOUS
    <3> HIDE DEF g, At, Next1, Start
    <3> QED BY ONLY <2>1, <3>1
  <2> QED BY <2>2
<1> DEFINE after == CHOOSE f : Fills(f)
<1>4. Fills(after)
  <2> HIDE DEF Fills
  <2> QED BY <1>3, Zenon
<1>5. fold_line(halvings, LineEval(level), Powered(draw, p), steps) = after[steps].line
  BY Zenon DEF fold_line
<1>6. \A k \in 0 .. steps : after[k] = IF k = 0 THEN Start ELSE Next1(after[k - 1])
  <2>1. after = [k \in 0 .. steps |-> IF k = 0 THEN Start ELSE Next1(after[k - 1])]
    BY <1>4
  <2> HIDE DEF after, Start, Next1
  <2> QED BY ONLY <2>1
<1> HIDE DEF after, Start, Next1, Fills
<1> DEFINE N == {k \in Nat : k <= steps => after[k] = At(k)}
<1> HIDE DEF At
<1>7. 0 \in N
  BY ONLY <1>1, <1>6, steps \in Nat
<1>8. ASSUME NEW k \in Nat, k \in N PROVE k + 1 \in N
  <2>1. ASSUME k + 1 <= steps PROVE after[k + 1] = At(k + 1)
    <3> DEFINE m == k + 1
    <3>1. m \in 1 .. steps /\ m \in 0 .. steps /\ m # 0 /\ m - 1 = k /\ k <= steps
      BY ONLY <2>1, steps \in Nat, k \in Nat
    <3>2. after[k] = At(k)
      BY ONLY <1>8, <3>1
    <3> HIDE DEF m
    <3>3. after[m] = Next1(after[k])
      BY ONLY <1>6, <3>1
    <3>4. Next1(At(k)) = At(m)
      BY ONLY <1>2, <3>1
    <3> QED BY ONLY <3>2, <3>3, <3>4 DEF m
  <2> QED BY ONLY <2>1, k \in Nat
<1> HIDE DEF N
<1>9. steps \in N
  BY <1>7, <1>8, Counting
<1>10. after[steps] = At(steps)
  BY ONLY <1>9, steps \in Nat DEF N
<1> QED BY ONLY <1>5, <1>10 DEF At

(* Where the folds of the layers go on: what the two invariants say of layer k. *)
LEMMA LayerFolds ==
  ASSUME setting \in Settings, ScheduleInv, FoldInv, IsSeq(layers), NEW k \in DOMAIN layers
  PROVE  /\ layers[k].level \in Nat /\ layers[k].log \in Nat /\ layers[k].fold_step \in Nat \ {0}
         /\ layers[k].level = LiftingLog - layers[k].log /\ layers[k].fold_step <= layers[k].log
         /\ IF k = 1 THEN layers[k].level = 0
            ELSE layers[k].level # 0
                 /\ layers[k].level = layers[k - 1].level + layers[k - 1].fold_step
         /\ layers[k].alpha = Powered(k + 1, 0)
         /\ HalvesFrom(folds, layers[k].level, k + 1, 0, layers[k].fold_step)
<1> DEFINE L == LiftingLog
           low == LastLayerLog
           most == setting.fold_step
           n == Len(layers)
<1>1. n \in Nat /\ DOMAIN layers = 1 .. n /\ k \in 1 .. n
  BY SeqFacts
<1>2. L \in Nat /\ low \in Nat /\ most \in Nat /\ low + most <= L
  BY SettingFacts
<1>3. \A j \in 1 .. n : Scheduled(j, layers) /\ LayerHalvings(j, layers, folds)
  BY <1>1 DEF ScheduleInv, FoldInv
<1>4. \A j \in 1 .. n : /\ layers[j].log \in low + 1 .. L /\ layers[j].fold_step \in 1 .. most
                        /\ layers[j].log = IF j = 1 THEN L ELSE layers[j - 1].log - layers[j - 1].fold_step
                        /\ layers[j].fold_step = IF j = 1 THEN most ELSE StepAt(layers[j].log)
                        /\ layers[j].alpha = Challenge(j + 1)
  <2> HIDE DEF n
  <2> QED BY <1>3 DEF Scheduled
<1>5. \A j \in 1 .. n : /\ layers[j].level = L - layers[j].log
                        /\ \A i \in 0 .. layers[j].fold_step - 1 :
                             HalvesAt(folds, layers[j].level + i, Powered(j + 1, i))
  <2> HIDE DEF n
  <2> QED BY <1>3 DEF LayerHalvings
<1>6. layers[k].fold_step <= layers[k].log
  <2>1. CASE k = 1
    BY ONLY <1>1, <1>2, <1>4, <2>1
  <2>2. CASE k # 1
    <3> DEFINE log == layers[k].log
    <3>1. log \in low + 1 .. L /\ layers[k].fold_step = StepAt(log)
      BY ONLY <1>1, <1>4, <2>2
    <3> HIDE DEF log
    <3>2. StepAt(log) <= log
      BY ONLY <1>2, <3>1 DEF StepAt
    <3> QED BY ONLY <3>1, <3>2 DEF log
  <2> QED BY <2>1, <2>2
<1>7. layers[k].alpha = Powered(k + 1, 0)
  <2>1. layers[k].alpha = Challenge(k + 1) /\ 0 \in Nat
    BY ONLY <1>1, <1>4
  <2> QED BY ONLY <2>1, PoweredFacts
<1>8. HalvesFrom(folds, layers[k].level, k + 1, 0, layers[k].fold_step)
  <2> DEFINE level == layers[k].level
             steps == layers[k].fold_step
  <2>1. \A i \in 0 .. steps - 1 : HalvesAt(folds, level + i, Powered(k + 1, i))
    BY ONLY <1>1, <1>5
  <2>2. steps \in Nat
    BY ONLY <1>1, <1>2, <1>4
  <2> HIDE DEF level, steps
  <2>3. ASSUME NEW i \in 0 .. steps - 1 PROVE HalvesAt(folds, level + i, Powered(k + 1, 0 + i))
    <3>1. 0 + i = i
      BY ONLY <2>2, i \in 0 .. steps - 1
    <3> QED BY ONLY <2>1, <3>1, i \in 0 .. steps - 1
  <2>4. HalvesFrom(folds, level, k + 1, 0, steps)
    BY ONLY <2>3, Zenon DEF HalvesFrom
  <2> QED BY ONLY <2>4 DEF level, steps
<1>9. IF k = 1 THEN layers[k].level = 0
      ELSE layers[k].level # 0 /\ layers[k].level = layers[k - 1].level + layers[k - 1].fold_step
  <2>1. CASE k = 1
    BY ONLY <1>1, <1>2, <1>4, <1>5, <2>1
  <2>2. CASE k # 1
    <3> DEFINE log == layers[k].log
               last == layers[k - 1].log
               step == layers[k - 1].fold_step
    <3>1. k - 1 \in 1 .. n
      BY ONLY <1>1, <2>2
    <3>2. log = last - step /\ last \in low + 1 .. L /\ step \in 1 .. most
      BY ONLY <1>1, <1>4, <2>2, <3>1
    <3>3. layers[k].level = L - log /\ layers[k - 1].level = L - last
      BY ONLY <1>1, <1>5, <3>1
    <3> HIDE DEF log, last, step
    <3> QED BY ONLY <1>2, <2>2, <3>2, <3>3 DEF step
  <2> QED BY <2>1, <2>2
<1>10. /\ layers[k].level \in Nat /\ layers[k].log \in Nat /\ layers[k].fold_step \in Nat \ {0}
       /\ layers[k].level = L - layers[k].log
  BY ONLY <1>1, <1>2, <1>4, <1>5
<1> QED BY ONLY <1>6, <1>7, <1>8, <1>9, <1>10 DEF L

(* Folding layer k again gives the evaluation of layer k + 1.                *)
FoldedAgain(k, evaluation) ==
  IF k = 1 THEN initial_inner_layer_evaluation(folds, HalfCoset, Quotients, layers[1].alpha,
                                               layers[1].fold_step)
  ELSE fold_line(folds, evaluation, layers[k].alpha, layers[k].fold_step)

(* The evaluation folded at a layer is the one the next layer was made from. *)
LEMMA LayerFolded ==
  ASSUME setting \in Settings, ScheduleInv, FoldInv, IsSeq(layers), IsSeq(folds),
         NEW k \in DOMAIN layers, NEW next \in DOMAIN layers, next = k + 1
  PROVE  FoldedAgain(k, LineEval(layers[k].level)) = LineEval(layers[next].level)
<1> DEFINE level == layers[k].level
           steps == layers[k].fold_step
           draw == k + 1
<1>1. /\ level \in Nat /\ steps \in Nat \ {0} /\ level = LiftingLog - layers[k].log
      /\ layers[k].log \in Nat /\ steps <= layers[k].log
      /\ (k = 1 => level = 0) /\ (k # 1 => level # 0)
      /\ layers[k].alpha = Powered(draw, 0)
      /\ HalvesFrom(folds, level, draw, 0, steps)
  BY LayerFolds
<1>2. layers[next].level = level + steps
  <2>1. k \in Nat /\ next # 1 /\ next - 1 = k
    BY SeqFacts
  <2> HIDE DEF level, steps
  <2>2. layers[next].level = layers[next - 1].level + layers[next - 1].fold_step
    BY <2>1, LayerFolds
  <2> QED BY ONLY <2>1, <2>2 DEF level, steps
<1>3. LiftingLog \in Nat /\ Len(folds) \in Nat
  BY SettingFacts, SeqFacts
<1>4. level + steps <= LiftingLog
  BY ONLY <1>1, <1>3
<1>5. CASE k # 1
  <2>1. FoldedAgain(k, LineEval(level)) = fold_line(folds, LineEval(level), layers[k].alpha, steps)
    BY <1>5, Zenon DEF FoldedAgain
  <2> DEFINE zero == 0
  <2> HIDE DEF level, steps, draw
  <2>2. zero \in Nat /\ level \in Nat \ {0} /\ steps \in Nat /\ layers[k].alpha = Powered(draw, zero)
        /\ HalvesFrom(folds, level, draw, zero, steps)
    BY ONLY <1>1, <1>5
  <2> HIDE DEF zero
  <2>3. fold_line(folds, LineEval(level), Powered(draw, zero), steps) = LineEval(level + steps)
    BY ONLY <1>3, <1>4, <2>2, LineFolded, setting \in Settings
  <2> QED BY ONLY <1>2, <2>1, <2>2, <2>3 DEF level
<1>6. CASE k = 1
  <2> DEFINE alpha == layers[1].alpha
             line1 == fold_circle_into_line(folds, HalfCoset, Quotients, alpha)
             m == steps - 1
             one == 1
  <2>1. /\ alpha = Powered(draw, 0) /\ steps = layers[1].fold_step /\ level = 0
        /\ m \in Nat /\ steps = m + 1 /\ one \in Nat \ {0}
    BY ONLY <1>1, <1>6
  <2>2. FoldedAgain(k, LineEval(level)) = fold_line(folds, line1, Square(alpha), m)
    <3>1. FoldedAgain(k, LineEval(level)) =
            initial_inner_layer_evaluation(folds, HalfCoset, Quotients, alpha, layers[1].fold_step)
      BY <1>6, Zenon DEF FoldedAgain
    <3>2. initial_inner_layer_evaluation(folds, HalfCoset, Quotients, alpha, steps)
            = fold_line(folds, line1, Square(alpha), steps - 1)
      BY Zenon DEF initial_inner_layer_evaluation
    <3> HIDE DEF steps, line1, alpha, level
    <3> QED BY ONLY <2>1, <3>1, <3>2
  <2> HIDE DEF steps, level, draw, alpha
  <2>3. \A i \in 0 .. steps - 1 : HalvesAt(folds, level + i, Powered(draw, 0 + i))
    BY ONLY <1>1, Zenon DEF HalvesFrom
  <2>4. line1 = LineEval(one)
    <3>1. 0 \in 0 .. steps - 1 /\ level + 0 = 0 /\ 0 + 0 = 0
      BY ONLY <1>1, <2>1
    <3>2. HalvesAt(folds, 0, alpha)
      BY ONLY <2>1, <2>3, <3>1
    <3> QED BY ONLY <1>3, <3>2, CircleHalved, setting \in Settings
  <2>5. Square(alpha) = Powered(draw, one)
    <3>1. 0 \in Nat /\ 0 + 1 = 1
      OBVIOUS
    <3> QED BY ONLY <2>1, <3>1, PoweredFacts
  <2> HIDE DEF m, line1
  <2>6. HalvesFrom(folds, one, draw, one, m)
    <3>1. ASSUME NEW i \in 0 .. m - 1 PROVE HalvesAt(folds, one + i, Powered(draw, one + i))
      <4> DEFINE j == one + i
      <4>1. j \in 0 .. steps - 1 /\ level + j = j /\ 0 + j = j
        BY ONLY <1>1, <2>1, i \in 0 .. m - 1
      <4> HIDE DEF j
      <4>2. HalvesAt(folds, j, Powered(draw, j))
        BY ONLY <2>3, <4>1
      <4> QED BY ONLY <4>2 DEF j
    <3> HIDE DEF one
    <3> QED BY ONLY <3>1, Zenon DEF HalvesFrom
  <2>7. one + m = level + steps
    BY ONLY <1>1, <2>1
  <2> HIDE DEF one
  <2>8. one + m <= LiftingLog
    BY ONLY <1>4, <2>7
  <2>9. fold_line(folds, LineEval(one), Powered(draw, one), m) = LineEval(one + m)
    BY ONLY <1>3, <2>1, <2>6, <2>8, LineFolded, setting \in Settings
  <2> QED BY ONLY <1>2, <2>2, <2>4, <2>5, <2>7, <2>9 DEF level
<1> QED BY <1>5, <1>6

(* A layer folded a second time in low memory has the values it was          *)
(* committed to with: initial_inner_layer_evaluation and fold_line, with the *)
(* challenges kept at the commitment, repeat the prover's halvings.          *)
LEMMA LayerValuesAgree ==
  ASSUME setting \in Settings, ScheduleInv, FoldInv, IsSeq(layers), IsSeq(folds),
         NEW k \in DOMAIN layers
  PROVE  LayerValues(k, TRUE) = LayerValues(k, FALSE)
<1> DEFINE n == Len(layers)
           Row(f, l) == IF l = 2 THEN initial_inner_layer_evaluation(folds, HalfCoset, Quotients,
                                                                     layers[1].alpha, layers[1].fold_step)
                        ELSE fold_line(folds, f[l - 1], layers[l - 1].alpha, layers[l - 1].fold_step)
           Fills(f) == f = [l \in 2 .. n |-> Row(f, l)]
           At(l) == LineEval(layers[l].level)
           kept == [i \in 0 .. 2 ^ layers[k].log - 1 |-> Value(layers[k].level, i)]
<1>1. n \in Nat /\ DOMAIN layers = 1 .. n
  BY SeqFacts
<1>2. \A f : \A l \in 2 .. n : Row(f, l) = FoldedAgain(l - 1, f[l - 1])
  <2> SUFFICES ASSUME NEW f, NEW l \in 2 .. n PROVE Row(f, l) = FoldedAgain(l - 1, f[l - 1])
    OBVIOUS
  <2>1. l = 2 <=> l - 1 = 1
    BY ONLY <1>1, l \in 2 .. n
  <2> QED BY ONLY <2>1 DEF FoldedAgain
<1> HIDE DEF Row
<1>3. \A l \in 2 .. n : FoldedAgain(l - 1, At(l - 1)) = At(l)
  <2> SUFFICES ASSUME NEW l \in 2 .. n PROVE FoldedAgain(l - 1, At(l - 1)) = At(l)
    OBVIOUS
  <2> DEFINE now == l - 1
             next == l
  <2>1. now \in DOMAIN layers /\ next \in DOMAIN layers /\ next = now + 1
    BY ONLY <1>1, l \in 2 .. n
  <2> HIDE DEF now, next
  <2>2. FoldedAgain(now, LineEval(layers[now].level)) = LineEval(layers[next].level)
    BY <2>1, LayerFolded
  <2> QED BY ONLY <2>2 DEF now, next
<1> HIDE DEF At, n
<1>4. \E f : Fills(f)
  <2> DEFINE g == [l \in 1 .. n |-> At(l)]
             h == [l \in 2 .. n |-> At(l)]
  <2>1. ASSUME NEW l \in 2 .. n PROVE Row(h, l) = At(l)
    <3>1. CASE l = 2
      <4>1. FoldedAgain(1, h[1]) = FoldedAgain(1, At(1))
        BY Zenon DEF FoldedAgain
      <4>2. l - 1 = 1
        BY ONLY <3>1
      <4> HIDE DEF h
      <4> QED BY ONLY <1>2, <1>3, <4>1, <4>2, l \in 2 .. n
    <3>2. CASE l # 2
      <4>1. l - 1 \in 2 .. n
        BY ONLY <1>1, <3>2, l \in 2 .. n
      <4>2. h[l - 1] = At(l - 1)
        BY ONLY <4>1
      <4> HIDE DEF h
      <4> QED BY ONLY <1>2, <1>3, <4>2, l \in 2 .. n
    <3> QED BY <3>1, <3>2
  <2>2. h = [l \in 2 .. n |-> At(l)]
    OBVIOUS
  <2> HIDE DEF h
  <2>3. h = [l \in 2 .. n |-> Row(h, l)]
    BY ONLY <2>1, <2>2
  <2> QED BY <2>3
<1> DEFINE folded == CHOOSE f : Fills(f)
<1>5. Fills(folded)
  <2> HIDE DEF Fills
  <2> QED BY <1>4, Zenon
<1>6. \A l \in 2 .. n : folded[l] = Row(folded, l)
  <2>1. folded = [l \in 2 .. n |-> Row(folded, l)]
    BY <1>5
  <2> HIDE DEF folded
  <2> QED BY ONLY <2>1
<1>7. /\ LayerValues(k, TRUE) = IF k = 1 THEN Quotients ELSE folded[k].at
      /\ LayerValues(k, FALSE) = IF k = 1 THEN Quotients ELSE kept
  <2>1. \A low : LayerValues(k, low) =
          IF k = 1 THEN Quotients ELSE IF low THEN folded[k].at ELSE kept
    BY Zenon DEF LayerValues, Row, n
  <2> HIDE DEF folded, kept
  <2> QED BY ONLY <2>1
<1> HIDE DEF folded, Fills
<1> DEFINE N == {j \in Nat : j + 2 <= n => folded[j + 2] = At(j + 2)}
<1>8. 0 \in N
  <2>1. ASSUME 2 <= n PROVE folded[2] = At(2)
    <3>1. 2 \in 2 .. n /\ 2 - 1 = 1
      BY ONLY <1>1, <2>1
    <3>2. folded[2] = FoldedAgain(1, folded[1])
      BY ONLY <1>2, <1>6, <3>1
    <3>3. FoldedAgain(1, At(1)) = At(2)
      BY ONLY <1>3, <3>1
    <3>4. FoldedAgain(1, folded[1]) = FoldedAgain(1, At(1))
      BY Zenon DEF FoldedAgain
    <3> QED BY ONLY <3>2, <3>3, <3>4
  <2>2. 0 + 2 = 2
    OBVIOUS
  <2> QED BY ONLY <2>1, <2>2
<1>9. ASSUME NEW j \in Nat, j \in N PROVE j + 1 \in N
  <2> DEFINE m == j + 2
             next == (j + 1) + 2
  <2>1. m \in Nat /\ next = m + 1 /\ m >= 2 /\ next - 1 = m
    OBVIOUS
  <2>2. m <= n => folded[m] = At(m)
    BY ONLY <1>9
  <2> HIDE DEF m, next
  <2>3. ASSUME next <= n PROVE folded[next] = At(next)
    <3>1. next \in 2 .. n /\ m <= n
      BY ONLY <1>1, <2>1, <2>3
    <3>2. folded[next] = FoldedAgain(m, folded[m])
      BY ONLY <1>2, <1>6, <2>1, <3>1
    <3>3. FoldedAgain(m, At(m)) = At(next)
      BY ONLY <1>3, <2>1, <3>1
    <3> QED BY ONLY <2>2, <3>1, <3>2, <3>3
  <2> QED BY ONLY <2>3, j \in Nat DEF next
<1>10. ASSUME k # 1 PROVE folded[k].at = kept
  <2> DEFINE j == k - 2
  <2>1. j \in Nat /\ j + 2 = k /\ k <= n
    BY <1>1, <1>10 DEF n
  <2> HIDE DEF j, N
  <2>2. j \in N
    BY <1>8, <1>9, <2>1, Counting
  <2>3. folded[k] = LineEval(layers[k].level)
    BY ONLY <2>1, <2>2 DEF N, At
  <2>4. LiftingLog - layers[k].level = layers[k].log
    <3>1. LiftingLog \in Nat /\ layers[k].log \in Nat /\ layers[k].level = LiftingLog - layers[k].log
      BY LayerFolds, SettingFacts
    <3> QED BY ONLY <3>1
  <2>5. LineEval(layers[k].level).at = kept
    BY ONLY <2>4 DEF LineEval
  <2> HIDE DEF kept
  <2> QED BY ONLY <2>3, <2>5
<1> HIDE DEF kept
<1>11. CASE k = 1
  BY ONLY <1>7, <1>11
<1>12. CASE k # 1
  BY ONLY <1>7, <1>10, <1>12
<1> QED BY <1>11, <1>12

------------------------------------------------------------------------------
(* The positions a layer is opened at *)

(* Positions of a domain of a log size.                                      *)
PositionsUnder(s, log) == IsSeq(s) /\ \A k \in DOMAIN s : s[k] \in 0 .. 2 ^ log - 1

(* Folded queries are positions of the folded domain.                        *)
LEMMA FoldedUnder ==
  ASSUME NEW log \in Nat, NEW steps \in Nat, NEW whole, whole = log + steps,
         NEW s, PositionsUnder(s, whole)
  PROVE  PositionsUnder(FoldQueries(s, steps), log)
<1> DEFINE t == [k \in DOMAIN s |-> s[k] \div 2 ^ steps]
<1>1. IsSeq(s) /\ DOMAIN s = 1 .. Len(s) /\ Len(s) \in Nat
      /\ \A k \in DOMAIN s : s[k] \in 0 .. 2 ^ (steps + log) - 1
  <2>1. IsSeq(s) /\ \A k \in DOMAIN s : s[k] \in 0 .. 2 ^ whole - 1
    BY ONLY PositionsUnder(s, whole) DEF PositionsUnder
  <2>2. DOMAIN s = 1 .. Len(s) /\ Len(s) \in Nat
    BY ONLY <2>1, SeqFacts
  <2>3. whole = steps + log
    OBVIOUS
  <2> QED BY ONLY <2>1, <2>2, <2>3
<1>2. IsSeq(t)
  <2>1. DOMAIN t = 1 .. Len(s) /\ t = [k \in DOMAIN t |-> t[k]]
    BY <1>1
  <2> HIDE DEF t
  <2> QED BY ONLY <1>1, <2>1, SeqOfFunction
<1>3. \A k \in DOMAIN s : t[k] \in 0 .. 2 ^ log - 1
  <2> SUFFICES ASSUME NEW k \in DOMAIN s PROVE s[k] \div 2 ^ steps \in 0 .. 2 ^ log - 1
    OBVIOUS
  <2> DEFINE a == steps
             b == log
             x == s[k]
  <2>1. x \in 0 .. 2 ^ (a + b) - 1 /\ a \in Nat /\ b \in Nat
    BY ONLY <1>1, k \in DOMAIN s, log \in Nat, steps \in Nat
  <2> HIDE DEF a, b, x
  <2>2. x \div 2 ^ a \in 0 .. 2 ^ b - 1
    BY ONLY <2>1, ShiftInRange
  <2> QED BY ONLY <2>2 DEF a, b, x
<1>4. FoldQueries(s, steps) = Dedup(t) /\ DOMAIN t = DOMAIN s
  BY Zenon DEF FoldQueries
<1> HIDE DEF t
<1>5. IsSeq(Dedup(t)) /\ \A k \in DOMAIN Dedup(t) : \E i \in DOMAIN t : Dedup(t)[k] = t[i]
  BY ONLY <1>2, DedupFacts
<1> DEFINE d == Dedup(t)
           S == 0 .. 2 ^ log - 1
<1>6. FoldQueries(s, steps) = d /\ IsSeq(d) /\ (\A k \in DOMAIN d : \E i \in DOMAIN t : d[k] = t[i])
      /\ \A i \in DOMAIN t : t[i] \in S
  BY ONLY <1>3, <1>4, <1>5
<1> HIDE DEF d, S
<1>7. IsSeq(d) /\ \A k \in DOMAIN d : d[k] \in S
  BY ONLY <1>6
<1> QED BY ONLY <1>6, <1>7 DEF PositionsUnder, S

(* The queries of a layer are positions of it.                               *)
LEMMA LayerPositionsUnder ==
  ASSUME setting \in Settings, ScheduleInv, FoldInv, IsSeq(layers), NEW k \in DOMAIN layers
  PROVE  PositionsUnder(LayerPositions(k), layers[k].log)
<1> DEFINE Row(f, n) == IF n = 1 THEN positions ELSE FoldQueries(f[n - 1], layers[n - 1].fold_step)
           Fills(f, m) == f = [n \in 1 .. m |-> Row(f, n)]
           Found == {m \in Nat : \E f : Fills(f, m)}
<1>1. 0 \in Found
  <2>1. Fills([n \in 1 .. 0 |-> positions], 0)
    <3>1. \A n \in 1 .. 0 : FALSE
      OBVIOUS
    <3> HIDE DEF Row
    <3> QED BY ONLY <3>1
  <2> HIDE DEF Fills
  <2> QED BY <2>1
<1>2. ASSUME NEW m \in Nat, m \in Found PROVE m + 1 \in Found
  <2>0. \E f : Fills(f, m)
    <3> HIDE DEF Fills
    <3> QED BY <1>2
  <2>1. PICK f : f = [n \in 1 .. m |-> Row(f, n)]
    <3> HIDE DEF Row
    <3> QED BY <2>0
  <2> DEFINE g == [n \in 1 .. m + 1 |-> IF n = m + 1 THEN Row(f, m + 1) ELSE f[n]]
  <2>2. \A n \in 1 .. m : g[n] = f[n] /\ n # m + 1 /\ n \in 1 .. m + 1
    <3> HIDE DEF Row
    <3> QED OBVIOUS
  <2>3. \A n \in 1 .. m : f[n] = Row(f, n)
    <3> HIDE DEF Row
    <3> QED BY ONLY <2>1
  <2>4. ASSUME NEW n \in 1 .. m + 1 PROVE Row(g, n) = Row(f, n)
    <3>1. n # 1 => n - 1 \in 1 .. m
      OBVIOUS
    <3> HIDE DEF g
    <3>2. n # 1 => g[n - 1] = f[n - 1]
      BY ONLY <2>2, <3>1
    <3> QED BY ONLY <3>2
  <2>5. ASSUME NEW n \in 1 .. m + 1 PROVE g[n] = Row(g, n)
    <3>1. n = m + 1 \/ n \in 1 .. m
      OBVIOUS
    <3>2. g[n] = IF n = m + 1 THEN Row(f, m + 1) ELSE f[n]
      <4> HIDE DEF Row
      <4> QED OBVIOUS
    <3> HIDE DEF g, Row
    <3> QED BY ONLY <2>3, <2>4, <3>1, <3>2, n \in 1 .. m + 1
  <2>6. g = [n \in 1 .. m + 1 |-> g[n]]
    <3> HIDE DEF Row
    <3> QED OBVIOUS
  <2> HIDE DEF g, Row
  <2>7. Fills(g, m + 1)
    BY ONLY <2>5, <2>6
  <2> HIDE DEF Fills
  <2> QED BY <2>7
<1> HIDE DEF Found
<1>3. k \in Nat /\ k >= 1 /\ k <= Len(layers) /\ DOMAIN layers = 1 .. Len(layers) /\ Len(layers) \in Nat
  BY SeqFacts
<1>4. \E f : Fills(f, k)
  <2>1. k \in Found
    BY <1>1, <1>2, <1>3, Counting
  <2> QED BY <2>1 DEF Found
<1> DEFINE at == CHOOSE f : Fills(f, k)
<1>5. Fills(at, k)
  <2> HIDE DEF Fills
  <2> QED BY <1>4, Zenon
<1>6. LayerPositions(k) = at[k]
  BY Zenon DEF LayerPositions
<1>7. \A n \in 1 .. k : at[n] = Row(at, n)
  <2>1. at = [n \in 1 .. k |-> Row(at, n)]
    BY <1>5
  <2> HIDE DEF at, Row
  <2> QED BY ONLY <2>1
<1> HIDE DEF at, Fills
<1> DEFINE N == {j \in Nat : j + 1 <= k => PositionsUnder(at[j + 1], layers[j + 1].log)}
<1>8. \A n \in 1 .. k : n \in DOMAIN layers
  BY ONLY <1>3
<1>9. PositionsUnder(positions, layers[1].log)
  <2>1. 1 \in DOMAIN layers
    BY ONLY <1>3
  <2>2. layers[1].log = LiftingLog
    BY ONLY <2>1, ScheduleInv DEF ScheduleInv, Scheduled
  <2> DEFINE S == 0 .. 2 ^ LiftingLog - 1
  <2>3. positions \in Seq(S)
    BY DEF FoldInv
  <2> HIDE DEF S
  <2>4. IsSeq(positions) /\ \A j \in DOMAIN positions : positions[j] \in S
    BY ONLY <2>3, SeqOfMembers
  <2> QED BY ONLY <2>2, <2>4 DEF PositionsUnder, S
<1>10. 0 \in N
  <2>1. at[1] = positions
    BY ONLY <1>3, <1>7
  <2>2. 0 + 1 = 1
    OBVIOUS
  <2> QED BY ONLY <1>9, <2>1, <2>2
<1>11. ASSUME NEW j \in Nat, j \in N PROVE j + 1 \in N
  <2> DEFINE m == j + 1
             next == m + 1
  <2>1. m \in Nat /\ next - 1 = m /\ m >= 1
    OBVIOUS
  <2>2. m <= k => PositionsUnder(at[m], layers[m].log)
    BY ONLY <1>11
  <2>3. ASSUME next <= k PROVE PositionsUnder(at[next], layers[next].log)
    <3>1. next \in 1 .. k /\ next # 1 /\ m <= k /\ m \in 1 .. k /\ next \in Nat
      BY ONLY <1>3, <2>1, <2>3
    <3> HIDE DEF next, m
    <3> DEFINE steps == layers[m].fold_step
               log == layers[next].log
               whole == layers[m].log
    <3>2. at[next] = FoldQueries(at[m], steps)
      BY ONLY <1>7, <2>1, <3>1
    <3>3. /\ layers[m].level = LiftingLog - whole /\ steps \in Nat \ {0} /\ whole \in Nat
      BY <1>8, <3>1, LayerFolds
    <3>4. /\ layers[next].level = LiftingLog - log /\ log \in Nat
          /\ layers[next].level = layers[next - 1].level + layers[next - 1].fold_step
      BY <1>8, <3>1, LayerFolds
    <3>5. LiftingLog \in Nat
      BY SettingFacts
    <3>6. whole = log + steps /\ steps \in Nat /\ log \in Nat
      BY ONLY <2>1, <3>3, <3>4, <3>5
    <3>7. PositionsUnder(at[m], whole)
      BY ONLY <2>2, <3>1
    <3> HIDE DEF steps, log, whole
    <3>8. PositionsUnder(FoldQueries(at[m], steps), log)
      BY ONLY <3>6, <3>7, FoldedUnder
    <3> QED BY ONLY <3>2, <3>8 DEF log
  <2> QED BY ONLY <2>3, j \in Nat DEF m, next
<1> DEFINE last == k - 1
<1>12. last \in Nat /\ last + 1 = k
  BY ONLY <1>3
<1> HIDE DEF N, last
<1>13. last \in N
  BY <1>10, <1>11, <1>12, Counting
<1> QED BY ONLY <1>3, <1>6, <1>12, <1>13 DEF N

(* The places of a row of subsets, one after the other.                      *)
LEMMA PlaceOfSubset ==
  ASSUME NEW count \in Nat, NEW size \in Nat \ {0}, NEW x \in 0 .. count * size - 1
  PROVE  x \div size \in 0 .. count - 1 /\ x % size \in 0 .. size - 1
<1> DEFINE q == x \div size
           r == x % size
<1>1. x \in Nat /\ x < count * size
  <2>1. count * size \in Nat
    OBVIOUS
  <2> QED BY ONLY <2>1, x \in 0 .. count * size - 1
<1>2. x = size * q + r /\ r \in 0 .. size - 1 /\ q \in Nat
  BY ONLY <1>1, Division, size \in Nat \ {0}
<1> HIDE DEF q, r
<1>3. q < count
  <2> SUFFICES ASSUME q >= count PROVE FALSE
    BY ONLY <1>2, count \in Nat
  <2> DEFINE d == q - count
  <2>1. d \in Nat /\ q = count + d
    BY ONLY <1>2, q >= count, count \in Nat
  <2> HIDE DEF d
  <2>2. size * q = size * count + size * d /\ size * d \in Nat /\ size * count = count * size
        /\ size * count \in Nat
    BY ONLY <2>1, count \in Nat, size \in Nat \ {0}
  <2> QED BY ONLY <1>1, <1>2, <2>2
<1> QED BY ONLY <1>2, <1>3, count \in Nat DEF q, r

(* The subsets that hold a query are within the layer.                       *)
LEMMA OpenedUnder ==
  ASSUME NEW low \in Nat, NEW steps \in Nat, NEW log, log = low + steps,
         NEW s, PositionsUnder(s, log)
  PROVE  PositionsUnder(DecommitmentPositions(s, steps), log)
<1> DEFINE cuts == {i \in DOMAIN s : i = 1 \/ ~(SubsetOf(s[i - 1], steps) = SubsetOf(s[i], steps))}
           subsets == CutAt(s, cuts)
           starts == SubsetStarts(s, steps)
           opened == DecommitmentPositions(s, steps)
           size == 2 ^ steps
<1>1. IsSeq(s) /\ \A k \in DOMAIN s : s[k] \in 0 .. 2 ^ log - 1
  BY ONLY PositionsUnder(s, log) DEF PositionsUnder
<1>2. size \in Nat \ {0} /\ 2 ^ log \in Nat /\ log \in Nat
  <2>1. log \in Nat
    OBVIOUS
  <2>2. size >= 1 /\ size \in Nat
    BY ONLY PowerDoubles, steps \in Nat
  <2> HIDE DEF size
  <2> QED BY ONLY <2>1, <2>2, PowerDoubles
<1>3. starts = [k \in DOMAIN subsets |-> SubsetOf(subsets[k][1], steps) * size]
  BY Zenon DEF SubsetStarts, ChunkBy
<1>4. cuts \subseteq DOMAIN s
  OBVIOUS
<1> HIDE DEF cuts
<1>5. IsSeq(subsets) /\ \A k \in DOMAIN subsets : \E i \in cuts : subsets[k][1] = s[i]
  BY ONLY <1>1, <1>4, CutFacts
<1>6. opened = [n \in 1 .. Len(starts) * size |-> starts[((n - 1) \div size) + 1] + ((n - 1) % size)]
  BY Zenon DEF DecommitmentPositions
<1> HIDE DEF subsets
<1>7. DOMAIN subsets = 1 .. Len(subsets) /\ Len(subsets) \in Nat
  BY ONLY <1>5, SeqFacts
<1>8. ASSUME NEW k \in DOMAIN subsets
      PROVE  \E x \in 0 .. 2 ^ log - 1 : starts[k] = (x \div size) * size
  <2>1. PICK i \in cuts : subsets[k][1] = s[i]
    BY ONLY <1>5, k \in DOMAIN subsets
  <2>2. s[i] \in 0 .. 2 ^ log - 1
    BY ONLY <1>1, <1>4, i \in cuts
  <2>3. starts[k] = (s[i] \div size) * size
    BY ONLY <1>3, <2>1, k \in DOMAIN subsets DEF SubsetOf
  <2> HIDE DEF starts, size
  <2> QED BY ONLY <2>2, <2>3
<1>9. DOMAIN starts = DOMAIN subsets /\ starts = [k \in DOMAIN starts |-> starts[k]]
  <2>1. DOMAIN starts = DOMAIN subsets
    BY ONLY <1>3
  <2> QED BY ONLY <1>3, <2>1
<1> HIDE DEF starts
<1> DEFINE count == Len(subsets)
<1>10. IsSeq(starts) /\ Len(starts) = count
  <2>1. DOMAIN starts = 1 .. count /\ count \in Nat
    BY ONLY <1>7, <1>9
  <2> HIDE DEF count
  <2> QED BY ONLY <1>9, <2>1, SeqOfFunction
<1> HIDE DEF size
<1> DEFINE last == count * size
<1>11. count \in Nat /\ last \in Nat
  BY ONLY <1>2, <1>7
<1> HIDE DEF count
<1>12. IsSeq(opened) /\ DOMAIN opened = 1 .. last
  <2>1. DOMAIN opened = 1 .. last /\ opened = [n \in DOMAIN opened |-> opened[n]]
    BY ONLY <1>6, <1>10
  <2> HIDE DEF opened, last
  <2> QED BY ONLY <1>11, <2>1, SeqOfFunction
<1>13. ASSUME NEW n \in 1 .. last PROVE opened[n] \in 0 .. 2 ^ log - 1
  <2> DEFINE z == n - 1
             q == z \div size
             r == z % size
             k == q + 1
  <2>1. z \in 0 .. count * size - 1
    BY ONLY <1>11, n \in 1 .. last
  <2> HIDE DEF z
  <2>2. q \in 0 .. count - 1 /\ r \in 0 .. size - 1
    BY ONLY <1>2, <1>11, <2>1, PlaceOfSubset
  <2>3. opened[n] = starts[k] + r
    <3>1. n \in 1 .. Len(starts) * size
      BY ONLY <1>10, n \in 1 .. last
    <3> QED BY ONLY <1>6, <3>1 DEF z
  <2> HIDE DEF q, r
  <2>4. k \in DOMAIN subsets
    BY ONLY <1>7, <1>11, <2>2 DEF count
  <2> HIDE DEF k
  <2>5. PICK x \in 0 .. 2 ^ log - 1 : starts[k] = (x \div size) * size
    BY ONLY <1>8, <2>4
  <2> DEFINE p == x
             base == (p \div size) * size
             y == base + r
  <2>6. p \in Nat /\ p \div size \in Nat /\ base \in Nat /\ y \in Nat /\ y \in base .. base + size - 1
    <3>1. p \in Nat
      BY ONLY <1>2, x \in 0 .. 2 ^ log - 1
    <3>2. p \div size \in Nat
      BY ONLY <1>2, <3>1, Division
    <3>3. base \in Nat
      BY ONLY <1>2, <3>2
    <3> HIDE DEF base
    <3> QED BY ONLY <1>2, <2>2, <3>1, <3>2, <3>3
  <2> HIDE DEF p, y
  <2>7. y \div size = p \div size
    BY ONLY <1>2, <2>6, BlockMembers
  <2>8. p \div 2 ^ steps \in 0 .. 2 ^ low - 1
    <3> DEFINE a == steps
               b == low
    <3>1. a \in Nat /\ b \in Nat /\ log = a + b /\ p \in 0 .. 2 ^ log - 1
      BY ONLY low \in Nat, steps \in Nat, log = low + steps, x \in 0 .. 2 ^ log - 1 DEF p
    <3> HIDE DEF a, b
    <3>2. p \div 2 ^ a \in 0 .. 2 ^ b - 1
      BY ONLY <3>1, ShiftInRange
    <3> QED BY ONLY <3>2 DEF a, b
  <2>9. y \in 0 .. 2 ^ log - 1
    <3> DEFINE a == steps
               b == low
    <3>1. a \in Nat /\ b \in Nat /\ log = a + b /\ y \in Nat /\ y \div 2 ^ a \in 0 .. 2 ^ b - 1
      BY ONLY <2>6, <2>7, <2>8, low \in Nat, steps \in Nat, log = low + steps DEF size
    <3> HIDE DEF a, b
    <3>2. y \in 0 .. 2 ^ (a + b) - 1
      BY ONLY <3>1, Unshift
    <3> QED BY ONLY <3>1, <3>2
  <2>10. opened[n] = y
    BY ONLY <2>3, <2>5 DEF y, p
  <2> QED BY ONLY <2>9, <2>10
<1> HIDE DEF opened, last
<1>14. PositionsUnder(opened, log)
  BY ONLY <1>12, <1>13 DEF PositionsUnder
<1> QED BY ONLY <1>14 DEF opened

------------------------------------------------------------------------------
(* Both openings are one *)

(* A layer is opened in low memory as it is in full.                         *)
LEMMA LayerProofsAgree ==
  ASSUME setting \in Settings, ScheduleInv, FoldInv, IsSeq(layers), IsSeq(folds),
         NEW k \in DOMAIN layers
  PROVE  LayerProof(k, TRUE) = LayerProof(k, FALSE)
<1> DEFINE layer == layers[k]
           log == layer.log
           steps == layer.fold_step
           pack == layer.pack_leaves
           per == LeafLog(pack)
           height == log - per
           values == LayerValues(k, FALSE)
           at == LayerPositions(k)
           leaves == LayerLeaves(values, log, pack)
           under == DecommitmentPositions(at, steps)
           opened == MerklePositions(under, pack)
           small == decommit_from_leaves(commit_checkpointed(leaves, height, setting.stride, ~pack),
                                         opened, leaves)
           whole == decommit(commit(leaves, height), opened)
           Opened(witness) == [commitment |-> <<"fri", layer.level>>,
                               fri_witness |-> WitnessEvals(values, at, steps), witness |-> witness]
<1>1. LayerValues(k, TRUE) = values
  BY LayerValuesAgree
<1>2. LayerProof(k, TRUE) = Opened(small) /\ LayerProof(k, FALSE) = Opened(whole)
  <2>1. \A low : LayerProof(k, low) =
          LET found == LayerValues(k, low)
              made == LayerLeaves(found, log, pack)
          IN  [commitment |-> <<"fri", layer.level>>,
               fri_witness |-> WitnessEvals(found, at, steps),
               witness |-> IF low
                           THEN decommit_from_leaves(
                                  commit_checkpointed(made, height, setting.stride, ~pack), opened, made)
                           ELSE decommit(commit(made, height), opened)]
    BY Zenon DEF LayerProof
  <2> HIDE DEF values, height, opened, pack, log, steps, layer, at
  <2>2. LayerProof(k, FALSE) = Opened(whole)
    <3>1. LayerValues(k, FALSE) = values
      BY DEF values
    <3> QED BY ONLY <2>1, <3>1
  <2>3. LayerProof(k, TRUE) = Opened(small)
    BY ONLY <1>1, <2>1
  <2> QED BY ONLY <2>2, <2>3
<1>3. /\ log \in Nat /\ steps \in Nat /\ steps <= log /\ per \in Nat /\ per <= log
  <2>1. log \in Nat /\ steps \in Nat \ {0} /\ steps <= log
    BY LayerFolds
  <2>2. pack = should_pack_leaves(log, steps)
    <3>1. Scheduled(k, layers)
      BY DEF ScheduleInv
    <3> QED BY <3>1 DEF Scheduled
  <2> HIDE DEF log, pack, steps
  <2>3. CASE log >= LogPackedLeafSize /\ steps > 1
    <3>1. pack = TRUE
      BY ONLY <2>2, <2>3 DEF should_pack_leaves
    <3>2. per = LogPackedLeafSize
      BY ONLY <3>1 DEF LeafLog
    <3> QED BY ONLY <2>1, <2>3, <3>2 DEF LogPackedLeafSize
  <2>4. CASE ~(log >= LogPackedLeafSize /\ steps > 1)
    <3>1. pack = FALSE
      BY ONLY <2>2, <2>4 DEF should_pack_leaves
    <3>2. per = 0
      BY ONLY <3>1 DEF LeafLog
    <3> QED BY ONLY <2>1, <3>2
  <2> QED BY ONLY <2>3, <2>4
<1>4. PositionsUnder(at, log)
  BY LayerPositionsUnder
<1>5. opened = FoldQueries(under, per)
  BY Zenon DEF MerklePositions, FoldQueries
<1> HIDE DEF log, steps, per, pack, at
<1>6. PositionsUnder(under, log)
  <2> DEFINE low == log - steps
  <2>1. low \in Nat /\ log = low + steps
    BY ONLY <1>3
  <2> HIDE DEF low
  <2> QED BY ONLY <1>3, <1>4, <2>1, OpenedUnder
<1> HIDE DEF under, opened
<1>7. height \in Nat /\ log = height + per
  BY ONLY <1>3
<1> HIDE DEF height
<1>8. PositionsUnder(opened, height)
  <2>1. PositionsUnder(FoldQueries(under, per), height)
    BY ONLY <1>3, <1>6, <1>7, FoldedUnder
  <2> QED BY ONLY <1>5, <2>1
<1> HIDE DEF leaves
<1>9. small = whole
  <2>1. IsSeq(opened) /\ \A j \in DOMAIN opened : opened[j] \in 0 .. 2 ^ height - 1
    BY ONLY <1>8 DEF PositionsUnder
  <2> QED BY ONLY <1>7, <2>1, CheckpointedOpening
<1> HIDE DEF small, whole, Opened
<1> QED BY ONLY <1>2, <1>9

(* What the trees do with the positions of the queries, in low memory and in *)
(* full.                                                                     *)
LEMMA OpeningsAgree ==
  ASSUME setting \in Settings, Aligned(setting), ScheduleInv, FoldInv, IsSeq(layers), IsSeq(folds),
         Len(layers) >= 1
  PROVE  OpenedIn(TRUE) = OpenedIn(FALSE)
<1> DEFINE n == Len(layers)
           S == 0 .. 2 ^ LiftingLog - 1
           First(low) == LayerProof(1, low)
           Inner(low) == [k \in 1 .. n - 1 |-> LayerProof(k + 1, low)]
           Opened(low) == [t \in Trees |-> TraceWitness(t, PositionsIn(t, positions), low)]
<1>1. n \in Nat /\ n >= 1 /\ DOMAIN layers = 1 .. n
  BY SeqFacts
<1>2. \A k \in 1 .. n : LayerProof(k, TRUE) = LayerProof(k, FALSE)
  BY ONLY <1>1, LayerProofsAgree, setting \in Settings, ScheduleInv, FoldInv, IsSeq(layers), IsSeq(folds)
<1>3. \A t \in Trees : TraceWitness(t, PositionsIn(t, positions), TRUE)
                         = TraceWitness(t, PositionsIn(t, positions), FALSE)
  <2>1. positions \in Seq(0 .. 2 ^ LiftingLog - 1) /\ Increasing(positions)
    BY DEF FoldInv
  <2> DEFINE at == positions
  <2>2. at \in Seq(0 .. 2 ^ LiftingLog - 1) /\ Increasing(at)
    BY ONLY <2>1
  <2> HIDE DEF at
  <2> SUFFICES ASSUME NEW t \in Trees
               PROVE  TraceWitness(t, PositionsIn(t, at), TRUE) = TraceWitness(t, PositionsIn(t, at), FALSE)
    BY DEF at
  <2> QED BY ONLY <2>2, TraceWitnesses, setting \in Settings, Aligned(setting), t \in Trees
<1>4. First(TRUE) = First(FALSE)
  <2>1. 1 \in 1 .. n
    BY ONLY <1>1
  <2> QED BY ONLY <1>2, <2>1
<1>5. Inner(TRUE) = Inner(FALSE)
  <2>1. \A k \in 1 .. n - 1 : k + 1 \in 1 .. n
    BY ONLY <1>1
  <2>2. \A k \in 1 .. n - 1 : LayerProof(k + 1, TRUE) = LayerProof(k + 1, FALSE)
    BY ONLY <1>2, <2>1
  <2> QED BY ONLY <2>2
<1>6. Opened(TRUE) = Opened(FALSE)
  BY ONLY <1>3
<1>7. \A low : OpenedIn(low) =
        [commitments |-> [t \in Trees |-> <<"trace", t>>], sampled |-> 1,
         first_layer |-> First(low), inner_layers |-> Inner(low), last_layer_poly |-> 1, nonce |-> 1,
         decommitments |-> Opened(low),
         queried |-> [t \in Trees |-> QueriedValues(t, PositionsIn(t, positions))]]
  BY Zenon DEF OpenedIn
<1> HIDE DEF First, Inner, Opened
<1> QED BY ONLY <1>4, <1>5, <1>6, <1>7

(* The openings of the full trees and the kept layers are a function of the  *)
(* setting, the layers and the queries alone.                                *)
LEMMA FullOpeningStays ==
  ASSUME setting' = setting, layers' = layers, positions' = positions
  PROVE  OpenedIn(FALSE)' = OpenedIn(FALSE)
<1>1. \A k : LayerProof(k, FALSE)' = LayerProof(k, FALSE)
  <2>1. \A k : LayerPositions(k)' = LayerPositions(k)
    BY Zenon DEF LayerPositions
  <2>2. Quotients' = Quotients
    BY Zenon DEF Quotients, LiftingLog
  <2>3. \A k : LayerValues(k, FALSE)' = LayerValues(k, FALSE)
    BY Zenon, <2>2 DEF LayerValues
  <2> QED BY Zenon, <2>1, <2>3 DEF LayerProof
<1>2. \A t, at : TraceWitness(t, at, FALSE)' = TraceWitness(t, at, FALSE)
  BY ZenonT(30) DEF TraceWitness, TraceLeaves, Columns, Column, Height, HeightOf
<1>3. \A t, at : QueriedValues(t, at)' = QueriedValues(t, at)
  BY ZenonT(30) DEF QueriedValues, Height, HeightOf
<1>4. \A t, at : PositionsIn(t, at)' = PositionsIn(t, at)
  BY Zenon DEF PositionsIn, LiftingLog, Height, HeightOf
<1> QED BY Zenon, <1>1, <1>2, <1>3, <1>4 DEF OpenedIn, Trees

(* The schedules of both sides and the halvings the prover keeps.            *)
FoldedInv == ShapeInv /\ FoldInv

(* For every setting, every layer keeps the halvings it was folded with: the *)
(* halvings after it are those of its line and of its challenge, and stay    *)
(* so while the layers after it are folded and opened.                       *)
THEOREM FoldedInvariant == Spec => []FoldedInv
<1>1. ShapeInv /\ FoldInv /\ [Next]_vars => FoldInv'
  BY FoldStep DEF ShapeInv, OpeningInv
<1> QED BY <1>1, FoldInit, ShapeInvariant, PTL DEF Spec, FoldedInv

(* Only Open brings a proof to the transport, and it is the proof of the     *)
(* full trees whatever the memory mode.                                      *)
LEMMA MemoryModesStep ==
  ASSUME FoldedInv, Aligned(setting), MemoryModesAgree, [Next]_vars
  PROVE  MemoryModesAgree'
<1>1. /\ setting \in Settings /\ IsSeq(layers) /\ IsSeq(folds) /\ ScheduleInv /\ FoldInv
      /\ ProverProgress
  BY DEF FoldedInv, ShapeInv, OpeningInv, ProverInv, ScheduleInv
<1> SUFFICES ASSUME stage' = "deliver" PROVE proof' = OpenedIn(FALSE)'
  BY Zenon DEF MemoryModesAgree
<1>2. CASE Open
  <2>1. /\ stage = "open" /\ proof' = OpenedIn(setting.low_memory)
        /\ UNCHANGED <<setting, layers, positions>>
    BY <1>2, Zenon DEF Open
  <2>2. Len(layers) >= 1
    BY <1>1, <2>1 DEF ProverProgress, ProverSteps
  <2>3. setting.low_memory \in BOOLEAN
    BY <1>1, SettingsAssumption
  <2>4. OpenedIn(TRUE) = OpenedIn(FALSE)
    BY ONLY <1>1, <2>2, Aligned(setting), OpeningsAgree
  <2>5. proof' = OpenedIn(FALSE)
    <3>1. CASE setting.low_memory = TRUE
      BY Zenon, <2>1, <2>4, <3>1
    <3>2. CASE setting.low_memory = FALSE
      BY Zenon, <2>1, <3>2
    <3> QED BY Zenon, <2>3, <3>1, <3>2
  <2>6. OpenedIn(FALSE)' = OpenedIn(FALSE)
    BY ONLY <2>1, FullOpeningStays
  <2> QED BY Zenon, <2>5, <2>6
<1>3. CASE UNCHANGED vars
  <2>1. UNCHANGED <<setting, stage, layers, positions, proof>>
    BY <1>3, Zenon DEF vars, prover
  <2>2. proof = OpenedIn(FALSE)
    BY Zenon, <2>1 DEF MemoryModesAgree
  <2>3. OpenedIn(FALSE)' = OpenedIn(FALSE)
    BY ONLY <2>1, FullOpeningStays
  <2> QED BY Zenon, <2>1, <2>2, <2>3
<1>4. ASSUME Next, ~Open, ~UNCHANGED vars PROVE FALSE
  <2>1. ~(CommitTrace \/ SampleValues \/ CommitFirstLayer \/ CommitInnerLayer \/ CommitLastLayer
            \/ GrindAndDrawQueries)
    BY ProverIsEarly
  <2>2. CASE Deliver
    BY <2>2, Zenon DEF Deliver
  <2>3. CASE ReadCommitment \/ ReadSamples \/ ReadFirstLayer
    BY <2>3 DEF ReadCommitment, ReadSamples, ReadFirstLayer, Conclude
  <2>4. CASE ReadInnerLayer \/ ReadLastLayer \/ CheckNonceAndDrawQueries
    BY <2>4 DEF ReadInnerLayer, ReadLastLayer, CheckNonceAndDrawQueries, Conclude
  <2>5. CASE VerifyTrees \/ AnswerQueries \/ VerifyLayer \/ VerifyLastLayer \/ Finished
    BY <2>5, ChecksAreLate DEF BeforeDelivery
  <2> QED BY <1>4, <2>1, <2>2, <2>3, <2>4, <2>5 DEF Next
<1> QED BY <1>2, <1>3, <1>4

(* The low-memory modes send the proof of the full trees and the kept        *)
(* layers, for every setting whose trees are as high as the queries' domain  *)
(* (the first one, of the preprocessed columns, may be higher or empty): the *)
(* checkpoints of commit_checkpointed, the leaves computed again by          *)
(* decommit_with_source and the layers folded a second time change nothing.  *)
THEOREM MemoryModes ==
  ASSUME \A s \in Settings : Aligned(s)
  PROVE  Spec => []MemoryModesAgree
<1>1. Init => MemoryModesAgree
  <2>1. Init => stage = "commit"
    BY Zenon DEF Init
  <2> QED BY <2>1 DEF MemoryModesAgree
<1>2. FoldedInv => Aligned(setting)
  BY DEF FoldedInv, ShapeInv, OpeningInv, ProverInv
<1>3. FoldedInv /\ MemoryModesAgree /\ [Next]_vars => MemoryModesAgree'
  BY <1>2, MemoryModesStep
<1> QED BY <1>1, <1>3, FoldedInvariant, PTL DEF Spec
==============================================================================
