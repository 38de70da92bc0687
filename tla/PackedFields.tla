----------------------------- MODULE PackedFields -----------------------------
(***************************************************************************)
(* The packed fields of SimdBackend.  A PackedM31 is a vector of unsigned  *)
(* words of ModulusBits + 1 bits, each in 0 .. P: the zero of the field    *)
(* has two representations, 0 and P, and to_array picks 0.  LogLanes is 4  *)
(* in the code.  A lane stands for itself; lanes meet only in the products,*)
(* which pair even with odd words to make room for their 2 * (ModulusBits  *)
(* + 1) bits.                                                              *)
(***************************************************************************)
EXTENDS MersenneFields

CONSTANTS LogLanes, \* LOG_N_LANES
          Lanes     \* N_LANES

ASSUME LanesAssumption == Lanes = 2 ^ LogLanes /\ Lanes \in Nat \ {0} /\ Lanes % 2 = 0

Word == 2 * 2 ^ ModulusBits      \* u32 arithmetic is modulo Word
Lane == 0 .. Word - 1
PackedLane == 0 .. P

MinLane(a, b) == IF a <= b THEN a ELSE b

(* PackedM31's operators on one lane.                                      *)
LaneReduce(a) == MinLane(a, (a - P) % Word)
LaneReduceSimd(a) == LaneReduce(LaneReduce(a))
(* Mutant: a sum of P stays P. *)
LaneAddLazy(a, b) == LET c == (a + b) % Word IN IF c > P THEN c - P ELSE c
LaneAdd(a, b) == LaneReduce((a + b) % Word)
LaneNeg(a)    == (P - a) % Word
LaneBorrow(c) == MinLane((c + P) % Word, c)
LaneSub(a, b) == LaneBorrow((a - b) % Word)
ReduceToM31Simd(val) ==
  LET shifted == (((val \div 2 ^ ModulusBits) + val + 1) % Word) \div 2 ^ ModulusBits
  IN  ((shifted + val) % Word) % 2 ^ ModulusBits

(* Vectors are functions on 0 .. n - 1.  deinterleave and interleave as in *)
(* std::simd; InterleaveEvens and InterleaveOdds of utils::swizzle.        *)
Concat(v, w) == [i \in 0 .. 2 * Lanes - 1 |-> IF i < Lanes THEN v[i] ELSE w[i - Lanes]]
Deinterleave(v, w) == <<[i \in 0 .. Lanes - 1 |-> Concat(v, w)[2 * i]],
                        [i \in 0 .. Lanes - 1 |-> Concat(v, w)[2 * i + 1]]>>
Interleaved(v, w) == [i \in 0 .. 2 * Lanes - 1 |-> IF i % 2 = 0 THEN v[i \div 2] ELSE w[i \div 2]]
LaneInterleave(v, w) == <<[i \in 0 .. Lanes - 1 |-> Interleaved(v, w)[i]],
                      [i \in 0 .. Lanes - 1 |-> Interleaved(v, w)[Lanes + i]]>>
ParityInterleave(odd, v, w) ==
  [i \in 0 .. Lanes - 1 |-> Concat(v, w)[(i % 2) * Lanes + (i \div 2) * 2 + odd]]

(* A wide product takes two words: the low one at the even place.          *)
WideProducts(pairs) ==
  [i \in 0 .. Lanes - 1 |->
     LET product == pairs[i \div 2][1] * pairs[i \div 2][2]
     IN  IF i % 2 = 0 THEN product % Word ELSE product \div Word]
SumOfHalves(lo, hi) == [i \in 0 .. Lanes - 1 |-> LaneAdd(lo[i] \div 2, hi[i])]

(* mul_doubled_simd, _avx2 and _avx512: products of the even and of the    *)
(* odd words, their halves interleaved by parity.                          *)
MulDoubledSimd(a, b_double) ==
  LET half == 0 .. Lanes \div 2 - 1
      prod_e == WideProducts([i \in half |-> <<a[2 * i], b_double[2 * i]>>])
      prod_o == WideProducts([i \in half |-> <<a[2 * i + 1], b_double[2 * i + 1]>>])
  IN  SumOfHalves(ParityInterleave(0, prod_e, prod_o), ParityInterleave(1, prod_e, prod_o))

(* mul_neon, mul_doubled_neon and mul_doubled_wasm: products of adjacent   *)
(* words, their halves parted by deinterleave.                             *)
MulDoubledNeon(a, b_double) ==
  LET half == 0 .. Lanes \div 2 - 1
      low  == WideProducts([i \in half |-> <<a[i], b_double[i]>>])
      high == WideProducts([i \in half |-> <<a[Lanes \div 2 + i], b_double[Lanes \div 2 + i]>>])
      halves == Deinterleave(low, high)
  IN  SumOfHalves(halves[1], halves[2])

PackedMul(a, b) == MulDoubledSimd(a, [i \in 0 .. Lanes - 1 |-> b[i] + b[i]])
(* The same on one lane: what PackedMul gives every lane.                  *)
AddHalves(product) == LaneAdd((product % Word) \div 2, product \div Word)
LaneMul(a, b) == AddHalves(a * (b + b))

(* PackedCM31 and PackedQM31 on one lane, by Karatsuba: the products of    *)
(* the coordinates and of their sums.                                      *)
LaneCM31Add(v, w) == <<LaneAdd(v[1], w[1]), LaneAdd(v[2], w[2])>>
LaneCM31Sub(v, w) == <<LaneSub(v[1], w[1]), LaneSub(v[2], w[2])>>
LaneCM31Neg(v) == <<LaneNeg(v[1]), LaneNeg(v[2])>>
LaneCM31OfProducts(ac, bd, ab_t_cd) == <<LaneSub(ac, bd), LaneSub(LaneSub(ab_t_cd, ac), bd)>>
LaneCM31OfThree(p) == LaneCM31OfProducts(p[1], p[2], p[3])
LaneSums(v) == <<v[1], v[2], LaneAdd(v[1], v[2])>>
LaneProducts(v, w) == LaneCM31OfThree([k \in 1 .. 3 |-> LaneMul(v[k], w[k])])
LaneCM31Mul(v, w) == LaneProducts(LaneSums(v), LaneSums(w))

LaneQM31Add(v, w) == <<LaneCM31Add(v[1], w[1]), LaneCM31Add(v[2], w[2])>>
LaneQM31Sub(v, w) == <<LaneCM31Sub(v[1], w[1]), LaneCM31Sub(v[2], w[2])>>
LaneTimesOnePlusI(bd) == <<LaneSub(bd[1], bd[2]), LaneAdd(bd[1], bd[2])>>
LaneQM31OfProducts(ac_p_bd, bd, ab_t_cd) ==
  <<LaneCM31Add(ac_p_bd, LaneTimesOnePlusI(bd)), LaneCM31Sub(ab_t_cd, ac_p_bd)>>
LaneQM31Karatsuba(ac, bd, ab_t_cd) == LaneQM31OfProducts(LaneCM31Add(ac, bd), bd, ab_t_cd)
LaneQM31OfThree(p) == LaneQM31Karatsuba(p[1], p[2], p[3])
LaneSecureSums(v) == <<v[1], v[2], LaneCM31Add(v[1], v[2])>>
LaneSecureProducts(v, w) == LaneQM31OfThree([k \in 1 .. 3 |-> LaneCM31Mul(v[k], w[k])])
LaneQM31Mul(v, w) == LaneSecureProducts(LaneSecureSums(v), LaneSecureSums(w))

(* pow2147483645 on a lane; unlike M31::inverse it maps zero to zero: the  *)
(* assertion of PackedM31::inverse only fails when every lane is zero.     *)
LaneInverse(a) == IF LaneReduce(a) = 0 THEN 0 ELSE M31Inverse(LaneReduce(a))
LaneCM31Scale(v, a) == <<LaneMul(v[1], a), LaneMul(v[2], a)>>
LaneCM31Norm(square) == LaneAdd(square[1], square[2])
LaneCM31Inverse(v) ==
  LaneCM31Scale(<<v[1], LaneNeg(v[2])>>, LaneInverse(LaneCM31Norm([i \in 1 .. 2 |-> LaneMul(v[i], v[i])])))
LaneTimesR(b2) == LaneCM31Add(LaneCM31Add(b2, b2), <<LaneNeg(b2[2]), b2[1]>>)
LaneSecureNorm(square) == LaneCM31Sub(square[1], LaneTimesR(square[2]))
LaneQM31MulCM31(v, c) == <<LaneCM31Mul(v[1], c), LaneCM31Mul(v[2], c)>>
LaneQM31Inverse(v) ==
  LaneQM31MulCM31(<<v[1], LaneCM31Neg(v[2])>>,
                  LaneCM31Inverse(LaneSecureNorm([i \in 1 .. 2 |-> LaneCM31Mul(v[i], v[i])])))
ReduceCM31(v) == <<LaneReduce(v[1]), LaneReduce(v[2])>>
ReduceQM31(v) == <<ReduceCM31(v[1]), ReduceCM31(v[2])>>

(* The arithmetic of QM31 on one backend.                                  *)
Plus(simd, a, b) == IF simd THEN LaneQM31Add(a, b) ELSE QM31Add(a, b)
Minus(simd, a, b) == IF simd THEN LaneQM31Sub(a, b) ELSE QM31Sub(a, b)
Times(simd, a, b) == IF simd THEN LaneQM31Mul(a, b) ELSE QM31Mul(a, b)
=============================================================================
