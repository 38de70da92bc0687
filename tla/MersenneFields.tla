---------------------------- MODULE MersenneFields ----------------------------
(***************************************************************************)
(* The scalar fields: M31, its complex extension CM31 and the secure field *)
(* QM31.  The modulus is 2^ModulusBits - 1; the code has ModulusBits = 31, *)
(* and 3 and 7 also give a prime for which CM31 and QM31 are fields.  A    *)
(* CM31 is a pair of M31s, a QM31 a pair of CM31s.                         *)
(***************************************************************************)
EXTENDS Integers, Sequences

CONSTANTS ModulusBits, \* MODULUS_BITS
          P            \* the modulus

ASSUME ModulusAssumption == P \in Nat /\ P >= 7 /\ 2 ^ ModulusBits = P + 1

BaseField == 0 .. P - 1

(* M31::partial_reduce takes [0, 2P), M31::reduce takes [0, P^2).           *)
PartialReduce(val) == IF val >= P THEN val - P ELSE val
ReduceWide(val) ==
  ((val \div 2 ^ ModulusBits + val + 1) \div 2 ^ ModulusBits + val) % 2 ^ ModulusBits

M31Add(a, b) == PartialReduce(a + b)
M31Neg(a)    == PartialReduce(P - a)
M31Sub(a, b) == PartialReduce(a + P - b)
M31Mul(a, b) == ReduceWide(a * b)
FromI32(value) == IF value < 0 THEN ReduceWide(2 * P + value) ELSE ReduceWide(value)

(* FieldExpOps::pow, modulo P: square and multiply from the low bit.         *)
Power(base, exponent) ==
  LET step[e \in Nat] ==
        IF e = 0 THEN 1
        ELSE LET half == step[e \div 2]
                 even == (half * half) % P
             IN  IF e % 2 = 1 THEN (even * base) % P ELSE even
  IN  step[exponent]

(* pow2147483645, on exponents: sqn::<N> multiplies an exponent by 2^N.     *)
InverseExponent ==
  LET t0 == 2 ^ 2 + 1
      t1 == 2 * t0 + t0
      t2 == 2 ^ 3 * t1 + t0
      t3 == 2 * t2 + t0
      t4 == 2 ^ 8 * t3 + t3
      t5 == 2 ^ 8 * t4 + t3
  IN  2 ^ 7 * t5 + t2
(* M31::inverse, which asserts a # 0.                                       *)
M31Inverse(a) == Power(a, P - 2)

(* CM31 and QM31.  The coordinates stay below P, where the reductions of   *)
(* M31's operators make them arithmetic modulo P.                          *)
CM31Add(v, w) == <<(v[1] + w[1]) % P, (v[2] + w[2]) % P>>
CM31Sub(v, w) == <<(v[1] - w[1]) % P, (v[2] - w[2]) % P>>
CM31Neg(v)    == <<(P - v[1]) % P, (P - v[2]) % P>>
CM31Mul(v, w) == <<(v[1] * w[1] - v[2] * w[2]) % P, (v[1] * w[2] + v[2] * w[1]) % P>>
CM31Scale(v, a) == <<(v[1] * a) % P, (v[2] * a) % P>>
CM31Inverse(v) == CM31Scale(<<v[1], (P - v[2]) % P>>, M31Inverse((v[1] * v[1] + v[2] * v[2]) % P))

QM31Add(v, w) == <<CM31Add(v[1], w[1]), CM31Add(v[2], w[2])>>
QM31Sub(v, w) == <<CM31Sub(v[1], w[1]), CM31Sub(v[2], w[2])>>
QM31Neg(v)    == <<CM31Neg(v[1]), CM31Neg(v[2])>>
R == <<2, 1>>
QM31OfProducts(p) == <<CM31Add(p[1][1], CM31Mul(R, p[2][2])), CM31Add(p[1][2], p[2][1])>>
QM31Mul(v, w) == QM31OfProducts([i \in 1 .. 2 |-> [j \in 1 .. 2 |-> CM31Mul(v[i], w[j])]])
QM31MulCM31(v, c) == <<CM31Mul(v[1], c), CM31Mul(v[2], c)>>
QM31Scale(v, a) == <<CM31Scale(v[1], a), CM31Scale(v[2], a)>>
QM31Conjugate(v) == <<v[1], CM31Neg(v[2])>>
FromM31(a) == <<<<a, 0>>, <<0, 0>>>>
FromM31Array(a, b, c, d) == <<<<a, b>>, <<c, d>>>>
QM31Zero == FromM31(0)
QM31One  == FromM31(1)
SecureBasis == <<QM31One, FromM31Array(0, 1, 0, 0), FromM31Array(0, 0, 1, 0), FromM31Array(0, 0, 0, 1)>>
SumOfFour(e) == QM31Add(QM31Add(e[1], e[2]), QM31Add(e[3], e[4]))
FromPartialEvals(evals) == SumOfFour([k \in 1 .. 4 |-> QM31Mul(evals[k], SecureBasis[k])])
(* The conjugate over the norm, which is a CM31.                           *)
TimesR(b2) == CM31Add(CM31Add(b2, b2), CM31Mul(<<0, 1>>, b2))
SecureNorm(square) == CM31Sub(square[1], TimesR(square[2]))
QM31Inverse(v) ==
  QM31MulCM31(QM31Conjugate(v), CM31Inverse(SecureNorm([i \in 1 .. 2 |-> CM31Mul(v[i], v[i])])))
=============================================================================
