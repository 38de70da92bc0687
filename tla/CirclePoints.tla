----------------------------- MODULE CirclePoints -----------------------------
(***************************************************************************)
(* Points of the circle x^2 + y^2 = 1 over M31 and over QM31, and the      *)
(* polynomials of core/constraints.rs that vanish on them.  The group over *)
(* M31 has order P + 1, so CircleLogOrder is ModulusBits.                  *)
(***************************************************************************)
EXTENDS MersenneFields, CircleDomains, TLC

(* f, evaluated at every point of its domain.                              *)
Tabulated(f) == f @@ <<>>

(* Points over M31: zero, Add, Neg, double_x.                              *)
PointZero == [x |-> 1, y |-> 0]
PointAdd(p, q) == [x |-> (p.x * q.x - p.y * q.y) % P, y |-> (p.x * q.y + p.y * q.x) % P]
PointNeg(p) == [p EXCEPT !.y = (P - @) % P]
DoubleX(x) == (2 * x * x - 1) % P
PointRepeatedDouble(p, n) ==
  LET doubled[k \in 0 .. n] == IF k = 0 THEN p
                               ELSE LET half == doubled[k - 1] IN PointAdd(half, half)
  IN  doubled[n]
PointMul(p, scalar) ==
  LET times[e \in Nat] ==
        IF e = 0 THEN PointZero
        ELSE LET half == times[e \div 2]
                 even == PointAdd(half, half)
             IN  IF e % 2 = 1 THEN PointAdd(even, p) ELSE even
  IN  times[scalar]

(* A generator whose quarter turn is (0, -1): the layer-0 twiddles depend  *)
(* on that sign.                                                           *)
M31_CIRCLE_GEN ==
  CHOOSE p \in [x : BaseField, y : BaseField] :
    /\ M31Add(M31Mul(p.x, p.x), M31Mul(p.y, p.y)) = 1
    /\ PointRepeatedDouble(p, CircleLogOrder - 2) = [x |-> 0, y |-> P - 1]
CirclePointTable == Tabulated([index \in 0 .. CircleOrder - 1 |-> PointMul(M31_CIRCLE_GEN, index)])
ToPoint(index) == CirclePointTable[index]

(* Points over QM31.                                                       *)
IntoEf(p) == [x |-> FromM31(p.x), y |-> FromM31(p.y)]
PointOfProducts(product) == [x |-> QM31Sub(product["x", "x"], product["y", "y"]),
                             y |-> QM31Add(product["x", "y"], product["y", "x"])]
SecurePointAdd(p, q) == PointOfProducts([a, b \in {"x", "y"} |-> QM31Mul(p[a], q[b])])
SecurePointSub(p, q) == SecurePointAdd(p, [q EXCEPT !.y = QM31Neg(@)])
TwiceLessOne(sx) == QM31Sub(QM31Add(sx, sx), QM31One)
SecureDoubleX(x) == TwiceLessOne(QM31Mul(x, x))
ComplexConjugate(p) == [x |-> QM31Conjugate(p.x), y |-> QM31Conjugate(p.y)]
(* get_random_point from the felt it draws.                                *)
PointOfTangent(t, t_square, one_plus_tsquared_inv) ==
  [x |-> QM31Mul(QM31Sub(QM31One, t_square), one_plus_tsquared_inv),
   y |-> QM31Mul(QM31Add(t, t), one_plus_tsquared_inv)]
PointFromFelt(t) ==
  PointOfTangent(t, QM31Mul(t, t), QM31Inverse(QM31Add(QM31Mul(t, t), QM31One)))
QM31Div(v, w) == QM31Mul(v, QM31Inverse(w))

(* core/constraints.rs.                                                    *)
RepeatedDoubleX(x, n) ==
  LET doubled[k \in 0 .. n] == IF k = 0 THEN x ELSE SecureDoubleX(doubled[k - 1])
  IN  doubled[n]
CosetVanishing(coset, p) ==
  LET rotated == SecurePointAdd(SecurePointSub(p, IntoEf(ToPoint(coset.initial))),
                                IntoEf(ToPoint(coset.step \div 2)))
  IN  RepeatedDoubleX(rotated.x, coset.log - 1)
Odds(log) == Coset(subgroup_gen(log + 1), log)    \* the coset of CanonicCoset::new(log)
(* Any order of a commutative Op over n elements, one of logarithmic depth *)
(* here.                                                                   *)
Combine(Op(_, _), v, size) ==
  LET over[first \in 0 .. size - 1, n \in 1 .. size] ==
        IF n = 1 THEN v[first] ELSE Op(over[first, n \div 2], over[first + n \div 2, n - n \div 2])
  IN  over[0, size]
CosetVanishingDerivative(coset, p) ==
  QM31Scale(Combine(QM31Mul, [i \in 0 .. coset.log - 1 |-> IF i = 0 THEN QM31One ELSE CosetVanishing(Odds(i), p)],
                    coset.log),
            4 ^ (coset.log - 1) % P)
PairVanishing(e0, e1, p) ==
  QM31Add(QM31Add(QM31Mul(QM31Sub(e0.y, e1.y), p.x), QM31Mul(QM31Sub(e1.x, e0.x), p.y)),
          QM31Sub(QM31Mul(e0.x, e1.y), QM31Mul(e0.y, e1.x)))
Tangent(h) == QM31Div(h.y, QM31Add(QM31One, h.x))
PointVanishing(vanish_point, p) == Tangent(SecurePointSub(p, vanish_point))
(* The line through a sample and its conjugate, as a, b, c of              *)
(* a * y + b - c * value = 0, each times alpha.                            *)
LineCoeffs(sample, a, c, alpha) ==
  <<QM31Mul(alpha, a),
    QM31Mul(alpha, QM31Sub(QM31Mul(sample.value, c), QM31Mul(a, sample.point.y))),
    QM31Mul(alpha, c)>>
ComplexConjugateLineCoeffs(sample, alpha) ==
  LineCoeffs(sample, QM31Sub(QM31Conjugate(sample.value), sample.value),
             QM31Sub(QM31Conjugate(sample.point.y), sample.point.y), alpha)
ComplexConjugateLine(point, value, p) ==
  QM31Add(value, QM31Div(QM31Mul(QM31Sub(QM31Conjugate(value), value),
                                 QM31Sub(FromM31(p.y), point.y)),
                         QM31Sub(QM31Conjugate(point.y), point.y)))
=============================================================================
