----------------------------- MODULE DlogProofs -----------------------------
(***************************************************************************)
(* What the laws of module Dlog imply for the computations of the          *)
(* protocols and of the encryption schemes.                                *)
(***************************************************************************)
EXTENDS Dlog, TLAPS

(* % q of a natural number is in Zq.                                       *)
LEMMA ModInZq == \A n \in Nat : n % q \in Zq
<1> TAKE n \in Nat
<1>1. q \in Nat /\ q > 0
  BY DlogAssumption DEF GroupLaws
<1>2. n % q \in 0 .. (q - 1)
  BY <1>1
<1> QED
  BY <1>2 DEF Zq

(* The product of two exponents is within the laws of exponentiate, and so *)
(* is what is left of them after adding a third.                           *)
LEMMA ProductExp ==
    ASSUME NEW m \in Zq, NEW n \in Zq
    PROVE  /\ m * n \in Nat
           /\ m * n \in Exps
           /\ m \in Exps
           /\ \A k \in Zq : m + k \in Exps /\ k \in Exps /\ q + k \in Exps
<1>1. q \in Nat /\ q > 1
  BY DlogAssumption DEF GroupLaws
<1>2. m \in Nat /\ n \in Nat /\ m <= q /\ n <= q
  BY <1>1 DEF Zq
<1>3. m * n <= q * n
  BY <1>1, <1>2
<1>4. q * n <= q * q
  BY <1>1, <1>2
<1>5. q * q \in Nat /\ MaxExp = q * q + q * q
  BY <1>1 DEF MaxExp
<1>6. m * n \in Nat
  BY <1>2
<1>7. q + q <= q * q
  BY <1>1
<1>8. m * n \in Exps
  BY <1>3, <1>4, <1>5, <1>6, <1>1, <1>2 DEF Exps
<1>9. \A k \in Zq : k \in Nat /\ k <= q
  BY <1>1 DEF Zq
<1>10. \A k \in Zq : m + k \in Exps /\ k \in Exps /\ q + k \in Exps
  BY <1>1, <1>2, <1>5, <1>7, <1>9 DEF Exps
<1>11. m \in Exps
  BY <1>1, <1>2, <1>5, <1>7 DEF Exps
<1> QED
  BY <1>6, <1>8, <1>10, <1>11

(* Zq is closed under the things the protocols do to it, and is within the *)
(* laws of exponentiate.                                                   *)
LEMMA ZqExps ==
    /\ q \in Nat /\ q > 1
    /\ Zq \subseteq Exps /\ Zq \subseteq Nat
    /\ 0 \in Zq /\ q \in Exps
    /\ \A m, n \in Zq : m + n \in Exps /\ m * n \in Exps /\ m * n \in Nat /\ q + n \in Exps
<1>1. q \in Nat /\ q > 1
  BY DlogAssumption DEF GroupLaws
<1>2. 0 \in Zq /\ Zq \subseteq Nat
  BY <1>1 DEF Zq
<1>3. \A m, n \in Zq : m + n \in Exps /\ m * n \in Exps /\ m * n \in Nat /\ q + n \in Exps
  BY ProductExp
<1>4. \A m \in Zq : m \in Exps
  BY ProductExp
<1>5. q + 0 = q
  BY <1>1
<1>6. q \in Exps
  BY <1>2, <1>3, <1>5
<1> QED
  BY <1>1, <1>2, <1>3, <1>4, <1>6

(* Reducing a natural exponent modulo q changes nothing.                   *)
LEMMA ExpRem ==
    ASSUME NEW a \in G, NEW m \in Exps
    PROVE  Rem(m) \in Zq /\ Exp(a, Rem(m)) = Exp(a, m) /\ Exp(a, m) \in G
<1>1. m \in Nat /\ m >= 0
  BY ZqExps DEF Exps, MaxExp
<1>2. Rem(m) = m % q
  BY <1>1 DEF Rem
<1>3. m % q \in Zq
  BY <1>1, ModInZq
<1>4. Exp(a, m) \in G /\ Exp(a, m % q) = Exp(a, m)
  BY DlogAssumption DEF GroupLaws
<1> QED
  BY <1>2, <1>3, <1>4

(* The response to a challenge that is not negative.                       *)
LEMMA ResponseNat ==
    ASSUME NEW b \in G, NEW r \in Zq, NEW w \in Zq, NEW e \in Zq
    PROVE  /\ Rem(r + Rem(e * w)) \in Zq
           /\ Exp(b, Rem(r + Rem(e * w))) = Mul(Exp(b, r), Exp(Exp(b, w), e))
<1>1. e * w \in Exps /\ e * w = w * e
  BY ZqExps
<1>2. Rem(e * w) \in Zq /\ Exp(b, Rem(e * w)) = Exp(b, e * w)
  BY <1>1, ExpRem
<1>3. r + Rem(e * w) \in Exps /\ r \in Exps /\ Rem(e * w) \in Exps
  BY <1>2, ZqExps, Zenon
<1>4. Rem(r + Rem(e * w)) \in Zq
      /\ Exp(b, Rem(r + Rem(e * w))) = Exp(b, r + Rem(e * w))
  BY <1>3, ExpRem
<1>5. Exp(b, r + Rem(e * w)) = Mul(Exp(b, r), Exp(b, Rem(e * w)))
  BY <1>3, DlogAssumption DEF GroupLaws
<1>6. Exp(Exp(b, w), e) = Exp(b, w * e)
  BY DlogAssumption DEF GroupLaws
<1> QED
  BY <1>1, <1>2, <1>4, <1>5, <1>6

(* A simulated first message answers a challenge that is not negative.     *)
LEMMA SimulationNat ==
    ASSUME NEW b \in G, NEW h \in G, NEW e \in Zq
    PROVE  Mul(Mul(b, Exp(h, q - e)), Exp(h, e)) = b
<1>1. e \in Exps /\ q - e \in Exps /\ (q - e) + e = q /\ q \in Exps
  BY ZqExps DEF Exps, Zq, MaxExp
<1>2. Exp(h, (q - e) + e) = Mul(Exp(h, q - e), Exp(h, e))
  BY <1>1, DlogAssumption DEF GroupLaws
<1>3. q % q = 0
  BY ZqExps
<1>4. Exp(h, q) = Exp(h, 0)
  BY <1>1, <1>3, DlogAssumption DEF GroupLaws
<1>5. Exp(h, q - e) \in G /\ Exp(h, e) \in G
  BY <1>1, DlogAssumption DEF GroupLaws
<1>6. Mul(Mul(b, Exp(h, q - e)), Exp(h, e)) = Mul(b, Mul(Exp(h, q - e), Exp(h, e)))
  BY <1>5, DlogAssumption DEF GroupLaws
<1>7. Mul(b, Exp(h, 0)) = b
  BY DlogAssumption DEF GroupLaws
<1> QED
  BY <1>1, <1>2, <1>4, <1>6, <1>7

(* Exponents of Zq add up.                                                 *)
LEMMA ExpSum ==
    ASSUME NEW b \in G, NEW m \in Zq, NEW n \in Zq
    PROVE  Exp(b, m + n) = Mul(Exp(b, m), Exp(b, n)) /\ Exp(b, m) \in G
<1>1. m \in Exps /\ n \in Exps /\ m + n \in Exps
  BY ZqExps
<1> QED
  BY <1>1, DlogAssumption DEF GroupLaws

(* Inverses in an abelian group, from the laws alone.                      *)
LEMMA InverseOfProduct ==
    ASSUME NEW x \in G, NEW y \in G
    PROVE  Inv(x) = Mul(y, Inv(Mul(x, y)))
<1> DEFINE one == Exp(x, 0)
<1> DEFINE xy == Mul(x, y)
<1> DEFINE v == Mul(y, Inv(xy))
<1>1. one \in G /\ xy \in G /\ Inv(xy) \in G /\ Inv(x) \in G
  BY ZqExps, DlogAssumption DEF GroupLaws
<1>2. v \in G
  BY <1>1, DlogAssumption DEF GroupLaws
<1>3. \A a \in G : Mul(one, a) = a /\ Mul(a, Inv(a)) = one
  <2>1. \A a \in G : Mul(one, a) = a
    <3>1. \A a \in G : Mul(a, one) = a
      BY DlogAssumption, Zenon DEF GroupLaws
    <3>2. \A a, b \in G : Mul(a, b) = Mul(b, a)
      BY DlogAssumption DEF GroupLaws
    <3> QED
      BY <1>1, <3>1, <3>2, Zenon
  <2>2. \A a \in G : Mul(Mul(one, a), Inv(a)) = one
    BY <1>1, DlogAssumption, Zenon DEF GroupLaws
  <2> QED
    BY <2>1, <2>2, Zenon
<1>4. Mul(v, x) = Mul(xy, Inv(xy))
  <2>1. Mul(v, x) = Mul(x, v)
    BY <1>2, DlogAssumption DEF GroupLaws
  <2>2. Mul(x, v) = Mul(Mul(x, y), Inv(xy))
    BY <1>1, DlogAssumption DEF GroupLaws
  <2> QED
    BY <2>1, <2>2
<1>5. Mul(v, x) = one
  BY <1>1, <1>3, <1>4
<1>6. Mul(Mul(v, x), Inv(x)) = v
  BY <1>2, DlogAssumption DEF GroupLaws
<1>7. v = Inv(x)
  BY <1>1, <1>3, <1>5, <1>6
<1> QED
  BY <1>7

(* The response to a negative challenge, whose remainders keep its sign,   *)
(* in a group whose exponentiate honours the sign.                         *)
LEMMA ResponseNeg ==
    ASSUME SignedLaws,
           NEW b \in G, NEW r \in Zq, NEW w \in Zq, NEW e \in -(q - 1) .. (-1)
    PROVE  /\ Rem(r + Rem(e * w)) \in -(q - 1) .. (q - 1)
           /\ Exp(b, Rem(r + Rem(e * w))) = Mul(Exp(b, r), Exp(Exp(b, w), e))
<1> DEFINE k == -e
<1> DEFINE s == (k * w) % q
<1>1. k \in Zq /\ k \in 1 .. MaxExp /\ e = -k /\ e \in Int
  <2>1. q \in Nat /\ q > 1
    BY ZqExps
  <2>2. k \in 1 .. (q - 1) /\ e = -k /\ e \in Int
    BY <2>1
  <2>3. k \in Zq
    BY <2>1, <2>2 DEF Zq
  <2>4. k \in Exps
    BY <2>3, ZqExps
  <2> QED
    BY <2>2, <2>3, <2>4 DEF Exps
<1>2. k * w \in Nat /\ k * w \in Exps /\ w * k = k * w /\ w \in Nat
  BY <1>1, ZqExps
<1>3. s \in Zq
  BY <1>2, ModInZq
<1>4. Rem(e * w) = -s
  <2>1. e * w = -(k * w)
    BY <1>1, <1>2
  <2>2. CASE k * w = 0
    <3>1. 0 % q = 0
      BY ZqExps
    <3> QED
      BY <2>1, <2>2, <3>1 DEF Rem
  <2>3. CASE k * w # 0
    <3>1. ~(e * w >= 0) /\ -(e * w) = k * w
      BY <1>2, <2>1, <2>3
    <3> QED
      BY <3>1 DEF Rem
  <2> QED
    BY <2>2, <2>3
<1>5. Exp(b, s) = Exp(Exp(b, w), k) /\ Exp(b, s) \in G /\ Exp(b, w) \in G /\ Exp(b, r) \in G
  <2>1. Exp(b, s) = Exp(b, k * w) /\ Exp(b, s) \in G
    BY <1>2, <1>3, ZqExps, DlogAssumption DEF GroupLaws
  <2>2. Exp(Exp(b, w), k) = Exp(b, w * k)
    BY <1>1, DlogAssumption DEF GroupLaws
  <2> QED
    BY <1>2, <2>1, <2>2, ZqExps, DlogAssumption DEF GroupLaws
<1>6. Exp(Exp(b, w), e) = Inv(Exp(b, s))
  BY <1>1, <1>5 DEF SignedLaws
<1>7. CASE r >= s
  <2> DEFINE n == r - s
  <2>1. n \in Zq /\ n >= 0 /\ n + s = r /\ n = r + (-s)
    BY <1>3, <1>7, ZqExps DEF Zq
  <2>2. n % q = n
    BY <2>1, ZqExps DEF Zq
  <2>3. Rem(r + Rem(e * w)) = n
    BY <1>4, <2>1, <2>2 DEF Rem
  <2>4. Exp(b, n + s) = Mul(Exp(b, n), Exp(b, s)) /\ Exp(b, n) \in G
    BY <1>3, <2>1, ExpSum
  <2>5. Mul(Mul(Exp(b, n), Exp(b, s)), Inv(Exp(b, s))) = Exp(b, n)
    BY <1>5, <2>4, DlogAssumption DEF GroupLaws
  <2>6. n \in -(q - 1) .. (q - 1)
    BY <2>1, ZqExps DEF Zq
  <2> QED
    BY <1>6, <2>1, <2>3, <2>4, <2>5, <2>6
<1>8. CASE ~(r >= s)
  <2> DEFINE m == s - r
  <2>1. /\ m \in Zq /\ m \in 1 .. MaxExp /\ m + r = s /\ r + (-s) = -m
        /\ -m \in -(q - 1) .. (q - 1) /\ ~(-m >= 0) /\ -(-m) = m
    <3>1. m \in Zq /\ m >= 1 /\ m + r = s /\ r + (-s) = -m
      BY <1>3, <1>8, ZqExps DEF Zq
    <3>2. -m \in -(q - 1) .. (q - 1) /\ ~(-m >= 0) /\ -(-m) = m
      BY <3>1, ZqExps DEF Zq
    <3>3. m \in Exps
      BY <3>1, ZqExps
    <3> QED
      BY <3>1, <3>2, <3>3 DEF Exps
  <2>2. m % q = m
    BY <2>1, ZqExps DEF Zq
  <2>3. Rem(r + Rem(e * w)) = -m
    BY <1>4, <2>1, <2>2 DEF Rem
  <2>4. Exp(b, m + r) = Mul(Exp(b, m), Exp(b, r)) /\ Exp(b, m) \in G
    BY <2>1, ExpSum
  <2>5. Inv(Exp(b, m)) = Mul(Exp(b, r), Inv(Mul(Exp(b, m), Exp(b, r))))
    BY <1>5, <2>4, InverseOfProduct
  <2>6. Exp(b, -m) = Inv(Exp(b, m))
    BY <2>1 DEF SignedLaws
  <2> QED
    BY <1>6, <2>1, <2>3, <2>4, <2>5, <2>6
<1> QED
  BY <1>7, <1>8

(* A simulated first message answers a negative challenge.                 *)
LEMMA SimulationNeg ==
    ASSUME SignedLaws, NEW b \in G, NEW h \in G, NEW e \in -(q - 1) .. (-1)
    PROVE  Mul(Mul(b, Exp(h, q - e)), Exp(h, e)) = b
<1> DEFINE k == -e
<1>1. k \in Zq /\ k \in 1 .. MaxExp /\ e = -k /\ q - e = q + k
  <2>1. k \in 1 .. (q - 1) /\ e = -k /\ q - e = q + k
    BY ZqExps
  <2>2. k \in Zq
    BY <2>1, ZqExps DEF Zq
  <2> QED
    BY <2>1, <2>2, ZqExps DEF Exps
<1>2. q + k \in Exps /\ q \in Exps /\ k \in Exps
  BY <1>1, ZqExps
<1>3. Exp(h, q + k) = Mul(Exp(h, q), Exp(h, k)) /\ Exp(h, q) \in G /\ Exp(h, k) \in G
  BY <1>2, DlogAssumption DEF GroupLaws
<1>4. q % q = 0
  BY ZqExps
<1>5. Exp(h, q) = Exp(h, 0)
  BY <1>2, <1>4, DlogAssumption DEF GroupLaws
<1>6. Mul(b, Mul(Exp(h, q), Exp(h, k))) = Mul(Mul(b, Exp(h, q)), Exp(h, k))
  BY <1>3, DlogAssumption DEF GroupLaws
<1>7. Mul(b, Exp(h, q)) = b
  BY <1>5, DlogAssumption DEF GroupLaws
<1>8. Mul(Mul(b, Exp(h, k)), Inv(Exp(h, k))) = b
  BY <1>3, DlogAssumption DEF GroupLaws
<1>9. Exp(h, e) = Inv(Exp(h, k))
  BY <1>1 DEF SignedLaws
<1> QED
  BY <1>1, <1>3, <1>6, <1>7, <1>8, <1>9

(* Powers with exponents of Zq are elements, and commute.                  *)
LEMMA PowerFacts ==
    ASSUME NEW b \in G, NEW m \in Zq, NEW n \in Zq
    PROVE  /\ Exp(b, m) \in G
           /\ Exp(Exp(b, m), n) = Exp(Exp(b, n), m)
           /\ Exp(b, q - m) \in G
<1>1. m \in Nat /\ n \in Nat /\ m * n = n * m
  BY ZqExps
<1>2. Exp(Exp(b, m), n) = Exp(b, m * n) /\ Exp(Exp(b, n), m) = Exp(b, n * m)
  BY DlogAssumption DEF GroupLaws
<1>3. m \in Exps /\ q - m \in Exps
  BY ZqExps DEF Exps, Zq, MaxExp
<1>4. Exp(b, m) \in G /\ Exp(b, q - m) \in G
  BY <1>3, DlogAssumption DEF GroupLaws
<1> QED
  BY <1>1, <1>2, <1>4

(* Taking the value out of a Pedersen commitment leaves g^r.               *)
LEMMA Unblind ==
    ASSUME NEW b \in G, NEW h \in G, NEW s \in Zq
    PROVE  Mul(Mul(b, Exp(h, s)), Exp(h, q - s)) = b
<1>1. Exp(h, s) \in G /\ Exp(h, q - s) \in G
  BY PowerFacts
<1>2. Mul(Mul(b, Exp(h, s)), Exp(h, q - s)) = Mul(b, Mul(Exp(h, s), Exp(h, q - s)))
  BY <1>1, DlogAssumption DEF GroupLaws
<1>3. Mul(Exp(h, s), Exp(h, q - s)) = Mul(Exp(h, q - s), Exp(h, s))
  BY <1>1, DlogAssumption DEF GroupLaws
<1>4. Mul(b, Mul(Exp(h, q - s), Exp(h, s))) = Mul(Mul(b, Exp(h, q - s)), Exp(h, s))
  BY <1>1, DlogAssumption DEF GroupLaws
<1> QED
  BY <1>2, <1>3, <1>4, SimulationNat

(* The identity is its own inverse.                                        *)
LEMMA InverseOfOne ==
    ASSUME NEW b \in G
    PROVE  Inv(Exp(b, 0)) = Exp(b, 0)
<1> DEFINE one == Exp(b, 0)
<1>1. one \in G /\ Inv(one) \in G
  BY ZqExps, DlogAssumption DEF GroupLaws
<1>2. Mul(one, one) = one /\ Mul(Inv(one), one) = Inv(one)
  BY <1>1, DlogAssumption DEF GroupLaws
<1>3. Mul(Mul(one, one), Inv(one)) = one
  BY <1>1, DlogAssumption DEF GroupLaws
<1>4. Mul(one, Inv(one)) = Mul(Inv(one), one)
  BY <1>1, DlogAssumption DEF GroupLaws
<1>5. Inv(one) = one
  BY <1>2, <1>3, <1>4
<1> QED
  BY <1>5

(* The fourth base of a Cramer-Shoup statement goes to its image, for a    *)
(* hash value of either sign.                                              *)
LEMMA HashPower ==
    ASSUME SignedLaws, NEW d \in G, NEW r \in Zq, NEW alpha \in -(q - 1) .. (q - 1)
    PROVE  /\ Exp(d, Rem(alpha)) \in G
           /\ Exp(d, Rem(r * alpha)) = Exp(Exp(d, Rem(alpha)), r)
<1>0. q \in Nat /\ q > 1 /\ r \in Nat /\ alpha \in Int
  BY ZqExps
<1>1. CASE alpha >= 0
  <2>1. alpha \in Zq /\ alpha \in Nat
    BY <1>0, <1>1 DEF Zq
  <2>2. alpha % q = alpha
    BY <1>0, <2>1 DEF Zq
  <2>3. Rem(alpha) = alpha
    BY <1>1, <2>2 DEF Rem
  <2>4. r * alpha \in Exps /\ r * alpha = alpha * r
    BY <2>1, ZqExps
  <2>5. Exp(d, Rem(r * alpha)) = Exp(d, alpha * r)
    BY <2>4, ExpRem
  <2>6. Exp(Exp(d, alpha), r) = Exp(d, alpha * r) /\ Exp(d, alpha) \in G
    BY <2>1, ZqExps, DlogAssumption DEF GroupLaws
  <2> QED
    BY <2>3, <2>5, <2>6
<1>2. CASE ~(alpha >= 0)
  <2> DEFINE k == -alpha
  <2> DEFINE s == (k * r) % q
  <2>1. k \in Zq /\ k \in 1 .. MaxExp /\ alpha = -k /\ k \in Nat
    <3>1. k \in 1 .. (q - 1) /\ alpha = -k
      BY <1>0, <1>2
    <3>2. k \in Zq
      BY <1>0, <3>1 DEF Zq
    <3>3. k \in Exps
      BY <3>2, ZqExps
    <3> QED
      BY <3>1, <3>2, <3>3 DEF Exps
  <2>2. k % q = k
    BY <1>0, <2>1 DEF Zq
  <2>3. Rem(alpha) = -k
    BY <1>2, <2>2 DEF Rem
  <2>4. k * r \in Nat /\ k * r \in Exps
    BY <2>1, ZqExps
  <2>5. s \in Zq
    BY <2>4, ModInZq
  <2>6. Rem(r * alpha) = -s
    <3>1. r * alpha = -(k * r)
      BY <1>0, <2>1
    <3>2. CASE k * r = 0
      <4>1. 0 % q = 0
        BY <1>0
      <4> QED
        BY <3>1, <3>2, <4>1 DEF Rem
    <3>3. CASE k * r # 0
      <4>1. ~(r * alpha >= 0) /\ -(r * alpha) = k * r
        BY <2>4, <3>1, <3>3
      <4> QED
        BY <4>1 DEF Rem
    <3> QED
      BY <3>2, <3>3
  <2>7. Exp(d, k) \in G /\ Inv(Exp(d, k)) \in G /\ Exp(d, -k) = Inv(Exp(d, k))
    BY <2>1, PowerFacts, DlogAssumption DEF GroupLaws, SignedLaws
  <2>8. Exp(Inv(Exp(d, k)), r) = Inv(Exp(Exp(d, k), r))
    BY <2>7 DEF SignedLaws
  <2>9. Exp(Exp(d, k), r) = Exp(d, k * r)
    BY <2>1, DlogAssumption DEF GroupLaws
  <2>10. Exp(d, s) = Exp(d, k * r)
    BY <2>4, DlogAssumption DEF GroupLaws
  <2>11. Exp(d, -s) = Inv(Exp(d, s))
    <3>1. CASE s = 0
      <4>1. -s = 0
        BY <3>1
      <4> QED
        BY <3>1, <4>1, InverseOfOne
    <3>2. CASE s # 0
      <4>1. s \in 1 .. MaxExp
        BY <2>5, <3>2, ZqExps DEF Exps
      <4> QED
        BY <4>1 DEF SignedLaws
    <3> QED
      BY <3>1, <3>2
  <2> QED
    BY <2>3, <2>6, <2>7, <2>8, <2>9, <2>10, <2>11
<1> QED
  BY <1>1, <1>2

-----------------------------------------------------------------------------
(* Arithmetic modulo q.  A number and its remainder differ by a multiple,  *)
(* and numbers that differ by a multiple have the same remainder.          *)
LEMMA DivMod ==
    ASSUME NEW n \in Int
    PROVE  n % q \in 0 .. (q - 1) /\ \E k \in Int : n = k * q + (n % q)
<1>1. q \in Nat /\ q > 0
  BY ZqExps
<1>2. n % q \in 0 .. (q - 1) /\ n \div q \in Int
  BY <1>1
<1>3. n = (n \div q) * q + (n % q)
  BY <1>1, Z3
<1> QED
  BY <1>2, <1>3

LEMMA SameMod ==
    ASSUME NEW a \in Int, NEW b \in Int, NEW k \in Int, a - b = k * q
    PROVE  a % q = b % q
<1>1. q \in Nat /\ q > 1
  BY ZqExps
<1>2. PICK m \in Int : a = m * q + (a % q)
  BY DivMod
<1>3. PICK n \in Int : b = n * q + (b % q)
  BY DivMod
<1> DEFINE r == a % q
           s == b % q
<1>4. r \in 0 .. (q - 1) /\ s \in 0 .. (q - 1)
  BY DivMod
<1>5. a = m * q + r /\ b = n * q + s
  BY <1>2, <1>3
<1> HIDE DEF r, s
<1> DEFINE j == k - m + n
<1>6. j \in Int /\ r - s = j * q
  BY <1>1, <1>4, <1>5
<1> HIDE DEF j
<1>7. r = s
  BY <1>1, <1>4, <1>6
<1> QED
  BY <1>7 DEF r, s

LEMMA DifferenceMod ==
    ASSUME NEW a \in Int, NEW b \in Int, (a - b) % q = 0
    PROVE  a % q = b % q
<1>0. a - b \in Int
  OBVIOUS
<1>1. PICK k \in Int : a - b = k * q + 0
  BY <1>0, DivMod
<1>2. a - b = k * q
  BY <1>1, ZqExps
<1> QED
  BY <1>2, SameMod

(* Reducing a summand or a factor first changes nothing.                   *)
LEMMA SumMod ==
    ASSUME NEW a \in Int, NEW b \in Int
    PROVE  ((a % q) + (b % q)) % q = (a + b) % q
<1>1. q \in Nat /\ q > 1
  BY ZqExps
<1>2. PICK m \in Int : a = m * q + (a % q)
  BY DivMod
<1>3. PICK n \in Int : b = n * q + (b % q)
  BY DivMod
<1> DEFINE r == a % q
           s == b % q
<1>4. r \in Int /\ s \in Int /\ a = m * q + r /\ b = n * q + s
  BY <1>2, <1>3, DivMod
<1> HIDE DEF r, s
<1>5. (a + b) - (r + s) = (m + n) * q /\ m + n \in Int /\ a + b \in Int /\ r + s \in Int
  BY <1>1, <1>4
<1>6. (a + b) % q = (r + s) % q
  BY <1>5, SameMod
<1> QED
  BY <1>6 DEF r, s

LEMMA ProductMod ==
    ASSUME NEW a \in Int, NEW w \in Int
    PROVE  ((a % q) * w) % q = (a * w) % q
<1>1. q \in Nat /\ q > 1
  BY ZqExps
<1>2. PICK m \in Int : a = m * q + (a % q)
  BY DivMod
<1> DEFINE r == a % q
<1>3. r \in Int /\ a = m * q + r
  BY <1>2, DivMod
<1> HIDE DEF r
<1>4. a * w - r * w = (m * w) * q /\ m * w \in Int /\ a * w \in Int /\ r * w \in Int
  BY <1>1, <1>3
<1>5. (a * w) % q = (r * w) % q
  BY <1>4, SameMod
<1> QED
  BY <1>5 DEF r

(* An exponent of either sign, in a group that honours it, is as good as   *)
(* its remainder.                                                          *)
Usable(n) == n \in -(q - 1) .. (q - 1) /\ (SignedLaws \/ n >= 0)

LEMMA UsableExp ==
    ASSUME NEW b \in G, NEW n, Usable(n)
    PROVE  n \in Int /\ n % q \in Zq /\ Exp(b, n) = Exp(b, n % q) /\ Exp(b, n) \in G
<1>1. q \in Nat /\ q > 1
  BY ZqExps
<1>2. n \in Int /\ n \in -(q - 1) .. (q - 1)
  BY <1>1 DEF Usable
<1>3. n % q \in Zq
  BY <1>2, DivMod DEF Zq
<1>4. CASE n >= 0
  <2>1. n \in Zq
    BY <1>1, <1>2, <1>4 DEF Zq
  <2>2. n \in Exps
    BY <2>1, ZqExps
  <2> QED
    BY <1>2, <1>3, <2>2, DlogAssumption DEF GroupLaws
<1>5. CASE ~(n >= 0)
  <2> DEFINE k == -n
             m == q - k
  <2>1. k \in 1 .. (q - 1) /\ k \in Zq /\ m \in Zq /\ m + k = q /\ n = -k
    BY <1>1, <1>2, <1>5 DEF Zq
  <2>2. n - m = (-1) * q /\ m \in Int /\ m % q = m
    BY <1>1, <2>1 DEF Zq
  <2>3. n % q = m
    BY <1>2, <2>2, SameMod
  <2>4. k \in Exps /\ m \in Exps /\ q \in Exps
    BY <2>1, ZqExps
  <2> HIDE DEF k, m
  <2> DEFINE x == Exp(b, m)
             y == Exp(b, k)
             one == Exp(b, 0)
  <2>5. x \in G /\ y \in G /\ Mul(x, y) = Exp(b, q) /\ Inv(y) \in G
    <3>1. x \in G /\ y \in G
      BY <2>4, DlogAssumption DEF GroupLaws
    <3>2. m + k \in Exps => Exp(b, m + k) = Mul(x, y)
      BY <2>4, DlogAssumption DEF GroupLaws
    <3>3. Inv(y) \in G
      BY <3>1, DlogAssumption DEF GroupLaws
    <3> QED
      BY <2>1, <2>4, <3>1, <3>2, <3>3
  <2>6. Exp(b, q) = one
    <3>1. q % q = 0
      BY <1>1
    <3> QED
      BY <2>4, <3>1, DlogAssumption DEF GroupLaws
  <2>7. Mul(Mul(x, y), Inv(y)) = x
    BY <2>5, DlogAssumption DEF GroupLaws
  <2>8. Mul(one, Inv(y)) = Inv(y)
    <3>1. one \in G
      BY <2>5, <2>6, DlogAssumption DEF GroupLaws
    <3>2. Mul(one, Inv(y)) = Mul(Inv(y), one) /\ Mul(Inv(y), one) = Inv(y)
      BY <2>5, <3>1, DlogAssumption DEF GroupLaws
    <3> QED
      BY <3>2
  <2>9. Inv(y) = x
    BY <2>5, <2>6, <2>7, <2>8
  <2>10. Exp(b, n) = Inv(y)
    <3>1. k \in 1 .. MaxExp
      BY <2>1, <2>4 DEF Exps
    <3> QED
      BY <1>5, <2>1, <3>1 DEF Usable, SignedLaws
  <2> QED
    BY <1>2, <1>3, <2>3, <2>5, <2>9, <2>10
<1> QED
  BY <1>4, <1>5

(* The powers of two exponents differ by the power of their difference.    *)
LEMMA UsableDifference ==
    ASSUME NEW b \in G, NEW m, Usable(m), NEW n, Usable(n)
    PROVE  /\ (m - n) % q \in Zq
           /\ Exp(b, (m - n) % q) \in G
           /\ Exp(b, m) = Mul(Exp(b, n), Exp(b, (m - n) % q))
<1> DEFINE M == m % q
           N == n % q
           D == (m - n) % q
<1>1. m \in Int /\ n \in Int /\ N \in Zq /\ Exp(b, m) = Exp(b, M) /\ Exp(b, n) = Exp(b, N)
  BY UsableExp
<1>2. m - n \in Int /\ D \in Zq
  BY <1>1, DivMod DEF Zq
<1>3. (N + D) % q = M
  <2>1. (N + D) % q = (n + (m - n)) % q
    BY <1>1, <1>2, SumMod
  <2>2. n + (m - n) = m
    BY <1>1
  <2> QED
    BY <2>1, <2>2
<1> HIDE DEF M, N, D
<1>4. N \in Exps /\ D \in Exps /\ N + D \in Exps
  BY <1>1, <1>2, ZqExps
<1>5. Exp(b, N + D) = Mul(Exp(b, N), Exp(b, D)) /\ Exp(b, (N + D) % q) = Exp(b, N + D)
      /\ Exp(b, D) \in G
  BY <1>4, DlogAssumption DEF GroupLaws
<1>6. D \in Zq /\ Exp(b, D) \in G /\ Exp(b, m) = Mul(Exp(b, n), Exp(b, D))
  BY <1>1, <1>2, <1>3, <1>5
<1> QED
  BY <1>6 DEF D

LEMMA Cancel ==
    ASSUME NEW a \in G, NEW b \in G, NEW c \in G, Mul(a, b) = Mul(a, c)
    PROVE  b = c
<1>1. Mul(b, a) = Mul(c, a)
  BY DlogAssumption DEF GroupLaws
<1>2. Mul(Mul(b, a), Inv(a)) = b /\ Mul(Mul(c, a), Inv(a)) = c
  BY DlogAssumption DEF GroupLaws
<1> QED
  BY <1>1, <1>2

(* In a group of prime order an element has one root of each degree.       *)
LEMMA Root ==
    ASSUME PrimeOrder, NEW x \in G, NEW y \in G, NEW d \in 1 .. q - 1,
           Exp(x, d) = Exp(y, d)
    PROVE  x = y
<1>1. PICK n \in Zq : (d * n) % q = 1
  BY DEF PrimeOrder
<1>2. d \in Zq
  BY ZqExps DEF Zq
<1>3. d * n \in Exps
  BY <1>2, ProductExp
<1>4. \A a \in G : Exp(Exp(a, d), n) = a
  <2> TAKE a \in G
  <2>1. Exp(Exp(a, d), n) = Exp(a, d * n)
    BY <1>2, DlogAssumption DEF GroupLaws
  <2>2. Exp(a, (d * n) % q) = Exp(a, d * n)
    BY <1>3, DlogAssumption DEF GroupLaws
  <2>3. Exp(a, 1) = a
    BY DlogAssumption DEF GroupLaws
  <2> QED
    BY <1>1, <2>1, <2>2, <2>3
<1> QED
  BY <1>4

(* A solution w of d w = v (mod q), as an exponent.                        *)
LEMMA Solution ==
    ASSUME NEW b \in G, NEW w \in Zq, NEW d \in Int, NEW v \in Int,
           (d * w - v) % q = 0
    PROVE  Exp(b, w) \in G /\ Exp(Exp(b, w), d % q) = Exp(b, v % q)
<1> DEFINE D == d % q
<1>1. w \in Int /\ D \in Zq /\ d * w \in Int
  <2>1. q \in Nat
    BY ZqExps
  <2>2. D \in Zq
    BY DivMod DEF Zq
  <2>3. w \in Int
    BY <2>1 DEF Zq
  <2> HIDE DEF D
  <2> QED
    BY <2>2, <2>3
<1>2. (D * w) % q = (d * w) % q
  BY <1>1, ProductMod
<1>3. (d * w) % q = v % q
  BY <1>1, DifferenceMod
<1> HIDE DEF D
<1>4. D * w = w * D /\ w * D \in Exps
  <2>1. D * w = w * D
    BY <1>1, ZqExps DEF Zq
  <2> QED
    BY <2>1, <1>1, ProductExp
<1>5. Exp(Exp(b, w), D) = Exp(b, w * D)
  BY <1>1, DlogAssumption DEF GroupLaws
<1>6. Exp(b, (w * D) % q) = Exp(b, w * D)
  BY <1>4, DlogAssumption DEF GroupLaws
<1>7. Exp(b, w) \in G
  BY ZqExps, DlogAssumption DEF GroupLaws
<1>8. Exp(Exp(b, w), D) = Exp(b, v % q)
  BY <1>2, <1>3, <1>4, <1>5, <1>6
<1> QED
  BY <1>7, <1>8 DEF D

(* Two challenges less than q apart are different modulo q.                *)
LEMMA Apart ==
    ASSUME NEW e \in Int, e # 0, -q < e, e < q
    PROVE  e % q \in 1 .. q - 1
<1>1. q \in Nat /\ q > 1
  BY ZqExps
<1>2. e % q \in 0 .. (q - 1)
  BY DivMod
<1>3. ASSUME e % q = 0 PROVE FALSE
  <2>1. PICK k \in Int : e = k * q + 0
    BY <1>3, DivMod
  <2>2. CASE e > 0
    BY <1>1, <2>1, <2>2
  <2>3. CASE e < 0
    BY <1>1, <2>1, <2>3
  <2> QED
    BY <2>2, <2>3
<1> QED
  BY <1>1, <1>2, <1>3

(* Two answers to one first message a determine the image h: if their      *)
(* quotient is the (e1 - e2)-th power of B, then h is B.                   *)
LEMMA Extraction ==
    ASSUME PrimeOrder, NEW a \in G, NEW h \in G, NEW B \in G, NEW L \in G,
           NEW e1, Usable(e1), NEW e2, Usable(e2), (e1 - e2) % q \in 1 .. q - 1,
           Mul(L, Exp(B, (e1 - e2) % q)) = Mul(a, Exp(h, e1)),
           L = Mul(a, Exp(h, e2))
    PROVE  h = B
<1> DEFINE D == (e1 - e2) % q
           E == Exp(h, e2)
           P == Exp(h, D)
           Q == Exp(B, D)
<1>1. E \in G /\ P \in G /\ Exp(h, e1) = Mul(E, P)
  BY UsableExp, UsableDifference
<1>2. Q \in G
  <2>1. D \in Zq
    BY UsableDifference
  <2> HIDE DEF D
  <2>2. D \in Exps
    BY <2>1, ZqExps
  <2> QED
    BY <2>2, DlogAssumption DEF GroupLaws
<1>3. D \in 1 .. q - 1 /\ Mul(L, Q) = Mul(a, Mul(E, P)) /\ L = Mul(a, E)
  BY <1>1
<1> HIDE DEF E, P, Q
<1>4. Mul(Mul(a, E), P) = Mul(a, Mul(E, P))
  BY <1>1, DlogAssumption DEF GroupLaws
<1>5. P = Q
  BY <1>1, <1>2, <1>3, <1>4, Cancel
<1> HIDE DEF D
<1> QED
  BY <1>3, <1>5, Root DEF P, Q

-----------------------------------------------------------------------------
(* Elements as powers of the generator, with integers for exponents.       *)
Pow(n) == Exp(g, n % q)

LEMMA PowSame ==
    ASSUME NEW m \in Int, NEW n \in Int, NEW k \in Int, m - n = k * q
    PROVE  Pow(m) = Pow(n)
BY SameMod DEF Pow

LEMMA PowSum ==
    ASSUME NEW m \in Int, NEW n \in Int
    PROVE  Pow(m) \in G /\ Mul(Pow(m), Pow(n)) = Pow(m + n)
<1> DEFINE M == m % q
           N == n % q
<1>1. M \in Zq /\ N \in Zq
  BY DivMod DEF Zq
<1>2. (M + N) % q = (m + n) % q
  BY SumMod
<1> HIDE DEF M, N
<1>3. M \in Exps /\ N \in Exps /\ M + N \in Exps
  BY <1>1, ZqExps
<1>4. g \in G /\ Exp(g, M) \in G /\ Exp(g, M + N) = Mul(Exp(g, M), Exp(g, N))
      /\ Exp(g, (M + N) % q) = Exp(g, M + N)
  BY <1>3, DlogAssumption DEF GroupLaws
<1>5. Exp(g, M) \in G /\ Mul(Exp(g, M), Exp(g, N)) = Exp(g, (m + n) % q)
  BY <1>2, <1>4
<1> QED
  BY <1>5 DEF Pow, M, N

LEMMA PowExp ==
    ASSUME NEW m \in Int, NEW n \in Int
    PROVE  Exp(Pow(m), n % q) = Pow(m * n)
<1> DEFINE M == m % q
           N == n % q
<1>0. M \in Zq /\ N \in Zq
  BY DivMod DEF Zq
<1>1. M \in Zq /\ N \in Zq /\ N \in Int /\ M \in Int
  <2> HIDE DEF M, N
  <2> QED
    BY <1>0, ZqExps
<1>2. (M * N) % q = (m * N) % q
  BY <1>1, ProductMod
<1>3. (N * m) % q = (n * m) % q
  BY ProductMod
<1> HIDE DEF M, N
<1>4. N * m = m * N /\ n * m = m * n
  BY <1>1
<1>5. g \in G /\ Exp(Exp(g, M), N) = Exp(g, M * N)
  BY <1>1, DlogAssumption DEF GroupLaws
<1>6. M * N \in Exps
  BY <1>1, ProductExp
<1>7. Exp(g, (M * N) % q) = Exp(g, M * N)
  BY <1>5, <1>6, DlogAssumption DEF GroupLaws
<1>8. Exp(Exp(g, M), N) = Exp(g, (m * n) % q)
  BY <1>2, <1>3, <1>4, <1>5, <1>7
<1> QED
  BY <1>8 DEF Pow, M, N

(* A product of two powers, as the sender computes w and the key.          *)
Combine(a, b, u, v) == Mul(Exp(a, u), Exp(b, v))

LEMMA CombinePow ==
    ASSUME NEW a \in Int, NEW b \in Int, NEW u \in Int, NEW v \in Int
    PROVE  Combine(Pow(a), Pow(b), u % q, v % q) = Pow(a * u + b * v)
<1>1. Exp(Pow(a), u % q) = Pow(a * u) /\ Exp(Pow(b), v % q) = Pow(b * v)
  BY PowExp
<1>2. a * u \in Int /\ b * v \in Int
  OBVIOUS
<1> QED
  BY <1>1, <1>2, PowSum DEF Combine

(* Every element is the power by a multiple of K, when K is not 0.         *)
LEMMA Quotient ==
    ASSUME PrimeOrder, Generated, NEW K \in Int, K % q # 0, NEW x \in G, NEW y \in G
    PROVE  \E s \in Int : Mul(y, Pow(K * s)) = x
<1>1. PICK a \in Zq, b \in Zq : x = Exp(g, a) /\ y = Exp(g, b)
  BY DEF Generated
<1>2. a \in Int /\ b \in Int /\ a % q = a /\ b % q = b
  BY <1>1, ZqExps DEF Zq
<1>3. x = Pow(a) /\ y = Pow(b)
  BY <1>1, <1>2 DEF Pow
<1> DEFINE d == K % q
           e == a - b
<1>4. d \in 1 .. q - 1 /\ d \in Int /\ e \in Int
  BY <1>2, DivMod
<1>5. PICK n \in Zq : (d * n) % q = 1
  BY <1>4 DEF PrimeOrder
<1>6. n \in Int
  BY ZqExps DEF Zq
<1> DEFINE s == n * e
<1>7. s \in Int
  BY <1>4, <1>6
<1>8. (K * s) % q = (d * s) % q
  BY <1>7, ProductMod
<1>9. (((d * n) % q) * e) % q = ((d * n) * e) % q
  BY <1>4, <1>6, ProductMod
<1> HIDE DEF d, e
<1>10. d * s = (d * n) * e /\ 1 * e = e
  BY <1>4, <1>6
<1> HIDE DEF s
<1>11. (K * s) % q = e % q
  BY <1>5, <1>8, <1>9, <1>10
<1>12. Mul(Pow(b), Pow(e)) = Pow(b + e)
  BY <1>2, <1>4, PowSum
<1>13. b + e = a
  BY <1>2 DEF e
<1> QED
  BY <1>3, <1>7, <1>11, <1>12, <1>13 DEF Pow

(* The product of two exponents that are not 0 is not.                     *)
LEMMA NoZeroProduct ==
    ASSUME PrimeOrder, NEW a \in Int, NEW b \in Int, a % q # 0, b % q # 0
    PROVE  (a * b) % q # 0
<1> SUFFICES ASSUME (a * b) % q = 0 PROVE FALSE
  OBVIOUS
<1> DEFINE d == a % q
<1>1. q \in Nat /\ q > 1
  BY ZqExps
<1>2. d \in 1 .. q - 1 /\ d \in Int
  BY DivMod
<1>3. PICK n \in Zq : (d * n) % q = 1
  BY <1>2 DEF PrimeOrder
<1>4. n \in Int
  BY ZqExps DEF Zq
<1>5. (d * b) % q = 0
  BY ProductMod
<1>6. (((d * n) % q) * b) % q = ((d * n) * b) % q
  BY <1>2, <1>4, ProductMod
<1>7. (((d * b) % q) * n) % q = ((d * b) * n) % q
  BY <1>2, <1>4, ProductMod
<1> HIDE DEF d
<1>8. (d * n) * b = (d * b) * n /\ 1 * b = b /\ 0 * n = 0 /\ 0 % q = 0
  BY <1>1, <1>2, <1>4
<1> QED
  BY <1>3, <1>5, <1>6, <1>7, <1>8

(* Moving the random values along (f, h).                                  *)
Shifted(a, b, f, h, u, v, s, U, V, D) ==
    /\ a \in Int /\ b \in Int /\ f \in Int /\ h \in Int
    /\ u \in Int /\ v \in Int /\ s \in Int
    /\ U = u + f * s /\ V = v + h * s /\ D = (a * f + b * h) * s

LEMMA CombineShift ==
    ASSUME NEW a, NEW b, NEW f, NEW h, NEW u, NEW v, NEW s, NEW U, NEW V, NEW D,
           Shifted(a, b, f, h, u, v, s, U, V, D)
    PROVE  Combine(Pow(a), Pow(b), U % q, V % q)
             = Mul(Combine(Pow(a), Pow(b), u % q, v % q), Pow(D))
<1> DEFINE X == a * u + b * v
<1>0. /\ a \in Int /\ b \in Int /\ u \in Int /\ v \in Int
  BY DEF Shifted
<1>1. U \in Int /\ V \in Int /\ X \in Int /\ D \in Int
  BY DEF Shifted
<1>2. a * U + b * V = X + D
  BY DEF Shifted
<1>3. Combine(Pow(a), Pow(b), u % q, v % q) = Pow(X)
  BY <1>0, CombinePow
<1> HIDE DEF X
<1>4. Combine(Pow(a), Pow(b), U % q, V % q) = Pow(a * U + b * V)
  BY <1>0, <1>1, CombinePow
<1>5. Mul(Pow(X), Pow(D)) = Pow(X + D)
  BY <1>1, PowSum
<1> QED
  BY <1>2, <1>3, <1>4, <1>5

(* Along (f, h) the exponent of w stands still, and that of the key moves  *)
(* by K.                                                                   *)
Movable(a, b, c, d, f, h, K) ==
    /\ a \in Int /\ b \in Int /\ c \in Int /\ d \in Int /\ f \in Int /\ h \in Int
    /\ a * f + b * h = 0
    /\ K = c * f + d * h /\ K % q # 0

(* With other random values the sender computes the same w from a and b,   *)
(* and from c and d a key that masks the input y as the first masked x.    *)
Reblinds(a, b, c, d, u, v, x, y) ==
    \E u2, v2 \in Zq :
        /\ Combine(a, b, u2, v2) = Combine(a, b, u, v)
        /\ Mul(y, Combine(c, d, u2, v2)) = Mul(x, Combine(c, d, u, v))

LEMMA Reblind ==
    ASSUME PrimeOrder, Generated,
           NEW a, NEW b, NEW c, NEW d, NEW f, NEW h, NEW K, Movable(a, b, c, d, f, h, K),
           NEW u \in Zq, NEW v \in Zq, NEW x \in G, NEW y \in G
    PROVE  Reblinds(Pow(a), Pow(b), Pow(c), Pow(d), u, v, x, y)
<1>0. u \in Int /\ v \in Int /\ u % q = u /\ v % q = v
  BY ZqExps DEF Zq
<1>1. /\ K \in Int /\ K % q # 0 /\ f \in Int /\ h \in Int
      /\ a \in Int /\ b \in Int /\ c \in Int /\ d \in Int
  BY DEF Movable
<1>2. PICK s \in Int : Mul(y, Pow(K * s)) = x
  BY <1>1, Quotient
<1> DEFINE U == u + f * s
           V == v + h * s
           W == Combine(Pow(a), Pow(b), u, v)
           Z == Combine(Pow(c), Pow(d), u, v)
           D == K * s
<1>3. U % q \in Zq /\ V % q \in Zq
  <2>1. U \in Int /\ V \in Int
    BY <1>0, <1>1
  <2> QED
    BY <2>1, DivMod DEF Zq
<1>4. W \in G /\ Z \in G
  <2>1. \A n \in Int : Pow(n) \in G
    BY PowSum
  <2>2. \A e \in G, n \in Zq : Exp(e, n) \in G
    BY PowerFacts
  <2> QED
    BY <1>1, <2>1, <2>2, DlogAssumption DEF Combine, GroupLaws
<1>s. Shifted(a, b, f, h, u, v, s, U, V, 0) /\ Shifted(c, d, f, h, u, v, s, U, V, D)
  BY <1>0, <1>1 DEF Shifted, Movable
<1>d. D \in Int /\ Mul(y, Pow(D)) = x
  BY <1>1, <1>2
<1> HIDE DEF U, V, D
<1>5. Combine(Pow(a), Pow(b), U % q, V % q) = Mul(W, Pow(0))
  BY <1>0, <1>s, CombineShift
<1>6. Combine(Pow(c), Pow(d), U % q, V % q) = Mul(Z, Pow(D))
  BY <1>0, <1>s, CombineShift
<1> HIDE DEF W, Z
<1>7. Mul(W, Pow(0)) = W
  <2>1. Pow(0) = Exp(g, 0) /\ g \in G
    BY ZqExps, DlogAssumption DEF Pow, GroupLaws
  <2> QED
    BY <1>4, <2>1, DlogAssumption DEF GroupLaws
<1>8. Mul(y, Mul(Z, Pow(D))) = Mul(x, Z)
  <2>1. Pow(D) \in G
    BY <1>d, PowSum
  <2>2. /\ Mul(Z, Pow(D)) = Mul(Pow(D), Z)
        /\ Mul(y, Mul(Pow(D), Z)) = Mul(Mul(y, Pow(D)), Z)
    BY <1>4, <2>1, DlogAssumption DEF GroupLaws
  <2> QED
    BY <1>d, <2>2
<1>9. /\ Combine(Pow(a), Pow(b), U % q, V % q) = W
      /\ Mul(y, Combine(Pow(c), Pow(d), U % q, V % q)) = Mul(x, Z)
  BY <1>5, <1>6, <1>7, <1>8
<1> QED
  BY <1>3, <1>9 DEF W, Z, Reblinds
=============================================================================
