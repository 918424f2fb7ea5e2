------------------------------ MODULE OTProofs ------------------------------
(***************************************************************************)
(* What an oblivious transfer gives the receiver, what it tells the sender *)
(* of the choice, and what it tells the receiver of the other input, for   *)
(* every group that satisfies the laws of module Dlog.                     *)
(***************************************************************************)
EXTENDS ObliviousTransfer, DlogProofs, TLAPS

Quads == G \X G \X G \X G

(* The key of sigma is the power of w that the receiver can compute.       *)
KeyOpens(m, s, x) ==
    /\ m.w[s + 1] \in G
    /\ m.k[s + 1] = Exp(m.w[s + 1], x)

(* A power of a product of two powers.                                     *)
LEMMA PowerOfProduct ==
    ASSUME NEW a \in G, NEW b \in G, NEW m \in Zq, NEW n \in Zq, NEW x \in Zq
    PROVE  /\ Mul(Exp(a, m), Exp(b, n)) \in G
           /\ Exp(Mul(Exp(a, m), Exp(b, n)), x)
                = Mul(Exp(Exp(a, x), m), Exp(Exp(b, x), n))
<1>1. Exp(a, m) \in G /\ Exp(b, n) \in G
  BY PowerFacts
<1>2. Exp(Exp(a, m), x) = Exp(Exp(a, x), m) /\ Exp(Exp(b, n), x) = Exp(Exp(b, x), n)
  BY PowerFacts
<1>3. x \in Exps
  BY ZqExps
<1>4. Exp(Mul(Exp(a, m), Exp(b, n)), x) = Mul(Exp(Exp(a, m), x), Exp(Exp(b, n), x))
  BY <1>1, <1>3, DlogAssumption DEF GroupLaws
<1>5. Mul(Exp(a, m), Exp(b, n)) \in G
  BY <1>1, DlogAssumption DEF GroupLaws
<1> QED
  BY <1>2, <1>4, <1>5

(* The generator and its powers are elements, also with the product of two *)
(* exponents, which is the power of a power.                               *)
LEMMA GeneratorPowers ==
    ASSUME NEW m \in Zq, NEW n \in Zq
    PROVE  /\ g \in G /\ Exp(g, m) \in G
           /\ Exp(g, m * n) = Exp(Exp(g, m), n)
<1>1. g \in G
  BY DlogAssumption DEF GroupLaws
<1>2. Exp(g, m) \in G
  BY <1>1, PowerFacts
<1>3. Exp(Exp(g, m), n) = Exp(g, m * n)
  BY <1>1, DlogAssumption DEF GroupLaws
<1> QED
  BY <1>1, <1>2, <1>3

(* The key of sigma in SemiHonest.                                         *)
LEMMA SemiHonestKey ==
    ASSUME NEW s \in {0, 1}, NEW alpha \in Zq, NEW h, NEW r \in Zq
    PROVE  KeyOpens(SemiHonestMasks(SemiHonestTuple(s, alpha, h).tuple, r), s, alpha)
<1>1. g \in G /\ Exp(g, r) \in G
  BY GeneratorPowers
<1>2. Exp(Exp(g, alpha), r) = Exp(Exp(g, r), alpha)
  BY <1>1, PowerFacts
<1>3. CASE s = 0
  BY <1>1, <1>2, <1>3 DEF KeyOpens, SemiHonestMasks, SemiHonestTuple, Masks, Ask, Swap
<1>4. CASE s = 1
  BY <1>1, <1>2, <1>4 DEF KeyOpens, SemiHonestMasks, SemiHonestTuple, Masks, Ask, Swap
<1> QED
  BY <1>3, <1>4

(* The key of sigma in PrivacyOnly and OneSided.                           *)
LEMMA QuadKey ==
    ASSUME NEW s \in {0, 1}, NEW alpha \in Zq, NEW beta \in Zq, NEW gamma \in Zq,
           NEW n \in [1 .. 4 -> Zq]
    PROVE  KeyOpens(QuadMasks(QuadTuple(s, alpha, beta, gamma).tuple, n), s, beta)
<1> DEFINE x == Exp(g, alpha)
<1> DEFINE y == Exp(g, beta)
<1> DEFINE z == Exp(g, alpha * beta)
<1> DEFINE t == QuadTuple(s, alpha, beta, gamma).tuple
<1>1. g \in G /\ x \in G /\ z = Exp(x, beta)
  BY GeneratorPowers
<1>2. \A u, v \in Zq : /\ Mul(Exp(x, u), Exp(g, v)) \in G
                       /\ Mul(Exp(z, u), Exp(y, v)) = Exp(Mul(Exp(x, u), Exp(g, v)), beta)
  BY <1>1, PowerOfProduct
<1>3. n[1] \in Zq /\ n[2] \in Zq /\ n[3] \in Zq /\ n[4] \in Zq
  OBVIOUS
<1>4. CASE s = 0
  <2>1. t = <<x, y, z, Exp(g, gamma)>>
    BY <1>4 DEF QuadTuple, Ask, Swap
  <2>2. /\ QuadMasks(t, n).w[1] = Mul(Exp(x, n[1]), Exp(g, n[3]))
        /\ QuadMasks(t, n).k[1] = Mul(Exp(z, n[1]), Exp(y, n[3]))
    BY <2>1 DEF QuadMasks, Masks
  <2> QED
    BY <1>2, <1>3, <1>4, <2>2 DEF KeyOpens
<1>5. CASE s = 1
  <2>1. t = <<x, y, Exp(g, gamma), z>>
    BY <1>5 DEF QuadTuple, Ask, Swap
  <2>2. /\ QuadMasks(t, n).w[2] = Mul(Exp(x, n[2]), Exp(g, n[4]))
        /\ QuadMasks(t, n).k[2] = Mul(Exp(z, n[2]), Exp(y, n[4]))
    BY <2>1 DEF QuadMasks, Masks
  <2> QED
    BY <1>2, <1>3, <1>5, <2>2 DEF KeyOpens
<1> QED
  BY <1>4, <1>5

(* The two values of RAND, when x and z are powers of w and y.             *)
LEMMA RandKey ==
    ASSUME NEW a \in G, NEW b \in G, NEW m \in Zq, NEW n \in Zq, NEW r \in Zq
    PROVE  /\ RandU(a, b, m, n) \in G
           /\ RandV(Exp(a, r), Exp(b, r), m, n) = Exp(RandU(a, b, m, n), r)
BY PowerOfProduct DEF RandU, RandV

(* The key of sigma in the full simulation family, whatever the four       *)
(* elements of the preprocess phase.                                       *)
LEMMA FullSimKey ==
    ASSUME NEW s \in {0, 1}, NEW r \in Zq, NEW pre \in Quads, NEW n \in [1 .. 4 -> Zq]
    PROVE  KeyOpens(FullSimMasks(pre, computeSecondTuple(s, r, pre).tuple, n), s, r)
<1> DEFINE t == computeSecondTuple(s, r, pre).tuple
<1> DEFINE m == FullSimMasks(pre, t, n)
<1>1. pre[1] \in G /\ pre[2] \in G /\ pre[3] \in G /\ pre[4] \in G
  BY DEF Quads
<1>2. n[1] \in Zq /\ n[2] \in Zq /\ n[3] \in Zq /\ n[4] \in Zq
  OBVIOUS
<1>3. t = <<Exp(pre[s + 1], r), Exp(pre[s + 3], r)>>
  BY DEF computeSecondTuple, Ask
<1>4. CASE s = 0
  <2>1. /\ m.w[1] = RandU(pre[1], pre[3], n[1], n[2])
        /\ m.k[1] = RandV(Exp(pre[1], r), Exp(pre[3], r), n[1], n[2])
    BY <1>3, <1>4 DEF FullSimMasks, Masks
  <2>2. PICK a \in G, b \in G, u \in Zq, v \in Zq :
            a = pre[1] /\ b = pre[3] /\ u = n[1] /\ v = n[2]
    BY <1>1, <1>2
  <2>3. RandU(a, b, u, v) \in G /\ RandV(Exp(a, r), Exp(b, r), u, v) = Exp(RandU(a, b, u, v), r)
    BY RandKey
  <2> QED
    BY <1>4, <2>1, <2>2, <2>3 DEF KeyOpens
<1>5. CASE s = 1
  <2>1. /\ m.w[2] = RandU(pre[2], pre[4], n[3], n[4])
        /\ m.k[2] = RandV(Exp(pre[2], r), Exp(pre[4], r), n[3], n[4])
    BY <1>3, <1>5 DEF FullSimMasks, Masks
  <2>2. PICK a \in G, b \in G, u \in Zq, v \in Zq :
            a = pre[2] /\ b = pre[4] /\ u = n[3] /\ v = n[4]
    BY <1>1, <1>2
  <2>3. RandU(a, b, u, v) \in G /\ RandV(Exp(a, r), Exp(b, r), u, v) = Exp(RandU(a, b, u, v), r)
    BY RandKey
  <2> QED
    BY <1>5, <2>1, <2>2, <2>3 DEF KeyOpens
<1> QED
  BY <1>4, <1>5

Names == {"SemiHonest", "PrivacyOnly", "OneSided", "FullSim", "FullSimROM", "UC"}

UsesSetup(p) == p \in {"FullSim", "FullSimROM", "UC"}

(* The tuple t is what a receiver with this choice and this exponent asks. *)
AskFits(p, s, x, pre, t) ==
    /\ s \in {0, 1}
    /\ UsesSetup(p) => pre \in Quads
    /\ \E ask \in AsksOf(p, s, pre) : ask.tuple = t /\ ask.secret = x

(* In every protocol, whatever the random values of both, the receiver can *)
(* compute the key of the input it chose.                                  *)
LEMMA KeyOfAsk ==
    ASSUME NEW p \in Names, NEW s, NEW x, NEW pre, NEW t, AskFits(p, s, x, pre, t),
           NEW m \in MasksOf(p, pre, t)
    PROVE  KeyOpens(m, s, x) /\ x \in Zq /\ s \in {0, 1}
<1>1. s \in {0, 1}
  BY DEF AskFits
<1>2. PICK ask \in AsksOf(p, s, pre) : ask.tuple = t /\ ask.secret = x
  BY DEF AskFits
<1>3. CASE p = "SemiHonest"
  <2>1. PICK alpha \in Zq, h \in RandomElements : ask = SemiHonestTuple(s, alpha, h)
    BY <1>2, <1>3 DEF AsksOf
  <2>2. PICK r \in Zq : m = SemiHonestMasks(t, r)
    BY <1>3 DEF MasksOf
  <2>3. x = alpha
    BY <1>2, <2>1 DEF SemiHonestTuple, Ask
  <2>4. t = SemiHonestTuple(s, alpha, h).tuple
    BY <1>2, <2>1
  <2> QED
    BY <1>1, <2>2, <2>3, <2>4, SemiHonestKey
<1>4. CASE p \in {"PrivacyOnly", "OneSided"}
  <2>1. PICK alpha \in Zq, beta \in Zq, gamma \in Zq : ask = QuadTuple(s, alpha, beta, gamma)
    BY <1>2, <1>4 DEF AsksOf
  <2>2. PICK n \in [1 .. 4 -> Zq] : m = QuadMasks(t, n)
    BY <1>4 DEF MasksOf
  <2>3. x = beta
    BY <1>2, <2>1 DEF QuadTuple, Ask
  <2>4. t = QuadTuple(s, alpha, beta, gamma).tuple
    BY <1>2, <2>1
  <2> QED
    BY <1>1, <2>2, <2>3, <2>4, QuadKey
<1>5. CASE UsesSetup(p)
  <2>0. pre \in Quads /\ p \notin {"SemiHonest", "PrivacyOnly", "OneSided"}
    BY <1>5 DEF AskFits, UsesSetup
  <2>1. PICK r \in Zq : ask = computeSecondTuple(s, r, pre)
    BY <1>2, <2>0 DEF AsksOf
  <2>2. PICK n \in [1 .. 4 -> Zq] : m = FullSimMasks(pre, t, n)
    BY <2>0 DEF MasksOf
  <2>3. x = r
    BY <1>2, <2>1 DEF computeSecondTuple, Ask
  <2>4. t = computeSecondTuple(s, r, pre).tuple
    BY <1>2, <2>1
  <2> QED
    BY <1>1, <2>0, <2>2, <2>3, <2>4, FullSimKey
<1> QED
  BY <1>3, <1>4, <1>5 DEF Names, UsesSetup

(* With that key the receiver takes the mask off the element it chose.     *)
LEMMA ElementOpens ==
    ASSUME NEW s \in {0, 1}, NEW x \in Zq, NEW m, KeyOpens(m, s, x), NEW pair \in G \X G
    PROVE  OpenElement(ElementTuple(pair, m), s, x) = pair[s + 1]
<1> DEFINE w == m.w[s + 1]
<1>1. pair[1] \in G /\ pair[2] \in G
  OBVIOUS
<1>2. PICK b \in G : b = pair[s + 1]
  BY <1>1
<1>3. ElementTuple(pair, m).c[s + 1] = Mul(b, m.k[s + 1]) /\ ElementTuple(pair, m).w[s + 1] = w
  <2>1. CASE s = 0
    BY <1>2, <2>1 DEF ElementTuple
  <2>2. CASE s = 1
    BY <1>2, <2>2 DEF ElementTuple
  <2> QED
    BY <2>1, <2>2
<1>4. w \in G /\ m.k[s + 1] = Exp(w, x)
  BY DEF KeyOpens
<1>5. Mul(Mul(b, Exp(w, x)), Exp(w, q - x)) = b
  BY <1>4, Unblind
<1> QED
  BY <1>2, <1>3, <1>4, <1>5 DEF OpenElement

(* The tuples of the preprocess phase are made of elements.                *)
LEMMA SetupElements == Setups \subseteq Quads
<1>1. SUFFICES ASSUME NEW y \in Zq, NEW alpha \in Zq
               PROVE  SetupTuple(y, alpha) \in Quads
  BY DEF Setups
<1>2. g \in G /\ Exp(g, y) \in G /\ Exp(g, alpha) \in G
  BY GeneratorPowers
<1>3. 1 \in Zq
  BY ZqExps DEF Zq
<1>4. alpha + 1 \in Exps
  BY <1>3, ZqExps
<1>5. Exp(Exp(g, y), alpha + 1) \in G
  BY <1>2, <1>4, DlogAssumption DEF GroupLaws
<1> QED
  BY <1>2, <1>5 DEF SetupTuple, Quads

(* What SemiHonest asks with one choice it could ask with the other.       *)
LEMMA OtherChoice ==
    ASSUME NEW s, NEW x, NEW pre, NEW t, AskFits("SemiHonest", s, x, pre, t), x # 0
    PROVE  \E ask \in AsksOf("SemiHonest", 1 - s, pre) : ask.tuple = t
<1>1. s \in {0, 1}
  BY DEF AskFits
<1>2. PICK alpha \in Zq, h \in RandomElements :
          SemiHonestTuple(s, alpha, h).tuple = t /\ SemiHonestTuple(s, alpha, h).secret = x
  BY DEF AskFits, AsksOf
<1>3. alpha = x
  BY <1>2 DEF SemiHonestTuple, Ask
<1>4. PICK n \in 1 .. q - 1 : h = Exp(g, n)
  BY DEF RandomElements
<1>5. n \in Zq
  BY ZqExps DEF Zq
<1>6. alpha \in 1 .. q - 1
  BY <1>3, ZqExps DEF Zq
<1>7. Exp(g, alpha) \in RandomElements
  BY <1>6 DEF RandomElements
<1>8. SemiHonestTuple(1 - s, n, Exp(g, alpha)) \in AsksOf("SemiHonest", 1 - s, pre)
  BY <1>5, <1>7 DEF AsksOf
<1>9. SemiHonestTuple(1 - s, n, Exp(g, alpha)).tuple = t
  <2>1. CASE s = 0
    BY <1>2, <1>4, <2>1 DEF SemiHonestTuple, Ask, Swap
  <2>2. CASE s = 1
    BY <1>2, <1>4, <2>2 DEF SemiHonestTuple, Ask, Swap
  <2> QED
    BY <1>1, <2>1, <2>2
<1> QED
  BY <1>8, <1>9

(* An answer can be that of another pair, which differs from the first in  *)
(* the input of the place j.                                               *)
Explains(p, pre, t, pair, m, j, y) ==
    \E m2 \in MasksOf(p, pre, t) :
        ElementTuple(pair, m) = ElementTuple([pair EXCEPT ![j + 1] = y], m2)

(* Exponents below q are their own remainders.                             *)
LEMMA PowZq ==
    ASSUME NEW m \in Zq, NEW n \in Zq
    PROVE  /\ Exp(g, m) = Pow(m) /\ m \in Int /\ m * n \in Int
           /\ Exp(g, m * n) = Pow(m * n)
           /\ Exp(Pow(m), n) = Pow(m * n)
<1>1. q \in Nat /\ q > 1 /\ m \in Int /\ n \in Int /\ m % q = m /\ n % q = n
  BY ZqExps DEF Zq
<1>2. m * n \in Exps
  BY ProductExp
<1>3. Exp(g, (m * n) % q) = Exp(g, m * n)
  BY <1>2, DlogAssumption DEF GroupLaws
<1>4. Exp(Pow(m), n % q) = Pow(m * n)
  BY <1>1, PowExp
<1> QED
  BY <1>1, <1>3, <1>4 DEF Pow

(* PrivacyOnly and OneSided: the two random values of the place that was   *)
(* not chosen, whose z is not the product.                                 *)
LEMMA QuadReblind ==
    ASSUME PrimeOrder, Generated, NEW alpha \in Zq, NEW beta \in Zq, NEW gamma \in Zq,
           Exp(g, gamma) # Exp(g, alpha * beta),
           NEW u \in Zq, NEW v \in Zq, NEW x \in G, NEW y \in G
    PROVE  Reblinds(Exp(g, alpha), g, Exp(g, gamma), Exp(g, beta), u, v, x, y)
<1>1. /\ Exp(g, alpha) = Pow(alpha) /\ Exp(g, beta) = Pow(beta) /\ Exp(g, gamma) = Pow(gamma)
      /\ Exp(g, alpha * beta) = Pow(alpha * beta)
      /\ alpha \in Int /\ beta \in Int /\ gamma \in Int /\ alpha * beta \in Int
  BY PowZq
<1>2. g = Pow(1)
  <2>1. 1 \in Zq
    BY ZqExps DEF Zq
  <2>2. Exp(g, 1) = g
    BY DlogAssumption DEF GroupLaws
  <2> QED
    BY <2>1, <2>2, PowZq
<1> DEFINE K == gamma - alpha * beta
<1>3. K % q # 0
  <2> SUFFICES ASSUME K % q = 0 PROVE FALSE
    OBVIOUS
  <2>1. gamma % q = (alpha * beta) % q
    BY <1>1, DifferenceMod
  <2> QED
    BY <1>1, <2>1 DEF Pow
<1>4. K = gamma * 1 + beta * (-alpha) /\ alpha * 1 + 1 * (-alpha) = 0 /\ -alpha \in Int
  BY <1>1
<1> HIDE DEF K
<1>5. Reblinds(Pow(alpha), Pow(1), Pow(gamma), Pow(beta), u, v, x, y)
  <2> DEFINE a == -alpha
  <2>1. a \in Int /\ K = gamma * 1 + beta * a /\ alpha * 1 + 1 * a = 0 /\ 1 \in Int
    BY <1>4
  <2> HIDE DEF a
  <2>2. Movable(alpha, 1, gamma, beta, 1, a, K)
    BY <1>1, <1>3, <2>1 DEF Movable
  <2> QED
    BY <2>2, Reblind
<1> QED
  BY <1>1, <1>2, <1>5

(* The full simulation family: g_j = p, h_j = p * b in the place that was  *)
(* not chosen, and the request is made from x and x * a with r.            *)
LEMMA RandMovable ==
    ASSUME PrimeOrder, NEW p \in Zq, NEW x \in Zq, NEW a \in Zq, NEW b \in Zq,
           a # b, NEW r \in Zq, (x * r) % q # 0
    PROVE  \E f, K : Movable(p, p * b, x * r, (x * a) * r, f, 1, K)
<1>1. q \in Nat /\ p \in Int /\ x \in Int /\ a \in Int /\ b \in Int /\ r \in Int
  BY PowZq, ZqExps
<1> DEFINE e == a - b
           f == -b
           c == x * r
           d == (x * a) * r
           pb == p * b
           K == c * e
<1>2. e \in Int /\ f \in Int /\ c \in Int /\ d \in Int /\ pb \in Int
  BY <1>1
<1>3. e % q # 0
  <2>1. e # 0 /\ -q < e /\ e < q
    BY <1>1 DEF Zq
  <2>2. e % q \in 1 .. q - 1
    BY <1>2, <2>1, Apart
  <2> QED
    BY <2>2
<1>4. K = c * f + d * 1
  BY <1>1
<1>5. p * f + pb * 1 = 0
  BY <1>1
<1>6. c % q # 0
  OBVIOUS
<1> HIDE DEF e, f, c, d, pb
<1>7. K % q # 0
  BY <1>2, <1>3, <1>6, NoZeroProduct
<1> HIDE DEF K
<1>8. Movable(p, pb, c, d, f, 1, K)
  BY <1>1, <1>2, <1>4, <1>5, <1>7 DEF Movable
<1> QED
  BY <1>8 DEF c, d, pb

LEMMA RandReblind ==
    ASSUME PrimeOrder, Generated, NEW p \in Zq, NEW x \in Zq, NEW a \in Zq, NEW b \in Zq,
           a # b, NEW r \in Zq, (x * r) % q # 0
    PROVE  \A u, v \in Zq, in, y \in G :
              Reblinds(Pow(p), Pow(p * b), Pow(x * r), Pow((x * a) * r), u, v, in, y)
<1>1. PICK f, K : Movable(p, p * b, x * r, (x * a) * r, f, 1, K)
  BY RandMovable
<1> QED
  BY <1>1, Reblind

LEMMA QuadExplains ==
    ASSUME PrimeOrder, Generated, NEW p \in {"PrivacyOnly", "OneSided"}, NEW pre,
           NEW s \in {0, 1}, NEW alpha \in Zq, NEW beta \in Zq, NEW gamma \in Zq,
           NEW t, t = QuadTuple(s, alpha, beta, gamma).tuple, t[3] # t[4],
           NEW m \in MasksOf(p, pre, t), NEW pair \in G \X G, NEW y \in G
    PROVE  Explains(p, pre, t, pair, m, 1 - s, y)
<1>1. PICK n \in [1 .. 4 -> Zq] : m = QuadMasks(t, n)
  BY DEF MasksOf
<1>2. n[1] \in Zq /\ n[2] \in Zq /\ n[3] \in Zq /\ n[4] \in Zq
  OBVIOUS
<1>3. pair[1] \in G /\ pair[2] \in G
  OBVIOUS
<1>4. CASE s = 0
  <2>1. t = <<Exp(g, alpha), Exp(g, beta), Exp(g, alpha * beta), Exp(g, gamma)>>
    BY <1>4 DEF QuadTuple, Ask, Swap
  <2>2. Reblinds(Exp(g, alpha), g, Exp(g, gamma), Exp(g, beta), n[2], n[4], pair[2], y)
    <3>1. Exp(g, gamma) # Exp(g, alpha * beta)
      BY <2>1
    <3> QED
      BY <1>2, <1>3, <3>1, QuadReblind
  <2>3. PICK u \in Zq, v \in Zq :
           /\ Combine(t[1], g, u, v) = Combine(t[1], g, n[2], n[4])
           /\ Mul(y, Combine(t[4], t[2], u, v)) = Mul(pair[2], Combine(t[4], t[2], n[2], n[4]))
    BY <2>1, <2>2 DEF Reblinds
  <2> DEFINE n2 == [n EXCEPT ![2] = u, ![4] = v]
             m2 == QuadMasks(t, n2)
  <2>4. n2 \in [1 .. 4 -> Zq] /\ n2[1] = n[1] /\ n2[2] = u /\ n2[3] = n[3] /\ n2[4] = v
    OBVIOUS
  <2>5. m2 \in MasksOf(p, pre, t)
    BY <2>4 DEF MasksOf
  <2>6. /\ m.w = <<Combine(t[1], g, n[1], n[3]), Combine(t[1], g, n[2], n[4])>>
        /\ m.k = <<Combine(t[3], t[2], n[1], n[3]), Combine(t[4], t[2], n[2], n[4])>>
    BY <1>1 DEF QuadMasks, Masks, Combine
  <2> HIDE DEF n2
  <2>7. /\ m2.w = <<Combine(t[1], g, n[1], n[3]), Combine(t[1], g, u, v)>>
        /\ m2.k = <<Combine(t[3], t[2], n[1], n[3]), Combine(t[4], t[2], u, v)>>
    BY <2>4 DEF QuadMasks, Masks, Combine
  <2> HIDE DEF m2
  <2>8. ElementTuple(pair, m) = ElementTuple([pair EXCEPT ![2] = y], m2)
    <3>1. /\ m2.w = m.w /\ m2.k[2 - 1] = m.k[2 - 1]
          /\ Mul(y, m2.k[1 + 1]) = Mul(pair[1 + 1], m.k[1 + 1])
      BY <2>3, <2>6, <2>7
    <3> QED
      BY <3>1 DEF ElementTuple
  <2> QED
    BY <1>4, <2>5, <2>8 DEF Explains
<1>5. CASE s = 1
  <2>1. t = <<Exp(g, alpha), Exp(g, beta), Exp(g, gamma), Exp(g, alpha * beta)>>
    BY <1>5 DEF QuadTuple, Ask, Swap
  <2>2. Reblinds(Exp(g, alpha), g, Exp(g, gamma), Exp(g, beta), n[1], n[3], pair[1], y)
    <3>1. Exp(g, gamma) # Exp(g, alpha * beta)
      BY <2>1
    <3> QED
      BY <1>2, <1>3, <3>1, QuadReblind
  <2>3. PICK u \in Zq, v \in Zq :
           /\ Combine(t[1], g, u, v) = Combine(t[1], g, n[1], n[3])
           /\ Mul(y, Combine(t[3], t[2], u, v)) = Mul(pair[1], Combine(t[3], t[2], n[1], n[3]))
    BY <2>1, <2>2 DEF Reblinds
  <2> DEFINE n2 == [n EXCEPT ![1] = u, ![3] = v]
             m2 == QuadMasks(t, n2)
  <2>4. n2 \in [1 .. 4 -> Zq] /\ n2[1] = u /\ n2[2] = n[2] /\ n2[3] = v /\ n2[4] = n[4]
    OBVIOUS
  <2>5. m2 \in MasksOf(p, pre, t)
    BY <2>4 DEF MasksOf
  <2>6. /\ m.w = <<Combine(t[1], g, n[1], n[3]), Combine(t[1], g, n[2], n[4])>>
        /\ m.k = <<Combine(t[3], t[2], n[1], n[3]), Combine(t[4], t[2], n[2], n[4])>>
    BY <1>1 DEF QuadMasks, Masks, Combine
  <2> HIDE DEF n2
  <2>7. /\ m2.w = <<Combine(t[1], g, u, v), Combine(t[1], g, n[2], n[4])>>
        /\ m2.k = <<Combine(t[3], t[2], u, v), Combine(t[4], t[2], n[2], n[4])>>
    BY <2>4 DEF QuadMasks, Masks, Combine
  <2> HIDE DEF m2
  <2>8. ElementTuple(pair, m) = ElementTuple([pair EXCEPT ![1] = y], m2)
    <3>1. /\ m2.w = m.w /\ m2.k[2] = m.k[2] /\ Mul(y, m2.k[1]) = Mul(pair[1], m.k[1])
      BY <2>3, <2>6, <2>7
    <3> QED
      BY <3>1 DEF ElementTuple
  <2> QED
    BY <1>5, <2>5, <2>8 DEF Explains
<1> QED
  BY <1>4, <1>5

(* A request of the full simulation family, as powers of the generator.    *)
LEMMA RequestPowers ==
    ASSUME NEW x \in Zq, NEW a \in Zq, NEW r \in Zq
    PROVE  /\ Exp(Exp(g, x), r) = Pow(x * r)
           /\ Exp(Exp(Exp(g, x), a), r) = Pow((x * a) * r)
           /\ Exp(Exp(g, x), a) = Pow(x * a)
           /\ (x * r) % q = 0 => Pow(x * r) = Exp(g, 0) /\ Pow((x * a) * r) = Exp(g, 0)
<1>1. /\ Exp(g, x) = Pow(x) /\ Exp(Pow(x), r) = Pow(x * r) /\ Exp(Pow(x), a) = Pow(x * a)
      /\ x * a \in Int /\ x * r \in Int /\ r \in Int /\ x \in Int /\ a \in Int
  BY PowZq
<1>2. Exp(Pow(x * a), r) = Pow((x * a) * r)
  <2>1. r % q = r
    BY ZqExps DEF Zq
  <2>2. Exp(Pow(x * a), r % q) = Pow((x * a) * r)
    BY <1>1, PowExp
  <2> QED
    BY <2>1, <2>2
<1>3. ASSUME (x * r) % q = 0
      PROVE  Pow(x * r) = Exp(g, 0) /\ Pow((x * a) * r) = Exp(g, 0)
  <2>1. (((x * r) % q) * a) % q = ((x * r) * a) % q
    BY <1>1, ProductMod
  <2>2. (x * r) * a = (x * a) * r /\ 0 * a = 0 /\ 0 % q = 0
    BY <1>1, ZqExps
  <2> QED
    BY <1>3, <2>1, <2>2 DEF Pow
<1> QED
  BY <1>1, <1>2, <1>3

LEMMA FullSimExplains ==
    ASSUME PrimeOrder, Generated, NEW p, p \notin {"SemiHonest", "PrivacyOnly", "OneSided"},
           NEW pre, Crossed(pre), NEW s \in {0, 1}, NEW r \in Zq,
           NEW t, t = computeSecondTuple(s, r, pre).tuple, t # <<Exp(g, 0), Exp(g, 0)>>,
           NEW m \in MasksOf(p, pre, t), NEW pair \in G \X G, NEW y \in G
    PROVE  Explains(p, pre, t, pair, m, 1 - s, y)
<1>0. PICK c \in Zq, d \in Zq, a \in Zq, b \in Zq :
         a # b /\ pre = <<Exp(g, c), Exp(g, d), Exp(Exp(g, c), a), Exp(Exp(g, d), b)>>
  BY DEF Crossed
<1>1. PICK n \in [1 .. 4 -> Zq] : m = FullSimMasks(pre, t, n)
  BY DEF MasksOf
<1>2. n[1] \in Zq /\ n[2] \in Zq /\ n[3] \in Zq /\ n[4] \in Zq
  OBVIOUS
<1>3. pair[1] \in G /\ pair[2] \in G
  OBVIOUS
<1>4. t = <<Exp(pre[s + 1], r), Exp(pre[s + 3], r)>>
  BY DEF computeSecondTuple, Ask
<1>5. pre[1] = Pow(c) /\ pre[2] = Pow(d) /\ pre[3] = Pow(c * a) /\ pre[4] = Pow(d * b)
  BY <1>0, PowZq, RequestPowers
<1>m. /\ m.w = <<Combine(pre[1], pre[3], n[1], n[2]), Combine(pre[2], pre[4], n[3], n[4])>>
      /\ m.k = <<Combine(t[1], t[2], n[1], n[2]), Combine(t[1], t[2], n[3], n[4])>>
  BY <1>1 DEF FullSimMasks, Masks, RandU, RandV, Combine
<1>6. CASE s = 0
  <2>1. t = <<Pow(c * r), Pow((c * a) * r)>>
    BY <1>0, <1>4, <1>6, RequestPowers
  <2>2. Reblinds(pre[2], pre[4], t[1], t[2], n[3], n[4], pair[2], y)
    <3>1. (c * r) % q # 0
      BY <2>1, RequestPowers
    <3>2. Reblinds(Pow(d), Pow(d * b), Pow(c * r), Pow((c * a) * r), n[3], n[4], pair[2], y)
      BY <1>0, <1>2, <1>3, <3>1, RandReblind
    <3> QED
      BY <1>5, <2>1, <3>2
  <2>3. PICK u \in Zq, v \in Zq :
           /\ Combine(pre[2], pre[4], u, v) = Combine(pre[2], pre[4], n[3], n[4])
           /\ Mul(y, Combine(t[1], t[2], u, v)) = Mul(pair[2], Combine(t[1], t[2], n[3], n[4]))
    BY <2>2 DEF Reblinds
  <2> DEFINE n2 == [n EXCEPT ![3] = u, ![4] = v]
             m2 == FullSimMasks(pre, t, n2)
  <2>4. n2 \in [1 .. 4 -> Zq] /\ n2[1] = n[1] /\ n2[2] = n[2] /\ n2[3] = u /\ n2[4] = v
    OBVIOUS
  <2>5. m2 \in MasksOf(p, pre, t)
    BY <2>4 DEF MasksOf
  <2> HIDE DEF n2
  <2>6. /\ m2.w = <<Combine(pre[1], pre[3], n[1], n[2]), Combine(pre[2], pre[4], u, v)>>
        /\ m2.k = <<Combine(t[1], t[2], n[1], n[2]), Combine(t[1], t[2], u, v)>>
    BY <2>4 DEF FullSimMasks, Masks, RandU, RandV, Combine
  <2> HIDE DEF m2
  <2>7. m2.w = m.w /\ m2.k[1] = m.k[1] /\ Mul(y, m2.k[2]) = Mul(pair[2], m.k[2])
    BY <1>m, <2>3, <2>6
  <2>8. ElementTuple(pair, m) = ElementTuple([pair EXCEPT ![2] = y], m2)
    BY <2>7 DEF ElementTuple
  <2> QED
    BY <1>6, <2>5, <2>8 DEF Explains
<1>7. CASE s = 1
  <2>1. t = <<Pow(d * r), Pow((d * b) * r)>>
    BY <1>0, <1>4, <1>7, RequestPowers
  <2>2. Reblinds(pre[1], pre[3], t[1], t[2], n[1], n[2], pair[1], y)
    <3>1. (d * r) % q # 0
      BY <2>1, RequestPowers
    <3>2. Reblinds(Pow(c), Pow(c * a), Pow(d * r), Pow((d * b) * r), n[1], n[2], pair[1], y)
      BY <1>0, <1>2, <1>3, <3>1, RandReblind
    <3> QED
      BY <1>5, <2>1, <3>2
  <2>3. PICK u \in Zq, v \in Zq :
           /\ Combine(pre[1], pre[3], u, v) = Combine(pre[1], pre[3], n[1], n[2])
           /\ Mul(y, Combine(t[1], t[2], u, v)) = Mul(pair[1], Combine(t[1], t[2], n[1], n[2]))
    BY <2>2 DEF Reblinds
  <2> DEFINE n2 == [n EXCEPT ![1] = u, ![2] = v]
             m2 == FullSimMasks(pre, t, n2)
  <2>4. n2 \in [1 .. 4 -> Zq] /\ n2[1] = u /\ n2[2] = v /\ n2[3] = n[3] /\ n2[4] = n[4]
    OBVIOUS
  <2>5. m2 \in MasksOf(p, pre, t)
    BY <2>4 DEF MasksOf
  <2> HIDE DEF n2
  <2>6. /\ m2.w = <<Combine(pre[1], pre[3], u, v), Combine(pre[2], pre[4], n[3], n[4])>>
        /\ m2.k = <<Combine(t[1], t[2], u, v), Combine(t[1], t[2], n[3], n[4])>>
    BY <2>4 DEF FullSimMasks, Masks, RandU, RandV, Combine
  <2> HIDE DEF m2
  <2>7. m2.w = m.w /\ m2.k[2] = m.k[2] /\ Mul(y, m2.k[1]) = Mul(pair[1], m.k[1])
    BY <1>m, <2>3, <2>6
  <2>8. ElementTuple(pair, m) = ElementTuple([pair EXCEPT ![1] = y], m2)
    BY <2>7 DEF ElementTuple
  <2> QED
    BY <1>7, <2>5, <2>8 DEF Explains
<1> QED
  BY <1>6, <1>7

(* The preprocess phase makes no Diffie-Hellman tuple.                     *)
LEMMA SetupCrossed == \A setup \in Setups : Crossed(setup)
<1> SUFFICES ASSUME NEW y \in Zq, NEW alpha \in Zq PROVE Crossed(SetupTuple(y, alpha))
  BY DEF Setups
<1> DEFINE b == (alpha + 1) % q
<1>1. q \in Nat /\ q > 1 /\ 1 \in Zq /\ alpha \in Int /\ 0 <= alpha /\ alpha < q
  BY ZqExps DEF Zq
<1>2. b \in Zq /\ b # alpha
  <2>1. CASE alpha + 1 < q
    <3>1. b = alpha + 1
      BY <1>1, <2>1
    <3> QED
      BY <1>1, <2>1, <3>1 DEF Zq
  <2>2. CASE alpha + 1 = q
    <3>1. b = 0
      BY <1>1, <2>2
    <3> QED
      BY <1>1, <2>2, <3>1 DEF Zq
  <2> QED
    BY <1>1, <2>1, <2>2
<1>3. g \in G /\ Exp(g, y) \in G /\ Exp(g, 1) = g
  BY GeneratorPowers, DlogAssumption DEF GroupLaws
<1>4. alpha + 1 \in Exps
  BY <1>1, ZqExps
<1>5. Exp(Exp(g, y), b) = Exp(Exp(g, y), alpha + 1)
  BY <1>3, <1>4, DlogAssumption DEF GroupLaws
<1> HIDE DEF b
<1>6. SetupTuple(y, alpha) = <<Exp(g, 1), Exp(g, y), Exp(Exp(g, 1), alpha), Exp(Exp(g, y), b)>>
  BY <1>3, <1>5 DEF SetupTuple
<1> QED
  BY <1>1, <1>2, <1>6 DEF Crossed

-----------------------------------------------------------------------------
(* The inductive invariant: where a transfer can be.  Each phase says      *)
(* which messages are under way and that what the sender has, or will      *)
(* read, is what the receiver asked with the sigma and the exponent it     *)
(* still holds.                                                            *)
Fits(t) == AskFits(protocol, sigma, secret, rPre, t)

Settled == sPre = rPre /\ (spc = "verdict" => HasSetup(protocol))

Waiting == rpc \in {"prove", "wait"} /\ (rpc = "prove" => protocol = "OneSided")

PhaseSetup ==
    /\ HasSetup(protocol) /\ rpc = "setup" /\ spc = "setup"
    /\ toS = <<>> /\ toR = <<>>

PhaseProve ==
    /\ protocol = "FullSim" /\ rpc = "prove" /\ toR = <<>>
    /\ \/ spc = "setup" /\ toS = <<rPre>>
       \/ spc = "verify" /\ toS = <<>> /\ sPre = rPre

(* The random oracle variant lets the receiver ask before its proof is     *)
(* read.                                                                   *)
PhaseEarly ==
    /\ protocol = "FullSimROM" /\ toR = <<>>
    /\ \/ rpc = "ready" /\ spc = "setup" /\ toS = <<rPre, "proof">>
       \/ rpc = "ready" /\ spc = "verify" /\ toS = <<"proof">> /\ sPre = rPre
       \/ \E t : rpc = "wait" /\ spc = "setup" /\ toS = <<rPre, "proof", t>> /\ Fits(t)
       \/ \E t : rpc = "wait" /\ spc = "verify" /\ toS = <<"proof", t>> /\ Fits(t) /\ sPre = rPre

PhaseIdle ==
    /\ rpc = "ready" /\ spc \in {"ready", "verdict", "dead"} /\ Settled
    /\ toS = <<>> /\ toR = <<>>

PhaseAsked ==
    /\ Waiting /\ spc \in {"ready", "verdict", "dead"} /\ Settled
    /\ toR = <<>> /\ \E t : toS = <<t>> /\ Fits(t)

PhaseTaken ==
    /\ Waiting /\ sPre = rPre
    /\ \/ spc = "verify" /\ protocol = "OneSided"
       \/ spc = "verdict" /\ protocol = "OneSided" /\ rpc = "wait"
       \/ spc = "answer" /\ rpc = "wait"
    /\ toS = <<>> /\ toR = <<>> /\ Fits(request)

PhaseAnswered ==
    /\ rpc = "wait" /\ spc = "ready" /\ sPre = rPre
    /\ toS = <<>> /\ Fits(request)
    /\ \E pair \in Inputs, m \in MasksOf(protocol, sPre, request) :
          toR = <<Answer(pair, m)>> /\ given = <<pair>>

PhaseLost ==
    /\ rpc = "wait" /\ spc = "ready" /\ sPre = rPre
    /\ toS = <<>> /\ toR = <<>>

Phases ==
    \/ PhaseSetup \/ PhaseProve \/ PhaseEarly \/ PhaseIdle
    \/ PhaseAsked \/ PhaseTaken \/ PhaseAnswered \/ PhaseLost

OTInv ==
    /\ protocol \in Names
    /\ UsesSetup(protocol) /\ rpc # "setup" => rPre \in Quads
    /\ toR = <<>> => given = <<>>
    /\ Phases

(* The queues of a transfer hold at most three messages.                   *)
LEMMA ShortQueues ==
    ASSUME NEW a, NEW b, NEW c
    PROVE  /\ Append(<<a>>, b) = <<a, b>>
           /\ Head(<<a>>) = a /\ Head(<<a, b>>) = a /\ Head(<<a, b, c>>) = a
           /\ Tail(<<a>>) = <<>> /\ Tail(<<a, b>>) = <<b>>
           /\ Tail(<<a, b, c>>) = <<b, c>>
<1>1. Append(<<a>>, b) = <<a, b>>
  <2> DEFINE S == {a, b}
             l == Append(<<a>>, b)
             r == <<a, b>>
  <2>1. <<a>> \in Seq(S) /\ b \in S
    OBVIOUS
  <2>2. l \in Seq(S) /\ Len(l) = 2 /\ l[1] = a /\ l[2] = b
    BY <2>1
  <2>3. r \in Seq(S) /\ Len(r) = 2 /\ r[1] = a /\ r[2] = b
    OBVIOUS
  <2> HIDE DEF l, r
  <2>4. \A i \in 1 .. 2 : l[i] = r[i]
    BY <2>2, <2>3
  <2>5. l = r
    BY <2>2, <2>3, <2>4
  <2> QED
    BY <2>5 DEF l, r
<1>3. Head(<<a>>) = a /\ Head(<<a, b>>) = a /\ Head(<<a, b, c>>) = a
  OBVIOUS
<1>4. Tail(<<a>>) = <<>>
  OBVIOUS
<1>5. Tail(<<a, b>>) = <<b>>
  OBVIOUS
<1>6. Tail(<<a, b, c>>) = <<b, c>>
  OBVIOUS
<1> QED
  BY <1>1, <1>3, <1>4, <1>5, <1>6

LEMMA AppendToTwo ==
    ASSUME NEW a, NEW b, NEW c
    PROVE  Append(<<a, b>>, c) = <<a, b, c>>
<1> DEFINE S == {a, b, c}
           l == Append(<<a, b>>, c)
           r == <<a, b, c>>
<1>1. <<a, b>> \in Seq(S) /\ c \in S
  OBVIOUS
<1>2. l \in Seq(S) /\ Len(l) = 3 /\ l[1] = a /\ l[2] = b /\ l[3] = c
  BY <1>1
<1>3. r \in Seq(S) /\ Len(r) = 3 /\ r[1] = a /\ r[2] = b /\ r[3] = c
  OBVIOUS
<1> HIDE DEF l, r
<1>4. \A i \in 1 .. 3 : l[i] = r[i]
  BY <1>2, <1>3
<1>5. l = r
  BY <1>2, <1>3, <1>4
<1> QED
  BY <1>5 DEF l, r

(* The phases of the initial states.                                       *)
LEMMA InitPhase == OTInit => OTInv
<1> SUFFICES ASSUME OTInit PROVE OTInv
  OBVIOUS
<1>1. protocol \in Names
  BY OTAssumption DEF OTInit, Names
<1>2. CASE HasSetup(protocol)
  <2>1. PhaseSetup
    BY <1>2 DEF OTInit, PhaseSetup
  <2> QED
    BY <1>1, <2>1 DEF OTInit, OTInv, Phases, PhaseSetup
<1>3. CASE ~HasSetup(protocol)
  <2>1. PhaseIdle
    BY <1>3 DEF OTInit, PhaseIdle, Settled
  <2>2. UsesSetup(protocol) => rPre \in Quads
    BY <1>3, OTAssumption DEF OTInit, UsesSetup, HasSetup, Quads
  <2> QED
    BY <1>1, <2>1, <2>2 DEF OTInit, OTInv, Phases
<1> QED
  BY <1>2, <1>3

(* A new request fits the choice and the exponent kept with it.            *)
LEMMA NewAsk ==
    ASSUME OTInv, NEW choice \in {0, 1}, rAsk(choice)
    PROVE  \E t : toS' = Append(toS, t) /\ AskFits(protocol', sigma', secret', rPre', t)
<1>1. PICK ask \in AsksOf(protocol, choice, rPre) :
          secret' = ask.secret /\ toS' = Append(toS, ask.tuple)
  BY DEF rAsk
<1>2. UsesSetup(protocol) => rPre \in Quads
  BY DEF rAsk, OTInv
<1>3. AskFits(protocol', sigma', secret', rPre', ask.tuple)
  BY <1>1, <1>2 DEF rAsk, AskFits
<1> QED
  BY <1>1, <1>3

(* Every step leads from one phase to another.                             *)
LEMMA StepPhase == OTInv /\ [OTNext]_otVars => OTInv'
<1> SUFFICES ASSUME OTInv, [OTNext]_otVars PROVE OTInv'
  OBVIOUS
<1> USE DEF OTInv, Fits, Settled, Waiting
<1>1. ASSUME NEW setup \in Setups, rSetup(setup) PROVE OTInv'
  <2>1. setup \in Quads
    BY SetupElements
  <2>2. PhaseSetup /\ protocol' = protocol /\ protocol \in {"FullSim", "FullSimROM"}
    BY <1>1 DEF rSetup, Phases, PhaseSetup, PhaseProve, PhaseEarly, PhaseIdle, PhaseAsked,
                PhaseTaken, PhaseAnswered, PhaseLost, HasSetup
  <2>3. CASE protocol = "FullSim"
    <3>1. PhaseProve'
      BY <1>1, <2>2, <2>3 DEF rSetup, PhaseSetup, PhaseProve
    <3> QED
      BY <1>1, <2>1, <2>2, <2>3, <3>1 DEF rSetup, Phases, PhaseSetup
  <2>4. CASE protocol = "FullSimROM"
    <3>1. PhaseEarly'
      BY <1>1, <2>2, <2>4 DEF rSetup, PhaseSetup, PhaseEarly
    <3> QED
      BY <1>1, <2>1, <2>2, <2>4, <3>1 DEF rSetup, Phases, PhaseSetup
  <2> QED
    BY <2>2, <2>3, <2>4
<1>2. ASSUME NEW choice \in {0, 1}, rAsk(choice) PROVE OTInv'
  <2>1. PICK t : toS' = Append(toS, t) /\ AskFits(protocol', sigma', secret', rPre', t)
    BY <1>2, NewAsk
  <2>2. /\ rpc = "ready" /\ protocol' = protocol /\ rPre' = rPre /\ sPre' = sPre
        /\ spc' = spc /\ toR' = toR /\ given' = given
        /\ rpc' = IF protocol = "OneSided" THEN "prove" ELSE "wait"
    BY <1>2 DEF rAsk
  <2>3. PhaseIdle \/ PhaseEarly
    BY <2>2 DEF Phases, PhaseSetup, PhaseProve, PhaseEarly, PhaseIdle, PhaseAsked,
                PhaseTaken, PhaseAnswered, PhaseLost
  <2>4. CASE PhaseIdle
    <3>1. PhaseAsked'
      BY <2>1, <2>2, <2>4 DEF PhaseIdle, PhaseAsked, HasSetup
    <3> QED
      BY <2>2, <2>4, <3>1 DEF Phases, PhaseIdle
  <2>5. CASE PhaseEarly
    <3>1. PhaseEarly'
      <4>1. CASE spc = "setup"
        <5>1. toS = <<rPre, "proof">>
          BY <2>2, <2>5, <4>1 DEF PhaseEarly
        <5>2. PICK p : p = rPre
          OBVIOUS
        <5>3. Append(<<p, "proof">>, t) = <<p, "proof", t>>
          BY AppendToTwo
        <5> QED
          BY <2>1, <2>2, <2>5, <4>1, <5>1, <5>2, <5>3 DEF PhaseEarly
      <4>2. CASE spc = "verify"
        <5>1. toS = <<"proof">> /\ sPre = rPre
          BY <2>2, <2>5, <4>2 DEF PhaseEarly
        <5>2. toS' = <<"proof", t>>
          BY <2>1, <5>1, ShortQueues
        <5> QED
          BY <2>1, <2>2, <2>5, <4>2, <5>1, <5>2 DEF PhaseEarly
      <4> QED
        BY <2>5, <4>1, <4>2 DEF PhaseEarly
    <3> QED
      BY <2>2, <2>5, <3>1 DEF Phases, PhaseEarly
  <2> QED
    BY <2>3, <2>4, <2>5
<1>3. ASSUME sSetup PROVE OTInv'
  <2>1. PhaseProve \/ PhaseEarly
    BY <1>3 DEF sSetup, Phases, PhaseSetup, PhaseProve, PhaseEarly, PhaseIdle, PhaseAsked,
                PhaseTaken, PhaseAnswered, PhaseLost, HasSetup
  <2>2. CASE PhaseProve
    <3>1. PhaseProve'
      <4>1. toS = <<rPre>>
        BY <1>3, <2>2 DEF sSetup, PhaseProve
      <4>2. Head(toS) = rPre /\ Tail(toS) = <<>>
        BY <4>1, ShortQueues
      <4> QED
        BY <1>3, <2>2, <4>2 DEF sSetup, PhaseProve
    <3> QED
      BY <1>3, <2>2, <3>1 DEF sSetup, Phases, PhaseProve
  <2>3. CASE PhaseEarly
    <3>1. PhaseEarly'
      <4>1. CASE rpc = "ready"
        <5>1. toS = <<rPre, "proof">>
          BY <1>3, <2>3, <4>1 DEF sSetup, PhaseEarly
        <5>2. Head(toS) = rPre /\ Tail(toS) = <<"proof">>
          BY <5>1, ShortQueues
        <5> QED
          BY <1>3, <2>3, <4>1, <5>2 DEF sSetup, PhaseEarly
      <4>2. CASE rpc = "wait"
        <5>1. PICK t : toS = <<rPre, "proof", t>> /\ Fits(t)
          BY <1>3, <2>3, <4>2 DEF sSetup, PhaseEarly
        <5>2. Head(toS) = rPre /\ Tail(toS) = <<"proof", t>>
          BY <5>1, ShortQueues
        <5>3. Fits(t)'
          BY <1>3, <5>1 DEF sSetup
        <5> QED
          BY <1>3, <2>3, <4>2, <5>2, <5>3 DEF sSetup, PhaseEarly
      <4> QED
        BY <2>3, <4>1, <4>2 DEF PhaseEarly
    <3> QED
      BY <1>3, <2>3, <3>1 DEF sSetup, Phases, PhaseEarly
  <2> QED
    BY <2>1, <2>2, <2>3
<1>4. ASSUME sRead PROVE OTInv'
  <2>1. PhaseAsked
    BY <1>4 DEF sRead, Phases, PhaseSetup, PhaseProve, PhaseEarly, PhaseIdle, PhaseAsked,
                PhaseTaken, PhaseAnswered, PhaseLost, HasSetup
  <2>2. CASE PhaseAsked
    <3>1. PhaseTaken'
      BY <1>4, <2>2 DEF sRead, PhaseAsked, PhaseTaken, HasSetup
    <3> QED
      BY <1>4, <2>2, <3>1 DEF sRead, Phases, PhaseAsked
  <2> QED
    BY <2>1, <2>2
<1>5. ASSUME zkProof PROVE OTInv'
  <2>1. PhaseProve \/ PhaseTaken
    BY <1>5 DEF zkProof, Phases, PhaseSetup, PhaseProve, PhaseEarly, PhaseIdle, PhaseAsked,
                PhaseTaken, PhaseAnswered, PhaseLost, HasSetup
  <2>2. CASE PhaseProve
    <3>1. PhaseIdle'
      BY <1>5, <2>2 DEF zkProof, PhaseProve, PhaseIdle, HasSetup
    <3> QED
      BY <1>5, <2>2, <3>1 DEF zkProof, Phases, PhaseProve
  <2>3. CASE PhaseTaken
    <3>1. PhaseTaken'
      BY <1>5, <2>3 DEF zkProof, PhaseTaken, HasSetup
    <3> QED
      BY <1>5, <2>3, <3>1 DEF zkProof, Phases, PhaseTaken
  <2> QED
    BY <2>1, <2>2, <2>3
<1>6. ASSUME zkRead PROVE OTInv'
  <2>1. PhaseEarly
    BY <1>6 DEF zkRead, Phases, PhaseSetup, PhaseProve, PhaseEarly, PhaseIdle, PhaseAsked,
                PhaseTaken, PhaseAnswered, PhaseLost, HasSetup
  <2>2. CASE PhaseEarly
    <3>1. PhaseIdle' \/ PhaseAsked'
      <4>1. CASE rpc = "ready"
        <5>1. toS = <<"proof">> /\ sPre = rPre
          BY <1>6, <2>2, <4>1 DEF zkRead, PhaseEarly
        <5>2. Tail(toS) = <<>>
          BY <5>1, ShortQueues
        <5> QED
          BY <1>6, <2>2, <4>1, <5>1, <5>2 DEF zkRead, PhaseEarly, PhaseIdle, HasSetup
      <4>2. CASE rpc = "wait"
        <5>1. PICK t : toS = <<"proof", t>> /\ Fits(t) /\ sPre = rPre
          BY <1>6, <2>2, <4>2 DEF zkRead, PhaseEarly
        <5>2. Tail(toS) = <<t>>
          BY <5>1, ShortQueues
        <5>3. Fits(t)'
          BY <1>6, <5>1 DEF zkRead
        <5> QED
          BY <1>6, <2>2, <4>2, <5>1, <5>2, <5>3 DEF zkRead, PhaseEarly, PhaseAsked, HasSetup
      <4> QED
        BY <2>2, <4>1, <4>2 DEF PhaseEarly
    <3> QED
      BY <1>6, <2>2, <3>1 DEF zkRead, Phases, PhaseEarly
  <2> QED
    BY <2>1, <2>2
<1>7. ASSUME zkAccept PROVE OTInv'
  <2>1. PhaseIdle \/ PhaseAsked \/ PhaseTaken
    BY <1>7 DEF zkAccept, Phases, PhaseSetup, PhaseProve, PhaseEarly, PhaseIdle, PhaseAsked,
                PhaseTaken, PhaseAnswered, PhaseLost, HasSetup
  <2>2. CASE PhaseIdle
    <3>1. PhaseIdle'
      BY <1>7, <2>2 DEF zkAccept, PhaseIdle, HasSetup
    <3> QED
      BY <1>7, <2>2, <3>1 DEF zkAccept, Phases, PhaseIdle
  <2>3. CASE PhaseAsked
    <3>1. PhaseAsked'
      BY <1>7, <2>3 DEF zkAccept, PhaseAsked, HasSetup
    <3> QED
      BY <1>7, <2>3, <3>1 DEF zkAccept, Phases, PhaseAsked
  <2>4. CASE PhaseTaken
    <3>1. PhaseTaken'
      BY <1>7, <2>4 DEF zkAccept, PhaseTaken, HasSetup
    <3> QED
      BY <1>7, <2>4, <3>1 DEF zkAccept, Phases, PhaseTaken
  <2> QED
    BY <2>1, <2>2, <2>3, <2>4
<1>8. ASSUME zkReject PROVE OTInv'
  <2>1. PhaseIdle \/ PhaseAsked
    BY <1>8 DEF zkReject, Phases, PhaseSetup, PhaseProve, PhaseEarly, PhaseIdle, PhaseAsked,
                PhaseTaken, PhaseAnswered, PhaseLost, HasSetup
  <2>2. CASE PhaseIdle
    <3>1. PhaseIdle'
      BY <1>8, <2>2 DEF zkReject, PhaseIdle, HasSetup
    <3> QED
      BY <1>8, <2>2, <3>1 DEF zkReject, Phases, PhaseIdle
  <2>3. CASE PhaseAsked
    <3>1. PhaseAsked'
      BY <1>8, <2>3 DEF zkReject, PhaseAsked, HasSetup
    <3> QED
      BY <1>8, <2>3, <3>1 DEF zkReject, Phases, PhaseAsked
  <2> QED
    BY <2>1, <2>2, <2>3
<1>9. ASSUME sThrow PROVE OTInv'
  <2>1. PhaseTaken
    BY <1>9 DEF sThrow, Phases, PhaseSetup, PhaseProve, PhaseEarly, PhaseIdle, PhaseAsked,
                PhaseTaken, PhaseAnswered, PhaseLost, HasSetup
  <2>2. CASE PhaseTaken
    <3>1. PhaseLost'
      BY <1>9, <2>2 DEF sThrow, PhaseTaken, PhaseLost, HasSetup
    <3> QED
      BY <1>9, <2>2, <3>1 DEF sThrow, Phases, PhaseTaken
  <2> QED
    BY <2>1, <2>2
<1>10. ASSUME NEW pair \in Inputs, sAnswer(pair) PROVE OTInv'
  <2>1. PhaseTaken
    BY <1>10 DEF sAnswer, Phases, PhaseSetup, PhaseProve, PhaseEarly, PhaseIdle, PhaseAsked,
                 PhaseTaken, PhaseAnswered, PhaseLost
  <2>2. PICK m \in MasksOf(protocol, sPre, request) : toR' = Append(toR, Answer(pair, m))
    BY <1>10 DEF sAnswer
  <2>3. toR' = <<Answer(pair, m)>> /\ given' = <<pair>>
    BY <1>10, <2>1, <2>2 DEF sAnswer, PhaseTaken
  <2>4. Inputs' = Inputs /\ Answer(pair, m)' = Answer(pair, m)
    BY <1>10 DEF sAnswer, Inputs, Answer, toString, ElementString, Coordinates
  <2>5. PhaseAnswered'
    BY <1>10, <2>1, <2>2, <2>3, <2>4 DEF sAnswer, PhaseTaken, PhaseAnswered
  <2> QED
    BY <1>10, <2>1, <2>3, <2>5 DEF sAnswer, Phases, PhaseTaken
<1>11. ASSUME rOpen PROVE OTInv'
  <2>1. PhaseAnswered
    BY <1>11 DEF rOpen, Phases, PhaseSetup, PhaseProve, PhaseEarly, PhaseIdle, PhaseAsked,
                PhaseTaken, PhaseAnswered, PhaseLost, HasSetup
  <2>2. CASE PhaseAnswered
    <3>1. PhaseIdle'
      BY <1>11, <2>2 DEF rOpen, PhaseAnswered, PhaseIdle, HasSetup
    <3> QED
      BY <1>11, <2>2, <3>1 DEF rOpen, Phases, PhaseAnswered
  <2> QED
    BY <2>1, <2>2
<1>12. ASSUME UNCHANGED otVars PROVE OTInv'
  <2>1. Phases'
    BY <1>12 DEF otVars, Phases, PhaseSetup, PhaseProve, PhaseEarly, PhaseIdle, PhaseAsked,
                 PhaseTaken, PhaseAnswered, PhaseLost, HasSetup, Inputs, Answer, toString,
                 ElementString, Coordinates
  <2> QED
    BY <1>12, <2>1 DEF otVars
<1> QED
  BY <1>1, <1>2, <1>3, <1>4, <1>5, <1>6, <1>7, <1>8, <1>9, <1>10, <1>11, <1>12
     DEF OTNext, ReceiverStep, SenderStep

-----------------------------------------------------------------------------
(* In every run that moves group elements the receiver gets the input it   *)
(* chose: for every group, every one of the protocols, every input, all    *)
(* random values and any number of transfers on the same objects           *)
(* (receiveOt and sendOt of the ...OnGroupElement classes).                *)
THEOREM ReceivesChosenCorrect ==
    ASSUME Kinds = {"element"}
    PROVE  OTSpec => []ReceivesChosen
<1> DEFINE I == kind = "element" /\ OTInv /\ ReceivesChosen
<1>1. OTInit => I
  BY InitPhase DEF OTInit, ReceivesChosen
<1>2. I /\ [OTNext]_otVars => I'
  <2> SUFFICES ASSUME I, [OTNext]_otVars PROVE I'
    OBVIOUS
  <2>1. OTInv'
    BY StepPhase
  <2>2. kind' = "element"
    BY DEF OTNext, ReceiverStep, SenderStep, rSetup, sSetup, rAsk, sRead, zkProof, zkRead,
           zkAccept, zkReject, sAnswer, sThrow, rOpen, otVars
  <2>3. rOpen \/ got' \in {got, None}
    <3>1. (\E pair \in Inputs : sAnswer(pair)) => got' = got
      BY DEF sAnswer
    <3>2. (\E choice \in {0, 1} : rAsk(choice)) => got' = None
      BY DEF rAsk
    <3>3. (\E setup \in Setups : rSetup(setup)) => got' = got
      BY DEF rSetup
    <3> QED
      BY <3>1, <3>2, <3>3 DEF OTNext, ReceiverStep, SenderStep, sSetup, sRead, zkProof, zkRead,
         zkAccept, zkReject, sThrow, otVars
  <2>4. CASE rOpen
    <3>1. PhaseAnswered
      BY <2>4 DEF rOpen, OTInv, Phases, PhaseSetup, PhaseProve, PhaseEarly, PhaseIdle,
                  PhaseAsked, PhaseTaken, PhaseAnswered, PhaseLost
    <3>2. PICK pair \in Inputs, m \in MasksOf(protocol, sPre, request) :
              toR = <<Answer(pair, m)>> /\ given = <<pair>>
      BY <3>1 DEF PhaseAnswered
    <3>3. AskFits(protocol, sigma, secret, sPre, request) /\ protocol \in Names
      BY <3>1 DEF PhaseAnswered, Fits, OTInv
    <3>4. KeyOpens(m, sigma, secret) /\ secret \in Zq /\ sigma \in {0, 1}
      BY <3>2, <3>3, KeyOfAsk
    <3>5. pair \in G \X G
      BY <3>2, OTAssumption DEF Inputs
    <3>6. OpenElement(ElementTuple(pair, m), sigma, secret) = pair[sigma + 1]
      BY <3>4, <3>5, ElementOpens
    <3>7. got'.sigma = sigma /\ got'.pair = pair /\ got'.x = pair[sigma + 1]
      BY <2>4, <3>2, <3>6 DEF rOpen, Open, Answer
    <3> QED
      BY <2>1, <2>2, <3>7 DEF ReceivesChosen, Chosen
  <2>5. CASE got' \in {got, None}
    BY <2>1, <2>2, <2>5 DEF ReceivesChosen, Chosen
  <2> QED
    BY <2>3, <2>4, <2>5
<1>3. I => ReceivesChosen
  OBVIOUS
<1> QED
  BY <1>1, <1>2, <1>3, PTL DEF OTSpec

(* What the sender of SemiHonest reads from the channel fits either        *)
(* choice, in every group and in all the transfers of the two objects.     *)
THEOREM ChoiceHiddenCorrect == OTSpec => []ChoiceHidden
<1>1. OTInit => OTInv
  BY InitPhase
<1>2. OTInv /\ [OTNext]_otVars => OTInv'
  BY StepPhase
<1>3. OTInv => ChoiceHidden
  <2> SUFFICES ASSUME OTInv, protocol = "SemiHonest", toS # <<>>, secret # 0
               PROVE  \E ask \in AsksOf(protocol, 1 - sigma, rPre) : ask.tuple = Head(toS)
    BY DEF ChoiceHidden
  <2>1. PhaseAsked
    BY DEF OTInv, Phases, PhaseSetup, PhaseProve, PhaseEarly, PhaseIdle, PhaseAsked,
           PhaseTaken, PhaseAnswered, PhaseLost, HasSetup
  <2>2. PICK t : toS = <<t>> /\ AskFits("SemiHonest", sigma, secret, rPre, t)
    BY <2>1 DEF PhaseAsked, Fits
  <2>3. Head(toS) = t
    BY <2>2
  <2>4. \E ask \in AsksOf("SemiHonest", 1 - sigma, rPre) : ask.tuple = t
    BY <2>2, OtherChoice
  <2> QED
    BY <2>3, <2>4
<1> QED
  BY <1>1, <1>2, <1>3, PTL DEF OTSpec

(* What hiding needs beside the phases: the preprocess values are crossed, *)
(* and an answer was made to a tuple that was checked.                     *)
Hidden ==
    /\ UsesSetup(protocol) /\ rpc # "setup" => Crossed(rPre)
    /\ toR # <<>> => checkReceivedTuple(request)

LEMMA HiddenStep ==
    ASSUME OTInv, Hidden, [OTNext]_otVars
    PROVE  Hidden'
<1> USE DEF Hidden
<1>1. ASSUME NEW setup \in Setups, rSetup(setup) PROVE Hidden'
  BY <1>1, SetupCrossed DEF rSetup, checkReceivedTuple
<1>2. ASSUME NEW choice \in {0, 1}, rAsk(choice) PROVE Hidden'
  BY <1>2 DEF rAsk, checkReceivedTuple
<1>3. ASSUME NEW pair \in Inputs, sAnswer(pair) PROVE Hidden'
  BY <1>3 DEF sAnswer, checkReceivedTuple
<1>4. CASE sRead
  <2>1. toR = <<>>
    BY <1>4 DEF sRead, OTInv, Phases, PhaseSetup, PhaseProve, PhaseEarly, PhaseIdle,
                PhaseAsked, PhaseTaken, PhaseAnswered, PhaseLost
  <2> QED
    BY <1>4, <2>1 DEF sRead
<1>5. CASE rOpen
  <2>1. PhaseAnswered
    BY <1>5 DEF rOpen, OTInv, Phases, PhaseSetup, PhaseProve, PhaseEarly, PhaseIdle,
                PhaseAsked, PhaseTaken, PhaseAnswered, PhaseLost
  <2>2. Tail(toR) = <<>>
    BY <2>1, ShortQueues DEF PhaseAnswered
  <2> QED
    BY <1>5, <2>2 DEF rOpen
<1>6. CASE sSetup \/ zkRead \/ zkAccept \/ zkReject \/ sThrow \/ zkProof
  <2>1. /\ protocol' = protocol /\ rPre' = rPre /\ toR' = toR /\ request' = request
        /\ rpc' = "setup" <=> rpc = "setup"
    BY <1>6 DEF sSetup, zkRead, zkAccept, zkReject, sThrow, zkProof
  <2> QED
    BY <2>1 DEF checkReceivedTuple
<1>7. CASE UNCHANGED otVars
  BY <1>7 DEF otVars, checkReceivedTuple
<1> QED
  BY <1>1, <1>2, <1>3, <1>4, <1>5, <1>6, <1>7 DEF OTNext, ReceiverStep, SenderStep

(* Sender privacy: in a group of prime order, whatever the random values   *)
(* of both, an answer of PrivacyOnly, OneSided, the full simulation        *)
(* protocols or UC is also the answer for every other value of the input   *)
(* that was not chosen, in all the transfers of the two objects.  The      *)
(* elements given to UC must not be a Diffie-Hellman tuple; those of the   *)
(* preprocess phase never are.                                             *)
THEOREM NothingElseLearnedCorrect ==
    ASSUME PrimeOrder, Generated, \A pre \in References : Crossed(pre)
    PROVE  OTSpec => []NothingElseLearned
<1>1. OTInit => OTInv /\ Hidden
  BY InitPhase, OTAssumption DEF OTInit, Hidden, UsesSetup, HasSetup
<1>2. OTInv /\ Hidden /\ [OTNext]_otVars => (OTInv /\ Hidden)'
  BY StepPhase, HiddenStep
<1>3. OTInv /\ Hidden => NothingElseLearned
  <2> SUFFICES ASSUME OTInv, Hidden, kind = "element", protocol # "SemiHonest", toR # <<>>,
                      ~Degenerate, NEW x \in Elements
               PROVE  \E m \in MasksOf(protocol, sPre, request) :
                         Head(toR) = Answer([given[1] EXCEPT ![2 - sigma] = x], m)
    BY DEF NothingElseLearned
  <2>1. PhaseAnswered
    BY DEF OTInv, Phases, PhaseSetup, PhaseProve, PhaseEarly, PhaseIdle, PhaseAsked,
           PhaseTaken, PhaseAnswered, PhaseLost
  <2>2. PICK pair \in Inputs, m \in MasksOf(protocol, sPre, request) :
            toR = <<Answer(pair, m)>> /\ given = <<pair>>
    BY <2>1 DEF PhaseAnswered
  <2>3. pair \in G \X G /\ x \in G
    BY OTAssumption DEF Inputs
  <2>4. /\ protocol \in Names /\ sigma \in {0, 1}
        /\ checkReceivedTuple(request)
        /\ UsesSetup(protocol) => Crossed(sPre)
    BY <2>1 DEF OTInv, Hidden, PhaseAnswered, Fits, AskFits
  <2>5. PICK ask \in AsksOf(protocol, sigma, sPre) : ask.tuple = request
    BY <2>1 DEF PhaseAnswered, Fits, AskFits
  <2>6. Explains(protocol, sPre, request, pair, m, 1 - sigma, x)
    <3>1. CASE protocol \in {"PrivacyOnly", "OneSided"}
      <4>1. PICK alpha \in Zq, beta \in Zq, gamma \in Zq :
                ask = QuadTuple(sigma, alpha, beta, gamma)
        BY <2>5, <3>1 DEF AsksOf
      <4>2. request = QuadTuple(sigma, alpha, beta, gamma).tuple
        BY <2>5, <4>1
      <4>3. request[3] # request[4]
        BY <2>4, <3>1 DEF checkReceivedTuple
      <4> QED
        BY <2>2, <2>3, <2>4, <3>1, <4>2, <4>3, QuadExplains
    <3>2. CASE protocol \notin {"PrivacyOnly", "OneSided"}
      <4>1. protocol \notin {"SemiHonest", "PrivacyOnly", "OneSided"} /\ UsesSetup(protocol)
        BY <2>4, <3>2 DEF Names, UsesSetup
      <4>2. PICK r \in Zq : ask = computeSecondTuple(sigma, r, sPre)
        BY <2>5, <4>1 DEF AsksOf
      <4>3. request = computeSecondTuple(sigma, r, sPre).tuple
        BY <2>5, <4>2
      <4>4. request # <<Exp(g, 0), Exp(g, 0)>>
        BY DEF Degenerate
      <4> QED
        BY <2>2, <2>3, <2>4, <4>1, <4>3, <4>4, FullSimExplains
    <3> QED
      BY <3>1, <3>2
  <2>7. PICK m2 \in MasksOf(protocol, sPre, request) :
            ElementTuple(pair, m) = ElementTuple([pair EXCEPT ![2 - sigma] = x], m2)
    <3>1. 1 - sigma + 1 = 2 - sigma
      BY <2>4
    <3> QED
      BY <2>6, <3>1 DEF Explains
  <2>8. Head(toR) = ElementTuple(pair, m) /\ given[1] = pair
    BY <2>2 DEF Answer
  <2> QED
    BY <2>7, <2>8 DEF Answer
<1> QED
  BY <1>1, <1>2, <1>3, PTL DEF OTSpec
=============================================================================
