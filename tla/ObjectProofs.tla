---------------------------- MODULE ObjectProofs ----------------------------
(***************************************************************************)
(* The objects of sequential classes, under every sequence of calls.       *)
(* Encryption: decrypt inverts encrypt and multiply, for every group that  *)
(* satisfies the laws of module Dlog.  Pseudo-random generator: for every  *)
(* block size, cache size, set of lengths and set of widths that divide    *)
(* the block, no byte is handed out twice, requests are served from inside *)
(* the cache, and a new key is in force.                                   *)
(***************************************************************************)
EXTENDS AsymEnc, Prg, DlogProofs, TLAPS

-----------------------------------------------------------------------------
(* The encryption objects.                                                 *)

(* The mask of an ElGamal or Cramer-Shoup ciphertext is taken off.         *)
LEMMA MaskRemoved ==
    ASSUME NEW b \in G, NEW x \in Zq, NEW r \in Zq, NEW m \in G
    PROVE  /\ Mul(Mul(Exp(Exp(b, x), r), m), Exp(Exp(b, r), q - x)) = m
           /\ Mul(Exp(Exp(b, x), r), m) \in G
<1> DEFINE u == Exp(b, r)
<1>1. u \in G /\ Exp(Exp(b, x), r) = Exp(u, x)
  BY PowerFacts
<1>2. Exp(u, x) \in G
  BY <1>1, PowerFacts
<1>3. Mul(Exp(u, x), m) = Mul(m, Exp(u, x)) /\ Mul(Exp(u, x), m) \in G
  BY <1>2, DlogAssumption DEF GroupLaws
<1>4. Mul(Mul(m, Exp(u, x)), Exp(u, q - x)) = m
  BY <1>1, Unblind
<1> QED
  BY <1>1, <1>3, <1>4

(* The same for byte arrays.                                               *)
LEMMA XorCancels ==
    ASSUME NEW k \in Bits, NEW m \in Bits
    PROVE  Xor(k, Xor(k, m)) = m
<1>1. \A i \in 1 .. TextLen : k[i] \in BOOLEAN /\ m[i] \in BOOLEAN
  BY DEF Bits
<1>2. \A i \in 1 .. TextLen : (k[i] # (k[i] # m[i])) = m[i]
  BY <1>1
<1>3. Xor(k, Xor(k, m)) = [i \in 1 .. TextLen |-> k[i] # (k[i] # m[i])]
  BY DEF Xor
<1>4. m = [i \in 1 .. TextLen |-> m[i]]
  BY DEF Bits
<1> QED
  BY <1>2, <1>3, <1>4

(* A hash value of either sign, where exponentiate drops the sign.         *)
LEMMA UnsignedPower ==
    ASSUME UnsignedLaws, NEW d \in G, NEW r \in Zq, NEW alpha \in -(q - 1) .. (q - 1)
    PROVE  Abs(alpha) \in Zq /\ Exp(d, Rem(r * alpha)) = Exp(d, r * Abs(alpha))
<1>0. q \in Nat /\ q > 1 /\ r \in Nat /\ alpha \in Int
  BY ZqExps
<1>1. Abs(alpha) \in Zq
  BY <1>0 DEF Abs, Zq
<1>2. r * Abs(alpha) \in Exps /\ r * Abs(alpha) \in Nat
  BY <1>1, ZqExps
<1>3. CASE alpha >= 0
  <2>1. Abs(alpha) = alpha
    BY <1>3 DEF Abs
  <2> QED
    BY <1>1, <1>2, <2>1, ExpRem
<1>4. CASE alpha < 0
  <2> DEFINE k == r * Abs(alpha)
  <2> DEFINE s == k % q
  <2>1. Abs(alpha) = -alpha /\ r * alpha = -k /\ k \in Nat
    BY <1>0, <1>2, <1>4 DEF Abs
  <2>2. s \in Zq /\ Exp(d, s) = Exp(d, k)
    BY <1>2, ModInZq, DlogAssumption DEF GroupLaws
  <2>3. CASE k = 0
    <3>1. Rem(r * alpha) = s
      BY <1>0, <2>1, <2>3 DEF Rem
    <3> QED
      BY <1>1, <2>2, <3>1
  <2>4. CASE k # 0
    <3>1. Rem(r * alpha) = -s
      <4>1. ~(-k >= 0) /\ -(-k) = k
        BY <2>1, <2>4
      <4> QED
        BY <2>1, <4>1 DEF Rem
    <3>2. Exp(d, -s) = Exp(d, s)
      <4>1. CASE s = 0
        BY <4>1
      <4>2. CASE s # 0
        <5>1. s \in 1 .. MaxExp
          <6> HIDE DEF s
          <6>1. s \in Exps
            BY <2>2, ZqExps
          <6> QED
            BY <6>1, <4>2 DEF Exps
        <5> QED
          BY <5>1 DEF UnsignedLaws
      <4> QED
        BY <4>1, <4>2
    <3> QED
      BY <1>1, <2>2, <3>1, <3>2
  <2> QED
    BY <2>3, <2>4
<1> QED
  BY <1>0, <1>3, <1>4

(* One of the two factors that checkValidity computes.                     *)
LEMMA ValidityFactor ==
    ASSUME NEW u \in G, NEW x \in Zq, NEW y \in Zq, NEW A \in Zq
    PROVE  /\ Exp(u, Rem(x + y * A)) = Mul(Exp(u, x), Exp(Exp(u, y), A))
           /\ Exp(u, x) \in G /\ Exp(Exp(u, y), A) \in G /\ Exp(u, y) \in G
<1>1. x \in Exps /\ y * A \in Exps /\ x \in Nat /\ y * A \in Nat
  BY ZqExps
<1>2. x + y * A \in Exps
  <2>1. q \in Nat /\ q > 1 /\ x <= q /\ y <= q /\ A <= q /\ A \in Nat /\ y \in Nat
    BY ZqExps DEF Zq
  <2>2. y * A <= q * A
    BY <2>1
  <2>3. q * A <= q * q
    BY <2>1
  <2>4. q <= q * q
    BY <2>1
  <2>5. q * q \in Nat /\ MaxExp = q * q + q * q
    BY <2>1 DEF MaxExp
  <2> QED
    BY <1>1, <2>1, <2>2, <2>3, <2>4, <2>5 DEF Exps
<1>3. Exp(u, Rem(x + y * A)) = Exp(u, x + y * A)
  BY <1>2, ExpRem
<1>4. Exp(u, x + y * A) = Mul(Exp(u, x), Exp(u, y * A))
  BY <1>1, <1>2, DlogAssumption DEF GroupLaws
<1>5. Exp(u, y * A) = Exp(Exp(u, y), A)
  BY DlogAssumption DEF GroupLaws
<1>6. Exp(u, x) \in G /\ Exp(u, y) \in G
  BY PowerFacts
<1>7. Exp(Exp(u, y), A) \in G
  BY <1>6, PowerFacts
<1> QED
  BY <1>3, <1>4, <1>5, <1>6, <1>7

(* Four factors of an abelian group.                                       *)
LEMMA Interchange ==
    ASSUME NEW a \in G, NEW b \in G, NEW c \in G, NEW d \in G
    PROVE  Mul(Mul(a, b), Mul(c, d)) = Mul(Mul(a, c), Mul(b, d))
<1>1. Mul(a, b) \in G /\ Mul(c, d) \in G /\ Mul(a, c) \in G /\ Mul(b, d) \in G
  BY DlogAssumption DEF GroupLaws
<1>2. Mul(Mul(a, b), Mul(c, d)) = Mul(a, Mul(b, Mul(c, d)))
  BY <1>1, DlogAssumption DEF GroupLaws
<1>3. Mul(b, Mul(c, d)) = Mul(Mul(b, c), d)
  BY <1>1, DlogAssumption DEF GroupLaws
<1>4. Mul(b, c) = Mul(c, b) /\ Mul(b, c) \in G
  BY DlogAssumption DEF GroupLaws
<1>5. Mul(Mul(c, b), d) = Mul(c, Mul(b, d))
  BY DlogAssumption DEF GroupLaws
<1>6. Mul(a, Mul(c, Mul(b, d))) = Mul(Mul(a, c), Mul(b, d))
  BY <1>1, DlogAssumption DEF GroupLaws
<1> QED
  BY <1>2, <1>3, <1>4, <1>5, <1>6

(* The check of an honest Cramer-Shoup ciphertext.                         *)
LEMMA HonestIsValid ==
    ASSUME UnsignedLaws,
           NEW g1 \in G, NEW g2 \in G, NEW r \in Zq,
           NEW x1 \in Zq, NEW x2 \in Zq, NEW y1 \in Zq, NEW y2 \in Zq,
           NEW alpha \in -(q - 1) .. (q - 1)
    PROVE  Mul(Exp(Mul(Exp(g1, x1), Exp(g2, x2)), r),
               Exp(Mul(Exp(g1, y1), Exp(g2, y2)), Rem(r * alpha)))
           = Mul(Exp(Exp(g1, r), Rem(x1 + y1 * Abs(alpha))),
                 Exp(Exp(g2, r), Rem(x2 + y2 * Abs(alpha))))
<1> DEFINE A == Abs(alpha)
<1> DEFINE u1 == Exp(g1, r)
<1> DEFINE u2 == Exp(g2, r)
<1> DEFINE c == Mul(Exp(g1, x1), Exp(g2, x2))
<1> DEFINE d == Mul(Exp(g1, y1), Exp(g2, y2))
<1>1. u1 \in G /\ u2 \in G
  BY PowerFacts
<1>2. Exp(g1, x1) \in G /\ Exp(g2, x2) \in G /\ Exp(g1, y1) \in G /\ Exp(g2, y2) \in G
  BY PowerFacts
<1>3. d \in G
  BY <1>2, DlogAssumption DEF GroupLaws
<1>4. A \in Zq /\ Exp(d, Rem(r * alpha)) = Exp(d, r * A)
  BY <1>3, UnsignedPower
<1>5. Exp(c, r) = Mul(Exp(u1, x1), Exp(u2, x2))
  <2>1. r \in Exps
    BY ZqExps
  <2>2. Exp(c, r) = Mul(Exp(Exp(g1, x1), r), Exp(Exp(g2, x2), r))
    BY <1>2, <2>1, DlogAssumption DEF GroupLaws
  <2>3. Exp(Exp(g1, x1), r) = Exp(u1, x1) /\ Exp(Exp(g2, x2), r) = Exp(u2, x2)
    BY PowerFacts
  <2> QED
    BY <2>2, <2>3
<1>6. Exp(d, r * A) = Mul(Exp(Exp(u1, y1), A), Exp(Exp(u2, y2), A))
  <2>1. r \in Exps /\ A \in Exps
    BY <1>4, ZqExps
  <2>2. Exp(d, r * A) = Exp(Exp(d, r), A)
    BY <1>3, <1>4, DlogAssumption DEF GroupLaws
  <2>3. Exp(d, r) = Mul(Exp(Exp(g1, y1), r), Exp(Exp(g2, y2), r))
    BY <1>2, <2>1, DlogAssumption DEF GroupLaws
  <2>4. Exp(Exp(g1, y1), r) = Exp(u1, y1) /\ Exp(Exp(g2, y2), r) = Exp(u2, y2)
    BY PowerFacts
  <2>5. Exp(u1, y1) \in G /\ Exp(u2, y2) \in G
    BY <1>1, PowerFacts
  <2>6. Exp(Mul(Exp(u1, y1), Exp(u2, y2)), A)
        = Mul(Exp(Exp(u1, y1), A), Exp(Exp(u2, y2), A))
    BY <2>1, <2>5, DlogAssumption DEF GroupLaws
  <2> QED
    BY <2>2, <2>3, <2>4, <2>6
<1>7. /\ Exp(u1, Rem(x1 + y1 * A)) = Mul(Exp(u1, x1), Exp(Exp(u1, y1), A))
      /\ Exp(u1, x1) \in G /\ Exp(Exp(u1, y1), A) \in G
  BY <1>1, <1>4, ValidityFactor
<1>8. /\ Exp(u2, Rem(x2 + y2 * A)) = Mul(Exp(u2, x2), Exp(Exp(u2, y2), A))
      /\ Exp(u2, x2) \in G /\ Exp(Exp(u2, y2), A) \in G
  BY <1>1, <1>4, ValidityFactor
<1>9. Mul(Mul(Exp(u1, x1), Exp(u2, x2)), Mul(Exp(Exp(u1, y1), A), Exp(Exp(u2, y2), A)))
      = Mul(Mul(Exp(u1, x1), Exp(Exp(u1, y1), A)), Mul(Exp(u2, x2), Exp(Exp(u2, y2), A)))
  BY <1>7, <1>8, Interchange
<1> QED
  BY <1>4, <1>5, <1>6, <1>7, <1>8, <1>9

-----------------------------------------------------------------------------
(* What a plaintext of each class is: multiply leaves Texts, not G.        *)
Carrier(s) == IF s = "ElGamalBytes" THEN Bits ELSE G

(* decrypt works on the ciphertexts of class s.                            *)
Decryptable(s) == s = "CramerShoup" => UnsignedLaws

(* The key pairs of ElGamal and of Cramer-Shoup.                           *)
LEMMA ElGamalPairShape ==
    ASSUME NEW pair \in ElGamalPairs
    PROVE  pair.priv \in Zq /\ pair.pub = Exp(g, pair.priv) /\ pair.pub \in G /\ g \in G
<1>1. PICK x \in ElGamalSecrets : pair = Pair(Exp(g, x), x)
  BY DEF ElGamalPairs
<1>2. x \in Zq /\ g \in G
  BY AsymAssumption, DlogAssumption DEF GroupLaws
<1>3. Exp(g, x) \in G
  BY <1>2, PowerFacts
<1> QED
  BY <1>1, <1>2, <1>3 DEF Pair

LEMMA CramerShoupPairShape ==
    ASSUME NEW pair \in CramerShoupPairs
    PROVE  \E g1, g2 \in G, x1, x2, y1, y2, z \in Zq :
              /\ pair.priv = <<x1, x2, y1, y2, z>>
              /\ pair.pub = <<g1, g2, Exp(g1, z),
                             Mul(Exp(g1, x1), Exp(g2, x2)),
                             Mul(Exp(g1, y1), Exp(g2, y2))>>
<1>1. PICK gen \in CSGenerators, x \in CSSecrets : pair = CramerShoupPair(gen, x)
  BY DEF CramerShoupPairs
<1>2. gen[1] \in Zq /\ gen[2] \in Zq /\ g \in G
  BY AsymAssumption, DlogAssumption DEF GroupLaws
<1>3. /\ x[1] \in Zq /\ x[2] \in Zq /\ x[3] \in Zq /\ x[4] \in Zq /\ x[5] \in Zq
      /\ x = <<x[1], x[2], x[3], x[4], x[5]>>
  BY AsymAssumption
<1>4. Exp(g, gen[1]) \in G /\ Exp(g, gen[2]) \in G
  BY <1>2, PowerFacts
<1> QED
  BY <1>1, <1>3, <1>4 DEF CramerShoupPair, Pair

(* decrypt inverts encrypt, in each class.                                 *)
LEMMA ElGamalOpens ==
    ASSUME NEW pair \in ElGamalPairs, NEW m \in G, NEW r \in Zq
    PROVE  ElGamalDecrypt(q - pair.priv, ElGamalEncrypt(pair.pub, m, r)) = m
<1>1. pair.priv \in Zq /\ pair.pub = Exp(g, pair.priv) /\ g \in G
  BY ElGamalPairShape
<1>2. Mul(Mul(Exp(Exp(g, pair.priv), r), m), Exp(Exp(g, r), q - pair.priv)) = m
  BY <1>1, MaskRemoved
<1> QED
  BY <1>1, <1>2 DEF ElGamalDecrypt, ElGamalEncrypt

LEMMA ElGamalBytesOpens ==
    ASSUME NEW pair \in ElGamalPairs, NEW m \in Bits, NEW r \in Zq
    PROVE  ElGamalBytesDecrypt(pair.priv, ElGamalBytesEncrypt(pair.pub, m, r)) = m
<1>1. pair.priv \in Zq /\ pair.pub = Exp(g, pair.priv) /\ g \in G
  BY ElGamalPairShape
<1>2. Exp(Exp(g, r), pair.priv) = Exp(pair.pub, r) /\ Exp(g, r) \in G
  BY <1>1, PowerFacts
<1>3. Exp(Exp(g, r), pair.priv) \in G
  BY <1>1, <1>2, PowerFacts
<1>4. Kdf(Exp(pair.pub, r)) \in Bits
  BY <1>2, <1>3, AsymAssumption
<1>5. Xor(Kdf(Exp(pair.pub, r)), Xor(Kdf(Exp(pair.pub, r)), m)) = m
  BY <1>4, XorCancels
<1> QED
  BY <1>2, <1>5 DEF ElGamalBytesDecrypt, ElGamalBytesEncrypt

LEMMA CramerShoupOpens ==
    ASSUME UnsignedLaws, NEW pair \in CramerShoupPairs, NEW m \in G, NEW r \in Zq
    PROVE  CramerShoupDecrypt(initPrivateKey("CramerShoup", pair.priv),
                              EncryptionOf("CramerShoup", pair.pub, m, r)) = m
<1>1. PICK g1, g2 \in G, x1, x2, y1, y2, z \in Zq :
          /\ pair.priv = <<x1, x2, y1, y2, z>>
          /\ pair.pub = <<g1, g2, Exp(g1, z),
                         Mul(Exp(g1, x1), Exp(g2, x2)),
                         Mul(Exp(g1, y1), Exp(g2, y2))>>
  BY CramerShoupPairShape
<1> DEFINE u1 == Exp(g1, r)
<1> DEFINE u2 == Exp(g2, r)
<1> DEFINE e == Mul(Exp(Exp(g1, z), r), m)
<1> DEFINE alpha == Hash(u1, u2, e)
<1> DEFINE v == Mul(Exp(Mul(Exp(g1, x1), Exp(g2, x2)), r),
                    Exp(Mul(Exp(g1, y1), Exp(g2, y2)), Rem(r * alpha)))
<1> DEFINE ct == EncryptionOf("CramerShoup", pair.pub, m, r)
<1> DEFINE sk == initPrivateKey("CramerShoup", pair.priv)
<1>2. ct = <<u1, u2, e, v>>
  BY <1>1 DEF EncryptionOf, CramerShoupEncrypt
<1>3. sk = <<x1, x2, y1, y2, q - z>>
  BY <1>1 DEF initPrivateKey
<1>4. u1 \in G /\ u2 \in G
  BY PowerFacts
<1>5. e \in G /\ Mul(e, Exp(u1, q - z)) = m
  BY MaskRemoved
<1>6. alpha \in -(q - 1) .. (q - 1)
  BY <1>4, <1>5, AsymAssumption
<1>7. v = Mul(Exp(u1, Rem(x1 + y1 * Abs(alpha))), Exp(u2, Rem(x2 + y2 * Abs(alpha))))
  BY <1>6, HonestIsValid
<1>8. /\ ct[1] = u1 /\ ct[2] = u2 /\ ct[3] = e /\ ct[4] = v
      /\ sk[1] = x1 /\ sk[2] = x2 /\ sk[3] = y1 /\ sk[4] = y2 /\ sk[5] = q - z
  BY <1>2, <1>3
<1> HIDE DEF ct, sk, v
<1>9. checkValidity(sk, ct)
  BY <1>7, <1>8 DEF checkValidity
<1>10. CramerShoupDecrypt(sk, ct) = m
  BY <1>5, <1>8, <1>9 DEF CramerShoupDecrypt
<1> QED
  BY <1>10 DEF ct, sk

LEMMA Opening ==
    ASSUME NEW s \in Schemes, Decryptable(s),
           NEW pair \in PairsOf(s), NEW m \in Carrier(s), NEW r \in Zq
    PROVE  decrypt(s, initPrivateKey(s, pair.priv), EncryptionOf(s, pair.pub, m, r)) = m
<1>1. CASE s = "ElGamal"
  BY <1>1, ElGamalOpens DEF PairsOf, Carrier, decrypt, initPrivateKey, EncryptionOf
<1>2. CASE s = "ElGamalBytes"
  BY <1>2, ElGamalBytesOpens DEF PairsOf, Carrier, decrypt, initPrivateKey, EncryptionOf
<1>3. CASE s = "CramerShoup"
  BY <1>3, CramerShoupOpens DEF PairsOf, Carrier, decrypt, Decryptable
<1> QED
  BY <1>1, <1>2, <1>3, AsymAssumption

(* The product of two ElGamal encryptions under one key, and the randomness *)
(* it has.                                                                 *)
SumOf(w, r1, r2) == Rem(Rem(w + r1) + r2)

LEMMA ProductIsEncryption ==
    ASSUME NEW h \in G, NEW m1 \in G, NEW m2 \in G,
           NEW r1 \in Zq, NEW r2 \in Zq, NEW w \in Zq
    PROVE  /\ SumOf(w, r1, r2) \in Zq
           /\ ElGamalMultiply(h, ElGamalEncrypt(h, m1, r1), ElGamalEncrypt(h, m2, r2), w)
              = ElGamalEncrypt(h, Mul(m1, m2), SumOf(w, r1, r2))
<1> DEFINE s == Rem(w + r1)
<1> DEFINE r == Rem(s + r2)
<1>1. w + r1 \in Exps
  BY ZqExps
<1>2. s \in Zq /\ \A b \in G : Exp(b, s) = Mul(Exp(b, w), Exp(b, r1)) /\ Exp(b, s) \in G
  BY <1>1, ExpRem, ExpSum
<1>3. s + r2 \in Exps
  BY <1>2, ZqExps
<1>4. r \in Zq /\ \A b \in G : Exp(b, r) = Mul(Exp(b, s), Exp(b, r2))
  BY <1>2, <1>3, ExpRem, ExpSum
<1> HIDE DEF s, r
<1>5. g \in G
  BY DlogAssumption DEF GroupLaws
<1>6. Exp(g, r) = Mul(Mul(Exp(g, w), Exp(g, r1)), Exp(g, r2))
  BY <1>2, <1>4, <1>5
<1>7. Mul(Mul(Exp(h, w), Mul(Exp(h, r1), m1)), Mul(Exp(h, r2), m2))
      = Mul(Exp(h, r), Mul(m1, m2))
  <2>1. Exp(h, w) \in G /\ Exp(h, r1) \in G /\ Exp(h, r2) \in G
    BY ExpSum
  <2>2. Mul(Exp(h, w), Mul(Exp(h, r1), m1)) = Mul(Exp(h, s), m1)
    BY <1>2, <2>1, DlogAssumption DEF GroupLaws
  <2>3. Mul(Mul(Exp(h, s), m1), Mul(Exp(h, r2), m2))
        = Mul(Mul(Exp(h, s), Exp(h, r2)), Mul(m1, m2))
    BY <1>2, <2>1, Interchange
  <2> QED
    BY <1>4, <2>2, <2>3
<1>8. SumOf(w, r1, r2) = r
  BY DEF SumOf, r, s
<1> QED
  BY <1>4, <1>6, <1>7, <1>8 DEF ElGamalMultiply, ElGamalEncrypt

-----------------------------------------------------------------------------
(* The exponents that an object keeps.                                     *)
LEMMA KeptKeyType ==
    ASSUME NEW s \in Schemes, NEW pair \in PairsOf(s)
    PROVE  initPrivateKey(s, pair.priv) \in KeptKeys(s)
<1>0. q \in Nat /\ \A x \in Zq : x \in 0 .. q /\ q - x \in 0 .. q
  BY ZqExps DEF Zq
<1>1. CASE s = "ElGamal"
  <2>1. pair.priv \in Zq
    BY <1>1, ElGamalPairShape DEF PairsOf
  <2> QED
    BY <1>0, <1>1, <2>1 DEF initPrivateKey, KeptKeys
<1>2. CASE s = "ElGamalBytes"
  <2>1. pair.priv \in Zq
    BY <1>2, ElGamalPairShape DEF PairsOf
  <2> QED
    BY <1>0, <1>2, <2>1 DEF initPrivateKey, KeptKeys
<1>3. CASE s = "CramerShoup"
  <2>1. PICK x1, x2, y1, y2, z \in Zq : pair.priv = <<x1, x2, y1, y2, z>>
    BY <1>3, CramerShoupPairShape DEF PairsOf
  <2>2. initPrivateKey(s, pair.priv) = <<x1, x2, y1, y2, q - z>>
    BY <1>3, <2>1 DEF initPrivateKey
  <2>3. q - z \in 0 .. q
    BY <1>0
  <2> QED
    BY <1>3, <2>2, <2>3 DEF KeptKeys
<1> QED
  BY <1>1, <1>2, <1>3, AsymAssumption

(* The type invariant is inductive.                                        *)
THEOREM AsymTypeCorrect == AsymSpec => []AsymTypeOK
<1>1. AsymInit => AsymTypeOK
  BY DEF AsymInit, AsymTypeOK
<1>2. AsymTypeOK /\ [AsymNext]_asymVars => AsymTypeOK'
  <2> SUFFICES ASSUME AsymTypeOK, [AsymNext]_asymVars PROVE AsymTypeOK'
    OBVIOUS
  <2> USE DEF AsymTypeOK
  <2>1. CASE generateKey
    BY <2>1 DEF generateKey
  <2>2. ASSUME NEW pair \in keys, setKeyPair(pair) PROVE AsymTypeOK'
    <3>1. initPrivateKey(scheme, pair.priv) \in KeptKeys(scheme)
      BY KeptKeyType
    <3> QED
      BY <2>2, <3>1 DEF setKeyPair
  <2>3. ASSUME NEW pair \in keys, setPublicKey(pair) PROVE AsymTypeOK'
    BY <2>3 DEF setPublicKey
  <2>4. CASE setKeyThrows
    BY <2>4 DEF setKeyThrows
  <2>p. ASSUME NEW ct, NEW text, NEW pk \in {Null, publicKey},
               Produce(Cipher(ct, text, pk)),
               UNCHANGED <<scheme, keySet, publicKey, privateKey, keys>>
        PROVE  AsymTypeOK'
    <3>1. Cipher(ct, text, pk).pk = pk
      BY DEF Cipher
    <3>2. CASE publicKey = Null
      BY <2>p, <3>2 DEF Produce
    <3>3. CASE publicKey # Null
      <4>1. ciphers' = ciphers \cup {Cipher(ct, text, pk)} /\ UNCHANGED crashed
        BY <2>p, <3>3 DEF Produce
      <4> QED
        BY <2>p, <3>1, <4>1
    <3> QED
      BY <3>2, <3>3
  <2>5. ASSUME NEW m, NEW r, encrypt(m, r) PROVE AsymTypeOK'
    BY <2>5, <2>p DEF encrypt
  <2>6. ASSUME NEW c1, NEW c2, NEW r, multiply(c1, c2, r) PROVE AsymTypeOK'
    <3> DEFINE pk == IF {c1.pk, c2.pk} = {publicKey} THEN publicKey ELSE Null
    <3>1. pk \in {Null, publicKey}
      OBVIOUS
    <3> HIDE DEF pk
    <3>2. /\ Produce(Cipher(ElGamalMultiply(publicKey, c1.ct, c2.ct, r),
                            Mul(c1.text, c2.text), pk))
          /\ UNCHANGED <<scheme, keySet, publicKey, privateKey, keys>>
      BY <2>6 DEF multiply, pk
    <3> QED
      BY <2>p, <3>1, <3>2
  <2>7. ASSUME NEW c \in ciphers, Rebuild(c) PROVE AsymTypeOK'
    <3>1. [c EXCEPT !.ct = reconstructCiphertext(scheme, @), !.rebuilt = TRUE].pk = c.pk
      OBVIOUS
    <3> QED
      BY <2>7, <3>1 DEF Rebuild
  <2>8. CASE UNCHANGED asymVars
    BY <2>8 DEF asymVars
  <2> QED
    BY <2>1, <2>2, <2>3, <2>4, <2>5, <2>6, <2>7, <2>8 DEF AsymNext
<1> QED
  BY <1>1, <1>2, PTL DEF AsymSpec

-----------------------------------------------------------------------------
(* A ciphertext that is an encryption of its text.  The text is part of    *)
(* the inductive invariant: multiply needs it to be in the group.          *)
IsEncryption(c) == \E r \in Zq : c.ct = EncryptionOf(scheme, c.pk, c.text, r)

Good(c) ==
    /\ DOMAIN c = {"ct", "text", "pk", "rebuilt"}
    /\ c.text \in Carrier(scheme)
    /\ c.pk # Null /\ Intact(c) => IsEncryption(c)

Held == AsymTypeOK /\ \A c \in ciphers : Good(c)

LEMMA GoodCipher ==
    ASSUME NEW ct, NEW text \in Carrier(scheme), NEW pk,
           pk # Null => \E r \in Zq : ct = EncryptionOf(scheme, pk, text, r)
    PROVE  Good(Cipher(ct, text, pk))
BY DEF Good, Cipher, Intact, IsEncryption

(* The steps that change ciphers.                                          *)
LEMMA EncryptHeld ==
    ASSUME Held, NEW m \in PlaintextsOf(scheme), NEW r, encrypt(m, r)
    PROVE  \A c \in ciphers' : Good(c)
<1>1. m \in Carrier(scheme)
  BY AsymAssumption DEF PlaintextsOf, Carrier
<1>2. Good(Cipher(EncryptionOf(scheme, publicKey, m, r), m, publicKey))
  BY <1>1, GoodCipher DEF encrypt
<1> QED
  BY <1>2 DEF encrypt, Produce, Held

LEMMA MultiplyHeld ==
    ASSUME Held, NEW c1 \in ciphers, NEW c2 \in ciphers, NEW w, multiply(c1, c2, w)
    PROVE  \A c \in ciphers' : Good(c)
<1> DEFINE pk == IF {c1.pk, c2.pk} = {publicKey} THEN publicKey ELSE Null
<1> DEFINE ct == ElGamalMultiply(publicKey, c1.ct, c2.ct, w)
<1> DEFINE text == Mul(c1.text, c2.text)
<1>1. scheme = "ElGamal" /\ w \in Zq /\ Good(c1) /\ Good(c2)
  BY DEF multiply, Held
<1>2. c1.text \in G /\ c2.text \in G /\ Carrier(scheme) = G
  BY <1>1 DEF Good, Carrier
<1>3. text \in Carrier(scheme)
  BY <1>2, DlogAssumption DEF GroupLaws
<1>4. ASSUME pk # Null
      PROVE  \E r \in Zq : ct = EncryptionOf(scheme, pk, text, r)
  <2>1. c1.pk = publicKey /\ c2.pk = publicKey /\ pk = publicKey /\ publicKey # Null
    BY <1>4
  <2>2. publicKey \in G
    <3>1. PICK pair \in keys : publicKey = pair.pub
      BY <2>1 DEF Held, AsymTypeOK
    <3>2. pair \in ElGamalPairs
      BY <1>1 DEF Held, AsymTypeOK, PairsOf
    <3> QED
      BY <3>1, <3>2, ElGamalPairShape
  <2>3. \A c, b, r : EncryptionOf(scheme, c, b, r) = ElGamalEncrypt(c, b, r)
    BY <1>1 DEF EncryptionOf
  <2>4. PICK r1 \in Zq : c1.ct = ElGamalEncrypt(publicKey, c1.text, r1)
    BY <1>1, <2>1, <2>3 DEF Good, Intact, IsEncryption
  <2>5. PICK r2 \in Zq : c2.ct = ElGamalEncrypt(publicKey, c2.text, r2)
    BY <1>1, <2>1, <2>3 DEF Good, Intact, IsEncryption
  <2>6. /\ SumOf(w, r1, r2) \in Zq
        /\ ct = ElGamalEncrypt(publicKey, text, SumOf(w, r1, r2))
    BY <1>1, <1>2, <2>2, <2>4, <2>5, ProductIsEncryption
  <2> QED
    BY <2>1, <2>3, <2>6
<1> HIDE DEF pk, ct, text
<1>5. Good(Cipher(ct, text, pk))
  BY <1>3, <1>4, GoodCipher
<1>6. Produce(Cipher(ct, text, pk))
  BY DEF multiply, pk, ct, text
<1> QED
  BY <1>5, <1>6 DEF Produce, Held

LEMMA RebuildHeld ==
    ASSUME Held, NEW d \in ciphers, Rebuild(d)
    PROVE  \A c \in ciphers' : Good(c)
<1> DEFINE new == [d EXCEPT !.ct = reconstructCiphertext(scheme, @), !.rebuilt = TRUE]
<1>1. Good(d)
  BY DEF Held
<1>2. /\ DOMAIN new = DOMAIN d /\ new.text = d.text /\ new.pk = d.pk
      /\ new.rebuilt = TRUE /\ new.ct = reconstructCiphertext(scheme, d.ct)
  BY <1>1 DEF Good
<1> HIDE DEF new
<1>3. ASSUME scheme = "CramerShoup" PROVE Good(new)
  BY <1>1, <1>2, <1>3 DEF Good, Intact
<1>4. ASSUME scheme # "CramerShoup" PROVE Good(new)
  <2>1. new.ct = d.ct
    BY <1>2, <1>4 DEF reconstructCiphertext
  <2> QED
    BY <1>1, <1>2, <1>4, <2>1 DEF Good, Intact, IsEncryption
<1>5. Good(new)
  BY <1>3, <1>4
<1> QED
  BY <1>5 DEF Rebuild, Held, new

LEMMA HeldInvariant == AsymSpec => []Held
<1>1. AsymInit => Held
  BY DEF AsymInit, AsymTypeOK, Held
<1>2. AsymTypeOK /\ AsymTypeOK' /\ Held /\ [AsymNext]_asymVars => Held'
  <2> SUFFICES ASSUME AsymTypeOK', Held, [AsymNext]_asymVars PROVE Held'
    OBVIOUS
  <2>1. scheme' = scheme
    BY DEF AsymNext, asymVars, generateKey, setKeyPair, setPublicKey, setKeyThrows,
           encrypt, multiply, Rebuild
  <2>2. \A c : Good(c)' <=> Good(c)
    BY <2>1 DEF Good, Intact, IsEncryption
  <2>3. CASE UNCHANGED ciphers
    BY <2>2, <2>3 DEF Held
  <2>4. ASSUME NEW m \in PlaintextsOf(scheme), NEW r \in Randoms, encrypt(m, r)
        PROVE  Held'
    BY <2>2, <2>4, EncryptHeld DEF Held
  <2>5. ASSUME NEW c1 \in ciphers, NEW c2 \in ciphers, NEW r \in Randoms,
               multiply(c1, c2, r)
        PROVE  Held'
    BY <2>2, <2>5, MultiplyHeld DEF Held
  <2>6. ASSUME NEW c \in ciphers, Rebuild(c) PROVE Held'
    BY <2>2, <2>6, RebuildHeld DEF Held
  <2>7. \/ UNCHANGED ciphers
        \/ \E m \in PlaintextsOf(scheme), r \in Randoms : encrypt(m, r)
        \/ \E c1, c2 \in ciphers, r \in Randoms : multiply(c1, c2, r)
        \/ \E c \in ciphers : Rebuild(c)
    BY DEF AsymNext, asymVars, generateKey, setKeyPair, setPublicKey, setKeyThrows
  <2> QED
    BY <2>3, <2>4, <2>5, <2>6, <2>7
<1> QED
  BY <1>1, <1>2, AsymTypeCorrect, PTL DEF AsymSpec

-----------------------------------------------------------------------------
(* Whatever calls setKey, encrypt, multiply and reconstructCiphertext are  *)
(* made, in whatever order, every ciphertext of one key is an encryption   *)
(* of its text, in every group and with every key pair.                    *)
THEOREM HeldIsEncryptionCorrect == AsymSpec => []HeldIsEncryption
<1>1. Held => HeldIsEncryption
  BY DEF Held, HeldIsEncryption, Good, IsEncryption
<1> QED
  BY <1>1, HeldInvariant, PTL

(* decrypt returns the text of every ciphertext that is for the key of the *)
(* object: for ElGamal in every group, and for Cramer-Shoup in the groups  *)
(* whose exponentiate ignores the sign of the hash, as checkValidity does. *)
THEOREM DecryptsOwnCorrect ==
    ASSUME \A s \in Schemes : Decryptable(s)
    PROVE  AsymSpec => []DecryptsOwn
<1>1. Held => DecryptsOwn
  <2> SUFFICES ASSUME Held, NEW c \in ciphers, CanOpen(c), Intact(c) PROVE Opens(c)
    BY DEF DecryptsOwn
  <2>1. PICK pair \in keys :
            pair.pub = c.pk /\ privateKey = initPrivateKey(scheme, pair.priv)
    BY DEF CanOpen
  <2>2. scheme \in Schemes /\ pair \in PairsOf(scheme) /\ Good(c)
    BY DEF Held, AsymTypeOK
  <2>3. c.pk # Null
    BY <2>1, <2>2, NullAssumption
  <2>4. PICK r \in Zq : c.ct = EncryptionOf(scheme, pair.pub, c.text, r)
    BY <2>1, <2>2, <2>3 DEF Good, IsEncryption
  <2>5. c.text \in Carrier(scheme)
    BY <2>2 DEF Good
  <2> QED
    BY <2>1, <2>2, <2>4, <2>5, Opening DEF Opens
<1> QED
  BY <1>1, HeldInvariant, PTL
-----------------------------------------------------------------------------
(* The pseudo-random generator.                                            *)

(* Division with remainder.                                                *)
LEMMA Euclid ==
    ASSUME NEW a \in Nat, NEW b \in Nat \ {0}
    PROVE  a \div b \in Nat /\ b * (a \div b) <= a /\ a < b * (a \div b) + b
  BY SMT

(* A smaller multiple is smaller by at least the factor.                   *)
LEMMA MultipleGap ==
    ASSUME NEW w \in Nat \ {0}, NEW a \in Nat, NEW b \in Nat, w * a < w * b
    PROVE  w * a + w <= w * b
  <1>1. a < b
    BY SMT
  <1>2. a + 1 <= b
    BY <1>1, SMT
  <1>3. w * (a + 1) <= w * b
    BY <1>2, SMT
  <1> QED
    BY <1>3, SMT

(* The blocks that n bytes touch hold n bytes, and no byte touches none.   *)
LEMMA BlocksHold ==
    ASSUME NEW n \in Nat
    PROVE  Blocks(n) \in Nat /\ n <= Blocks(n) * Block
  <1>1. Block \in Nat \ {0} /\ n + Block - 1 \in Nat
    BY PrgAssumption, SMT
  <1>2. (n + Block - 1) \div Block \in Nat
        /\ n + Block - 1 < Block * ((n + Block - 1) \div Block) + Block
    BY <1>1, Euclid
  <1> QED
    BY <1>1, <1>2, SMT DEF Blocks

(* More bytes touch no fewer blocks.                                       *)
LEMMA BlocksGrow ==
    ASSUME NEW n \in Nat, NEW m \in Nat
    PROVE  Blocks(n) * Block <= Blocks(n + m) * Block
  <1> DEFINE a == (n + Block - 1) \div Block
             b == (n + m + Block - 1) \div Block
  <1>1. Block \in Nat \ {0} /\ n + Block - 1 \in Nat /\ n + m + Block - 1 \in Nat
    BY PrgAssumption, SMT
  <1>2. a \in Nat /\ Block * a <= n + Block - 1
    BY <1>1, Euclid
  <1>3. b \in Nat /\ n + m + Block - 1 < Block * b + Block
    BY <1>1, Euclid
  <1>4. Blocks(n) = a /\ Blocks(n + m) = b
    BY DEF Blocks
  <1> HIDE DEF a, b
  <1>5. Block * a < Block * (b + 1)
    BY <1>1, <1>2, <1>3, SMT
  <1>6. a < b + 1
    BY <1>1, <1>2, <1>3, <1>5, SMT
  <1>7. a <= b
    BY <1>2, <1>3, <1>6, SMT
  <1>8. a * Block <= b * Block
    BY <1>1, <1>2, <1>3, <1>7, SMT
  <1> QED
    BY <1>4, <1>8

LEMMA NoBlocks == Blocks(0) = 0
  <1>1. Block \in Nat \ {0} /\ Block - 1 \in Nat
    BY PrgAssumption, SMT
  <1>2. (Block - 1) \div Block \in Nat /\ Block * ((Block - 1) \div Block) <= Block - 1
    BY <1>1, Euclid
  <1>3. (Block - 1) \div Block = 0
    <2> DEFINE d == (Block - 1) \div Block
    <2>1. d \in Nat /\ Block * d <= Block - 1
      BY <1>2
    <2> HIDE DEF d
    <2>2. d = 0
      BY <1>1, <2>1, SMT
    <2> QED
      BY <2>2 DEF d
  <1> QED
    BY <1>1, <1>3, SMT DEF Blocks

(* A word rounded up lies after the bytes before it, and ends before any   *)
(* multiple of its width that leaves room for it unrounded.                *)
LEMMA AlignedFits ==
    ASSUME NEW w \in Nat \ {0}, NEW n \in Nat, NEW m \in Nat, n + w <= w * m
    PROVE  Aligned(n, w) \in Nat /\ n <= Aligned(n, w) /\ Aligned(n, w) + w <= w * m
  <1> DEFINE a == (n + w - 1) \div w
  <1>1. n + w - 1 \in Nat
    BY SMT
  <1>2. a \in Nat /\ w * a <= n + w - 1 /\ n + w - 1 < w * a + w
    BY <1>1, Euclid
  <1>3. Aligned(n, w) = a * w
    BY DEF Aligned
  <1> HIDE DEF a
  <1>4. w * a \in Nat /\ w * m \in Nat /\ a * w = w * a
    BY <1>2, SMT
  <1>5. w * a < w * m
    BY <1>2, <1>4, SMT
  <1>6. w * a + w <= w * m
    BY <1>2, <1>5, MultipleGap
  <1> QED
    BY <1>2, <1>3, <1>4, <1>6, SMT

(* The width of a word divides the block, and so any number of blocks.     *)
LEMMA WordsOfBlocks ==
    ASSUME NEW w \in Widths, NEW c \in Nat
    PROVE  \E m \in Nat : c * Block = w * m
  <1>1. PICK d \in 1 .. Block : Block = w * d
    BY PrgAssumption
  <1>2. d \in Nat /\ w \in Nat /\ d * c \in Nat
    BY <1>1, PrgAssumption, SMT
  <1>3. c * (w * d) = w * (d * c)
    BY <1>2, SMT
  <1> QED
    BY <1>1, <1>2, <1>3

LEMMA WordInBlocks ==
    ASSUME NEW w \in Widths, NEW n \in Nat, NEW c \in Nat, n + w <= c * Block
    PROVE  Aligned(n, w) \in Nat /\ n <= Aligned(n, w) /\ Aligned(n, w) + w <= c * Block
  <1>1. PICK m \in Nat : c * Block = w * m
    BY WordsOfBlocks
  <1>2. w \in Nat \ {0}
    BY PrgAssumption
  <1> QED
    BY <1>1, <1>2, AlignedFits

-----------------------------------------------------------------------------
(* The bytes handed out lie before the cursor, unless words were rounded;  *)
(* and in every case before the block a refill would begin with, unless a  *)
(* strict generator, which is never refilled, went back in a failed setKey.*)
Cursor == startingIndex * Block + idxForBytes

Refill == (startingIndex + Blocks(idxForBytes)) * Block

PrgInv ==
    /\ PrgTypeOK
    /\ cache.start = startingIndex
    /\ ~mixed => \A p \in used \union out : p < Cursor
    /\ ~isStrict => \A p \in used \union out : p < Refill
    /\ NoByteTwice
    /\ InsideCache
    /\ NewKeyInForce
    /\ StreamFromStart

LEMMA Product == \A a, b \in Nat : a * b \in Nat
  BY SMT

LEMMA PrgConstants ==
    /\ Block \in Nat \ {0} /\ cachedSize \in Nat \ {0} /\ MaxIndex \in Nat /\ Size \in Nat
    /\ Lengths \subseteq Nat /\ Widths \subseteq Nat \ {0}
  BY PrgAssumption, SMT DEF Size

LEMMA PrgInitInv == PrgInit => PrgInv
  <1> SUFFICES ASSUME PrgInit PROVE PrgInv
    OBVIOUS
  <1>0. 0 \in 0 .. MaxIndex
    BY PrgConstants
  <1>1. PrgTypeOK
    BY <1>0 DEF PrgInit, PrgTypeOK
  <1> QED
    BY <1>1 DEF PrgInit, PrgInv, NoByteTwice, InsideCache, NewKeyInForce, StreamFromStart

(* What the index and the cache are after a request.                       *)
LEMMA GiveIndex ==
    ASSUME PrgInv, NEW short \in BOOLEAN, NEW mixes \in BOOLEAN, NEW n \in Nat,
           NEW offset \in Nat, give(short, n, offset, mixes)
    PROVE  /\ startingIndex' \in 0 .. MaxIndex
           /\ startingIndex' = IF short THEN startingIndex + Blocks(idxForBytes)
                                        ELSE startingIndex
           /\ cache' \in [key : Keys, start : 0 .. MaxIndex]
           /\ cache'.start = startingIndex'
           /\ ~isStrict /\ _isKeySet => cache'.key = key
  <1>1. /\ startingIndex \in Nat /\ startingIndex <= MaxIndex /\ idxForBytes \in Nat
        /\ key \in Keys /\ cache \in [key : Keys, start : 0 .. MaxIndex]
        /\ Blocks(idxForBytes) \in Nat /\ MaxIndex \in Nat
        /\ cache.start = startingIndex /\ NewKeyInForce
    BY BlocksHold, PrgConstants DEF PrgInv, PrgTypeOK
  <1>2. CASE short
    <2>1. /\ startingIndex' = startingIndex + Blocks(idxForBytes) /\ startingIndex' <= MaxIndex
          /\ cache' = [key |-> key, start |-> startingIndex']
      BY <1>2 DEF give, refill
    <2> QED
      BY <1>1, <1>2, <2>1
  <1>3. CASE ~short
    BY <1>1, <1>3 DEF give, NewKeyInForce
  <1> QED
    BY <1>2, <1>3

LEMMA GiveType ==
    ASSUME PrgInv, NEW short \in BOOLEAN, NEW mixes \in BOOLEAN, NEW n \in Nat,
           NEW offset \in Nat, give(short, n, offset, mixes)
    PROVE  /\ PrgTypeOK'
           /\ out' = Span(startingIndex' * Block + offset, n)
           /\ startingIndex' * Block \in Nat
  <1>1. /\ startingIndex' \in Nat /\ startingIndex' \in 0 .. MaxIndex /\ Block \in Nat
        /\ cache' \in [key : Keys, start : 0 .. MaxIndex] /\ cache'.start = startingIndex'
    BY GiveIndex, PrgConstants
  <1>2. startingIndex' * Block \in Nat
    BY <1>1, Product
  <1>3. out' = Span(startingIndex' * Block + offset, n)
    BY <1>1 DEF give
  <1>4. out' \subseteq Nat
    BY <1>2, <1>3, SMT DEF Span
  <1>5. idxForBytes' \in Nat /\ asked' \in Nat /\ used' \subseteq Nat /\ key' \in Keys
    BY DEF give, PrgInv, PrgTypeOK
  <1>6. isStrict' \in BOOLEAN /\ _isKeySet' \in BOOLEAN /\ mixed' \in BOOLEAN
        /\ refilled' \in BOOLEAN
    BY DEF give, PrgInv, PrgTypeOK
  <1> QED
    BY <1>1, <1>2, <1>3, <1>4, <1>5, <1>6 DEF PrgTypeOK

(* A request keeps the invariant when its bytes lie where its index says,  *)
(* or, if it was rounded, before the block of the next refill, and when it *)
(* stays inside the cache if it is not too long for it.                    *)
LEMMA GiveStep ==
    ASSUME PrgInv, NEW short \in BOOLEAN, NEW mixes \in BOOLEAN, NEW n \in Nat,
           NEW offset \in Nat, NEW from \in Nat,
           from = IF short THEN 0 ELSE idxForBytes,
           ~mixes => offset = from,
           offset + n <= Blocks(from + n) * Block,
           n <= Size => offset + n <= Size,
           give(short, n, offset, mixes)
    PROVE  PrgInv'
  <1> DEFINE base == startingIndex' * Block
  <1>1. /\ PrgTypeOK' /\ base \in Nat /\ out' = Span(base + offset, n)
        /\ used' = used \union out /\ idxForBytes' = from + n /\ asked' = n
        /\ mixed' = ((mixed /\ ~short) \/ mixes) /\ refilled' = (refilled \/ short)
        /\ isStrict' = isStrict /\ _isKeySet' = _isKeySet /\ key' = key
        /\ short => ~isStrict
    BY GiveType DEF give
  <1>2. /\ startingIndex' = IF short THEN startingIndex + Blocks(idxForBytes) ELSE startingIndex
        /\ cache'.start = startingIndex' /\ startingIndex' \in Nat
        /\ ~isStrict /\ _isKeySet => cache'.key = key
    BY GiveIndex
  <1>3. used \union out \subseteq Nat
    BY DEF PrgInv, PrgTypeOK
  <1>4. short => \A p \in used \union out : p < base
    BY <1>1, <1>2 DEF PrgInv, Refill
  <1>5. ~short => base = startingIndex * Block /\ from = idxForBytes
    BY <1>2
  <1>6. ~short /\ ~mixed => \A p \in used \union out : p < base + from
    BY <1>5 DEF PrgInv, Cursor
  <1> HIDE DEF base
  <1>7. \A p \in out' : p \in Nat /\ base + offset <= p /\ p < base + offset + n
    BY <1>1 DEF Span
  <1>8. ~mixed' => \A p \in used \union out : p < base + from
    <2> SUFFICES ASSUME ~mixed', NEW p \in used \union out  PROVE p < base + from
      OBVIOUS
    <2>1. p \in Nat /\ base \in Nat
      BY <1>1, <1>3
    <2>2. CASE short
      BY <1>4, <2>1, <2>2
    <2>3. CASE ~short
      <3>1. ~mixed
        BY <1>1, <2>3
      <3> QED
        BY <1>6, <2>3, <3>1
    <2> QED
      BY <2>2, <2>3
  <1>9. NoByteTwice'
    <2> SUFFICES ASSUME ~mixed', NEW p \in out', p \in used'  PROVE FALSE
      BY DEF NoByteTwice
    <2>1. p < base + from /\ offset = from
      BY <1>1, <1>8
    <2> QED
      BY <1>1, <1>7, <2>1
  <1>10. ~mixed' => \A p \in used' \union out' : p < base + idxForBytes'
    BY <1>1, <1>3, <1>7, <1>8
  <1>11. ~isStrict' => \A p \in used' \union out' : p < base + Blocks(idxForBytes') * Block
    <2> DEFINE room == Blocks(from + n) * Block
    <2>1. from + n \in Nat /\ Blocks(from + n) \in Nat /\ from + n <= room /\ room \in Nat
      BY BlocksHold, Product, PrgConstants
    <2>2. ASSUME ~short, ~isStrict
          PROVE  \A p \in used \union out : p < base + Blocks(idxForBytes) * Block
      <3>1. /\ startingIndex \in Nat /\ Blocks(idxForBytes) \in Nat /\ Block \in Nat
            /\ \A p \in used \union out : p < Refill
        BY <2>2, BlocksHold, PrgConstants DEF PrgInv, PrgTypeOK
      <3>2. Refill = startingIndex * Block + Blocks(idxForBytes) * Block
        BY <3>1, SMT DEF Refill
      <3> QED
        BY <2>2, <1>5, <3>1, <3>2
    <2>3. ~short => Blocks(idxForBytes) * Block <= room
      BY BlocksGrow, <1>5 DEF PrgInv, PrgTypeOK
    <2> HIDE DEF room
    <2>4. ASSUME ~isStrict, NEW p \in used \union out  PROVE p < base + room
      <3>1. p \in Nat
        BY <1>3
      <3>2. CASE short
        BY <3>1, <3>2, <1>1, <1>4, <2>1
      <3>3. CASE ~short
        <4>1. p < base + Blocks(idxForBytes) * Block /\ Blocks(idxForBytes) * Block <= room
          BY <2>2, <2>3, <2>4, <3>3
        <4>2. Blocks(idxForBytes) * Block \in Nat
          BY BlocksHold, Product, PrgConstants DEF PrgInv, PrgTypeOK
        <4> QED
          BY <3>1, <4>1, <4>2, <1>1, <2>1
      <3> QED
        BY <3>2, <3>3
    <2>5. \A p \in out' : p < base + room
      <3>1. offset + n <= room
        BY DEF room
      <3> QED
        BY <1>1, <1>7, <2>1, <3>1
    <2>6. Blocks(idxForBytes') * Block = room
      BY <1>1 DEF room
    <2> QED
      BY <1>1, <2>4, <2>5, <2>6
  <1>12. InsideCache'
    <2> SUFFICES ASSUME asked' <= Size, NEW p \in out'
                 PROVE  p \in Span(base, Size)
      BY <1>2 DEF InsideCache, base
    <2> QED
      BY <1>1, <1>7, PrgConstants DEF Span
  <1>13. StreamFromStart'
    BY <1>1, <1>2 DEF StreamFromStart, PrgInv
  <1>14. NewKeyInForce'
    BY <1>1, <1>2 DEF NewKeyInForce
  <1>15. Cursor' = base + idxForBytes' /\ Refill' = base + Blocks(idxForBytes') * Block
    <2>1. startingIndex' \in Nat /\ Blocks(idxForBytes') \in Nat /\ Block \in Nat
      BY <1>1, <1>2, BlocksHold, PrgConstants
    <2>2. (startingIndex' + Blocks(idxForBytes')) * Block
            = startingIndex' * Block + Blocks(idxForBytes') * Block
      BY <2>1, SMT
    <2> QED
      BY <2>2 DEF base, Cursor, Refill, Blocks
  <1> QED
    BY <1>1, <1>2, <1>9, <1>10, <1>11, <1>12, <1>13, <1>14, <1>15 DEF PrgInv

(* Every request is one that GiveStep is about.                            *)
LEMMA BytesStep ==
    ASSUME PrgInv, NEW n \in Lengths, getPRGBytes(n), ~UNCHANGED prgVars
    PROVE  PrgInv'
  <1> DEFINE short == n + idxForBytes > Size
             from == IF short THEN 0 ELSE idxForBytes
  <1>1. n \in Nat /\ idxForBytes \in Nat /\ Size \in Nat /\ from \in Nat /\ short \in BOOLEAN
    BY PrgConstants DEF PrgInv, PrgTypeOK
  <1>2. give(short, n, from, FALSE)
    BY DEF getPRGBytes, draw, throws
  <1>3. from + n <= Blocks(from + n) * Block
    BY <1>1, BlocksHold
  <1>4. n <= Size => from + n <= Size
    BY <1>1
  <1> HIDE DEF short
  <1> QED
    BY <1>1, <1>2, <1>3, <1>4, GiveStep

LEMMA BytesEXStep ==
    ASSUME PrgInv, NEW n \in Lengths, getPRGBytesEX(n), ~UNCHANGED prgVars
    PROVE  PrgInv'
  <1> DEFINE short == n + idxForBytes > Size
             from == IF short THEN 0 ELSE idxForBytes
  <1>1. n \in Nat /\ idxForBytes \in Nat /\ Size \in Nat /\ from \in Nat /\ short \in BOOLEAN
    BY PrgConstants DEF PrgInv, PrgTypeOK
  <1>2. give(short, n, 0, TRUE)
    BY DEF getPRGBytesEX, draw, throws
  <1>3. Blocks(from + n) * Block \in Nat /\ from + n <= Blocks(from + n) * Block
    BY <1>1, BlocksHold, Product, PrgConstants
  <1>4. 0 + n <= Blocks(from + n) * Block
    <2> HIDE DEF from
    <2> QED
      BY <1>1, <1>3
  <1>5. n <= Size => 0 + n <= Size
    BY <1>1
  <1> HIDE DEF short
  <1> QED
    BY <1>1, <1>2, <1>4, <1>5, GiveStep

LEMMA RandomStep ==
    ASSUME PrgInv, NEW w \in Widths, getRandom(w), ~UNCHANGED prgVars
    PROVE  PrgInv'
  <1> DEFINE short == idxForBytes + w >= Size
             from == IF short THEN 0 ELSE idxForBytes
             offset == IF short THEN 0 ELSE Aligned(idxForBytes, w)
             mixes == ~short /\ offset # idxForBytes
  <1>1. w \in Nat /\ idxForBytes \in Nat /\ Size \in Nat /\ from \in Nat /\ short \in BOOLEAN
        /\ mixes \in BOOLEAN
    BY PrgConstants DEF PrgInv, PrgTypeOK
  <1>2. give(short, w, offset, mixes)
    BY DEF getRandom, draw, throws
  <1>3. ~mixes => offset = from
    OBVIOUS
  <1>4. Blocks(from + w) \in Nat /\ from + w <= Blocks(from + w) * Block
    BY <1>1, BlocksHold
  <1>5. offset \in Nat /\ offset + w <= Blocks(from + w) * Block
    <2>1. CASE short
      BY <1>4, <2>1
    <2>2. CASE ~short
      BY <1>1, <1>4, <2>2, WordInBlocks
    <2> QED
      BY <2>1, <2>2
  <1>6. w <= Size => offset + w <= Size
    <2>1. CASE short
      BY <1>1, <2>1
    <2>2. CASE ~short
      <3>1. cachedSize \in Nat /\ Size = cachedSize * Block /\ idxForBytes + w <= Size
        BY <1>1, <2>2, PrgConstants DEF Size
      <3>2. Aligned(idxForBytes, w) + w <= Size
        BY <1>1, <3>1, WordInBlocks
      <3> QED
        BY <2>2, <3>2
    <2> QED
      BY <2>1, <2>2
  <1> HIDE DEF short, offset, mixes
  <1> QED
    BY <1>1, <1>2, <1>3, <1>5, <1>6, GiveStep

LEMMA PrepareStep ==
    ASSUME PrgInv, prepare, ~UNCHANGED prgVars
    PROVE  PrgInv'
  <1>1. /\ ~isStrict /\ refill(idxForBytes, key) /\ idxForBytes' = 0 /\ asked' = 0
        /\ used' = used \union out /\ out' = {} /\ mixed' = FALSE /\ refilled' = TRUE
        /\ isStrict' = isStrict /\ _isKeySet' = _isKeySet /\ key' = key
    BY DEF prepare, throws
  <1>2. /\ startingIndex \in Nat /\ Blocks(idxForBytes) \in Nat /\ MaxIndex \in Nat
        /\ key \in Keys /\ used \union out \subseteq Nat
        /\ isStrict \in BOOLEAN /\ _isKeySet \in BOOLEAN
        /\ \A p \in used \union out : p < Refill
    BY <1>1, BlocksHold, PrgConstants DEF PrgInv, PrgTypeOK
  <1>3. /\ startingIndex' = startingIndex + Blocks(idxForBytes) /\ startingIndex' \in 0 .. MaxIndex
        /\ cache' = [key |-> key, start |-> startingIndex']
    BY <1>1, <1>2 DEF refill
  <1>4. PrgTypeOK'
    BY <1>1, <1>2, <1>3 DEF PrgTypeOK
  <1>5. Cursor' = Refill /\ Refill' = Refill
    <2>1. Block \in Nat /\ Refill \in Nat /\ startingIndex' * Block = Refill
      BY <1>2, <1>3, PrgConstants, Product DEF Refill
    <2>2. Cursor' = startingIndex' * Block + 0
      BY <1>1 DEF Cursor
    <2>3. Refill' = (startingIndex' + 0) * Block
      BY <1>1, NoBlocks DEF Refill, Blocks
    <2> QED
      BY <1>3, <2>1, <2>2, <2>3
  <1>6. NoByteTwice' /\ InsideCache' /\ NewKeyInForce' /\ StreamFromStart'
    BY <1>1, <1>3 DEF NoByteTwice, InsideCache, NewKeyInForce, StreamFromStart
  <1> QED
    BY <1>1, <1>2, <1>3, <1>4, <1>5, <1>6 DEF PrgInv

LEMMA FirstKeyStep ==
    ASSUME PrgInv, NEW k \in Keys, setFirstKey(k), startingIndex = 0
    PROVE  PrgInv'
  <1>0. 0 \in 0 .. MaxIndex
    BY PrgConstants
  <1>1. PrgTypeOK'
    BY <1>0 DEF PrgInv, PrgTypeOK, setFirstKey, newStream
  <1> QED
    BY <1>1 DEF PrgInv, setFirstKey, newStream, NoByteTwice, InsideCache, NewKeyInForce,
                StreamFromStart

LEMMA KeyStep ==
    ASSUME PrgInv, NEW k \in Keys, setKey(k)
    PROVE  PrgInv'
  <1>1. CASE isStrict
    <2>1. /\ mixed' = TRUE /\ isStrict' = TRUE /\ key' = k /\ idxForBytes' = 0
          /\ UNCHANGED <<startingIndex, cache, asked, out, used, _isKeySet, refilled>>
      BY <1>1 DEF setKey, PrgInv, PrgTypeOK
    <2>2. PrgTypeOK'
      BY <2>1 DEF PrgInv, PrgTypeOK
    <2>3. NoByteTwice' /\ InsideCache' /\ NewKeyInForce' /\ StreamFromStart'
      BY <2>1 DEF PrgInv, NoByteTwice, InsideCache, NewKeyInForce, StreamFromStart
    <2> QED
      BY <2>1, <2>2, <2>3 DEF PrgInv
  <1>2. CASE ~isStrict
    <2>1. /\ asked' = 0 /\ out' = {} /\ used' = {} /\ mixed' = FALSE
          /\ key' = k /\ idxForBytes' = 0 /\ refill(0, k)
          /\ UNCHANGED <<isStrict, _isKeySet, refilled>>
      BY <1>2 DEF setKey, newStream
    <2>2. /\ startingIndex' = startingIndex /\ cache' = [key |-> k, start |-> startingIndex]
          /\ startingIndex \in 0 .. MaxIndex
      BY <2>1, NoBlocks, PrgConstants DEF refill, PrgInv, PrgTypeOK
    <2>3. PrgTypeOK'
      BY <2>1, <2>2 DEF PrgInv, PrgTypeOK
    <2>4. NoByteTwice' /\ InsideCache' /\ NewKeyInForce' /\ StreamFromStart'
      BY <2>1, <2>2 DEF PrgInv, NoByteTwice, InsideCache, NewKeyInForce, StreamFromStart
    <2> QED
      BY <2>1, <2>2, <2>3, <2>4 DEF PrgInv
  <1> QED
    BY <1>1, <1>2

-----------------------------------------------------------------------------
(* Before the first key the index is that of the constructor.              *)
FirstAtZero == ~_isKeySet => startingIndex = 0

LEMMA PrgStepInv == PrgInv /\ FirstAtZero /\ [PrgNext]_prgVars => PrgInv' /\ FirstAtZero'
  <1> SUFFICES ASSUME PrgInv, FirstAtZero, [PrgNext]_prgVars  PROVE PrgInv' /\ FirstAtZero'
    OBVIOUS
  <1>1. CASE UNCHANGED prgVars
    BY <1>1 DEF prgVars, PrgInv, FirstAtZero, PrgTypeOK, Cursor, Refill, NoByteTwice,
                InsideCache, NewKeyInForce, StreamFromStart
  <1>2. CASE PrgNext /\ ~UNCHANGED prgVars
    <2>1. ASSUME NEW k \in Keys, setFirstKey(k)  PROVE PrgInv' /\ _isKeySet'
      BY <2>1, FirstKeyStep DEF setFirstKey, FirstAtZero
    <2>2. ASSUME NEW k \in Keys, setKey(k)  PROVE PrgInv' /\ _isKeySet'
      BY <2>2, KeyStep DEF setKey
    <2>3. ASSUME NEW n \in Lengths, getPRGBytes(n)  PROVE PrgInv' /\ _isKeySet'
      BY <1>2, <2>3, BytesStep DEF getPRGBytes, draw, give, throws
    <2>4. ASSUME NEW n \in Lengths, getPRGBytesEX(n)  PROVE PrgInv' /\ _isKeySet'
      BY <1>2, <2>4, BytesEXStep DEF getPRGBytesEX, draw, give, throws
    <2>5. ASSUME NEW w \in Widths, getRandom(w)  PROVE PrgInv' /\ _isKeySet'
      BY <1>2, <2>5, RandomStep DEF getRandom, draw, give, throws
    <2>6. ASSUME prepare  PROVE PrgInv' /\ _isKeySet'
      BY <1>2, <2>6, PrepareStep DEF prepare, throws
    <2> QED
      BY <1>2, <2>1, <2>2, <2>3, <2>4, <2>5, <2>6 DEF PrgNext, FirstAtZero
  <1> QED
    BY <1>1, <1>2

LEMMA PrgAlways == PrgSpec => []PrgInv
  <1>1. PrgInit => PrgInv /\ FirstAtZero
    BY PrgInitInv DEF PrgInit, FirstAtZero
  <1> QED
    BY <1>1, PrgStepInv, PTL DEF PrgSpec

(* getPRGBytes, getRandom and prepare hand out no byte of a stream twice,  *)
(* whatever lengths, widths and refills follow each other, unless a word   *)
(* was rounded up or getPRGBytesEX was called since the last refill.       *)
THEOREM NoByteTwiceCorrect == PrgSpec => []NoByteTwice
  BY PrgAlways, PTL DEF PrgInv

(* No request that fits the cache reads outside it.                        *)
THEOREM InsideCacheCorrect == PrgSpec => []InsideCache
  BY PrgAlways, PTL DEF PrgInv

(* setKey puts the new key in force, and gives the stream of a new object  *)
(* unless the cache was refilled before.                                   *)
THEOREM SetKeyCorrect == PrgSpec => []SameKeySameStream
  BY PrgAlways, PTL DEF PrgInv, SameKeySameStream
=============================================================================
