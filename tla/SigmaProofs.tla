---------------------------- MODULE SigmaProofs ----------------------------
(***************************************************************************)
(* Completeness, simulation and special soundness of the sigma protocols,  *)
(* for every group that satisfies the laws of module Dlog.                 *)
(***************************************************************************)
EXTENDS SigmaProtocols, DlogProofs, TLAPS

(* The shape of a converted statement.                                     *)
Shape(k, x) ==
    /\ k = "Dlog" => \E h \in G : x = DlogInput(h)
    /\ k = "DH" => \E h, u, v \in G : x = DHInput(h, u, v)
    /\ k = "DHExtended" => \A i \in DOMAIN x.bases : x.bases[i] \in G /\ x.images[i] \in G
    /\ k = "Pedersen" => \E h, c \in G : x = PedersenInput(h, c)

(* A true statement with its witness.                                      *)
Proved(k, x, w) ==
    /\ Shape(k, x)
    /\ w \in RandomPairs(k)
    /\ w # NoWitness
    /\ Relation(k, x, w)

(* Secrets are exponents, and public keys elements of the group.           *)
LEMMA KeyTypes ==
    /\ Secrets \subseteq Zq
    /\ PublicKeys \subseteq G
    /\ g \in G
<1>1. Secrets \subseteq Zq /\ g \in G
  BY SigmaAssumption, DlogAssumption DEF GroupLaws
<1>2. \A s \in Secrets : Exp(g, s) \in G
  BY <1>1, PowerFacts
<1> QED
  BY <1>1, <1>2 DEF PublicKeys

(* Two facts about witnesses, which are pairs.                             *)
LEMMA WitnessPair ==
    ASSUME NEW k, NEW s \in Zq
    PROVE  /\ <<s, 0>> \in RandomPairs(k)
           /\ <<s, 0>> # NoWitness
           /\ \A r \in Zq : <<s, r>> \in RandomPairs("Pedersen") /\ <<s, r>> # NoWitness
<1>1. 0 \in Zq
  BY ZqExps
<1> QED
  BY <1>1 DEF RandomPairs, NoWitness

(* Removing the message from an ElGamal or Cramer-Shoup ciphertext.        *)
LEMMA Unmask ==
    ASSUME NEW a \in G, NEW m \in G
    PROVE  Mul(Mul(a, m), Inv(m)) = a
BY DlogAssumption DEF GroupLaws

(* The statement of SigmaDlog.                                             *)
LEMMA DlogStatement ==
    ASSUME NEW s \in Zq, NEW b \in G, b = Exp(g, s)
    PROVE  Proved("Dlog", DlogInput(b), <<s, 0>>)
<1>1. Shape("Dlog", DlogInput(b))
  BY DEF Shape
<1>2. Relation("Dlog", DlogInput(b), <<s, 0>>)
  BY DEF Relation, DlogInput
<1> QED
  BY <1>1, <1>2, WitnessPair DEF Proved

(* The statement of SigmaDH.                                               *)
LEMMA DHStatement ==
    ASSUME NEW s \in Zq, NEW h \in G, NEW u \in G, NEW v \in G,
           u = Exp(g, s), v = Exp(h, s)
    PROVE  Proved("DH", DHInput(h, u, v), <<s, 0>>)
<1>1. Shape("DH", DHInput(h, u, v))
  BY DEF Shape
<1>2. Relation("DH", DHInput(h, u, v), <<s, 0>>)
  BY DEF Relation, DHInput
<1> QED
  BY <1>1, <1>2, WitnessPair DEF Proved

(* The statement of SigmaPedersenCmtKnowledge, for a commitment of         *)
(* CmtPedersenCommitter.                                                   *)
LEMMA PedersenStatement ==
    ASSUME NEW s \in Zq, NEW r \in Zq, NEW h \in G
    PROVE  Proved("Pedersen", PedersenInput(h, PedersenCommit(h, s, r)), <<s, r>>)
<1> DEFINE c == PedersenCommit(h, s, r)
<1>1. g \in G /\ Exp(g, r) \in G /\ Exp(h, s) \in G
  BY KeyTypes, PowerFacts
<1>2. c \in G /\ c = Mul(Exp(h, s), Exp(g, r))
  BY <1>1, DlogAssumption DEF GroupLaws, PedersenCommit
<1>3. Shape("Pedersen", PedersenInput(h, c))
  BY <1>2 DEF Shape
<1>4. Relation("Pedersen", PedersenInput(h, c), <<s, r>>)
  BY <1>2 DEF Relation, PedersenInput
<1> QED
  BY <1>3, <1>4, WitnessPair, Zenon DEF Proved

(* The statement of SigmaDHExtended, on two bases.                         *)
LEMMA DHExtendedStatement ==
    ASSUME NEW s \in Zq, NEW h \in G, NEW m \in G
    PROVE  Proved("DHExtended", DHExtendedInput(<<h, m>>, <<Exp(h, s), Exp(m, s)>>), <<s, 0>>)
<1>1. Exp(h, s) \in G /\ Exp(m, s) \in G
  BY PowerFacts
<1>2. Shape("DHExtended", DHExtendedInput(<<h, m>>, <<Exp(h, s), Exp(m, s)>>))
  BY <1>1 DEF Shape, DHExtendedInput
<1>3. Relation("DHExtended", DHExtendedInput(<<h, m>>, <<Exp(h, s), Exp(m, s)>>), <<s, 0>>)
  BY <1>1 DEF Relation, DHExtendedInput
<1> QED
  BY <1>2, <1>3, WitnessPair DEF Proved

(* The statement that SigmaCramerShoupEncryptedValue makes of a            *)
(* ciphertext.                                                             *)
LEMMA CramerShoupStatement ==
    ASSUME SignedLaws, NEW r \in Zq, NEW m \in G, NEW alpha \in -(q - 1) .. (q - 1),
           NEW g2 \in G, NEW h \in G, NEW c \in G, NEW d \in G, NEW key,
           key = <<g, g2, h, c, d>>
    PROVE  Proved("DHExtended",
                  CramerShoupInput(key, CramerShoupEncrypt(key, m, r, alpha), m, alpha),
                  <<r, 0>>)
<1> DEFINE b4 == Mul(c, Exp(d, Rem(alpha)))
<1> DEFINE v == Mul(Exp(c, r), Exp(d, Rem(r * alpha)))
<1> DEFINE bs == <<g, g2, h, b4>>
<1> DEFINE im == <<Exp(g, r), Exp(g2, r), Exp(h, r), v>>
<1>1. g \in G /\ r \in Exps
  BY KeyTypes, ZqExps
<1>2. Exp(g, r) \in G /\ Exp(g2, r) \in G /\ Exp(h, r) \in G /\ Exp(c, r) \in G
  BY <1>1, PowerFacts
<1>3. Exp(d, Rem(alpha)) \in G /\ Exp(d, Rem(r * alpha)) = Exp(Exp(d, Rem(alpha)), r)
  BY HashPower
<1>4. b4 \in G
  BY <1>3, DlogAssumption DEF GroupLaws
<1>5. v = Exp(b4, r) /\ v \in G
  <2>1. Exp(b4, r) = Mul(Exp(c, r), Exp(Exp(d, Rem(alpha)), r))
    BY <1>1, <1>3, DlogAssumption DEF GroupLaws
  <2>2. Exp(b4, r) \in G
    BY <1>4, PowerFacts
  <2> QED
    BY <1>3, <2>1, <2>2
<1>6. CramerShoupInput(key, CramerShoupEncrypt(key, m, r, alpha), m, alpha)
        = DHExtendedInput(bs, im)
  <2>1. Mul(Mul(Exp(h, r), m), Inv(m)) = Exp(h, r)
    BY <1>2, Unmask
  <2> QED
    BY <2>1 DEF CramerShoupInput, CramerShoupEncrypt
<1>7. Shape("DHExtended", DHExtendedInput(bs, im))
  BY <1>1, <1>2, <1>4, <1>5 DEF Shape, DHExtendedInput
<1>8. Relation("DHExtended", DHExtendedInput(bs, im), <<r, 0>>)
  BY <1>5 DEF Relation, DHExtendedInput
<1> QED
  BY <1>6, <1>7, <1>8, WitnessPair DEF Proved

(* The protocols and what computes them.                                   *)
LEMMA KindOf ==
    /\ Kind["Dlog"] = "Dlog" /\ Kind["ElGamalPrivKey"] = "Dlog"
    /\ Kind["ElGamalCmtKnow"] = "Dlog" /\ Kind["PedersenCmtValue"] = "Dlog"
    /\ Kind["DH"] = "DH" /\ Kind["ElGamalCmtValue"] = "DH"
    /\ Kind["ElGamalEncRand"] = "DH" /\ Kind["ElGamalEncPriv"] = "DH"
    /\ Kind["DHExtended"] = "DHExtended" /\ Kind["CramerShoup"] = "DHExtended"
    /\ Kind["PedersenCmtKnow"] = "Pedersen"
BY DEF Kind

(* Every statement an application proves is true of its witness once       *)
(* converted.                                                              *)
LEMMA TrueStatementProved ==
    ASSUME NEW p \in Protos, NEW x, NEW w, TrueStatement(p, x, w),
           SignedLaws \/ Kind[p] = "Dlog"
    PROVE  Proved(Kind[p], x, w)
<1>1. PICK s \in Secrets, k \in Secrets, r \in Secrets, m \in PublicKeys :
        LET h == Exp(g, k) IN
        \/ /\ p \in {"Dlog", "ElGamalPrivKey", "ElGamalCmtKnow"}
           /\ x = DlogInput(Exp(g, s))
           /\ w = <<s, 0>>
        \/ /\ p = "PedersenCmtValue"
           /\ x = PedersenCmtValueInput(h, PedersenCommit(h, s, r), s)
           /\ w = <<r, 0>>
        \/ /\ p = "DH"
           /\ x = DHInput(h, Exp(g, s), Exp(h, s))
           /\ w = <<s, 0>>
        \/ /\ p = "ElGamalCmtValue"
           /\ x = ElGamalCmtValueInput(h, ElGamalEncrypt(h, m, r), m)
           /\ w = <<r, 0>>
        \/ /\ p = "ElGamalEncRand"
           /\ x = ElGamalEncRandInput(h, ElGamalEncrypt(h, m, r), m)
           /\ w = <<r, 0>>
        \/ /\ p = "ElGamalEncPriv"
           /\ x = ElGamalEncPrivInput(h, ElGamalEncrypt(h, m, r), m)
           /\ w = <<k, 0>>
        \/ /\ p = "DHExtended"
           /\ x = DHExtendedInput(<<h, m>>, <<Exp(h, s), Exp(m, s)>>)
           /\ w = <<s, 0>>
        \/ /\ p = "CramerShoup"
           /\ \E key \in CramerShoupKeys, alpha \in HashValues :
                 x = CramerShoupInput(key, CramerShoupEncrypt(key, m, r, alpha), m, alpha)
           /\ w = <<r, 0>>
        \/ /\ p = "PedersenCmtKnow"
           /\ x = PedersenInput(h, PedersenCommit(h, s, r))
           /\ w = <<s, r>>
  BY Zenon DEF TrueStatement
<1> DEFINE h == Exp(g, k)
<1>2. s \in Zq /\ k \in Zq /\ r \in Zq /\ m \in G /\ g \in G
  BY KeyTypes
<1>3. h \in G /\ Exp(g, s) \in G /\ Exp(g, r) \in G /\ Exp(h, s) \in G /\ Exp(h, r) \in G
  BY <1>2, PowerFacts
<1>4. CASE p \in {"Dlog", "ElGamalPrivKey", "ElGamalCmtKnow"}
  <2>1. x = DlogInput(Exp(g, s)) /\ w = <<s, 0>>
    BY <1>1, <1>4
  <2>2. Kind[p] = "Dlog"
    BY <1>4, KindOf
  <2> QED
    BY <1>2, <1>3, <2>1, <2>2, DlogStatement
<1>5. CASE p = "PedersenCmtValue"
  <2>1. x = PedersenCmtValueInput(h, PedersenCommit(h, s, r), s) /\ w = <<r, 0>>
        /\ Kind[p] = "Dlog"
    BY <1>1, <1>5, KindOf
  <2>2. x = DlogInput(Exp(g, r))
    BY <1>2, <1>3, <2>1, Unblind DEF PedersenCmtValueInput, PedersenCommit
  <2> QED
    BY <1>2, <1>3, <2>1, <2>2, DlogStatement
<1>6. CASE p = "DH"
  <2>1. x = DHInput(h, Exp(g, s), Exp(h, s)) /\ w = <<s, 0>> /\ Kind[p] = "DH"
    BY <1>1, <1>6, KindOf
  <2> QED
    BY <1>2, <1>3, <2>1, DHStatement
<1>7. CASE p \in {"ElGamalCmtValue", "ElGamalEncRand"}
  <2>1. \/ x = ElGamalCmtValueInput(h, ElGamalEncrypt(h, m, r), m)
        \/ x = ElGamalEncRandInput(h, ElGamalEncrypt(h, m, r), m)
    BY <1>1, <1>7
  <2>2. w = <<r, 0>> /\ Kind[p] = "DH"
    <3>1. w = <<r, 0>>
      BY <1>1, <1>7
    <3>2. Kind[p] = "DH"
      BY <1>7, KindOf
    <3> QED
      BY <3>1, <3>2
  <2>3. x = DHInput(h, Exp(g, r), Exp(h, r))
    BY <1>2, <1>3, <2>1, Unmask DEF ElGamalCmtValueInput, ElGamalEncRandInput, ElGamalEncrypt
  <2> QED
    BY <1>2, <1>3, <2>2, <2>3, DHStatement
<1>8. CASE p = "ElGamalEncPriv"
  <2>1. x = ElGamalEncPrivInput(h, ElGamalEncrypt(h, m, r), m) /\ w = <<k, 0>>
        /\ Kind[p] = "DH"
    BY <1>1, <1>8, KindOf
  <2>2. x = DHInput(Exp(g, r), h, Exp(h, r))
    BY <1>2, <1>3, <2>1, Unmask DEF ElGamalEncPrivInput, ElGamalEncrypt
  <2>3. Exp(h, r) = Exp(Exp(g, r), k)
    BY <1>2, PowerFacts
  <2> QED
    BY <1>2, <1>3, <2>1, <2>2, <2>3, DHStatement
<1>9. CASE p = "DHExtended"
  <2>1. x = DHExtendedInput(<<h, m>>, <<Exp(h, s), Exp(m, s)>>) /\ w = <<s, 0>>
        /\ Kind[p] = "DHExtended"
    BY <1>1, <1>9, KindOf
  <2> QED
    BY <1>2, <1>3, <2>1, DHExtendedStatement
<1>10. CASE p = "CramerShoup"
  <2>1. PICK key \in CramerShoupKeys, alpha \in HashValues :
           x = CramerShoupInput(key, CramerShoupEncrypt(key, m, r, alpha), m, alpha)
    BY <1>1, <1>10
  <2>2. w = <<r, 0>> /\ Kind[p] = "DHExtended"
    BY <1>1, <1>10, KindOf
  <2>3. SignedLaws
    BY <2>2
  <2>4. PICK g2 \in PublicKeys, h2 \in PublicKeys, c \in PublicKeys, d \in PublicKeys :
           key = <<g, g2, h2, c, d>>
    BY DEF CramerShoupKeys
  <2>5. alpha \in -(q - 1) .. (q - 1)
    BY SigmaAssumption
  <2>6. g2 \in G /\ h2 \in G /\ c \in G /\ d \in G
    BY KeyTypes
  <2> QED
    BY <1>2, <2>1, <2>2, <2>3, <2>4, <2>5, <2>6, CramerShoupStatement
<1>11. CASE p = "PedersenCmtKnow"
  <2>1. x = PedersenInput(h, PedersenCommit(h, s, r)) /\ w = <<s, r>>
        /\ Kind[p] = "Pedersen"
    BY <1>1, <1>11, KindOf
  <2> QED
    BY <1>2, <1>3, <2>1, PedersenStatement
<1> QED
  BY <1>1, <1>4, <1>5, <1>6, <1>7, <1>8, <1>9, <1>10, <1>11

(* A statement for the simulator has the shape of its kind.                *)
LEMMA AnyStatementShape ==
    ASSUME NEW k \in Kinds, NEW x, AnyStatement(k, x)
    PROVE  Shape(k, x)
<1>1. PICK h \in PublicKeys, u \in G, v \in G :
        \/ k = "Dlog"       /\ x = DlogInput(u)
        \/ k = "DH"         /\ x = DHInput(h, u, v)
        \/ k = "DHExtended" /\ x = DHExtendedInput(<<g, h>>, <<u, v>>)
        \/ k = "Pedersen"   /\ x = PedersenInput(h, u)
  BY DEF AnyStatement
<1>2. h \in G /\ g \in G
  BY KeyTypes
<1>3. CASE k = "DHExtended"
  <2>1. x.bases = <<g, h>> /\ x.images = <<u, v>>
    BY <1>1, <1>3 DEF DHExtendedInput
  <2>2. \A i \in DOMAIN x.bases : x.bases[i] \in G /\ x.images[i] \in G
    BY <1>2, <2>1
  <2> QED
    BY <1>3, <2>2 DEF Shape
<1>4. CASE k # "DHExtended"
  BY <1>1, <1>2, <1>4 DEF Shape
<1> QED
  BY <1>3, <1>4

-----------------------------------------------------------------------------
(* The challenges that the checks let through.                             *)
Signed == -(q - 1) .. (q - 1)

(* The answer to a challenge of either sign.                               *)
LEMMA Response ==
    ASSUME NEW b \in G, NEW r \in Zq, NEW w \in Zq, NEW e \in Signed,
           SignedLaws \/ e >= 0
    PROVE  /\ Rem(r + Rem(e * w)) \in Signed
           /\ Exp(b, Rem(r + Rem(e * w))) = Mul(Exp(b, r), Exp(Exp(b, w), e))
<1>1. q \in Nat /\ q > 1 /\ Zq \subseteq Signed
  BY ZqExps DEF Zq, Signed
<1>2. CASE e >= 0
  <2>1. e \in Zq
    BY <1>1, <1>2 DEF Zq, Signed
  <2> QED
    BY <1>1, <2>1, ResponseNat
<1>3. CASE ~(e >= 0)
  <2>1. e \in -(q - 1) .. (-1) /\ SignedLaws
    BY <1>1, <1>3 DEF Signed
  <2> QED
    BY <2>1, ResponseNeg DEF Signed
<1> QED
  BY <1>2, <1>3

(* The simulated first message for a challenge of either sign.             *)
LEMMA Simulation ==
    ASSUME NEW b \in G, NEW h \in G, NEW e \in Signed, SignedLaws \/ e >= 0
    PROVE  Mul(Mul(b, Exp(h, q - e)), Exp(h, e)) = b
<1>1. q \in Nat /\ q > 1
  BY ZqExps
<1>2. CASE e >= 0
  <2>1. e \in Zq
    BY <1>1, <1>2 DEF Zq, Signed
  <2> QED
    BY <2>1, SimulationNat
<1>3. CASE ~(e >= 0)
  <2>1. e \in -(q - 1) .. (-1) /\ SignedLaws
    BY <1>1, <1>3 DEF Signed
  <2> QED
    BY <2>1, SimulationNeg
<1> QED
  BY <1>2, <1>3

(* Exponentiation by a signed exponent distributes over products.          *)
LEMMA PowerOfProduct ==
    ASSUME SignedLaws, NEW a \in G, NEW b \in G, NEW e \in Signed
    PROVE  /\ Exp(Mul(a, b), e) = Mul(Exp(a, e), Exp(b, e))
           /\ Exp(a, e) \in G
<1>0. q \in Nat /\ q > 1
  BY ZqExps
<1>1. CASE e >= 0
  <2>1. e \in Exps
    BY <1>0, <1>1, ZqExps DEF Zq, Signed
  <2> QED
    BY <2>1, DlogAssumption DEF GroupLaws
<1>2. CASE ~(e >= 0)
  <2> DEFINE k == -e
  <2> DEFINE x == Exp(a, k)
  <2> DEFINE y == Exp(b, k)
  <2>1. k \in 1 .. MaxExp /\ e = -k /\ k \in Exps
    <3>1. k \in Zq /\ e = -k /\ k >= 1 /\ k \in Nat
      BY <1>0, <1>2 DEF Zq, Signed
    <3>2. k \in Exps
      BY <3>1, ZqExps
    <3> QED
      BY <3>1, <3>2 DEF Exps
  <2>2. x \in G /\ y \in G /\ Exp(Mul(a, b), k) = Mul(x, y) /\ Mul(a, b) \in G
    BY <2>1, DlogAssumption DEF GroupLaws
  <2>3. Mul(x, y) \in G /\ Inv(x) \in G /\ Inv(y) \in G /\ Inv(Mul(x, y)) \in G
    BY <2>2, DlogAssumption DEF GroupLaws
  <2>4. Exp(a, e) = Inv(x) /\ Exp(b, e) = Inv(y) /\ Exp(Mul(a, b), e) = Inv(Mul(x, y))
    BY <2>1, <2>2 DEF SignedLaws
  <2>5. Inv(x) = Mul(Inv(Mul(x, y)), y)
    <3>1. Inv(x) = Mul(y, Inv(Mul(x, y)))
      BY <2>2, InverseOfProduct
    <3> QED
      BY <2>2, <2>3, <3>1, DlogAssumption DEF GroupLaws
  <2>6. Mul(Mul(Inv(Mul(x, y)), y), Inv(y)) = Inv(Mul(x, y))
    BY <2>2, <2>3, DlogAssumption DEF GroupLaws
  <2> QED
    BY <2>3, <2>4, <2>5, <2>6
<1> QED
  BY <1>1, <1>2

(* The order of a product of four does not matter.                         *)
LEMMA Exchange ==
    ASSUME NEW a \in G, NEW b \in G, NEW c \in G, NEW d \in G
    PROVE  Mul(Mul(a, b), Mul(c, d)) = Mul(Mul(a, c), Mul(b, d))
<1>1. /\ Mul(a, b) \in G /\ Mul(c, d) \in G /\ Mul(b, c) \in G /\ Mul(b, d) \in G
      /\ Mul(b, c) = Mul(c, b) /\ Mul(a, c) \in G
  BY DlogAssumption DEF GroupLaws
<1>2. Mul(Mul(a, b), Mul(c, d)) = Mul(a, Mul(b, Mul(c, d)))
  BY <1>1, DlogAssumption DEF GroupLaws
<1>3. Mul(b, Mul(c, d)) = Mul(Mul(b, c), d)
  BY <1>1, DlogAssumption DEF GroupLaws
<1>4. Mul(Mul(c, b), d) = Mul(c, Mul(b, d))
  BY <1>1, DlogAssumption DEF GroupLaws
<1>5. Mul(a, Mul(c, Mul(b, d))) = Mul(Mul(a, c), Mul(b, d))
  BY <1>1, DlogAssumption DEF GroupLaws
<1> QED
  BY <1>1, <1>2, <1>3, <1>4, <1>5

-----------------------------------------------------------------------------
(* Challenges that a protocol of kind k answers in this group.             *)
Answerable(k, e) == e \in Signed /\ (SignedLaws \/ k = "Dlog")

(* SigmaDlog works with the magnitude of the challenge.                    *)
LEMMA AbsSigned == \A e \in Signed : Abs(e) \in Signed /\ Abs(e) >= 0
BY ZqExps DEF Signed, Abs

(* The components of a pair of random values or of witnesses.              *)
LEMMA PairParts ==
    ASSUME NEW k, NEW z \in RandomPairs(k)
    PROVE  z[1] \in Zq /\ z[2] \in Zq
BY ZqExps DEF RandomPairs

(* Completeness of one exchange, for each kind of protocol.                *)
LEMMA Completeness ==
    ASSUME NEW k \in Kinds, NEW x, NEW w, Proved(k, x, w),
           NEW rnd \in RandomPairs(k), NEW e, Answerable(k, e)
    PROVE  /\ Accepts(k, x, FirstMsg(k, x, rnd), e, SecondMsg(k, e, w, rnd))
           /\ \A i \in {1, 2} : SecondMsg(k, e, w, rnd)[i] \in Signed
<1>1. /\ Shape(k, x) /\ Relation(k, x, w) /\ e \in Signed /\ (SignedLaws \/ k = "Dlog")
      /\ w \in RandomPairs(k)
  BY DEF Proved, Answerable
<1>2. w[1] \in Zq /\ w[2] \in Zq /\ rnd[1] \in Zq /\ rnd[2] \in Zq
  BY <1>1, PairParts
<1>3. g \in G /\ 0 \in Signed
  BY KeyTypes, ZqExps DEF Signed
<1> DEFINE z == Rem(rnd[1] + Rem(e * w[1]))
<1>4. CASE k = "Dlog"
  <2> DEFINE z0 == Rem(rnd[1] + Rem(Abs(e) * w[1]))
  <2>1. PICK h \in G : x = DlogInput(h)
    BY <1>1, <1>4 DEF Shape
  <2>2. h = Exp(g, w[1]) /\ x.images[1] = h
    BY <1>1, <1>4, <2>1 DEF Relation, DlogInput
  <2>3. z0 \in Signed /\ Exp(g, z0) = Mul(Exp(g, rnd[1]), Exp(h, Abs(e)))
    BY <1>1, <1>2, <1>3, <2>2, AbsSigned, Response
  <2>4. SecondMsg(k, e, w, rnd) = <<z0, 0>>
    BY <1>4 DEF SecondMsg, DlogSecondMsg
  <2>5. FirstMsg(k, x, rnd) = <<Exp(g, rnd[1])>>
    BY <1>4 DEF FirstMsg, DlogFirstMsg
  <2>6. DlogVerify(x, <<Exp(g, rnd[1])>>, e, <<z0, 0>>)
    BY <2>2, <2>3 DEF DlogVerify
  <2>7. Accepts(k, x, FirstMsg(k, x, rnd), e, SecondMsg(k, e, w, rnd))
    BY <1>4, <2>4, <2>5, <2>6 DEF Accepts
  <2> QED
    BY <1>3, <2>3, <2>4, <2>7
<1>5. CASE k = "DH"
  <2>1. PICK h \in G, u \in G, v \in G : x = DHInput(h, u, v)
    BY <1>1, <1>5 DEF Shape
  <2>2. x.bases = <<g, h>> /\ x.images = <<u, v>>
    BY <2>1 DEF DHInput
  <2>3. u = Exp(g, w[1]) /\ v = Exp(h, w[1])
    BY <1>1, <1>5, <2>2 DEF Relation
  <2>4. SignedLaws
    BY <1>1, <1>5
  <2>5. /\ z \in Signed
        /\ Exp(g, z) = Mul(Exp(g, rnd[1]), Exp(u, e))
        /\ Exp(h, z) = Mul(Exp(h, rnd[1]), Exp(v, e))
    BY <1>1, <1>2, <1>3, <2>3, <2>4, Response
  <2>6. SecondMsg(k, e, w, rnd) = <<z, 0>>
    BY <1>5 DEF SecondMsg, DHSecondMsg
  <2>7. FirstMsg(k, x, rnd) = <<Exp(g, rnd[1]), Exp(h, rnd[1])>>
    BY <1>5, <2>2 DEF FirstMsg, DHFirstMsg
  <2>8. DHVerify(x, <<Exp(g, rnd[1]), Exp(h, rnd[1])>>, e, <<z, 0>>)
    <3> DEFINE a == <<Exp(g, rnd[1]), Exp(h, rnd[1])>>
    <3>1. x.bases[2] = h /\ x.images[1] = u /\ x.images[2] = v
      BY <2>2
    <3>2. a[1] = Exp(g, rnd[1]) /\ a[2] = Exp(h, rnd[1]) /\ <<z, 0>>[1] = z
      OBVIOUS
    <3> QED
      BY <2>5, <3>1, <3>2, SMTT(30) DEF DHVerify
  <2>9. Accepts(k, x, FirstMsg(k, x, rnd), e, SecondMsg(k, e, w, rnd))
    BY <1>5, <2>6, <2>7, <2>8 DEF Accepts
  <2> QED
    BY <1>3, <2>5, <2>6, <2>9
<1>6. CASE k = "DHExtended"
  <2>1. \A i \in DOMAIN x.bases : x.bases[i] \in G /\ x.images[i] \in G
    BY <1>1, <1>6 DEF Shape
  <2>2. \A i \in DOMAIN x.bases : x.images[i] = Exp(x.bases[i], w[1])
    BY <1>1, <1>6 DEF Relation
  <2>3. SignedLaws
    BY <1>1, <1>6
  <2>4. z \in Signed
    BY <1>1, <1>2, <1>3, <2>3, Response
  <2>5. \A i \in DOMAIN x.bases :
           Exp(x.bases[i], z) = Mul(Exp(x.bases[i], rnd[1]), Exp(x.images[i], e))
    <3> SUFFICES ASSUME NEW i \in DOMAIN x.bases
                 PROVE  Exp(x.bases[i], z) = Mul(Exp(x.bases[i], rnd[1]), Exp(x.images[i], e))
      OBVIOUS
    <3>1. x.bases[i] \in G /\ x.images[i] = Exp(x.bases[i], w[1])
      BY <2>1, <2>2
    <3>2. Exp(x.bases[i], z) = Mul(Exp(x.bases[i], rnd[1]), Exp(Exp(x.bases[i], w[1]), e))
      BY <1>1, <1>2, <2>3, <3>1, Response
    <3> QED
      BY <3>1, <3>2
  <2>6. SecondMsg(k, e, w, rnd) = <<z, 0>>
    BY <1>6 DEF SecondMsg, DHExtendedSecondMsg
  <2>7. FirstMsg(k, x, rnd) = [i \in DOMAIN x.bases |-> Exp(x.bases[i], rnd[1])]
    BY <1>6 DEF FirstMsg, DHExtendedFirstMsg
  <2>8. DHExtendedVerify(x, [i \in DOMAIN x.bases |-> Exp(x.bases[i], rnd[1])], e, <<z, 0>>)
    BY <2>1, <2>5 DEF DHExtendedVerify
  <2>9. Accepts(k, x, FirstMsg(k, x, rnd), e, SecondMsg(k, e, w, rnd))
    BY <1>6, <2>6, <2>7, <2>8 DEF Accepts
  <2> QED
    BY <1>3, <2>4, <2>6, <2>9
<1>7. CASE k = "Pedersen"
  <2> DEFINE z2 == Rem(rnd[2] + Rem(e * w[2]))
  <2>1. PICK h \in G, c \in G : x = PedersenInput(h, c)
    BY <1>1, <1>7 DEF Shape
  <2>2. x.bases = <<h, g>> /\ x.images = <<c>>
    BY <2>1 DEF PedersenInput
  <2>3. c = Mul(Exp(h, w[1]), Exp(g, w[2]))
    BY <1>1, <1>7, <2>2 DEF Relation
  <2>4. SignedLaws
    BY <1>1, <1>7
  <2>5. z \in Signed /\ Exp(h, z) = Mul(Exp(h, rnd[1]), Exp(Exp(h, w[1]), e))
    BY <1>1, <1>2, <2>4, Response
  <2>6. z2 \in Signed /\ Exp(g, z2) = Mul(Exp(g, rnd[2]), Exp(Exp(g, w[2]), e))
    BY <1>1, <1>2, <1>3, <2>4, Response
  <2>7. /\ Exp(h, w[1]) \in G /\ Exp(g, w[2]) \in G
        /\ Exp(h, rnd[1]) \in G /\ Exp(g, rnd[2]) \in G
    BY <1>2, <1>3, PowerFacts
  <2>8. /\ Exp(c, e) = Mul(Exp(Exp(h, w[1]), e), Exp(Exp(g, w[2]), e))
        /\ Exp(Exp(h, w[1]), e) \in G /\ Exp(Exp(g, w[2]), e) \in G
    BY <1>1, <2>3, <2>4, <2>7, PowerOfProduct
  <2>9. Mul(Exp(h, z), Exp(g, z2)) = Mul(Mul(Exp(h, rnd[1]), Exp(g, rnd[2])), Exp(c, e))
    BY <2>5, <2>6, <2>7, <2>8, Exchange
  <2>10. SecondMsg(k, e, w, rnd) = <<z, z2>>
    BY <1>7 DEF SecondMsg, PedersenSecondMsg
  <2>11. FirstMsg(k, x, rnd) = <<Mul(Exp(h, rnd[1]), Exp(g, rnd[2]))>>
    BY <1>7, <2>2 DEF FirstMsg, PedersenFirstMsg
  <2>12. PedersenVerify(x, <<Mul(Exp(h, rnd[1]), Exp(g, rnd[2]))>>, e, <<z, z2>>)
    <3> DEFINE a == <<Mul(Exp(h, rnd[1]), Exp(g, rnd[2]))>>
    <3>1. x.bases[1] = h /\ x.images[1] = c
      BY <2>2
    <3>2. a[1] = Mul(Exp(h, rnd[1]), Exp(g, rnd[2])) /\ <<z, z2>>[1] = z /\ <<z, z2>>[2] = z2
      OBVIOUS
    <3> QED
      BY <2>9, <3>1, <3>2, SMTT(30) DEF PedersenVerify
  <2>13. Accepts(k, x, FirstMsg(k, x, rnd), e, SecondMsg(k, e, w, rnd))
    BY <1>7, <2>10, <2>11, <2>12 DEF Accepts
  <2> QED
    BY <2>5, <2>6, <2>10, <2>13
<1> QED
  BY <1>4, <1>5, <1>6, <1>7 DEF Kinds

(* A simulated transcript is accepted, for each kind of protocol.          *)
LEMMA SimulatedTranscript ==
    ASSUME NEW k \in Kinds, NEW x, Shape(k, x),
           NEW z \in RandomPairs(k), NEW e, Answerable(k, e)
    PROVE  Accepts(k, x, SimulatedMsg(k, x, e, z), e, z)
<1>1. e \in Signed /\ (SignedLaws \/ k = "Dlog")
  BY DEF Answerable
<1>2. z[1] \in Zq /\ z[2] \in Zq
  BY PairParts
<1>3. g \in G
  BY KeyTypes
<1>4. \A b \in G : Exp(b, z[1]) \in G /\ Exp(b, z[2]) \in G
  BY <1>2, PowerFacts, Zenon
<1>5. CASE k = "Dlog"
  <2>1. PICK h \in G : x = DlogInput(h)
    BY <1>5 DEF Shape
  <2>2. x.images[1] = h
    BY <2>1 DEF DlogInput
  <2>3. Mul(Mul(Exp(g, z[1]), Exp(h, q - Abs(e))), Exp(h, Abs(e))) = Exp(g, z[1])
    BY <1>1, <1>3, <1>4, AbsSigned, Simulation
  <2>4. DlogVerify(x, DlogSimulate(x, e, z), e, z)
    BY <2>2, <2>3 DEF DlogVerify, DlogSimulate
  <2> QED
    BY <1>5, <2>4 DEF Accepts, SimulatedMsg
<1>6. CASE k = "DH"
  <2>1. PICK h \in G, u \in G, v \in G : x = DHInput(h, u, v)
    BY <1>6 DEF Shape
  <2>2. x.bases = <<g, h>> /\ x.images = <<u, v>>
    BY <2>1 DEF DHInput
  <2>3. SignedLaws
    BY <1>1, <1>6
  <2>4. /\ Mul(Mul(Exp(g, z[1]), Exp(u, q - e)), Exp(u, e)) = Exp(g, z[1])
        /\ Mul(Mul(Exp(h, z[1]), Exp(v, q - e)), Exp(v, e)) = Exp(h, z[1])
    BY <1>1, <1>3, <1>4, <2>3, Simulation
  <2>5. DHVerify(x, DHSimulate(x, e, z), e, z)
    <3> DEFINE a == <<Mul(Exp(g, z[1]), Exp(u, q - e)), Mul(Exp(h, z[1]), Exp(v, q - e))>>
    <3>1. x.bases[2] = h /\ x.images[1] = u /\ x.images[2] = v
      BY <2>2
    <3>2. DHSimulate(x, e, z) = a
      BY <3>1 DEF DHSimulate
    <3>3. a[1] = Mul(Exp(g, z[1]), Exp(u, q - e)) /\ a[2] = Mul(Exp(h, z[1]), Exp(v, q - e))
      OBVIOUS
    <3>4. DHVerify(x, a, e, z)
      BY <2>4, <3>1, <3>3, SMTT(30) DEF DHVerify
    <3> QED
      BY <3>2, <3>4
  <2> QED
    BY <1>6, <2>5 DEF Accepts, SimulatedMsg
<1>7. CASE k = "DHExtended"
  <2>1. \A i \in DOMAIN x.bases : x.bases[i] \in G /\ x.images[i] \in G
    BY <1>7 DEF Shape
  <2>2. SignedLaws
    BY <1>1, <1>7
  <2>3. \A i \in DOMAIN x.bases :
           Mul(Mul(Exp(x.bases[i], z[1]), Exp(x.images[i], q - e)), Exp(x.images[i], e))
             = Exp(x.bases[i], z[1])
    BY <1>1, <1>4, <2>1, <2>2, Simulation
  <2>4. DHExtendedVerify(x, DHExtendedSimulate(x, e, z), e, z)
    BY <2>1, <2>3 DEF DHExtendedVerify, DHExtendedSimulate
  <2> QED
    BY <1>7, <2>4 DEF Accepts, SimulatedMsg
<1>8. CASE k = "Pedersen"
  <2>1. PICK h \in G, c \in G : x = PedersenInput(h, c)
    BY <1>8 DEF Shape
  <2>2. x.bases = <<h, g>> /\ x.images = <<c>>
    BY <2>1 DEF PedersenInput
  <2>3. SignedLaws
    BY <1>1, <1>8
  <2>4. Mul(Exp(h, z[1]), Exp(g, z[2])) \in G
    BY <1>3, <1>4, DlogAssumption DEF GroupLaws
  <2>5. Mul(Mul(Mul(Exp(h, z[1]), Exp(g, z[2])), Exp(c, q - e)), Exp(c, e))
          = Mul(Exp(h, z[1]), Exp(g, z[2]))
    BY <1>1, <2>3, <2>4, Simulation
  <2>6. PedersenVerify(x, PedersenSimulate(x, e, z), e, z)
    <3> DEFINE a == <<Mul(Mul(Exp(h, z[1]), Exp(g, z[2])), Exp(c, q - e))>>
    <3>1. x.bases[1] = h /\ x.images[1] = c
      BY <2>2
    <3>2. PedersenSimulate(x, e, z) = a
      BY <3>1 DEF PedersenSimulate
    <3>3. a[1] = Mul(Mul(Exp(h, z[1]), Exp(g, z[2])), Exp(c, q - e))
      OBVIOUS
    <3>4. PedersenVerify(x, a, e, z)
      BY <2>5, <3>1, <3>3, SMTT(30) DEF PedersenVerify
    <3> QED
      BY <3>2, <3>4
  <2> QED
    BY <1>8, <2>6 DEF Accepts, SimulatedMsg
<1> QED
  BY <1>5, <1>6, <1>7, <1>8 DEF Kinds

-----------------------------------------------------------------------------
(* Remainders are below q in magnitude.                                    *)
LEMMA RemRange == \A n \in Int : Rem(n) \in Signed
<1> TAKE n \in Int
<1>1. q \in Nat /\ q > 1
  BY ZqExps
<1>2. CASE n >= 0
  BY <1>1, <1>2, ModInZq DEF Rem, Zq, Signed
<1>3. CASE ~(n >= 0)
  <2>1. -n \in Nat
    BY <1>3
  <2>2. (-n) % q \in 0 .. (q - 1)
    BY <2>1, ModInZq DEF Zq
  <2> QED
    BY <1>1, <1>3, <2>2 DEF Rem, Signed
<1> QED
  BY <1>2, <1>3

(* What the type invariant needs to know of witnesses.                     *)
Witness(w) == w = NoWitness \/ (w[1] \in Zq /\ w[2] \in Zq)

(* The witness of a true statement is a pair of exponents.                 *)
LEMMA TrueStatementWitness ==
    ASSUME NEW p, NEW x, NEW w, TrueStatement(p, x, w)
    PROVE  Witness(w)
BY KeyTypes, ZqExps DEF TrueStatement, Witness

(* Whatever the signs, both components of an answer are below q.           *)
LEMMA SecondMsgRange ==
    ASSUME NEW k \in Kinds, NEW e \in Signed, NEW w, NEW rnd \in RandomPairs(k),
           w[1] \in Zq, w[2] \in Zq
    PROVE  \A i \in {1, 2} : SecondMsg(k, e, w, rnd)[i] \in Signed
<1>1. rnd[1] \in Int /\ rnd[2] \in Int /\ w[1] \in Int /\ w[2] \in Int
  <2>1. rnd[1] \in Zq /\ rnd[2] \in Zq
    BY PairParts
  <2>2. Zq \subseteq Int
    BY ZqExps
  <2> QED
    BY <2>1, <2>2, Zenon
<1>2. e \in Int /\ Abs(e) \in Int /\ 0 \in Signed /\ Signed \subseteq Int
  BY ZqExps DEF Signed, Abs
<1>3. /\ e * w[1] \in Int /\ e * w[2] \in Int /\ Abs(e) * w[1] \in Int
  BY <1>1, <1>2
<1>4. /\ Rem(e * w[1]) \in Int /\ Rem(e * w[2]) \in Int /\ Rem(Abs(e) * w[1]) \in Int
  BY <1>2, <1>3, RemRange, Zenon
<1>5. /\ Rem(rnd[1] + Rem(e * w[1])) \in Signed
      /\ Rem(rnd[2] + Rem(e * w[2])) \in Signed
      /\ Rem(rnd[1] + Rem(Abs(e) * w[1])) \in Signed
  <2>1. rnd[1] + Rem(e * w[1]) \in Int /\ rnd[2] + Rem(e * w[2]) \in Int
        /\ rnd[1] + Rem(Abs(e) * w[1]) \in Int
    BY <1>1, <1>4
  <2> QED
    BY <2>1, RemRange
<1> QED
  BY <1>2, <1>5 DEF Kinds, SecondMsg, DlogSecondMsg, DHSecondMsg, DHExtendedSecondMsg,
     PedersenSecondMsg

(* The challenges of both ways of sampling, and the one that is too long,  *)
(* are within bounds once check_soundness has passed.                      *)
LEMMA ChallengeRange ==
    ASSUME NEW half \in SoundnessParams, 2 * half < q, NEW k
    PROVE  /\ Challenges(k, half) \subseteq Signed /\ 2 * half \in Signed
           /\ SimulatedChallenges(k, half) \subseteq Signed
<1>1. half \in Nat /\ half > 0 /\ q \in Nat
  BY SigmaAssumption, ZqExps
<1>2. -half .. (half - 1) \subseteq Signed /\ 0 .. (2 * half - 1) \subseteq Signed
      /\ 2 * half \in Signed
  BY <1>1 DEF Signed
<1> QED
  BY <1>2 DEF Challenges, DlogChallenges, SignedChallenges, SimulatedChallenges

(* verify returns a Boolean.                                               *)
LEMMA AcceptsBoolean ==
    ASSUME NEW k \in Kinds, NEW x, NEW a, NEW e, NEW z
    PROVE  Accepts(k, x, a, e, z) \in BOOLEAN
<1>1. CASE k = "Dlog"
  BY <1>1 DEF Accepts, DlogVerify
<1>2. CASE k = "DH"
  BY <1>2 DEF Accepts, DHVerify
<1>3. CASE k = "DHExtended"
  BY <1>3 DEF Accepts, DHExtendedVerify
<1>4. CASE k = "Pedersen"
  BY <1>4 DEF Accepts, PedersenVerify
<1> QED
  BY <1>1, <1>2, <1>3, <1>4 DEF Kinds

(* Every protocol is computed by one of the four.                          *)
LEMMA ProtoKinds == \A p \in Protos : Kind[p] \in Kinds
BY ProtosAssumption DEF Kind, Kinds

(* What makes the type invariant inductive: witnesses are exponents, and   *)
(* the prover only starts with one.                                        *)
TypeInv ==
    /\ SigmaTypeOK
    /\ Witness(wit)
    /\ phase \in {"first", "challenged"} => wit # NoWitness

(* The strengthened type invariant is inductive.                           *)
LEMMA TypeInvInvariant == SigmaSpec => []TypeInv
<1>1. SigmaInit => TypeInv
  <2> SUFFICES ASSUME SigmaInit PROVE TypeInv
    OBVIOUS
  <2>1. SigmaTypeOK
    <3>1. coins \in RandomPairs(Kind[proto])
      BY ZqExps DEF SigmaInit, RandomPairs
    <3>2. \A i \in {1, 2} : second[i] \in -(q - 1) .. (q - 1)
      BY ZqExps DEF SigmaInit
    <3> QED
      BY <3>1, <3>2, Zenon DEF SigmaInit, SigmaTypeOK
  <2>2. Witness(wit)
    BY TrueStatementWitness DEF SigmaInit, Witness
  <2> QED
    BY <2>1, <2>2 DEF TypeInv, SigmaInit
<1>2. TypeInv /\ [SigmaNext]_sigmaVars => TypeInv'
  <2> SUFFICES ASSUME TypeInv, [SigmaNext]_sigmaVars PROVE TypeInv'
    OBVIOUS
  <2> USE DEF TypeInv, SigmaTypeOK, inputVars, Signed
  <2>0. Kind[proto] \in Kinds
    BY ProtoKinds
  <2>1. CASE Construct
    BY <2>1 DEF Construct, check_soundness, Witness
  <2>2. CASE ComputeFirstMsg
    BY <2>2 DEF ComputeFirstMsg, Witness
  <2>3. CASE SampleChallenge
    <3>1. PICK e \in Challenges(Kind[proto], soundness) : challenge' = <<e>>
      BY <2>3 DEF SampleChallenge
    <3>2. e \in Signed
      BY <2>3, ChallengeRange DEF SampleChallenge
    <3>3. challenge'[1] \in -(q - 1) .. (q - 1)
      BY <3>1, <3>2
    <3> QED
      BY <2>3, <3>3 DEF SampleChallenge, Witness
  <2>4. CASE SetChallenge
    <3>1. 2 * soundness \in Signed
      BY <2>4, ChallengeRange DEF SetChallenge
    <3> QED
      BY <2>4, <3>1 DEF SetChallenge, Witness
  <2>5. CASE ComputeSecondMsg
    <3>1. challenge[1] \in Signed /\ wit[1] \in Zq /\ wit[2] \in Zq
      BY <2>5 DEF ComputeSecondMsg, Witness
    <3>2. \A i \in {1, 2} : SecondMsg(Kind[proto], challenge[1], wit, coins)[i] \in Signed
      BY <2>0, <3>1, SecondMsgRange
    <3>3. \A i \in {1, 2} : second'[i] \in -(q - 1) .. (q - 1)
      BY <2>5, <3>2 DEF ComputeSecondMsg
    <3>4. coins' \in RandomPairs(Kind[proto])
      BY <2>5, ZqExps DEF ComputeSecondMsg, RandomPairs
    <3> QED
      BY <2>5, <3>3, <3>4 DEF ComputeSecondMsg, Witness
  <2>6. CASE Simulate
    <3>1. PICK e \in SimulatedChallenges(Kind[proto], soundness) : challenge' = <<e>>
      BY <2>6 DEF Simulate
    <3>2. e \in Signed
      BY <2>6, ChallengeRange DEF Simulate
    <3>3. challenge'[1] \in -(q - 1) .. (q - 1)
      BY <3>1, <3>2
    <3>4. second'[1] \in Zq /\ second'[2] \in Zq
      BY <2>6, PairParts DEF Simulate
    <3>5. \A i \in {1, 2} : second'[i] \in -(q - 1) .. (q - 1)
      BY <3>4, ZqExps DEF Zq
    <3> QED
      BY <2>6, <3>3, <3>5 DEF Simulate, Witness
  <2>7. CASE Verify
    <3>1. verdict' \in BOOLEAN
      BY <2>0, <2>7, AcceptsBoolean DEF Verify
    <3> QED
      BY <2>7, <3>1 DEF Verify, Witness
  <2>8. CASE UNCHANGED sigmaVars
    BY <2>8 DEF sigmaVars, Witness
  <2> QED
    BY <2>1, <2>2, <2>3, <2>4, <2>5, <2>6, <2>7, <2>8, Zenon DEF SigmaNext
<1> QED
  BY <1>1, <1>2, PTL DEF SigmaSpec

(* The type invariant holds in every group, signs honoured or not: no      *)
(* sequence of calls produces an exponent of q or more, and no proof       *)
(* starts with a soundness parameter that check_soundness refuses.         *)
THEOREM SigmaTypeCorrect == SigmaSpec => []SigmaTypeOK
<1>1. TypeInv => SigmaTypeOK
  BY DEF TypeInv
<1> QED
  BY <1>1, TypeInvInvariant, PTL

-----------------------------------------------------------------------------
(* A transcript on its way to verify is one that verify accepts.           *)
Transcript ==
    /\ Shape(Kind[proto], stmt)
    /\ wit # NoWitness => Proved(Kind[proto], stmt, wit)
    /\ phase \in {"first", "challenged"} => first = FirstMsg(Kind[proto], stmt, coins)
    /\ phase = "answered" => Accepts(Kind[proto], stmt, first, challenge[1], second)
    /\ phase = "done" => verdict

(* The statements of the initial states are well formed, and true where    *)
(* there is a witness.                                                     *)
LEMMA TranscriptInit == ASSUME SignsHonoured, SigmaInit PROVE Transcript
<1>1. proto \in Protos /\ Kind[proto] \in Kinds
  BY ProtoKinds DEF SigmaInit
<1>2. SignedLaws \/ Kind[proto] = "Dlog"
  BY <1>1 DEF SignsHonoured
<1>3. CASE TrueStatement(proto, stmt, wit)
  <2>1. Proved(Kind[proto], stmt, wit)
    BY <1>1, <1>2, <1>3, TrueStatementProved
  <2> QED
    BY <2>1 DEF Transcript, Proved, SigmaInit
<1>4. CASE AnyStatement(Kind[proto], stmt) /\ wit = NoWitness
  <2>1. Shape(Kind[proto], stmt)
    BY <1>1, <1>4, AnyStatementShape
  <2> QED
    BY <1>4, <2>1 DEF Transcript, SigmaInit
<1> QED
  BY <1>3, <1>4 DEF SigmaInit

(* No step of the prover, the simulator or the verifier leads to a         *)
(* transcript that verify rejects.                                         *)
LEMMA TranscriptStep ==
    ASSUME SignsHonoured, TypeInv, Transcript, [SigmaNext]_sigmaVars
    PROVE  Transcript'
<1>0. proto \in Protos /\ Kind[proto] \in Kinds
  BY ProtoKinds DEF TypeInv, SigmaTypeOK
<1>1. \A e \in Signed : Answerable(Kind[proto], e)
  BY <1>0 DEF SignsHonoured, Answerable
<1> USE DEF Transcript, inputVars
<1>2. CASE Construct
  BY <1>2 DEF Construct
<1>3. CASE ComputeFirstMsg
  BY <1>3 DEF ComputeFirstMsg
<1>4. CASE SampleChallenge
  BY <1>4 DEF SampleChallenge
<1>5. CASE SetChallenge
  BY <1>5 DEF SetChallenge
<1>6. CASE ComputeSecondMsg
  <2>1. challenge[1] \in Signed /\ coins \in RandomPairs(Kind[proto]) /\ wit # NoWitness
    BY <1>6 DEF ComputeSecondMsg, TypeInv, SigmaTypeOK, Signed
  <2>2. Proved(Kind[proto], stmt, wit) /\ first = FirstMsg(Kind[proto], stmt, coins)
    BY <1>6, <2>1 DEF ComputeSecondMsg
  <2>3. Accepts(Kind[proto], stmt, first, challenge[1],
                SecondMsg(Kind[proto], challenge[1], wit, coins))
    BY <1>0, <1>1, <2>1, <2>2, Completeness, Zenon
  <2> QED
    BY <1>6, <2>3 DEF ComputeSecondMsg
<1>7. CASE Simulate
  <2>1. PICK e \in SimulatedChallenges(Kind[proto], soundness) : challenge' = <<e>>
    BY <1>7 DEF Simulate
  <2>2. e \in Signed
    BY <1>7, ChallengeRange DEF Simulate, TypeInv, SigmaTypeOK
  <2>3. challenge'[1] = e /\ second' \in RandomPairs(Kind[proto])
        /\ first' = SimulatedMsg(Kind[proto], stmt, e, second')
    BY <1>7, <2>1 DEF Simulate
  <2>4. Accepts(Kind[proto], stmt, first', challenge'[1], second')
    BY <1>0, <1>1, <2>2, <2>3, SimulatedTranscript, Zenon
  <2> QED
    BY <1>7, <2>4 DEF Simulate
<1>8. CASE Verify
  BY <1>8 DEF Verify
<1>9. CASE UNCHANGED sigmaVars
  BY <1>9 DEF sigmaVars
<1> QED
  BY <1>2, <1>3, <1>4, <1>5, <1>6, <1>7, <1>8, <1>9, Zenon DEF SigmaNext

(* Completeness: in every group that honours signed exponents every proof  *)
(* of the eleven protocols that an honest prover computes passes verify,   *)
(* and so does every proof of SigmaDlog, SigmaElGamalPrivateKey,           *)
(* SigmaElGamalCmtKnowledge and SigmaPedersenCommittedValue in any group.  *)
(* The simulator's transcripts pass verify under the same condition, for   *)
(* statements that are true and for statements that are not.               *)
THEOREM TranscriptAcceptedCorrect ==
    ASSUME SignsHonoured
    PROVE  SigmaSpec => []TranscriptAccepted
<1>1. SigmaInit => Transcript
  BY TranscriptInit
<1>2. TypeInv /\ Transcript /\ [SigmaNext]_sigmaVars => Transcript'
  BY TranscriptStep
<1>3. Transcript => TranscriptAccepted
  BY DEF Transcript, TranscriptAccepted
<1> QED
  BY <1>1, <1>2, <1>3, TypeInvInvariant, PTL DEF SigmaSpec

-----------------------------------------------------------------------------
(* Special soundness.                                                      *)

(* One base: two answers, to challenges that differ modulo q, make every   *)
(* solution of the equation the exponent of the image.                     *)
LEMMA OneBase ==
    ASSUME PrimeOrder, NEW a \in G, NEW b \in G, NEW h \in G, NEW w \in Zq,
           NEW e1, Usable(e1), NEW e2, Usable(e2), (e1 - e2) % q \in 1 .. q - 1,
           NEW z1, Usable(z1), NEW z2, Usable(z2),
           Exp(b, z1) = Mul(a, Exp(h, e1)),
           Exp(b, z2) = Mul(a, Exp(h, e2)),
           ((e1 - e2) * w - (z1 - z2)) % q = 0
    PROVE  h = Exp(b, w)
<1> DEFINE B == Exp(b, w)
<1>1. Exp(b, z2) \in G
  BY UsableExp
<1>2. e1 - e2 \in Int /\ z1 - z2 \in Int
  <2>1. e1 \in Int /\ e2 \in Int /\ z1 \in Int /\ z2 \in Int
    BY UsableExp
  <2> QED
    BY <2>1
<1>3. B \in G /\ Exp(B, (e1 - e2) % q) = Exp(b, (z1 - z2) % q)
  BY <1>2, Solution
<1>4. Exp(b, z1) = Mul(Exp(b, z2), Exp(b, (z1 - z2) % q))
  BY UsableDifference
<1>5. Mul(Exp(b, z2), Exp(B, (e1 - e2) % q)) = Mul(a, Exp(h, e1))
  BY <1>3, <1>4
<1> HIDE DEF B
<1>6. h = B
  BY <1>1, <1>3, <1>5, Extraction
<1> QED
  BY <1>6 DEF B

(* An answer <<z, y>> that Pedersen's equation accepts.                     *)
Answers(a, b, c, h, e, z, y) ==
    /\ Usable(z) /\ Usable(y)
    /\ Mul(Exp(b, z), Exp(c, y)) = Mul(a, Exp(h, e))

(* Two bases, as in Pedersen's commitment.                                 *)
LEMMA TwoBases ==
    ASSUME PrimeOrder, NEW a \in G, NEW b \in G, NEW c \in G, NEW h \in G,
           NEW w \in Zq, NEW u \in Zq,
           NEW e1, Usable(e1), NEW e2, Usable(e2), (e1 - e2) % q \in 1 .. q - 1,
           NEW z1, NEW z2, NEW y1, NEW y2,
           Answers(a, b, c, h, e1, z1, y1), Answers(a, b, c, h, e2, z2, y2),
           ((e1 - e2) * w - (z1 - z2)) % q = 0,
           ((e1 - e2) * u - (y1 - y2)) % q = 0
    PROVE  h = Mul(Exp(b, w), Exp(c, u))
<1> DEFINE B == Exp(b, w)
           C == Exp(c, u)
           D == (e1 - e2) % q
           Z == Exp(b, (z1 - z2) % q)
           Y == Exp(c, (y1 - y2) % q)
           L == Mul(Exp(b, z2), Exp(c, y2))
<1>0. Usable(z1) /\ Usable(y1) /\ Usable(z2) /\ Usable(y2)
  BY DEF Answers
<1>1. Exp(b, z2) \in G /\ Exp(c, y2) \in G
  BY <1>0, UsableExp
<1>2. e1 - e2 \in Int /\ z1 - z2 \in Int /\ y1 - y2 \in Int
  <2>1. e1 \in Int /\ e2 \in Int /\ z1 \in Int /\ z2 \in Int /\ y1 \in Int /\ y2 \in Int
    BY <1>0, UsableExp
  <2> QED
    BY <2>1
<1>3. B \in G /\ Exp(B, D) = Z
  BY <1>2, Solution
<1>4. C \in G /\ Exp(C, D) = Y
  BY <1>2, Solution
<1>5. Z \in G /\ Exp(b, z1) = Mul(Exp(b, z2), Z)
  BY <1>0, UsableDifference
<1>6. Y \in G /\ Exp(c, y1) = Mul(Exp(c, y2), Y)
  BY <1>0, UsableDifference
<1>7. D \in Exps
  <2>1. D \in Zq
    BY UsableDifference
  <2> QED
    BY <2>1, ZqExps
<1> HIDE DEF B, C, D, Z, Y
<1>8. Mul(B, C) \in G /\ Exp(Mul(B, C), D) = Mul(Z, Y)
  BY <1>3, <1>4, <1>7, DlogAssumption DEF GroupLaws
<1>9. L \in G /\ Mul(L, Mul(Z, Y)) = Mul(Exp(b, z1), Exp(c, y1))
  <2>1. L \in G
    BY <1>1, DlogAssumption DEF GroupLaws
  <2> QED
    BY <2>1, <1>1, <1>5, <1>6, Exchange
<1>10. L = Mul(a, Exp(h, e2)) /\ Mul(L, Exp(Mul(B, C), D)) = Mul(a, Exp(h, e1))
  BY <1>8, <1>9 DEF Answers
<1> HIDE DEF L
<1>11. h = Mul(B, C)
  BY <1>8, <1>9, <1>10, Extraction DEF D
<1> QED
  BY <1>11 DEF B, C

(* The first message consists of group elements.                           *)
Opening(k, x, a) ==
    /\ k # "DHExtended" => a[1] \in G
    /\ k = "DH" => a[2] \in G
    /\ k = "DHExtended" => \A i \in DOMAIN x.bases : a[i] \in G

(* Two accepted transcripts with one first message: every solution of the  *)
(* equation is a witness.                                                  *)
LEMMA TwoAnswers ==
    ASSUME PrimeOrder, NEW k \in Kinds, NEW x, Shape(k, x), NEW a, Opening(k, x, a),
           NEW e1, Usable(e1), NEW e2, Usable(e2), (e1 - e2) % q \in 1 .. q - 1,
           k = "Dlog" => e1 >= 0 /\ e2 >= 0,
           NEW z1, Usable(z1[1]), Usable(z1[2]), NEW z2, Usable(z2[1]), Usable(z2[2]),
           Accepts(k, x, a, e1, z1), Accepts(k, x, a, e2, z2),
           NEW w, w[1] \in Zq, w[2] \in Zq,
           ((e1 - e2) * w[1] - (z1[1] - z2[1])) % q = 0,
           ((e1 - e2) * w[2] - (z1[2] - z2[2])) % q = 0
    PROVE  Relation(k, x, w)
<1>0. g \in G
  BY KeyTypes
<1>1. CASE k = "Dlog"
  <2>1. PICK h \in G : x = DlogInput(h)
    BY <1>1 DEF Shape
  <2>2. a[1] \in G
    BY <1>1 DEF Opening
  <2>3. x.bases = <<g>> /\ x.images = <<h>>
    BY <2>1 DEF DlogInput
  <2>4. Abs(e1) = e1 /\ Abs(e2) = e2
    BY <1>1 DEF Abs
  <2>5. Exp(g, z1[1]) = Mul(a[1], Exp(h, e1)) /\ Exp(g, z2[1]) = Mul(a[1], Exp(h, e2))
    BY <1>1, <2>3, <2>4 DEF Accepts, DlogVerify
  <2>6. h = Exp(g, w[1])
    BY <1>0, <2>2, <2>5, OneBase
  <2> QED
    BY <1>1, <2>3, <2>6 DEF Relation
<1>2. CASE k = "DH"
  <2>1. PICK h \in G, u \in G, v \in G : x = DHInput(h, u, v)
    BY <1>2 DEF Shape
  <2>2. a[1] \in G /\ a[2] \in G
    BY <1>2 DEF Opening
  <2>3. x.bases = <<g, h>> /\ x.images = <<u, v>>
    BY <2>1 DEF DHInput
  <2>4. /\ Exp(g, z1[1]) = Mul(a[1], Exp(u, e1)) /\ Exp(g, z2[1]) = Mul(a[1], Exp(u, e2))
        /\ Exp(h, z1[1]) = Mul(a[2], Exp(v, e1)) /\ Exp(h, z2[1]) = Mul(a[2], Exp(v, e2))
    BY <1>2, <2>3 DEF Accepts, DHVerify
  <2>5. u = Exp(g, w[1])
    BY <1>0, <2>2, <2>4, OneBase
  <2>6. v = Exp(h, w[1])
    BY <2>2, <2>4, OneBase
  <2> QED
    BY <1>2, <2>3, <2>5, <2>6 DEF Relation
<1>3. CASE k = "DHExtended"
  <2> SUFFICES ASSUME NEW i \in DOMAIN x.bases
               PROVE  x.images[i] = Exp(x.bases[i], w[1])
    BY <1>3 DEF Relation
  <2>1. x.bases[i] \in G /\ x.images[i] \in G /\ a[i] \in G
    BY <1>3 DEF Shape, Opening
  <2>2. /\ Exp(x.bases[i], z1[1]) = Mul(a[i], Exp(x.images[i], e1))
        /\ Exp(x.bases[i], z2[1]) = Mul(a[i], Exp(x.images[i], e2))
    BY <1>3 DEF Accepts, DHExtendedVerify
  <2> QED
    BY <2>1, <2>2, OneBase
<1>4. CASE k = "Pedersen"
  <2>1. PICK h \in G, c \in G : x = PedersenInput(h, c)
    BY <1>4 DEF Shape
  <2>2. a[1] \in G
    BY <1>4 DEF Opening
  <2>3. x.bases = <<h, g>> /\ x.images = <<c>>
    BY <2>1 DEF PedersenInput
  <2>4. /\ Mul(Exp(h, z1[1]), Exp(g, z1[2])) = Mul(a[1], Exp(c, e1))
        /\ Mul(Exp(h, z2[1]), Exp(g, z2[2])) = Mul(a[1], Exp(c, e2))
    BY <1>4, <2>3 DEF Accepts, PedersenVerify
  <2>5. /\ Answers(a[1], h, g, c, e1, z1[1], z1[2])
        /\ Answers(a[1], h, g, c, e2, z2[1], z2[2])
    BY <2>4 DEF Answers
  <2>6. c = Mul(Exp(h, w[1]), Exp(g, w[2]))
    BY <1>0, <2>2, <2>5, TwoBases
  <2> QED
    BY <1>4, <2>3, <2>6 DEF Relation
<1> QED
  BY <1>1, <1>2, <1>3, <1>4 DEF Kinds

(* Products of powers are elements, whatever positive exponents they have. *)
LEMMA MaskedPower ==
    ASSUME NEW a \in G, NEW b \in G, NEW z \in Zq, NEW e \in Signed
    PROVE  Exp(a, z) \in G /\ Mul(Exp(a, z), Exp(b, q - e)) \in G
<1>1. q - e \in Exps
  <2>1. q \in Nat /\ q > 1 /\ e \in Int /\ -(q - 1) <= e /\ e <= q - 1
    BY ZqExps DEF Signed
  <2>2. q * q >= q
    BY <2>1
  <2>3. q - e \in 0 .. (2 * q)
    BY <2>1
  <2>4. 2 * q <= 2 * q * q /\ 2 * q * q \in Nat
    BY <2>1, <2>2
  <2> QED
    BY <2>1, <2>3, <2>4 DEF Exps, MaxExp
<1>2. Exp(a, z) \in G /\ Exp(b, q - e) \in G
  BY <1>1, ZqExps, DlogAssumption DEF GroupLaws
<1> QED
  BY <1>2, DlogAssumption DEF GroupLaws

(* The first messages of the prover and of the simulator are openings.     *)
LEMMA MessageOpening ==
    ASSUME NEW k \in Kinds, NEW x, Shape(k, x), NEW e \in Signed, NEW z \in RandomPairs(k)
    PROVE  Opening(k, x, FirstMsg(k, x, z)) /\ Opening(k, x, SimulatedMsg(k, x, e, z))
<1>0. g \in G /\ z[1] \in Zq /\ z[2] \in Zq
  BY KeyTypes, PairParts
<1>1. CASE k = "Dlog"
  <2>1. PICK h \in G : x = DlogInput(h)
    BY <1>1 DEF Shape
  <2>2. x.images[1] = h /\ Abs(e) \in Signed
    BY <2>1, AbsSigned DEF DlogInput
  <2>3. Exp(g, z[1]) \in G /\ Mul(Exp(g, z[1]), Exp(h, q - Abs(e))) \in G
    BY <1>0, <2>2, MaskedPower
  <2> QED
    BY <1>1, <2>2, <2>3 DEF Opening, FirstMsg, DlogFirstMsg, SimulatedMsg, DlogSimulate
<1>2. CASE k = "DH"
  <2>1. PICK h \in G, u \in G, v \in G : x = DHInput(h, u, v)
    BY <1>2 DEF Shape
  <2>2. x.images[1] = u /\ x.images[2] = v /\ x.bases[2] = h
    BY <2>1 DEF DHInput
  <2>3. /\ Exp(g, z[1]) \in G /\ Mul(Exp(g, z[1]), Exp(u, q - e)) \in G
        /\ Exp(h, z[1]) \in G /\ Mul(Exp(h, z[1]), Exp(v, q - e)) \in G
    BY <1>0, MaskedPower
  <2> QED
    BY <1>2, <2>2, <2>3 DEF Opening, FirstMsg, DHFirstMsg, SimulatedMsg, DHSimulate
<1>3. CASE k = "DHExtended"
  <2>1. \A i \in DOMAIN x.bases :
           /\ Exp(x.bases[i], z[1]) \in G
           /\ Mul(Exp(x.bases[i], z[1]), Exp(x.images[i], q - e)) \in G
    BY <1>0, <1>3, MaskedPower DEF Shape
  <2> QED
    BY <1>3, <2>1 DEF Opening, FirstMsg, DHExtendedFirstMsg, SimulatedMsg,
       DHExtendedSimulate
<1>4. CASE k = "Pedersen"
  <2>1. PICK h \in G, c \in G : x = PedersenInput(h, c)
    BY <1>4 DEF Shape
  <2>2. x.images[1] = c /\ x.bases[1] = h
    BY <2>1 DEF PedersenInput
  <2> DEFINE m == Mul(Exp(h, z[1]), Exp(g, z[2]))
  <2>3. m \in G /\ Mul(m, Exp(c, q - e)) \in G
    <3>1. Exp(h, z[1]) \in G /\ Exp(g, z[2]) \in G
      BY <1>0, MaskedPower
    <3>2. m \in G
      BY <3>1, DlogAssumption DEF GroupLaws
    <3> HIDE DEF m
    <3>3. Exp(m, 1) = m
      BY <3>2, DlogAssumption DEF GroupLaws
    <3>4. 1 \in Zq
      BY ZqExps DEF Zq
    <3> QED
      BY <3>2, <3>3, <3>4, MaskedPower
  <2> QED
    BY <1>4, <2>2, <2>3 DEF Opening, FirstMsg, PedersenFirstMsg, SimulatedMsg,
       PedersenSimulate
<1> QED
  BY <1>1, <1>2, <1>3, <1>4 DEF Kinds

(* SigmaDlog never answers with a negative number.                         *)
LEMMA DlogAnswerNatural ==
    ASSUME NEW e \in Signed, NEW w, w[1] \in Zq, NEW rnd \in RandomPairs("Dlog")
    PROVE  DlogSecondMsg(e, w, rnd)[1] >= 0 /\ DlogSecondMsg(e, w, rnd)[2] = 0
<1>1. q \in Nat /\ q > 1 /\ Abs(e) \in Nat /\ w[1] \in Nat /\ rnd[1] \in Nat
  BY PairParts, AbsSigned, ZqExps DEF Signed, Zq
<1>2. \A n \in Nat : Rem(n) \in Nat
  BY <1>1, ModInZq DEF Rem, Zq
<1>3. Abs(e) * w[1] \in Nat
  BY <1>1
<1>4. Rem(Abs(e) * w[1]) \in Nat
  BY <1>2, <1>3
<1>5. rnd[1] + Rem(Abs(e) * w[1]) \in Nat
  BY <1>1, <1>4
<1>6. Rem(rnd[1] + Rem(Abs(e) * w[1])) \in Nat
  BY <1>2, <1>5
<1> QED
  BY <1>6 DEF DlogSecondMsg

(* What a proof that is being answered keeps, and extraction needs: the    *)
(* first message is in the group, the challenge has passed                 *)
(* checkChallengeLength, and SigmaDlog's answer is not negative.           *)
Extractable ==
    LET k == Kind[proto] IN
    /\ phase \in {"first", "challenged", "answered"} => Opening(k, stmt, first)
    /\ phase = "answered" => checkChallengeLength(k, challenge[1], soundness)
    /\ phase = "answered" /\ k = "Dlog" => second[1] >= 0 /\ second[2] = 0

(* Every step keeps it.                                                    *)
LEMMA ExtractableStep ==
    ASSUME TypeInv, Transcript, Extractable, [SigmaNext]_sigmaVars
    PROVE  Extractable'
<1>0. Kind[proto] \in Kinds /\ Shape(Kind[proto], stmt)
  BY ProtoKinds DEF TypeInv, SigmaTypeOK, Transcript
<1>e. 0 \in Signed
  BY ZqExps DEF Signed
<1> USE DEF Extractable, inputVars
<1>1. CASE Construct
  BY <1>1 DEF Construct
<1>2. CASE ComputeFirstMsg
  <2>1. coins' \in RandomPairs(Kind[proto]) /\ first' = FirstMsg(Kind[proto], stmt, coins')
    BY <1>2 DEF ComputeFirstMsg
  <2>2. Opening(Kind[proto], stmt, first')
    BY <1>0, <1>e, <2>1, MessageOpening
  <2> QED
    BY <1>2, <2>2 DEF ComputeFirstMsg
<1>3. CASE SampleChallenge
  BY <1>3 DEF SampleChallenge
<1>4. CASE SetChallenge
  BY <1>4 DEF SetChallenge
<1>5. CASE ComputeSecondMsg
  <2>1. /\ challenge[1] \in Signed /\ coins \in RandomPairs(Kind[proto]) /\ wit[1] \in Zq
        /\ Opening(Kind[proto], stmt, first)
    BY <1>5 DEF ComputeSecondMsg, TypeInv, SigmaTypeOK, Signed, Witness
  <2>2. CASE ~ checkChallengeLength(Kind[proto], challenge[1], soundness)
    BY <1>5, <2>2 DEF ComputeSecondMsg
  <2>3. CASE checkChallengeLength(Kind[proto], challenge[1], soundness)
    <3>1. second' = SecondMsg(Kind[proto], challenge[1], wit, coins)
      BY <1>5, <2>3 DEF ComputeSecondMsg
    <3>2. Kind[proto] = "Dlog" => second'[1] >= 0 /\ second'[2] = 0
      BY <2>1, <3>1, DlogAnswerNatural DEF SecondMsg
    <3> QED
      BY <1>5, <2>1, <2>3, <3>2 DEF ComputeSecondMsg
  <2> QED
    BY <2>2, <2>3
<1>6. CASE Simulate
  <2>1. PICK e \in SimulatedChallenges(Kind[proto], soundness) :
           checkChallengeLength(Kind[proto], e, soundness) /\ challenge' = <<e>>
    BY <1>6 DEF Simulate
  <2>2. e \in Signed
    BY <1>6, ChallengeRange DEF Simulate, TypeInv, SigmaTypeOK
  <2>3. challenge'[1] = e /\ second' \in RandomPairs(Kind[proto])
        /\ first' = SimulatedMsg(Kind[proto], stmt, e, second')
    BY <1>6, <2>1 DEF Simulate
  <2>4. Opening(Kind[proto], stmt, first')
    BY <1>0, <2>2, <2>3, MessageOpening
  <2>5. Kind[proto] = "Dlog" => second'[1] >= 0 /\ second'[2] = 0
    BY <2>3, ZqExps DEF RandomPairs, Zq
  <2> QED
    BY <1>6, <2>1, <2>3, <2>4, <2>5 DEF Simulate
<1>7. CASE Verify
  BY <1>7 DEF Verify
<1>8. CASE UNCHANGED sigmaVars
  BY <1>8 DEF sigmaVars
<1> QED
  BY <1>1, <1>2, <1>3, <1>4, <1>5, <1>6, <1>7, <1>8, Zenon DEF SigmaNext

(* Two challenges within the bound of check_soundness differ modulo q.     *)
LEMMA ChallengesApart ==
    ASSUME NEW half \in SoundnessParams, 2 * half < q, NEW k,
           NEW e1 \in Challenges(k, half), NEW e2 \in Challenges(k, half) \ {e1}
    PROVE  (e1 - e2) % q \in 1 .. q - 1
<1>1. half \in Nat /\ half > 0 /\ q \in Nat
  BY SigmaAssumption, ZqExps
<1>2. e1 - e2 \in Int /\ e1 - e2 # 0 /\ -q < e1 - e2 /\ e1 - e2 < q
  BY <1>1 DEF Challenges, DlogChallenges, SignedChallenges
<1> QED
  BY <1>2, Apart

(* The challenge verify works with is one that could have been sampled.    *)
LEMMA EffectiveChallenge ==
    ASSUME NEW half \in SoundnessParams, NEW k, NEW e \in Signed,
           checkChallengeLength(k, e, half)
    PROVE  (IF k = "Dlog" THEN Abs(e) ELSE e) \in Challenges(k, half)
<1>1. half \in Nat /\ half > 0
  BY SigmaAssumption
<1>2. Abs(e) \in Int /\ Abs(e) >= 0
  BY AbsSigned, ZqExps DEF Signed
<1> QED
  BY <1>1, <1>2 DEF checkChallengeLength, Challenges, DlogChallenges, SignedChallenges

(* Special soundness of the eleven protocols: in a group of prime order    *)
(* that honours the exponents they make, two accepted answers to the same  *)
(* first message leave no solution of the extractor's equation that is not *)
(* a witness, for every pair of challenges check_soundness and             *)
(* checkChallengeLength let through.  The statement need not be true.      *)
THEOREM SpecialSoundnessCorrect ==
    ASSUME SignsHonoured, PrimeOrder
    PROVE  SigmaSpec => []SpecialSoundness
<1>1. SigmaInit => Transcript /\ Extractable
  <2>1. SigmaInit => Extractable
    BY DEF SigmaInit, Extractable
  <2> QED
    BY <2>1, TranscriptInit
<1>2. TypeInv /\ Transcript /\ Extractable /\ [SigmaNext]_sigmaVars
        => (Transcript /\ Extractable)'
  BY TranscriptStep, ExtractableStep
<1>3. TypeInv /\ Transcript /\ Extractable => SpecialSoundness
  <2> DEFINE k == Kind[proto]
             e1 == IF k = "Dlog" THEN Abs(challenge[1]) ELSE challenge[1]
  <2> SUFFICES ASSUME TypeInv, Transcript, Extractable, phase = "answered",
                      NEW e2 \in Challenges(k, soundness) \ {e1},
                      NEW z2 \in RandomPairs(k),
                      Accepts(k, stmt, first, e1, second), Accepts(k, stmt, first, e2, z2),
                      NEW w \in RandomPairs(k),
                      \A i \in {1, 2} :
                          ((e1 - e2) * w[i] - (second[i] - z2[i])) % q = 0
               PROVE  Relation(k, stmt, w)
    BY DEF SpecialSoundness
  <2>1. /\ proto \in Protos /\ k \in Kinds /\ soundness \in SoundnessParams
        /\ 2 * soundness < q /\ challenge[1] \in Signed
        /\ \A i \in {1, 2} : second[i] \in Signed
    BY ProtoKinds DEF TypeInv, SigmaTypeOK, Signed
  <2>2. SignedLaws \/ k = "Dlog"
    BY <2>1 DEF SignsHonoured
  <2>3. /\ Shape(k, stmt) /\ Opening(k, stmt, first)
        /\ checkChallengeLength(k, challenge[1], soundness)
        /\ k = "Dlog" => second[1] >= 0 /\ second[2] = 0
    BY DEF Transcript, Extractable
  <2>4. e1 \in Challenges(k, soundness)
    BY <2>1, <2>3, EffectiveChallenge
  <2>5. ((e1 - e2) * w[1] - (second[1] - z2[1])) % q = 0
        /\ ((e1 - e2) * w[2] - (second[2] - z2[2])) % q = 0
    OBVIOUS
  <2> HIDE DEF k, e1
  <2>6. (e1 - e2) % q \in 1 .. q - 1
    BY <2>1, <2>4, ChallengesApart
  <2>7. e1 \in Signed /\ e2 \in Signed /\ (k = "Dlog" => e1 >= 0 /\ e2 >= 0)
    <3>1. k = "Dlog" => e1 >= 0 /\ e2 >= 0
      BY <2>1, <2>4, SigmaAssumption DEF Challenges, DlogChallenges
    <3> QED
      BY <2>1, <2>4, <3>1, ChallengeRange
  <2>8. Usable(e1) /\ Usable(e2)
    BY <2>2, <2>7 DEF Usable, Signed
  <2>9. z2[1] \in Zq /\ z2[2] \in Zq /\ w[1] \in Zq /\ w[2] \in Zq
    BY PairParts
  <2>10. Usable(z2[1]) /\ Usable(z2[2])
    BY <2>9, ZqExps DEF Usable, Zq
  <2>11. Usable(second[1]) /\ Usable(second[2])
    <3>1. second[1] \in Signed /\ second[2] \in Signed
          /\ (k = "Dlog" => second[1] >= 0 /\ second[2] >= 0)
      BY <2>1, <2>3
    <3> QED
      BY <2>2, <3>1 DEF Usable, Signed
  <2> QED
    BY <2>1, <2>3, <2>5, <2>6, <2>7, <2>8, <2>9, <2>10, <2>11, TwoAnswers
<1> QED
  BY <1>1, <1>2, <1>3, TypeInvInvariant, PTL DEF SigmaSpec
=============================================================================
