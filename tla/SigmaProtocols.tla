--------------------------- MODULE SigmaProtocols ---------------------------
(***************************************************************************)
(* One proof with the sigma protocols over a Dlog group: the computation   *)
(* objects of the prover, of the verifier and of the simulator             *)
(* (SigmaProtocol{Dlog,DH,DHExtended,PedersenCmtKnowledge}.cpp), and the   *)
(* protocols that convert their input to one of these (ElGamal keys,       *)
(* commitments and ciphertexts, Pedersen committed values, Cramer-Shoup    *)
(* ciphertexts).                                                           *)
(*                                                                         *)
(* A statement of the first three protocols says that one exponent takes   *)
(* every base to its image; Pedersen's says that c = h^x g^r.  A challenge *)
(* is the integer that decodeBigInteger reads out of its bytes, which is   *)
(* signed: SigmaDlog takes its magnitude and the others do not.            *)
(***************************************************************************)
EXTENDS Encryption, Sequences

CONSTANTS Protos,           \* the protocols to run
          SoundnessParams,  \* values of 2^(t - 1), t the soundness parameter
          Secrets,          \* exponents that keys and witnesses are taken from
          HashValues        \* what Cramer-Shoup's hash decodes to, of any sign

ASSUME SigmaAssumption ==
    /\ SoundnessParams \subseteq Nat \ {0}
    /\ Secrets \subseteq Zq
    /\ HashValues \subseteq -(q - 1) .. (q - 1)

(* The protocol that each protocol is computed by.                         *)
Kind == [Dlog             |-> "Dlog",
         ElGamalPrivKey   |-> "Dlog",
         ElGamalCmtKnow   |-> "Dlog",
         PedersenCmtValue |-> "Dlog",
         DH               |-> "DH",
         ElGamalCmtValue  |-> "DH",
         ElGamalEncRand   |-> "DH",
         ElGamalEncPriv   |-> "DH",
         DHExtended       |-> "DHExtended",
         CramerShoup      |-> "DHExtended",
         PedersenCmtKnow  |-> "Pedersen"]

ASSUME ProtosAssumption == Protos \subseteq DOMAIN Kind

Kinds == {"Dlog", "DH", "DHExtended", "Pedersen"}

NoWitness == <<>>

(* Every protocol that is run can work with signed exponents: the group    *)
(* honours them, as OpenSSLDlogEC does, or the protocol never makes one,   *)
(* as SigmaDlog and the protocols that convert to it do not.               *)
SignsHonoured == SignedLaws \/ \A p \in Protos : Kind[p] = "Dlog"

-----------------------------------------------------------------------------
(* Statements.                                                             *)

DlogInput(h) == [bases |-> <<g>>, images |-> <<h>>]

DHInput(h, u, v) == [bases |-> <<g, h>>, images |-> <<u, v>>]

DHExtendedInput(gArray, hArray) == [bases |-> gArray, images |-> hArray]

PedersenInput(h, c) == [bases |-> <<h, g>>, images |-> <<c>>]

(* What the statement claims, for the witness w.                           *)
Relation(k, x, w) ==
    IF k = "Pedersen"
    THEN x.images[1] = Mul(Exp(x.bases[1], w[1]), Exp(x.bases[2], w[2]))
    ELSE \A i \in DOMAIN x.bases : x.images[i] = Exp(x.bases[i], w[1])

-----------------------------------------------------------------------------
(* What the application makes and the convertInput of each protocol.       *)

PedersenCommit(h, x, r) == Mul(Exp(g, r), Exp(h, x))

PedersenCmtValueInput(h, c, x) == DlogInput(Mul(c, Exp(h, q - x)))

ElGamalCmtValueInput(h, c, m) == DHInput(h, c[1], Mul(c[2], Inv(m)))

ElGamalEncRandInput(h, c, m) == DHInput(h, c[1], Mul(c[2], Inv(m)))

ElGamalEncPrivInput(h, c, m) == DHInput(c[1], h, Mul(c[2], Inv(m)))

CramerShoupInput(key, c, m, alpha) ==
    DHExtendedInput(
        <<key[1], key[2], key[3], Mul(key[4], Exp(key[5], Rem(alpha)))>>,
        <<c[1], c[2], Mul(c[3], Inv(m)), c[4]>>)

-----------------------------------------------------------------------------
(* The prover, the verifier and the simulator of each kind.                *)

DlogFirstMsg(rnd) == <<Exp(g, rnd[1])>>

DHFirstMsg(x, rnd) == <<Exp(g, rnd[1]), Exp(x.bases[2], rnd[1])>>

DHExtendedFirstMsg(x, rnd) == [i \in DOMAIN x.bases |-> Exp(x.bases[i], rnd[1])]

PedersenFirstMsg(x, rnd) ==
    <<Mul(Exp(x.bases[1], rnd[1]), Exp(g, rnd[2]))>>

DlogSecondMsg(e, w, rnd) == <<Rem(rnd[1] + Rem(Abs(e) * w[1])), 0>>

DHSecondMsg(e, w, rnd) == <<Rem(rnd[1] + Rem(e * w[1])), 0>>

DHExtendedSecondMsg(e, w, rnd) == <<Rem(rnd[1] + Rem(e * w[1])), 0>>

PedersenSecondMsg(e, w, rnd) ==
    <<Rem(rnd[1] + Rem(e * w[1])), Rem(rnd[2] + Rem(e * w[2]))>>

DlogVerify(x, a, e, z) ==
    /\ x.images[1] \in G
    /\ Exp(g, z[1]) = Mul(a[1], Exp(x.images[1], Abs(e)))

DHVerify(x, a, e, z) ==
    /\ x.bases[2] \in G
    /\ Exp(g, z[1]) = Mul(a[1], Exp(x.images[1], e))
    /\ Exp(x.bases[2], z[1]) = Mul(a[2], Exp(x.images[2], e))

DHExtendedVerify(x, a, e, z) ==
    \A i \in DOMAIN x.bases :
        /\ x.bases[i] \in G
        /\ Exp(x.bases[i], z[1]) = Mul(a[i], Exp(x.images[i], e))

PedersenVerify(x, a, e, z) ==
    /\ x.bases[1] \in G
    /\ Mul(Exp(x.bases[1], z[1]), Exp(g, z[2])) = Mul(a[1], Exp(x.images[1], e))

(* Variant: the challenge is not negated.                                  *)
DHExtendedSimulatePositive(x, e, z) ==
    [i \in DOMAIN x.bases |-> Mul(Exp(x.bases[i], z[1]), Exp(x.images[i], e))]

DlogSimulate(x, e, z) == <<Mul(Exp(g, z[1]), Exp(x.images[1], q - Abs(e)))>>

DHSimulate(x, e, z) ==
    <<Mul(Exp(g, z[1]), Exp(x.images[1], q - e)),
      Mul(Exp(x.bases[2], z[1]), Exp(x.images[2], q - e))>>

DHExtendedSimulate(x, e, z) ==
    [i \in DOMAIN x.bases |-> Mul(Exp(x.bases[i], z[1]), Exp(x.images[i], q - e))]

PedersenSimulate(x, e, z) ==
    <<Mul(Mul(Exp(x.bases[1], z[1]), Exp(g, z[2])), Exp(x.images[1], q - e))>>

FirstMsg(k, x, rnd) ==
    CASE k = "Dlog"       -> DlogFirstMsg(rnd)
      [] k = "DH"         -> DHFirstMsg(x, rnd)
      [] k = "DHExtended" -> DHExtendedFirstMsg(x, rnd)
      [] k = "Pedersen"   -> PedersenFirstMsg(x, rnd)

SecondMsg(k, e, w, rnd) ==
    CASE k = "Dlog"       -> DlogSecondMsg(e, w, rnd)
      [] k = "DH"         -> DHSecondMsg(e, w, rnd)
      [] k = "DHExtended" -> DHExtendedSecondMsg(e, w, rnd)
      [] k = "Pedersen"   -> PedersenSecondMsg(e, w, rnd)

Accepts(k, x, a, e, z) ==
    CASE k = "Dlog"       -> DlogVerify(x, a, e, z)
      [] k = "DH"         -> DHVerify(x, a, e, z)
      [] k = "DHExtended" -> DHExtendedVerify(x, a, e, z)
      [] k = "Pedersen"   -> PedersenVerify(x, a, e, z)

SimulatedMsg(k, x, e, z) ==
    CASE k = "Dlog"       -> DlogSimulate(x, e, z)
      [] k = "DH"         -> DHSimulate(x, e, z)
      [] k = "DHExtended" -> DHExtendedSimulate(x, e, z)
      [] k = "Pedersen"   -> PedersenSimulate(x, e, z)

(* The second random value exists in Pedersen's protocol only.             *)
RandomPairs(k) == Zq \X (IF k = "Pedersen" THEN Zq ELSE {0})

-----------------------------------------------------------------------------
(* Challenges.  The soundness parameter t enters the code as 2^t only; here *)
(* it is given by half = 2^(t - 1).                                        *)

(* Variant: no check.                                                      *)
check_soundness_none(half) == TRUE

check_soundness(half) == 2 * half < q

(* SigmaDlog samples an integer of t bits and encodes it; the others sample *)
(* t bits, which decode to a signed integer.                               *)
DlogChallenges(half) == 0 .. (2 * half - 1)

SignedChallenges(half) == -half .. (half - 1)

Challenges(k, half) ==
    IF k = "Dlog" THEN DlogChallenges(half) ELSE SignedChallenges(half)

(* simulate takes a challenge or samples t bits itself, in every protocol.  *)
SimulatedChallenges(k, half) == Challenges(k, half) \cup SignedChallenges(half)

checkChallengeLength(k, e, half) ==
    IF k = "Dlog" THEN Abs(e) < 2 * half ELSE e \in SignedChallenges(half)

-----------------------------------------------------------------------------
(* The statements a proof is started on: true ones, with their witness, as *)
(* the application makes them, and any at all, for the simulator.          *)

PublicKeys == {Exp(g, s) : s \in Secrets}

CramerShoupKeys ==
    {<<g, g2, h, c, d>> : g2 \in PublicKeys, h \in PublicKeys,
                          c \in PublicKeys, d \in PublicKeys}

TrueStatement(p, x, w) ==
    \E s, k, r \in Secrets, m \in PublicKeys :
        LET h == Exp(g, k) IN
        \/ /\ p \in {"Dlog", "ElGamalPrivKey", "ElGamalCmtKnow"}
           /\ x = DlogInput(Exp(g, s))
           /\ w = <<s, 0>>
        \/ /\ p = "PedersenCmtValue"
           /\ x = PedersenCmtValueInput(h, PedersenCommit(h, s, r), s)
           /\ w = <<r, 0>>
        \/ /\ p = "DH"
           /\ x = DHInput(h, Exp(g, s), Exp(h, s))
           /\ w = <<s, 0>>
        \/ /\ p = "ElGamalCmtValue"
           /\ x = ElGamalCmtValueInput(h, ElGamalEncrypt(h, m, r), m)
           /\ w = <<r, 0>>
        \/ /\ p = "ElGamalEncRand"
           /\ x = ElGamalEncRandInput(h, ElGamalEncrypt(h, m, r), m)
           /\ w = <<r, 0>>
        \/ /\ p = "ElGamalEncPriv"
           /\ x = ElGamalEncPrivInput(h, ElGamalEncrypt(h, m, r), m)
           /\ w = <<k, 0>>
        \/ /\ p = "DHExtended"
           /\ x = DHExtendedInput(<<h, m>>, <<Exp(h, s), Exp(m, s)>>)
           /\ w = <<s, 0>>
        \/ /\ p = "CramerShoup"
           /\ \E key \in CramerShoupKeys, alpha \in HashValues :
                 x = CramerShoupInput(key, CramerShoupEncrypt(key, m, r, alpha), m, alpha)
           /\ w = <<r, 0>>
        \/ /\ p = "PedersenCmtKnow"
           /\ x = PedersenInput(h, PedersenCommit(h, s, r))
           /\ w = <<s, r>>

(* Statements that need not be true.                                       *)
AnyStatement(k, x) ==
    \E h \in PublicKeys, u, v \in G :
        \/ k = "Dlog"       /\ x = DlogInput(u)
        \/ k = "DH"         /\ x = DHInput(h, u, v)
        \/ k = "DHExtended" /\ x = DHExtendedInput(<<g, h>>, <<u, v>>)
        \/ k = "Pedersen"   /\ x = PedersenInput(h, u)

-----------------------------------------------------------------------------
VARIABLES proto,      \* the protocol
          soundness,  \* 2^(t - 1)
          stmt,       \* the common input, converted
          wit,        \* the prover's private input, or NoWitness
          phase,      \* how far the proof has come
          by,         \* "prover" or "simulator": who made the transcript
          coins,      \* the prover's r (alpha and beta), 0 once used
          first,      \* the first message a
          challenge,  \* the verifier's e, <<>> when cleared
          second,     \* the second message z
          verdict     \* what verify returned

sigmaVars == <<proto, soundness, stmt, wit, phase, by, coins, first, challenge,
               second, verdict>>

inputVars == <<proto, soundness, stmt, wit>>

SigmaInit ==
    /\ proto \in Protos
    /\ soundness \in SoundnessParams
    /\ \/ TrueStatement(proto, stmt, wit)
       \/ AnyStatement(Kind[proto], stmt) /\ wit = NoWitness
    /\ phase = "new"
    /\ by = "nobody"
    /\ coins = <<0, 0>>
    /\ first = <<>>
    /\ challenge = <<>>
    /\ second = <<0, 0>>
    /\ verdict = FALSE

(* The constructors of the three objects all check t.                      *)
Construct ==
    /\ phase = "new"
    /\ phase' = IF check_soundness(soundness) THEN "ready" ELSE "threw"
    /\ UNCHANGED <<inputVars, by, coins, first, challenge, second, verdict>>

ComputeFirstMsg ==
    /\ phase = "ready"
    /\ wit # NoWitness
    /\ coins' \in RandomPairs(Kind[proto])
    /\ first' = FirstMsg(Kind[proto], stmt, coins')
    /\ by' = "prover"
    /\ phase' = "first"
    /\ UNCHANGED <<inputVars, challenge, second, verdict>>

SampleChallenge ==
    /\ phase = "first"
    /\ \E e \in Challenges(Kind[proto], soundness) : challenge' = <<e>>
    /\ phase' = "challenged"
    /\ UNCHANGED <<inputVars, by, coins, first, second, verdict>>

(* setChallenge takes any bytes; these are one bit too long.               *)
SetChallenge ==
    /\ phase = "first"
    /\ challenge' = <<2 * soundness>>
    /\ phase' = "challenged"
    /\ UNCHANGED <<inputVars, by, coins, first, second, verdict>>

ComputeSecondMsg ==
    /\ phase = "challenged"
    /\ IF checkChallengeLength(Kind[proto], challenge[1], soundness)
       THEN /\ second' = SecondMsg(Kind[proto], challenge[1], wit, coins)
            /\ coins' = <<0, 0>>
            /\ phase' = "answered"
       ELSE /\ phase' = "threw"
            /\ UNCHANGED <<second, coins>>
    /\ UNCHANGED <<inputVars, by, first, challenge, verdict>>

(* simulate, and the setChallenge with which its output is verified.       *)
Simulate ==
    /\ phase = "ready"
    /\ \E e \in SimulatedChallenges(Kind[proto], soundness) :
          /\ checkChallengeLength(Kind[proto], e, soundness)
          /\ challenge' = <<e>>
    /\ second' \in RandomPairs(Kind[proto])
    /\ first' = SimulatedMsg(Kind[proto], stmt, challenge'[1], second')
    /\ by' = "simulator"
    /\ phase' = "answered"
    /\ UNCHANGED <<inputVars, coins, verdict>>

Verify ==
    /\ phase = "answered"
    /\ verdict' = Accepts(Kind[proto], stmt, first, challenge[1], second)
    /\ challenge' = <<>>
    /\ phase' = "done"
    /\ UNCHANGED <<inputVars, by, coins, first, second>>

SigmaNext ==
    \/ Construct \/ ComputeFirstMsg \/ SampleChallenge \/ SetChallenge
    \/ ComputeSecondMsg \/ Simulate \/ Verify

SigmaSpec == SigmaInit /\ [][SigmaNext]_sigmaVars

-----------------------------------------------------------------------------
(* The type invariant.  Exponents stay below q in magnitude, whatever the  *)
(* signs of the remainders, and only t with 2^t < q gets past construction.*)
SigmaTypeOK ==
    /\ proto \in Protos
    /\ soundness \in SoundnessParams
    /\ phase \in {"new", "threw", "ready", "first", "challenged", "answered", "done"}
    /\ phase \notin {"new", "threw"} => 2 * soundness < q
    /\ by \in {"nobody", "prover", "simulator"}
    /\ coins \in RandomPairs(Kind[proto])
    /\ \A i \in {1, 2} : second[i] \in -(q - 1) .. (q - 1)
    /\ phase \in {"challenged", "answered"} => challenge[1] \in -(q - 1) .. (q - 1)
    /\ verdict \in BOOLEAN

(* Every transcript passes verify: the proof of an honest prover, with any *)
(* randomness and any sampled challenge, which is what computeSigmaProtocol*)
(* of the tests requires, and the transcript that simulate computes        *)
(* without a witness, for a statement that is true or not.                 *)
TranscriptAccepted == phase = "done" => verdict

(* Two accepted answers to one first message, for two challenges verify    *)
(* can be given, determine a witness: every solution of the equation       *)
(* (e1 - e2) w = z1 - z2 (mod q) is one.  This is what check_soundness     *)
(* protects.  SigmaDlog tells challenges apart by their magnitude.         *)
SpecialSoundness ==
    phase = "answered" =>
        LET k  == Kind[proto]
            e1 == IF k = "Dlog" THEN Abs(challenge[1]) ELSE challenge[1]
        IN  \A e2 \in Challenges(k, soundness) \ {e1}, z2 \in RandomPairs(k) :
                Accepts(k, stmt, first, e1, second) /\ Accepts(k, stmt, first, e2, z2) =>
                    \A w \in RandomPairs(k) :
                        (\A i \in {1, 2} : ((e1 - e2) * w[i] - (second[i] - z2[i])) % q = 0)
                        => Relation(k, stmt, w)
=============================================================================
