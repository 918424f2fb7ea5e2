-------------------------- MODULE ObliviousTransfer --------------------------
(***************************************************************************)
(* The DDH-based oblivious transfers (OTSemiHonest, OTPrivacyOnly,         *)
(* OTOneSidedSimulation, OTFullSimulation, OTFullSimulationROM, OTUC): a   *)
(* sender and a receiver object that run one transfer after another over a *)
(* channel that delivers in order.  In a transfer the receiver asks with a *)
(* tuple made from sigma, and the sender answers with (w0, c0), (w1, c1),  *)
(* of which the receiver can open the one of sigma.                        *)
(*                                                                         *)
(* The zero-knowledge proofs are the ones of ZkSession, seen from outside: *)
(* both parties go through them together.  ZkSession shows that a proof of *)
(* SigmaDlog by an honest prover is accepted; one of SigmaDH may also be   *)
(* rejected.                                                               *)
(***************************************************************************)
EXTENDS Dlog, ColonStrings

CONSTANTS
    Protocols,     \* the classes of transfers
    Kinds,         \* the OnGroupElement classes, OnByteArray over Zp and over EC
    Elements,      \* inputs of the sender on group elements
    Texts,         \* inputs of the sender on byte arrays
    Kdf(_, _),     \* deriveKey of an element, of a length
    Xor(_, _),     \* ^ on bytes
    References,    \* the <<g0, g1, h0, h1>> the UC objects may be given
    None

ASSUME OTAssumption ==
    /\ Protocols \subseteq
           {"SemiHonest", "PrivacyOnly", "OneSided", "FullSim", "FullSimROM", "UC"}
    /\ Kinds \subseteq {"element", "bytesZp", "bytesEC"}
    /\ Elements \subseteq G
    /\ References \subseteq G \X G \X G \X G

VARIABLES
    protocol, kind,
    spc, rpc,      \* where the sender and the receiver are
    sPre, rPre,    \* preprocessOutput: <<g0, g1, h0, h1>>
    request,       \* the tuple the sender answers
    sigma, secret, \* the receiver's choice, and the exponent it opens with
    toS, toR,      \* messages under way
    given,         \* the inputs the answers under way were made from
    got,           \* the outcome of the receiver's last transfer
    threw          \* a call of the sender ended with an exception

otVars == <<protocol, kind, spc, rpc, sPre, rPre, request, sigma, secret,
            toS, toR, given, got, threw>>

-----------------------------------------------------------------------------
(* What the receiver asks.                                                 *)

Swap(s, a, b) == IF s = 0 THEN <<a, b>> ELSE <<b, a>>

(* Mutant: always the same element.                                        *)
RandomElementsMut == {g}

(* createRandomElement                                                     *)
RandomElements == {Exp(g, n) : n \in 1 .. q - 1}

(* A tuple to send, with the exponent the receiver keeps.                  *)
Ask(tuple, x) == [tuple |-> tuple, secret |-> x]

SemiHonestTuple(s, alpha, h) == Ask(Swap(s, Exp(g, alpha), h), alpha)

(* Mutant: the product is put in the other place.                          *)
QuadTupleMutSwapped(s, alpha, beta, gamma) ==
    LET z == Swap(1 - s, Exp(g, alpha * beta), Exp(g, gamma))
    IN  Ask(<<Exp(g, alpha), Exp(g, beta), z[1], z[2]>>, beta)

QuadTuple(s, alpha, beta, gamma) ==
    LET z == Swap(s, Exp(g, alpha * beta), Exp(g, gamma))
    IN  Ask(<<Exp(g, alpha), Exp(g, beta), z[1], z[2]>>, beta)

computeSecondTuple(s, r, pre) == Ask(<<Exp(pre[s + 1], r), Exp(pre[s + 3], r)>>, r)

(* The tuples of the preprocess phase: alpha1 = alpha0 + 1.                *)
SetupTuple(y, alpha) ==
    <<g, Exp(g, y), Exp(g, alpha), Exp(Exp(g, y), alpha + 1)>>

Setups == {SetupTuple(y, alpha) : y \in Zq, alpha \in Zq}

AsksOf(p, s, pre) ==
    CASE p = "SemiHonest" -> {SemiHonestTuple(s, alpha, h) : alpha \in Zq, h \in RandomElements}
      [] p \in {"PrivacyOnly", "OneSided"} ->
            {QuadTuple(s, alpha, beta, gamma) : alpha \in Zq, beta \in Zq, gamma \in Zq}
      [] OTHER -> {computeSecondTuple(s, r, pre) : r \in Zq}

-----------------------------------------------------------------------------
(* What the sender answers: two elements w and two keys k, then the        *)
(* inputs under the keys.  n are its random values.                        *)

Masks(w0, w1, k0, k1) == [w |-> <<w0, w1>>, k |-> <<k0, k1>>]

SemiHonestMasks(t, r) == Masks(Exp(g, r), Exp(g, r), Exp(t[1], r), Exp(t[2], r))

(* RAND of OTUtil.                                                         *)
RandU(w, y, s, t) == Mul(Exp(w, s), Exp(y, t))
RandV(x, z, s, t) == Mul(Exp(x, s), Exp(z, t))

QuadMasks(t, n) ==
    Masks(Mul(Exp(t[1], n[1]), Exp(g, n[3])), Mul(Exp(t[1], n[2]), Exp(g, n[4])),
          Mul(Exp(t[3], n[1]), Exp(t[2], n[3])), Mul(Exp(t[4], n[2]), Exp(t[2], n[4])))

FullSimMasks(pre, t, n) ==
    Masks(RandU(pre[1], pre[3], n[1], n[2]), RandU(pre[2], pre[4], n[3], n[4]),
          RandV(t[1], t[2], n[1], n[2]), RandV(t[1], t[2], n[3], n[4]))

(* The masks for each choice of its random values.                         *)
MasksOf(p, pre, t) ==
    CASE p = "SemiHonest" -> {SemiHonestMasks(t, r) : r \in Zq}
      [] p \in {"PrivacyOnly", "OneSided"} -> {QuadMasks(t, n) : n \in [1 .. 4 -> Zq]}
      [] OTHER -> {FullSimMasks(pre, t, n) : n \in [1 .. 4 -> Zq]}

XorBytes(a, b) == [i \in DOMAIN a |-> Xor(a[i], b[i])]

ElementTuple(pair, m) ==
    [w |-> m.w, c |-> <<Mul(pair[1], m.k[1]), Mul(pair[2], m.k[2])>>]

BytesTuple(pair, m) ==
    [w |-> m.w, c |-> <<XorBytes(Kdf(m.k[1], Len(pair[1])), pair[1]),
                        XorBytes(Kdf(m.k[2], Len(pair[2])), pair[2])>>]

-----------------------------------------------------------------------------
(* The message on byte arrays is one string.                               *)

(* Numbers in the string of a group element.                               *)
Coordinates == IF kind = "bytesEC" THEN 2 ELSE 1

(* SemiHonest has one element, which is w0 and w1.                         *)
Heads(p) == IF p = "SemiHonest" THEN 1 ELSE 2

toString(p, m) ==
    (IF Heads(p) = 1 THEN <<>> ELSE ElementString(m.w[1], Coordinates) \o <<Separator>>) \o
    ElementString(m.w[2], Coordinates) \o <<Separator>> \o
    BytesString(m.c[1]) \o <<Separator>> \o BytesString(m.c[2])

(* initFromString: the number of parts tells Zp from EC; any other number  *)
(* fails the assertion.  Elements of the other kind are refused by         *)
(* reconstructElement.  None when the call does not get past these.        *)
initFromString(p, s) ==
    LET parts == explode(s)
        numbers == Coordinates * Heads(p)
    IN  IF Len(parts) # numbers + 2 THEN None
        ELSE [w |-> IF p = "SemiHonest"
                    THEN <<parts[1][1].number, parts[1][1].number>>
                    ELSE <<parts[1][1].number, parts[1 + Coordinates][1].number>>,
              c |-> <<Bytes(parts[numbers + 1]), Bytes(parts[numbers + 2])>>]

-----------------------------------------------------------------------------
(* What the receiver makes of an answer: getMsgAndComputeXSigma.  None     *)
(* when it throws or aborts.                                               *)

OpenElement(m, s, x) == Mul(m.c[s + 1], Exp(m.w[s + 1], q - x))

OpenBytes(p, m, s, x) ==
    IF p # "SemiHonest" /\ Len(m.c[1]) # Len(m.c[2]) THEN None
    ELSE XorBytes(m.c[s + 1], Kdf(Exp(m.w[s + 1], x), Len(m.c[s + 1])))

Answer(pair, m) ==
    IF kind = "element" THEN ElementTuple(pair, m)
    ELSE toString(protocol, BytesTuple(pair, m))

Open(answer) ==
    IF kind = "element" THEN OpenElement(answer, sigma, secret)
    ELSE LET m == initFromString(protocol, answer)
         IN  IF m = None THEN None ELSE OpenBytes(protocol, m, sigma, secret)

Inputs == IF kind = "element" THEN Elements \X Elements ELSE Texts \X Texts

-----------------------------------------------------------------------------
HasSetup(p) == p \in {"FullSim", "FullSimROM"}

OTInit ==
    /\ protocol \in Protocols /\ kind \in Kinds
    /\ spc = IF HasSetup(protocol) THEN "setup" ELSE "ready"
    /\ rpc = spc
    /\ rPre \in IF protocol = "UC" THEN References ELSE {None}
    /\ sPre = rPre
    /\ request = None /\ sigma = None /\ secret = None
    /\ toS = <<>> /\ toR = <<>> /\ given = <<>>
    /\ got = None /\ threw = FALSE

(* OTFullSimReceiverPreprocessUtil::preProcess up to the proof.  The proof *)
(* of the random oracle variant is one message, and is sent at once.       *)
rSetup(setup) ==
    /\ rpc = "setup"
    /\ rPre' = setup
    /\ toS' = toS \o (IF protocol = "FullSim" THEN <<setup>> ELSE <<setup, "proof">>)
    /\ rpc' = IF protocol = "FullSim" THEN "prove" ELSE "ready"
    /\ UNCHANGED <<protocol, kind, spc, sPre, request, sigma, secret,
                   toR, given, got, threw>>

sSetup ==
    /\ spc = "setup" /\ toS # <<>>
    /\ sPre' = Head(toS)
    /\ toS' = Tail(toS)
    /\ spc' = "verify"
    /\ UNCHANGED <<protocol, kind, rpc, rPre, request, sigma, secret,
                   toR, given, got, threw>>

(* Mutant: the proof is left out.                                          *)
rAskMut(choice) ==
    /\ rpc = "ready"
    /\ sigma' = choice
    /\ \E ask \in AsksOf(protocol, choice, rPre) :
          /\ secret' = ask.secret
          /\ toS' = Append(toS, ask.tuple)
    /\ rpc' = "wait"
    /\ got' = None
    /\ UNCHANGED <<protocol, kind, spc, sPre, rPre, request, toR, given, threw>>

(* transfer of the receiver, up to the wait for the answer.  A sigma that  *)
(* is not 0 or 1 is 1 to SemiHonest, which reads it into a bool, and is    *)
(* refused by the others before anything is sent.                          *)
rAsk(choice) ==
    /\ rpc = "ready"
    /\ sigma' = choice
    /\ \E ask \in AsksOf(protocol, choice, rPre) :
          /\ secret' = ask.secret
          /\ toS' = Append(toS, ask.tuple)
    /\ rpc' = IF protocol = "OneSided" THEN "prove" ELSE "wait"
    /\ got' = None
    /\ UNCHANGED <<protocol, kind, spc, sPre, rPre, request, toR, given, threw>>

(* transfer of the sender, up to the message or to the proof.              *)
sRead ==
    /\ spc = "ready" /\ toS # <<>>
    /\ request' = Head(toS)
    /\ toS' = Tail(toS)
    /\ spc' = IF protocol = "OneSided" THEN "verify" ELSE "answer"
    /\ UNCHANGED <<protocol, kind, rpc, sPre, rPre, sigma, secret,
                   toR, given, got, threw>>

(* The interactive proof: prove returns, verify has its last message.      *)
zkProof ==
    /\ rpc = "prove" /\ spc = "verify"
    /\ rpc' = IF protocol = "OneSided" THEN "wait" ELSE "ready"
    /\ spc' = "verdict"
    /\ UNCHANGED <<protocol, kind, sPre, rPre, request, sigma, secret,
                   toS, toR, given, got, threw>>

(* The proof of the random oracle variant is read from the channel.        *)
zkRead ==
    /\ protocol = "FullSimROM" /\ spc = "verify" /\ toS # <<>>
    /\ toS' = Tail(toS)
    /\ spc' = "verdict"
    /\ UNCHANGED <<protocol, kind, rpc, sPre, rPre, request, sigma, secret,
                   toR, given, got, threw>>

zkAccept ==
    /\ spc = "verdict"
    /\ spc' = IF protocol = "OneSided" THEN "answer" ELSE "ready"
    /\ UNCHANGED <<protocol, kind, rpc, sPre, rPre, request, sigma, secret,
                   toS, toR, given, got, threw>>

(* A proof of SigmaDH is rejected: the constructor of the sender throws.   *)
zkReject ==
    /\ spc = "verdict" /\ HasSetup(protocol)
    /\ spc' = "dead" /\ threw' = TRUE
    /\ UNCHANGED <<protocol, kind, rpc, sPre, rPre, request, sigma, secret,
                   toS, toR, given, got>>

(* Mutant: z0 and z1 are not compared.                                     *)
checkReceivedTupleMut(t) == TRUE

(* The elements of an honest receiver are members of the group.            *)
checkReceivedTuple(t) ==
    protocol \in {"PrivacyOnly", "OneSided"} => t[3] # t[4]

sAnswer(pair) ==
    /\ spc = "answer" /\ checkReceivedTuple(request)
    /\ kind # "element" => Len(pair[1]) = Len(pair[2])
    /\ \E m \in MasksOf(protocol, sPre, request) : toR' = Append(toR, Answer(pair, m))
    /\ given' = Append(given, pair)
    /\ spc' = "ready"
    /\ UNCHANGED <<protocol, kind, rpc, sPre, rPre, request, sigma, secret,
                   toS, got, threw>>

(* The tuple is refused, or the inputs are: they are looked at only now.   *)
(* The program may call transfer again.                                    *)
sThrow ==
    /\ spc = "answer"
    /\ \/ ~checkReceivedTuple(request)
       \/ kind # "element" /\ \E pair \in Inputs : Len(pair[1]) # Len(pair[2])
    /\ spc' = "ready" /\ threw' = TRUE
    /\ UNCHANGED <<protocol, kind, rpc, sPre, rPre, request, sigma, secret,
                   toS, toR, given, got>>

rOpen ==
    /\ rpc = "wait" /\ toR # <<>>
    /\ got' = [sigma |-> sigma, pair |-> Head(given), x |-> Open(Head(toR)),
               clean |-> kind # "element" =>
                   Len(SelectSeq(Head(toR), LAMBDA c : c = Separator))
                       = Heads(protocol) * Coordinates + 1]
    /\ toR' = Tail(toR) /\ given' = Tail(given)
    /\ rpc' = "ready"
    /\ UNCHANGED <<protocol, kind, spc, sPre, rPre, request, sigma, secret,
                   toS, threw>>

ReceiverStep ==
    \/ \E setup \in Setups : rSetup(setup)
    \/ \E choice \in {0, 1} : rAsk(choice)
    \/ rOpen

SenderStep ==
    \/ sSetup \/ sRead \/ zkRead \/ zkAccept \/ zkReject \/ sThrow
    \/ \E pair \in Inputs : sAnswer(pair)

OTNext == ReceiverStep \/ SenderStep \/ zkProof

OTSpec == OTInit /\ [][OTNext]_otVars

(* The parties are threads that run while they can; no party can run on    *)
(* its own for ever, so that fairness of the whole is enough.              *)
OTLive == OTSpec /\ WF_otVars(OTNext)

-----------------------------------------------------------------------------
(* The type invariant: where the parties are, and that an answer under way *)
(* and the input it was made from go together.                             *)
OTTypeOK ==
    /\ protocol \in Protocols /\ kind \in Kinds
    /\ spc \in {"setup", "verify", "verdict", "ready", "answer", "dead"}
    /\ rpc \in {"setup", "prove", "ready", "wait"}
    /\ sPre \in Setups \cup References \cup {None}
    /\ rPre \in Setups \cup References \cup {None}
    /\ sigma \in {0, 1, None} /\ secret \in Zq \cup {None}
    /\ Len(toR) = Len(given) /\ Len(toR) <= 1 /\ Len(toS) <= 3
    /\ threw \in BOOLEAN

Chosen == got.pair[got.sigma + 1]

(* The receiver of every transfer gets the input it chose, of the inputs   *)
(* the sender gave to the same transfer, in every protocol, whatever the   *)
(* random values and however often the objects and their preprocess values *)
(* are used again.  On byte arrays it does when no byte of c0 and c1       *)
(* is ':'; when one is, the receiver aborts, throws or returns a shorter   *)
(* string, and an output as long as the inputs is the chosen one.          *)
ReceivesChosen ==
    got # None =>
        /\ got.clean => got.x = Chosen
        /\ kind # "element" /\ got.x # None =>
             Len(got.x) <= Len(Chosen) /\ (Len(got.x) = Len(Chosen) => got.x = Chosen)

(* The coincidence in which a transfer of the full simulation family hides *)
(* nothing: r or y is 0, and the receiver asks with (1, 1).                *)
Degenerate == request = <<Exp(g, 0), Exp(g, 0)>>

(* A reference the UC objects can be given hides the input that is not     *)
(* chosen if it is no Diffie-Hellman tuple.                                *)
Crossed(pre) ==
    \E x, y, a, b \in Zq :
        /\ a # b
        /\ pre = <<Exp(g, x), Exp(g, y), Exp(Exp(g, x), a), Exp(Exp(g, y), b)>>

(* An answer of any protocol but SemiHonest, whose hiding is computational,*)
(* says nothing of the input that was not chosen: with other random values *)
(* the sender gives the same answer for any other value of it.  In         *)
(* PrivacyOnly and OneSided it is the comparison of z0 and z1 that makes   *)
(* this so.                                                                *)
NothingElseLearned ==
    kind = "element" /\ protocol # "SemiHonest" /\ toR # <<>> /\ ~Degenerate =>
        \A x \in Elements : \E m \in MasksOf(protocol, sPre, request) :
            Head(toR) = Answer([given[1] EXCEPT ![2 - sigma] = x], m)

(* In SemiHonest the tuple the sender receives says nothing of sigma: the  *)
(* other choice, with other random values, asks with the same tuple (but   *)
(* for alpha = 0, since createRandomElement never returns the identity).   *)
ChoiceHidden ==
    protocol = "SemiHonest" /\ toS # <<>> /\ secret # 0 =>
        \E ask \in AsksOf(protocol, 1 - sigma, rPre) : ask.tuple = Head(toS)

(* A transfer of the receiver ends, unless a call of the sender threw: the *)
(* sender checks its inputs only after it has taken the tuple, and no      *)
(* error is sent, so the receiver then waits for an answer that does not   *)
(* come.                                                                   *)
TransfersEnd == rpc \in {"prove", "wait"} ~> rpc = "ready" \/ threw
=============================================================================
