---------------------------- MODULE SigmaSession ----------------------------
(***************************************************************************)
(* SigmaProtocolProver and SigmaProtocolVerifier (SigmaProtocol.cpp): two  *)
(* objects that run proof after proof over one channel.  Their callers use *)
(* prove and verify (usage "documented"), or call the steps of these one   *)
(* by one in any order (usage "free").                                     *)
(*                                                                         *)
(* The algebra is that of SigmaProtocols, reduced to what a session tells  *)
(* apart: a first message is the randomness it was made from, an answer is *)
(* the randomness and the challenge it was made from, and verify accepts   *)
(* an answer that was made from the first message and the challenge it     *)
(* holds.  What the protocols do with the bytes of a challenge is kept.    *)
(***************************************************************************)
EXTENDS Duplex, ByteStrings

CONSTANTS
    T,          \* t / 8: the bytes of the soundness parameter
    q,          \* the order of the group
    Kinds,      \* a subset of {"Dlog", "DH", "And"}: see Samples
    MaxProofs,  \* bound: proofs per object
    MaxCalls    \* bound: calls of each object, usage "free"

VARIABLES
    mode,       \* the protocol on top: "Sigma" here, others in ZkSession
    kind,       \* the sigma protocol below
    usage,
    prover, verifier,
    answers,    \* history: the second messages that left the prover
    verdicts    \* history: what verify returned

sessionVars == <<mode, kind, usage, prover, verifier, answers, verdicts, channel>>

ASSUME SessionAssumption ==
    /\ T \in Nat \ {0} /\ q \in Nat /\ Base ^ T < q
    /\ MaxProofs \in Nat /\ MaxCalls \in Nat

Reset == 0      \* r before the first proof and after its reset
Unread == -1    \* the generator, which the empty first message holds
Garbage == -2   \* what comes of reading one kind of message as another

-----------------------------------------------------------------------------
(* The computations.                                                       *)

Abs(n) == IF n < 0 THEN -n ELSE n

(* What sampleChallenge may leave in e.  SigmaDlog encodes a number of     *)
(* 0 .. 2^t - 1 and copies it over the challenge before; SigmaDH,          *)
(* SigmaDHExtended and SigmaPedersenCmtKnowledge draw t / 8 bytes; the     *)
(* compound and the Damgard-Jurik protocols also clear the sign bit.       *)
Samples(k, e) ==
    CASE k = "Dlog" ->
           {copyInto(encodeBigInteger(n, Zeros(bytesCount(n))), e) : n \in 0 .. Base ^ T - 1}
      [] k = "DH"  -> [1 .. T -> Byte]
      [] k = "And" -> {b \in [1 .. T -> Byte] : 2 * b[T] < Base}

(* Mutant: SigmaDlog too counts the bytes.                                 *)
checkChallengeLengthMutBytes(k, b) == Len(b) = T

checkChallengeLength(k, b) ==
    IF k = "Dlog" THEN Abs(decodeBigInteger(b)) < Base ^ T ELSE Len(b) = T

(* The exponent that a challenge stands for.                               *)
Exponent(k, b) ==
    (IF k = "Dlog" THEN Abs(decodeBigInteger(b)) ELSE decodeBigInteger(b)) % q

computeSecondMsg(r, b) == [r |-> r, e |-> Exponent(kind, b)]

Accepts(a, b, z) == z.r = a /\ z.e = Exponent(kind, b)

-----------------------------------------------------------------------------
(* The flags doneFirstMsg and doneChallenge have no initial value.         *)
SessionInit(start) ==
    /\ ChannelInit
    /\ kind \in Kinds
    /\ \E done \in BOOLEAN :
         prover = [pc |-> start, doneFirstMsg |-> done, input |-> FALSE, r |-> Reset,
                   proofs |-> 0, calls |-> 0, step |-> 1, id |-> 0, commitmentMap |-> <<>>]
    /\ \E done \in BOOLEAN :
         verifier = [pc |-> start, doneChallenge |-> done, e |-> <<>>, a |-> Unread,
                     z |-> [r |-> Unread, e |-> 0], h |-> 0,
                     proofs |-> 0, calls |-> 0, step |-> 1, id |-> 0, commitmentMap |-> <<>>]
    /\ answers = <<>> /\ verdicts = <<>>

(* An exception ends the call; the documented use ends with it.            *)
Caught == IF usage = "free" THEN "ready" ELSE "threw"

(* Whether the caller may make this call now; the steps of prove are 1, 2  *)
(* and those of verify 1, 2, 3.                                            *)
MayCall(object, step) ==
    /\ object.pc = "ready"
    /\ IF usage = "free" THEN object.calls < MaxCalls
                         ELSE object.step = step /\ (step > 1 \/ object.proofs < MaxProofs)

(* computeFirstMsg: the input is kept and r is sampled.                    *)
FirstMsg == [t |-> "a", r |-> prover.proofs + 1]

ProcessFirstMsg ==
    /\ mode = "Sigma" /\ MayCall(prover, 1) /\ prover.proofs < MaxProofs
    /\ ToV(<<FirstMsg>>)
    /\ prover' = [prover EXCEPT !.input = TRUE, !.r = FirstMsg.r, !.proofs = @ + 1,
                                !.calls = @ + 1, !.step = 2,
                                !.doneFirstMsg = @ \/ ~WriteThrows,
                                !.pc = IF WriteThrows THEN Caught ELSE @]
    /\ UNCHANGED <<mode, kind, usage, verifier, answers, verdicts, toP, broken, reports>>

(* processSecondMsg up to the read of the challenge.                       *)
ProcessSecondMsg ==
    /\ mode = "Sigma" /\ MayCall(prover, 2)
    /\ prover' = [prover EXCEPT !.calls = @ + 1,
                                !.pc = IF prover.doneFirstMsg THEN "challenge" ELSE Caught]
    /\ UNCHANGED <<mode, kind, usage, verifier, answers, verdicts, channel>>

(* Mutant: doneFirstMsg stays set.                                         *)
AnswerMutKeepsFlag(b) ==
    /\ answers' = IF broken THEN answers ELSE
                    Append(answers, [first |-> prover.proofs, z |-> computeSecondMsg(prover.r, b)])
    /\ prover' = [prover EXCEPT !.r = Reset, !.pc = "ready", !.step = 1]
    /\ ToV(<<[t |-> "z", z |-> computeSecondMsg(prover.r, b)]>>)

(* The answer to the challenge b: r is reset, z is sent.                   *)
Answer(b) ==
    /\ answers' = IF broken THEN answers ELSE
                    Append(answers, [first |-> prover.proofs, z |-> computeSecondMsg(prover.r, b)])
    /\ prover' = [prover EXCEPT !.r = Reset, !.step = 1,
                                !.doneFirstMsg = @ /\ WriteThrows,
                                !.pc = IF WriteThrows THEN Caught ELSE "ready"]
    /\ ToV(<<[t |-> "z", z |-> computeSecondMsg(prover.r, b)]>>)

(* computeSecondMsg refuses a challenge of the wrong length; without an    *)
(* input it dereferences NULL.                                             *)
ReceiveChallenge ==
    /\ mode = "Sigma" /\ prover.pc = "challenge" /\ toP # <<>>
    /\ toP' = Tail(toP)
    /\ IF checkChallengeLength(kind, Head(toP).b) /\ prover.input
       THEN Answer(Head(toP).b)
       ELSE /\ prover' = [prover EXCEPT !.pc =
                            IF checkChallengeLength(kind, Head(toP).b) THEN "crashed" ELSE Caught]
            /\ UNCHANGED <<answers, toV>>
    /\ UNCHANGED <<mode, kind, usage, verifier, verdicts, broken, reports>>

ProverReadThrows ==
    /\ prover.pc \in {"challenge", "commit", "decommit"}
    /\ broken /\ toP = <<>>
    /\ prover' = [prover EXCEPT !.pc = Caught]
    /\ UNCHANGED <<mode, kind, usage, verifier, answers, verdicts, channel>>

-----------------------------------------------------------------------------
SampleChallenge ==
    /\ mode = "Sigma" /\ MayCall(verifier, 1)
    /\ \E e \in Samples(kind, verifier.e) :
         verifier' = [verifier EXCEPT !.e = e, !.calls = @ + 1, !.step = 2, !.proofs = @ + 1]
    /\ UNCHANGED <<mode, kind, usage, prover, answers, verdicts, channel>>

(* sendChallenge up to the read of the first message.                      *)
SendChallenge ==
    /\ mode = "Sigma" /\ MayCall(verifier, 2)
    /\ verifier' = [verifier EXCEPT !.calls = @ + 1, !.pc = "first"]
    /\ UNCHANGED <<mode, kind, usage, prover, answers, verdicts, channel>>

(* initFromByteVector of a message of the wrong type.                      *)
ReadAsFirst(m) == IF m.t = "a" THEN m.r ELSE Garbage
ReadAsSecond(m) == IF m.t = "z" THEN m.z ELSE [r |-> Garbage, e |-> 0]

(* The rest: without a challenge it throws, the first message is consumed. *)
ReceiveFirst ==
    /\ mode = "Sigma" /\ verifier.pc = "first" /\ toV # <<>>
    /\ toV' = Tail(toV)
    /\ \/ /\ verifier.e # <<>>
          /\ ToP(<<[t |-> "e", b |-> verifier.e]>>)
          /\ verifier' = [verifier EXCEPT !.a = ReadAsFirst(Head(toV)), !.step = 3,
                                          !.doneChallenge = @ \/ ~WriteThrows,
                                          !.pc = IF WriteThrows THEN Caught ELSE "ready"]
       \/ /\ verifier.e = <<>> \/ Head(toV).t # "a"
          /\ verifier' = [verifier EXCEPT !.a = ReadAsFirst(Head(toV)), !.pc = Caught]
          /\ UNCHANGED toP
    /\ UNCHANGED <<mode, kind, usage, prover, answers, verdicts, broken, reports>>

ProcessVerify ==
    /\ mode = "Sigma" /\ MayCall(verifier, 3)
    /\ verifier' = [verifier EXCEPT !.calls = @ + 1,
                                    !.pc = IF verifier.doneChallenge THEN "second" ELSE Caught]
    /\ UNCHANGED <<mode, kind, usage, prover, answers, verdicts, channel>>

Verdict(z) == verdicts' = Append(verdicts, Accepts(verifier.a, verifier.e, z))

(* A garbled element is refused by an exception or fails to verify; an     *)
(* empty challenge has no first byte to decode.                            *)
ReceiveSecond ==
    /\ mode = "Sigma" /\ verifier.pc = "second" /\ toV # <<>>
    /\ toV' = Tail(toV)
    /\ \/ /\ verifier.e # <<>>
          /\ Verdict(ReadAsSecond(Head(toV)))
          /\ verifier' = [verifier EXCEPT !.pc = "ready", !.step = 1, !.doneChallenge = FALSE]
       \/ /\ verifier.e = <<>>
          /\ verifier' = [verifier EXCEPT !.pc = "crashed"]
          /\ UNCHANGED verdicts
       \/ /\ Head(toV).t # "z" \/ verifier.a = Garbage
          /\ verifier' = [verifier EXCEPT !.pc = Caught]
          /\ UNCHANGED verdicts
    /\ UNCHANGED <<mode, kind, usage, prover, answers, toP, broken, reports>>

VerifierReadThrows ==
    /\ verifier.pc \in {"new", "first", "second", "trap", "proof"}
    /\ broken /\ toV = <<>>
    /\ verifier' = [verifier EXCEPT !.pc = Caught]
    /\ UNCHANGED <<mode, kind, usage, prover, answers, verdicts, channel>>

BreakSession == Break /\ UNCHANGED <<mode, kind, usage, prover, verifier, answers, verdicts>>

SigmaProverStep == ProcessFirstMsg \/ ProcessSecondMsg \/ ReceiveChallenge
SigmaVerifierStep == SampleChallenge \/ SendChallenge \/ ReceiveFirst \/ ProcessVerify \/ ReceiveSecond
=============================================================================
