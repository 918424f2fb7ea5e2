----------------------------- MODULE ZkSession -----------------------------
(***************************************************************************)
(* The zero-knowledge proofs of ZeroKnowledge.cpp over any sigma protocol, *)
(* with the Pedersen commitments of CommitmentSchemePedersen.cpp that they *)
(* hide the challenge in:                                                  *)
(*                                                                         *)
(*   ZK          ZKFromSigmaProver and ZKFromSigmaVerifier                 *)
(*   ZKPOK       ZKPOKFromSigmaCmtPedersenProver and ...Verifier           *)
(*   FiatShamir  ZKPOKFiatShamirFromSigmaProver and ...Verifier            *)
(*                                                                         *)
(* and SigmaSession for mode "Sigma".  In ZK and ZKPOK the verifier is the *)
(* committer and the prover the receiver.  An action runs from one read of *)
(* the channel to the next.  A commitment is the pair of value and         *)
(* randomness it was made from.                                            *)
(***************************************************************************)
EXTENDS SigmaSession

CONSTANTS
    Modes,          \* the protocols to run
    Usages,         \* how the callers of mode "Sigma" behave
    Ids,            \* the ids that getRandom64 may give
    Colon, Plus     \* the bytes ':' and '+'

ASSUME ModesAssumption == Modes \subseteq {"Sigma", "ZK", "ZKPOK", "FiatShamir"}

VARIABLE oracle     \* what the random oracle answered for each first message

vars == <<sessionVars, oracle>>

Trapdoor == 1       \* the receiver's trapdoor, and h = g^trapdoor

ZkModes == {"ZK", "ZKPOK"}

-----------------------------------------------------------------------------
(* The commitments.                                                        *)

(* generateCommitmentMsg: the value must be in 0 .. q, q included.         *)
InZq(x) == x \in 0 .. q

Commitment(x, rnd) == <<x, rnd>>

(* verifyDecommitment against the commitment the receiver holds under id.  *)
Opens(c, m) == InZq(m.x) /\ Commitment(m.x, m.rnd) = c

Put(map, id, v) == [k \in DOMAIN map \cup {id} |-> IF k = id THEN v ELSE map[k]]
Erase(map, id) == [k \in DOMAIN map \ {id} |-> map[k]]

(* fromCmtToByteArray.                                                     *)
BytesOf(x) == encodeBigInteger(x, Zeros(bytesCount(x)))

(* decodeBigInteger undoes encodeBigInteger on every value that can be     *)
(* committed to.                                                           *)
NumbersReadBack == \A x \in 0 .. q : decodeBigInteger(BytesOf(x)) = x

ASSUME NumbersReadBackAssumption == NumbersReadBack

-----------------------------------------------------------------------------
Init ==
    /\ mode \in Modes
    /\ usage \in IF mode = "Sigma" THEN Usages ELSE {"documented"}
    /\ SessionInit(IF mode \in ZkModes THEN "new" ELSE "ready")
    /\ oracle = <<>>

(* The constructor of the receiver sends h; that of the committer waits    *)
(* for it.                                                                 *)
PreProcessReceiver ==
    /\ mode \in ZkModes /\ prover.pc = "new"
    /\ prover' = [prover EXCEPT !.pc = IF WriteThrows THEN Caught ELSE "ready"]
    /\ ToV(<<[t |-> "h", h |-> Trapdoor]>>)
    /\ UNCHANGED <<mode, kind, usage, verifier, answers, verdicts, toP, broken, reports, oracle>>

PreProcessCommitter ==
    /\ mode \in ZkModes /\ verifier.pc = "new" /\ toV # <<>>
    /\ toV' = Tail(toV)
    /\ verifier' = [verifier EXCEPT !.pc = "ready", !.h = Head(toV).h]
    /\ UNCHANGED <<mode, kind, usage, prover, answers, verdicts, toP, broken, reports, oracle>>

-----------------------------------------------------------------------------
(* The verifier.                                                           *)

(* "the challenge should be a positive number": the magnitude is encoded   *)
(* in the bytes that are there.                                            *)
Positive(e) ==
    IF mode = "ZKPOK" /\ decodeBigInteger(e) < 0
    THEN encodeBigInteger(Abs(decodeBigInteger(e)), e)
    ELSE e

(* verify up to the read of a: sample, commit under a random id, send.  A  *)
(* value outside Zq throws; a write that throws makes commit forget the    *)
(* value and return.                                                       *)
VerifyCommit ==
    /\ mode \in ZkModes /\ MayCall(verifier, 1)
    /\ \E s \in Samples(kind, verifier.e), id \in Ids :
         LET e == Positive(s)
             x == decodeBigInteger(e)
             rnd == verifier.proofs + 1
             committed == Put(verifier.commitmentMap, id, [x |-> x, rnd |-> rnd])
         IN  IF InZq(x)
             THEN /\ verifier' = [verifier EXCEPT
                        !.e = e, !.id = id, !.proofs = @ + 1, !.pc = "first",
                        !.commitmentMap = IF WriteThrows THEN Erase(committed, id) ELSE committed]
                  /\ ToP(<<[t |-> "c", id |-> id, c |-> Commitment(x, rnd)]>>)
             ELSE /\ verifier' = [verifier EXCEPT !.e = e, !.proofs = @ + 1, !.pc = Caught]
                  /\ UNCHANGED toP
    /\ UNCHANGED <<mode, kind, usage, prover, answers, verdicts, toV, broken, reports, oracle>>

(* decommit of the verifier's id: a forgotten value is a NULL pointer.     *)
Decommit(v) ==
    LET known == v.id \in DOMAIN v.commitmentMap
    IN  /\ verifier' = [v EXCEPT !.pc = IF ~known THEN "crashed"
                                        ELSE IF WriteThrows THEN Caught ELSE "second"]
        /\ IF known
           THEN ToP(<<[t |-> "d", x |-> v.commitmentMap[v.id].x, rnd |-> v.commitmentMap[v.id].rnd]>>)
           ELSE UNCHANGED toP

(* a is read and the challenge is revealed.                                *)
VerifyDecommit ==
    /\ mode \in ZkModes /\ verifier.pc = "first" /\ toV # <<>>
    /\ toV' = Tail(toV)
    /\ Decommit([verifier EXCEPT !.a = Head(toV).r])
    /\ UNCHANGED <<mode, kind, usage, prover, answers, verdicts, broken, reports, oracle>>

(* z is read; ZKFromSigma decides, ZKPOK waits for the trapdoor first.     *)
VerifySecond ==
    /\ mode \in ZkModes /\ verifier.pc = "second" /\ toV # <<>>
    /\ toV' = Tail(toV)
    /\ IF mode = "ZK"
       THEN /\ Verdict(Head(toV).z)
            /\ verifier' = [verifier EXCEPT !.pc = "ready"]
       ELSE /\ verifier' = [verifier EXCEPT !.pc = "trap", !.z = Head(toV).z]
            /\ UNCHANGED verdicts
    /\ UNCHANGED <<mode, kind, usage, prover, answers, toP, broken, reports, oracle>>

(* validate(trap): g^trap = h.                                             *)
VerifyTrap ==
    /\ mode = "ZKPOK" /\ verifier.pc = "trap" /\ toV # <<>>
    /\ toV' = Tail(toV)
    /\ verdicts' = Append(verdicts, /\ Head(toV).trap = verifier.h
                                    /\ Accepts(verifier.a, verifier.e, verifier.z))
    /\ verifier' = [verifier EXCEPT !.pc = "ready"]
    /\ UNCHANGED <<mode, kind, usage, prover, answers, toP, broken, reports, oracle>>

-----------------------------------------------------------------------------
(* The prover.                                                             *)

Prove ==
    /\ mode \in ZkModes /\ MayCall(prover, 1)
    /\ prover' = [prover EXCEPT !.pc = "commit"]
    /\ UNCHANGED <<mode, kind, usage, verifier, answers, verdicts, channel, oracle>>

(* receiveCommitment, and the first message.                               *)
ReceiveCommit ==
    /\ mode \in ZkModes /\ prover.pc = "commit" /\ toP # <<>>
    /\ toP' = Tail(toP)
    /\ prover' = [prover EXCEPT
            !.commitmentMap = Put(@, Head(toP).id, Head(toP).c), !.id = Head(toP).id,
            !.input = TRUE, !.r = FirstMsg.r, !.proofs = @ + 1,
            !.pc = IF WriteThrows THEN Caught ELSE "decommit"]
    /\ ToV(<<FirstMsg>>)
    /\ UNCHANGED <<mode, kind, usage, verifier, answers, verdicts, broken, reports, oracle>>

(* receiveDecommitment for the id of this proof, and the second message;   *)
(* a decommitment that does not open the commitment is a cheat attempt,    *)
(* and so is a challenge of the wrong length.                              *)
ReceiveDecommit ==
    /\ mode \in ZkModes /\ prover.pc = "decommit" /\ toP # <<>>
    /\ toP' = Tail(toP)
    /\ LET m == Head(toP)
           b == BytesOf(m.x)
           z == computeSecondMsg(prover.r, b)
       IN  IF Opens(prover.commitmentMap[prover.id], m) /\ checkChallengeLength(kind, b)
           THEN /\ answers' = IF broken THEN answers
                              ELSE Append(answers, [first |-> prover.proofs, z |-> z])
                /\ prover' = [prover EXCEPT !.r = Reset, !.pc = IF WriteThrows THEN Caught ELSE "ready"]
                /\ ToV(<<[t |-> "z", z |-> z]>> \o
                       IF mode = "ZKPOK" THEN <<[t |-> "trap", trap |-> Trapdoor]>> ELSE <<>>)
           ELSE /\ prover' = [prover EXCEPT !.pc = Caught]
                /\ UNCHANGED <<answers, toV>>
    /\ UNCHANGED <<mode, kind, usage, verifier, verdicts, broken, reports, oracle>>

-----------------------------------------------------------------------------
(* Fiat-Shamir.                                                            *)

(* toString: the separator must not occur in e.                            *)
ReplaceColons(b) == [i \in DOMAIN b |-> IF b[i] = Colon THEN Plus ELSE b[i]]

(* generateFiatShamirProof: e is the oracle's answer to a.                 *)
FsProve ==
    /\ mode = "FiatShamir" /\ MayCall(prover, 1)
    /\ \E e \in [1 .. T -> Byte] :
         LET z == computeSecondMsg(FirstMsg.r, e)
         IN  /\ oracle' = Append(oracle, e)
             /\ IF checkChallengeLength(kind, e)
                THEN /\ ToV(<<[t |-> "proof", a |-> FirstMsg.r, e |-> ReplaceColons(e), z |-> z]>>)
                     /\ answers' = IF broken THEN answers
                                   ELSE Append(answers, [first |-> FirstMsg.r, z |-> z])
                     /\ prover' = [prover EXCEPT !.input = TRUE, !.r = Reset, !.proofs = @ + 1,
                                                 !.pc = IF WriteThrows THEN Caught ELSE @]
                ELSE /\ prover' = [prover EXCEPT !.input = TRUE, !.r = FirstMsg.r,
                                                 !.proofs = @ + 1, !.pc = Caught]
                     /\ UNCHANGED <<answers, toV>>
    /\ UNCHANGED <<mode, kind, usage, verifier, verdicts, toP, broken, reports>>

FsVerify ==
    /\ mode = "FiatShamir" /\ MayCall(verifier, 1)
    /\ verifier' = [verifier EXCEPT !.pc = "proof", !.proofs = @ + 1]
    /\ UNCHANGED <<mode, kind, usage, prover, answers, verdicts, channel, oracle>>

(* Mutant: the challenge is taken as it was received.                      *)
FsVerdictMutReceived(m, computed) ==
    ReplaceColons(computed) = m.e /\ Accepts(m.a, m.e, m.z)

(* verifyFiatShamirProof: the received challenge is compared with the      *)
(* replaced bytes, the transcript is checked with the computed ones.       *)
FsVerdict(m, computed) ==
    ReplaceColons(computed) = m.e /\ Accepts(m.a, computed, m.z)

ReceiveProof ==
    /\ mode = "FiatShamir" /\ verifier.pc = "proof" /\ toV # <<>>
    /\ toV' = Tail(toV)
    /\ verdicts' = Append(verdicts, FsVerdict(Head(toV), oracle[Head(toV).a]))
    /\ verifier' = [verifier EXCEPT !.pc = "ready", !.e = oracle[Head(toV).a]]
    /\ UNCHANGED <<mode, kind, usage, prover, answers, toP, broken, reports, oracle>>

-----------------------------------------------------------------------------
ProverStep ==
    \/ (SigmaProverStep \/ ProverReadThrows) /\ UNCHANGED oracle
    \/ PreProcessReceiver \/ Prove \/ ReceiveCommit \/ ReceiveDecommit \/ FsProve

VerifierStep ==
    \/ (SigmaVerifierStep \/ VerifierReadThrows) /\ UNCHANGED oracle
    \/ PreProcessCommitter \/ VerifyCommit \/ VerifyDecommit \/ VerifySecond \/ VerifyTrap
    \/ FsVerify \/ ReceiveProof

Next == ProverStep \/ VerifierStep \/ (BreakSession /\ UNCHANGED oracle)

(* Each party is a thread that runs until it waits for a message; nothing  *)
(* obliges the connection to break.                                        *)
Spec == Init /\ [][Next]_vars /\ WF_vars(ProverStep) /\ WF_vars(VerifierStep)
-----------------------------------------------------------------------------
(* The types of the variables.                                           *)
ZkTypeOK ==
    /\ mode \in Modes /\ kind \in Kinds /\ usage \in Usages \cup {"documented"}
    /\ prover.pc \in {"new", "ready", "challenge", "commit", "decommit", "threw", "crashed"}
    /\ verifier.pc \in {"new", "ready", "first", "second", "trap", "proof", "threw", "crashed"}
    /\ prover.r \in 0 .. MaxProofs /\ verifier.a \in Garbage .. MaxProofs
    /\ verifier.e \in Seq(Byte)
    /\ \A i \in DOMAIN verdicts : verdicts[i] \in BOOLEAN

(* A first message is answered once, with the randomness it was made from: *)
(* doneFirstMsg and the reset of r see to it whatever the callers do, and  *)
(* also when the flag starts with an arbitrary value.                      *)
OneAnswer ==
    \A i, j \in DOMAIN answers :
        /\ answers[i].z.r = answers[i].first
        /\ answers[i].first = answers[j].first => i = j

(* Used as documented, verify never rejects a proof of an honest prover,   *)
(* for any challenge and for any number of proofs by the same two objects; *)
(* and decommit finds the value that commit stored, since a commit whose   *)
(* message was not sent is followed by a read that throws.                 *)
HonestProofAccepted ==
    usage = "documented" =>
        /\ \A i \in DOMAIN verdicts : verdicts[i]
        /\ "crashed" \notin {prover.pc, verifier.pc}

(* The prover reports an error only where the verifier cheated or the      *)
(* connection broke: whatever challenge decommit returns is answered.      *)
DecommittedIsAnswered == ~broken => prover.pc # "threw"

(* The protocols whose challenge survives the way through a commitment.    *)
Supported == mode \in {"Sigma", "FiatShamir"} \/ kind = "Dlog"

Completed == Len(verdicts) = MaxProofs

(* Every proof ends with a verdict unless the connection breaks; after a   *)
(* break nobody waits for ever: the reads that are left throw.             *)
Waiting == {prover.pc, verifier.pc} \ {"ready", "threw", "crashed"} # {}
EveryProofEnds ==
    /\ usage = "documented" /\ Supported => <>(Completed \/ broken)
    /\ broken ~> ~Waiting

=============================================================================
