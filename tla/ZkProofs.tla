------------------------------ MODULE ZkProofs ------------------------------
(***************************************************************************)
(* Sessions of sigma and zero-knowledge proofs, for any number of proofs,  *)
(* any soundness parameter and order, any behaviour of the callers, and    *)
(* breaks of the connection at any point.                                  *)
(***************************************************************************)
EXTENDS ZkSession, TLAPS

(* s is a sequence, of whatever elements.                                  *)
IsSequence(s) == s \in Seq({s[i] : i \in DOMAIN s})

(* Sequences of messages of any kind: Len and DOMAIN agree.                *)
LEMMA SequenceFacts ==
    ASSUME NEW s, IsSequence(s)
    PROVE  Len(s) \in Nat /\ DOMAIN s = 1 .. Len(s)
BY DEF IsSequence

(* Append keeps what is there and adds one element at the end.             *)
LEMMA AppendFacts ==
    ASSUME NEW s, IsSequence(s), NEW x
    PROVE  /\ IsSequence(Append(s, x))
           /\ Len(Append(s, x)) = Len(s) + 1
           /\ DOMAIN Append(s, x) = 1 .. Len(s) + 1
           /\ Append(s, x)[Len(s) + 1] = x
           /\ \A i \in 1 .. Len(s) : Append(s, x)[i] = s[i]
<1> DEFINE S == {s[i] : i \in DOMAIN s} \cup {x}
           t == Append(s, x)
<1>1. s \in Seq({s[i] : i \in DOMAIN s}) /\ Len(s) \in Nat /\ DOMAIN s = 1 .. Len(s)
  BY DEF IsSequence
<1>2. \A i \in 1 .. Len(s) : s[i] \in S
  BY <1>1
<1>3. s \in Seq(S)
  BY <1>1, <1>2
<1> HIDE DEF S
<1>4. x \in S
  BY DEF S
<1>5. t \in Seq(S) /\ Len(t) = Len(s) + 1 /\ DOMAIN t = 1 .. Len(s) + 1
      /\ t[Len(s) + 1] = x /\ \A i \in 1 .. Len(s) : t[i] = s[i]
  BY <1>3, <1>4
<1> HIDE DEF t
<1>6. t \in Seq({t[i] : i \in DOMAIN t})
  BY <1>5
<1> QED
  BY <1>5, <1>6 DEF IsSequence, t

(* Sending one message is appending it.                                    *)
LEMMA AppendIsConcat ==
    ASSUME NEW s, IsSequence(s), NEW x
    PROVE  s \o <<x>> = Append(s, x)
<1> DEFINE S == {s[i] : i \in DOMAIN s} \cup {x}
           l == s \o <<x>>
           r == Append(s, x)
<1>1. s \in Seq({s[i] : i \in DOMAIN s}) /\ Len(s) \in Nat /\ DOMAIN s = 1 .. Len(s)
  BY DEF IsSequence
<1>2. \A i \in 1 .. Len(s) : s[i] \in S
  BY <1>1
<1>3. s \in Seq(S) /\ <<x>> \in Seq(S) /\ x \in S
  BY <1>1, <1>2
<1> HIDE DEF S
<1>4. r \in Seq(S) /\ Len(r) = Len(s) + 1 /\ r[Len(s) + 1] = x
      /\ \A i \in 1 .. Len(s) : r[i] = s[i]
  BY <1>3
<1>5. l \in Seq(S) /\ Len(l) = Len(s) + 1 /\ l[Len(s) + 1] = x
      /\ \A i \in 1 .. Len(s) : l[i] = s[i]
  BY <1>3
<1> HIDE DEF l, r
<1>6. \A i \in 1 .. Len(s) + 1 : l[i] = r[i]
  BY <1>1, <1>4, <1>5
<1>7. l = r
  BY <1>4, <1>5, <1>6
<1> QED
  BY <1>7 DEF l, r

-----------------------------------------------------------------------------
(* One answer.                                                             *)

ProverFields ==
    {"pc", "doneFirstMsg", "input", "r", "proofs", "calls", "step", "id", "commitmentMap"}

(* The prover is a record, and counts its proofs.                          *)
ProverRecord ==
    /\ prover = [f \in ProverFields |-> prover[f]]
    /\ prover.proofs \in Nat

(* What the next answer will be: it can only be made from the randomness   *)
(* of the last first message, and that one has no answer yet.              *)
Pending ==
    /\ prover.proofs > 0 /\ prover.r = prover.proofs
    /\ \A i \in DOMAIN answers : answers[i].first # prover.proofs

Counted ==
    \A i \in DOMAIN answers :
        answers[i].z.r = answers[i].first /\ answers[i].first \in 1 .. prover.proofs

(* The conjuncts about the answers that have left, and those about the     *)
(* next one.                                                               *)
Left ==
    /\ ProverRecord
    /\ IsSequence(answers)
    /\ Counted
    /\ \A i, j \in DOMAIN answers : answers[i].first = answers[j].first => i = j

Comes ==
    /\ mode = "Sigma" /\ prover.pc = "challenge" => prover.doneFirstMsg
    /\ mode = "Sigma" /\ ~broken /\ prover.doneFirstMsg /\ prover.input => Pending
    /\ ~broken /\ prover.pc = "decommit" => Pending

(* A step that sends no answer keeps the conjuncts about the answers.      *)
LEMMA SameAnswers ==
    ASSUME Left, ProverRecord', answers' = answers, prover'.proofs >= prover.proofs
    PROVE  Left'
<1>1. \A i \in DOMAIN answers : answers[i].first \in 1 .. prover'.proofs
  BY DEF Left, Counted, ProverRecord
<1>2. Counted'
  BY <1>1 DEF Left, Counted
<1> QED
  BY <1>2 DEF Left

(* An answer to a first message that has none yet keeps them as well.      *)
LEMMA NewAnswer ==
    ASSUME Left, ProverRecord', NEW n, NEW z,
           answers' = Append(answers, [first |-> n, z |-> z]),
           z.r = n, n \in 1 .. prover'.proofs, prover'.proofs >= prover.proofs,
           \A i \in DOMAIN answers : answers[i].first # n
    PROVE  Left'
<1> DEFINE k == Len(answers)
           last == [first |-> n, z |-> z]
<1>1. /\ IsSequence(answers') /\ k \in Nat /\ DOMAIN answers = 1 .. k
      /\ DOMAIN answers' = 1 .. k + 1
      /\ answers'[k + 1] = last /\ \A i \in 1 .. k : answers'[i] = answers[i]
  BY SequenceFacts, AppendFacts DEF Left
<1>2. last.first = n /\ last.z.r = n
  OBVIOUS
<1> HIDE DEF k, last
<1>3. \A i \in 1 .. k : /\ answers'[i].z.r = answers'[i].first
                        /\ answers'[i].first \in 1 .. prover'.proofs
                        /\ answers'[i].first # n
  BY <1>1 DEF Left, Counted, ProverRecord
<1>4. Counted'
  BY <1>1, <1>2, <1>3 DEF Counted
<1>5. \A i, j \in 1 .. k + 1 : answers'[i].first = answers'[j].first => i = j
  <2> SUFFICES ASSUME NEW i \in 1 .. k + 1, NEW j \in 1 .. k + 1,
                      answers'[i].first = answers'[j].first
               PROVE  i = j
    OBVIOUS
  <2>1. CASE i \in 1 .. k /\ j \in 1 .. k
    BY <1>1, <2>1 DEF Left
  <2>2. CASE i = k + 1 \/ j = k + 1
    BY <1>1, <1>2, <1>3, <2>2
  <2> QED
    BY <1>1, <2>1, <2>2
<1> QED
  BY <1>1, <1>4, <1>5 DEF Left

(* At first there are no answers, and no input to answer with.             *)
LEMMA AnswerInit == Init => Left /\ Comes
<1> SUFFICES ASSUME Init PROVE Left /\ Comes
  OBVIOUS
<1>1. answers = <<>> /\ prover.proofs = 0 /\ prover.input = FALSE
      /\ prover = [f \in ProverFields |-> prover[f]]
      /\ prover.pc \in {"new", "ready"}
  BY DEF Init, SessionInit, ProverFields
<1>2. IsSequence(<<>>) /\ DOMAIN <<>> = {}
  BY DEF IsSequence
<1> QED
  BY <1>1, <1>2 DEF Left, Comes, ProverRecord, Counted

(* What the steps of the verifier and a break leave alone.                 *)
SameProver == mode' = mode /\ kind' = kind /\ usage' = usage /\ prover' = prover /\ answers' = answers

(* The verifier touches neither the prover nor its answers.                *)
LEMMA VerifierKeepsProver == VerifierStep => SameProver /\ broken' = broken
<1> DEFINE Same == SameProver /\ broken' = broken
<1>1. SampleChallenge => Same
  BY DEF SampleChallenge, SameProver, channel
<1>2. SendChallenge => Same
  BY DEF SendChallenge, SameProver, channel
<1>3. ReceiveFirst => Same
  BY DEF ReceiveFirst, SameProver
<1>4. ProcessVerify => Same
  BY DEF ProcessVerify, SameProver, channel
<1>5. ReceiveSecond => Same
  BY DEF ReceiveSecond, SameProver
<1>6. VerifierReadThrows => Same
  BY DEF VerifierReadThrows, SameProver, channel
<1>7. PreProcessCommitter => Same
  BY DEF PreProcessCommitter, SameProver
<1>8. VerifyCommit => Same
  BY DEF VerifyCommit, SameProver
<1>9. VerifyDecommit => Same
  BY DEF VerifyDecommit, SameProver
<1>10. VerifySecond => Same
  BY DEF VerifySecond, SameProver
<1>11. VerifyTrap => Same
  BY DEF VerifyTrap, SameProver
<1>12. FsVerify => Same
  BY DEF FsVerify, SameProver, channel
<1>13. ReceiveProof => Same
  BY DEF ReceiveProof, SameProver
<1> QED
  BY <1>1, <1>2, <1>3, <1>4, <1>5, <1>6, <1>7, <1>8, <1>9, <1>10, <1>11, <1>12, <1>13
     DEF VerifierStep, SigmaVerifierStep

(* A break changes the channel only.                                       *)
LEMMA BreakKeeps == BreakSession => SameProver /\ verifier' = verifier /\ verdicts' = verdicts /\ broken'
BY DEF BreakSession, Break, SameProver

(* What depends on the prover and its answers survives a step that changes *)
(* neither.                                                                *)
LEMMA AnswerFrame ==
    ASSUME Left /\ Comes, mode' = mode, prover' = prover, answers' = answers,
           broken => broken'
    PROVE  Left' /\ Comes'
BY DEF Left, Comes, ProverRecord, Counted, Pending

(* Every step keeps the invariant of the answers.                          *)
LEMMA AnswerStep == Left /\ Comes /\ [Next]_vars => Left' /\ Comes'
<1> SUFFICES ASSUME Left, Comes, [Next]_vars PROVE Left' /\ Comes'
  OBVIOUS
<1> USE DEF Caught
<1>0. /\ prover = [f \in ProverFields |-> prover[f]] /\ prover.proofs \in Nat
      /\ prover.proofs + 1 > 0 /\ prover.proofs + 1 >= prover.proofs
      /\ prover.proofs >= prover.proofs
      /\ \A i \in DOMAIN answers : answers[i].first # prover.proofs + 1
  BY DEF Left, ProverRecord, Counted
<1>1. CASE ProcessFirstMsg
  <2>a. mode' = mode /\ answers' = answers /\ broken' = broken /\ prover.pc = "ready"
    BY <1>1 DEF ProcessFirstMsg, MayCall
  <2>b. /\ prover'.proofs = prover.proofs + 1 /\ prover'.r = prover.proofs + 1
        /\ prover'.pc \in {prover.pc, "ready", "threw"}
    BY <1>0, <1>1 DEF ProcessFirstMsg, ProverFields, FirstMsg
  <2>c. prover' = [f \in ProverFields |-> prover'[f]]
    BY <1>0, <1>1 DEF ProcessFirstMsg, ProverFields
  <2>1. /\ mode' = mode /\ answers' = answers /\ broken' = broken
        /\ prover'.proofs = prover.proofs + 1 /\ prover'.r = prover.proofs + 1
        /\ prover'.pc \in {prover.pc, "ready", "threw"} /\ prover.pc = "ready"
        /\ ProverRecord'
    BY <1>0, <2>a, <2>b, <2>c DEF ProverRecord
  <2>2. Left'
    BY <1>0, <2>1, SameAnswers
  <2>3. Pending'
    BY <1>0, <2>1 DEF Pending
  <2> QED
    BY <2>1, <2>2, <2>3 DEF Comes
<1>2. CASE ProcessSecondMsg
  <2>1. /\ mode' = mode /\ answers' = answers /\ broken' = broken /\ mode = "Sigma"
        /\ prover'.proofs = prover.proofs /\ prover'.r = prover.r
        /\ prover'.doneFirstMsg = prover.doneFirstMsg /\ prover'.input = prover.input
        /\ prover'.pc # "decommit" /\ (prover'.pc = "challenge" => prover.doneFirstMsg)
        /\ ProverRecord'
    BY <1>0, <1>2 DEF ProcessSecondMsg, ProverRecord, ProverFields, MayCall, channel
  <2>2. Left'
    BY <1>0, <2>1, SameAnswers
  <2> QED
    BY <2>1, <2>2 DEF Comes, Pending
<1>3. CASE ReceiveChallenge
  <2>1. mode = "Sigma" /\ prover.pc = "challenge" /\ mode' = mode /\ broken' = broken
    BY <1>3 DEF ReceiveChallenge
  <2>2. CASE checkChallengeLength(kind, Head(toP).b) /\ prover.input
    <3>1. Answer(Head(toP).b)
      BY <1>3, <2>2 DEF ReceiveChallenge
    <3>2. /\ prover'.proofs = prover.proofs /\ ProverRecord'
          /\ prover'.pc \in {"ready", "threw"}
          /\ prover'.doneFirstMsg = (prover.doneFirstMsg /\ WriteThrows)
      BY <1>0, <3>1 DEF Answer, ProverRecord, ProverFields
    <3>3. Comes'
      BY <2>1, <3>2 DEF Comes, WriteThrows
    <3>4. CASE broken
      BY <1>0, <3>1, <3>2, <3>3, <3>4, SameAnswers DEF Answer
    <3>5. CASE ~broken
      <4>1. Pending
        BY <2>1, <2>2, <3>5 DEF Comes
      <4> DEFINE z == computeSecondMsg(prover.r, Head(toP).b)
      <4>2. answers' = Append(answers, [first |-> prover.proofs, z |-> z])
        BY <3>1, <3>5 DEF Answer
      <4>3. z.r = prover.proofs
        BY <4>1 DEF computeSecondMsg, Pending
      <4> HIDE DEF z
      <4>4. prover.proofs \in 1 .. prover'.proofs
        BY <1>0, <3>2, <4>1 DEF Pending
      <4>5. Left'
        BY <1>0, <3>2, <4>1, <4>2, <4>3, <4>4, NewAnswer DEF Pending
      <4> QED
        BY <3>3, <4>5
    <3> QED
      BY <3>4, <3>5
  <2>3. CASE ~(checkChallengeLength(kind, Head(toP).b) /\ prover.input)
    <3>1. /\ answers' = answers /\ prover'.proofs = prover.proofs /\ ProverRecord'
          /\ prover'.r = prover.r /\ prover'.pc \in {"crashed", "ready", "threw"}
          /\ prover'.doneFirstMsg = prover.doneFirstMsg /\ prover'.input = prover.input
      BY <1>0, <1>3, <2>3 DEF ReceiveChallenge, ProverRecord, ProverFields
    <3> QED
      BY <1>0, <2>1, <3>1, SameAnswers DEF Comes, Pending
  <2> QED
    BY <2>2, <2>3
<1>4. CASE ProverReadThrows \/ PreProcessReceiver \/ Prove
  <2>1. /\ mode' = mode /\ answers' = answers /\ broken' = broken
        /\ prover'.proofs = prover.proofs /\ prover'.r = prover.r /\ ProverRecord'
        /\ prover'.pc \in {"ready", "threw", "commit"}
        /\ prover'.doneFirstMsg = prover.doneFirstMsg /\ prover'.input = prover.input
    BY <1>0, <1>4 DEF ProverReadThrows, PreProcessReceiver, Prove, ProverRecord, ProverFields,
                      channel
  <2> QED
    BY <1>0, <2>1, SameAnswers DEF Comes, Pending
<1>5. CASE ReceiveCommit
  <2>a. mode' = mode /\ answers' = answers /\ broken' = broken /\ mode # "Sigma"
    BY <1>5 DEF ReceiveCommit, ZkModes
  <2>b. prover'.proofs = prover.proofs + 1 /\ prover'.r = prover.proofs + 1
    BY <1>0, <1>5 DEF ReceiveCommit, ProverFields, FirstMsg
  <2>c. prover' = [f \in ProverFields |-> prover'[f]]
    BY <1>0, <1>5 DEF ReceiveCommit, ProverFields
  <2>1. /\ mode' = mode /\ answers' = answers /\ broken' = broken /\ mode # "Sigma"
        /\ prover'.proofs = prover.proofs + 1 /\ prover'.r = prover.proofs + 1
        /\ ProverRecord'
    BY <1>0, <2>a, <2>b, <2>c DEF ProverRecord
  <2>2. Left' /\ Pending'
    BY <1>0, <2>1, SameAnswers DEF Pending
  <2> QED
    BY <2>1, <2>2 DEF Comes
<1>6. CASE ReceiveDecommit
  <2> DEFINE z == computeSecondMsg(prover.r, BytesOf(Head(toP).x))
  <2>1. /\ mode' = mode /\ broken' = broken /\ mode # "Sigma" /\ prover.pc = "decommit"
        /\ prover'.proofs = prover.proofs /\ ProverRecord'
        /\ prover'.pc \in {"ready", "threw"}
        /\ \/ answers' = answers
           \/ ~broken /\ answers' = Append(answers, [first |-> prover.proofs, z |-> z])
    BY <1>0, <1>6 DEF ReceiveDecommit, ProverRecord, ProverFields, ZkModes
  <2>2. Comes'
    BY <2>1 DEF Comes
  <2>3. CASE answers' = answers
    BY <1>0, <2>1, <2>2, <2>3, SameAnswers
  <2>4. CASE ~broken /\ answers' = Append(answers, [first |-> prover.proofs, z |-> z])
    <3>1. Pending
      BY <2>1, <2>4 DEF Comes
    <3>2. z.r = prover.proofs
      BY <3>1 DEF computeSecondMsg, Pending
    <3> HIDE DEF z
    <3>3. prover.proofs \in 1 .. prover'.proofs
      BY <1>0, <2>1, <3>1 DEF Pending
    <3>4. Left'
      BY <1>0, <2>1, <2>4, <3>1, <3>2, <3>3, NewAnswer DEF Pending
    <3> QED
      BY <2>2, <3>4
  <2> QED
    BY <2>1, <2>3, <2>4
<1>7. CASE FsProve
  <2>1. PICK e \in [1 .. T -> Byte] :
          LET z == computeSecondMsg(FirstMsg.r, e)
          IN  IF checkChallengeLength(kind, e)
              THEN /\ answers' = IF broken THEN answers
                                 ELSE Append(answers, [first |-> FirstMsg.r, z |-> z])
                   /\ prover' = [prover EXCEPT !.input = TRUE, !.r = Reset, !.proofs = @ + 1,
                                               !.pc = IF WriteThrows THEN Caught ELSE @]
              ELSE /\ prover' = [prover EXCEPT !.input = TRUE, !.r = FirstMsg.r,
                                               !.proofs = @ + 1, !.pc = Caught]
                   /\ UNCHANGED answers
    BY <1>7 DEF FsProve
  <2> DEFINE z == computeSecondMsg(FirstMsg.r, e)
  <2>2. /\ mode' = mode /\ broken' = broken /\ mode = "FiatShamir" /\ prover.pc = "ready"
    BY <1>7 DEF FsProve, MayCall
  <2>a. prover'.proofs = prover.proofs + 1 /\ prover'.pc \in {"ready", "threw"}
    BY <1>0, <2>1, <2>2 DEF ProverFields
  <2>b. prover' = [f \in ProverFields |-> prover'[f]]
    BY <1>0, <2>1 DEF ProverFields
  <2>3. /\ prover'.proofs = prover.proofs + 1 /\ ProverRecord'
        /\ prover'.pc \in {"ready", "threw"}
    BY <1>0, <2>a, <2>b DEF ProverRecord
  <2>4. \/ answers' = answers
        \/ answers' = Append(answers, [first |-> prover.proofs + 1, z |-> z])
    BY <2>1 DEF FirstMsg
  <2>5. z.r = prover.proofs + 1
    BY DEF computeSecondMsg, FirstMsg
  <2> HIDE DEF z
  <2>6. prover.proofs + 1 \in 1 .. prover'.proofs
    BY <1>0, <2>3
  <2>7. Left'
    BY <1>0, <2>3, <2>4, <2>5, <2>6, SameAnswers, NewAnswer
  <2> QED
    BY <2>2, <2>3, <2>7 DEF Comes
<1>8. CASE VerifierStep \/ (BreakSession /\ UNCHANGED oracle) \/ UNCHANGED vars
  <2>1. mode' = mode /\ prover' = prover /\ answers' = answers /\ (broken => broken')
    BY <1>8, VerifierKeepsProver, BreakKeeps DEF SameProver, vars, sessionVars, channel
  <2> QED
    BY <2>1, AnswerFrame
<1> QED
  BY <1>1, <1>2, <1>3, <1>4, <1>5, <1>6, <1>7, <1>8 DEF Next, ProverStep, SigmaProverStep

(* A first message is answered once, with the randomness it was made from, *)
(* whatever the callers of the prover do and wherever the connection       *)
(* breaks: computeSecondMsg resets r, and processSecondMsg asks for        *)
(* doneFirstMsg.                                                           *)
THEOREM OneAnswerCorrect == Spec => []OneAnswer
<1>1. Init => Left /\ Comes
  BY AnswerInit
<1>2. (Left /\ Comes) /\ [Next]_vars => (Left /\ Comes)'
  BY AnswerStep
<1>3. Left /\ Comes => OneAnswer
  BY DEF Left, Counted, OneAnswer
<1> QED
  BY <1>1, <1>2, <1>3, PTL DEF Spec

-----------------------------------------------------------------------------
(* Honest proofs are accepted.                                             *)

VerifierFields ==
    {"pc", "doneChallenge", "e", "a", "z", "h", "proofs", "calls", "step", "id",
     "commitmentMap"}

VerifierRecord ==
    /\ verifier = [f \in VerifierFields |-> verifier[f]]
    /\ verifier.proofs \in Nat

AllTrue == IsSequence(verdicts) /\ \A i \in DOMAIN verdicts : verdicts[i] = TRUE

(* The messages of proof n of protocol k, the challenge being e.           *)
First(n) == [t |-> "a", r |-> n]
Reply(k, n, e) == [r |-> n, e |-> Exponent(k, e)]
Second(k, n, e) == [t |-> "z", z |-> Reply(k, n, e)]
Challenge(e) == [t |-> "e", b |-> e]

(* Mode "Sigma".  The step of an object tells how far its proof is.  What  *)
(* the verifier may find on the channel, whatever has become of the prover *)
(* and the connection:                                                     *)
SigmaTurn ==
    \/ verifier.pc = "threw"
    \/ /\ verifier.step = 1 /\ verifier.pc = "ready"
       /\ toV \in {<<>>, <<First(verifier.proofs + 1)>>}
    \/ /\ verifier.step = 2 /\ verifier.pc \in {"ready", "first"}
       /\ toV \in {<<>>, <<First(verifier.proofs)>>}
    \/ /\ verifier.step = 3 /\ verifier.pc \in {"ready", "second"}
       /\ verifier.e # <<>> /\ verifier.a = verifier.proofs
       /\ toV \in {<<>>, <<Second(kind, verifier.proofs, verifier.e)>>,
                   <<Second(kind, verifier.proofs, verifier.e), First(verifier.proofs + 1)>>}

SigmaProver ==
    \/ prover.pc = "threw"
    \/ prover.step = 1 /\ prover.pc = "ready"
    \/ prover.step = 2 /\ prover.pc \in {"ready", "challenge"}
       /\ prover.input /\ prover.r = prover.proofs

(* How the two sides and the messages fit while the connection stands.     *)
SigmaAsks ==
    /\ prover.step = 1 /\ toP = <<>>
    /\ \/ verifier.step = 1 /\ verifier.proofs = prover.proofs /\ toV = <<>>
       \/ verifier.step = 2 /\ verifier.proofs = prover.proofs + 1 /\ toV = <<>>
       \/ verifier.step = 3 /\ verifier.proofs = prover.proofs
          /\ toV = <<Second(kind, verifier.proofs, verifier.e)>>

SigmaWaits ==
    /\ prover.step = 2
    /\ \/ /\ verifier.step = 1 /\ verifier.proofs + 1 = prover.proofs
          /\ toV = <<First(verifier.proofs + 1)>> /\ toP = <<>>
       \/ /\ verifier.step = 2 /\ verifier.proofs = prover.proofs
          /\ toV = <<First(verifier.proofs)>> /\ toP = <<>>
       \/ /\ verifier.step = 3 /\ verifier.proofs = prover.proofs
          /\ toV = <<>> /\ toP = <<Challenge(verifier.e)>>
       \/ /\ verifier.step = 3 /\ verifier.proofs + 1 = prover.proofs /\ toP = <<>>
          /\ toV = <<Second(kind, verifier.proofs, verifier.e), First(verifier.proofs + 1)>>

Standing == ~broken /\ prover.pc # "threw" /\ verifier.pc # "threw"

SigmaInv ==
    /\ SigmaTurn /\ SigmaProver
    /\ Standing => SigmaAsks \/ SigmaWaits

(* Modes "ZK" and "ZKPOK".                                                 *)
Key == [t |-> "h", h |-> Trapdoor]
Trap == [t |-> "trap", trap |-> Trapdoor]

(* The value committed to is the challenge.                                *)
Stored ==
    /\ verifier.id \in DOMAIN verifier.commitmentMap
    /\ verifier.commitmentMap[verifier.id].x = decodeBigInteger(verifier.e)
    /\ InZq(decodeBigInteger(verifier.e))

Answered ==
    IF mode = "ZKPOK" THEN <<Second(kind, verifier.proofs, verifier.e), Trap>>
    ELSE <<Second(kind, verifier.proofs, verifier.e)>>

ZkTurn ==
    \/ verifier.pc = "threw"
    \/ verifier.pc = "new" /\ toV \in {<<>>, <<Key>>}
    \/ /\ verifier.h = Trapdoor
       /\ \/ verifier.pc = "ready" /\ toV = <<>>
          \/ /\ verifier.pc = "first" /\ toV \in {<<>>, <<First(verifier.proofs)>>}
             /\ Stored \/ (broken /\ toV = <<>>)
          \/ /\ verifier.pc = "second" /\ verifier.a = verifier.proofs
             /\ toV \in {<<>>, <<Second(kind, verifier.proofs, verifier.e)>>, Answered}
          \/ /\ verifier.pc = "trap" /\ verifier.a = verifier.proofs
             /\ verifier.z = Reply(kind, verifier.proofs, verifier.e)
             /\ toV \in {<<>>, <<Trap>>}

ZkAsks ==
    /\ prover.pc \in {"ready", "commit"}
    /\ \/ /\ verifier.pc = "new" /\ verifier.proofs = prover.proofs
          /\ toV = <<Key>> /\ toP = <<>>
       \/ /\ verifier.pc = "ready" /\ verifier.proofs = prover.proofs
          /\ toV = <<>> /\ toP = <<>>
       \/ /\ verifier.pc = "first" /\ verifier.proofs = prover.proofs + 1
          /\ toV = <<>> /\ toP # <<>> /\ Tail(toP) = <<>>
       \/ /\ verifier.pc = "second" /\ verifier.proofs = prover.proofs
          /\ toV = Answered /\ toP = <<>>
       \/ /\ verifier.pc = "trap" /\ verifier.proofs = prover.proofs
          /\ toV = <<Trap>> /\ toP = <<>>

ZkWaits ==
    /\ prover.pc = "decommit" /\ verifier.proofs = prover.proofs /\ prover.r = prover.proofs
    /\ \/ /\ verifier.pc = "first" /\ toV = <<First(verifier.proofs)>> /\ toP = <<>>
       \/ /\ verifier.pc = "second" /\ toV = <<>> /\ toP # <<>> /\ Tail(toP) = <<>>
          /\ Head(toP).x = decodeBigInteger(verifier.e)
          /\ InZq(decodeBigInteger(verifier.e))

ZkNew ==
    /\ prover.pc = "new" /\ verifier.pc = "new" /\ verifier.proofs = prover.proofs
    /\ toV = <<>> /\ toP = <<>>

ZkInv ==
    /\ prover.pc \in {"new", "ready", "commit", "decommit", "threw"}
    /\ ZkTurn
    /\ Standing => ZkNew \/ ZkAsks \/ ZkWaits

(* Mode "FiatShamir".                                                      *)
HonestProof(k, o, m) ==
    m.a \in DOMAIN o /\ m.e = ReplaceColons(o[m.a]) /\ m.z = Reply(k, m.a, o[m.a])

FsInv ==
    /\ prover.pc \in {"ready", "threw"} /\ verifier.pc \in {"ready", "proof", "threw"}
    /\ IsSequence(oracle) /\ Len(oracle) = prover.proofs
    /\ IsSequence(toV) /\ \A i \in DOMAIN toV : HonestProof(kind, oracle, toV[i])

HonestInv ==
    usage = "documented" =>
        /\ AllTrue
        /\ mode \in {"Sigma", "FiatShamir"} \cup ZkModes
        /\ mode = "Sigma" => SigmaInv
        /\ mode \in ZkModes => ZkInv
        /\ mode = "FiatShamir" => FsInv

(* The queues hold at most two messages.                                   *)
LEMMA Queues ==
    ASSUME NEW a, NEW b
    PROVE  /\ <<>> \o <<a>> = <<a>> /\ <<a>> \o <<>> = <<a>>
           /\ <<>> \o <<a, b>> = <<a, b>> /\ <<a>> \o <<b>> = <<a, b>>
           /\ Head(<<a>>) = a /\ Head(<<a, b>>) = a
           /\ Tail(<<a>>) = <<>> /\ Tail(<<a, b>>) = <<b>>
           /\ <<a>> # <<>> /\ <<a, b>> # <<>> /\ <<a>> # <<a, b>>
<1>1. <<a>> \o <<b>> = <<a, b>>
  <2> DEFINE S == {a, b}
             l == <<a>> \o <<b>>
             r == <<a, b>>
  <2>1. <<a>> \in Seq(S) /\ <<b>> \in Seq(S)
    OBVIOUS
  <2>2. l \in Seq(S) /\ Len(l) = 2 /\ l[1] = a /\ l[2] = b
    BY <2>1
  <2>3. r \in Seq(S) /\ Len(r) = 2 /\ r[1] = a /\ r[2] = b
    OBVIOUS
  <2> HIDE DEF l, r
  <2>4. \A i \in 1 .. 2 : l[i] = r[i]
    BY <2>2, <2>3
  <2>5. l = r
    BY <2>2, <2>3, <2>4
  <2> QED
    BY <2>5 DEF l, r
<1>2. <<>> \o <<a>> = <<a>> /\ <<a>> \o <<>> = <<a>>
  <2>1. <<a>> \in Seq({a})
    OBVIOUS
  <2> QED
    BY <2>1
<1>3. <<>> \o <<a, b>> = <<a, b>>
  <2>1. <<a, b>> \in Seq({a, b})
    OBVIOUS
  <2> QED
    BY <2>1
<1>4. Head(<<a>>) = a /\ Head(<<a, b>>) = a /\ Tail(<<a>>) = <<>> /\ Tail(<<a, b>>) = <<b>>
  OBVIOUS
<1>5. <<a>> # <<>> /\ <<a, b>> # <<>> /\ <<a>> # <<a, b>>
  OBVIOUS
<1> QED
  BY <1>1, <1>2, <1>3, <1>4, <1>5

(* What a break leaves of them.                                            *)
LEMMA CutQueues ==
    ASSUME NEW a, NEW b
    PROVE  /\ \A n \in 0 .. Len(<<>>) : SubSeq(<<>>, 1, n) = <<>>
           /\ \A n \in 0 .. Len(<<a>>) : SubSeq(<<a>>, 1, n) \in {<<>>, <<a>>}
           /\ \A n \in 0 .. Len(<<a, b>>) : SubSeq(<<a, b>>, 1, n) \in {<<>>, <<a>>, <<a, b>>}
<1> DEFINE S == {a, b}
<1>1. <<a>> \in Seq(S) /\ <<a, b>> \in Seq(S) /\ Len(<<a>>) = 1 /\ Len(<<a, b>>) = 2
      /\ <<a>>[1] = a /\ <<a, b>>[1] = a /\ <<a, b>>[2] = b
  OBVIOUS
<1> HIDE DEF S
<1>2. ASSUME NEW s \in Seq(S), NEW n \in 0 .. Len(s)
      PROVE  /\ SubSeq(s, 1, n) \in Seq(S) /\ Len(SubSeq(s, 1, n)) = n
             /\ \A i \in 1 .. n : SubSeq(s, 1, n)[i] = s[i]
  BY <1>2
<1>3. ASSUME NEW s \in Seq(S), NEW t \in Seq(S), Len(s) = Len(t),
             \A i \in 1 .. Len(s) : s[i] = t[i]
      PROVE  s = t
  BY <1>3
<1>4. ASSUME NEW s \in Seq(S) PROVE SubSeq(s, 1, 0) = <<>> /\ SubSeq(s, 1, Len(s)) = s
  BY <1>4
<1>5. \A n \in 0 .. Len(<<>>) : SubSeq(<<>>, 1, n) = <<>>
  OBVIOUS
<1>6. \A n \in 0 .. 1 : SubSeq(<<a>>, 1, n) \in {<<>>, <<a>>}
  <2>1. SubSeq(<<a>>, 1, 0) = <<>> /\ SubSeq(<<a>>, 1, 1) = <<a>>
    BY <1>1, <1>4
  <2> QED
    BY <2>1
<1>7. SubSeq(<<a, b>>, 1, 1) = <<a>>
  <2> DEFINE l == SubSeq(<<a, b>>, 1, 1)
  <2>1. l \in Seq(S) /\ Len(l) = 1 /\ l[1] = a
    BY <1>1, <1>2
  <2> HIDE DEF l
  <2>2. \A i \in 1 .. Len(l) : l[i] = <<a>>[i]
    BY <1>1, <2>1
  <2>3. l = <<a>>
    BY <1>1, <1>3, <2>1, <2>2
  <2> QED
    BY <2>3 DEF l
<1>8. \A n \in 0 .. 2 : SubSeq(<<a, b>>, 1, n) \in {<<>>, <<a>>, <<a, b>>}
  <2>1. SubSeq(<<a, b>>, 1, 0) = <<>> /\ SubSeq(<<a, b>>, 1, 2) = <<a, b>>
    BY <1>1, <1>4
  <2>2. \A n \in 0 .. 2 : n = 0 \/ n = 1 \/ n = 2
    OBVIOUS
  <2> QED
    BY <1>7, <2>1, <2>2, Zenon
<1> QED
  BY <1>1, <1>5, <1>6, <1>8

(* One more TRUE among verdicts that are all TRUE.                         *)
LEMMA StillTrue ==
    ASSUME AllTrue, verdicts' = Append(verdicts, TRUE)
    PROVE  AllTrue'
<1>1. Len(verdicts) \in Nat /\ DOMAIN verdicts = 1 .. Len(verdicts)
  BY SequenceFacts DEF AllTrue
<1>2. /\ IsSequence(verdicts') /\ DOMAIN verdicts' = 1 .. Len(verdicts) + 1
      /\ verdicts'[Len(verdicts) + 1] = TRUE
      /\ \A i \in 1 .. Len(verdicts) : verdicts'[i] = verdicts[i]
  <2>1. IsSequence(verdicts)
    BY DEF AllTrue
  <2> QED
    BY <2>1, AppendFacts, Zenon
<1>3. \A i \in 1 .. Len(verdicts) + 1 : i \in 1 .. Len(verdicts) \/ i = Len(verdicts) + 1
  BY <1>1
<1>4. \A i \in 1 .. Len(verdicts) : verdicts[i] = TRUE
  BY <1>1, Zenon DEF AllTrue
<1>5. \A i \in DOMAIN verdicts' : verdicts'[i] = TRUE
  BY <1>2, <1>3, <1>4, Zenon
<1> QED
  BY <1>2, <1>5 DEF AllTrue

(* The prover does not touch the verifier, its verdicts or the parameters. *)
LEMMA ProverKeepsVerifier ==
    ProverStep => /\ mode' = mode /\ kind' = kind /\ usage' = usage /\ broken' = broken
                  /\ verifier' = verifier /\ verdicts' = verdicts
<1> DEFINE Same == /\ mode' = mode /\ kind' = kind /\ usage' = usage /\ broken' = broken
                   /\ verifier' = verifier /\ verdicts' = verdicts
<1>1. ProcessFirstMsg => Same
  BY DEF ProcessFirstMsg
<1>2. ProcessSecondMsg => Same
  BY DEF ProcessSecondMsg, channel
<1>3. ReceiveChallenge => Same
  BY DEF ReceiveChallenge
<1>4. ProverReadThrows => Same
  BY DEF ProverReadThrows, channel
<1>5. PreProcessReceiver => Same
  BY DEF PreProcessReceiver
<1>6. Prove => Same
  BY DEF Prove, channel
<1>7. ReceiveCommit => Same
  BY DEF ReceiveCommit
<1>8. ReceiveDecommit => Same
  BY DEF ReceiveDecommit
<1>9. FsProve => Same
  BY DEF FsProve
<1> QED
  BY <1>1, <1>2, <1>3, <1>4, <1>5, <1>6, <1>7, <1>8, <1>9 DEF ProverStep, SigmaProverStep

(* verify of ZK and ZKPOK: the committed value is the challenge, unless it *)
(* is refused or the connection is broken.                                 *)
LEMMA CommitEffect ==
    ASSUME VerifyCommit, VerifierRecord
    PROVE  /\ verifier'.proofs = verifier.proofs + 1 /\ verifier'.h = verifier.h
           /\ \/ verifier'.pc = Caught /\ toP' = toP
              \/ /\ verifier'.pc = "first" /\ InZq(decodeBigInteger(verifier'.e))
                 /\ ~broken => /\ verifier'.id \in DOMAIN verifier'.commitmentMap
                               /\ verifier'.commitmentMap[verifier'.id].x
                                    = decodeBigInteger(verifier'.e)
                               /\ \E m : toP' = toP \o <<m>>
<1>0. verifier = [f \in VerifierFields |-> verifier[f]]
  BY DEF VerifierRecord
<1>1. PICK s \in Samples(kind, verifier.e), id \in Ids :
        LET e == Positive(s)
            x == decodeBigInteger(e)
            rnd == verifier.proofs + 1
            committed == Put(verifier.commitmentMap, id, [x |-> x, rnd |-> rnd])
        IN  IF InZq(x)
            THEN /\ verifier' = [verifier EXCEPT
                       !.e = e, !.id = id, !.proofs = @ + 1, !.pc = "first",
                       !.commitmentMap = IF WriteThrows THEN Erase(committed, id) ELSE committed]
                 /\ ToP(<<[t |-> "c", id |-> id, c |-> Commitment(x, rnd)]>>)
            ELSE /\ verifier' = [verifier EXCEPT !.e = e, !.proofs = @ + 1, !.pc = Caught]
                 /\ UNCHANGED toP
  BY DEF VerifyCommit
<1> DEFINE e == Positive(s)
           x == decodeBigInteger(e)
           entry == [x |-> x, rnd |-> verifier.proofs + 1]
           committed == Put(verifier.commitmentMap, id, entry)
           map == IF WriteThrows THEN Erase(committed, id) ELSE committed
<1>2. CASE InZq(x)
  <2>1. /\ verifier' = [verifier EXCEPT !.e = e, !.id = id, !.proofs = @ + 1, !.pc = "first",
                                        !.commitmentMap = map]
        /\ ToP(<<[t |-> "c", id |-> id, c |-> Commitment(x, verifier.proofs + 1)]>>)
    BY <1>1, <1>2
  <2>2. ~broken => id \in DOMAIN map /\ map[id].x = x
    BY DEF Put, WriteThrows
  <2> HIDE DEF e, map
  <2>3. /\ verifier'.e = e /\ verifier'.id = id /\ verifier'.commitmentMap = map
        /\ verifier'.proofs = verifier.proofs + 1 /\ verifier'.pc = "first"
        /\ verifier'.h = verifier.h
    BY <1>0, <2>1 DEF VerifierFields
  <2>4. ~broken => \E m : toP' = toP \o <<m>>
    BY <2>1 DEF ToP
  <2> QED
    BY <1>2, <2>2, <2>3, <2>4
<1>3. CASE ~InZq(x)
  <2>1. /\ verifier' = [verifier EXCEPT !.e = e, !.proofs = @ + 1, !.pc = Caught]
        /\ toP' = toP
    BY <1>1, <1>3
  <2> HIDE DEF e
  <2>2. /\ verifier'.proofs = verifier.proofs + 1 /\ verifier'.pc = Caught
        /\ verifier'.h = verifier.h
    BY <1>0, <2>1 DEF VerifierFields
  <2> QED
    BY <2>1, <2>2
<1> QED
  BY <1>2, <1>3

(* The verifier stays a record that counts its proofs.                     *)
LEMMA VerifierRecordStep == VerifierRecord /\ [Next]_vars => VerifierRecord'
<1> SUFFICES ASSUME VerifierRecord, [Next]_vars PROVE VerifierRecord'
  OBVIOUS
<1>0. verifier = [f \in VerifierFields |-> verifier[f]] /\ verifier.proofs \in Nat
  BY DEF VerifierRecord
<1>1. CASE SampleChallenge
  <2>1. verifier' = [f \in VerifierFields |-> verifier'[f]]
    BY <1>0, <1>1 DEF SampleChallenge, VerifierFields
  <2>2. verifier'.proofs \in Nat
    BY <1>0, <1>1 DEF SampleChallenge, VerifierFields
  <2> QED
    BY <2>1, <2>2 DEF VerifierRecord
<1>2. CASE SendChallenge
  BY <1>0, <1>2 DEF SendChallenge, VerifierRecord, VerifierFields
<1>3. CASE ReceiveFirst
  BY <1>0, <1>3 DEF ReceiveFirst, VerifierRecord, VerifierFields
<1>4. CASE ProcessVerify
  BY <1>0, <1>4 DEF ProcessVerify, VerifierRecord, VerifierFields
<1>5. CASE ReceiveSecond
  BY <1>0, <1>5 DEF ReceiveSecond, VerifierRecord, VerifierFields
<1>6. CASE VerifierReadThrows
  BY <1>0, <1>6 DEF VerifierReadThrows, VerifierRecord, VerifierFields
<1>7. CASE PreProcessCommitter
  BY <1>0, <1>7 DEF PreProcessCommitter, VerifierRecord, VerifierFields
<1>8. CASE VerifyCommit
  <2>1. verifier' = [f \in VerifierFields |-> verifier'[f]]
    BY <1>0, <1>8 DEF VerifyCommit, VerifierFields
  <2>2. verifier'.proofs \in Nat
    BY <1>0, <1>8, CommitEffect DEF VerifierRecord
  <2> QED
    BY <2>1, <2>2 DEF VerifierRecord
<1>9. CASE VerifyDecommit
  BY <1>0, <1>9 DEF VerifyDecommit, Decommit, VerifierRecord, VerifierFields
<1>10. CASE VerifySecond
  BY <1>0, <1>10 DEF VerifySecond, VerifierRecord, VerifierFields
<1>11. CASE VerifyTrap
  BY <1>0, <1>11 DEF VerifyTrap, VerifierRecord, VerifierFields
<1>12. CASE FsVerify
  <2>1. verifier' = [f \in VerifierFields |-> verifier'[f]]
    BY <1>0, <1>12 DEF FsVerify, VerifierFields
  <2>2. verifier'.proofs \in Nat
    BY <1>0, <1>12 DEF FsVerify, VerifierFields
  <2> QED
    BY <2>1, <2>2 DEF VerifierRecord
<1>13. CASE ReceiveProof
  BY <1>0, <1>13 DEF ReceiveProof, VerifierRecord, VerifierFields
<1>14. CASE ProverStep \/ BreakSession \/ UNCHANGED vars
  <2>1. verifier' = verifier
    BY <1>14, ProverKeepsVerifier, BreakKeeps DEF vars, sessionVars
  <2> QED
    BY <2>1 DEF VerifierRecord
<1> QED
  BY <1>1, <1>2, <1>3, <1>4, <1>5, <1>6, <1>7, <1>8, <1>9, <1>10, <1>11, <1>12, <1>13, <1>14
     DEF Next, VerifierStep, SigmaVerifierStep

(* Sessions of mode "Sigma", one lemma for the steps of each side.         *)
Documented == usage = "documented" /\ ProverRecord /\ VerifierRecord

(* The prover sends its first message and asks for the challenge.          *)
LEMMA SigmaFirst ==
    ASSUME Documented, mode = "Sigma", SigmaInv, ProcessFirstMsg
    PROVE  SigmaInv'
<1>0. /\ prover = [f \in ProverFields |-> prover[f]] /\ prover.proofs \in Nat
      /\ verifier.proofs \in Nat
  BY DEF Documented, ProverRecord, VerifierRecord
<1>1. /\ verifier' = verifier /\ kind' = kind /\ toP' = toP /\ broken' = broken
      /\ prover.pc = "ready" /\ prover.step = 1
      /\ toV' = IF broken THEN toV ELSE toV \o <<First(prover.proofs + 1)>>
  BY DEF ProcessFirstMsg, MayCall, Documented, ToV, FirstMsg, First
<1>2. /\ prover'.step = 2 /\ prover'.r = prover.proofs + 1 /\ prover'.proofs = prover.proofs + 1
      /\ prover'.input = TRUE
  BY <1>0 DEF ProcessFirstMsg, ProverFields, FirstMsg
<1>3. prover'.pc = IF WriteThrows THEN "threw" ELSE "ready"
  BY <1>0, <1>1 DEF ProcessFirstMsg, ProverFields, Caught, Documented
<1>4. SigmaProver'
  BY <1>2, <1>3 DEF SigmaProver
<1>5. CASE broken \/ verifier.pc = "threw"
  BY <1>1, <1>4, <1>5 DEF SigmaInv, SigmaTurn, Standing
<1>6. CASE ~broken /\ verifier.pc # "threw"
  <2>1. SigmaAsks
    BY <1>1, <1>6 DEF SigmaInv, Standing, SigmaWaits
  <2>2. toV' = toV \o <<First(prover.proofs + 1)>>
    BY <1>1, <1>6
  <2>3. CASE verifier.step = 1
    <3>1. verifier.proofs = prover.proofs /\ toV = <<>> /\ toP = <<>>
      BY <2>1, <2>3 DEF SigmaAsks
    <3>a. toV' = <<First(prover.proofs + 1)>>
      BY <2>2, <3>1, Queues, Zenon
    <3>2. toV' = <<First(verifier.proofs + 1)>>
      BY <3>1, <3>a, Zenon
    <3>b. verifier.pc = "ready"
      BY <1>6, <2>3 DEF SigmaInv, SigmaTurn
    <3>3. SigmaTurn'
      BY <1>1, <2>3, <3>2, <3>b DEF SigmaTurn
    <3>4. SigmaWaits'
      BY <1>1, <1>2, <2>3, <3>1, <3>2 DEF SigmaWaits
    <3> QED
      BY <1>4, <3>3, <3>4 DEF SigmaInv
  <2>4. CASE verifier.step = 2
    <3>1. verifier.proofs = prover.proofs + 1 /\ toV = <<>> /\ toP = <<>>
      BY <2>1, <2>4 DEF SigmaAsks
    <3>a. toV' = <<First(prover.proofs + 1)>>
      BY <2>2, <3>1, Queues, Zenon
    <3>2. toV' = <<First(verifier.proofs)>>
      BY <3>1, <3>a, Zenon
    <3>b. verifier.pc \in {"ready", "first"}
      BY <1>6, <2>4 DEF SigmaInv, SigmaTurn
    <3>3. SigmaTurn'
      BY <1>1, <2>4, <3>2, <3>b DEF SigmaTurn
    <3>4. SigmaWaits'
      BY <1>1, <1>2, <2>4, <3>1, <3>2 DEF SigmaWaits
    <3> QED
      BY <1>4, <3>3, <3>4 DEF SigmaInv
  <2>5. CASE verifier.step = 3
    <3>1. verifier.proofs = prover.proofs /\ toV = <<Second(kind, verifier.proofs, verifier.e)>> /\ toP = <<>>
      BY <2>1, <2>5 DEF SigmaAsks
    <3>a. toV' = <<Second(kind, verifier.proofs, verifier.e), First(prover.proofs + 1)>>
      BY <2>2, <3>1, Queues, Zenon
    <3>2. toV' = <<Second(kind, verifier.proofs, verifier.e), First(verifier.proofs + 1)>>
      BY <3>1, <3>a, Zenon
    <3>b. verifier.pc \in {"ready", "second"} /\ verifier.e # <<>> /\ verifier.a = verifier.proofs
      BY <1>6, <2>5 DEF SigmaInv, SigmaTurn
    <3>3. SigmaTurn'
      BY <1>1, <2>5, <3>2, <3>b DEF SigmaTurn
    <3>4. SigmaWaits'
      BY <1>1, <1>2, <2>5, <3>1, <3>2 DEF SigmaWaits
    <3> QED
      BY <1>4, <3>3, <3>4 DEF SigmaInv
  <2> QED
    BY <2>1, <2>3, <2>4, <2>5 DEF SigmaAsks
<1> QED
  BY <1>5, <1>6

(* The prover reads the challenge and answers, or its read throws.         *)
LEMMA SigmaAnswer ==
    ASSUME Documented, mode = "Sigma", SigmaInv,
           ProcessSecondMsg \/ ReceiveChallenge \/ ProverReadThrows
    PROVE  SigmaInv'
<1>0. /\ prover = [f \in ProverFields |-> prover[f]] /\ prover.proofs \in Nat
      /\ verifier.proofs \in Nat
  BY DEF Documented, ProverRecord, VerifierRecord
<1>1. CASE ProcessSecondMsg
  <2>1. /\ verifier' = verifier /\ kind' = kind /\ toP' = toP /\ toV' = toV /\ broken' = broken
        /\ prover.pc = "ready" /\ prover.step = 2
    BY <1>1 DEF ProcessSecondMsg, MayCall, Documented, channel
  <2>2. /\ prover'.step = prover.step /\ prover'.r = prover.r /\ prover'.proofs = prover.proofs
        /\ prover'.input = prover.input /\ prover'.pc \in {"challenge", "threw"}
    BY <1>0, <1>1 DEF ProcessSecondMsg, ProverFields, Caught, Documented
  <2>3. SigmaProver'
    BY <2>1, <2>2 DEF SigmaInv, SigmaProver
  <2>4. SigmaTurn'
    BY <2>1 DEF SigmaInv, SigmaTurn
  <2>5. Standing' => SigmaWaits'
    BY <2>1, <2>2 DEF SigmaInv, Standing, SigmaWaits, SigmaAsks
  <2> QED
    BY <2>3, <2>4, <2>5 DEF SigmaInv
<1>2. CASE ProverReadThrows \/ (ReceiveChallenge /\ ~(checkChallengeLength(kind, Head(toP).b) /\ prover.input))
  <2>1. verifier' = verifier /\ kind' = kind /\ toV' = toV
    BY <1>2 DEF ProverReadThrows, ReceiveChallenge, channel
  <2>2. prover.pc = "challenge"
    BY <1>2 DEF SigmaInv, SigmaProver, ProverReadThrows, ReceiveChallenge
  <2>3. prover'.pc = "threw"
    BY <1>0, <1>2, <2>2 DEF ProverReadThrows, ReceiveChallenge, SigmaInv, SigmaProver,
                            ProverFields, Caught, Documented
  <2> QED
    BY <2>1, <2>3 DEF SigmaInv, SigmaTurn, SigmaProver, Standing
<1>3. CASE ReceiveChallenge /\ checkChallengeLength(kind, Head(toP).b) /\ prover.input
  <2>1. /\ verifier' = verifier /\ kind' = kind /\ toP' = Tail(toP) /\ broken' = broken
        /\ prover.pc = "challenge" /\ toP # <<>> /\ Answer(Head(toP).b)
    BY <1>3 DEF ReceiveChallenge
  <2>2. /\ prover'.step = 1 /\ prover'.proofs = prover.proofs
        /\ prover'.pc = IF WriteThrows THEN "threw" ELSE "ready"
    BY <1>0, <2>1 DEF Answer, ProverFields, Caught, Documented
  <2>3. SigmaProver'
    BY <2>2 DEF SigmaProver
  <2>4. CASE broken \/ verifier.pc = "threw"
    <3>1. broken => toV' = toV
      BY <2>1 DEF Answer, ToV
    <3> QED
      BY <2>1, <2>3, <2>4, <3>1 DEF SigmaInv, SigmaTurn, Standing
  <2>5. CASE ~broken /\ verifier.pc # "threw"
    <3>1. /\ verifier.step = 3 /\ verifier.proofs = prover.proofs
          /\ toV = <<>> /\ toP = <<Challenge(verifier.e)>> /\ prover.r = prover.proofs
      BY <2>1, <2>5 DEF SigmaInv, Standing, SigmaWaits, SigmaAsks, SigmaProver
    <3>2. Head(toP) = Challenge(verifier.e) /\ toP' = <<>>
      BY <2>1, <3>1, Queues
    <3>3. Head(toP).b = verifier.e
      BY <3>2 DEF Challenge
    <3>4. toV' = toV \o <<[t |-> "z", z |-> computeSecondMsg(prover.r, verifier.e)]>>
      BY <2>1, <2>5, <3>3 DEF Answer, ToV
    <3>5. toV' = toV \o <<Second(kind, verifier.proofs, verifier.e)>>
      BY <3>1, <3>4 DEF computeSecondMsg, Second, Reply
    <3>6. toV' = <<Second(kind, verifier.proofs, verifier.e)>>
      BY <3>1, <3>5, Queues
    <3>7. SigmaTurn'
      BY <2>1, <2>5, <3>1, <3>6 DEF SigmaInv, SigmaTurn
    <3>8. SigmaAsks'
      BY <2>1, <2>2, <3>1, <3>2, <3>6 DEF SigmaAsks
    <3> QED
      BY <2>3, <3>7, <3>8 DEF SigmaInv
  <2> QED
    BY <2>4, <2>5
<1> QED
  BY <1>1, <1>2, <1>3

(* The verifier samples a challenge, or begins one of its reads.           *)
LEMMA SigmaChallenge ==
    ASSUME Documented, mode = "Sigma", SigmaInv, SampleChallenge \/ SendChallenge \/ ProcessVerify
    PROVE  SigmaInv'
<1>0. /\ verifier = [f \in VerifierFields |-> verifier[f]] /\ prover.proofs \in Nat
      /\ verifier.proofs \in Nat
  BY DEF Documented, ProverRecord, VerifierRecord
<1>1. /\ prover' = prover /\ kind' = kind /\ toP' = toP /\ toV' = toV /\ broken' = broken
      /\ verifier.pc = "ready"
  BY DEF SampleChallenge, SendChallenge, ProcessVerify, MayCall, channel
<1>2. SigmaProver'
  BY <1>1 DEF SigmaInv, SigmaProver
<1>3. CASE SampleChallenge
  <2>1. verifier.step = 1
    BY <1>3 DEF SampleChallenge, MayCall, Documented
  <2>2. verifier'.step = 2 /\ verifier'.proofs = verifier.proofs + 1 /\ verifier'.pc = "ready"
    BY <1>0, <1>1, <1>3 DEF SampleChallenge, VerifierFields
  <2>3. toV \in {<<>>, <<First(verifier.proofs + 1)>>}
    BY <1>1, <2>1 DEF SigmaInv, SigmaTurn
  <2>4. SigmaTurn'
    BY <1>1, <2>2, <2>3 DEF SigmaTurn
  <2>5. SigmaAsks => SigmaAsks'
    BY <1>0, <1>1, <2>1, <2>2 DEF SigmaAsks
  <2>6. SigmaWaits => SigmaWaits'
    BY <1>0, <1>1, <2>1, <2>2 DEF SigmaWaits
  <2> QED
    BY <1>1, <1>2, <2>4, <2>5, <2>6 DEF SigmaInv, Standing
<1>4. CASE SendChallenge
  <2>1. verifier.step = 2
    BY <1>4 DEF SendChallenge, MayCall, Documented
  <2>2. /\ verifier'.step = 2 /\ verifier'.proofs = verifier.proofs /\ verifier'.pc = "first"
        /\ verifier'.e = verifier.e
    BY <1>0, <1>4, <2>1 DEF SendChallenge, VerifierFields
  <2>3. toV \in {<<>>, <<First(verifier.proofs)>>}
    BY <1>1, <2>1 DEF SigmaInv, SigmaTurn
  <2>4. SigmaTurn'
    BY <1>1, <2>2, <2>3 DEF SigmaTurn
  <2>5. (SigmaAsks => SigmaAsks') /\ (SigmaWaits => SigmaWaits')
    BY <1>1, <2>1, <2>2 DEF SigmaAsks, SigmaWaits
  <2> QED
    BY <1>1, <1>2, <2>4, <2>5 DEF SigmaInv, Standing
<1>5. CASE ProcessVerify
  <2>1. verifier.step = 3
    BY <1>5 DEF ProcessVerify, MayCall, Documented
  <2>2. /\ verifier'.step = 3 /\ verifier'.proofs = verifier.proofs
        /\ verifier'.pc \in {"second", "threw"}
        /\ verifier'.e = verifier.e /\ verifier'.a = verifier.a
    BY <1>0, <1>5, <2>1 DEF ProcessVerify, VerifierFields, Caught, Documented
  <2>3. /\ verifier.e # <<>> /\ verifier.a = verifier.proofs
        /\ toV \in {<<>>, <<Second(kind, verifier.proofs, verifier.e)>>,
                    <<Second(kind, verifier.proofs, verifier.e), First(verifier.proofs + 1)>>}
    BY <1>1, <2>1 DEF SigmaInv, SigmaTurn
  <2>4. SigmaTurn'
    BY <1>1, <2>2, <2>3 DEF SigmaTurn
  <2>5. (SigmaAsks => SigmaAsks') /\ (SigmaWaits => SigmaWaits')
    BY <1>1, <2>1, <2>2 DEF SigmaAsks, SigmaWaits
  <2> QED
    BY <1>1, <1>2, <2>4, <2>5 DEF SigmaInv, Standing
<1> QED
  BY <1>3, <1>4, <1>5

(* The verifier reads the first message and sends the challenge.           *)
LEMMA SigmaReceiveFirst ==
    ASSUME Documented, mode = "Sigma", SigmaInv, ReceiveFirst
    PROVE  SigmaInv'
<1>0. /\ verifier = [f \in VerifierFields |-> verifier[f]] /\ prover.proofs \in Nat
      /\ verifier.proofs \in Nat
  BY DEF Documented, ProverRecord, VerifierRecord
<1>1. /\ prover' = prover /\ kind' = kind /\ toV' = Tail(toV) /\ broken' = broken
      /\ verifier.pc = "first" /\ toV # <<>>
  BY DEF ReceiveFirst
<1>2. SigmaProver'
  BY <1>1 DEF SigmaInv, SigmaProver
<1>3. verifier.step = 2 /\ toV = <<First(verifier.proofs)>>
  BY <1>1 DEF SigmaInv, SigmaTurn
<1>4. Head(toV) = First(verifier.proofs) /\ toV' = <<>>
  BY <1>1, <1>3, Queues
<1>5. Head(toV).t = "a" /\ ReadAsFirst(Head(toV)) = verifier.proofs
  BY <1>4 DEF First, ReadAsFirst
<1>6. CASE verifier.e = <<>>
  <2>1. verifier'.pc = "threw"
    BY <1>0, <1>6 DEF ReceiveFirst, VerifierFields, Caught, Documented
  <2> QED
    BY <1>2, <2>1 DEF SigmaInv, SigmaTurn, Standing
<1>7. CASE verifier.e # <<>>
  <2>1. /\ toP' = IF broken THEN toP ELSE toP \o <<Challenge(verifier.e)>>
        /\ verifier' = [verifier EXCEPT !.a = verifier.proofs, !.step = 3,
                                        !.doneChallenge = @ \/ ~WriteThrows,
                                        !.pc = IF WriteThrows THEN Caught ELSE "ready"]
    BY <1>5, <1>7 DEF ReceiveFirst, ToP, Challenge
  <2>2. /\ verifier'.step = 3 /\ verifier'.proofs = verifier.proofs
        /\ verifier'.pc = IF WriteThrows THEN "threw" ELSE "ready"
        /\ verifier'.e = verifier.e /\ verifier'.a = verifier.proofs
    BY <1>0, <2>1 DEF VerifierFields, Caught, Documented
  <2>3. SigmaTurn'
    BY <1>4, <1>7, <2>2 DEF SigmaTurn
  <2>4. ASSUME Standing' PROVE SigmaWaits'
    <3>1. SigmaWaits /\ ~broken
      BY <1>1, <1>3, <2>4 DEF SigmaInv, Standing, SigmaAsks
    <3>2. prover.step = 2 /\ verifier.proofs = prover.proofs /\ toP = <<>>
      BY <1>3, <3>1 DEF SigmaWaits
    <3>3. toP' = <<Challenge(verifier.e)>>
      BY <2>1, <3>1, <3>2, Queues
    <3> QED
      BY <1>1, <1>4, <2>2, <3>2, <3>3 DEF SigmaWaits
  <2> QED
    BY <1>2, <2>3, <2>4 DEF SigmaInv
<1> QED
  BY <1>6, <1>7

(* The verifier reads the answer to its challenge and accepts.             *)
LEMMA SigmaReceiveSecond ==
    ASSUME Documented, mode = "Sigma", SigmaInv, AllTrue, ReceiveSecond
    PROVE  SigmaInv' /\ AllTrue'
<1>0. /\ verifier = [f \in VerifierFields |-> verifier[f]] /\ prover.proofs \in Nat
      /\ verifier.proofs \in Nat
  BY DEF Documented, ProverRecord, VerifierRecord
<1>1. /\ prover' = prover /\ kind' = kind /\ toV' = Tail(toV) /\ broken' = broken /\ toP' = toP
      /\ verifier.pc = "second" /\ toV # <<>>
  BY DEF ReceiveSecond
<1>2. SigmaProver'
  BY <1>1 DEF SigmaInv, SigmaProver
<1> DEFINE s == Second(kind, verifier.proofs, verifier.e)
           f == First(verifier.proofs + 1)
<1>3. /\ verifier.step = 3 /\ verifier.e # <<>> /\ verifier.a = verifier.proofs
      /\ toV \in {<<s>>, <<s, f>>}
  BY <1>1 DEF SigmaInv, SigmaTurn
<1>4. Head(toV) = s /\ toV' \in {<<>>, <<f>>}
  <2> HIDE DEF s, f
  <2>1. Head(<<s>>) = s /\ Tail(<<s>>) = <<>> /\ Head(<<s, f>>) = s /\ Tail(<<s, f>>) = <<f>>
    BY Queues, Zenon
  <2> QED
    BY <1>1, <1>3, <2>1, Zenon
<1>5. Head(toV).t = "z" /\ ReadAsSecond(Head(toV)) = Reply(kind, verifier.proofs, verifier.e)
  BY <1>4 DEF Second, ReadAsSecond
<1>6. CASE verifier'.pc = "threw" /\ verdicts' = verdicts
  BY <1>2, <1>6 DEF SigmaInv, SigmaTurn, Standing, AllTrue
<1>7. CASE /\ Verdict(ReadAsSecond(Head(toV)))
           /\ verifier' = [verifier EXCEPT !.pc = "ready", !.step = 1, !.doneChallenge = FALSE]
  <2>1. /\ verifier'.step = 1 /\ verifier'.proofs = verifier.proofs
        /\ verifier'.pc = "ready" /\ verifier'.e = verifier.e
    BY <1>0, <1>7 DEF VerifierFields
  <2>2. SigmaTurn'
    BY <1>4, <2>1 DEF SigmaTurn
  <2>3. ASSUME Standing' PROVE (SigmaAsks \/ SigmaWaits)'
    <3>1. (SigmaAsks \/ SigmaWaits) /\ ~broken
      BY <1>1, <2>3 DEF SigmaInv, Standing
    <3>2. CASE SigmaAsks
      <4>1. /\ prover.step = 1 /\ toP = <<>> /\ verifier.proofs = prover.proofs /\ toV = <<s>>
        BY <1>3, <3>2 DEF SigmaAsks
      <4>2. toV' = <<>>
        BY <1>1, <4>1, Queues
      <4> QED
        BY <1>1, <2>1, <4>1, <4>2 DEF SigmaAsks
    <3>3. CASE SigmaWaits
      <4>1. /\ prover.step = 2 /\ toP = <<>> /\ verifier.proofs + 1 = prover.proofs
            /\ toV = <<s, f>>
        BY <1>1, <1>3, <3>3 DEF SigmaWaits
      <4>2. toV' = <<f>>
        BY <1>1, <4>1, Queues
      <4> QED
        BY <1>1, <2>1, <4>1, <4>2 DEF SigmaWaits
    <3> QED
      BY <3>1, <3>2, <3>3
  <2>4. Accepts(verifier.a, verifier.e, ReadAsSecond(Head(toV))) = TRUE
    BY <1>3, <1>5 DEF Accepts, Reply
  <2>5. AllTrue'
    BY <1>7, <2>4, StillTrue DEF Verdict
  <2> QED
    BY <1>2, <2>2, <2>3, <2>5 DEF SigmaInv
<1>8. verifier = [f0 \in VerifierFields |-> verifier[f0]] => [verifier EXCEPT !.pc = Caught].pc = "threw"
  BY DEF VerifierFields, Caught, Documented
<1> QED
  BY <1>0, <1>3, <1>6, <1>7, <1>8 DEF ReceiveSecond

(* What a break leaves of the messages still fits.                         *)
LEMMA SigmaBreak ==
    ASSUME SigmaInv, SameProver, verifier' = verifier, BreakSession
    PROVE  SigmaInv'
<1>1. broken' /\ \E n \in 0 .. Len(toV) : toV' = SubSeq(toV, 1, n)
  BY DEF BreakSession, Break
<1>2. SigmaProver'
  BY DEF SigmaInv, SigmaProver, SameProver
<1>3. SigmaTurn'
  <2> DEFINE s == Second(kind, verifier.proofs, verifier.e)
             f == First(verifier.proofs + 1)
             a == First(verifier.proofs)
  <2>1. /\ toV = <<>> => toV' = <<>>
        /\ toV = <<f>> => toV' \in {<<>>, <<f>>}
        /\ toV = <<a>> => toV' \in {<<>>, <<a>>}
        /\ toV = <<s>> => toV' \in {<<>>, <<s>>}
        /\ toV = <<s, f>> => toV' \in {<<>>, <<s>>, <<s, f>>}
    <3> HIDE DEF s, f, a
    <3> QED
      BY <1>1, CutQueues, Zenon
  <2> QED
    BY <2>1 DEF SigmaInv, SigmaTurn, SameProver
<1> QED
  BY <1>1, <1>2, <1>3 DEF SigmaInv, Standing

(* Every step of a session of mode Sigma.                                  *)
LEMMA SigmaStep ==
    ASSUME Documented, mode = "Sigma", SigmaInv, AllTrue, [Next]_vars
    PROVE  SigmaInv' /\ AllTrue'
<1>1. CASE ProcessFirstMsg \/ ProcessSecondMsg \/ ReceiveChallenge \/ ProverReadThrows
  <2>1. verdicts' = verdicts
    BY <1>1, ProverKeepsVerifier DEF ProcessFirstMsg, ProcessSecondMsg, ReceiveChallenge,
                                     ProverReadThrows
  <2> QED
    BY <1>1, <2>1, SigmaFirst, SigmaAnswer DEF AllTrue
<1>2. CASE SampleChallenge \/ SendChallenge \/ ProcessVerify
  <2>1. verdicts' = verdicts
    BY <1>2 DEF SampleChallenge, SendChallenge, ProcessVerify
  <2> QED
    BY <1>2, <2>1, SigmaChallenge DEF AllTrue
<1>3. CASE ReceiveFirst
  <2>1. verdicts' = verdicts
    BY <1>3 DEF ReceiveFirst
  <2> QED
    BY <1>3, <2>1, SigmaReceiveFirst DEF AllTrue
<1>4. CASE ReceiveSecond
  BY <1>4, SigmaReceiveSecond
<1>5. CASE VerifierReadThrows
  <2>1. verdicts' = verdicts /\ prover' = prover
    BY <1>5 DEF VerifierReadThrows
  <2>2. verifier'.pc = "threw"
    BY <1>5 DEF VerifierReadThrows, Documented, VerifierRecord, VerifierFields, Caught
  <2> QED
    BY <2>1, <2>2 DEF AllTrue, SigmaInv, SigmaTurn, SigmaProver, Standing
<1>6. CASE BreakSession
  BY <1>6, BreakKeeps, SigmaBreak DEF AllTrue
<1>7. CASE UNCHANGED vars
  BY <1>7 DEF vars, sessionVars, channel, AllTrue, SigmaInv, SigmaTurn, SigmaProver, Standing,
              SigmaAsks, SigmaWaits
<1>8. mode \notin ZkModes /\ mode # "FiatShamir" /\ mode # "ZKPOK"
  BY DEF ZkModes
<1>9. ~PreProcessReceiver /\ ~Prove /\ ~ReceiveCommit /\ ~ReceiveDecommit /\ ~FsProve
  BY <1>8 DEF PreProcessReceiver, Prove, ReceiveCommit, ReceiveDecommit, FsProve
<1>10. ~PreProcessCommitter /\ ~VerifyCommit /\ ~VerifyDecommit /\ ~VerifySecond /\ ~VerifyTrap
       /\ ~FsVerify /\ ~ReceiveProof
  BY <1>8 DEF PreProcessCommitter, VerifyCommit, VerifyDecommit, VerifySecond, VerifyTrap,
              FsVerify, ReceiveProof
<1> QED
  BY <1>1, <1>2, <1>3, <1>4, <1>5, <1>6, <1>7, <1>9, <1>10
     DEF Next, ProverStep, VerifierStep, SigmaProverStep, SigmaVerifierStep

-----------------------------------------------------------------------------
(* Sessions of modes "ZK" and "ZKPOK".                                     *)

(* The prover sends the key of the commitments, and calls prove.           *)
LEMMA ZkStart ==
    ASSUME Documented, mode \in ZkModes, ZkInv, PreProcessReceiver \/ Prove
    PROVE  ZkInv'
<1>0. prover = [f \in ProverFields |-> prover[f]]
  BY DEF Documented, ProverRecord
<1>1. CASE PreProcessReceiver
  <2>1. /\ mode' = mode /\ kind' = kind /\ verifier' = verifier /\ toP' = toP
        /\ broken' = broken /\ prover.pc = "new"
        /\ toV' = IF broken THEN toV ELSE toV \o <<Key>>
    BY <1>1 DEF PreProcessReceiver, ToV, Key
  <2>2. /\ prover'.pc = IF WriteThrows THEN "threw" ELSE "ready"
        /\ prover'.proofs = prover.proofs
    BY <1>0, <1>1 DEF PreProcessReceiver, ProverFields, Caught, Documented
  <2>3. prover'.pc \in {"ready", "threw"}
    BY <2>2
  <2>4. CASE broken \/ verifier.pc = "threw"
    <3>1. ZkTurn'
      BY <2>1, <2>4 DEF ZkInv, ZkTurn, Stored, Answered
    <3> QED
      BY <2>1, <2>3, <2>4, <3>1 DEF ZkInv, Standing
  <2>5. CASE ~broken /\ verifier.pc # "threw"
    <3>1. verifier.pc = "new" /\ verifier.proofs = prover.proofs /\ toV = <<>> /\ toP = <<>>
      BY <2>1, <2>5 DEF ZkInv, Standing, ZkNew, ZkAsks, ZkWaits
    <3>2. toV' = <<Key>>
      BY <2>1, <2>5, <3>1, Queues
    <3>3. ZkTurn'
      BY <2>1, <3>1, <3>2 DEF ZkTurn
    <3>4. prover'.pc = "ready"
      BY <2>2, <2>5 DEF WriteThrows
    <3>5. ZkAsks'
      BY <2>1, <2>2, <3>1, <3>2, <3>4 DEF ZkAsks
    <3> QED
      BY <2>3, <3>3, <3>5 DEF ZkInv
  <2> QED
    BY <2>4, <2>5
<1>2. CASE Prove
  <2>1. /\ mode' = mode /\ kind' = kind /\ verifier' = verifier /\ toP' = toP /\ toV' = toV
        /\ broken' = broken /\ prover.pc = "ready"
    BY <1>2 DEF Prove, MayCall, channel
  <2>2. prover'.pc = "commit" /\ prover'.proofs = prover.proofs
    BY <1>0, <1>2 DEF Prove, ProverFields
  <2>3. ZkTurn'
    BY <2>1 DEF ZkInv, ZkTurn, Stored, Answered
  <2>4. ZkAsks => ZkAsks'
    BY <2>1, <2>2 DEF ZkAsks, Answered
  <2>5. Standing' => ZkAsks
    BY <2>1 DEF ZkInv, Standing, ZkNew, ZkWaits
  <2> QED
    BY <2>2, <2>3, <2>4, <2>5 DEF ZkInv
<1> QED
  BY <1>1, <1>2

(* The verifier reads the key of the commitments.                          *)
LEMMA ZkPreProcessCommitter ==
    ASSUME Documented, mode \in ZkModes, ZkInv, PreProcessCommitter
    PROVE  ZkInv'
<1>0. verifier = [f \in VerifierFields |-> verifier[f]]
  BY DEF Documented, VerifierRecord
<1>1. /\ mode' = mode /\ kind' = kind /\ prover' = prover /\ toP' = toP
      /\ broken' = broken /\ verifier.pc = "new" /\ toV # <<>> /\ toV' = Tail(toV)
  BY DEF PreProcessCommitter
<1>2. toV = <<Key>>
  BY <1>1 DEF ZkInv, ZkTurn
<1>3. Head(toV) = Key /\ toV' = <<>>
  BY <1>1, <1>2, Queues
<1>4. Head(toV).h = Trapdoor
  BY <1>3 DEF Key
<1>5. verifier'.pc = "ready" /\ verifier'.h = Trapdoor /\ verifier'.proofs = verifier.proofs
  BY <1>0, <1>4 DEF PreProcessCommitter, VerifierFields
<1>6. ZkTurn'
  BY <1>3, <1>5 DEF ZkTurn
<1>7. ASSUME Standing' PROVE ZkAsks'
  <2>1. ZkAsks
    BY <1>1, <1>7 DEF ZkInv, Standing, ZkNew, ZkWaits
  <2>2. /\ prover.pc \in {"ready", "commit"} /\ verifier.proofs = prover.proofs /\ toP = <<>>
    BY <1>1, <2>1 DEF ZkAsks
  <2> QED
    BY <1>1, <1>3, <1>5, <2>2 DEF ZkAsks
<1> QED
  BY <1>1, <1>6, <1>7 DEF ZkInv

(* The verifier commits to its challenge.                                  *)
LEMMA ZkCommit ==
    ASSUME Documented, mode \in ZkModes, ZkInv, VerifyCommit
    PROVE  ZkInv'
<1>1. /\ mode' = mode /\ kind' = kind /\ prover' = prover /\ toV' = toV
      /\ broken' = broken /\ verifier.pc = "ready"
  BY DEF VerifyCommit, MayCall
<1>2. toV = <<>> /\ verifier.h = Trapdoor
  BY <1>1 DEF ZkInv, ZkTurn
<1>3. /\ verifier'.proofs = verifier.proofs + 1 /\ verifier'.h = verifier.h
      /\ \/ verifier'.pc = Caught /\ toP' = toP
         \/ /\ verifier'.pc = "first" /\ InZq(decodeBigInteger(verifier'.e))
            /\ ~broken => /\ verifier'.id \in DOMAIN verifier'.commitmentMap
                          /\ verifier'.commitmentMap[verifier'.id].x
                               = decodeBigInteger(verifier'.e)
                          /\ \E m : toP' = toP \o <<m>>
  BY CommitEffect DEF Documented
<1>4. CASE verifier'.pc = Caught
  BY <1>1, <1>4 DEF ZkInv, ZkTurn, Standing, Caught, Documented
<1>5. CASE verifier'.pc = "first" /\ ~(verifier'.pc = Caught)
  <2>1. ~broken => Stored' /\ \E m : toP' = toP \o <<m>>
    BY <1>3, <1>5 DEF Stored
  <2>2. ZkTurn'
    BY <1>1, <1>2, <1>3, <1>5, <2>1 DEF ZkTurn
  <2>3. ASSUME Standing' PROVE ZkAsks'
    <3>1. ZkAsks /\ ~broken
      BY <1>1, <2>3 DEF ZkInv, Standing, ZkNew, ZkWaits
    <3>2. /\ prover.pc \in {"ready", "commit"} /\ verifier.proofs = prover.proofs /\ toP = <<>>
      BY <1>1, <3>1 DEF ZkAsks
    <3>3. PICK m : toP' = <<>> \o <<m>>
      BY <2>1, <3>1, <3>2
    <3>4. toP' # <<>> /\ Tail(toP') = <<>>
      BY <3>3, Queues
    <3> QED
      BY <1>1, <1>2, <1>3, <1>5, <3>2, <3>4 DEF ZkAsks
  <2> QED
    BY <1>1, <2>2, <2>3 DEF ZkInv
<1> QED
  BY <1>3, <1>4, <1>5

(* The prover reads the commitment and sends its first message.            *)
LEMMA ZkReceiveCommit ==
    ASSUME Documented, mode \in ZkModes, ZkInv, ReceiveCommit
    PROVE  ZkInv'
<1>0. prover = [f \in ProverFields |-> prover[f]] /\ prover.proofs \in Nat
  BY DEF Documented, ProverRecord
<1>1. /\ mode' = mode /\ kind' = kind /\ verifier' = verifier /\ toP' = Tail(toP)
      /\ broken' = broken /\ prover.pc = "commit" /\ toP # <<>>
      /\ toV' = IF broken THEN toV ELSE toV \o <<First(prover.proofs + 1)>>
  BY DEF ReceiveCommit, ToV, FirstMsg, First
<1>2. prover'.proofs = prover.proofs + 1 /\ prover'.r = prover.proofs + 1
  BY <1>0 DEF ReceiveCommit, ProverFields, FirstMsg
<1>3. prover'.pc = IF WriteThrows THEN "threw" ELSE "decommit"
  BY <1>0 DEF ReceiveCommit, ProverFields, Caught, Documented
<1>4. prover'.pc \in {"threw", "decommit"}
  BY <1>3
<1>5. CASE broken \/ verifier.pc = "threw"
  <2>1. ZkTurn'
    BY <1>1, <1>5 DEF ZkInv, ZkTurn, Stored, Answered
  <2> QED
    BY <1>1, <1>4, <1>5, <2>1 DEF ZkInv, Standing
<1>6. CASE ~broken /\ verifier.pc # "threw"
  <2>1. /\ verifier.pc = "first" /\ verifier.proofs = prover.proofs + 1
        /\ toV = <<>> /\ Tail(toP) = <<>>
    BY <1>1, <1>6 DEF ZkInv, Standing, ZkNew, ZkAsks, ZkWaits
  <2>2. toV' = <<First(prover.proofs + 1)>>
    BY <1>1, <1>6, <2>1, Queues
  <2>3. toV' = <<First(verifier.proofs)>>
    BY <2>1, <2>2, Zenon
  <2>4. Stored /\ verifier.h = Trapdoor
    BY <1>6, <2>1 DEF ZkInv, ZkTurn
  <2>5. ZkTurn'
    BY <1>1, <2>1, <2>3, <2>4 DEF ZkTurn, Stored
  <2>6. prover'.pc = "decommit"
    BY <1>3, <1>6 DEF WriteThrows
  <2>7. ZkWaits'
    BY <1>1, <1>2, <2>1, <2>3, <2>6 DEF ZkWaits
  <2> QED
    BY <1>4, <2>5, <2>7 DEF ZkInv
<1> QED
  BY <1>5, <1>6

(* The verifier finds the value it committed to and reveals it.            *)
LEMMA ZkDecommit ==
    ASSUME Documented, mode \in ZkModes, ZkInv, VerifyDecommit
    PROVE  ZkInv'
<1>0. verifier = [f \in VerifierFields |-> verifier[f]]
  BY DEF Documented, VerifierRecord
<1>1. /\ mode' = mode /\ kind' = kind /\ prover' = prover /\ toV' = Tail(toV)
      /\ broken' = broken /\ verifier.pc = "first" /\ toV # <<>>
  BY DEF VerifyDecommit
<1>2. toV = <<First(verifier.proofs)>> /\ Stored /\ verifier.h = Trapdoor
  BY <1>1 DEF ZkInv, ZkTurn
<1>3. Head(toV) = First(verifier.proofs) /\ toV' = <<>>
  BY <1>1, <1>2, Queues
<1>4. Head(toV).r = verifier.proofs
  BY <1>3 DEF First
<1> DEFINE v == [verifier EXCEPT !.a = verifier.proofs]
<1>5. Decommit(v)
  BY <1>4 DEF VerifyDecommit
<1>6. /\ v.id = verifier.id /\ v.commitmentMap = verifier.commitmentMap /\ v.e = verifier.e
      /\ v.h = verifier.h /\ v.a = verifier.proofs /\ v.proofs = verifier.proofs
      /\ v = [f \in VerifierFields |-> v[f]]
  BY <1>0 DEF VerifierFields
<1> HIDE DEF v
<1> DEFINE d == [t |-> "d", x |-> v.commitmentMap[v.id].x, rnd |-> v.commitmentMap[v.id].rnd]
<1>7. d.x = decodeBigInteger(verifier.e)
  BY <1>2, <1>6 DEF Stored
<1>8. /\ verifier' = [v EXCEPT !.pc = IF WriteThrows THEN Caught ELSE "second"]
      /\ toP' = IF broken THEN toP ELSE toP \o <<d>>
  BY <1>2, <1>5, <1>6 DEF Decommit, ToP, Stored
<1> HIDE DEF d
<1>9. /\ verifier'.pc = IF WriteThrows THEN "threw" ELSE "second"
      /\ verifier'.h = Trapdoor /\ verifier'.a = verifier.proofs
      /\ verifier'.proofs = verifier.proofs /\ verifier'.e = verifier.e
  BY <1>2, <1>6, <1>8 DEF VerifierFields, Caught, Documented
<1>10. ZkTurn'
  BY <1>3, <1>9 DEF ZkTurn
<1>11. ASSUME Standing' PROVE ZkWaits'
  <2>1. ZkWaits /\ ~broken
    BY <1>1, <1>11 DEF ZkInv, Standing, ZkNew, ZkAsks
  <2>2. /\ prover.pc = "decommit" /\ verifier.proofs = prover.proofs /\ prover.r = prover.proofs
        /\ toP = <<>>
    BY <1>1, <2>1 DEF ZkWaits
  <2>3. toP' = <<d>>
    BY <1>8, <2>1, <2>2, Queues
  <2>4. toP' # <<>> /\ Tail(toP') = <<>> /\ Head(toP') = d
    BY <2>3, Queues
  <2>5. verifier'.pc = "second"
    BY <1>9, <2>1 DEF WriteThrows
  <2> QED
    BY <1>1, <1>2, <1>3, <1>7, <1>9, <2>2, <2>4, <2>5 DEF ZkWaits, Stored
<1> QED
  BY <1>1, <1>10, <1>11 DEF ZkInv

(* The challenge that the prover answers is the one that was committed to. *)
LEMMA DecommittedExponent ==
    ASSUME NumbersReadBack, NEW e, InZq(decodeBigInteger(e)), NEW r
    PROVE  computeSecondMsg(r, BytesOf(decodeBigInteger(e))) = Reply(kind, r, e)
<1>1. decodeBigInteger(BytesOf(decodeBigInteger(e))) = decodeBigInteger(e)
  BY DEF NumbersReadBack, InZq
<1> HIDE DEF decodeBigInteger, BytesOf
<1> QED
  BY <1>1 DEF computeSecondMsg, Reply, Exponent

(* The prover answers the decommitted challenge, or refuses it and throws. *)
LEMMA ZkReceiveDecommit ==
    ASSUME NumbersReadBack, Documented, mode \in ZkModes, ZkInv, ReceiveDecommit
    PROVE  ZkInv'
<1>0. prover = [f \in ProverFields |-> prover[f]]
  BY DEF Documented, ProverRecord
<1>1. /\ mode' = mode /\ kind' = kind /\ verifier' = verifier /\ toP' = Tail(toP)
      /\ broken' = broken /\ prover.pc = "decommit" /\ toP # <<>>
  BY DEF ReceiveDecommit
<1> DEFINE z == computeSecondMsg(prover.r, BytesOf(Head(toP).x))
           ms == <<[t |-> "z", z |-> z]>> \o IF mode = "ZKPOK" THEN <<Trap>> ELSE <<>>
<1>2. \/ prover' = [prover EXCEPT !.pc = Caught] /\ toV' = toV
      \/ /\ prover' = [prover EXCEPT !.r = Reset, !.pc = IF WriteThrows THEN Caught ELSE "ready"]
         /\ toV' = IF broken THEN toV ELSE toV \o ms
  BY DEF ReceiveDecommit, ToV, Trap
<1> HIDE DEF ms
<1>3. \/ prover'.pc = "threw" /\ toV' = toV
      \/ /\ prover'.pc = IF WriteThrows THEN "threw" ELSE "ready"
         /\ toV' = (IF broken THEN toV ELSE toV \o ms) /\ prover'.proofs = prover.proofs
  BY <1>0, <1>2 DEF ProverFields, Caught, Documented
<1>4. prover'.pc \in {"threw", "ready"}
  BY <1>3
<1>5. CASE (toV' = toV /\ (broken \/ prover'.pc = "threw")) \/ verifier.pc = "threw"
  <2>1. ZkTurn'
    BY <1>1, <1>5 DEF ZkInv, ZkTurn, Stored, Answered
  <2> QED
    BY <1>1, <1>4, <1>5, <2>1 DEF ZkInv, Standing
<1>6. CASE /\ ~broken /\ verifier.pc # "threw" /\ prover'.pc = "ready"
           /\ toV' = toV \o ms /\ prover'.proofs = prover.proofs
  <2>1. /\ verifier.proofs = prover.proofs /\ prover.r = prover.proofs
        /\ verifier.pc = "second" /\ toV = <<>> /\ Tail(toP) = <<>>
        /\ Head(toP).x = decodeBigInteger(verifier.e)
        /\ InZq(decodeBigInteger(verifier.e))
    BY <1>1, <1>6 DEF ZkInv, Standing, ZkNew, ZkAsks, ZkWaits
  <2>2. z = Reply(kind, verifier.proofs, verifier.e)
    BY <2>1, DecommittedExponent
  <2> DEFINE m == Second(kind, verifier.proofs, verifier.e)
  <2>3. m = [t |-> "z", z |-> z]
    BY <2>2 DEF Second
  <2>4. ms = <<m>> \o IF mode = "ZKPOK" THEN <<Trap>> ELSE <<>>
    BY <2>3 DEF ms
  <2>5. Answered = IF mode = "ZKPOK" THEN <<m, Trap>> ELSE <<m>>
    BY DEF Answered
  <2> HIDE DEF m
  <2>6. toV' = Answered
    <3>1. CASE mode = "ZKPOK"
      BY <1>6, <2>1, <2>4, <2>5, <3>1, Queues
    <3>2. CASE mode # "ZKPOK"
      BY <1>6, <2>1, <2>4, <2>5, <3>2, Queues
    <3> QED
      BY <3>1, <3>2
  <2>7. Answered' = Answered
    BY <1>1 DEF Answered
  <2>8. verifier.h = Trapdoor /\ verifier.a = verifier.proofs
    BY <1>6, <2>1 DEF ZkInv, ZkTurn
  <2>9. ZkTurn'
    BY <1>1, <2>1, <2>6, <2>7, <2>8 DEF ZkTurn
  <2>10. ZkAsks'
    BY <1>1, <1>6, <2>1, <2>6, <2>7 DEF ZkAsks
  <2> QED
    BY <1>4, <2>9, <2>10 DEF ZkInv
<1>7. broken \/ ~WriteThrows
  BY DEF WriteThrows
<1> QED
  BY <1>3, <1>5, <1>6, <1>7

(* The verifier reads the answer.                                          *)
LEMMA ZkSecond ==
    ASSUME Documented, mode \in ZkModes, ZkInv, AllTrue, VerifySecond
    PROVE  ZkInv' /\ AllTrue'
<1>0. verifier = [f \in VerifierFields |-> verifier[f]]
  BY DEF Documented, VerifierRecord
<1>1. /\ mode' = mode /\ kind' = kind /\ prover' = prover /\ toV' = Tail(toV) /\ toP' = toP
      /\ broken' = broken /\ verifier.pc = "second" /\ toV # <<>>
  BY DEF VerifySecond
<1> DEFINE m == Second(kind, verifier.proofs, verifier.e)
<1>2. /\ verifier.h = Trapdoor /\ verifier.a = verifier.proofs
      /\ toV \in {<<m>>, Answered}
      /\ Answered = IF mode = "ZKPOK" THEN <<m, Trap>> ELSE <<m>>
  BY <1>1 DEF ZkInv, ZkTurn, Answered
<1>3. m.z = Reply(kind, verifier.proofs, verifier.e)
  BY DEF Second
<1> HIDE DEF m
<1>4. /\ Head(<<m>>) = m /\ Tail(<<m>>) = <<>> /\ Head(<<m, Trap>>) = m
      /\ Tail(<<m, Trap>>) = <<Trap>>
  BY Queues, Zenon
<1>5. Standing' => /\ prover.pc \in {"ready", "commit"} /\ verifier.proofs = prover.proofs
                   /\ toV = Answered /\ toP = <<>>
  <2>1. verifier.pc # "threw"
    BY <1>1
  <2>2. Standing' => ZkAsks
    BY <1>1, <2>1 DEF ZkInv, Standing, ZkNew, ZkWaits
  <2> QED
    BY <1>1, <2>2 DEF ZkAsks
<1>6. CASE mode = "ZK"
  <2>1. toV = <<m>>
    BY <1>2, <1>6
  <2>2. Head(toV) = m /\ toV' = <<>>
    BY <1>1, <1>4, <2>1
  <2>3. /\ verdicts' = Append(verdicts, Accepts(verifier.a, verifier.e, m.z))
        /\ verifier' = [verifier EXCEPT !.pc = "ready"]
    BY <1>6, <2>2 DEF VerifySecond, Verdict
  <2>4. Accepts(verifier.a, verifier.e, m.z) = TRUE
    BY <1>2, <1>3 DEF Accepts, Reply
  <2>5. AllTrue'
    BY <2>3, <2>4, StillTrue
  <2>6. verifier'.pc = "ready" /\ verifier'.h = Trapdoor /\ verifier'.proofs = verifier.proofs
    BY <1>0, <1>2, <2>3 DEF VerifierFields
  <2>7. ZkTurn'
    BY <2>2, <2>6 DEF ZkTurn
  <2>8. Standing' => ZkAsks'
    BY <1>1, <1>5, <2>2, <2>6 DEF ZkAsks
  <2> QED
    BY <1>1, <2>5, <2>7, <2>8 DEF ZkInv
<1>7. CASE mode = "ZKPOK"
  <2>1. toV \in {<<m>>, <<m, Trap>>} /\ Answered = <<m, Trap>>
    BY <1>2, <1>7
  <2>2. Head(toV) = m /\ toV' \in {<<>>, <<Trap>>} /\ (toV = <<m, Trap>> => toV' = <<Trap>>)
    BY <1>1, <1>4, <2>1, Zenon
  <2>3. verdicts' = verdicts /\ verifier' = [verifier EXCEPT !.pc = "trap", !.z = m.z]
    BY <1>7, <2>2 DEF VerifySecond
  <2>4. /\ verifier'.pc = "trap" /\ verifier'.h = Trapdoor /\ verifier'.proofs = verifier.proofs
        /\ verifier'.a = verifier.proofs /\ verifier'.e = verifier.e /\ verifier'.z = m.z
    BY <1>0, <1>2, <2>3 DEF VerifierFields
  <2>5. verifier'.z = Reply(kind, verifier.proofs, verifier.e)
    BY <1>3, <2>4
  <2>6. ZkTurn'
    BY <1>1, <2>2, <2>4, <2>5 DEF ZkTurn
  <2>7. Standing' => ZkAsks'
    BY <1>1, <1>5, <2>1, <2>2, <2>4 DEF ZkAsks
  <2> QED
    BY <1>1, <2>3, <2>6, <2>7 DEF ZkInv, AllTrue
<1> QED
  BY <1>6, <1>7 DEF ZkModes

(* The verifier reads the trapdoor and accepts.                            *)
LEMMA ZkTrap ==
    ASSUME Documented, mode \in ZkModes, ZkInv, AllTrue, VerifyTrap
    PROVE  ZkInv' /\ AllTrue'
<1>0. verifier = [f \in VerifierFields |-> verifier[f]]
  BY DEF Documented, VerifierRecord
<1>1. /\ mode' = mode /\ kind' = kind /\ prover' = prover /\ toV' = Tail(toV) /\ toP' = toP
      /\ broken' = broken /\ verifier.pc = "trap" /\ toV # <<>>
  BY DEF VerifyTrap
<1>2. /\ verifier.h = Trapdoor /\ verifier.a = verifier.proofs /\ toV = <<Trap>>
      /\ verifier.z = Reply(kind, verifier.proofs, verifier.e)
  BY <1>1 DEF ZkInv, ZkTurn
<1>3. Head(toV) = Trap /\ toV' = <<>>
  BY <1>1, <1>2, Queues
<1>4. /\ verdicts' = Append(verdicts, /\ Trap.trap = verifier.h
                                      /\ Accepts(verifier.a, verifier.e, verifier.z))
      /\ verifier' = [verifier EXCEPT !.pc = "ready"]
  BY <1>3 DEF VerifyTrap
<1>5. (Trap.trap = verifier.h /\ Accepts(verifier.a, verifier.e, verifier.z)) = TRUE
  BY <1>2 DEF Trap, Accepts, Reply
<1>6. AllTrue'
  BY <1>4, <1>5, StillTrue
<1>7. verifier'.pc = "ready" /\ verifier'.h = Trapdoor /\ verifier'.proofs = verifier.proofs
  BY <1>0, <1>2, <1>4 DEF VerifierFields
<1>8. ZkTurn'
  BY <1>3, <1>7 DEF ZkTurn
<1>9. Standing' => ZkAsks'
  <2>1. Standing' => ZkAsks
    BY <1>1 DEF ZkInv, Standing, ZkNew, ZkWaits
  <2>2. ZkAsks => prover.pc \in {"ready", "commit"} /\ verifier.proofs = prover.proofs /\ toP = <<>>
    BY <1>1 DEF ZkAsks
  <2> QED
    BY <1>1, <1>3, <1>7, <2>1, <2>2 DEF ZkAsks
<1> QED
  BY <1>1, <1>6, <1>8, <1>9 DEF ZkInv

(* What a break leaves of the messages still fits.                         *)
LEMMA ZkBreak ==
    ASSUME ZkInv, SameProver, verifier' = verifier, BreakSession
    PROVE  ZkInv'
<1>1. broken' /\ \E n \in 0 .. Len(toV) : toV' = SubSeq(toV, 1, n)
  BY DEF BreakSession, Break
<1>2. ZkTurn'
  <2> DEFINE s == Second(kind, verifier.proofs, verifier.e)
             a == First(verifier.proofs)
             k == Key
             t == Trap
  <2>0. Answered \in {<<s>>, <<s, t>>}
    BY DEF Answered
  <2>1. /\ toV = <<>> => toV' = <<>>
        /\ toV = <<k>> => toV' \in {<<>>, <<k>>}
        /\ toV = <<a>> => toV' \in {<<>>, <<a>>}
        /\ toV = <<s>> => toV' \in {<<>>, <<s>>}
        /\ toV = <<t>> => toV' \in {<<>>, <<t>>}
        /\ toV = <<s, t>> => toV' \in {<<>>, <<s>>, <<s, t>>}
    <3> HIDE DEF s, a, k, t
    <3> QED
      BY <1>1, CutQueues, Zenon
  <2>2. toV = Answered => toV' \in {<<>>, <<s>>, Answered}
    BY <2>0, <2>1, Zenon
  <2>3. /\ Answered' = Answered /\ (Stored <=> Stored') /\ kind' = kind
    BY DEF Answered, Stored, SameProver
  <2>4. <<a>> # <<>>
    OBVIOUS
  <2>5. CASE verifier.pc \in {"threw", "new", "ready"}
    BY <2>1, <2>5 DEF ZkInv, ZkTurn
  <2>6. CASE verifier.pc = "first"
    <3>1. verifier.h = Trapdoor /\ toV \in {<<>>, <<a>>} /\ (Stored \/ toV = <<>>)
      BY <2>6 DEF ZkInv, ZkTurn
    <3>2. toV' \in {<<>>, <<a>>} /\ (Stored' \/ toV' = <<>>)
      BY <2>1, <2>3, <3>1, Zenon
    <3> QED
      BY <1>1, <2>3, <2>6, <3>1, <3>2 DEF ZkTurn
  <2>7. CASE verifier.pc = "second"
    <3>1. verifier.h = Trapdoor /\ verifier.a = verifier.proofs /\ toV \in {<<>>, <<s>>, Answered}
      BY <2>7 DEF ZkInv, ZkTurn
    <3>2. toV' \in {<<>>, <<s>>, Answered}
      BY <2>1, <2>2, <3>1, Zenon
    <3> QED
      BY <2>3, <2>7, <3>1, <3>2 DEF ZkTurn
  <2>8. CASE verifier.pc = "trap"
    BY <2>1, <2>3, <2>8 DEF ZkInv, ZkTurn
  <2> QED
    BY <2>5, <2>6, <2>7, <2>8 DEF ZkInv, ZkTurn
<1> QED
  BY <1>1, <1>2 DEF ZkInv, Standing, SameProver

(* Every step of a session of mode ZK or ZKPOK.                            *)
LEMMA ZkStep ==
    ASSUME NumbersReadBack, Documented, mode \in ZkModes, ZkInv, AllTrue, [Next]_vars
    PROVE  ZkInv' /\ AllTrue'
<1>1. CASE PreProcessReceiver \/ Prove \/ ReceiveCommit \/ ReceiveDecommit
  <2>1. verdicts' = verdicts
    BY <1>1 DEF PreProcessReceiver, Prove, ReceiveCommit, ReceiveDecommit
  <2> QED
    BY <1>1, <2>1, ZkStart, ZkReceiveCommit, ZkReceiveDecommit DEF AllTrue
<1>2. CASE ProverReadThrows
  <2>1. /\ mode' = mode /\ kind' = kind /\ verifier' = verifier /\ toV' = toV
        /\ verdicts' = verdicts /\ broken' = broken
    BY <1>2 DEF ProverReadThrows, channel
  <2>2. prover'.pc = "threw"
    BY <1>2 DEF ProverReadThrows, Documented, ProverRecord, ProverFields, Caught
  <2>3. ZkTurn'
    BY <2>1 DEF ZkInv, ZkTurn, Stored, Answered
  <2> QED
    BY <2>1, <2>2, <2>3 DEF AllTrue, ZkInv, Standing
<1>3. CASE PreProcessCommitter \/ VerifyCommit \/ VerifyDecommit
  <2>1. verdicts' = verdicts
    BY <1>3 DEF PreProcessCommitter, VerifyCommit, VerifyDecommit
  <2> QED
    BY <1>3, <2>1, ZkPreProcessCommitter, ZkCommit, ZkDecommit DEF AllTrue
<1>4. CASE VerifySecond \/ VerifyTrap
  BY <1>4, ZkSecond, ZkTrap
<1>5. CASE VerifierReadThrows
  <2>1. verdicts' = verdicts /\ prover' = prover
    BY <1>5 DEF VerifierReadThrows
  <2>2. verifier'.pc = "threw"
    BY <1>5 DEF VerifierReadThrows, Documented, VerifierRecord, VerifierFields, Caught
  <2> QED
    BY <2>1, <2>2 DEF AllTrue, ZkInv, ZkTurn, Standing
<1>6. CASE BreakSession
  BY <1>6, BreakKeeps, ZkBreak DEF AllTrue
<1>7. CASE UNCHANGED vars
  <2>1. /\ mode' = mode /\ kind' = kind /\ verifier' = verifier /\ toV' = toV /\ toP' = toP
        /\ verdicts' = verdicts /\ broken' = broken /\ prover' = prover
    BY <1>7 DEF vars, sessionVars, channel
  <2> QED
    BY <2>1 DEF AllTrue, ZkInv, ZkTurn, Standing, Stored, Answered, ZkNew, ZkAsks, ZkWaits
<1>8. mode # "Sigma" /\ mode # "FiatShamir"
  BY DEF ZkModes
<1>9. ~SigmaProverStep /\ ~SigmaVerifierStep
  BY <1>8 DEF SigmaProverStep, SigmaVerifierStep, ProcessFirstMsg, ProcessSecondMsg,
              ReceiveChallenge, SampleChallenge, SendChallenge, ReceiveFirst, ProcessVerify,
              ReceiveSecond
<1>10. ~FsProve /\ ~FsVerify /\ ~ReceiveProof
  BY <1>8 DEF FsProve, FsVerify, ReceiveProof
<1> QED
  BY <1>1, <1>2, <1>3, <1>4, <1>5, <1>6, <1>7, <1>9, <1>10 DEF Next, ProverStep, VerifierStep

-----------------------------------------------------------------------------
(* Sessions of mode "FiatShamir".                                          *)

(* The prover sends a proof that is honest for the oracle's answer; later  *)
(* answers of the oracle leave it honest.                                  *)
LEMMA FsProofStep ==
    ASSUME Documented, mode = "FiatShamir", FsInv, FsProve
    PROVE  FsInv'
<1>0. prover = [f \in ProverFields |-> prover[f]] /\ prover.proofs \in Nat
  BY DEF Documented, ProverRecord
<1>1. kind' = kind /\ verifier' = verifier /\ prover.pc = "ready"
  BY DEF FsProve, MayCall
<1>2. PICK e \in [1 .. T -> Byte] :
        LET z == computeSecondMsg(FirstMsg.r, e)
        IN  /\ oracle' = Append(oracle, e)
            /\ IF checkChallengeLength(kind, e)
               THEN /\ ToV(<<[t |-> "proof", a |-> FirstMsg.r, e |-> ReplaceColons(e), z |-> z]>>)
                    /\ prover' = [prover EXCEPT !.input = TRUE, !.r = Reset, !.proofs = @ + 1,
                                                !.pc = IF WriteThrows THEN Caught ELSE @]
               ELSE /\ prover' = [prover EXCEPT !.input = TRUE, !.r = FirstMsg.r,
                                                !.proofs = @ + 1, !.pc = Caught]
                    /\ UNCHANGED toV
  BY DEF FsProve
<1> DEFINE n == prover.proofs + 1
           m == [t |-> "proof", a |-> n, e |-> ReplaceColons(e), z |-> Reply(kind, n, e)]
<1>3. computeSecondMsg(FirstMsg.r, e) = Reply(kind, n, e) /\ FirstMsg.r = n
  BY DEF computeSecondMsg, FirstMsg, Reply
<1>4. oracle' = Append(oracle, e) /\ (toV' = toV \/ toV' = toV \o <<m>>)
  BY <1>2, <1>3 DEF ToV
<1>5. prover'.proofs = n /\ prover'.pc \in {"ready", "threw"}
  BY <1>0, <1>1, <1>2 DEF ProverFields, Caught
<1>6. /\ IsSequence(oracle') /\ Len(oracle') = n /\ DOMAIN oracle = 1 .. prover.proofs
      /\ DOMAIN oracle' = 1 .. n /\ oracle'[n] = e
      /\ \A i \in 1 .. prover.proofs : oracle'[i] = oracle[i]
  BY <1>4, SequenceFacts, AppendFacts DEF FsInv
<1>7. m.a = n /\ m.e = ReplaceColons(e) /\ m.z = Reply(kind, n, e)
  OBVIOUS
<1> HIDE DEF m
<1>8. \A w : HonestProof(kind, oracle, w) => HonestProof(kind, oracle', w)
  <2> SUFFICES ASSUME NEW w, HonestProof(kind, oracle, w) PROVE HonestProof(kind, oracle', w)
    OBVIOUS
  <2>1. w.a \in 1 .. prover.proofs /\ w.a \in 1 .. n
    BY <1>0, <1>6 DEF HonestProof
  <2>2. oracle'[w.a] = oracle[w.a]
    BY <1>6, <2>1
  <2> QED
    BY <1>1, <1>6, <2>1, <2>2 DEF HonestProof
<1>9. HonestProof(kind, oracle', m)
  <2>1. n \in 1 .. n
    BY <1>0
  <2> QED
    BY <1>1, <1>6, <1>7, <2>1 DEF HonestProof
<1>10. IsSequence(toV') /\ \A i \in DOMAIN toV' : HonestProof(kind, oracle', toV'[i])
  <2>1. CASE toV' = toV
    BY <1>8, <2>1 DEF FsInv
  <2>2. CASE toV' = toV \o <<m>>
    <3>1. toV' = Append(toV, m)
      BY <2>2, AppendIsConcat DEF FsInv
    <3>2. /\ IsSequence(toV') /\ DOMAIN toV = 1 .. Len(toV) /\ Len(toV) \in Nat
          /\ DOMAIN toV' = 1 .. Len(toV) + 1 /\ toV'[Len(toV) + 1] = m
          /\ \A i \in 1 .. Len(toV) : toV'[i] = toV[i]
      BY <3>1, SequenceFacts, AppendFacts DEF FsInv
    <3>3. \A i \in DOMAIN toV' : i \in DOMAIN toV \/ i = Len(toV) + 1
      BY <3>2
    <3>4. \A i \in DOMAIN toV' : HonestProof(kind, oracle', toV'[i])
      BY <1>8, <1>9, <3>2, <3>3, Zenon DEF FsInv
    <3> QED
      BY <3>2, <3>4
  <2> QED
    BY <1>4, <2>1, <2>2
<1> QED
  BY <1>1, <1>5, <1>6, <1>10 DEF FsInv

(* What is left of a sequence after its head has been read.                *)
LEMMA TailFacts ==
    ASSUME NEW s, IsSequence(s), s # <<>>
    PROVE  /\ IsSequence(Tail(s)) /\ 1 \in DOMAIN s /\ Head(s) = s[1]
           /\ \A i \in DOMAIN Tail(s) : i + 1 \in DOMAIN s /\ Tail(s)[i] = s[i + 1]
<1> DEFINE S == {s[i] : i \in DOMAIN s}
           t == Tail(s)
<1>1. s \in Seq(S) /\ Len(s) \in Nat /\ DOMAIN s = 1 .. Len(s)
  BY DEF IsSequence
<1> HIDE DEF S
<1>2. Len(s) # 0
  <2> DEFINE e == <<>>
  <2>1. e \in Seq(S) /\ Len(e) = 0 /\ s # e
    OBVIOUS
  <2> HIDE DEF e
  <2> SUFFICES ASSUME Len(s) = 0 PROVE s = e
    BY <2>1
  <2> QED
    BY <1>1, <2>1
<1>3. /\ t \in Seq(S) /\ Len(t) = Len(s) - 1 /\ DOMAIN t = 1 .. Len(t) /\ Head(s) = s[1]
      /\ \A i \in 1 .. Len(s) - 1 : t[i] = s[i + 1]
  BY <1>1, <1>2
<1> HIDE DEF t
<1>4. IsSequence(t)
  <2> DEFINE R == {t[i] : i \in DOMAIN t}
  <2>1. Len(t) \in Nat /\ \A i \in 1 .. Len(t) : t[i] \in R
    BY <1>3
  <2> HIDE DEF R
  <2>2. t \in Seq(R)
    BY <1>3, <2>1
  <2> QED
    BY <2>2 DEF R, IsSequence
<1>5. 1 \in DOMAIN s /\ \A i \in DOMAIN t : i + 1 \in DOMAIN s /\ t[i] = s[i + 1]
  BY <1>1, <1>2, <1>3
<1> QED
  BY <1>3, <1>4, <1>5 DEF t

(* What is left of a sequence after a break.                               *)
LEMMA PrefixFacts ==
    ASSUME NEW s, IsSequence(s), NEW n \in 0 .. Len(s)
    PROVE  /\ IsSequence(SubSeq(s, 1, n))
           /\ \A i \in DOMAIN SubSeq(s, 1, n) : i \in DOMAIN s /\ SubSeq(s, 1, n)[i] = s[i]
<1> DEFINE S == {s[i] : i \in DOMAIN s}
           t == SubSeq(s, 1, n)
<1>1. s \in Seq(S) /\ Len(s) \in Nat /\ DOMAIN s = 1 .. Len(s)
  BY DEF IsSequence
<1> HIDE DEF S
<1>2. t \in Seq(S) /\ Len(t) = n /\ \A i \in 1 .. n : t[i] = s[i]
  BY <1>1
<1> HIDE DEF t
<1>3. DOMAIN t = 1 .. n
  BY <1>2
<1>4. IsSequence(t)
  BY <1>2, <1>3 DEF IsSequence
<1>5. \A i \in DOMAIN t : i \in DOMAIN s /\ t[i] = s[i]
  BY <1>1, <1>2, <1>3
<1> QED
  BY <1>4, <1>5 DEF t

(* The verifier recomputes the challenge of an honest proof and accepts.   *)
LEMMA FsReceive ==
    ASSUME Documented, mode = "FiatShamir", FsInv, AllTrue, ReceiveProof
    PROVE  FsInv' /\ AllTrue'
<1>0. verifier = [f \in VerifierFields |-> verifier[f]]
  BY DEF Documented, VerifierRecord
<1> DEFINE m == Head(toV)
<1>1. /\ prover' = prover /\ kind' = kind /\ oracle' = oracle /\ toV' = Tail(toV) /\ toV # <<>>
      /\ verdicts' = Append(verdicts, FsVerdict(m, oracle[m.a]))
      /\ verifier' = [verifier EXCEPT !.pc = "ready", !.e = oracle[m.a]]
  BY DEF ReceiveProof
<1>2. verifier'.pc = "ready"
  BY <1>0, <1>1 DEF VerifierFields
<1>3. IsSequence(toV) /\ \A i \in DOMAIN toV : HonestProof(kind, oracle, toV[i])
  BY DEF FsInv
<1>4. /\ IsSequence(toV') /\ 1 \in DOMAIN toV /\ m = toV[1]
      /\ \A i \in DOMAIN toV' : i + 1 \in DOMAIN toV /\ toV'[i] = toV[i + 1]
  BY <1>1, <1>3, TailFacts
<1>5. \A i \in DOMAIN toV' : HonestProof(kind, oracle, toV'[i])
  BY <1>3, <1>4, Zenon
<1>6. HonestProof(kind, oracle, m)
  BY <1>3, <1>4, Zenon
<1> HIDE DEF m
<1>7. FsVerdict(m, oracle[m.a]) = TRUE
  BY <1>6 DEF HonestProof, FsVerdict, Accepts, Reply
<1>8. AllTrue'
  BY <1>1, <1>7, StillTrue
<1>9. FsInv'
  BY <1>1, <1>2, <1>4, <1>5 DEF FsInv
<1> QED
  BY <1>8, <1>9

(* Every step of a session of mode FiatShamir.                             *)
LEMMA FsStep ==
    ASSUME Documented, mode = "FiatShamir", FsInv, AllTrue, [Next]_vars
    PROVE  FsInv' /\ AllTrue'
<1>1. CASE FsProve
  <2>1. verdicts' = verdicts
    BY <1>1 DEF FsProve
  <2> QED
    BY <1>1, <2>1, FsProofStep DEF AllTrue
<1>2. CASE FsVerify
  <2>1. /\ verdicts' = verdicts /\ prover' = prover /\ kind' = kind /\ oracle' = oracle
        /\ toV' = toV /\ verifier' = [verifier EXCEPT !.pc = "proof", !.proofs = @ + 1]
    BY <1>2 DEF FsVerify, channel
  <2>2. verifier'.pc = "proof"
    BY <2>1 DEF Documented, VerifierRecord, VerifierFields
  <2> QED
    BY <2>1, <2>2 DEF AllTrue, FsInv
<1>3. CASE ReceiveProof
  BY <1>3, FsReceive
<1>4. CASE VerifierReadThrows /\ UNCHANGED oracle
  <2>1. /\ verdicts' = verdicts /\ prover' = prover /\ kind' = kind /\ oracle' = oracle
        /\ toV' = toV
    BY <1>4 DEF VerifierReadThrows, channel
  <2>2. verifier'.pc = "threw"
    BY <1>4 DEF VerifierReadThrows, Documented, VerifierRecord, VerifierFields, Caught
  <2> QED
    BY <2>1, <2>2 DEF AllTrue, FsInv
<1>5. CASE BreakSession /\ UNCHANGED oracle
  <2>1. /\ verdicts' = verdicts /\ prover' = prover /\ verifier' = verifier /\ kind' = kind
        /\ oracle' = oracle
    BY <1>5 DEF BreakSession
  <2>2. PICK n \in 0 .. Len(toV) : toV' = SubSeq(toV, 1, n)
    BY <1>5 DEF BreakSession, Break
  <2>3. /\ IsSequence(toV')
        /\ \A i \in DOMAIN toV' : i \in DOMAIN toV /\ toV'[i] = toV[i]
    BY <2>2, PrefixFacts DEF FsInv
  <2>4. \A i \in DOMAIN toV' : HonestProof(kind, oracle, toV'[i])
    BY <2>3, Zenon DEF FsInv
  <2> QED
    BY <2>1, <2>3, <2>4 DEF AllTrue, FsInv
<1>6. CASE UNCHANGED vars
  <2>1. /\ verdicts' = verdicts /\ prover' = prover /\ verifier' = verifier /\ kind' = kind
        /\ oracle' = oracle /\ toV' = toV
    BY <1>6 DEF vars, sessionVars, channel
  <2> QED
    BY <2>1 DEF AllTrue, FsInv
<1>7. mode # "Sigma" /\ mode \notin ZkModes /\ mode # "ZKPOK"
  BY DEF ZkModes
<1>8. ~SigmaProverStep /\ ~SigmaVerifierStep
  BY <1>7 DEF SigmaProverStep, SigmaVerifierStep, ProcessFirstMsg, ProcessSecondMsg,
              ReceiveChallenge, SampleChallenge, SendChallenge, ReceiveFirst, ProcessVerify,
              ReceiveSecond
<1>9. ~PreProcessReceiver /\ ~Prove /\ ~ReceiveCommit /\ ~ReceiveDecommit
  BY <1>7 DEF PreProcessReceiver, Prove, ReceiveCommit, ReceiveDecommit
<1>10. ~PreProcessCommitter /\ ~VerifyCommit /\ ~VerifyDecommit /\ ~VerifySecond /\ ~VerifyTrap
  BY <1>7 DEF PreProcessCommitter, VerifyCommit, VerifyDecommit, VerifySecond, VerifyTrap
<1>11. ~ProverReadThrows
  BY DEF FsInv, ProverReadThrows
<1> QED
  BY <1>1, <1>2, <1>3, <1>4, <1>5, <1>6, <1>8, <1>9, <1>10, <1>11
     DEF Next, ProverStep, VerifierStep

-----------------------------------------------------------------------------
(* All the modes.                                                          *)

(* The invariant holds at first, whatever the mode.                        *)
LEMMA HonestInit == Init => VerifierRecord /\ HonestInv
<1> SUFFICES ASSUME Init PROVE VerifierRecord /\ HonestInv
  OBVIOUS
<1>1. /\ verdicts = <<>> /\ toV = <<>> /\ toP = <<>> /\ oracle = <<>>
      /\ prover.proofs = 0 /\ prover.step = 1 /\ prover.pc = IF mode \in ZkModes THEN "new" ELSE "ready"
      /\ verifier.proofs = 0 /\ verifier.step = 1 /\ verifier.pc = prover.pc
      /\ verifier = [f \in VerifierFields |-> verifier[f]]
  BY DEF Init, SessionInit, ChannelInit, VerifierFields
<1>2. IsSequence(<<>>) /\ DOMAIN <<>> = {} /\ Len(<<>>) = 0
  BY DEF IsSequence
<1>3. AllTrue
  BY <1>1, <1>2 DEF AllTrue
<1>4. mode = "Sigma" => SigmaInv
  BY <1>1 DEF ZkModes, SigmaInv, SigmaTurn, SigmaProver, SigmaAsks
<1>5. mode \in ZkModes => ZkInv
  BY <1>1 DEF ZkInv, ZkTurn, ZkNew
<1>6. mode = "FiatShamir" => FsInv
  BY <1>1, <1>2 DEF FsInv, ZkModes
<1>7. mode \in {"Sigma", "FiatShamir"} \cup ZkModes
  BY ModesAssumption DEF Init, ZkModes
<1>8. VerifierRecord
  BY <1>1 DEF VerifierRecord
<1> QED
  BY <1>3, <1>4, <1>5, <1>6, <1>7, <1>8 DEF HonestInv

(* Every step keeps it.                                                    *)
LEMMA HonestStep ==
    ASSUME ProverRecord, VerifierRecord, HonestInv, [Next]_vars
    PROVE  HonestInv'
<1>1. mode' = mode /\ usage' = usage
  BY ProverKeepsVerifier, VerifierKeepsProver, BreakKeeps
     DEF SameProver, Next, vars, sessionVars
<1> SUFFICES ASSUME usage = "documented"
             PROVE  AllTrue' /\ (mode = "Sigma" => SigmaInv') /\ (mode \in ZkModes => ZkInv')
                    /\ (mode = "FiatShamir" => FsInv')
  BY <1>1 DEF HonestInv
<1>2. Documented
  BY DEF Documented
<1>3. mode = "Sigma" => AllTrue' /\ SigmaInv'
  BY <1>2, SigmaStep DEF HonestInv
<1>4. mode \in ZkModes => AllTrue' /\ ZkInv'
  BY <1>2, NumbersReadBackAssumption, ZkStep DEF HonestInv
<1>5. mode = "FiatShamir" => AllTrue' /\ FsInv'
  BY <1>2, FsStep DEF HonestInv
<1> QED
  BY <1>3, <1>4, <1>5 DEF HonestInv

(* Used as documented, verify never rejects a proof of an honest prover in *)
(* any of the four protocols, over any sigma protocol, for any soundness   *)
(* parameter, order, number of proofs and ids, and with breaks at any      *)
(* point; and neither object dereferences NULL.  The inductive invariant   *)
(* pairs what each object holds with what is under way to the other.       *)
THEOREM HonestProofAcceptedCorrect == Spec => []HonestProofAccepted
<1> DEFINE Inv == (Left /\ Comes) /\ VerifierRecord /\ HonestInv
<1>1. Init => Inv
  BY AnswerInit, HonestInit
<1>2. Inv /\ [Next]_vars => Inv'
  <2> SUFFICES ASSUME Inv, [Next]_vars PROVE Inv'
    OBVIOUS
  <2>1. (Left /\ Comes)' /\ VerifierRecord'
    BY AnswerStep, VerifierRecordStep
  <2>2. HonestInv'
    BY HonestStep DEF Left
  <2> QED
    BY <2>1, <2>2
<1>3. Inv => HonestProofAccepted
  <2> SUFFICES ASSUME HonestInv, usage = "documented"
               PROVE  /\ \A i \in DOMAIN verdicts : verdicts[i]
                      /\ prover.pc # "crashed" /\ verifier.pc # "crashed"
    BY DEF HonestProofAccepted
  <2>1. \A i \in DOMAIN verdicts : verdicts[i]
    BY Zenon DEF HonestInv, AllTrue
  <2>2. mode = "Sigma" => prover.pc # "crashed" /\ verifier.pc # "crashed"
    BY DEF HonestInv, SigmaInv, SigmaTurn, SigmaProver
  <2>3. mode \in ZkModes => prover.pc # "crashed" /\ verifier.pc # "crashed"
    BY DEF HonestInv, ZkInv, ZkTurn
  <2>4. mode = "FiatShamir" => prover.pc # "crashed" /\ verifier.pc # "crashed"
    BY DEF HonestInv, FsInv
  <2>5. prover.pc # "crashed" /\ verifier.pc # "crashed"
    BY <2>2, <2>3, <2>4 DEF HonestInv
  <2> QED
    BY <2>1, <2>5
<1> QED
  BY <1>1, <1>2, <1>3, PTL DEF Spec
=============================================================================
