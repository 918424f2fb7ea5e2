---------------------------- MODULE Commitments ----------------------------
(***************************************************************************)
(* The commitment schemes: a committer and a receiver object that hold any *)
(* number of commitments at a time, each under an id.                      *)
(*                                                                         *)
(*   Pedersen        on numbers (CommitmentSchemePedersen.cpp)             *)
(*   PedersenHash    on byte arrays (CommitmentSchemePedersenHash.cpp)     *)
(*   ElGamal         on group elements,                                    *)
(*   ElGamalBytes    on byte arrays (CommitmentSchemeElGamal.cpp)          *)
(*   ElGamalHash     on byte arrays (CommitmentSchemeElGamalHash.cpp)      *)
(*   SimpleHash      on byte arrays (CommitmentSchemeSimpleHash.cpp)       *)
(*   PedersenProofs, ElGamalProofs                                         *)
(*                   the WithProofs classes, which can also prove what     *)
(*                   they committed to; CmtEquivocal decommits so          *)
(*                                                                         *)
(* The two programs agree on the kind of the next call, and not on its id. *)
(* The channel is a FifoChannel; ZkSession has the faults.                 *)
(***************************************************************************)
EXTENDS Encryption, ByteStrings, ColonStrings

CONSTANTS
    Schemes,
    Groups,        \* the numbers in the string of a group element: 1 (Zp), 2 (EC)
    Ids,
    Numbers, Elements, Texts,    \* what may be committed to
    Nonces,        \* the n random bytes of SimpleHash
    Kdf(_, _),     \* deriveKey of an element, of a length
    Xor(_, _),     \* ^ on bytes
    Hash(_),       \* the CryptographicHash of a byte array
    MaxCalls,      \* the bound on the calls of the committer
    Null,          \* NULL: the decommitment is rejected
    Throws, Aborts \* the call throws, or ends the process

VARIABLES
    scheme, group,
    committer,     \* pc, h, commitmentMap and the statement it proves
    receiver,      \* pc, h, commitmentMap and the statement it verifies
    toR, toC,      \* messages under way
    calls,         \* calls of the committer so far
    result         \* what receiveDecommitment or verifyCommittedValue returned

cmtVars == <<scheme, group, committer, receiver, toR, toC, calls, result>>

IsPedersen == scheme \in {"Pedersen", "PedersenHash", "PedersenProofs"}
OnElements == scheme \in {"ElGamal", "ElGamalProofs"}
WithProofs == scheme \in {"PedersenProofs", "ElGamalProofs"}

Inputs ==
    IF scheme \in {"Pedersen", "PedersenProofs"} THEN Numbers
    ELSE IF OnElements THEN Elements ELSE Texts

Randomness == IF scheme = "SimpleHash" THEN Nonces ELSE Zq

-----------------------------------------------------------------------------
(* What a commitment to x with randomness r is, and which x are refused.   *)

XorBytes(a, b) == [i \in DOMAIN b |-> Xor(a[i], b[i])]

InOrder(x) == 0 <= x /\ x <= q

(* Mutant: the generators are swapped.                                     *)
PedersenCommitMut(h, x, r) == Mul(Exp(g, x), Exp(h, r))

PedersenCommit(h, x, r) == Mul(Exp(g, r), Exp(h, x))

(* abs of decodeBigInteger of the hash.                                    *)
HashNumber(x) == Abs(decodeBigInteger(Hash(x)))

ElGamalBytesCommit(h, x, r) == <<Exp(g, r), XorBytes(Kdf(Exp(h, r), Len(x)), x)>>

SimpleHashCommit(x, r) == Hash(r \o x)

generateCommitment(h, x, r) ==
    CASE scheme \in {"Pedersen", "PedersenProofs"} -> PedersenCommit(h, x, r)
      [] scheme = "PedersenHash" -> PedersenCommit(h, HashNumber(x), r)
      [] OnElements -> ElGamalEncrypt(h, x, r)
      [] scheme = "ElGamalBytes" -> ElGamalBytesCommit(h, x, r)
      [] scheme = "ElGamalHash" -> ElGamalBytesCommit(h, Hash(x), r)
      [] scheme = "SimpleHash" -> SimpleHashCommit(x, r)

(* generateCommitmentMsg throws on the other inputs; nothing has changed.  *)
Accepted(x) ==
    CASE scheme \in {"Pedersen", "PedersenProofs"} -> InOrder(x)
      [] scheme = "PedersenHash" -> InOrder(HashNumber(x))
      [] OTHER -> TRUE

-----------------------------------------------------------------------------
(* The messages as strings.  SimpleHash uses a binary archive of boost,    *)
(* which gives back what was put in.                                       *)

CipherString(c) ==
    IF OnElements THEN ElementString(c[2], group) ELSE BytesString(c[2])

commitmentString(id, c) ==
    Decimal(id) \o <<Separator>> \o
    (IF IsPedersen THEN ElementString(c, group)
     ELSE ElementString(c[1], group) \o <<Separator>> \o CipherString(c))

(* ElGamalOnByteArraySendableData::initFromString on what follows the id.  *)
(* Without bytes the object keeps what it was made with.  A number that is *)
(* no number throws; the wrong number of parts fails an assertion.         *)
initCipher(parts) ==
    CASE Len(parts) = 1 -> <<g, <<>>>>
      [] Len(parts) = 2 /\ group = 1 -> <<parts[1][1].number, Bytes(parts[2])>>
      [] Len(parts) = 3 /\ group = 2 -> <<parts[1][1].number, Bytes(parts[3])>>
      [] Len(parts) = 3 /\ group = 1 -> Throws
      [] OTHER -> Aborts

initCommitment(s) ==
    LET parts == explode(s)
    IN  [id |-> parts[1][1].number,
         c  |-> IF IsPedersen THEN parts[2][1].number
                ELSE IF OnElements THEN <<parts[2][1].number, parts[2 + group][1].number>>
                ELSE initCipher(Tail(parts))]

XString(x) == IF OnElements THEN ElementString(x, group) ELSE BytesString(x)

decommitmentString(x, r) ==
    IF scheme \in {"Pedersen", "PedersenProofs"} THEN Decimal(x) \o <<Separator>> \o Decimal(r)
    ELSE IF scheme = "PedersenHash" THEN Decimal(r) \o <<Separator>> \o BytesString(x)
    ELSE XString(x) \o <<Separator>> \o Decimal(r)

(* CmtElGamalDecommitmentMessage::initFromString puts a ':' back between   *)
(* two parts of x.  With any other number of parts x and r stay NULL, and  *)
(* are dereferenced.                                                       *)
initElGamal(parts) ==
    LET k == Len(parts)
        first == IF k = 3 THEN parts[1] \o <<Separator>> \o parts[2] ELSE parts[1]
    IN  IF k \notin {2, 3} THEN Aborts
        ELSE [x |-> IF OnElements THEN first[1].number ELSE Bytes(first),
              r |-> parts[k][1].number]

initPedersenHash(parts) ==
    IF Len(parts) # 2 THEN Aborts
    ELSE [x |-> Bytes(parts[2]), r |-> parts[1][1].number]

initDecommitment(s) ==
    LET parts == explode(s)
    IN  CASE scheme \in {"Pedersen", "PedersenProofs"} ->
                 [x |-> parts[1][1].number, r |-> parts[2][1].number]
          [] scheme = "PedersenHash" -> initPedersenHash(parts)
          [] OTHER -> initElGamal(parts)

-----------------------------------------------------------------------------
(* verifyDecommitment, against the commitment c.                           *)

PedersenOpens(h, c, x, r) == InOrder(x) /\ c = PedersenCommit(h, x, r)

ElGamalOpens(h, c, x, r) == c[1] = Exp(g, r) /\ c[2] = Mul(Exp(h, r), x)

ElGamalBytesOpens(h, c, x, r) ==
    /\ Len(x) = Len(c[2])
    /\ c[1] = Exp(g, r) /\ c[2] = XorBytes(Kdf(Exp(h, r), Len(x)), x)

ElGamalHashOpens(h, c, x, r) == c = ElGamalBytesCommit(h, Hash(x), r)

SimpleHashOpens(c, x, r) == c = SimpleHashCommit(x, r)

Opens(h, c, x, r) ==
    CASE scheme \in {"Pedersen", "PedersenProofs"} -> PedersenOpens(h, c, x, r)
      [] scheme = "PedersenHash" -> PedersenOpens(h, c, HashNumber(x), r)
      [] OnElements -> ElGamalOpens(h, c, x, r)
      [] scheme = "ElGamalBytes" -> ElGamalBytesOpens(h, c, x, r)
      [] scheme = "ElGamalHash" -> ElGamalHashOpens(h, c, x, r)
      [] scheme = "SimpleHash" -> SimpleHashOpens(c, x, r)

-----------------------------------------------------------------------------
Empty == [id \in Ids |-> Null]

CmtInit ==
    /\ scheme \in Schemes /\ group \in Groups
    /\ committer = [pc |-> IF scheme = "SimpleHash" THEN "ready" ELSE "new",
                    h |-> Null, commitmentMap |-> Empty, proves |-> Null]
    /\ receiver = [pc |-> committer.pc, h |-> Null, commitmentMap |-> Empty, verifies |-> Null]
    /\ toR = <<>> /\ toC = <<>> /\ calls = 0 /\ result = Null

(* The constructors: the receiver of Pedersen chooses h, with a trapdoor;  *)
(* the committer of ElGamal chooses it, with a private key.                *)
PedersenReceiverPreProcess(trapdoor) ==
    /\ IsPedersen /\ receiver.pc = "new"
    /\ receiver' = [receiver EXCEPT !.pc = "ready", !.h = Exp(g, trapdoor)]
    /\ toC' = Append(toC, receiver'.h)
    /\ UNCHANGED <<scheme, group, committer, toR, calls, result>>

PedersenCommitterPreProcess ==
    /\ IsPedersen /\ committer.pc = "new" /\ toC # <<>>
    /\ committer' = [committer EXCEPT !.pc = "ready", !.h = Head(toC)]
    /\ toC' = Tail(toC)
    /\ UNCHANGED <<scheme, group, receiver, toR, calls, result>>

ElGamalCommitterPreProcess(privateKey) ==
    /\ ~IsPedersen /\ committer.pc = "new"
    /\ committer' = [committer EXCEPT !.pc = "ready", !.h = Exp(g, privateKey)]
    /\ toR' = Append(toR, [call |-> "key", text |-> committer'.h])
    /\ UNCHANGED <<scheme, group, receiver, toC, calls, result>>

ElGamalReceiverPreProcess ==
    /\ ~IsPedersen /\ receiver.pc = "new" /\ toR # <<>>
    /\ receiver' = [receiver EXCEPT !.pc = "ready", !.h = Head(toR).text]
    /\ toR' = Tail(toR)
    /\ UNCHANGED <<scheme, group, committer, toC, calls, result>>

(* of is the entry of the committer's map that a message was made from,    *)
(* and id its id.                                                          *)
Send(call, text, id, of) ==
    toR' = Append(toR, [call |-> call, text |-> text, id |-> id, of |-> of])

Calls == committer.pc = "ready" /\ calls < MaxCalls /\ calls' = calls + 1

Arrived(call) == receiver.pc = "ready" /\ toR # <<>> /\ Head(toR).call = call

(* Mutant: a second commit under an id keeps the first.                    *)
commitMut(x, id) ==
    /\ Calls /\ Accepted(x)
    /\ \E r \in Randomness :
         LET c == generateCommitment(committer.h, x, r)
             values == [x |-> x, r |-> r, c |-> c]
         IN  /\ committer' = [committer EXCEPT !.commitmentMap[id] = IF @ = Null THEN values ELSE @]
             /\ Send("commit", IF scheme = "SimpleHash" THEN [id |-> id, c |-> c]
                               ELSE commitmentString(id, c), id, values)
    /\ UNCHANGED <<scheme, group, receiver, toC, result>>

(* A second commit under an id replaces the first.                         *)
commit(x, id) ==
    /\ Calls /\ Accepted(x)
    /\ \E r \in Randomness :
         LET c == generateCommitment(committer.h, x, r)
             values == [x |-> x, r |-> r, c |-> c]
         IN  /\ committer' = [committer EXCEPT !.commitmentMap[id] = values]
             /\ Send("commit", IF scheme = "SimpleHash" THEN [id |-> id, c |-> c]
                               ELSE commitmentString(id, c), id, values)
    /\ UNCHANGED <<scheme, group, receiver, toC, result>>

receiveCommitment ==
    /\ Arrived("commit")
    /\ LET text == Head(toR).text
           msg == IF scheme = "SimpleHash" THEN text ELSE initCommitment(text)
       IN  receiver' = CASE msg.c = Throws -> receiver
                         [] msg.c = Aborts -> [receiver EXCEPT !.pc = "dead"]
                         [] OTHER -> [receiver EXCEPT !.commitmentMap[msg.id] =
                                                [c |-> msg.c, of |-> Head(toR).of]]
    /\ toR' = Tail(toR)
    /\ UNCHANGED <<scheme, group, committer, toC, calls, result>>

(* An id without a commitment dereferences a NULL pointer: no program      *)
(* makes that call.                                                        *)
decommit(id) ==
    /\ Calls /\ committer.commitmentMap[id] # Null
    /\ LET values == committer.commitmentMap[id]
       IN  Send("decommit", IF scheme = "SimpleHash" THEN [x |-> values.x, r |-> values.r]
                            ELSE decommitmentString(values.x, values.r), id, values)
    /\ UNCHANGED <<scheme, group, committer, receiver, toC, result>>

(* The verdict on a message that was read as d, for the commitment held    *)
(* under an id: verifyDecommitment throws when there is none.              *)
Verdict(held, d) ==
    CASE scheme = "PedersenHash" /\ d = Aborts -> Aborts
      [] held = Null -> Throws
      [] held # Null /\ d = Aborts -> Aborts
      [] OTHER -> IF Opens(receiver.h, held.c, d.x, d.r) THEN d.x ELSE Null

receiveDecommitment(id) ==
    /\ Arrived("decommit")
    /\ LET text == Head(toR).text
           held == receiver.commitmentMap[id]
           out == Verdict(held, IF scheme = "SimpleHash" THEN text ELSE initDecommitment(text))
       IN  /\ result' = [call |-> "decommit", own |-> Head(toR).id = id,
                         opened |-> Head(toR).of, held |-> held, out |-> out]
           /\ receiver' = [receiver EXCEPT !.pc = IF out = Aborts THEN "dead" ELSE @]
    /\ toR' = Tail(toR)
    /\ UNCHANGED <<scheme, group, committer, toC, calls>>

-----------------------------------------------------------------------------
(* The proofs of the WithProofs classes, as ZkSession shows them from      *)
(* outside: both parties go through them together.                         *)

ValueString(x) == IF OnElements THEN ElementString(x, group) ELSE Decimal(x)

proveCommittedValue(id) ==
    /\ WithProofs /\ Calls /\ committer.commitmentMap[id] # Null
    /\ LET values == committer.commitmentMap[id]
       IN  /\ Send("value", ValueString(values.x), id, values)
           /\ committer' = [committer EXCEPT !.pc = "prove",
                                             !.proves = [call |-> "value", id |-> id, of |-> values]]
    /\ UNCHANGED <<scheme, group, receiver, toC, result>>

(* A missing commitment is dereferenced here.                              *)
verifyCommittedValue(id) ==
    /\ Arrived("value")
    /\ LET held == receiver.commitmentMap[id]
       IN  receiver' = IF held = Null THEN [receiver EXCEPT !.pc = "dead"]
                       ELSE [receiver EXCEPT !.pc = "verify",
                                !.verifies = [call |-> "value", id |-> id, held |-> held,
                                              x |-> Head(toR).text[1].number]]
    /\ toR' = Tail(toR)
    /\ UNCHANGED <<scheme, group, committer, toC, calls, result>>

(* The ElGamal classes prove that they know the private key, whatever the  *)
(* id is.                                                                  *)
proveKnowledge(id) ==
    /\ WithProofs /\ Calls
    /\ IsPedersen => committer.commitmentMap[id] # Null
    /\ committer' = [committer EXCEPT !.pc = "prove",
                        !.proves = [call |-> "knowledge", id |-> id,
                                    of |-> committer.commitmentMap[id]]]
    /\ UNCHANGED <<scheme, group, receiver, toR, toC, result>>

verifyKnowledge(id) ==
    /\ WithProofs /\ receiver.pc = "ready" /\ toR = <<>>
    /\ committer.pc = "prove" /\ committer.proves.call = "knowledge"
    /\ LET held == receiver.commitmentMap[id]
       IN  receiver' = IF IsPedersen /\ held = Null THEN [receiver EXCEPT !.pc = "dead"]
                       ELSE [receiver EXCEPT !.pc = "verify",
                                !.verifies = [call |-> "knowledge", id |-> id, held |-> held]]
    /\ UNCHANGED <<scheme, group, committer, toR, toC, calls, result>>

(* An honest proof of the statement that is verified is accepted, but for  *)
(* those of SigmaDH, with which ElGamal proves the value.  A proof of      *)
(* another statement may be accepted too: the challenge may be 0.          *)
zkVerdicts ==
    LET p == committer.proves
        v == receiver.verifies
        same == IF p.call = "knowledge" /\ OnElements THEN TRUE ELSE p.of.c = v.held.c
    IN  IF same /\ (p.call = "knowledge" \/ IsPedersen) THEN {TRUE} ELSE BOOLEAN

zkProof ==
    /\ committer.pc = "prove" /\ receiver.pc = "verify"
    /\ committer' = [committer EXCEPT !.pc = "ready", !.proves = Null]
    /\ receiver' = [receiver EXCEPT !.pc = "ready", !.verifies = Null]
    /\ \E verdict \in zkVerdicts :
         result' = [call |-> committer.proves.call,
                    own |-> committer.proves.id = receiver.verifies.id,
                    opened |-> committer.proves.of,
                    held |-> receiver.verifies.held,
                    out |-> IF committer.proves.call = "knowledge" THEN verdict
                            ELSE IF verdict THEN receiver.verifies.x ELSE Null]
    /\ UNCHANGED <<scheme, group, toR, toC, calls>>

(* The prover of SigmaDH refuses a challenge that has lost a byte; the     *)
(* verifier goes on waiting.                                               *)
zkThrows ==
    /\ committer.pc = "prove" /\ OnElements /\ committer.proves.call = "value"
    /\ committer' = [committer EXCEPT !.pc = "ready", !.proves = Null]
    /\ receiver.pc = "verify" /\ receiver' = [receiver EXCEPT !.pc = "stuck"]
    /\ UNCHANGED <<scheme, group, toR, toC, calls, result>>

-----------------------------------------------------------------------------
CommitterStep ==
    \/ PedersenCommitterPreProcess
    \/ \E k \in Zq : ElGamalCommitterPreProcess(k)
    \/ \E id \in Ids : decommit(id) \/ proveCommittedValue(id) \/ proveKnowledge(id)
    \/ \E x \in Inputs, id \in Ids : commit(x, id)

ReceiverStep ==
    \/ ElGamalReceiverPreProcess
    \/ \E t \in Zq : PedersenReceiverPreProcess(t)
    \/ receiveCommitment
    \/ \E id \in Ids : receiveDecommitment(id) \/ verifyCommittedValue(id) \/ verifyKnowledge(id)

CmtNext == CommitterStep \/ ReceiverStep \/ zkProof \/ zkThrows

CmtSpec == CmtInit /\ [][CmtNext]_cmtVars

-----------------------------------------------------------------------------
(* The bytes of the messages of a commitment leave the ':' of the messages *)
(* alone.                                                                  *)
Plain(b) == b # <<>> /\ \A i \in DOMAIN b : b[i] # Colon
Clean(values) ==
    CASE scheme = "PedersenHash" -> Plain(values.x)
      [] scheme \in {"ElGamalBytes", "ElGamalHash"} -> Plain(values.x) /\ Plain(values.c[2])
      [] OTHER -> TRUE

IsValue(out) == out \notin {Null, Throws, Aborts}
PerfectlyBinding == OnElements \/ scheme = "ElGamalBytes"

(* What the receiver accepts is what the committer committed to last under *)
(* the id, however many commitments are open, used again or opened in      *)
(* another order than the receiver asks for.  The decommitment of the id   *)
(* is accepted, if no byte is ':' (with one the call may reject, throw or  *)
(* abort); one that belongs to another id only when the two commitments    *)
(* are the same, and then with the same value in the perfectly binding     *)
(* classes.  An honest proof of Pedersen is accepted.                      *)
OpensCommitted ==
    result # Null =>
        /\ result.own /\ (result.call = "decommit" \/ IsPedersen) =>
             CASE result.call = "decommit" -> Clean(result.opened) => result.out = result.opened.x
               [] result.call = "value" -> result.out = result.opened.x
               [] result.call = "knowledge" -> result.out
        /\ result.call = "decommit" /\ IsValue(result.out) /\ Clean(result.opened) =>
             /\ result.out = result.opened.x
             /\ result.opened.c = result.held.of.c
             /\ PerfectlyBinding => result.out = result.held.of.x

(* The commitments of the classes that call themselves perfectly hiding    *)
(* say nothing of the value: for every value that may be committed to,     *)
(* some randomness gives the same message.                                 *)
CommitmentHides ==
    \A i \in DOMAIN toR :
        IsPedersen /\ toR[i].call = "commit" =>
            \A x \in Inputs : Accepted(x) =>
                \E r \in Zq : commitmentString(toR[i].id, generateCommitment(committer.h, x, r))
                                  = toR[i].text
=============================================================================
