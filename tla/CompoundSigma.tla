--------------------------- MODULE CompoundSigma ----------------------------
(***************************************************************************)
(* Compound sigma protocols over the protocols of SigmaProtocols: the AND  *)
(* of statements, the OR of two, and k of n (SigmaProtocol{And,OrTwo,      *)
(* OrMultiple}.cpp), through several proofs with the same objects.         *)
(*                                                                         *)
(* A challenge is its bytes here: the OR protocols make the challenges of  *)
(* their parts by XOR, and as values of a polynomial over GF(2^t), and the *)
(* bytes of a field element are as many as it needs.  An element of the    *)
(* field is the number that its bits are.                                  *)
(***************************************************************************)
EXTENDS SigmaProtocols, ByteStrings, FiniteSets

CONSTANTS
    Compounds,          \* "And", "OrTwo", "OrMultiple"
    Lens,               \* how many statements SigmaOrMultiple is given
    PartKinds,          \* the kinds of protocols that are put together
    Proven(_),          \* a statement of a kind with its witness
    Claimed(_),         \* a statement that is simulated, true or not
    PartCoins,          \* the random pairs of provers and simulators
    TBytes,             \* t / 8
    XorByte(_, _),
    FieldAdd(_, _), FieldMul(_, _),     \* of GF(2^t)
    MaxProofs           \* bound: proofs with the same objects

Field == 0 .. Base ^ TBytes - 1

ASSUME CompoundAssumption ==
    /\ Compounds \subseteq {"And", "OrTwo", "OrMultiple"}
    /\ Lens \subseteq 1 .. Base ^ TBytes - 1        \* an index is an element other than 0
    /\ PartKinds \subseteq Kinds
    /\ Base ^ TBytes < q                            \* check_soundness of every part
    /\ \A k \in PartKinds : Relation(k, Proven(k).x, Proven(k).w)

-----------------------------------------------------------------------------
(* Bytes, elements and polynomials.                                        *)

Bytes == [1 .. TBytes -> Byte]

(* "modify the challenge to be positive"                                   *)
PositiveBytes == {b \in Bytes : 2 * b[TBytes] < Base}

XorBytes(a, b) == [i \in DOMAIN a |-> XorByte(a[i], b[i])]

convertBytesToGF2E(b) == Unsigned(b)

(* Zero has no bytes.                                                      *)
convertElementToBytes(u) ==
    IF u = 0 THEN <<>> ELSE [i \in 1 .. Digits(u) |-> (u \div Base ^ (i - 1)) % Base]

(* A polynomial is the sequence of its coefficients.                       *)
Polynomials(deg) == [1 .. deg + 1 -> Field]

eval(poly, x) ==
    LET horner[j \in 1 .. Len(poly) + 1] ==
            IF j > Len(poly) THEN 0 ELSE FieldAdd(poly[j], FieldMul(x, horner[j + 1]))
    IN  horner[1]

deg(poly) ==
    CHOOSE d \in -1 .. Len(poly) - 1 :
        /\ d >= 0 => poly[d + 1] # 0
        /\ \A j \in d + 2 .. Len(poly) : poly[j] = 0

(* Through (0, e) and (index, element), for as many elements as indexes.   *)
interpolate(e, elements, indexes) ==
    CHOOSE poly \in Polynomials(Len(indexes)) :
        /\ eval(poly, 0) = convertBytesToGF2E(e)
        /\ \A j \in DOMAIN indexes : eval(poly, indexes[j]) = elements[j]

(* Mutant: the degree is not compared.                                     *)
checkPolynomialValidityMut(poly, k, e, es) ==
    /\ eval(poly, 0) = convertBytesToGF2E(e)
    /\ \A i \in DOMAIN es : eval(poly, i) = convertBytesToGF2E(es[i])

checkPolynomialValidity(poly, k, e, es) ==
    /\ deg(poly) = Len(es) - k
    /\ eval(poly, 0) = convertBytesToGF2E(e)
    /\ \A i \in DOMAIN es : eval(poly, i) = convertBytesToGF2E(es[i])

(* The indexes of a set in ascending order.                                *)
Ascending(S) ==
    CHOOSE s \in [1 .. Cardinality(S) -> S] : \A i, j \in DOMAIN s : i < j => s[i] < s[j]

-----------------------------------------------------------------------------
VARIABLES
    compound,       \* the protocol
    parts,          \* the statements with the kind of their protocol
    real,           \* the indexes of the statements that are proved (I)
    stage,          \* how far the proof has come
    maker,          \* "prover" or "simulator"
    partCoins,      \* the random values of the provers
    firsts,         \* the first messages
    elements,       \* SigmaOrMultipleProverComputation's elements
    chall,          \* the verifier's challenge
    poly,           \* the polynomial of the second message
    challenges,     \* the challenge of every part
    seconds,        \* the second message of every part
    proofs,         \* proofs done
    accepted        \* what verify returned

partVars == <<compound, parts, real>>
compoundVars == <<partVars, stage, maker, partCoins, firsts, elements, chall, poly,
                  challenges, seconds, proofs, accepted>>

Indexes == DOMAIN parts
n_k == Cardinality(Indexes \ real)
kindOf(i) == parts[i].k

(* Of every object: nothing is computed yet.                               *)
NothingComputed ==
    /\ maker = "nobody"
    /\ partCoins = <<>> /\ firsts = <<>> /\ elements = <<>> /\ chall = <<>> /\ poly = <<>>
    /\ challenges = <<>> /\ seconds = <<>> /\ proofs = 0 /\ accepted = FALSE

CompoundInit ==
    /\ compound \in Compounds
    /\ \E n \in IF compound = "OrMultiple" THEN Lens ELSE {2} :
          /\ real \in CASE compound = "And"        -> {1 .. n}
                        [] compound = "OrTwo"      -> {{1}, {2}}
                        [] compound = "OrMultiple" -> SUBSET (1 .. n) \ {{}}
          /\ \E ks \in [1 .. n -> PartKinds] :
                parts = [i \in 1 .. n |-> IF i \in real THEN Proven(ks[i]) ELSE Claimed(ks[i])]
    /\ stage = "ready"
    /\ NothingComputed

-----------------------------------------------------------------------------
(* The parts.  A prover or simulator of every kind but SigmaDlog demands   *)
(* t / 8 bytes; SigmaDlog decodes them first, which reads the first byte.  *)
partFault(k, b) ==
    IF k = "Dlog" THEN IF b = <<>> THEN "crashed" ELSE "none"
    ELSE IF Len(b) # TBytes THEN "threw" ELSE "none"

(* How the loop over the parts S ends: at the first that fails.            *)
loopFault(S, es) ==
    LET failing == {i \in S : partFault(kindOf(i), es[i]) # "none"}
    IN  IF failing = {} THEN "none"
        ELSE LET i == CHOOSE i \in failing : \A j \in failing : i <= j
             IN  partFault(kindOf(i), es[i])

simulatedFirst(i, e, z) == SimulatedMsg(kindOf(i), parts[i].x, decodeBigInteger(e), z)

(* Mutant: the index of Q(0) = e is counted.                               *)
restChallengeMut(Q, i) == convertElementToBytes(eval(Q, i - 1))

(* getRestChallenges, for one index.                                       *)
restChallenge(Q, i) == convertElementToBytes(eval(Q, i))

(* SigmaOrMultiple clears the sign bit of what it samples, SigmaAnd of the *)
(* challenge; SigmaOrTwo takes all bits.                                   *)
sampled == IF compound = "OrTwo" THEN Bytes ELSE PositiveBytes

-----------------------------------------------------------------------------
(* The prover simulates the parts it has no witness for.  elements, a      *)
(* member, grows with every proof.                                         *)
CompoundFirstMsg ==
    /\ stage \in {"ready", "done"}
    /\ proofs < MaxProofs
    /\ partCoins' \in [real -> PartCoins]
    /\ \E e \in [Indexes \ real -> sampled], z \in [Indexes \ real -> PartCoins] :
          LET notI == Ascending(Indexes \ real) IN
          /\ challenges' = [i \in Indexes |-> IF i \in real THEN <<>> ELSE e[i]]
          /\ seconds' = [i \in Indexes |-> IF i \in real THEN <<0, 0>> ELSE z[i]]
          /\ firsts' = [i \in Indexes |-> IF i \in real
                                          THEN FirstMsg(kindOf(i), parts[i].x, partCoins'[i])
                                          ELSE simulatedFirst(i, e[i], z[i])]
          /\ elements' = IF compound = "OrMultiple"
                         THEN elements \o [j \in DOMAIN notI |-> convertBytesToGF2E(e[notI[j]])]
                         ELSE elements
    /\ maker' = "prover"
    /\ proofs' = proofs + 1
    /\ stage' = "first"
    /\ UNCHANGED <<partVars, chall, poly, accepted>>

CompoundSampleChallenge ==
    /\ stage = "first"
    /\ chall' \in sampled
    /\ stage' = "challenged"
    /\ UNCHANGED <<partVars, maker, partCoins, firsts, elements, poly, challenges, seconds,
                   proofs, accepted>>

(* Every real part answers: the verifier's challenge, the XOR of it and    *)
(* the simulated part's, or the value of the polynomial.                   *)
CompoundSecondMsg ==
    /\ stage = "challenged"
    /\ poly' = IF compound = "OrMultiple"
               THEN interpolate(chall, elements, Ascending(Indexes \ real)) ELSE <<>>
    /\ LET answered(i) == CASE compound = "And"        -> chall
                            [] compound = "OrTwo"      -> XorBytes(chall, challenges[3 - i])
                            [] compound = "OrMultiple" -> restChallenge(poly', i)
       IN  challenges' = [i \in Indexes |-> IF i \in real THEN answered(i) ELSE challenges[i]]
    /\ LET fault == loopFault(real, challenges') IN
       IF fault # "none"
       THEN stage' = fault /\ UNCHANGED <<seconds, partCoins>>
       ELSE /\ seconds' = [i \in Indexes |->
                  IF i \in real
                  THEN SecondMsg(kindOf(i), decodeBigInteger(challenges'[i]), parts[i].w, partCoins[i])
                  ELSE seconds[i]]
            /\ partCoins' = <<>>
            /\ stage' = "answered"
    /\ UNCHANGED <<partVars, maker, firsts, elements, chall, proofs, accepted>>

(* The simulator of the whole, and the setChallenge before verify.  Its    *)
(* polynomial passes through the first n - k parts; its elements are local.*)
CompoundSimulate ==
    /\ stage = "ready"
    /\ chall' \in sampled
    /\ LET free == IF compound = "OrTwo" THEN {1} ELSE IF compound = "And" THEN {} ELSE 1 .. n_k IN
       \E e \in [free -> sampled], z \in [Indexes -> PartCoins] :
          /\ poly' = IF compound = "OrMultiple"
                     THEN interpolate(chall', [j \in free |-> convertBytesToGF2E(e[j])], Ascending(free))
                     ELSE <<>>
          /\ challenges' = [i \in Indexes |->
                CASE i \in free              -> e[i]
                  [] compound = "And"        -> chall'
                  [] compound = "OrTwo" /\ i = 2 -> XorBytes(chall', e[1])
                  [] OTHER                   -> restChallenge(poly', i)]
          /\ LET fault == loopFault(Indexes, challenges') IN
             IF fault # "none"
             THEN stage' = fault /\ UNCHANGED <<firsts, seconds>>
             ELSE /\ firsts' = [i \in Indexes |-> simulatedFirst(i, challenges'[i], z[i])]
                  /\ seconds' = z
                  /\ stage' = "answered"
    /\ maker' = "simulator"
    /\ UNCHANGED <<partVars, partCoins, elements, proofs, accepted>>

CompoundVerify ==
    /\ stage = "answered"
    /\ accepted' =
          /\ compound = "OrMultiple" =>
                checkPolynomialValidity(poly, Cardinality(real), chall, challenges)
          /\ \A i \in Indexes :
                Accepts(kindOf(i), parts[i].x, firsts[i], decodeBigInteger(challenges[i]), seconds[i])
    /\ stage' = "done"
    /\ UNCHANGED <<partVars, maker, partCoins, firsts, elements, chall, poly, challenges,
                   seconds, proofs>>

CompoundNext ==
    \/ CompoundFirstMsg \/ CompoundSampleChallenge \/ CompoundSecondMsg
    \/ CompoundSimulate \/ CompoundVerify

CompoundSpec == CompoundInit /\ [][CompoundNext]_compoundVars

-----------------------------------------------------------------------------
(* The type invariant: challenges are bytes, t / 8 of them at most.        *)
CompoundTypeOK ==
    /\ stage \in {"none", "ready", "first", "challenged", "answered", "done", "threw", "crashed"}
    /\ maker \in {"nobody", "prover", "simulator"}
    /\ \A i \in DOMAIN challenges :
          Len(challenges[i]) <= TBytes /\ \A j \in DOMAIN challenges[i] : challenges[i][j] \in Byte
    /\ \A j \in DOMAIN elements : elements[j] \in Field
    /\ \A j \in DOMAIN poly : poly[j] \in Field
    /\ accepted \in BOOLEAN

(* The elements that are interpolated are those of this proof.  They are   *)
(* the first ones, which a second proof with the same prover finds there   *)
(* already (SigmaProtocolOrMultiple.cpp:434).                              *)
FreshElements ==
    LET notI == Ascending(Indexes \ real)
    IN  maker = "prover" =>
            \A j \in DOMAIN notI : elements[j] = convertBytesToGF2E(challenges[notI[j]])

(* A transcript of the prover or of the simulator passes verify, with any  *)
(* mix of parts, for any randomness and challenge.  The proofs of k of n   *)
(* have two exceptions, and no others: the elements of an earlier proof    *)
(* are interpolated, or the polynomial has a degree below n - k, which     *)
(* verify compares with n - k exactly.  Prover and simulator fail on a     *)
(* challenge they derived themselves only in proofs of k of n, and only    *)
(* where its top bytes are zero: a SigmaDlog part where all of them are,   *)
(* any other part where one is.                                            *)
CompoundAccepted ==
    /\ stage = "done" =>
         \/ accepted
         \/ compound = "OrMultiple" /\ (~FreshElements \/ deg(poly) < n_k)
    /\ stage \in {"threw", "crashed"} =>
         /\ compound = "OrMultiple"
         /\ \E i \in Indexes :
               IF stage = "crashed" THEN kindOf(i) = "Dlog" /\ challenges[i] = <<>>
                                    ELSE kindOf(i) # "Dlog" /\ Len(challenges[i]) < TBytes

(* What makes k of n a proof of k statements: beside an accepted           *)
(* transcript, no second one with the same first message and another       *)
(* challenge leaves more than n - k parts with the challenge they had, so  *)
(* k parts answer two challenges each.                                     *)
KPartsAnswerTwice ==
    stage = "done" /\ accepted /\ compound = "OrMultiple" =>
        \A Q \in Polynomials(Len(parts) - 1), e \in Bytes \ {chall} :
            LET es == [i \in Indexes |-> convertElementToBytes(eval(Q, i))] IN
            checkPolynomialValidity(Q, Cardinality(real), e, es) =>
                Cardinality({i \in Indexes : eval(Q, i) # convertBytesToGF2E(challenges[i])})
                    >= Cardinality(real)
=============================================================================
