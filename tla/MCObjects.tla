------------------------------ MODULE MCObjects ------------------------------
(***************************************************************************)
(* One object of a sequential class and a caller that calls its functions  *)
(* in any order: an encryption object, a pseudo-random generator, an       *)
(* arithmetic circuit, or the two sides of a commitment scheme.  Each      *)
(* behaviour is about one of them; the variables of the others keep an     *)
(* initial value.                                                          *)
(***************************************************************************)
EXTENDS MCAsymEnc, Prg, MCArithmeticCircuit

CONSTANTS Throws, Aborts

VARIABLES
    class,
    cmtScheme, cmtGroup, committer, receiver, toR, toC, cmtCalls, cmtResult

cmtVars == <<cmtScheme, cmtGroup, committer, receiver, toR, toC, cmtCalls, cmtResult>>
objectVars == <<class, asymVars, prgVars, arithVars, cmtVars>>

-----------------------------------------------------------------------------
(* The instance of the commitment schemes: the quadratic residues modulo   *)
(* 7, a group of order 3, with all of Zq for the random values, and bytes  *)
(* of two bits, one of the four being ':'.                                 *)

Z7 == INSTANCE ZpSafePrime WITH p <- 7

CmtG == Z7!Residues
CmtMul(a, b) == Z7!Times(a, b)
CmtInv(a) == Z7!ModInverse(a)
CmtPowers == [a \in CmtG, n \in 0 .. 18 |-> Z7!ExpUnsigned(a, n)]
CmtExp(a, n) == CmtPowers[a, n]
CmtXor(a, b) == a + b - 2 * ((a % 2) * (b % 2) + 2 * ((a \div 2) * (b \div 2)))
CmtKdf(e, n) == [i \in 1 .. n |-> (e + 3 * i) % 4]
CmtHash(b) ==
    LET sum[i \in 0 .. Len(b)] == IF i = 0 THEN Len(b) ELSE 3 * sum[i - 1] + b[i]
    IN  <<sum[Len(b)] % 4, (sum[Len(b)] \div 4) % 4>>

Cmt == INSTANCE Commitments WITH
    G <- CmtG, q <- Z7!GroupOrder, g <- Z7!Generator,
    Mul <- CmtMul, Inv <- CmtInv, Exp <- CmtExp,
    Base <- 4, Colon <- 2,
    Schemes <- {"Pedersen", "PedersenHash", "ElGamal", "ElGamalBytes", "ElGamalHash",
                "SimpleHash", "PedersenProofs", "ElGamalProofs"},
    Groups <- {1, 2}, Ids <- {1, 2},
    Numbers <- {-1, 2, 3, 4}, Elements <- {1, 4},
    Texts <- {<<2, 1>>, <<1>>}, Nonces <- {<<0>>, <<1>>},
    Kdf <- CmtKdf, Xor <- CmtXor, Hash <- CmtHash,
    MaxCalls <- 3, Null <- Null, Throws <- Throws, Aborts <- Aborts,
    scheme <- cmtScheme, group <- cmtGroup, calls <- cmtCalls, result <- cmtResult

(* What the receiver of a commitment accepts is what the committer         *)
(* committed to last under its id: see Commitments.                        *)
OpensCommitted == Cmt!OpensCommitted

(* A commitment of the perfectly hiding classes says nothing of the value: *)
(* see Commitments.                                                        *)
CommitmentHides == Cmt!CommitmentHides

-----------------------------------------------------------------------------
AsymIdle == scheme = (CHOOSE s \in Schemes : TRUE) /\ keySet = FALSE
PrgIdle == isStrict = FALSE /\ key = CHOOSE k1 \in Keys : TRUE
ArithIdle == file = CHOOSE f \in Files : TRUE
CmtIdle == cmtScheme = "Pedersen" /\ cmtGroup = 1

ObjectInit ==
    /\ \/ class = "encryption" /\ PrgIdle /\ ArithIdle /\ CmtIdle
       \/ class = "generator" /\ AsymIdle /\ ArithIdle /\ CmtIdle
       \/ class = "circuit" /\ AsymIdle /\ PrgIdle /\ CmtIdle
       \/ class = "commitment" /\ AsymIdle /\ PrgIdle /\ ArithIdle
    /\ AsymInit /\ PrgInit /\ ArithInit /\ Cmt!CmtInit

ObjectNext ==
    \/ class = "encryption" /\ AsymNext /\ UNCHANGED <<class, prgVars, arithVars, cmtVars>>
    \/ class = "generator" /\ PrgNext /\ UNCHANGED <<class, asymVars, arithVars, cmtVars>>
    \/ class = "circuit" /\ ArithNext /\ UNCHANGED <<class, asymVars, prgVars, cmtVars>>
    \/ class = "commitment" /\ Cmt!CmtNext /\ UNCHANGED <<class, asymVars, prgVars, arithVars>>

ObjectSpec == ObjectInit /\ [][ObjectNext]_objectVars
=============================================================================
