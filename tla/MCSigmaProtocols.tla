-------------------------- MODULE MCSigmaProtocols --------------------------
(* The quadratic residues modulo 11, a group of order 5, in which t = 2 is  *)
(* the largest soundness parameter the constructors admit.  A behaviour is  *)
(* one of SigmaSpec or one of CompoundSpec.                                *)
EXTENDS CompoundSigma

Zp == INSTANCE ZpSafePrime WITH p <- 11

MCG == Zp!Residues
MCOrder == Zp!GroupOrder
MCGenerator == Zp!Generator
MCMul(a, b) == Zp!Times(a, b)
MCInv(a) == Zp!ModInverse(a)
ExpEC(a, n) == Zp!ExpSigned(a, n)

AllProtos == DOMAIN Kind

(* The hypotheses of the theorems on completeness and special soundness.    *)
ASSUME MCSigns == SignsHonoured
ASSUME MCPrime == PrimeOrder

AllHashValues == {-4, -1, 0, 3}

(* A byte is a bit and t = 2: GF(4), in which 2 * 2 = 3 and 2 * 3 = 1.      *)
MCXor(a, b) == (a + b) % 2
GF4Add(a, b) == ((a + b) % 2) + 2 * (((a \div 2) + (b \div 2)) % 2)
GF4Mul(a, b) == IF a = 0 \/ b = 0 THEN 0 ELSE ((a - 1 + b - 1) % 3) + 1

MCProven(k) ==
    IF k = "Dlog" THEN [k |-> k, x |-> DlogInput(Exp(g, 3)), w |-> <<3, 0>>]
    ELSE LET h == Exp(g, 2)
         IN  [k |-> k, x |-> DHInput(h, Exp(g, 4), Exp(h, 4)), w |-> <<4, 0>>]

(* The Diffie-Hellman tuple is none.                                        *)
MCClaimed(k) ==
    IF k = "Dlog" THEN [k |-> k, x |-> DlogInput(Exp(g, 2)), w |-> NoWitness]
    ELSE LET h == Exp(g, 3)
         IN  [k |-> k, x |-> DHInput(h, Exp(g, 2), Exp(h, 1)), w |-> NoWitness]

MCPartCoins == {<<1, 0>>, <<4, 0>>}

SigmaIdle ==
    /\ proto = "Dlog" /\ soundness = 1 /\ stmt = DlogInput(g) /\ wit = NoWitness
    /\ phase = "threw" /\ by = "nobody" /\ coins = <<0, 0>> /\ first = <<>>
    /\ challenge = <<>> /\ second = <<0, 0>> /\ verdict = FALSE

CompoundIdle ==
    /\ compound = "And" /\ parts = <<>> /\ real = {} /\ stage = "none"
    /\ NothingComputed

MCInit == \/ SigmaInit /\ CompoundIdle
          \/ SigmaIdle /\ CompoundInit
MCNext ==
    \/ SigmaNext /\ UNCHANGED compoundVars
    \/ CompoundNext /\ UNCHANGED sigmaVars
MCSpec == MCInit /\ [][MCNext]_<<sigmaVars, compoundVars>>
=============================================================================
