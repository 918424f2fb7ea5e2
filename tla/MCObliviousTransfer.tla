------------------------ MODULE MCObliviousTransfer ------------------------
(* The quadratic residues modulo 7, a group of order 3, with all of Zq for *)
(* the random values; bytes of two bits, one of the four being ':'.        *)
EXTENDS ObliviousTransfer

Zp == INSTANCE ZpSafePrime WITH p <- 7

MCG == Zp!Residues
MCOrder == Zp!GroupOrder
MCGenerator == Zp!Generator
MCMul(a, b) == Zp!Times(a, b)
MCInv(a) == Zp!ModInverse(a)
MCPowers == [a \in MCG, n \in 0 .. 2 * MCOrder * MCOrder |-> Zp!ExpUnsigned(a, n)]
MCExp(a, n) == MCPowers[a, n]

MCReferences == {<<4, 2, 1, 2>>, <<4, 4, 2, 1>>}
MCElements == {1, 4}
MCTexts == {<<0, 3>>, <<2, 1>>, <<1>>}
MCXor(a, b) == (a + b - 2 * ((a % 2) * (b % 2) + 2 * ((a \div 2) * (b \div 2))))
MCKdf(e, n) == [i \in 1 .. n |-> (e + 3 * i) % 4]

(* The hypotheses under which the hiding of the other input is proved.     *)
ASSUME MCPrime == PrimeOrder /\ Generated
ASSUME MCCrossed == \A pre \in References : Crossed(pre)
=============================================================================
