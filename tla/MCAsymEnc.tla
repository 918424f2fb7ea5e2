----------------------------- MODULE MCAsymEnc -----------------------------
(* The quadratic residues modulo 11, with the exponentiate of              *)
(* OpenSSLDlogZpSafePrime, which drops the sign of the exponent; a hash    *)
(* and a key derivation that depend on all of their input.                 *)
EXTENDS AsymEnc

Zp == INSTANCE ZpSafePrime WITH p <- 11

MCG == Zp!Residues
MCOrder == Zp!GroupOrder
MCGenerator == Zp!Generator
MCMul(a, b) == Zp!Times(a, b)
MCInv(a) == Zp!ModInverse(a)
ExpZp(a, n) == Zp!ExpUnsigned(a, n)

MCTexts == {4, 9}
MCRandoms == {-1, 0, 2, 4, MCOrder}
MCSecrets == {0, 1, 3}
MCGenerators == {<<1, 2>>, <<3, 1>>}
MCTuples == {<<1, 3, 2, 4, 1>>, <<0, 2, 3, 1, 3>>, <<4, 4, 1, 0, 0>>}
MCKdf(s) == [i \in 1 .. TextLen |-> s % (i + 1) = 1]
MCHash(u1, u2, e) == ((u1 + 3 * u2 + 5 * e) % (2 * MCOrder - 1)) - (MCOrder - 1)

(* The hypothesis under which the decryption of Cramer-Shoup is proved.     *)
ASSUME MCUnsigned == UnsignedLaws
=============================================================================
