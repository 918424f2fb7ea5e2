----------------------------- MODULE ZpSafePrime -----------------------------
(***************************************************************************)
(* The group of OpenSSLDlogZpSafePrime: the quadratic residues modulo a    *)
(* safe prime p = 2q + 1.  ExpUnsigned is its exponentiate; ExpSigned is   *)
(* the exponentiate of a group like OpenSSLDlogEC on the same elements.    *)
(***************************************************************************)
EXTENDS Integers

CONSTANT p

GroupOrder == (p - 1) \div 2

Residues == {(x * x) % p : x \in 1 .. (p - 1)}

(* 4 = 2^2 generates the residues when p is a safe prime greater than 5.   *)
Generator == 4

Times(a, b) == (a * b) % p

ModInverse(a) == CHOOSE b \in Residues : Times(a, b) = 1

LargestExp == 2 * GroupOrder * GroupOrder

Powers ==
    [a \in Residues |->
        LET pow[n \in 0 .. LargestExp] ==
                IF n = 0 THEN 1 ELSE Times(a, pow[n - 1])
        IN  pow]

ExpUnsigned(a, n) == Powers[a][IF n >= 0 THEN n ELSE -n]

ExpSigned(a, n) == IF n >= 0 THEN Powers[a][n] ELSE ModInverse(Powers[a][-n])
=============================================================================
