----------------------------- MODULE Encryption -----------------------------
(***************************************************************************)
(* What the ElGamal and the Cramer-Shoup encryption schemes compute        *)
(* (ElGamalEnc.cpp, CramerShoupEnc.cpp), over a Dlog group.                *)
(***************************************************************************)
EXTENDS Dlog

ElGamalEncrypt(h, m, r) == <<Exp(g, r), Mul(Exp(h, r), m)>>

(* The ciphertext <<u1, u2, e, v>> for the key <<g1, g2, h, c, d>>.        *)
CramerShoupEncrypt(key, m, r, alpha) ==
    <<Exp(key[1], r), Exp(key[2], r), Mul(Exp(key[3], r), m),
      Mul(Exp(key[4], r), Exp(key[5], Rem(r * alpha)))>>

(* A group whose exponentiate takes the magnitude of its exponent.         *)
UnsignedLaws == \A a \in G, m \in 1 .. MaxExp : Exp(a, -m) = Exp(a, m)
=============================================================================
