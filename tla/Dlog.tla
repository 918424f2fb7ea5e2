-------------------------------- MODULE Dlog --------------------------------
(***************************************************************************)
(* The discrete-logarithm groups of include/primitives/Dlog.hpp, as the    *)
(* protocols use them: a group G of order q with generator g, whose        *)
(* operations are multiplyGroupElements, getInverse and exponentiate.      *)
(*                                                                         *)
(* Exp(a, n) is exponentiate with the exponent as it is given, which may   *)
(* be larger than q and may be negative.  Two implementations differ on a  *)
(* negative exponent.  OpenSSLDlogEC hands a negative multiplier to        *)
(* EC_POINT_mul, which honours it; OpenSSLDlogZpSafePrime hands it to      *)
(* BN_mod_exp, which uses the magnitude of its exponent and not the sign.  *)
(* GroupLaws is what both satisfy; SignedLaws is what only the first does. *)
(***************************************************************************)
EXTENDS Integers

CONSTANTS G,          \* the elements of the group
          q,          \* its order: getOrder()
          g,          \* its generator: getGenerator()
          Mul(_, _),  \* multiplyGroupElements
          Inv(_),     \* getInverse
          Exp(_, _)   \* exponentiate

Zq == 0 .. (q - 1)

(* The largest exponent any computation below hands to exponentiate.       *)
MaxExp == 2 * q * q

Exps == 0 .. MaxExp

(* % of boost::multiprecision: the remainder has the sign of the dividend. *)
Rem(n) == IF n >= 0 THEN n % q ELSE -((-n) % q)

(* abs of boost::multiprecision.                                           *)
Abs(n) == IF n >= 0 THEN n ELSE -n

GroupLaws ==
    /\ q \in Nat /\ q > 1
    /\ g \in G
    /\ \A a, b \in G : Mul(a, b) \in G /\ Mul(a, b) = Mul(b, a)
    /\ \A a, b, c \in G : Mul(Mul(a, b), c) = Mul(a, Mul(b, c))
    /\ \A a \in G : Inv(a) \in G
    /\ \A a, b \in G : Mul(Mul(a, b), Inv(b)) = a
    /\ \A a \in G, m \in Exps : Exp(a, m) \in G /\ Exp(a, m % q) = Exp(a, m)
    /\ \A a, b \in G : Mul(a, Exp(b, 0)) = a /\ Exp(a, 1) = a
    /\ \A a \in G, m, n \in Exps :
          m + n \in Exps => Exp(a, m + n) = Mul(Exp(a, m), Exp(a, n))
    /\ \A a \in G, m, n \in Zq : Exp(Exp(a, m), n) = Exp(a, m * n)
    /\ \A a, b \in G, m \in Exps : Exp(Mul(a, b), m) = Mul(Exp(a, m), Exp(b, m))

ASSUME DlogAssumption == GroupLaws

(* A group whose exponentiate honours the sign of its exponent.            *)
SignedLaws ==
    /\ \A a \in G, m \in 1 .. MaxExp : Exp(a, -m) = Inv(Exp(a, m))
    /\ \A a \in G, m \in Zq : Exp(Inv(a), m) = Inv(Exp(a, m))

(* The order is prime, as for every group of DlogGroup, so that every      *)
(* exponent but 0 has an inverse, and the generator generates the group.   *)
PrimeOrder == \A m \in 1 .. q - 1 : \E n \in Zq : (m * n) % q = 1

Generated == \A a \in G : \E n \in Zq : a = Exp(g, n)
=============================================================================
