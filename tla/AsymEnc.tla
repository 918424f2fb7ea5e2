------------------------------ MODULE AsymEnc ------------------------------
(***************************************************************************)
(* One encryption object of a program (ElGamalOnGroupElementEnc,           *)
(* ElGamalOnByteArrayEnc or CramerShoupOnGroupElementEnc) through any      *)
(* sequence of calls of generateKey, setKey, encrypt, multiply and         *)
(* reconstructCiphertext.  decrypt changes nothing: it is an operator.     *)
(*                                                                         *)
(* setKey replaces the public key first and the private key only if one is *)
(* given, and keySet is not initialised by the constructors; an encrypt    *)
(* that gets past isKeySet without a public key dereferences NULL.  The    *)
(* program remembers of every ciphertext the text and the key it is for.   *)
(***************************************************************************)
EXTENDS Encryption, FiniteSets, Sequences

CONSTANTS
    Schemes,        \* the classes of encryption objects
    Texts,          \* GroupElementPlaintexts
    TextLen,        \* bits of a ByteArrayPlaintext
    Randoms,        \* arguments r, in Zq or not
    ElGamalSecrets, \* what getRandomInRange gives ElGamal's generateKey
    CSGenerators,   \* pairs of exponents of the generators of Cramer-Shoup keys
    CSSecrets,      \* the five exponents of Cramer-Shoup private keys
    Kdf(_),         \* the derived key of a group element, TextLen bits
    Hash(_, _, _),  \* decodeBigInteger of Cramer-Shoup's hash, of any sign
    Null,
    MaxKeys,        \* bound: key pairs generated
    MaxCiphers      \* bound: ciphertexts the program holds

Bits == [1 .. TextLen -> BOOLEAN]

ASSUME AsymAssumption ==
    /\ Schemes \subseteq {"ElGamal", "ElGamalBytes", "CramerShoup"}
    /\ Texts \subseteq G /\ TextLen \in Nat
    /\ Randoms \subseteq Int
    /\ ElGamalSecrets \subseteq Zq
    /\ CSGenerators \subseteq (Zq \ {0}) \X (Zq \ {0})
    /\ CSSecrets \subseteq Zq \X Zq \X Zq \X Zq \X Zq
    /\ \A s \in G : Kdf(s) \in Bits
    /\ \A a, b, c \in G : Hash(a, b, c) \in -(q - 1) .. (q - 1)
    /\ MaxKeys \in Nat /\ MaxCiphers \in Nat

VARIABLES
    scheme,         \* the class of the object
    keySet, publicKey, privateKey,      \* its fields
    keys,           \* the key pairs generateKey has returned
    ciphers,        \* the ciphertexts the program holds
    crashed         \* a NULL key was dereferenced

asymVars == <<scheme, keySet, publicKey, privateKey, keys, ciphers, crashed>>

-----------------------------------------------------------------------------
(* Keys.                                                                   *)

Pair(pub, priv) == [pub |-> pub, priv |-> priv]

ElGamalPairs == {Pair(Exp(g, x), x) : x \in ElGamalSecrets}

(* generateKey draws two different generators, then the five exponents.    *)
CramerShoupPair(gen, x) ==
    LET g1 == Exp(g, gen[1])
        g2 == Exp(g, gen[2])
    IN  Pair(<<g1, g2, Exp(g1, x[5]),
               Mul(Exp(g1, x[1]), Exp(g2, x[2])),
               Mul(Exp(g1, x[3]), Exp(g2, x[4]))>>, x)

CramerShoupPairs ==
    {CramerShoupPair(gen, x) :
        gen \in {n \in CSGenerators : n[1] # n[2]}, x \in CSSecrets}

PairsOf(s) == IF s = "CramerShoup" THEN CramerShoupPairs ELSE ElGamalPairs

ASSUME NullAssumption == \A s \in Schemes : \A pair \in PairsOf(s) : pair.pub # Null

(* The private key as the object keeps it: the exponent of decryption is   *)
(* negated, except in ElGamal on byte arrays.                              *)
initPrivateKey(s, x) ==
    CASE s = "ElGamal"      -> q - x
      [] s = "ElGamalBytes" -> x
      [] s = "CramerShoup"  -> <<x[1], x[2], x[3], x[4], q - x[5]>>

-----------------------------------------------------------------------------
(* Encryption and decryption.                                              *)

PlaintextsOf(s) == IF s = "ElGamalBytes" THEN Bits ELSE Texts

Xor(a, b) == [i \in 1 .. TextLen |-> a[i] # b[i]]

ElGamalBytesEncrypt(h, m, r) == <<Exp(g, r), Xor(Kdf(Exp(h, r)), m)>>

EncryptionOf(s, pk, m, r) ==
    CASE s = "ElGamal"      -> ElGamalEncrypt(pk, m, r)
      [] s = "ElGamalBytes" -> ElGamalBytesEncrypt(pk, m, r)
      [] s = "CramerShoup"  ->
            CramerShoupEncrypt(pk, m, r,
                Hash(Exp(pk[1], r), Exp(pk[2], r), Mul(Exp(pk[3], r), m)))

(* Variant: the signed hash value, as calcV has it.                        *)
checkValiditySigned(sk, c) ==
    LET alpha == Hash(c[1], c[2], c[3])
    IN  c[4] = Mul(Exp(c[1], Rem(sk[1] + sk[3] * alpha)),
                   Exp(c[2], Rem(sk[2] + sk[4] * alpha)))

checkValidity(sk, c) ==
    LET alpha == Abs(Hash(c[1], c[2], c[3]))
    IN  c[4] = Mul(Exp(c[1], Rem(sk[1] + sk[3] * alpha)),
                   Exp(c[2], Rem(sk[2] + sk[4] * alpha)))

(* decrypt of each class; Null when it throws.                             *)
ElGamalDecrypt(sk, c) == Mul(c[2], Exp(c[1], sk))

ElGamalBytesDecrypt(sk, c) == Xor(Kdf(Exp(c[1], sk)), c[2])

CramerShoupDecrypt(sk, c) ==
    IF checkValidity(sk, c) THEN Mul(c[3], Exp(c[1], sk[5])) ELSE Null

decrypt(s, sk, c) ==
    CASE s = "ElGamal"      -> ElGamalDecrypt(sk, c)
      [] s = "ElGamalBytes" -> ElGamalBytesDecrypt(sk, c)
      [] s = "CramerShoup"  -> CramerShoupDecrypt(sk, c)

(* Variant: the random factor is left out of the second component.         *)
ElGamalMultiplyNoMask(h, c1, c2, w) ==
    <<Mul(Mul(Exp(g, w), c1[1]), c2[1]), Mul(c1[2], c2[2])>>

ElGamalMultiply(h, c1, c2, w) ==
    <<Mul(Mul(Exp(g, w), c1[1]), c2[1]), Mul(Mul(Exp(h, w), c1[2]), c2[2])>>

(* reconstructCiphertext of the data generateSendableData makes: that of   *)
(* Cramer-Shoup hands v and e to the constructor in the wrong order.       *)
reconstructCiphertext(s, c) ==
    IF s = "CramerShoup" THEN <<c[1], c[2], c[4], c[3]>> ELSE c

-----------------------------------------------------------------------------
(* A ciphertext with what the program knows of it: its text, the public    *)
(* key it is for (Null after multiply mixed keys), and whether it was      *)
(* rebuilt from data received.                                             *)
Cipher(ct, text, pk) == [ct |-> ct, text |-> text, pk |-> pk, rebuilt |-> FALSE]

AsymInit ==
    /\ scheme \in Schemes
    /\ keySet \in BOOLEAN
    /\ publicKey = Null
    /\ privateKey = Null
    /\ keys = {}
    /\ ciphers = {}
    /\ crashed = FALSE

generateKey ==
    /\ ~crashed /\ Cardinality(keys) < MaxKeys
    /\ \E pair \in PairsOf(scheme) : keys' = keys \cup {pair}
    /\ UNCHANGED <<scheme, keySet, publicKey, privateKey, ciphers, crashed>>

(* setKey(publicKey, privateKey)                                           *)
setKeyPair(pair) ==
    /\ ~crashed
    /\ publicKey' = pair.pub
    /\ privateKey' = initPrivateKey(scheme, pair.priv)
    /\ keySet' = TRUE
    /\ UNCHANGED <<scheme, keys, ciphers, crashed>>

(* setKey(publicKey): a private key that was set before stays.             *)
setPublicKey(pair) ==
    /\ ~crashed
    /\ publicKey' = pair.pub
    /\ keySet' = TRUE
    /\ UNCHANGED <<scheme, privateKey, keys, ciphers, crashed>>

(* setKey throws on a key of another class: the public key is gone, or the *)
(* public key is replaced and the private key and keySet are not.          *)
setKeyThrows ==
    /\ ~crashed
    /\ publicKey' \in {Null} \cup {pair.pub : pair \in keys}
    /\ UNCHANGED <<scheme, keySet, privateKey, keys, ciphers, crashed>>

(* What encrypt and multiply do once their checks have passed: they use    *)
(* the public key and hand the program a ciphertext.                       *)
Produce(cipher) ==
    IF publicKey = Null
    THEN crashed' = TRUE /\ UNCHANGED ciphers
    ELSE ciphers' = ciphers \cup {cipher} /\ UNCHANGED crashed

encrypt(m, r) ==
    /\ ~crashed /\ Cardinality(ciphers) < MaxCiphers
    /\ keySet /\ r \in Zq
    /\ Produce(Cipher(EncryptionOf(scheme, publicKey, m, r), m, publicKey))
    /\ UNCHANGED <<scheme, keySet, publicKey, privateKey, keys>>

multiply(c1, c2, r) ==
    /\ ~crashed /\ Cardinality(ciphers) < MaxCiphers
    /\ scheme = "ElGamal"
    /\ keySet /\ r \in Zq
    /\ Produce(Cipher(ElGamalMultiply(publicKey, c1.ct, c2.ct, r),
                      Mul(c1.text, c2.text),
                      IF {c1.pk, c2.pk} = {publicKey} THEN publicKey ELSE Null))
    /\ UNCHANGED <<scheme, keySet, publicKey, privateKey, keys>>

Rebuild(c) ==
    /\ ~crashed
    /\ ciphers' = (ciphers \ {c}) \cup
                  {[c EXCEPT !.ct = reconstructCiphertext(scheme, @), !.rebuilt = TRUE]}
    /\ UNCHANGED <<scheme, keySet, publicKey, privateKey, keys, crashed>>

AsymNext ==
    \/ generateKey
    \/ \E pair \in keys : setKeyPair(pair) \/ setPublicKey(pair)
    \/ setKeyThrows
    \/ \E m \in PlaintextsOf(scheme), r \in Randoms : encrypt(m, r)
    \/ \E c1, c2 \in ciphers, r \in Randoms : multiply(c1, c2, r)
    \/ \E c \in ciphers : Rebuild(c)

AsymSpec == AsymInit /\ [][AsymNext]_asymVars

-----------------------------------------------------------------------------
(* The private key, as the object keeps it.                                *)
KeptKeys(s) ==
    IF s = "CramerShoup" THEN Zq \X Zq \X Zq \X Zq \X (0 .. q) ELSE 0 .. q

(* The type invariant.  The exponents of a kept private key are not        *)
(* negative, whatever the private key.                                     *)
AsymTypeOK ==
    /\ scheme \in Schemes /\ keySet \in BOOLEAN /\ crashed \in BOOLEAN
    /\ keys \subseteq PairsOf(scheme)
    /\ publicKey \in {Null} \cup {pair.pub : pair \in keys}
    /\ privateKey \in {Null} \cup KeptKeys(scheme)
    /\ \A c \in ciphers : c.pk \in {Null} \cup {pair.pub : pair \in keys}

(* A ciphertext in its original form: reconstructCiphertext is faithful    *)
(* but for Cramer-Shoup.                                                   *)
Intact(c) == scheme = "CramerShoup" => ~c.rebuilt

(* However a ciphertext was made, by encrypt or by multiplying others, and *)
(* whatever keys were set meanwhile, it is an encryption of its text under *)
(* its key with some randomness in Zq.                                     *)
HeldIsEncryption ==
    \A c \in ciphers : c.pk # Null /\ Intact(c) =>
        \E r \in Zq : c.ct = EncryptionOf(scheme, c.pk, c.text, r)

(* The private key of the object belongs to the key of the ciphertext.     *)
CanOpen(c) ==
    \E pair \in keys :
        pair.pub = c.pk /\ privateKey = initPrivateKey(scheme, pair.priv)

Opens(c) == decrypt(scheme, privateKey, c.ct) = c.text

(* decrypt returns the text of every ciphertext that is for the key of the *)
(* object, after any sequence of setKey, encrypt, multiply and, but for    *)
(* Cramer-Shoup, reconstructCiphertext.                                    *)
DecryptsOwn == \A c \in ciphers : CanOpen(c) /\ Intact(c) => Opens(c)
=============================================================================
