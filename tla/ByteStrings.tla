---------------------------- MODULE ByteStrings ----------------------------
(***************************************************************************)
(* The conversions of src/infra/Common.cpp between numbers and bytes.  A   *)
(* number is stored in two's complement, least significant byte first; a   *)
(* byte has Base values (256 in the code).                                 *)
(***************************************************************************)
EXTENDS Integers, Sequences

CONSTANT Base

ASSUME BaseAssumption == Base \in Nat /\ Base > 1 /\ Base % 2 = 0

Byte == 0 .. Base - 1

Zeros(n) == [i \in 1 .. n |-> 0]

(* The first length of Base-digits that holds n >= 0.                      *)
Digits(n) == CHOOSE d \in 1 .. n + 1 : n < Base ^ d /\ (d = 1 \/ n >= Base ^ (d - 1))

(* ~n is -n - 1; a byte is added when the top bit would read as the sign.  *)
bytesCount(n) ==
    LET m == IF n < 0 THEN -n - 1 ELSE n
        d == Digits(m)
    IN  IF n # 0 /\ 2 * (m \div Base ^ (d - 1)) >= Base THEN d + 1 ELSE d

(* Into the buffer b.  The encoding of 0 sets the first byte only.         *)
encodeBigInteger(n, b) ==
    [i \in DOMAIN b |-> IF n = 0 /\ i > 1 THEN b[i] ELSE (n \div Base ^ (i - 1)) % Base]

Unsigned(b) ==
    LET sum[i \in 0 .. Len(b)] == IF i = 0 THEN 0 ELSE sum[i - 1] + b[i] * Base ^ (i - 1)
    IN  sum[Len(b)]

decodeBigInteger(b) ==
    IF 2 * b[Len(b)] >= Base THEN Unsigned(b) - Base ^ Len(b) ELSE Unsigned(b)

(* copy_byte_array_to_byte_vector at index 0: the target grows and never   *)
(* shrinks.                                                                *)
copyInto(b, target) ==
    [i \in DOMAIN b \cup DOMAIN target |-> IF i \in DOMAIN b THEN b[i] ELSE target[i]]
=============================================================================
