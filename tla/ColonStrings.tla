---------------------------- MODULE ColonStrings ----------------------------
(***************************************************************************)
(* The strings that messages are sent as: numbers in decimal and arrays of *)
(* bytes as they are, with ':' between them.  A character is a byte or a   *)
(* whole number.                                                           *)
(***************************************************************************)
EXTENDS Sequences, Naturals

CONSTANT Colon      \* the byte ':'

Char(b) == [byte |-> b]
Separator == Char(Colon)

Decimal(n) == <<[number |-> n, of |-> 0]>>

(* A group element is one number in Zp and two on a curve.                 *)
ElementString(e, coordinates) ==
    IF coordinates = 1
    THEN <<[number |-> e, of |-> 1]>>
    ELSE <<[number |-> e, of |-> 1], Separator, [number |-> e, of |-> 2]>>

BytesString(b) == [i \in DOMAIN b |-> Char(b[i])]
Bytes(s) == [i \in DOMAIN s |-> s[i].byte]

(* explode splits at every separator and drops the empty parts: what is    *)
(* left are the longest runs without a separator, in their order.          *)
explode(s) ==
    LET cut(i) == i \in {0, Len(s) + 1} \/ s[i] = Separator
        places == [i \in 1 .. Len(s) |-> i]
        starts == SelectSeq(places, LAMBDA i : ~cut(i) /\ cut(i - 1))
        ends   == SelectSeq(places, LAMBDA i : ~cut(i) /\ cut(i + 1))
    IN  [k \in 1 .. Len(starts) |-> SubSeq(s, starts[k], ends[k])]
=============================================================================
