--------------------------- MODULE MCGarbledCircuit ---------------------------
(***************************************************************************)
(* Small circuits for GarbledCircuit: blocks of 12 bits and a function     *)
(* that mixes two blocks in the place of AES.                              *)
(***************************************************************************)
EXTENDS GarbledCircuit, FiniteSetsExt, TLC

CONSTANTS Classes, FirstTables, LastTables, NonXor, MaxCalls

Number(x) == FoldSet(LAMBDA e, n : n + 2 ^ e, 0, x)
Bits(n) == {e \in 0 .. Width - 1 : (n \div (2 ^ e)) % 2 = 1}
MixAes(k, x) ==
    LET K == Number(k)
        X == Number(x)
        m == (5 * K * X + 211 * K + 577 * X + 97) % 4093
    IN Bits((m * m + 3 * m + K) % 4096)

TableOf(t) == <<(t \div 8) % 2, (t \div 4) % 2, (t \div 2) % 2, t % 2>>

(* Wires 0 and 1 are the inputs; a gate, its negation or its xor with wire  *)
(* 0, and a gate on that and wire 1.  The last and the first are outputs.   *)
Gates(first, not, last) ==
    <<[inputs |-> <<0, 1>>, outputs |-> <<2>>, table |-> TableOf(first)],
      IF not THEN [inputs |-> <<2>>, outputs |-> <<3>>, table |-> <<1, 0>>]
             ELSE [inputs |-> <<2, 0>>, outputs |-> <<3>>, table |-> TableOf(6)],
      [inputs |-> <<3, 1>>, outputs |-> <<4>>, table |-> TableOf(last)]>>

(* All objects read the file that write makes of a circuit.                 *)
Circuit(inputs, first, not, last) ==
    LET f == write([inputs |-> inputs, outputs |-> <<<<4, 2>>>>, gates |-> Gates(first, not, last)])
        lists == BooleanCircuit(f).inputs
    IN [file |-> f, parties |-> [p \in 1 .. 2 |-> {lists[p][k] : k \in DOMAIN lists[p]}]]
        @@ readCircuitFromFile(f)

(* The gates a class is documented to take, and the classes that can make   *)
(* outputs without a fixed delta.                                           *)
Tables(c) ==
    CASE c \in {"HalfGates", "NoFixedKey", "NoIntrinsics"} -> {1, 6, 9}
      [] c = "FourToTwo" -> {1, 6}
      [] c \in {"Standard", "FreeXor", "RowReduction"} -> 0 .. 15

Seed(k) == {1, 4, 7 + k}
OneParty == <<<<0, 1>>, <<>>>>
TwoParties == <<<<0>>, <<1>>>>
Short(c, first, last, nx) ==
    [cls |-> c, nonXor |-> nx, seeds |-> {Seed(0)}, maxCalls |-> 4]
        @@ Circuit(OneParty, first, TRUE, last)
Long(c, not, inputs) ==
    [cls |-> c, nonXor |-> FALSE, seeds |-> {Seed(0), Seed(1)}, maxCalls |-> MaxCalls]
        @@ Circuit(inputs, 1, not, 6)

(* Every supported pair of gates of FirstTables and LastTables with the     *)
(* fewest calls that garble and compute, and an AND and a XOR with MaxCalls *)
(* calls; with two parties, and without the negation, in two classes.       *)
MCSetups ==
    {Short(s[1], s[2], s[3], s[4]) :
        s \in {t \in Classes \X FirstTables \X LastTables \X NonXor :
                /\ {t[2], t[3]} \subseteq Tables(t[1])
                /\ t[4] => t[1] \in {"FreeXor", "RowReduction", "HalfGates"}}}
    \cup {Long(c, TRUE, OneParty) : c \in Classes}
    \cup {Long(c, FALSE, inputs) : c \in Classes \cap {"Standard", "HalfGates"},
                                    inputs \in {OneParty, TwoParties}}

(* A file of another number of parties has a list of outputs for each.      *)
Several(n) ==
    [inputs |-> [p \in 1 .. n |-> IF p = n THEN <<0, 1>> ELSE <<>>],
     outputs |-> [p \in 1 .. n |-> IF p = n THEN <<4>> ELSE <<2, 4>>], gates |-> Gates(1, TRUE, 6)]
MCOtherFiles == {write(Several(n)) : n \in {1, 3, 4}}

MCHeap == {{}, {0, 5, 10}}
Symmetry == Permutations(Objects)
MCFixedKey == {2, 3, 8}
=============================================================================
