-------------------------- MODULE MCArithmeticCircuit --------------------------
(* All circuits of two input wires, three gates with inputs before them,   *)
(* and one output wire.                                                    *)
EXTENDS ArithmeticCircuit

CONSTANT Types

GateTokens(type, a, b, out) == <<2, 1, a, b, out, type>>
FileOf(t, ins) ==
    <<3, 2, 2, 1, 1, 1, 1, 0, 1, 0, 2, 1, 4>>
        \o GateTokens(t[1], ins[1][1], ins[1][2], 2)
        \o GateTokens(t[2], ins[2][1], ins[2][2], 3)
        \o GateTokens(t[3], ins[3][1], ins[3][2], 4)

MCFiles ==
    {FileOf(t, ins) : t \in [1 .. 3 -> Types],
        ins \in ((0 .. 1) \X (0 .. 1)) \X ((0 .. 2) \X (0 .. 2)) \X ((0 .. 3) \X (0 .. 3))}
=============================================================================
