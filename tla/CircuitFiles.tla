----------------------------- MODULE CircuitFiles -----------------------------
(***************************************************************************)
(* The text files of boolean and arithmetic circuits.  A file is the       *)
(* sequence of its tokens: numbers, and the truth table of a gate, which   *)
(* is one token (a sequence of bits).  BooleanCircuit::write makes a file  *)
(* and three classes read it, each with a loop of its own.                 *)
(*                                                                         *)
(* A boolean circuit has the lists of input and of output wires of every   *)
(* party (two parties share one list of outputs) and its gates.            *)
(***************************************************************************)
EXTENDS Integers, Sequences

LOCAL INSTANCE SequencesExt

Sublist(tokens, at, n) == SubSeq(tokens, at, at + n - 1)

-----------------------------------------------------------------------------
(* BooleanCircuit::write.                                                   *)
Numbered(lists) == FlattenSeq([p \in DOMAIN lists |-> <<p, Len(lists[p])>> \o lists[p]])

(* Mutant: the outputs of a gate are written before its inputs.             *)
GateLineMut(g) == <<Len(g.inputs), Len(g.outputs)>> \o g.outputs \o g.inputs \o <<g.table>>
GateLine(g) == <<Len(g.inputs), Len(g.outputs)>> \o g.inputs \o g.outputs \o <<g.table>>

write(c) ==
    <<Len(c.gates), Len(c.inputs)>> \o Numbered(c.inputs)
        \o (IF Len(c.inputs) = 2 THEN <<Len(c.outputs[1])>> \o c.outputs[1]
                                 ELSE Numbered(c.outputs))
        \o FlattenSeq([j \in DOMAIN c.gates |-> GateLine(c.gates[j])])

-----------------------------------------------------------------------------
(* n lists "party, length, wires" from position at: where they begin, what  *)
(* they are, and where the last one ends.                                   *)
Begins(tokens, at, n) ==
    LET b[j \in 1 .. n + 1] == IF j = 1 THEN at ELSE b[j - 1] + 2 + tokens[b[j - 1] + 1]
    IN b
List(tokens, at) == Sublist(tokens, at + 2, tokens[at + 1])

(* n gates of as many tokens as size gives from the first ones.             *)
GatesBegin(tokens, at, n, size(_)) ==
    LET b[j \in 1 .. n + 1] == IF j = 1 THEN at ELSE b[j - 1] + size(b[j - 1])
    IN b

(* The constructor of BooleanCircuit: the parties have to come in order.    *)
InOrder(tokens, begins, n) == \A p \in 1 .. n : tokens[begins[p]] = p

BooleanCircuit(tokens) ==
    LET n == tokens[2]
        ins == Begins(tokens, 3, n)
        outAt == ins[n + 1]
        outs == Begins(tokens, outAt, n)
        gatesAt == IF n = 2 THEN outAt + 1 + tokens[outAt] ELSE outs[n + 1]
        at == GatesBegin(tokens, gatesAt, tokens[1], LAMBDA b : tokens[b] + tokens[b + 1] + 3)
    IN IF InOrder(tokens, ins, n) /\ (n = 2 \/ InOrder(tokens, outs, n))
       THEN [inputs |-> [p \in 1 .. n |-> List(tokens, ins[p])],
             outputs |-> IF n = 2 THEN <<Sublist(tokens, outAt + 1, tokens[outAt])>>
                                  ELSE [p \in 1 .. n |-> List(tokens, outs[p])],
             gates |-> [j \in 1 .. tokens[1] |->
                LET b == at[j]
                    inFan == tokens[b]
                    outFan == tokens[b + 1]
                IN [inputs |-> Sublist(tokens, b + 2, inFan),
                    outputs |-> Sublist(tokens, b + 2 + inFan, outFan),
                    table |-> tokens[b + 2 + inFan + outFan]]]]
       ELSE [throws |-> "Circuit file format is wrong"]

(* readCircuitFromFile of the garbled circuits: the lists of inputs may     *)
(* come in any order of the parties, there is one list of outputs, and a    *)
(* gate has one output and one or two inputs.                               *)
InputsOf(tokens, begins, n) ==
    [p \in 1 .. n |-> List(tokens, begins[CHOOSE j \in 1 .. n : tokens[begins[j]] = p])]

FileGate(tokens, b) ==
    LET inFan == tokens[b]
        more == IF inFan # 1 THEN 1 ELSE 0
    IN [inFan |-> inFan,
        input0 |-> tokens[b + 2],
        input1 |-> IF inFan # 1 THEN tokens[b + 3] ELSE -1,
        output |-> tokens[b + 3 + more],
        table |-> tokens[b + 4 + more]]

readCircuitFromFile(tokens) ==
    LET n == tokens[2]
        ins == Begins(tokens, 3, n)
        inputs == InputsOf(tokens, ins, n)
        outAt == ins[n + 1]
        gatesAt == outAt + 1 + tokens[outAt]
        at == GatesBegin(tokens, gatesAt, tokens[1], LAMBDA b : IF tokens[b] # 1 THEN 6 ELSE 5)
    IN [numberOfGates |-> tokens[1],
        inputIndices |-> FlattenSeq(inputs),
        outputIndices |-> Sublist(tokens, outAt + 1, tokens[outAt]),
        gates |-> [j \in 0 .. tokens[1] - 1 |-> FileGate(tokens, at[j + 1])]]

(* What a circuit read by BooleanCircuit is to a garbled circuit.           *)
GarbledForm(c) ==
    [numberOfGates |-> Len(c.gates),
     inputIndices |-> FlattenSeq(c.inputs),
     outputIndices |-> c.outputs[1],
     gates |-> [j \in 0 .. Len(c.gates) - 1 |->
        LET gate == c.gates[j + 1]
        IN [inFan |-> Len(gate.inputs), input0 |-> gate.inputs[1],
            input1 |-> IF Len(gate.inputs) = 1 THEN -1 ELSE gate.inputs[2],
            output |-> gate.outputs[1], table |-> gate.table]]]

-----------------------------------------------------------------------------
(* ArithmeticCircuit::readCircuit: a gate for every input wire, the gates   *)
(* of the file, and a gate for every output wire of every party.            *)
INPUT == 0
MULT == 2
OUTPUT == 3
SCALAR == 5
SCALAR_ADD == 7

InputGate(w, p) == [gateType |-> INPUT, inputIndices |-> <<>>, output |-> w, party |-> p - 1]
OutputGate(w, p) == [gateType |-> OUTPUT, inputIndices |-> <<w>>, output |-> 0, party |-> p - 1]
ArithmeticGate(tokens, b) ==
    LET inFan == tokens[b]
    IN [gateType |-> tokens[b + 3 + inFan], inputIndices |-> Sublist(tokens, b + 2, inFan),
        output |-> tokens[b + 2 + inFan], party |-> -1]

OfParties(lists, Make(_, _)) ==
    FlattenSeq([p \in DOMAIN lists |-> [k \in DOMAIN lists[p] |-> Make(lists[p][k], p)]])

readCircuitGates(tokens) ==
    LET n == tokens[2]
        ins == Begins(tokens, 3, n)
        outs == Begins(tokens, ins[n + 1], n)
        at == GatesBegin(tokens, outs[n + 1], tokens[1], LAMBDA b : tokens[b] + 4)
        inputGates == OfParties(InputsOf(tokens, ins, n), InputGate)
        outputGates == OfParties(InputsOf(tokens, outs, n), OutputGate)
        all == inputGates \o [j \in 1 .. tokens[1] |-> ArithmeticGate(tokens, at[j])] \o outputGates
    IN [gates |-> [j \in 0 .. Len(all) - 1 |-> all[j + 1]],
        nrOfInputGates |-> Len(inputGates), nrOfOutputGates |-> Len(outputGates)]
=============================================================================
