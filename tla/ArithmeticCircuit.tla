--------------------------- MODULE ArithmeticCircuit ---------------------------
(***************************************************************************)
(* ArithmeticCircuit: reading a circuit and putting its gates in the order *)
(* of their layers.  The protocols that use it open one round of           *)
(* communication per layer: what a multiplication gives may only be used   *)
(* in a later layer, everything else at once.                              *)
(*                                                                         *)
(* gateDoneArr and isWireReady are the sets of the indexes that are true.  *)
(***************************************************************************)
EXTENDS CircuitFiles, FiniteSets

CONSTANTS
    Files,      \* the files of arithmetic circuits
    MaxArranged \* bound: calls of reArrangeCircuit

VARIABLES
    file, step,
    gates, nrOfInputGates, nrOfOutputGates, layersIndices,
    newOrderedIndices, gateDoneArr, isWireReady, count, loopCount, k,
    arranged,   \* calls of reArrangeCircuit that have returned
    layersFrom  \* the length of layersIndices when the last one began

circuitVars == <<gates, nrOfInputGates, nrOfOutputGates>>
arrangeVars == <<newOrderedIndices, gateDoneArr, isWireReady, count, loopCount, k>>
arithVars == <<file, step, circuitVars, layersIndices, arrangeVars, arranged, layersFrom>>

getNrOfGates == Cardinality(DOMAIN gates)
firstOutput == getNrOfGates - nrOfOutputGates

(* The wires that have to be ready before a gate is placed: the second      *)
(* input of a scalar gate is its constant.                                  *)
Needs(g) ==
    IF g.gateType \in {SCALAR, SCALAR_ADD} THEN {g.inputIndices[1]}
    ELSE {g.inputIndices[1], g.inputIndices[2]}

-----------------------------------------------------------------------------
ArithInit ==
    /\ file \in Files
    /\ step = "new"
    /\ gates = <<>> /\ nrOfInputGates = 0 /\ nrOfOutputGates = 0 /\ layersIndices = <<>>
    /\ newOrderedIndices = <<>> /\ gateDoneArr = {} /\ isWireReady = {}
    /\ count = 0 /\ loopCount = 0 /\ k = 0
    /\ arranged = 0 /\ layersFrom = 0

readCircuit ==
    /\ step = "new" /\ step' = "idle"
    /\ LET c == readCircuitGates(file)
       IN /\ gates' = c.gates
          /\ nrOfInputGates' = c.nrOfInputGates
          /\ nrOfOutputGates' = c.nrOfOutputGates
    /\ UNCHANGED <<file, layersIndices, arrangeVars, arranged, layersFrom>>

(* The input gates keep their places; wire i is that of input gate i.       *)
reArrangeCircuit ==
    /\ step = "idle" /\ arranged < MaxArranged
    /\ step' = "while"
    /\ newOrderedIndices' = [j \in DOMAIN gates |->
                               IF j < nrOfInputGates \/ j >= firstOutput THEN j ELSE 0]
    /\ gateDoneArr' = 0 .. nrOfInputGates - 1
    /\ isWireReady' = 0 .. nrOfInputGates - 1
    /\ count' = nrOfInputGates
    /\ layersFrom' = Len(layersIndices)
    /\ UNCHANGED <<file, circuitVars, layersIndices, loopCount, k, arranged>>

beginPass ==
    /\ step = "while" /\ count < firstOutput
    /\ step' = "for"
    /\ loopCount' = count
    /\ k' = nrOfInputGates
    /\ UNCHANGED <<file, circuitVars, layersIndices, newOrderedIndices, gateDoneArr, isWireReady,
                   count, arranged, layersFrom>>

placeGateMut ==
    /\ k \notin gateDoneArr /\ Needs(gates[k]) \subseteq isWireReady
    /\ newOrderedIndices' = [newOrderedIndices EXCEPT ![count] = k]
    /\ count' = count + 1
    /\ isWireReady' = isWireReady \cup {gates[k].output}

(* The output of a multiplication is not ready in its own layer.            *)
placeGate ==
    /\ k \notin gateDoneArr /\ Needs(gates[k]) \subseteq isWireReady
    /\ newOrderedIndices' = [newOrderedIndices EXCEPT ![count] = k]
    /\ count' = count + 1
    /\ isWireReady' = IF gates[k].gateType = MULT THEN isWireReady
                      ELSE isWireReady \cup {gates[k].output}

skipGate ==
    /\ k \in gateDoneArr \/ ~(Needs(gates[k]) \subseteq isWireReady)
    /\ UNCHANGED <<newOrderedIndices, count, isWireReady>>

considerGate ==
    /\ step = "for" /\ k < firstOutput
    /\ placeGate \/ skipGate
    /\ k' = k + 1
    /\ UNCHANGED <<file, step, circuitVars, layersIndices, gateDoneArr, loopCount, arranged, layersFrom>>

PlacedNow == {newOrderedIndices[i] : i \in loopCount .. count - 1}
endPass ==
    /\ step = "for" /\ k = firstOutput
    /\ step' = "while"
    /\ gateDoneArr' = gateDoneArr \cup PlacedNow
    /\ isWireReady' = isWireReady \cup {gates[j].output : j \in PlacedNow}
    /\ layersIndices' = Append(layersIndices, loopCount)
    /\ UNCHANGED <<file, circuitVars, newOrderedIndices, count, loopCount, k, arranged, layersFrom>>

endArrange ==
    /\ step = "while" /\ count >= firstOutput
    /\ step' = "idle"
    /\ layersIndices' = Append(layersIndices, count)
    /\ gates' = [j \in DOMAIN gates |-> gates[newOrderedIndices[j]]]
    /\ arranged' = arranged + 1
    /\ UNCHANGED <<file, nrOfInputGates, nrOfOutputGates, arrangeVars, layersFrom>>

ArithNext ==
    \/ readCircuit \/ reArrangeCircuit \/ beginPass \/ considerGate \/ endPass \/ endArrange

ArithSpec == ArithInit /\ [][ArithNext]_arithVars

-----------------------------------------------------------------------------
(* "We assume that the gates in the circuit are ordered, i.e., each gate    *)
(* only depends on gates with smaller index" (ArithmeticCircuit.hpp).       *)
Ordered(c) ==
    LET last == Cardinality(DOMAIN c.gates) - c.nrOfOutputGates
    IN /\ \A i, j \in 0 .. last - 1 : c.gates[i].output = c.gates[j].output => i = j
       /\ \A i \in 0 .. c.nrOfInputGates - 1 : c.gates[i].output = i
       /\ \A j \in c.nrOfInputGates .. last - 1 : \A w \in Needs(c.gates[j]) :
            \E i \in 0 .. j - 1 : c.gates[i].output = w

ASSUME FilesAssumption == \A f \in Files : Ordered(readCircuitGates(f))

(* Every pass over the gates places one, so that the loop ends.  When it    *)
(* has ended the gates are those of the file, none stands before a gate it  *)
(* needs, and between a multiplication and a gate that uses the product     *)
(* lies the beginning of a layer.                                           *)
Arranged ==
    /\ step = "for" /\ k = firstOutput => count > loopCount
    /\ step = "idle" /\ arranged > 0 =>
         /\ {gates[j] : j \in DOMAIN gates} =
              {readCircuitGates(file).gates[j] : j \in DOMAIN readCircuitGates(file).gates}
         /\ \A j \in nrOfInputGates .. firstOutput - 1 : \A w \in Needs(gates[j]) :
              \E i \in 0 .. j - 1 :
                /\ gates[i].output = w
                /\ gates[i].gateType = MULT =>
                     \E l \in layersFrom + 1 .. Len(layersIndices) :
                        i < layersIndices[l] /\ layersIndices[l] <= j
=============================================================================
