---------------------------- MODULE GarbledCircuit ----------------------------
(***************************************************************************)
(* A boolean circuit, evaluated in the clear (BooleanCircuit) and garbled  *)
(* (the six classes of GarbledCircuitFactory and the class without         *)
(* intrinsics).                                                            *)
(*                                                                         *)
(* Every object of Objects holds the same circuit.  One of them garbles;   *)
(* its tables, translation table and keys are handed to the other, which   *)
(* computes on one key per input wire or verifies on both.  The loops over *)
(* the gates are stepped gate by gate.  labels keeps both keys of every    *)
(* wire of the garbling whose tables an object holds: callers see those of *)
(* the input and output wires only.                                        *)
(***************************************************************************)
EXTENDS GarbledGates, CircuitFiles, FiniteSets

CONSTANTS
    Setups,     \* the class, the circuit and its file, isNonXorOutputsRequired,
                \* the seeds garble may draw and the bound maxCalls on the calls
    Objects,    \* the GarbledBooleanCircuit objects
    OtherFiles, \* files for another number of parties, which only BooleanCircuit reads
    Heap,       \* what uninitialised memory may hold
    NoValue     \* a wire that is not in the map computedWires

VARIABLES
    setup,
    pc, obj,                \* the call that runs, and its object
    i, nonXorIndex, xorIndex,   \* the locals of the loop over the gates
    aesSeedKey, deltaFreeXor, garbledWires,
    garbledTables, translationTable, computedWires,
    held, labels,           \* whose garbling the object holds, and its keys
    isInputSet, values, evaluated,  \* BooleanCircuit: its map computedWires
    answer, verdict,        \* what translate and verify returned
    calls                   \* calls so far; the setup bounds them

local == <<obj, i, nonXorIndex, xorIndex>>
keyVars == <<aesSeedKey, deltaFreeXor, garbledWires>>
tableVars == <<garbledTables, translationTable, held, labels>>
plainVars == <<isInputSet, values, evaluated>>
results == <<answer, verdict>>
vars == <<setup, calls, pc, local, keyVars, tableVars, computedWires, plainVars, results>>

-----------------------------------------------------------------------------
cls == setup.cls
gates == setup.gates
inputIndices == setup.inputIndices
outputIndices == setup.outputIndices
isNonXorOutputsRequired == setup.nonXor
numberOfGates == setup.numberOfGates
numberOfInputs == Len(inputIndices)
Inputs == {inputIndices[k] : k \in 1 .. numberOfInputs}
Wires == Inputs \cup {gates[j].output : j \in DOMAIN gates}
AllWires == Wires \cup {-1}
Gate(j) == garbledGate(gates[j])

isFreeXor == cls \notin {"Standard", "FourToTwo"}
numOfRows == CASE cls \in {"Standard", "FreeXor"} -> 4
               [] cls = "RowReduction" -> 3
               [] cls \notin {"Standard", "FreeXor", "RowReduction"} -> 2

(* What readCircuitFromFile counts, and the gates that have an entry in     *)
(* garbledTables.                                                           *)
XorGates == {j \in DOMAIN gates : IsXor(Gate(j)) /\ Gate(j).input1 # -1}
NotGates == {j \in DOMAIN gates : IsXor(Gate(j)) /\ Gate(j).input1 = -1}
numOfXorGatesMut == Cardinality(XorGates \cup NotGates)
numOfXorGates == Cardinality(XorGates)
numOfNotGates == Cardinality(NotGates)
numOfTables == numberOfGates - numOfXorGates - numOfNotGates
HasRows(j) ==
    CASE cls = "Standard" -> TRUE
      [] cls = "FourToTwo" -> ~IsNot(Gate(j))
      [] isFreeXor -> ~IsXor(Gate(j))

(* createCircuitMemory: the blocks of garbledTables.  The four-to-two class *)
(* has a byte more for every AND gate.                                      *)
OutputBlocks == IF isNonXorOutputsRequired THEN 2 * Len(outputIndices) ELSE 0
StandardMemory == numberOfGates * 4
FreeXorMemory == numOfTables * 4 + OutputBlocks
RowReductionMemory == numOfTables * 3 + OutputBlocks
HalfGatesMemory == numOfTables * 2 + OutputBlocks
NoFixedKeyMemory == numOfTables * 2
NoIntrinsicsMemory == numOfTables * 2 + OutputBlocks
FourToTwoMemory == (numOfTables * 33) \div 16 + 1 + numOfXorGates
Memory ==
    CASE cls = "Standard" -> StandardMemory
      [] cls = "FreeXor" -> FreeXorMemory
      [] cls = "RowReduction" -> RowReductionMemory
      [] cls = "HalfGates" -> HalfGatesMemory
      [] cls = "NoFixedKey" -> NoFixedKeyMemory
      [] cls = "NoIntrinsics" -> NoIntrinsicsMemory
      [] cls = "FourToTwo" -> FourToTwoMemory

(* garbledWires of a free-xor circuit holds key 0 only.                     *)
Keys(o, w) ==
    IF isFreeXor THEN Both(garbledWires[o][w][0], deltaFreeXor[o]) ELSE garbledWires[o][w]

ZeroKeys == [v \in Bit |-> ZERO_BLOCK]

(* createCircuit and createCircuitMemory: the arrays are cleared, the       *)
(* member deltaFreeXor and the key schedule are not initialised.            *)
createCircuit ==
    /\ setup \in Setups
    /\ garbledWires = [o \in Objects |-> [w \in AllWires |-> ZeroKeys]]
    /\ computedWires = [o \in Objects |-> [w \in AllWires |-> ZERO_BLOCK]]
    /\ garbledTables = [o \in Objects |-> [r \in 0 .. 2 * Len(outputIndices) + numberOfGates |->
                                             ZERO_BLOCK]]
    /\ translationTable = [o \in Objects |-> <<>>]
    /\ \E heap \in Heap : /\ deltaFreeXor = [o \in Objects |-> heap]
                          /\ aesSeedKey = [o \in Objects |-> heap]

GarbledInit ==
    /\ createCircuit
    /\ pc = "idle" /\ obj \in Objects
    /\ i = 0 /\ nonXorIndex = 0 /\ xorIndex = 0
    /\ held = [o \in Objects |-> "none"]
    /\ labels = garbledWires
    /\ isInputSet = [p \in DOMAIN setup.parties |-> setup.parties[p] = {}]
    /\ values = [w \in Wires |-> NoValue]
    /\ evaluated = FALSE
    /\ answer = <<>> /\ verdict = TRUE
    /\ calls = 0

Call == pc = "idle" /\ calls < setup.maxCalls /\ calls' = calls + 1

Start(call, o) ==
    /\ Call
    /\ pc' = call
    /\ obj' = o
    /\ i' = 0 /\ nonXorIndex' = 0 /\ xorIndex' = 0

(* The end of an iteration: a gate with an entry moves to the next one.     *)
NextGate ==
    /\ i' = i + 1
    /\ xorIndex' = xorIndex + (IF HasRows(i) /\ cls = "FourToTwo" /\ IsXor(Gate(i)) THEN 1 ELSE 0)
    /\ nonXorIndex' = nonXorIndex + (IF HasRows(i) THEN 1 ELSE 0) - (xorIndex' - xorIndex)
    /\ UNCHANGED <<pc, obj>>
row == nonXorIndex + xorIndex

-----------------------------------------------------------------------------
(* BooleanCircuit::setInputs: the first call inserts and keeps what the map *)
(* has, the later ones overwrite.                                           *)
setInputs(p, bits) ==
    /\ Call
    /\ values' = [w \in Wires |->
                    IF w \in setup.parties[p] /\ (isInputSet[p] \/ values[w] = NoValue)
                    THEN bits[w] ELSE values[w]]
    /\ isInputSet' = [isInputSet EXCEPT ![p] = TRUE]
    /\ evaluated' = FALSE
    /\ UNCHANGED <<setup, pc, local, keyVars, tableVars, computedWires, results>>

(* BooleanCircuit::compute throws while an input is missing.                *)
PlainStart ==
    /\ \A p \in DOMAIN setup.parties : isInputSet[p]
    /\ Start("plain", obj)
    /\ UNCHANGED <<setup, keyVars, tableVars, computedWires, plainVars, results>>

calculateIndexOfTruthTable(g) ==
    IF g.inFan = 1 THEN values[g.input0] ELSE 2 * values[g.input0] + values[g.input1]

PlainGate ==
    /\ pc = "plain" /\ i < numberOfGates
    /\ values' = [values EXCEPT ![gates[i].output] =
                    gates[i].table[calculateIndexOfTruthTable(gates[i]) + 1]]
    /\ i' = i + 1
    /\ UNCHANGED <<setup, calls, pc, obj, nonXorIndex, xorIndex, keyVars, tableVars,
                   computedWires, isInputSet, evaluated, results>>

PlainEnd ==
    /\ pc = "plain" /\ i = numberOfGates
    /\ evaluated' = TRUE
    /\ pc' = "idle"
    /\ UNCHANGED <<setup, calls, local, keyVars, tableVars, computedWires, isInputSet, values, results>>

-----------------------------------------------------------------------------
(* initAesEncryptionsAndAllKeys / initAesEncryptionsAndInputKeys: what the  *)
(* seed gives to delta, to wire -1 and to the input wires.                  *)
IndexOf(w) == (CHOOSE k \in 1 .. numberOfInputs : inputIndices[k] = w) - 1
SeedBlock(seed, k) == Aes(seed, set_epi32(0, k))
SeedDelta(seed) == OrOne(Aes(seed, Aes(seed, ZERO_BLOCK)))

(* Every wire has its two blocks; key 0 takes its first byte from key 1,    *)
(* and key 1 of wire -1 is zero.                                            *)
StandardKeys(seed) ==
    [w \in AllWires |->
        LET key1 == IF w = -1 THEN ZERO_BLOCK ELSE SeedBlock(seed, 2 * w + 3)
        IN [v \in Bit |-> IF v = 1 THEN key1
                          ELSE setSignalBit(key1, SeedBlock(seed, 2 * w + 2))]]

(* The chunk has one block per non-xor gate and is read once per input: an  *)
(* input beyond it gets what lies behind the array.                         *)
FreeXorChunk(seed, k, heap) == IF k < numOfTables THEN SeedBlock(seed, k) ELSE heap
FreeXorKeys(o, seed, heap) ==
    [w \in AllWires |->
        CASE w = -1 -> Both(SeedDelta(seed), SeedDelta(seed))
          [] w \in Inputs -> Both(FreeXorChunk(seed, IndexOf(w), heap), SeedDelta(seed))
          [] w \notin Inputs \cup {-1} -> garbledWires[o][w]]

RowReductionKeys(o, seed) ==
    [w \in AllWires |->
        CASE w = -1 -> Both(SeedDelta(seed), SeedDelta(seed))
          [] w \in Inputs -> Both(SeedBlock(seed, IndexOf(w)), SeedDelta(seed))
          [] w \notin Inputs \cup {-1} -> garbledWires[o][w]]

HalfGatesKeys(o, seed) == RowReductionKeys(o, seed)
NoFixedKeyKeys(o, seed) == RowReductionKeys(o, seed)

NoIntrinsicsKeys(o, seed) ==
    [w \in AllWires |->
        CASE w = -1 -> Both(SeedDelta(seed), SeedDelta(seed))
          [] w \in Inputs -> Both(Aes(seed, SecondLong(IndexOf(w))), SeedDelta(seed))
          [] w \notin Inputs \cup {-1} -> garbledWires[o][w]]

(* Key 0 of an input is assigned twice; key 1 keeps what the caller's       *)
(* buffer held, but for its first byte.                                     *)
FourToTwoKeys(o, seed, heap) ==
    [w \in AllWires |->
        CASE w = -1 -> [v \in Bit |-> IF v = 1 THEN ZERO_BLOCK ELSE Aes(seed, set_epi32(0, -1))]
          [] w \in Inputs ->
               LET key0 == SeedBlock(seed, 2 * IndexOf(w) + 1)
               IN [v \in Bit |-> IF v = 0 THEN key0 ELSE setSignalBit(key0, heap)]
          [] w \notin Inputs \cup {-1} -> garbledWires[o][w]]

GarbleStart(o, seed, heap) ==
    /\ Start("garble", o)
    /\ aesSeedKey' = [aesSeedKey EXCEPT ![o] = seed]
    /\ deltaFreeXor' = [deltaFreeXor EXCEPT ![o] = IF isFreeXor THEN SeedDelta(seed) ELSE @]
    /\ garbledWires' = [garbledWires EXCEPT ![o] =
                          CASE cls = "Standard" -> StandardKeys(seed)
                            [] cls = "FreeXor" -> FreeXorKeys(o, seed, heap)
                            [] cls = "RowReduction" -> RowReductionKeys(o, seed)
                            [] cls = "HalfGates" -> HalfGatesKeys(o, seed)
                            [] cls = "NoFixedKey" -> NoFixedKeyKeys(o, seed)
                            [] cls = "NoIntrinsics" -> NoIntrinsicsKeys(o, seed)
                            [] cls = "FourToTwo" -> FourToTwoKeys(o, seed, heap)]
    /\ held' = [held EXCEPT ![o] = "none"]
    /\ UNCHANGED <<setup, garbledTables, translationTable, labels, computedWires, plainVars, results>>

(* The signal bit of an AND output of the four-to-two class: the byte       *)
(* nonXorIndex behind the input keys of the chunk.                          *)
output0SignalBit(seed) ==
    LET bytes == Width \div ByteBits
    IN IF (nonXorIndex % bytes) * ByteBits \in
             SeedBlock(seed, 2 * numberOfInputs + nonXorIndex \div bytes)
       THEN 1 ELSE 0

GarbledGate(o) ==
    LET g == Gate(i)
        A == Keys(o, g.input0)
        B == Keys(o, g.input1)
        d == deltaFreeXor[o]
        n == numberOfGates
    IN CASE cls = "Standard" -> StandardGarbleGate(g, i, A, B, garbledWires[o][g.output])
         [] cls = "FreeXor" ->
              FreeXorGarbleGate(g, i, A, B, SeedBlock(aesSeedKey[o], nonXorIndex), d)
         [] cls = "RowReduction" -> RowReductionGarbleGate(g, i, A, B, d)
         [] cls = "HalfGates" -> HalfGatesGarbleGate(g, i, n, A, B, d)
         [] cls = "NoFixedKey" -> NoFixedKeyGarbleGate(g, i, n, A, B, d)
         [] cls = "NoIntrinsics" -> NoIntrinsicsGarbleGate(g, i, n, A, B, d)
         [] cls = "FourToTwo" ->
              FourToTwoGarbleGate(g, i, A, B, output0SignalBit(aesSeedKey[o]))

GarbleGate ==
    /\ pc = "garble" /\ i < numberOfGates
    /\ garbledWires' = [garbledWires EXCEPT ![obj][gates[i].output] = GarbledGate(obj).out]
    /\ garbledTables' = IF HasRows(i)
                        THEN [garbledTables EXCEPT ![obj][row] = GarbledGate(obj).rows]
                        ELSE garbledTables
    /\ NextGate
    /\ UNCHANGED <<setup, calls, aesSeedKey, deltaFreeXor, translationTable, held, labels,
                   computedWires, plainVars, results>>

(* garbleOutputWiresToNoFixedDelta: an output gets a key of its own beside  *)
(* the key of its wire with signal bit 0 or 1, and a row for each.          *)
OutputTweak(k) == set_epi32(0, numberOfGates - numOfXorGates + k - 1)
NewOutputKeys(key0, fresh) ==
    [v \in Bit |-> IF getSignalBitOf(key0) = v THEN key0
                   ELSE IF v = 0 THEN ClearByte(fresh) ELSE OrOne(fresh)]
OutputRows(wireKeys, outKeys, k) ==
    [x \in Bit |-> LET v == SignalBits(wireKeys)[x]
                   IN Hash(slli(wireKeys[v]) (+) OutputTweak(k)) (+) outKeys[v]]

FreshOutput(seed, k) == Aes(seed, OutputTweak(k))
OutputKeys(o, k) ==
    LET keys == Keys(o, outputIndices[k])
    IN IF isNonXorOutputsRequired
       THEN NewOutputKeys(keys[0], FreshOutput(aesSeedKey[o], k)) ELSE keys

(* The output keys, their rows behind those of the gates, and the           *)
(* translation table: the signal bit of key 0 of every output.              *)
GarbleEnd ==
    /\ pc = "garble" /\ i = numberOfGates
    /\ garbledTables' =
         IF isNonXorOutputsRequired
         THEN [garbledTables EXCEPT ![obj] =
                 [r \in DOMAIN garbledTables[obj] |->
                    IF r - row \in 0 .. Len(outputIndices) - 1
                    THEN OutputRows(Keys(obj, outputIndices[r - row + 1]),
                                    OutputKeys(obj, r - row + 1), r - row + 1)
                    ELSE garbledTables[obj][r]]]
         ELSE garbledTables
    /\ translationTable' =
         [translationTable EXCEPT ![obj] =
            [k \in 1 .. Len(outputIndices) |-> getSignalBitOf(OutputKeys(obj, k)[0])]]
    /\ labels' = [labels EXCEPT ![obj] = [w \in AllWires |-> Keys(obj, w)]]
    /\ held' = [held EXCEPT ![obj] = "own"]
    /\ pc' = "idle"
    /\ UNCHANGED <<setup, calls, local, keyVars, computedWires, plainVars, results>>

(* getGarbledTables and getTranslationTable of o go over the network into   *)
(* setGarbledTables and setTranslationTable of p.                           *)
Send(o, p) ==
    /\ pc = "idle" /\ held[o] # "none" /\ o # p
    /\ garbledTables' = [garbledTables EXCEPT ![p] = garbledTables[o]]
    /\ translationTable' = [translationTable EXCEPT ![p] = translationTable[o]]
    /\ labels' = [labels EXCEPT ![p] = labels[o]]
    /\ held' = [held EXCEPT ![p] = "sent"]
    /\ UNCHANGED <<setup, calls, pc, local, keyVars, computedWires, plainVars, results>>

-----------------------------------------------------------------------------
(* compute: the caller passes the key of the value of every input wire.     *)
ComputeStart(o) ==
    /\ evaluated /\ held[o] # "none"
    /\ Start("compute", o)
    /\ computedWires' = [computedWires EXCEPT ![o] =
                           [w \in AllWires |-> IF w \in Inputs THEN labels[o][w][values[w]] ELSE @[w]]]
    /\ UNCHANGED <<setup, keyVars, tableVars, plainVars, results>>

ComputedGate(o) ==
    LET g == Gate(i)
        rows == garbledTables[o][row]
        A == computedWires[o][g.input0]
        B == computedWires[o][g.input1]
        n == numberOfGates
    IN CASE cls \in {"Standard", "FreeXor", "RowReduction"} ->
              FixedKeyComputeGate(g, i, rows, A, B, isFreeXor, numOfRows)
         [] cls = "HalfGates" -> HalfGatesComputeGate(g, i, n, rows, A, B)
         [] cls = "NoFixedKey" -> NoFixedKeyComputeGate(g, i, n, rows, A, B)
         [] cls = "NoIntrinsics" -> NoIntrinsicsComputeGate(g, i, n, rows, A, B)
         [] cls = "FourToTwo" -> FourToTwoComputeGate(g, i, rows, A, B)

ComputeGate ==
    /\ pc = "compute" /\ i < numberOfGates
    /\ computedWires' = [computedWires EXCEPT ![obj][gates[i].output] = ComputedGate(obj)]
    /\ NextGate
    /\ UNCHANGED <<setup, calls, keyVars, tableVars, plainVars, results>>

(* computeOutputWiresToNoFixedDelta, or the keys of the output wires.       *)
Output(o, k) ==
    LET key == computedWires[o][outputIndices[k]]
    IN IF isNonXorOutputsRequired
       THEN Hash(slli(key) (+) OutputTweak(k)) (+) garbledTables[o][row + k - 1][getSignalBitOf(key)]
       ELSE key

(* Mutant: the translation table is not consulted.                          *)
translateMut(o, keys) ==
    [k \in 1 .. Len(outputIndices) |-> getSignalBitOf(keys[k])]

translate(o, keys) ==
    [k \in 1 .. Len(outputIndices) |-> (getSignalBitOf(keys[k]) + translationTable[o][k]) % 2]

ComputeEnd ==
    /\ pc = "compute" /\ i = numberOfGates
    /\ answer' = translate(obj, [k \in 1 .. Len(outputIndices) |-> Output(obj, k)])
    /\ pc' = "answered"
    /\ UNCHANGED <<setup, calls, local, keyVars, tableVars, computedWires, plainVars, verdict>>

-----------------------------------------------------------------------------
(* Mutant: delta is left from the object's own garbling.                    *)
VerifyStartMutDelta(o) ==
    /\ held[o] # "none"
    /\ Start("verify", o)
    /\ garbledWires' = [garbledWires EXCEPT ![o] =
                          [w \in AllWires |-> IF w \in Inputs /\ cls \notin {"NoFixedKey", "FourToTwo"}
                                              THEN labels[o][w] ELSE @[w]]]
    /\ UNCHANGED <<setup, aesSeedKey, deltaFreeXor, tableVars, computedWires, plainVars, results>>

(* internalVerify: the half-gates classes take delta from the keys of the   *)
(* first input wire; two classes do not look at the keys they are given.    *)
VerifyStart(o) ==
    /\ held[o] # "none"
    /\ Start("verify", o)
    /\ deltaFreeXor' = [deltaFreeXor EXCEPT ![o] =
                          IF cls \in {"HalfGates", "NoFixedKey", "NoIntrinsics"}
                          THEN labels[o][inputIndices[1]][0] (+) labels[o][inputIndices[1]][1] ELSE @]
    /\ garbledWires' = [garbledWires EXCEPT ![o] =
                          [w \in AllWires |-> IF w \in Inputs /\ cls \notin {"NoFixedKey", "FourToTwo"}
                                              THEN labels[o][w] ELSE @[w]]]
    /\ UNCHANGED <<setup, aesSeedKey, tableVars, computedWires, plainVars, results>>

VerifiedGate(o, heap) ==
    LET g == Gate(i)
        rows == garbledTables[o][row]
        A == Keys(o, g.input0)
        B == Keys(o, g.input1)
        old == garbledWires[o][g.output]
        d == deltaFreeXor[o]
        n == numberOfGates
    IN CASE cls = "Standard" -> StandardVerifyGate(g, i, rows, A, B, old)
         [] cls = "FreeXor" -> FreeXorVerifyGate(g, i, rows, A, B, old, d)
         [] cls = "RowReduction" -> RowReductionVerifyGate(g, i, rows, A, B, old, d)
         [] cls = "HalfGates" -> HalfGatesVerifyGate(g, i, n, rows, A, B, d)
         [] cls = "NoFixedKey" -> NoFixedKeyVerifyGate(g, i, n, rows, A, B, old, d)
         [] cls = "NoIntrinsics" -> NoIntrinsicsVerifyGate(g, i, n, rows, A, B, d, heap)
         [] cls = "FourToTwo" -> FourToTwoVerifyGate(g, i, rows, A, B, old)

VerifyGate(heap) ==
    LET r == VerifiedGate(obj, heap)
    IN /\ pc = "verify" /\ i < numberOfGates
       /\ garbledWires' = [garbledWires EXCEPT ![obj][gates[i].output] = r.out]
       /\ IF r.ok THEN NextGate /\ UNCHANGED verdict
                  ELSE pc' = "verified" /\ verdict' = FALSE /\ UNCHANGED local
       /\ UNCHANGED <<setup, calls, aesSeedKey, deltaFreeXor, tableVars, computedWires, plainVars, answer>>

(* verifyOutputWiresToNoFixedDelta replaces the key whose signal bit is not *)
(* that of key 0; only the row-reduction class calls it.                    *)
VerifiedOutput(o, k) ==
    LET keys == Keys(o, outputIndices[k])
        fresh == FreshOutput(aesSeedKey[o], k)
    IN IF ~isNonXorOutputsRequired \/ cls # "RowReduction" THEN keys
       ELSE IF getSignalBitOf(keys[0]) = 0 THEN [keys EXCEPT ![1] = OrOne(fresh)]
                                           ELSE [keys EXCEPT ![0] = ClearByte(fresh)]

verifyTranslationTable(o) ==
    \A k \in 1 .. Len(outputIndices) : \A v \in Bit :
        (translationTable[o][k] + getSignalBitOf(VerifiedOutput(o, k)[v])) % 2 = v

VerifyEnd ==
    /\ pc = "verify" /\ i = numberOfGates
    /\ verdict' = verifyTranslationTable(obj)
    /\ pc' = "verified"
    /\ UNCHANGED <<setup, calls, local, keyVars, tableVars, computedWires, plainVars, answer>>

(* The caller takes the result.                                             *)
Return ==
    /\ pc \in {"answered", "verified"}
    /\ pc' = "idle" /\ answer' = <<>> /\ verdict' = TRUE
    /\ UNCHANGED <<setup, calls, local, keyVars, tableVars, computedWires, plainVars>>

GarbledNext ==
    \/ \E p \in DOMAIN setup.parties : \E bits \in [setup.parties[p] -> Bit] : setInputs(p, bits)
    \/ PlainStart \/ PlainGate \/ PlainEnd
    \/ \E o \in Objects, seed \in setup.seeds, heap \in Heap : GarbleStart(o, seed, heap)
    \/ GarbleGate \/ GarbleEnd
    \/ \E o, p \in Objects : Send(o, p)
    \/ \E o \in Objects : ComputeStart(o) \/ VerifyStart(o)
    \/ ComputeGate \/ ComputeEnd
    \/ \E heap \in Heap : VerifyGate(heap)
    \/ VerifyEnd \/ Return

GarbledSpec == GarbledInit /\ [][GarbledNext]_vars

-----------------------------------------------------------------------------
(* The three loops over a file agree, before anything is computed with the  *)
(* circuit they give: BooleanCircuit reads what it wrote, and what it reads *)
(* is the circuit that the garbled circuits read from the same file.        *)
FilesAgree ==
    calls = 0 =>
        /\ \A f \in OtherFiles \cup {setup.file} : write(BooleanCircuit(f)) = f
        /\ readCircuitFromFile(setup.file) = GarbledForm(BooleanCircuit(setup.file))

(* Garbling is correct: in every class, whichever object garbled, from      *)
(* whatever seed and however often, compute followed by translate gives the *)
(* values that BooleanCircuit::compute gives on the same inputs.            *)
EvaluatesCircuit ==
    pc = "answered" => answer = [k \in 1 .. Len(outputIndices) |-> values[outputIndices[k]]]

(* Where gate i and the outputs have their blocks in garbledTables.         *)
EntryEnd ==
    IF cls # "FourToTwo" THEN numOfRows * (row + 1)
    ELSE 2 * nonXorIndex + xorIndex + (IF IsXor(Gate(i)) THEN 1 ELSE 2)
MaskByte == (2 * numOfTables + numOfXorGates) * 16 + nonXorIndex

(* Every loop stays inside the memory that the constructor counted out for  *)
(* the tables: the entry of each gate it writes or opens, the rows of the   *)
(* outputs, and, behind all entries, the masks of the four-to-two class.    *)
InsideTables ==
    pc \in {"garble", "compute", "verify"} =>
        IF i < numberOfGates
        THEN HasRows(i) =>
                /\ EntryEnd <= Memory
                /\ cls = "FourToTwo" =>
                     /\ EntryEnd <= 2 * numOfTables + numOfXorGates
                     /\ ~IsXor(Gate(i)) => MaskByte < 16 * Memory
        ELSE isNonXorOutputsRequired => numOfRows * row + 2 * Len(outputIndices) <= Memory

(* The garblings that verify recognises: those the object made itself; and  *)
(* those it was sent, in the classes that take everything from the keys     *)
(* they are given, if no gate needs wire -1 and every gate has both values. *)
BothValues(g) == {g.bits[x][y] : x \in Bit, y \in Bit} = Bit
Recognised(o) ==
    \/ held[o] = "own" /\ cls # "NoIntrinsics" /\ ~isNonXorOutputsRequired
    \/ /\ held[o] = "sent" /\ cls \in {"Standard", "HalfGates"} /\ ~isNonXorOutputsRequired
       /\ \A j \in DOMAIN gates : ~IsNot(Gate(j)) /\ BothValues(Gate(j))

(* verify accepts the garblings of Recognised, after any number of earlier  *)
(* calls on the object: no call leaves a wire key or a delta behind that    *)
(* turns a correct garbling into a rejected one.                            *)
VerifyAccepts == pc = "verified" /\ Recognised(obj) => verdict
=============================================================================
