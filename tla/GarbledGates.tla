----------------------------- MODULE GarbledGates -----------------------------
(***************************************************************************)
(* One gate of a garbled boolean circuit, in the seven classes of          *)
(* src/src/circuits: how garble makes the rows and the output keys of a    *)
(* gate, how compute opens it, and how internalVerify opens it with both   *)
(* keys of every wire.                                                     *)
(*                                                                         *)
(* A block is the set of its 1 bits, so that _mm_xor_si128 is the          *)
(* symmetric difference; bit 0 is the signal bit.  Both keys of a wire are *)
(* a function on Bit.  The position of a block in the byte array           *)
(* garbledTables is abstracted to "the entry of the gate": rows[x][y] is   *)
(* the row of the signal bits x and y.                                     *)
(***************************************************************************)
EXTENDS Integers

CONSTANTS
    Width,      \* bits of a block: two lanes of four words (64 and 32 bits)
    ByteBits,   \* bits of a byte
    Aes(_, _),  \* AES under a key
    FixedKey    \* the key hard coded in the fixed-key classes

Bit == {0, 1}
XOR_GATE == 6
XOR_NOT_GATE == 9
ZERO_BLOCK == {}

a (+) b == (a \ b) \cup (b \ a)

getSignalBitOf(x) == IF 0 \in x THEN 1 ELSE 0

(* The first byte of x with |= 1 and with &= 0, and x with its signal bit s. *)
FirstByte == 0 .. ByteBits - 1
OrOne(x) == x \cup {0}
ClearByte(x) == x \ FirstByte
WithSignal(x, s) == IF s = 1 THEN x \cup {0} ELSE x \ {0}

(* The first byte of wire1 becomes that of wire0 with the signal flipped.   *)
setSignalBit(wire0, wire1) == ClearByte(wire1) \cup ((wire0 \cap FirstByte) (+) {0})

(* Shifts of the two 64-bit lanes by one bit.                               *)
LaneBits == Width \div 2
slli(x) == {k \in 1 .. Width - 1 : k % LaneBits # 0 /\ k - 1 \in x}
srli(x) == {k \in 0 .. Width - 2 : (k + 1) % LaneBits # 0 /\ k + 1 \in x}

(* The word n placed at bit p; _mm_set_epi32(top, 0, 0, low); and a block   *)
(* whose second long is n.                                                  *)
Word(n, p) == {p + k : k \in {k \in 0 .. (Width \div 4) - 1 : (n \div (2 ^ k)) % 2 = 1}}
set_epi32(top, low) == Word(low, 0) \cup Word(top, 3 * (Width \div 4))
SecondLong(n) == Word(n, LaneBits)

-----------------------------------------------------------------------------
(* The truth table of a gate.  table holds the four characters of the file; *)
(* the garbled circuits read them as a decimal number (0110 is 110), turn   *)
(* it into 0 .. 15, and take the bits of that again.                        *)
TypeBin(table) == 1000 * table[1] + 100 * table[2] + 10 * table[3] + table[4]

(* binaryTodecimal, its loop unrolled for the four digits of a table.       *)
Digit(n) == IF n % 10 = 1 THEN 1 ELSE 0
binaryTodecimal(n) ==
    Digit(n) + 2 * Digit(n \div 10) + 4 * Digit(n \div 100) + 8 * Digit(n \div 1000)

getRowTruthTableResultShifts(row, truthTable) ==
    CASE row = 0 -> (truthTable \div 8) % 2
      [] row = 1 -> (truthTable \div 4) % 2
      [] row = 2 -> (truthTable \div 2) % 2
      [] row = 3 -> truthTable % 2

(* A gate of the file with one input is a NOT gate whatever its table says: *)
(* an exclusive or with wire -1, the wire that is always 1.                 *)
garbledGate(g) ==
    LET type == IF g.inFan = 1 THEN XOR_GATE ELSE binaryTodecimal(TypeBin(g.table))
    IN [truthTable |-> type,
        bits |-> [x \in Bit |-> [y \in Bit |->
                    getRowTruthTableResultShifts(2 * x + y, type)]],
        input0 |-> g.input0,
        input1 |-> IF g.inFan = 1 THEN -1 ELSE g.input1,
        output |-> g.output]

IsXor(g) == g.truthTable \in {XOR_GATE, XOR_NOT_GATE}
IsNot(g) == g.truthTable = XOR_GATE /\ g.input1 = -1

-----------------------------------------------------------------------------
(* Both keys of a wire of a free-xor circuit.                               *)
Both(k, delta) == [v \in Bit |-> IF v = 0 THEN k ELSE k (+) delta]

(* signalBitsArray: the bit of value 1 is taken to be the opposite of that  *)
(* of value 0.  It is its own inverse: the value whose key has signal x.    *)
SignalBits(keys) ==
    [v \in Bit |-> IF v = 0 THEN getSignalBitOf(keys[0]) ELSE 1 - getSignalBitOf(keys[0])]

(* A term that is added only when a signal bit is set.                      *)
If(s, x) == IF s = 1 THEN x ELSE ZERO_BLOCK

(* The fixed-key hash, and the key of a row of gate i.                      *)
Hash(k) == Aes(FixedKey, k) (+) k
RowKey(A, B, i) == slli(A) (+) srli(B) (+) set_epi32(0, i)

FourRows(g, i, A, B, out) ==
    [x \in Bit |-> [y \in Bit |->
        LET u == SignalBits(A)[x]
            v == SignalBits(B)[y]
        IN Hash(RowKey(A[u], B[v], i)) (+) out[g.bits[u][v]]]]

(* A gate without rows: the output key is an exclusive or of input keys.    *)
FreeGate(g, A, B, delta) ==
    [rows |-> ZERO_BLOCK,
     out |-> Both(A[0] (+) B[0] (+) If(IF g.truthTable = XOR_NOT_GATE THEN 1 ELSE 0, delta),
                  delta)]

-----------------------------------------------------------------------------
(* garble, one gate of each class.  A and B are both keys of the inputs.    *)
StandardGarbleGate(g, i, A, B, out) ==
    [rows |-> FourRows(g, i, A, B, out), out |-> out]

FreeXorGarbleGate(g, i, A, B, chunkKey, delta) ==
    IF IsXor(g) THEN FreeGate(g, A, B, delta)
    ELSE LET out == Both(chunkKey, delta)
         IN [rows |-> FourRows(g, i, A, B, out), out |-> out]

(* The row of the signal bits 0 and 0 is not stored: it gives the key.      *)
RowReductionGarbleGate(g, i, A, B, delta) ==
    IF IsXor(g) THEN FreeGate(g, A, B, delta)
    ELSE LET u == SignalBits(A)[0]
             v == SignalBits(B)[0]
             key == Hash(RowKey(A[u], B[v], i))
             out == Both(key (+) If(g.bits[u][v], delta), delta)
         IN [rows |-> FourRows(g, i, A, B, out), out |-> out]

(* Two half gates, from the hashes h of the four input keys.                *)
HalfGate(hA, hB, A, B, delta) ==
    LET s0 == getSignalBitOf(A[0])
        s1 == getSignalBitOf(B[0])
        row0 == hA[0] (+) hA[1] (+) If(s1, delta)
        row1 == hB[0] (+) hB[1] (+) A[0]
        tempK0 == hA[0] (+) If(s0, row0)
        tempK1 == hB[0] (+) If(s1, row1 (+) A[0])
    IN [rows |-> [x \in Bit |-> IF x = 0 THEN row0 ELSE row1],
        out |-> Both(tempK0 (+) tempK1, delta)]

HalfGatesHash(k, t) == Hash(slli(k) (+) set_epi32(0, t))
HalfGatesGarbleGate(g, i, n, A, B, delta) ==
    IF IsXor(g) THEN FreeGate(g, A, B, delta)
    ELSE HalfGate([v \in Bit |-> HalfGatesHash(A[v], i)],
                  [v \in Bit |-> HalfGatesHash(B[v], i + n)], A, B, delta)

(* intrin_sequential_ks2_enc2, ks4_enc4: block t under the wire key k.      *)
NoFixedKeyHash(k, t) == Aes(k, set_epi32(0, t))
NoFixedKeyGarbleGate(g, i, n, A, B, delta) ==
    IF IsXor(g) THEN FreeGate(g, A, B, delta)
    ELSE HalfGate([v \in Bit |-> NoFixedKeyHash(A[v], i)],
                  [v \in Bit |-> NoFixedKeyHash(B[v], i + n)], A, B, delta)

NoIntrinsicsHash(k, t) == Hash(slli(k) (+) SecondLong(t))
NoIntrinsicsGarbleGate(g, i, n, A, B, delta) ==
    IF IsXor(g) THEN FreeGate(g, A, B, delta)
    ELSE HalfGate([v \in Bit |-> NoIntrinsicsHash(A[v], i)],
                  [v \in Bit |-> NoIntrinsicsHash(B[v], i + n)], A, B, delta)

(* An exclusive or of the four-to-two class: ciphertexts under the four     *)
(* input keys; the signal bit of the output is put right afterwards.        *)
FourToTwoXor(i, A, B) ==
    LET cA == [v \in Bit |-> Aes(A[v], set_epi32(SignalBits(A)[v], i))]
        cB == [v \in Bit |-> Aes(B[v], set_epi32(SignalBits(B)[v], i))]
        s0 == getSignalBitOf(A[0])
        s1 == getSignalBitOf(B[0])
        deltaOutput == cA[0] (+) cA[1]
        raw == IF s1 = 0 THEN cA[0] (+) cB[0] ELSE cA[1] (+) cB[1]
    IN [rows |-> cB[0] (+) cB[1] (+) deltaOutput,
        raw |-> raw,
        out |-> Both(WithSignal(raw, (s0 + s1) % 2), OrOne(deltaOutput))]

(* The entry of the signal bits x and y, opened with the keys that have     *)
(* them (ks4_enc8, ks2_enc2).                                               *)
Entry(i, x, y, A, B) == Aes(A, set_epi32(2 * x + y, i)) (+) Aes(B, set_epi32(2 * x + y, i))

FourToTwoAnd(i, A, B, output0SignalBit) ==
    LET s0 == SignalBits(A)
        s1 == SignalBits(B)
        e == [x \in Bit |-> [y \in Bit |-> Entry(i, x, y, A[s0[x]], B[s1[y]])]]
        entryXor == [x \in Bit |-> [y \in Bit |-> WithSignal(e[x][y], 0)]]
        other == entryXor[0][1] (+) entryXor[1][0] (+) entryXor[1][1]
        swapped == s0[0] = 1 /\ s1[0] = 1
        signalOf(v) == IF v = 0 THEN output0SignalBit ELSE 1 - output0SignalBit
    IN [rows |->
          [T1 |-> entryXor[s0[0]][0] (+) entryXor[s0[0]][1],
           T2 |-> entryXor[0][s1[0]] (+) entryXor[1][s1[0]],
           mask |-> [x \in Bit |-> [y \in Bit |->
                       (getSignalBitOf(e[x][y]) + signalOf(s0[x] * s1[y])) % 2]]],
        out |-> [v \in Bit |->
                   WithSignal(IF (v = 0) = swapped THEN other ELSE entryXor[0][0],
                              signalOf(v))]]

(* A NOT gate swaps the keys; whatever is neither NOT nor XOR is an AND.    *)
FourToTwoGarbleGate(g, i, A, B, output0SignalBit) ==
    CASE IsNot(g) -> [rows |-> ZERO_BLOCK, out |-> [v \in Bit |-> A[1 - v]]]
      [] ~IsNot(g) /\ g.truthTable = XOR_GATE -> FourToTwoXor(i, A, B)
      [] g.truthTable # XOR_GATE -> FourToTwoAnd(i, A, B, output0SignalBit)

-----------------------------------------------------------------------------
(* compute, one gate: A and B are the single keys of the inputs.            *)
FixedKeyComputeGate(g, i, rows, A, B, isFreeXor, numOfRows) ==
    IF isFreeXor /\ IsXor(g) THEN A (+) B
    ELSE LET x == getSignalBitOf(A)
             y == getSignalBitOf(B)
             key == Hash(RowKey(A, B, i))
         IN IF numOfRows = 3 /\ x = 0 /\ y = 0 THEN key ELSE key (+) rows[x][y]

OpenHalfGate(hA, hB, rows, A, x, y) ==
    hA (+) If(x, rows[0]) (+) (hB (+) If(y, rows[1] (+) A))

HalfGatesComputeGate(g, i, n, rows, A, B) ==
    IF IsXor(g) THEN A (+) B
    ELSE OpenHalfGate(HalfGatesHash(A, i), HalfGatesHash(B, i + n), rows, A,
                      getSignalBitOf(A), getSignalBitOf(B))

NoFixedKeyComputeGate(g, i, n, rows, A, B) ==
    IF IsXor(g) THEN A (+) B
    ELSE OpenHalfGate(NoFixedKeyHash(A, i), NoFixedKeyHash(B, i + n), rows, A,
                      getSignalBitOf(A), getSignalBitOf(B))

NoIntrinsicsComputeGate(g, i, n, rows, A, B) ==
    IF IsXor(g) THEN A (+) B
    ELSE OpenHalfGate(NoIntrinsicsHash(A, i), NoIntrinsicsHash(B, i + n), rows, A,
                      getSignalBitOf(A), getSignalBitOf(B))

OpenAnd(i, rows, A, B, x, y) ==
    LET entryXor == Entry(i, x, y, A, B)
    IN WithSignal(entryXor (+) If(y, rows.T1) (+) If(x, rows.T2),
                  (rows.mask[x][y] + getSignalBitOf(entryXor)) % 2)

FourToTwoComputeGate(g, i, rows, A, B) ==
    LET x == getSignalBitOf(A)
        y == getSignalBitOf(B)
    IN CASE IsNot(g) -> A
         [] ~IsNot(g) /\ g.truthTable = XOR_GATE ->
              WithSignal(Aes(A, set_epi32(x, i)) (+) Aes(B, set_epi32(y, i)) (+) If(y, rows),
                         (x + y) % 2)
         [] g.truthTable # XOR_GATE -> OpenAnd(i, rows, A, B, x, y)

-----------------------------------------------------------------------------
(* internalVerify, one gate: ok is FALSE when it returns false there, out   *)
(* what it leaves in garbledWires; old is what was there before.            *)

(* The four rows are opened in order; the first key found for a value is    *)
(* stored, and every later one has to equal it.                             *)
VerifyRows(g, i, rows, A, B, old, numOfRows) ==
    LET r(l) == g.bits[l \div 2][l % 2]
        x(l) == SignalBits(A)[l \div 2]
        y(l) == SignalBits(B)[l % 2]
        key(l) == Hash(RowKey(A[l \div 2], B[l % 2], i))
        k == [l \in 0 .. 3 |-> IF numOfRows = 3 /\ x(l) = 0 /\ y(l) = 0 THEN key(l)
                               ELSE key(l) (+) rows[x(l)][y(l)]]
        differs(l) == \E e \in 0 .. l - 1 : r(e) = r(l) /\ k[e] # k[l]
        first(v) == {l \in 0 .. 3 : r(l) = v /\ \A e \in 0 .. l - 1 : r(e) # v /\ ~differs(e)}
    IN [ok |-> \A l \in 0 .. 3 : ~differs(l),
        out |-> [v \in Bit |-> IF first(v) = {} THEN old[v]
                               ELSE k[CHOOSE l \in first(v) : TRUE]]]

StandardVerifyGate(g, i, rows, A, B, old) == VerifyRows(g, i, rows, A, B, old, 4)

Accepted(gate) == [ok |-> TRUE, out |-> gate.out]

(* Only key 0 is stored; key 1 follows from the object's own delta.         *)
FreeXorVerifyGate(g, i, rows, A, B, old, delta) ==
    IF IsXor(g) THEN Accepted(FreeGate(g, A, B, delta))
    ELSE LET r == VerifyRows(g, i, rows, A, B, old, 4)
         IN [ok |-> r.ok, out |-> Both(r.out[0], delta)]

RowReductionVerifyGate(g, i, rows, A, B, old, delta) ==
    IF IsXor(g) THEN Accepted(FreeGate(g, A, B, delta))
    ELSE LET r == VerifyRows(g, i, rows, A, B, old, 3)
         IN [ok |-> r.ok, out |-> Both(r.out[0], delta)]

(* The three rows of an AND gate that have to give key 0.                   *)
ThreeZeros(k, delta) ==
    [ok |-> k[0][1] = k[0][0] /\ k[1][0] = k[0][0], out |-> Both(k[0][0], delta)]

HalfGatesVerifyGate(g, i, n, rows, A, B, delta) ==
    IF IsXor(g) THEN Accepted(FreeGate(g, A, B, delta))
    ELSE ThreeZeros([u \in Bit |-> [v \in Bit |->
            OpenHalfGate(HalfGatesHash(A[u], i), HalfGatesHash(B[v], i + n), rows, A[u],
                         getSignalBitOf(A[u]), getSignalBitOf(B[v]))]], delta)

(* The inputs are shifted in place, so their signal bits read as 0; the     *)
(* first long of each tweak is never set: it is whatever the heap held.     *)
NoIntrinsicsVerifyGate(g, i, n, rows, A, B, delta, heap) ==
    IF IsXor(g) THEN Accepted(FreeGate(g, A, B, delta))
    ELSE ThreeZeros([u \in Bit |-> [v \in Bit |->
            OpenHalfGate(Hash(slli(A[u]) (+) (SecondLong(i) \cup heap)),
                         Hash(slli(B[v]) (+) (SecondLong(i + n) \cup heap)), rows, slli(A[u]),
                         getSignalBitOf(slli(A[u])), getSignalBitOf(slli(B[v])))]], delta)

(* The rows are made again and compared.                                    *)
NoFixedKeyVerifyGate(g, i, n, rows, A, B, old, delta) ==
    LET made == NoFixedKeyGarbleGate(g, i, n, A, B, delta)
    IN IF IsXor(g) \/ made.rows = rows THEN Accepted(made) ELSE [ok |-> FALSE, out |-> old]

FourToTwoVerifyXor(i, rows, A, B, old) ==
    LET made == FourToTwoXor(i, A, B)
    IN IF made.rows = rows THEN Accepted(made)
       ELSE [ok |-> FALSE, out |-> [old EXCEPT ![0] = made.raw]]

(* The key that was opened last stays behind as key 0.                      *)
FourToTwoVerifyAnd(i, rows, A, B, old) ==
    LET k == [u \in Bit |-> [v \in Bit |->
                OpenAnd(i, rows, A[u], B[v], SignalBits(A)[u], SignalBits(B)[v])]]
        ok == k[0][1] = k[0][0] /\ k[1][0] = k[0][0]
    IN [ok |-> ok,
        out |-> [v \in Bit |-> IF v = 1 THEN IF ok THEN k[1][1] ELSE old[1]
                               ELSE IF k[0][1] # k[0][0] THEN k[0][1] ELSE k[1][0]]]

FourToTwoVerifyGate(g, i, rows, A, B, old) ==
    CASE IsNot(g) -> [ok |-> TRUE, out |-> [v \in Bit |-> A[1 - v]]]
      [] ~IsNot(g) /\ g.truthTable = XOR_GATE -> FourToTwoVerifyXor(i, rows, A, B, old)
      [] g.truthTable # XOR_GATE -> FourToTwoVerifyAnd(i, rows, A, B, old)
=============================================================================
