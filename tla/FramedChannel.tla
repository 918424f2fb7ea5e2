--------------------------- MODULE FramedChannel ---------------------------
(***************************************************************************)
(* One direction of a CommParty over TCP: writeWithSize sends the size of  *)
(* a message as a fixed number of bytes and then its bytes;                *)
(* readWithSizeIntoVector reads the size, makes room for it and reads as   *)
(* many bytes.  The stream hands the bytes over in pieces of any length    *)
(* and may break between any two of them.                                  *)
(*                                                                         *)
(* The two classes differ in what a broken stream does to a call: the      *)
(* write of CommPartyTCPSynced drops the error and the rest of the data    *)
(* and its read throws, while the loops of CommPartyTCPSyncedBoostFree go  *)
(* on for ever.                                                            *)
(***************************************************************************)
EXTENDS Integers, Sequences, SequencesExt

CONSTANTS
    Base,           \* values of a byte (256 in the code)
    HeaderLen,      \* bytes of the size field: sizeof(int)
    Messages,       \* the messages a program sends
    MaxSent         \* bound: messages sent

VARIABLES
    sent, received, broken,
    BoostFree,      \* the channel is a CommPartyTCPSyncedBoostFree
    toWrite,        \* bytes of the current writeWithSize not yet written
    bodyToWrite,    \* the second write of the current writeWithSize
    writing,        \* a writeWithSize is in progress
    stream,         \* bytes written and not yet read
    reading,        \* "idle", "size", "body", "thrown"
    buffer,         \* bytes the current read has got
    msgSize,        \* its sizeToRead
    bytesOut, bytesIn       \* the counters of CommParty

writerVars == <<sent, toWrite, bodyToWrite, writing, bytesOut>>
readerVars == <<received, reading, buffer, msgSize, bytesIn>>
framedVars == <<writerVars, readerVars, stream, broken, BoostFree>>

Byte == 0 .. Base - 1

ASSUME FramedAssumption ==
    /\ Base \in Nat \ {0, 1} /\ HeaderLen \in Nat \ {0} /\ MaxSent \in Nat
    /\ Messages \subseteq Seq(Byte)
    /\ \A m \in Messages : 2 * Len(m) < Base ^ HeaderLen

Digit(n, k) == (n \div Base ^ (k - 1)) % Base

(* The int in memory, sent as it is: least significant byte first.          *)
SizeBytes(n) == [k \in 1 .. HeaderLen |-> Digit(n, k)]

(* The value of an int: the upper half of the range is negative.            *)
Signed(n) == IF 2 * n >= Base ^ HeaderLen THEN n - Base ^ HeaderLen ELSE n

SizeOf(bytes) == Signed(FoldRight(LAMBDA b, acc : b + Base * acc, bytes, 0))

(* The two ends agree on the size field: it consists of bytes, and what the *)
(* reader makes of the bytes of a length is that length.                    *)
SizesReadBack ==
    \A m \in Messages :
        /\ SizeBytes(Len(m)) \in [1 .. HeaderLen -> Byte]
        /\ SizeOf(SizeBytes(Len(m))) = Len(m)

(* The types of the variables.                                            *)
FramedTypeOK ==
    /\ sent \in Seq(Messages) /\ received \in Seq(Seq(Byte)) /\ broken \in BOOLEAN
    /\ toWrite \in Seq(Byte) /\ bodyToWrite \in Seq(Byte) /\ writing \in BOOLEAN
    /\ stream \in Seq(Byte) /\ buffer \in Seq(Byte)
    /\ reading \in {"idle", "size", "body", "thrown"}
    /\ msgSize \in Nat /\ bytesOut \in Nat /\ bytesIn \in Nat
    /\ BoostFree \in BOOLEAN

FramedInit ==
    /\ sent = <<>> /\ received = <<>> /\ broken = FALSE
    /\ toWrite = <<>> /\ bodyToWrite = <<>> /\ writing = FALSE
    /\ stream = <<>> /\ buffer = <<>> /\ reading = "idle" /\ msgSize = 0
    /\ bytesOut = 0 /\ bytesIn = 0
    /\ BoostFree \in BOOLEAN

-----------------------------------------------------------------------------
(* writeWithSize calls its first write.                                     *)
WriteWithSize(m) ==
    /\ ~writing /\ Len(sent) < MaxSent
    /\ sent' = Append(sent, m)
    /\ toWrite' = SizeBytes(Len(m))
    /\ bodyToWrite' = m
    /\ writing' = TRUE
    /\ bytesOut' = bytesOut + HeaderLen
    /\ UNCHANGED <<readerVars, stream, broken, BoostFree>>

(* The kernel takes some of the bytes.                                      *)
WriteSome ==
    /\ toWrite # <<>> /\ ~broken
    /\ \E n \in 1 .. Len(toWrite) :
         /\ stream' = stream \o SubSeq(toWrite, 1, n)
         /\ toWrite' = SubSeq(toWrite, n + 1, Len(toWrite))
    /\ UNCHANGED <<sent, bodyToWrite, writing, bytesOut, readerVars, broken, BoostFree>>

(* The first write is over: the second one begins.                          *)
WriteBody ==
    /\ writing /\ toWrite = <<>> /\ bodyToWrite # <<>>
    /\ toWrite' = bodyToWrite
    /\ bodyToWrite' = <<>>
    /\ bytesOut' = bytesOut + Len(bodyToWrite)
    /\ UNCHANGED <<sent, writing, readerVars, stream, broken, BoostFree>>

WriteReturns ==
    /\ writing /\ toWrite = <<>> /\ bodyToWrite = <<>>
    /\ writing' = FALSE
    /\ UNCHANGED <<sent, toWrite, bodyToWrite, bytesOut, readerVars, stream, broken, BoostFree>>

(* transfer_all with an error code: the rest of the data is dropped and     *)
(* write returns as if nothing had happened.                                *)
WriteError ==
    /\ broken /\ toWrite # <<>> /\ ~BoostFree
    /\ toWrite' = <<>>
    /\ UNCHANGED <<sent, bodyToWrite, writing, bytesOut, readerVars, stream, broken, BoostFree>>

-----------------------------------------------------------------------------
(* readWithSizeIntoVector calls readSize.                                   *)
ReadSize ==
    /\ reading = "idle"
    /\ reading' = "size"
    /\ buffer' = <<>>
    /\ msgSize' = HeaderLen
    /\ bytesIn' = bytesIn + HeaderLen
    /\ UNCHANGED <<received, writerVars, stream, broken, BoostFree>>

ReadSome ==
    /\ reading \in {"size", "body"} /\ Len(buffer) < msgSize /\ stream # <<>>
    /\ \E n \in 1 .. (IF Len(stream) < msgSize - Len(buffer)
                      THEN Len(stream) ELSE msgSize - Len(buffer)) :
         /\ buffer' = buffer \o SubSeq(stream, 1, n)
         /\ stream' = SubSeq(stream, n + 1, Len(stream))
    /\ UNCHANGED <<received, reading, msgSize, bytesIn, writerVars, broken, BoostFree>>

(* The size is known: targetVector.resize and the read of the body.         *)
ReadBody ==
    /\ reading = "size" /\ Len(buffer) = msgSize
    /\ reading' = "body"
    /\ msgSize' = SizeOf(buffer)
    /\ buffer' = <<>>
    /\ bytesIn' = bytesIn + SizeOf(buffer)
    /\ UNCHANGED <<received, writerVars, stream, broken, BoostFree>>

(* Mutant: read returns after the first piece.                              *)
ReadReturnsMutShort ==
    /\ reading = "body" /\ (buffer # <<>> \/ msgSize = 0)
    /\ received' = Append(received, buffer)
    /\ reading' = "idle"
    /\ UNCHANGED <<buffer, msgSize, bytesIn, writerVars, stream, broken, BoostFree>>

ReadReturns ==
    /\ reading = "body" /\ Len(buffer) = msgSize
    /\ received' = Append(received, buffer)
    /\ reading' = "idle"
    /\ UNCHANGED <<buffer, msgSize, bytesIn, writerVars, stream, broken, BoostFree>>

(* Mutant: the end of the stream is noticed only inside a message.          *)
ReadThrowsMutInMessage ==
    /\ broken /\ ~BoostFree
    /\ reading = "body" /\ Len(buffer) < msgSize /\ stream = <<>>
    /\ reading' = "thrown"
    /\ UNCHANGED <<received, buffer, msgSize, bytesIn, writerVars, stream, broken, BoostFree>>

(* boost::asio::read throws at the end of the stream.                       *)
ReadThrows ==
    /\ broken /\ ~BoostFree
    /\ reading \in {"size", "body"} /\ Len(buffer) < msgSize /\ stream = <<>>
    /\ reading' = "thrown"
    /\ UNCHANGED <<received, buffer, msgSize, bytesIn, writerVars, stream, broken, BoostFree>>

(* The connection dies; bytes under way may be lost with it.                *)
Break ==
    /\ ~broken
    /\ broken' = TRUE
    /\ \E n \in 0 .. Len(stream) : stream' = SubSeq(stream, 1, n)
    /\ UNCHANGED <<writerVars, readerVars, BoostFree>>

Write == WriteSome \/ WriteBody \/ WriteReturns \/ WriteError
Read == ReadSize \/ ReadSome \/ ReadBody \/ ReadReturns \/ ReadThrows

FramedNext == (\E m \in Messages : WriteWithSize(m)) \/ Write \/ Read \/ Break

(* A call in progress keeps running and a program that waits for a message  *)
(* calls readWithSizeIntoVector.                                            *)
FramedSpec ==
    /\ FramedInit
    /\ [][FramedNext]_framedVars
    /\ WF_framedVars(Write) /\ WF_framedVars(Read)

-----------------------------------------------------------------------------
(* However the bytes are cut and wherever the connection breaks, the calls  *)
(* of readWithSizeIntoVector return a prefix of the messages that were      *)
(* written, whole and in order.                                             *)
Fifo == INSTANCE FifoChannel
ImplementsFifo == Fifo!FifoSpec

(* A message is read unless the connection breaks, and a reader of          *)
(* CommPartyTCPSynced does not wait for ever on a broken connection: it     *)
(* gets an exception.                                                       *)
EverythingArrives ==
    /\ \A n \in 1 .. MaxSent : Len(sent) >= n ~> Len(received) >= n \/ broken
    /\ ~BoostFree => (broken ~> reading = "thrown")

=============================================================================
