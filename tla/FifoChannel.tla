---------------------------- MODULE FifoChannel ----------------------------
(* What a channel promises to the protocols: one direction of a CommParty   *)
(* delivers the messages given to writeWithSize, whole, each once and in    *)
(* their order.  A channel may break; it then delivers no more.             *)
EXTENDS Sequences, Naturals

CONSTANT Messages

VARIABLES
    sent,           \* the messages writeWithSize was called with
    received,       \* the messages readWithSizeIntoVector returned
    broken

fifoVars == <<sent, received, broken>>

FifoInit == sent = <<>> /\ received = <<>> /\ broken = FALSE

FifoSend(m) ==
    /\ sent' = Append(sent, m)
    /\ UNCHANGED <<received, broken>>

FifoDeliver ==
    /\ Len(received) < Len(sent)
    /\ received' = Append(received, sent[Len(received) + 1])
    /\ UNCHANGED <<sent, broken>>

FifoBreak ==
    /\ ~broken
    /\ broken' = TRUE
    /\ UNCHANGED <<sent, received>>

FifoNext == (\E m \in Messages : FifoSend(m)) \/ FifoDeliver \/ FifoBreak

FifoSpec == FifoInit /\ [][FifoNext]_fifoVars

=============================================================================
