------------------------------- MODULE Duplex -------------------------------
(***************************************************************************)
(* The channel between a prover and a verifier, as the protocols use it: a *)
(* FifoChannel in each direction (FramedChannel and Kcp show that the      *)
(* channels of the library are that).  After a break what is under way may *)
(* be lost, and reads throw once nothing is left to read.  The write of    *)
(* CommPartyTCPSynced ignores errors; a CommParty whose write reports them *)
(* throws instead.                                                         *)
(***************************************************************************)
EXTENDS Sequences, Naturals

CONSTANT MayBreak     \* BOOLEAN: the connection may break

VARIABLES toV, toP,   \* the messages under way to the verifier and the prover
          broken,
          reports     \* write throws on a broken connection

channel == <<toV, toP, broken, reports>>

ChannelInit ==
    /\ toV = <<>> /\ toP = <<>> /\ broken = FALSE
    /\ reports \in BOOLEAN

WriteThrows == broken /\ reports

ToV(ms) == toV' = IF broken THEN toV ELSE toV \o ms
ToP(ms) == toP' = IF broken THEN toP ELSE toP \o ms

Break ==
    /\ MayBreak /\ ~broken
    /\ broken' = TRUE
    /\ \E n \in 0 .. Len(toV) : toV' = SubSeq(toV, 1, n)
    /\ \E n \in 0 .. Len(toP) : toP' = SubSeq(toP, 1, n)
    /\ UNCHANGED reports
=============================================================================
