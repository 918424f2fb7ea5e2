---------------------------- MODULE MCUdpThreads ----------------------------
(* Two peers that join twice, one of which sends a byte of data between.    *)
EXTENDS UdpThreads

SomeScript == [c \in Peers |-> IF c = 1 THEN <<Sync, Sync>> ELSE <<Sync, "x", Sync>>]
=============================================================================
