------------------------------ MODULE MCBfJoin ------------------------------
(* Two endpoints that connect to each other, and the endpoint r of a second *)
(* start of the program of a.                                               *)
EXTENDS BfJoin, TLC

CONSTANTS a, b, r

AddressOf == a :> "ha" @@ b :> "hb" @@ r :> "ha"
MCSelfAddress == [e \in Endpoints |-> AddressOf[e]]
MCPeerAddress == [e \in Endpoints |-> IF e = b THEN "ha" ELSE "hb"]

ASSUME BfAddressesPaired == BfPaired
=============================================================================
