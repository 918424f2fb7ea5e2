----------------------------- MODULE MCTcpJoin -----------------------------
(* A pair of endpoints that connect both ways (a, b), the endpoint r of a   *)
(* second start of the program of a, and a server with its client (s, c).   *)
EXTENDS TcpJoin, TLC

CONSTANTS a, b, r, s, c

AddressOf == a :> <<"ha", 1>> @@ b :> <<"hb", 1>> @@ r :> <<"ha", 1>>
             @@ s :> <<"hs", 1>> @@ c :> <<"hc", 1>>
PeerOf == a :> b @@ b :> a @@ r :> b @@ s :> c @@ c :> s
RoleOf == a :> 2 @@ b :> 2 @@ r :> 2 @@ s :> 0 @@ c :> 1

MCMyAddress == [e \in Endpoints |-> AddressOf[e]]
MCOtherAddress == [e \in Endpoints |-> AddressOf[PeerOf[e]]]
MCRole == [e \in Endpoints |-> RoleOf[e]]

ASSUME AddressesPaired == Paired
=============================================================================
