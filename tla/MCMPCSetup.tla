----------------------------- MODULE MCMPCSetup -----------------------------
(* Parties on one host, with the ports of the configuration in the docs.    *)
EXTENDS MPCSetup

OneHost == [p \in Party |-> "127.0.0.1"]
SpacedPorts == [p \in Party |-> 8000 + 20 * p]

ASSUME SpacedPortsDisjoint == PortsDisjoint
=============================================================================
