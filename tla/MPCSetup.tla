------------------------------ MODULE MPCSetup ------------------------------
(***************************************************************************)
(* MPCCommunication::setCommunication: N parties build a full mesh of      *)
(* channels.  Party p walks over the ids 0 .. N-1, and for every other id  *)
(* i it constructs a CommPartyTCPSynced, joins it and stores it, before it *)
(* looks at the next id.  The channel of p towards i is the endpoint       *)
(* <<p, i>> of TcpJoin; the ports of both ends are computed from the ports *)
(* of the configuration file, the same for all parties.                    *)
(***************************************************************************)
EXTENDS Integers, Sequences

CONSTANTS
    N,              \* numParties
    Ips, Ports,     \* the configuration: party_i_ip and party_i_port
    SleepBetweenAttempts, Timeout,
    NoPeer,
    MaxFaults,      \* bound: network faults
    MaxCrashes      \* bound: parties that crash

VARIABLES
    pc, isConnected, isAccepted, totalSleep,
    listening, backlog, clientSocket, serverSocket, faults,
    index,          \* the loop variable i of each party
    parties,        \* the vector each party fills: <<id, endpoint>> pairs
    status,         \* "running", "returned", "threw" or "crashed"
    crashes

Party == 0 .. N - 1
Endpoint == {e \in Party \X Party : e[1] # e[2]}

ASSUME NAssumption == N \in Nat \ {0}
ASSUME ConfigAssumption == Ports \in [Party -> Int] /\ DOMAIN Ips = Party
ASSUME BoundsAssumption ==
    /\ SleepBetweenAttempts \in Nat \ {0} /\ Timeout \in Nat
    /\ MaxFaults \in Nat /\ MaxCrashes \in Nat
ASSUME NoPeerNotEndpoint == NoPeer \notin Endpoint

(* Mutants: the id is not added to the port; the gap that a party leaves    *)
(* for itself is taken for the wrong ids.                                   *)
OtherPortMutBase(p, i) == Ports[i]
OtherPortMutSwapped(p, i) == IF i < p THEN Ports[i] + p ELSE Ports[i] + p - 1

(* The port on which p waits for i, and the one on which p expects i.       *)
MyPort(p, i) == IF i < p THEN Ports[p] + i ELSE Ports[p] + i - 1
OtherPort(p, i) == IF i < p THEN Ports[i] + p - 1 ELSE Ports[i] + p

me == [e \in Endpoint |-> <<Ips[e[1]], MyPort(e[1], e[2])>>]
other == [e \in Endpoint |-> <<Ips[e[2]], OtherPort(e[1], e[2])>>]

INSTANCE TcpJoin WITH
    Endpoints <- Endpoint,
    MyAddress <- me,
    OtherAddress <- other,
    Role <- [e \in Endpoint |-> 2]

channelVars == <<pc, isConnected, isAccepted, totalSleep,
                 listening, backlog, clientSocket, serverSocket, faults>>
setupVars == <<index, parties, status, crashes>>
vars == <<channelVars, setupVars>>

-----------------------------------------------------------------------------
(* The types of the variables.                                            *)
TypeOK ==
    /\ TcpTypeOK
    /\ index \in [Party -> 0..N]
    /\ parties \in [Party -> Seq(Party \X Endpoint)]
    /\ status \in [Party -> {"running", "returned", "threw", "crashed"}]
    /\ crashes \in Nat

Init ==
    /\ TcpInit
    /\ index = [p \in Party |-> 0]
    /\ parties = [p \in Party |-> <<>>]
    /\ status = [p \in Party |-> "running"]
    /\ crashes = 0

(* The endpoint p is working on: none while i is p itself.                  *)
Current(p) == <<p, index[p]>>
InBody(p) == status[p] = "running" /\ index[p] < N /\ index[p] # p

(* if (i != id): the channel object is made.                                *)
MakeChannel(p) ==
    /\ InBody(p)
    /\ Construct(Current(p))
    /\ UNCHANGED setupVars

JoinChannel(p) ==
    /\ InBody(p)
    /\ JoinStep(Current(p))
    /\ UNCHANGED setupVars

FaultChannel(p) ==
    /\ InBody(p)
    /\ JoinFault(Current(p))
    /\ UNCHANGED setupVars

(* parties[counter++] = ...; i++                                            *)
StoreChannel(p) ==
    /\ InBody(p)
    /\ pc[Current(p)] = "joined"
    /\ parties' = [parties EXCEPT ![p] = Append(@, <<index[p], Current(p)>>)]
    /\ index' = [index EXCEPT ![p] = @ + 1]
    /\ UNCHANGED <<channelVars, status, crashes>>

(* i == id has no channel.                                                  *)
SkipSelf(p) ==
    /\ status[p] = "running" /\ index[p] = p
    /\ index' = [index EXCEPT ![p] = @ + 1]
    /\ UNCHANGED <<channelVars, parties, status, crashes>>

(* Mutant: the loop runs to the number of channels, not of parties.         *)
ReturnMutEarly(p) ==
    /\ status[p] = "running" /\ index[p] >= N - 1
    /\ status' = [status EXCEPT ![p] = "returned"]
    /\ UNCHANGED <<channelVars, index, parties, crashes>>

Return(p) ==
    /\ status[p] = "running" /\ index[p] = N
    /\ status' = [status EXCEPT ![p] = "returned"]
    /\ UNCHANGED <<channelVars, index, parties, crashes>>

ChannelsOf(p) == {e \in Endpoint : e[1] = p}

(* An exception of the constructor or of join leaves setCommunication: the  *)
(* channel and the vector are destroyed.                                    *)
Unwind(p) ==
    /\ InBody(p)
    /\ pc[Current(p)] = "thrown"
    /\ CloseAll(ChannelsOf(p))
    /\ parties' = [parties EXCEPT ![p] = <<>>]
    /\ status' = [status EXCEPT ![p] = "threw"]
    /\ UNCHANGED <<index, crashes>>

(* The process of p dies: the system closes its sockets.                    *)
Crash(p) ==
    /\ status[p] \in {"running", "returned"}
    /\ crashes < MaxCrashes
    /\ crashes' = crashes + 1
    /\ CloseAll(ChannelsOf(p))
    /\ parties' = [parties EXCEPT ![p] = <<>>]
    /\ status' = [status EXCEPT ![p] = "crashed"]
    /\ UNCHANGED index

PartyStep(p) ==
    \/ MakeChannel(p) \/ JoinChannel(p) \/ StoreChannel(p)
    \/ SkipSelf(p) \/ Return(p) \/ Unwind(p)

Next == \E p \in Party : PartyStep(p) \/ FaultChannel(p) \/ Crash(p)

(* Every party is a thread that keeps running; the network and the crashes  *)
(* are under no obligation.                                                 *)
Spec == Init /\ [][Next]_vars /\ \A p \in Party : WF_vars(PartyStep(p))

-----------------------------------------------------------------------------
(* The other end of a channel.                                              *)
Mirror(e) == <<e[2], e[1]>>

(* The configuration gives the parties of one host disjoint port ranges.    *)
PortsDisjoint ==
    \A p, q \in Party : p # q /\ Ips[p] = Ips[q] =>
        Ports[p] + N - 1 <= Ports[q] \/ Ports[q] + N - 1 <= Ports[p]

(* Every connection of the mesh, queued or established, runs between the    *)
(* two channels that name each other: the port arithmetic of the two ends   *)
(* agrees and no third party is ever reached.                               *)
ChannelsMatch ==
    \A e \in Endpoint :
        /\ clientSocket[e] \in {NoPeer, Mirror(e)}
        /\ serverSocket[e] \in {NoPeer, Mirror(e)}
        /\ \A k \in DOMAIN backlog[e] : backlog[e][k] = Mirror(e)

(* Nothing has failed so far.                                               *)
Undisturbed == faults = 0 /\ crashes = 0

(* Before the first fault or crash no join throws: at most one end of a     *)
(* channel is refused, and only once, so the timeout is never reached.      *)
NoJoinThrows ==
    Undisturbed => \A e \in Endpoint :
        /\ pc[e] # "thrown"
        /\ totalSleep[e] <= SleepBetweenAttempts
        /\ totalSleep[e] > 0 => totalSleep[Mirror(e)] = 0

(* Before the first fault or crash the two ends of a channel never wait for *)
(* each other in accept.                                                    *)
Blocked(e) == AtAccept(e) /\ backlog[e] = <<>>
NoMutualAccept == Undisturbed => \A e \in Endpoint : ~(Blocked(e) /\ Blocked(Mirror(e)))

(* What the set-up owes to the order of its calls alone: until something    *)
(* fails, no join throws and no two ends wait for each other.               *)
UndisturbedJoins == NoJoinThrows /\ NoMutualAccept

(* A party that has returned holds exactly one joined channel per other     *)
(* party, in the order of their ids.                                        *)
Peers(p) == [k \in 1 .. N - 1 |-> IF k - 1 < p THEN k - 1 ELSE k]
ReturnedComplete ==
    \A p \in Party : status[p] = "returned" =>
        /\ parties[p] = [k \in 1 .. N - 1 |-> <<Peers(p)[k], <<p, Peers(p)[k]>>>>]
        /\ \A e \in ChannelsOf(p) : pc[e] = "joined" /\ serverSocket[e] # NoPeer

(* When nothing fails, set-up completes: every party returns.               *)
EveryoneReturns == []Undisturbed => <>[](\A p \in Party : status[p] = "returned")

=============================================================================
