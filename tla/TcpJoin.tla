------------------------------ MODULE TcpJoin ------------------------------
(***************************************************************************)
(* The boost channel CommPartyTCPSynced: constructor, join, destructor.    *)
(*                                                                         *)
(* Every CommPartyTCPSynced object is an endpoint.  Its constructor opens  *)
(* an acceptor; join connects a client socket to the acceptor of the other *)
(* party and accepts a server socket from its own acceptor.  The acceptor, *)
(* its backlog and the two sockets are the state that outlives a call.     *)
(* The operating system is external: a connection attempt succeeds when    *)
(* some acceptor listens on the target address, and the connection then    *)
(* waits in that acceptor's backlog.                                       *)
(***************************************************************************)
EXTENDS Integers, Sequences

CONSTANTS
    Endpoints,      \* the CommPartyTCPSynced objects
    MyAddress,      \* [Endpoints -> <<host, port>>]: the field me
    OtherAddress,   \* [Endpoints -> <<host, port>>]: the field other
    Role,           \* 0 server, 1 client, 2 both
    SleepBetweenAttempts,   \* argument of join
    Timeout,                \* argument of join
    NoPeer,         \* a socket that is not connected
    MaxFaults       \* bound: network faults that hit a connect or an accept

VARIABLES
    pc,             \* where the endpoint stands
    isConnected, isAccepted, totalSleep,    \* the locals of join
    listening,      \* the endpoints whose acceptor is open
    backlog,        \* connections an acceptor holds, oldest first
    clientSocket, serverSocket,     \* the endpoint at the other end
    faults          \* network faults so far

joinVars == <<isConnected, isAccepted, totalSleep>>
socketVars == <<listening, backlog, clientSocket, serverSocket>>
tcpVars == <<pc, joinVars, socketVars, faults>>

ASSUME NoPeerAssumption == NoPeer \notin Endpoints
ASSUME RoleAssumption == Role \in [Endpoints -> 0..2]
ASSUME AddressAssumption ==
    \A e \in Endpoints : MyAddress[e][2] \in Int /\ OtherAddress[e][2] \in Int
ASSUME TimesAssumption ==
    SleepBetweenAttempts \in Nat \ {0} /\ Timeout \in Nat /\ MaxFaults \in Nat

PcValues == {"new", "constructed", "loop", "accept", "joined", "thrown", "closed"}

(* The types of the variables.                                            *)
TcpTypeOK ==
    /\ pc \in [Endpoints -> PcValues]
    /\ isConnected \in [Endpoints -> BOOLEAN]
    /\ isAccepted \in [Endpoints -> BOOLEAN]
    /\ totalSleep \in [Endpoints -> Nat]
    /\ listening \in SUBSET Endpoints
    /\ backlog \in [Endpoints -> Seq(Endpoints)]
    /\ clientSocket \in [Endpoints -> Endpoints \cup {NoPeer}]
    /\ serverSocket \in [Endpoints -> Endpoints \cup {NoPeer}]
    /\ faults \in Nat

TcpInit ==
    /\ pc = [e \in Endpoints |-> "new"]
    /\ isConnected = [e \in Endpoints |-> FALSE]
    /\ isAccepted = [e \in Endpoints |-> FALSE]
    /\ totalSleep = [e \in Endpoints |-> 0]
    /\ listening = {}
    /\ backlog = [e \in Endpoints |-> <<>>]
    /\ clientSocket = [e \in Endpoints |-> NoPeer]
    /\ serverSocket = [e \in Endpoints |-> NoPeer]
    /\ faults = 0

-----------------------------------------------------------------------------
(* The acceptor of a client is bound too, 10000 ports above its own port.   *)
(* An acceptor takes its port on all addresses of its machine: the host of  *)
(* an address stands for the machine.                                       *)
AcceptAddress(e) ==
    IF Role[e] = 1 THEN <<MyAddress[e][1], 10000 + MyAddress[e][2]>>
                   ELSE MyAddress[e]

(* The acceptors a connection attempt of e reaches.                         *)
Reachable(e) == {f \in listening : AcceptAddress(f) = OtherAddress[e]}

(* The constructor binds the acceptor, or throws when the address is taken. *)
Construct(e) ==
    /\ pc[e] = "new"
    /\ IF \E f \in listening : AcceptAddress(f) = AcceptAddress(e)
       THEN /\ pc' = [pc EXCEPT ![e] = "thrown"]
            /\ UNCHANGED listening
       ELSE /\ pc' = [pc EXCEPT ![e] = "constructed"]
            /\ listening' = listening \cup {e}
    /\ UNCHANGED <<joinVars, backlog, clientSocket, serverSocket, faults>>

(* join enters its loop: a client has nothing to accept and a server has    *)
(* nothing to connect.                                                      *)
StartJoin(e) ==
    /\ pc[e] = "constructed"
    /\ pc' = [pc EXCEPT ![e] = "loop"]
    /\ isAccepted' = [isAccepted EXCEPT ![e] = (Role[e] = 1)]
    /\ isConnected' = [isConnected EXCEPT ![e] = (Role[e] = 0)]
    /\ totalSleep' = [totalSleep EXCEPT ![e] = 0]
    /\ UNCHANGED <<socketVars, faults>>

(* Mutant: a failed attempt is retried before anything is accepted.         *)
AfterConnectMutRetry(e) == "loop"

(* Where an iteration goes once its connection attempt is over.             *)
AfterConnect(e) == IF isAccepted[e] THEN "loop" ELSE "accept"

(* boost::asio::connect succeeds.                                           *)
Connect(e) ==
    /\ pc[e] = "loop" /\ ~isConnected[e]
    /\ \E f \in Reachable(e) :
         /\ clientSocket' = [clientSocket EXCEPT ![e] = f]
         /\ backlog' = [backlog EXCEPT ![f] = Append(@, e)]
    /\ isConnected' = [isConnected EXCEPT ![e] = TRUE]
    /\ pc' = [pc EXCEPT ![e] = AfterConnect(e)]
    /\ UNCHANGED <<isAccepted, totalSleep, listening, serverSocket, faults>>

(* Mutant: the sleeps are not added up.                                     *)
ConnectFailedMutNoSum(e) ==
    /\ IF totalSleep[e] > Timeout
       THEN /\ pc' = [pc EXCEPT ![e] = "thrown"]
       ELSE /\ pc' = [pc EXCEPT ![e] = AfterConnect(e)]
    /\ UNCHANGED <<isConnected, isAccepted, totalSleep, socketVars>>

(* What the handler of a failed attempt does: it throws once the sleeps     *)
(* exceed the timeout, and sleeps otherwise.                                *)
ConnectFailed(e) ==
    /\ IF totalSleep[e] > Timeout
       THEN /\ pc' = [pc EXCEPT ![e] = "thrown"]
            /\ UNCHANGED totalSleep
       ELSE /\ pc' = [pc EXCEPT ![e] = AfterConnect(e)]
            /\ totalSleep' = [totalSleep EXCEPT ![e] = @ + SleepBetweenAttempts]
    /\ UNCHANGED <<isConnected, isAccepted, socketVars>>

(* The attempt is refused: nobody listens on the other address.             *)
ConnectRefused(e) ==
    /\ pc[e] = "loop" /\ ~isConnected[e]
    /\ Reachable(e) = {}
    /\ ConnectFailed(e)
    /\ UNCHANGED faults

(* The attempt fails although somebody listens (a network fault).           *)
ConnectFault(e) ==
    /\ pc[e] = "loop" /\ ~isConnected[e]
    /\ Reachable(e) # {}
    /\ faults < MaxFaults
    /\ faults' = faults + 1
    /\ ConnectFailed(e)

(* An endpoint is at the blocking accept after its connection attempt, and  *)
(* a server is there from the start of its only iteration.                  *)
AtAccept(e) ==
    /\ ~isAccepted[e]
    /\ pc[e] = "accept" \/ (pc[e] = "loop" /\ isConnected[e])

(* acceptor_.accept returns the oldest connection of the backlog.           *)
Accept(e) ==
    /\ AtAccept(e)
    /\ backlog[e] # <<>>
    /\ serverSocket' = [serverSocket EXCEPT ![e] = Head(backlog[e])]
    /\ backlog' = [backlog EXCEPT ![e] = Tail(@)]
    /\ isAccepted' = [isAccepted EXCEPT ![e] = TRUE]
    /\ pc' = [pc EXCEPT ![e] = "loop"]
    /\ UNCHANGED <<isConnected, totalSleep, listening, clientSocket, faults>>

(* acceptor_.accept fails: the error code is dropped and isAccepted is set. *)
AcceptFault(e) ==
    /\ AtAccept(e)
    /\ faults < MaxFaults
    /\ faults' = faults + 1
    /\ isAccepted' = [isAccepted EXCEPT ![e] = TRUE]
    /\ pc' = [pc EXCEPT ![e] = "loop"]
    /\ UNCHANGED <<isConnected, totalSleep, socketVars>>

(* Mutant: the options of a socket that is not open are silently ignored.   *)
setSocketOptionsMutNoCheck(e) == pc' = [pc EXCEPT ![e] = "joined"]

(* set_option throws on a socket that is not open.                          *)
setSocketOptions(e) ==
    pc' = [pc EXCEPT ![e] =
             IF \/ Role[e] # 1 /\ serverSocket[e] = NoPeer
                \/ Role[e] # 0 /\ clientSocket[e] = NoPeer
             THEN "thrown" ELSE "joined"]

(* join leaves its loop, sets the options and returns.                      *)
FinishJoin(e) ==
    /\ pc[e] = "loop" /\ isConnected[e] /\ isAccepted[e]
    /\ setSocketOptions(e)
    /\ UNCHANGED <<joinVars, socketVars, faults>>

(* The sockets of the endpoints in E are closed: their backlogs are gone,   *)
(* while connections they opened stay in the backlogs of others.            *)
CloseAll(E) ==
    /\ pc' = [e \in Endpoints |-> IF e \in E THEN "closed" ELSE pc[e]]
    /\ listening' = listening \ E
    /\ backlog' = [e \in Endpoints |-> IF e \in E THEN <<>> ELSE backlog[e]]
    /\ clientSocket' = [e \in Endpoints |-> IF e \in E THEN NoPeer ELSE clientSocket[e]]
    /\ serverSocket' = [e \in Endpoints |-> IF e \in E THEN NoPeer ELSE serverSocket[e]]
    /\ UNCHANGED <<joinVars, faults>>

(* ~CommPartyTCPSynced, after join has returned or thrown.                  *)
Destroy(e) ==
    /\ pc[e] \in {"joined", "thrown"}
    /\ CloseAll({e})

(* A step of the call of join that e is executing, and a fault that hits it. *)
JoinStep(e) ==
    \/ StartJoin(e)
    \/ Connect(e) \/ ConnectRefused(e)
    \/ Accept(e)
    \/ FinishJoin(e)

JoinFault(e) == ConnectFault(e) \/ AcceptFault(e)

TcpNext ==
    \E e \in Endpoints : Construct(e) \/ JoinStep(e) \/ JoinFault(e) \/ Destroy(e)

(* A thread that called join keeps running; nothing forces a program to be  *)
(* started, to destroy its channel, or the network to fail.                 *)
TcpSpec ==
    /\ TcpInit
    /\ [][TcpNext]_tcpVars
    /\ \A e \in Endpoints : WF_tcpVars(JoinStep(e))

-----------------------------------------------------------------------------
(* The endpoint f that e is connected to has its own connection to e, and   *)
(* the connection of e waits for f or was accepted by it, or f gave up.     *)
Linked(e, f) ==
    \/ pc[f] \in {"thrown", "closed"}
    \/ /\ clientSocket[f] = e
       /\ \/ \E k \in DOMAIN backlog[f] : backlog[f][k] = e
          \/ serverSocket[f] = e
          \/ isAccepted[f] /\ serverSocket[f] = NoPeer

JoinedTo(e, f) == pc[e] = "joined" /\ Role[e] = 2 /\ clientSocket[e] = f

(* Two-way channels are configured in pairs: what one end connects to is the *)
(* address of an end that connects back.                                    *)
Paired ==
    \A e, f \in Endpoints :
        (Role[e] = 2 \/ Role[f] = 2) /\ AcceptAddress(f) = OtherAddress[e] =>
            AcceptAddress(e) = OtherAddress[f]

(* "The method blocks until both side are connected to each other": when    *)
(* the join of e has returned, e and the other end are linked, if nobody    *)
(* else has used their addresses.  Only a second start on an address lets   *)
(* join return with a stale connection; faults do not.                      *)
FirstOnAddress(e) ==
    \A f \in Endpoints \ {e} : AcceptAddress(f) = AcceptAddress(e) => pc[f] = "new"
JoinedUnlessRestarted ==
    \A e, f \in Endpoints :
        JoinedTo(e, f) /\ FirstOnAddress(e) /\ FirstOnAddress(f) => Linked(e, f)

(* The join of a client returns or throws, whatever its server does.  Not   *)
(* so the join of an endpoint that connects both ways: accept has no limit. *)
ClientTerminates ==
    \A e \in Endpoints :
        Role[e] = 1 => pc[e] = "loop" ~> pc[e] \in {"joined", "thrown", "closed"}

=============================================================================
