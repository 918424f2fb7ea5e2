------------------------------- MODULE BfJoin -------------------------------
(***************************************************************************)
(* The boost-free channel CommPartyTCPSyncedBoostFree: join, destructor.   *)
(*                                                                         *)
(* Unlike the boost channel it opens its listener inside join, waits for a *)
(* connection with a bounded select, and tests its time budget at the head *)
(* of every iteration.  accept is called with a length that was never      *)
(* initialised: the kernel may reject the call after it has taken the      *)
(* connection from the queue, which closes the connection.                 *)
(***************************************************************************)
EXTENDS Integers, Sequences

CONSTANTS
    Endpoints,      \* the CommPartyTCPSyncedBoostFree objects
    SelfAddress, PeerAddress,   \* m_self_addr : m_self_port and the peer's
    SleepBetweenAttempts, Timeout,
    NoFd,           \* a descriptor without a connection (-1, or not connected)
    MaxFaults       \* bound: connects that fail although somebody listens

VARIABLES
    pc,
    clnt_conn, srvc_conn, time_consumption,     \* the locals of join
    listening, backlog,     \* lstn_fd and its queue
    clnt_fd, srvc_fd,       \* the endpoint at the other end
    dropped,        \* connections that a rejected accept closed
    faults

locals == <<clnt_conn, srvc_conn, time_consumption>>
fds == <<listening, backlog, clnt_fd, srvc_fd, dropped>>
bfVars == <<pc, locals, fds, faults>>

ASSUME BfAssumption ==
    /\ NoFd \notin Endpoints
    /\ SleepBetweenAttempts \in Nat \ {0} /\ Timeout \in Nat /\ MaxFaults \in Nat

(* The types of the variables.                                            *)
BfTypeOK ==
    /\ pc \in [Endpoints -> {"new", "loop", "wait", "joined", "thrown", "closed"}]
    /\ clnt_conn \in [Endpoints -> BOOLEAN]
    /\ srvc_conn \in [Endpoints -> BOOLEAN]
    /\ time_consumption \in [Endpoints -> Nat]
    /\ listening \in SUBSET Endpoints
    /\ backlog \in [Endpoints -> Seq(Endpoints)]
    /\ clnt_fd \in [Endpoints -> Endpoints \cup {NoFd}]
    /\ srvc_fd \in [Endpoints -> Endpoints \cup {NoFd}]
    /\ dropped \in SUBSET (Endpoints \X Endpoints)
    /\ faults \in 0 .. MaxFaults

BfInit ==
    /\ pc = [e \in Endpoints |-> "new"]
    /\ clnt_conn = [e \in Endpoints |-> FALSE]
    /\ srvc_conn = [e \in Endpoints |-> FALSE]
    /\ time_consumption = [e \in Endpoints |-> 0]
    /\ listening = {}
    /\ backlog = [e \in Endpoints |-> <<>>]
    /\ clnt_fd = [e \in Endpoints |-> NoFd]
    /\ srvc_fd = [e \in Endpoints |-> NoFd]
    /\ dropped = {}
    /\ faults = 0

-----------------------------------------------------------------------------
Reachable(e) == {f \in listening : SelfAddress[f] = PeerAddress[e]}

(* bind fails when the address is in use; without SO_REUSEADDR it may also  *)
(* fail after an earlier channel on the address was closed.                 *)
SameAddress(e) == {f \in Endpoints \ {e} : SelfAddress[f] = SelfAddress[e]}
OpenFails(e) ==
    /\ pc[e] = "new"
    /\ \E f \in SameAddress(e) : f \in listening \/ pc[f] = "closed"
    /\ pc' = [pc EXCEPT ![e] = "thrown"]
    /\ UNCHANGED <<locals, fds, faults>>

(* socket, bind and listen succeed.                                         *)
Open(e) ==
    /\ pc[e] = "new"
    /\ SameAddress(e) \cap listening = {}
    /\ listening' = listening \cup {e}
    /\ pc' = [pc EXCEPT ![e] = "loop"]
    /\ UNCHANGED <<locals, backlog, clnt_fd, srvc_fd, dropped, faults>>

(* The head of the loop: the condition of while and the time budget.        *)
InLoop(e) == pc[e] = "loop" /\ ~(clnt_conn[e] /\ srvc_conn[e])
InTime(e) == time_consumption[e] <= Timeout

JoinThrows(e) ==
    /\ InLoop(e) /\ ~InTime(e)
    /\ pc' = [pc EXCEPT ![e] = "thrown"]
    /\ UNCHANGED <<locals, fds, faults>>

(* Mutant: the loop ends with the first of the two connections.             *)
JoinReturnsMutEither(e) ==
    /\ pc[e] = "loop" /\ (clnt_conn[e] \/ srvc_conn[e])
    /\ pc' = [pc EXCEPT ![e] = "joined"]
    /\ UNCHANGED <<locals, fds, faults>>

JoinReturns(e) ==
    /\ pc[e] = "loop" /\ clnt_conn[e] /\ srvc_conn[e]
    /\ pc' = [pc EXCEPT ![e] = "joined"]
    /\ UNCHANGED <<locals, fds, faults>>

(* connect succeeds.                                                        *)
ConnectOk(e) ==
    /\ InLoop(e) /\ InTime(e) /\ ~clnt_conn[e]
    /\ \E f \in Reachable(e) :
         /\ clnt_fd' = [clnt_fd EXCEPT ![e] = f]
         /\ backlog' = [backlog EXCEPT ![f] = Append(@, e)]
    /\ clnt_conn' = [clnt_conn EXCEPT ![e] = TRUE]
    /\ pc' = [pc EXCEPT ![e] = "wait"]
    /\ UNCHANGED <<srvc_conn, time_consumption, listening, srvc_fd, dropped, faults>>

(* connect fails, or there is nothing left to connect.                      *)
ConnectNot(e) ==
    /\ InLoop(e) /\ InTime(e)
    /\ \/ (clnt_conn[e] \/ Reachable(e) = {}) /\ UNCHANGED faults
       \/ ~clnt_conn[e] /\ Reachable(e) # {} /\ faults < MaxFaults /\ faults' = faults + 1
    /\ pc' = [pc EXCEPT ![e] = "wait"]
    /\ UNCHANGED <<locals, fds>>

(* select reports a connection: accept takes it.                            *)
AcceptOk(e) ==
    /\ pc[e] = "wait" /\ ~srvc_conn[e] /\ backlog[e] # <<>>
    /\ srvc_fd' = [srvc_fd EXCEPT ![e] = Head(backlog[e])]
    /\ backlog' = [backlog EXCEPT ![e] = Tail(@)]
    /\ srvc_conn' = [srvc_conn EXCEPT ![e] = TRUE]
    /\ pc' = [pc EXCEPT ![e] = "loop"]
    /\ UNCHANGED <<clnt_conn, time_consumption, listening, clnt_fd, dropped, faults>>

(* accept rejects the value it finds in addrlen: the connection is lost and *)
(* no time is charged.                                                      *)
AcceptRejected(e) ==
    /\ pc[e] = "wait" /\ ~srvc_conn[e] /\ backlog[e] # <<>>
    /\ srvc_fd' = [srvc_fd EXCEPT ![e] = NoFd]
    /\ backlog' = [backlog EXCEPT ![e] = Tail(@)]
    /\ dropped' = dropped \cup {<<Head(backlog[e]), e>>}
    /\ pc' = [pc EXCEPT ![e] = "loop"]
    /\ UNCHANGED <<locals, listening, clnt_fd, faults>>

(* One of the two selects runs out: no connection came, or only the connect *)
(* is left to be retried.                                                   *)
MustWait(e) == IF srvc_conn[e] THEN ~clnt_conn[e] ELSE backlog[e] = <<>>

(* Mutant: the time spent in select is not charged.                         *)
SelectTimeoutMutNoCharge(e) ==
    /\ pc[e] = "wait"
    /\ MustWait(e)
    /\ pc' = [pc EXCEPT ![e] = "loop"]
    /\ UNCHANGED <<locals, fds, faults>>

SelectTimeout(e) ==
    /\ pc[e] = "wait"
    /\ MustWait(e)
    /\ time_consumption' = [time_consumption EXCEPT ![e] = @ + SleepBetweenAttempts]
    /\ pc' = [pc EXCEPT ![e] = "loop"]
    /\ UNCHANGED <<clnt_conn, srvc_conn, fds, faults>>

(* An iteration that has just connected, with the accept done before.       *)
NoWait(e) ==
    /\ pc[e] = "wait" /\ srvc_conn[e] /\ clnt_conn[e]
    /\ pc' = [pc EXCEPT ![e] = "loop"]
    /\ UNCHANGED <<locals, fds, faults>>

(* ~CommPartyTCPSyncedBoostFree closes the descriptors.                     *)
Close(e) ==
    /\ pc[e] \in {"joined", "thrown"}
    /\ pc' = [pc EXCEPT ![e] = "closed"]
    /\ listening' = listening \ {e}
    /\ backlog' = [backlog EXCEPT ![e] = <<>>]
    /\ clnt_fd' = [clnt_fd EXCEPT ![e] = NoFd]
    /\ srvc_fd' = [srvc_fd EXCEPT ![e] = NoFd]
    /\ UNCHANGED <<locals, dropped, faults>>

BfStep(e) ==
    \/ JoinThrows(e) \/ JoinReturns(e)
    \/ ConnectOk(e) \/ ConnectNot(e)
    \/ AcceptOk(e) \/ AcceptRejected(e) \/ SelectTimeout(e) \/ NoWait(e)

BfNext == \E e \in Endpoints : Open(e) \/ OpenFails(e) \/ BfStep(e) \/ Close(e)

(* A thread inside join keeps running.                                      *)
BfSpec == BfInit /\ [][BfNext]_bfVars /\ \A e \in Endpoints : WF_bfVars(BfStep(e))

-----------------------------------------------------------------------------
(* A join returns or throws, whatever the other party does: unlike the      *)
(* boost channel it never blocks in accept.                                 *)
BfTerminates ==
    \A e \in Endpoints : pc[e] = "loop" ~> pc[e] \in {"joined", "thrown", "closed"}

(* Channels are configured in pairs: what one end connects to is the        *)
(* address of an end that connects back.                                    *)
BfPaired ==
    \A e, f \in Endpoints :
        SelfAddress[f] = PeerAddress[e] => SelfAddress[e] = PeerAddress[f]

(* A join that returned is connected both ways to live ends: the other end  *)
(* has its own connection to e, and has the connection of e in its queue,   *)
(* has accepted it, has lost it in a rejected accept, or gave up.  This is  *)
(* between endpoints whose addresses nobody else has used.                  *)
Joined(e, f) == pc[e] = "joined" /\ clnt_fd[e] = f /\ pc[f] \notin {"thrown", "closed"}
Held(e, f) == srvc_fd[f] = e \/ \E k \in DOMAIN backlog[f] : backlog[f][k] = e
FirstOnAddress(e) == \A d \in SameAddress(e) : pc[d] = "new"
JoinedOrDropped ==
    \A e, f \in Endpoints : Joined(e, f) /\ FirstOnAddress(e) /\ FirstOnAddress(f) =>
        clnt_fd[f] = e /\ srvc_fd[e] = f /\ (Held(e, f) \/ <<e, f>> \in dropped)

=============================================================================
