--------------------------- MODULE MPCSetupProofs ---------------------------
(* Safety of the mesh set-up, for every number of parties and every         *)
(* configuration.                                                           *)
EXTENDS MPCSetup, TLAPS

(* The port p announces to i is the port on which i waits for p.            *)
LEMMA PortsAgree ==
    ASSUME NEW p \in Party, NEW i \in Party, p # i
    PROVE  OtherPort(p, i) = MyPort(i, p)
BY NAssumption, ConfigAssumption DEF Party, OtherPort, MyPort

(* All the ports of a party lie in a range of N - 1 ports.                   *)
LEMMA PortRange ==
    ASSUME NEW p \in Party, NEW i \in Party, p # i
    PROVE  /\ MyPort(p, i) \in Int /\ Ports[p] \in Int
           /\ Ports[p] <= MyPort(p, i) /\ MyPort(p, i) < Ports[p] + N - 1
BY NAssumption, ConfigAssumption DEF Party, MyPort

(* With disjoint port ranges the acceptor on the address a channel connects *)
(* to is the one of the mirror channel, and no other.                       *)
LEMMA OnlyMirrorListens ==
    ASSUME PortsDisjoint, NEW e \in Endpoint, NEW f \in Endpoint
    PROVE  AcceptAddress(f) = other[e] <=> f = Mirror(e)
<1>1. PICK p \in Party, i \in Party : e = <<p, i>> /\ p # i
  BY DEF Endpoint
<1>2. PICK q \in Party, j \in Party : f = <<q, j>> /\ q # j
  BY DEF Endpoint
<1>3. AcceptAddress(f) = <<Ips[q], MyPort(q, j)>>
  BY <1>2 DEF AcceptAddress, me, Endpoint
<1>4. other[e] = <<Ips[i], MyPort(i, p)>>
  BY <1>1, PortsAgree DEF other, Endpoint
<1>5. Mirror(e) = <<i, p>>
  BY <1>1 DEF Mirror
<1>6. ASSUME Ips[q] = Ips[i], MyPort(q, j) = MyPort(i, p) PROVE q = i /\ j = p
  <2>1. q = i
    <3>1. ~(Ports[q] + N - 1 <= Ports[i] \/ Ports[i] + N - 1 <= Ports[q])
      BY <1>1, <1>2, <1>6, PortRange, NAssumption
    <3>2. QED
      BY <3>1, <1>6, PortsDisjoint DEF PortsDisjoint
  <2>2. QED
    BY <2>1, <1>1, <1>2, <1>6, NAssumption, ConfigAssumption DEF MyPort, Party
<1>7. QED
  BY <1>2, <1>3, <1>4, <1>5, <1>6

-----------------------------------------------------------------------------
(* A step of one channel, by the channel it belongs to.                     *)
ChannelStep(e) ==
    \/ Construct(e) \/ StartJoin(e) \/ Connect(e) \/ ConnectRefused(e)
    \/ ConnectFault(e) \/ Accept(e) \/ AcceptFault(e) \/ FinishJoin(e)

(* Every step of the mesh is a step of one channel, a step of the loop of   *)
(* one party, or the end of all the channels of one party.                  *)
LEMMA StepCases ==
    ASSUME TypeOK, Next
    PROVE  \/ \E e \in Endpoint : ChannelStep(e) /\ UNCHANGED setupVars
           \/ \E p \in Party : SkipSelf(p) \/ Return(p) \/ StoreChannel(p)
           \/ \E p \in Party : Unwind(p) \/ Crash(p)
<1>1. PICK p \in Party : PartyStep(p) \/ FaultChannel(p) \/ Crash(p)
  BY DEF Next
<1>2. InBody(p) => Current(p) \in Endpoint
  <2>1. InBody(p) => index[p] \in Party /\ index[p] # p
    BY NAssumption DEF TypeOK, InBody, Party
  <2>2. QED
    BY <2>1 DEF Current, Endpoint
<1>3. CASE MakeChannel(p)
  BY <1>2, <1>3 DEF MakeChannel, ChannelStep
<1>4. CASE JoinChannel(p)
  BY <1>2, <1>4 DEF JoinChannel, JoinStep, ChannelStep
<1>5. CASE FaultChannel(p)
  BY <1>2, <1>5 DEF FaultChannel, JoinFault, ChannelStep
<1>6. QED
  BY <1>1, <1>3, <1>4, <1>5 DEF PartyStep

LEMMA TypeInit == Init => TypeOK
BY NAssumption DEF Init, TcpInit, TypeOK, TcpTypeOK, PcValues, Party

LEMMA TypeChannelStep ==
    ASSUME TypeOK, NEW e \in Endpoint, ChannelStep(e), UNCHANGED setupVars
    PROVE  TypeOK'
<1> USE DEF TypeOK, TcpTypeOK, PcValues, setupVars
<1>1. CASE Construct(e)
  BY <1>1 DEF Construct, joinVars
<1>2. CASE StartJoin(e)
  BY <1>2 DEF StartJoin, socketVars
<1>3. CASE Connect(e)
  <2>1. PICK f \in Reachable(e) :
            /\ clientSocket' = [clientSocket EXCEPT ![e] = f]
            /\ backlog' = [backlog EXCEPT ![f] = Append(@, e)]
    BY <1>3 DEF Connect
  <2>2. f \in Endpoint
    BY DEF Reachable
  <2>3. backlog' \in [Endpoint -> Seq(Endpoint)]
    BY <2>1, <2>2
  <2>4. clientSocket' \in [Endpoint -> Endpoint \cup {NoPeer}]
    BY <2>1, <2>2
  <2>5. QED
    BY <1>3, <2>3, <2>4 DEF Connect, AfterConnect
<1>4. CASE ConnectRefused(e) \/ ConnectFault(e)
  <2>1. ConnectFailed(e) /\ faults' \in Nat
    BY <1>4 DEF ConnectRefused, ConnectFault
  <2>2. totalSleep[e] + SleepBetweenAttempts \in Nat
    BY BoundsAssumption
  <2>3. totalSleep' \in [Endpoint -> Nat]
    BY <2>1, <2>2 DEF ConnectFailed
  <2>4. QED
    BY <2>1, <2>3 DEF ConnectFailed, AfterConnect, socketVars
<1>5. CASE Accept(e)
  <2>1. backlog[e] \in Seq(Endpoint) /\ backlog[e] # <<>>
    BY <1>5 DEF Accept
  <2>2. Head(backlog[e]) \in Endpoint /\ Tail(backlog[e]) \in Seq(Endpoint)
    BY <2>1
  <2>3. QED
    BY <1>5, <2>2 DEF Accept
<1>6. CASE AcceptFault(e)
  BY <1>6 DEF AcceptFault, socketVars
<1>7. CASE FinishJoin(e)
  BY <1>7 DEF FinishJoin, setSocketOptions, joinVars, socketVars
<1>8. QED
  BY <1>1, <1>2, <1>3, <1>4, <1>5, <1>6, <1>7 DEF ChannelStep

(* The variables hold values of their types in every reachable state of     *)
(* the set-up.                                                              *)
THEOREM TypeCorrect == Spec => []TypeOK
<1>1. TypeOK /\ [Next]_vars => TypeOK'
  <2> SUFFICES ASSUME TypeOK, [Next]_vars PROVE TypeOK'
    OBVIOUS
  <2> USE DEF TypeOK, TcpTypeOK, PcValues
  <2>1. CASE UNCHANGED vars
    BY <2>1 DEF vars, channelVars, setupVars
  <2>2. ASSUME NEW e \in Endpoint, ChannelStep(e), UNCHANGED setupVars PROVE TypeOK'
    BY <2>2, TypeChannelStep
  <2>3. ASSUME NEW p \in Party, SkipSelf(p) \/ Return(p) \/ StoreChannel(p) PROVE TypeOK'
    <3>1. index' \in [Party -> 0..N]
      <4>1. index[p] \in 0..N - 1 => index[p] + 1 \in 0..N
        BY NAssumption
      <4>2. CASE SkipSelf(p)
        BY <4>1, <4>2 DEF SkipSelf, Party
      <4>3. CASE StoreChannel(p)
        BY <4>1, <4>3, NAssumption DEF StoreChannel, InBody
      <4>4. QED
        BY <2>3, <4>2, <4>3 DEF Return
    <3>2. parties' \in [Party -> Seq(Party \X Endpoint)]
      <4>1. CASE StoreChannel(p)
        <5>1. index[p] \in Party /\ index[p] # p
          BY <4>1, NAssumption DEF StoreChannel, InBody, Party
        <5>2. <<index[p], Current(p)>> \in Party \X Endpoint
          BY <5>1 DEF Current, Endpoint
        <5>3. QED
          BY <4>1, <5>2 DEF StoreChannel
      <4>2. QED
        BY <2>3, <4>1 DEF Return, SkipSelf
    <3>3. status' \in [Party -> {"running", "returned", "threw", "crashed"}]
      BY <2>3 DEF Return, SkipSelf, StoreChannel
    <3>4. UNCHANGED <<channelVars, crashes>>
      BY <2>3 DEF Return, SkipSelf, StoreChannel
    <3>5. QED
      BY <3>1, <3>2, <3>3, <3>4 DEF channelVars
  <2>4. ASSUME NEW p \in Party, Unwind(p) \/ Crash(p) PROVE TypeOK'
    <3>1. CloseAll(ChannelsOf(p)) /\ UNCHANGED index
      BY <2>4 DEF Unwind, Crash
    <3>2. TcpTypeOK'
      BY <3>1 DEF CloseAll, joinVars
    <3>3. crashes' \in Nat
      BY <2>4, BoundsAssumption DEF Unwind, Crash
    <3>4. parties' \in [Party -> Seq(Party \X Endpoint)]
      <4>1. parties' = [parties EXCEPT ![p] = <<>>] /\ <<>> \in Seq(Party \X Endpoint)
        BY <2>4 DEF Unwind, Crash
      <4>2. QED
        BY <4>1
    <3>5. status' \in [Party -> {"running", "returned", "threw", "crashed"}]
      BY <2>4 DEF Unwind, Crash
    <3>6. QED
      BY <3>1, <3>2, <3>3, <3>4, <3>5
  <2>5. QED
    BY <2>1, <2>2, <2>3, <2>4, StepCases
<1>2. QED
  BY <1>1, TypeInit, PTL DEF Spec

-----------------------------------------------------------------------------
LEMMA MatchInit == Init => ChannelsMatch
BY DEF Init, TcpInit, ChannelsMatch

(* A connection attempt only ever reaches the mirror channel.               *)
LEMMA ReachesMirror ==
    ASSUME PortsDisjoint, TypeOK, NEW e \in Endpoint, NEW f \in Reachable(e)
    PROVE  f \in Endpoint /\ f = Mirror(e)
BY OnlyMirrorListens DEF Reachable, TypeOK, TcpTypeOK

LEMMA MirrorOfMirror ==
    ASSUME NEW e \in Endpoint
    PROVE  Mirror(e) \in Endpoint /\ Mirror(Mirror(e)) = e
BY DEF Mirror, Endpoint

LEMMA MatchChannelStep ==
    ASSUME PortsDisjoint, TypeOK, ChannelsMatch,
           NEW e \in Endpoint, ChannelStep(e)
    PROVE  ChannelsMatch'
<1> USE DEF TypeOK, TcpTypeOK
<1>1. CASE Connect(e)
  <2>1. PICK f \in Reachable(e) :
            /\ clientSocket' = [clientSocket EXCEPT ![e] = f]
            /\ backlog' = [backlog EXCEPT ![f] = Append(@, e)]
    BY <1>1 DEF Connect
  <2>2. f \in Endpoint /\ f = Mirror(e) /\ Mirror(f) = e
    BY ReachesMirror, MirrorOfMirror
  <2>3. SUFFICES ASSUME NEW d \in Endpoint
                 PROVE  /\ clientSocket'[d] \in {NoPeer, Mirror(d)}
                        /\ serverSocket'[d] \in {NoPeer, Mirror(d)}
                        /\ \A k \in DOMAIN backlog'[d] : backlog'[d][k] = Mirror(d)
    BY DEF ChannelsMatch
  <2>4. serverSocket'[d] \in {NoPeer, Mirror(d)}
    BY <1>1 DEF Connect, ChannelsMatch
  <2>5. clientSocket'[d] \in {NoPeer, Mirror(d)}
    BY <2>1, <2>2 DEF ChannelsMatch
  <2>6. \A k \in DOMAIN backlog'[d] : backlog'[d][k] = Mirror(d)
    <3>1. CASE d # f
      BY <3>1, <2>1 DEF ChannelsMatch
    <3>2. CASE d = f
      <4>1. backlog'[d] = Append(backlog[d], e) /\ backlog[d] \in Seq(Endpoint)
        BY <2>1, <3>2
      <4>2. \A k \in 1..Len(backlog[d]) : backlog[d][k] = Mirror(d)
        BY <4>1 DEF ChannelsMatch
      <4>3. QED
        BY <4>1, <4>2, <2>2, <3>2
    <3>3. QED
      BY <3>1, <3>2
  <2>7. QED
    BY <2>4, <2>5, <2>6
<1>2. CASE Accept(e)
  <2>1. /\ serverSocket' = [serverSocket EXCEPT ![e] = Head(backlog[e])]
        /\ backlog' = [backlog EXCEPT ![e] = Tail(@)]
        /\ clientSocket' = clientSocket
        /\ backlog[e] # <<>> /\ backlog[e] \in Seq(Endpoint)
    BY <1>2 DEF Accept
  <2>2. \A k \in 1..Len(backlog[e]) : backlog[e][k] = Mirror(e)
    BY <2>1 DEF ChannelsMatch
  <2>3. Head(backlog[e]) = Mirror(e)
    BY <2>1, <2>2
  <2>4. \A k \in DOMAIN Tail(backlog[e]) : Tail(backlog[e])[k] = Mirror(e)
    BY <2>1, <2>2
  <2>5. QED
    BY <2>1, <2>3, <2>4 DEF ChannelsMatch
<1>3. CASE ~Connect(e) /\ ~Accept(e)
  <2>1. UNCHANGED <<backlog, clientSocket, serverSocket>>
    BY <1>3 DEF ChannelStep, Construct, StartJoin, ConnectRefused, ConnectFault,
                ConnectFailed, AcceptFault, FinishJoin, socketVars
  <2>2. QED
    BY <2>1 DEF ChannelsMatch
<1>4. QED
  BY <1>1, <1>2, <1>3

(* Whatever fails or crashes, with disjoint port ranges every connection of *)
(* the mesh runs between the two channels that name each other.             *)
THEOREM MatchCorrect == ASSUME PortsDisjoint PROVE Spec => []ChannelsMatch
<1>1. ASSUME TypeOK, ChannelsMatch, [Next]_vars PROVE ChannelsMatch'
  <2>1. CASE UNCHANGED vars
    BY <1>1, <2>1 DEF vars, channelVars, ChannelsMatch
  <2>2. ASSUME NEW p \in Party, Unwind(p) \/ Crash(p) PROVE ChannelsMatch'
    <3>1. CloseAll(ChannelsOf(p))
      BY <2>2 DEF Unwind, Crash
    <3>2. QED
      BY <1>1, <3>1 DEF CloseAll, ChannelsMatch
  <2>3. ASSUME NEW p \in Party, SkipSelf(p) \/ Return(p) \/ StoreChannel(p)
        PROVE  ChannelsMatch'
    <3>1. UNCHANGED channelVars
      BY <2>3 DEF Return, SkipSelf, StoreChannel
    <3>2. QED
      BY <1>1, <3>1 DEF channelVars, ChannelsMatch
  <2>4. QED
    BY <1>1, <2>1, <2>2, <2>3, StepCases, MatchChannelStep
<1>2. QED
  BY <1>1, MatchInit, TypeCorrect, PTL DEF Spec

-----------------------------------------------------------------------------
(* The inductive invariant of a set-up before its first fault or crash.  An *)
(* end that was refused is waiting in accept, its acceptor is open, and its *)
(* mirror channel did not exist when it was refused, so the mirror will not *)
(* be refused; a connection stays in a backlog until it is accepted.        *)
QuietChannel(e) ==
    /\ pc[e] \notin {"thrown", "closed"}
    /\ e \in listening <=> pc[e] # "new"
    /\ pc[e] \in {"new", "constructed"} =>
         totalSleep[e] = 0 /\ ~isConnected[e] /\ ~isAccepted[e]
    /\ pc[e] = "loop" /\ ~isAccepted[e] => totalSleep[e] = 0 /\ ~isConnected[e]
    /\ pc[e] = "accept" =>
         ~isAccepted[e] /\ (isConnected[e] \/ totalSleep[e] = SleepBetweenAttempts)
    /\ totalSleep[e] \in {0, SleepBetweenAttempts}
    /\ totalSleep[e] # 0 => totalSleep[Mirror(e)] = 0
    /\ isAccepted[e] => serverSocket[e] # NoPeer /\ Mirror(e) \in listening
    /\ isConnected[e] => clientSocket[e] # NoPeer
    /\ backlog[e] # <<>> => Mirror(e) \in listening
    /\ isConnected[e] /\ ~isAccepted[Mirror(e)] => backlog[Mirror(e)] # <<>>

QuietInv == Undisturbed => \A e \in Endpoint : QuietChannel(e)

LEMMA QuietInit == Init => QuietInv
BY DEF Init, TcpInit, QuietInv, QuietChannel, Mirror, Endpoint

LEMMA AppendNotEmpty ==
    ASSUME NEW S, NEW s \in Seq(S), NEW x \in S
    PROVE  Append(s, x) # <<>>
<1>1. Len(Append(s, x)) = Len(s) + 1 /\ Len(s) \in Nat /\ Len(<<>>) = 0
  OBVIOUS
<1>2. QED
  BY <1>1

(* An acceptor address belongs to one channel.                              *)
LEMMA OneAcceptor ==
    ASSUME PortsDisjoint, NEW e \in Endpoint, NEW f \in Endpoint,
           AcceptAddress(f) = AcceptAddress(e)
    PROVE  f = e
<1>1. Mirror(e) \in Endpoint /\ Mirror(Mirror(e)) = e
  BY MirrorOfMirror
<1>2. AcceptAddress(e) = other[Mirror(e)]
  BY <1>1, OnlyMirrorListens
<1>3. QED
  BY <1>1, <1>2, OnlyMirrorListens

LEMMA QuietChannelStep ==
    ASSUME PortsDisjoint, TypeOK, QuietInv, Undisturbed, Undisturbed',
           NEW e \in Endpoint, ChannelStep(e), UNCHANGED setupVars,
           NEW d \in Endpoint
    PROVE  QuietChannel(d)'
<1> DEFINE m == Mirror(e)
<1>1. m \in Endpoint /\ Mirror(m) = e /\ m # e
  BY MirrorOfMirror DEF Mirror, Endpoint
<1>2. \A f \in Endpoint : Mirror(f) \in Endpoint /\ (Mirror(f) = e <=> f = m)
                                            /\ (Mirror(f) = m <=> f = e)
  BY <1>1, MirrorOfMirror
<1>3. Reachable(e) = {f \in {m} : f \in listening}
  BY <1>1, OnlyMirrorListens DEF Reachable, TypeOK, TcpTypeOK
<1>4. ~ConnectFault(e) /\ ~AcceptFault(e)
  BY DEF ConnectFault, AcceptFault, Undisturbed
<1>6. QuietChannel(d) /\ QuietChannel(e) /\ QuietChannel(m)
  BY <1>1 DEF QuietInv
<1> HIDE DEF m
<1> USE BoundsAssumption DEF TypeOK, TcpTypeOK, PcValues
<1>7. CASE Construct(e)
  <2>1. ~\E f \in listening : AcceptAddress(f) = AcceptAddress(e)
    BY <1>6, <1>7, OneAcceptor DEF QuietChannel, Construct
  <2>2. QED
    BY <2>1, <1>2, <1>6, <1>7 DEF Construct, joinVars, QuietChannel
<1>8. CASE StartJoin(e)
  BY <1>2, <1>6, <1>8 DEF StartJoin, socketVars, QuietChannel
<1>9. CASE Connect(e)
  <2>1. /\ m \in listening
        /\ clientSocket' = [clientSocket EXCEPT ![e] = m]
        /\ backlog' = [backlog EXCEPT ![m] = Append(@, e)]
    BY <1>3, <1>9 DEF Connect
  <2>2. backlog'[m] # <<>> /\ m # NoPeer
    <3>1. backlog[m] \in Seq(Endpoint) /\ backlog'[m] = Append(backlog[m], e)
      BY <1>1, <2>1
    <3>2. backlog'[m] # <<>>
      BY <3>1, AppendNotEmpty
    <3>3. QED
      BY <3>2, <1>1, NoPeerNotEndpoint
  <2>3. e \in listening
    BY <1>6, <1>9 DEF Connect, QuietChannel
  <2>4. QED
    BY <1>1, <1>2, <1>6, <1>9, <2>1, <2>2, <2>3, ZenonT(30) DEF Connect, AfterConnect, QuietChannel
<1>10. CASE ConnectRefused(e)
  <2>1. m \notin listening
    BY <1>3, <1>10 DEF ConnectRefused
  <2>2. ~isAccepted[e] /\ totalSleep[e] = 0 /\ totalSleep[m] = 0
    BY <1>1, <1>6, <1>10, <2>1 DEF ConnectRefused, QuietChannel, m
  <2>3. /\ pc' = [pc EXCEPT ![e] = "accept"]
        /\ totalSleep' = [totalSleep EXCEPT ![e] = SleepBetweenAttempts]
        /\ UNCHANGED <<isConnected, isAccepted, socketVars>>
    BY <1>10, <2>2 DEF ConnectRefused, ConnectFailed, AfterConnect
  <2>4. QED
    BY <1>1, <1>2, <1>6, <1>10, <2>2, <2>3 DEF ConnectRefused, QuietChannel, socketVars
<1>11. CASE Accept(e)
  <2>1. Head(backlog[e]) \in Endpoint /\ m \in listening
    BY <1>6, <1>11 DEF Accept, QuietChannel, m
  <2>2. Head(backlog[e]) # NoPeer
    BY <2>1, NoPeerNotEndpoint
  <2>3. AtAccept(e)
    BY <1>11 DEF Accept
  <2>4. QED
    BY <1>1, <1>2, <1>6, <1>11, <2>1, <2>2, <2>3 DEF Accept, AtAccept, QuietChannel
<1>12. CASE FinishJoin(e)
  BY <1>2, <1>6, <1>12 DEF FinishJoin, setSocketOptions, joinVars, socketVars, QuietChannel
<1>13. QED
  BY <1>4, <1>7, <1>8, <1>9, <1>10, <1>11, <1>12 DEF ChannelStep

(* What has failed stays failed.                                            *)
LEMMA DisturbedForever ==
    ASSUME TypeOK, [Next]_vars, Undisturbed'
    PROVE  Undisturbed
<1> USE DEF Undisturbed, TypeOK, TcpTypeOK
<1>1. CASE UNCHANGED vars
  BY <1>1 DEF vars, channelVars, setupVars
<1>2. ASSUME NEW e \in Endpoint, ChannelStep(e), UNCHANGED setupVars PROVE Undisturbed
  BY <1>2 DEF ChannelStep, Construct, StartJoin, Connect, ConnectRefused, ConnectFault,
              Accept, AcceptFault, FinishJoin, setupVars
<1>3. ASSUME NEW p \in Party, SkipSelf(p) \/ Return(p) \/ StoreChannel(p) PROVE Undisturbed
  BY <1>3 DEF Return, SkipSelf, StoreChannel, channelVars
<1>4. ASSUME NEW p \in Party, Unwind(p) \/ Crash(p) PROVE Undisturbed
  BY <1>4 DEF Unwind, Crash, CloseAll
<1>5. QED
  BY <1>1, <1>2, <1>3, <1>4, StepCases

LEMMA QuietStep ==
    ASSUME PortsDisjoint, TypeOK, QuietInv, [Next]_vars
    PROVE  QuietInv'
<1> SUFFICES ASSUME Undisturbed' PROVE \A e \in Endpoint : QuietChannel(e)'
  BY DEF QuietInv
<1>0. Undisturbed
  BY DisturbedForever
<1>1. CASE UNCHANGED vars
  BY <1>0, <1>1 DEF vars, channelVars, setupVars, QuietInv, QuietChannel
<1>2. ASSUME NEW p \in Party, SkipSelf(p) \/ Return(p) \/ StoreChannel(p)
      PROVE  \A e \in Endpoint : QuietChannel(e)'
  <2>1. UNCHANGED channelVars
    BY <1>2 DEF Return, SkipSelf, StoreChannel
  <2>2. QED
    BY <1>0, <2>1 DEF channelVars, QuietInv, QuietChannel
<1>3. ASSUME NEW p \in Party, Unwind(p) \/ Crash(p) PROVE FALSE
  <2>1. InBody(p) => Current(p) \in Endpoint
    BY NAssumption DEF TypeOK, InBody, Party, Current, Endpoint
  <2>2. QED
    BY <1>0, <1>3, <2>1 DEF Unwind, Crash, QuietInv, QuietChannel, Undisturbed
<1>4. QED
  BY <1>0, <1>1, <1>2, <1>3, StepCases, QuietChannelStep

(* Before the first fault or crash no join throws: at most one end of a     *)
(* channel is refused, and only once, whatever the timeout.                 *)
THEOREM NoThrowCorrect ==
    ASSUME PortsDisjoint PROVE  Spec => []NoJoinThrows
<1>1. ASSUME TypeOK, QuietInv, [Next]_vars PROVE QuietInv'
  BY <1>1, QuietStep
<1>2. TypeOK /\ QuietInv => NoJoinThrows
  BY BoundsAssumption, MirrorOfMirror
     DEF TypeOK, TcpTypeOK, QuietInv, QuietChannel, NoJoinThrows
<1>3. QED
  BY <1>1, <1>2, QuietInit, TypeCorrect, PTL DEF Spec

(* Before the first fault or crash the two ends of a channel are never both *)
(* blocked in accept with nothing to accept.                                *)
THEOREM NoMutualAcceptCorrect ==
    ASSUME PortsDisjoint PROVE  Spec => []NoMutualAccept
<1>1. ASSUME TypeOK, QuietInv, [Next]_vars PROVE QuietInv'
  BY <1>1, QuietStep
<1>2. TypeOK /\ QuietInv => NoMutualAccept
  <2> SUFFICES ASSUME TypeOK, QuietInv, Undisturbed, NEW e \in Endpoint,
                      Blocked(e), Blocked(Mirror(e))
               PROVE  FALSE
    BY DEF NoMutualAccept
  <2>1. /\ Mirror(e) \in Endpoint /\ Mirror(Mirror(e)) = e
        /\ QuietChannel(e) /\ QuietChannel(Mirror(e))
    BY MirrorOfMirror DEF QuietInv
  <2>2. ~isConnected[e] /\ ~isConnected[Mirror(e)]
    BY <2>1 DEF Blocked, AtAccept, QuietChannel
  <2>3. totalSleep[e] = SleepBetweenAttempts /\ totalSleep[Mirror(e)] = SleepBetweenAttempts
    BY <2>1, <2>2 DEF Blocked, AtAccept, QuietChannel
  <2>4. QED
    BY <2>1, <2>3, BoundsAssumption DEF QuietChannel
<1>3. QED
  BY <1>1, <1>2, QuietInit, TypeCorrect, PTL DEF Spec

(* Both together: until something fails, no join of the mesh throws and no  *)
(* two ends of a channel wait for each other (setCommunication and join).   *)
THEOREM UndisturbedJoinsCorrect ==
    ASSUME PortsDisjoint PROVE  Spec => []UndisturbedJoins
<1>1. NoJoinThrows /\ NoMutualAccept => UndisturbedJoins
  BY DEF UndisturbedJoins
<1>2. QED
  BY <1>1, NoThrowCorrect, NoMutualAcceptCorrect, PTL

-----------------------------------------------------------------------------
(* The inductive invariant of the loop of setCommunication, for the parties *)
(* that are still running it or have left it in order: the vector holds one *)
(* entry for every id the loop has passed, their channels are joined, and a *)
(* joined channel has an accepted socket.                                   *)
Stored(p) == IF index[p] > p THEN index[p] - 1 ELSE index[p]
LoopOf(p) ==
    /\ parties[p] = [k \in 1 .. Stored(p) |-> <<Peers(p)[k], <<p, Peers(p)[k]>>>>]
    /\ \A i \in Party \ {p} : i < index[p] => pc[<<p, i>>] = "joined"
    /\ status[p] = "returned" => index[p] = N
Live(p) == status[p] \in {"running", "returned"}
LoopInv ==
    /\ \A p \in Party : Live(p) => LoopOf(p)
    /\ \A e \in Endpoint : pc[e] = "joined" => serverSocket[e] # NoPeer

LEMMA LoopInit == Init => LoopInv
<1> SUFFICES ASSUME Init PROVE LoopInv
  OBVIOUS
<1>1. ASSUME NEW p \in Party PROVE LoopOf(p)
  <2>1. index[p] = 0 /\ parties[p] = <<>> /\ status[p] = "running" /\ Stored(p) = 0
    BY NAssumption DEF Init, Stored, Party
  <2>2. QED
    BY <2>1, NAssumption DEF LoopOf, Party
<1>2. QED
  BY <1>1 DEF LoopInv, Init, TcpInit

(* A step of one channel leaves the joined channels and the sockets they    *)
(* accepted alone, and joins a channel only with an accepted socket.        *)
LEMMA JoinedStaysJoined ==
    ASSUME TypeOK, NEW e \in Endpoint, ChannelStep(e), NEW d \in Endpoint
    PROVE  /\ pc[d] = "joined" => pc'[d] = "joined" /\ serverSocket'[d] = serverSocket[d]
           /\ pc[d] # "joined" /\ pc'[d] = "joined" => serverSocket'[d] # NoPeer
<1> USE DEF TypeOK, TcpTypeOK, PcValues
<1>1. CASE Construct(e)
  BY <1>1 DEF Construct
<1>2. CASE StartJoin(e)
  BY <1>2 DEF StartJoin, socketVars
<1>3. CASE Connect(e)
  BY <1>3 DEF Connect, AfterConnect
<1>4. CASE ConnectRefused(e) \/ ConnectFault(e)
  BY <1>4 DEF ConnectRefused, ConnectFault, ConnectFailed, AfterConnect, socketVars
<1>5. CASE Accept(e)
  BY <1>5 DEF Accept, AtAccept
<1>6. CASE AcceptFault(e)
  BY <1>6 DEF AcceptFault, AtAccept, socketVars
<1>7. CASE FinishJoin(e)
  BY <1>7 DEF FinishJoin, setSocketOptions, socketVars
<1>8. QED
  BY <1>1, <1>2, <1>3, <1>4, <1>5, <1>6, <1>7 DEF ChannelStep

(* Appending the next value to a table of n values gives one of n + 1.      *)
LEMMA AppendToTable ==
    ASSUME NEW S, NEW n \in Nat, NEW F(_), \A k \in 1 .. n + 1 : F(k) \in S,
           NEW x, x = F(n + 1)
    PROVE  Append([k \in 1 .. n |-> F(k)], x) = [k \in 1 .. n + 1 |-> F(k)]
OBVIOUS

LEMMA LoopStep == ASSUME TypeOK, LoopInv, [Next]_vars PROVE LoopInv'
<1> USE DEF TypeOK, TcpTypeOK
<1>1. CASE UNCHANGED vars
  BY <1>1 DEF vars, channelVars, setupVars, LoopInv, Live, LoopOf, Stored
<1>2. ASSUME NEW e \in Endpoint, ChannelStep(e), UNCHANGED setupVars PROVE LoopInv'
  <2>1. ASSUME NEW d \in Endpoint, pc'[d] = "joined" PROVE serverSocket'[d] # NoPeer
    BY <1>2, <2>1, JoinedStaysJoined DEF LoopInv
  <2>2. ASSUME NEW p \in Party, Live(p)' PROVE LoopOf(p)'
    <3>1. UNCHANGED <<index, parties, status>>
      BY <1>2 DEF setupVars
    <3>2. LoopOf(p)
      BY <2>2, <3>1 DEF LoopInv, Live
    <3>3. \A i \in Party \ {p} : <<p, i>> \in Endpoint
      BY DEF Endpoint
    <3>4. QED
      BY <3>1, <3>2, <3>3, <1>2, JoinedStaysJoined DEF LoopOf, Stored
  <2>3. QED
    BY <2>1, <2>2 DEF LoopInv
<1>3. ASSUME NEW p \in Party, SkipSelf(p) \/ Return(p) \/ StoreChannel(p) PROVE LoopInv'
  <2>1. UNCHANGED <<pc, serverSocket>>
    BY <1>3 DEF Return, SkipSelf, StoreChannel, channelVars
  <2>2. ASSUME NEW q \in Party, q # p, Live(q)' PROVE LoopOf(q)'
    <3>1. parties'[q] = parties[q] /\ index'[q] = index[q] /\ status'[q] = status[q]
      BY <1>3, <2>2 DEF Return, SkipSelf, StoreChannel
    <3>2. LoopOf(q)
      BY <2>2, <3>1 DEF LoopInv, Live
    <3>3. QED
      BY <2>1, <3>1, <3>2 DEF LoopOf, Stored
  <2>3. status[p] = "running" /\ LoopOf(p) /\ p \in Nat
    BY <1>3, NAssumption DEF SkipSelf, Return, StoreChannel, InBody, LoopInv, Live, Party
  <2>4. LoopOf(p)'
    <3>1. CASE SkipSelf(p)
      <4>1. index[p] = p /\ index'[p] = p + 1 /\ parties'[p] = parties[p] /\ status'[p] = "running"
        BY <2>3, <3>1 DEF SkipSelf
      <4>2. Stored(p)' = Stored(p)
        BY <2>3, <4>1 DEF Stored
      <4>3. \A i \in Party \ {p} : i < p + 1 => i < p
        BY <2>3, NAssumption DEF Party
      <4>4. QED
        BY <2>1, <2>3, <4>1, <4>2, <4>3 DEF LoopOf
    <3>2. CASE Return(p)
      BY <2>1, <2>3, <3>2 DEF Return, LoopOf, Stored
    <3>3. CASE StoreChannel(p)
      <4> DEFINE i == index[p]
                 n == Stored(p)
                 F(k) == <<Peers(p)[k], <<p, Peers(p)[k]>>>>
      <4>1. /\ i \in 0 .. N - 1 /\ i # p /\ pc[<<p, i>>] = "joined" /\ status'[p] = "running"
            /\ index'[p] = i + 1 /\ parties'[p] = Append(parties[p], <<i, <<p, i>>>>)
        BY <2>3, <3>3, NAssumption DEF StoreChannel, InBody, Current
      <4>2. n \in 0 .. N - 2 /\ Stored(p)' = n + 1 /\ Peers(p)[n + 1] = i
        <5>1. /\ n = IF i > p THEN i - 1 ELSE i
              /\ Stored(p)' = IF i + 1 > p THEN i ELSE i + 1
          BY <2>3, <4>1, NAssumption DEF Stored
        <5>2. p \in 0 .. N - 1
          BY DEF Party
        <5>3. n \in 0 .. N - 2 /\ Stored(p)' = n + 1
          BY <2>3, <4>1, <5>1, <5>2, NAssumption
        <5>4. n + 1 \in 1 .. N - 1 /\ (n < p => i = n) /\ (~(n < p) => i = n + 1)
          BY <2>3, <4>1, <5>1, <5>2, <5>3, NAssumption
        <5>5. \A k \in 1 .. N - 1 : Peers(p)[k] = IF k - 1 < p THEN k - 1 ELSE k
          BY DEF Peers
        <5>6. Peers(p)[n + 1] = i
          BY <2>3, <5>2, <5>3, <5>4, <5>5, NAssumption
        <5>7. QED
          BY <5>3, <5>6
      <4>3. Append([k \in 1 .. n |-> F(k)], <<i, <<p, i>>>>) = [k \in 1 .. n + 1 |-> F(k)]
        <5>1. <<i, <<p, i>>>> = F(n + 1) /\ n \in Nat
          BY <4>2, NAssumption
        <5>2. QED
          BY <5>1, AppendToTable
      <4>4. \A j \in Party \ {p} : j < i + 1 => j < i \/ j = i
        BY <4>1, NAssumption DEF Party
      <4>5. QED
        BY <2>1, <2>3, <4>1, <4>2, <4>3, <4>4 DEF LoopOf
    <3>4. QED
      BY <1>3, <3>1, <3>2, <3>3
  <2>5. QED
    BY <2>1, <2>2, <2>4 DEF LoopInv
<1>4. ASSUME NEW p \in Party, Unwind(p) \/ Crash(p) PROVE LoopInv'
  <2>1. CloseAll(ChannelsOf(p)) /\ UNCHANGED index
    BY <1>4 DEF Unwind, Crash
  <2>2. ~Live(p)'
    BY <1>4 DEF Unwind, Crash, Live
  <2>3. ASSUME NEW q \in Party, q # p, Live(q)' PROVE LoopOf(q)'
    <3>1. parties'[q] = parties[q] /\ status'[q] = status[q]
      BY <1>4, <2>3 DEF Unwind, Crash
    <3>2. LoopOf(q)
      BY <2>3, <3>1 DEF LoopInv, Live
    <3>3. \A i \in Party \ {q} : <<q, i>> \in Endpoint /\ pc'[<<q, i>>] = pc[<<q, i>>]
      BY <2>1, <2>3 DEF CloseAll, ChannelsOf, Endpoint
    <3>4. QED
      BY <2>1, <3>1, <3>2, <3>3 DEF LoopOf, Stored
  <2>4. \A e \in Endpoint : pc'[e] = "joined" => serverSocket'[e] # NoPeer
    BY <2>1 DEF CloseAll, LoopInv
  <2>5. QED
    BY <2>2, <2>3, <2>4 DEF LoopInv
<1>5. QED
  BY <1>1, <1>2, <1>3, <1>4, StepCases

(* Whatever fails or crashes around it, a party whose setCommunication has  *)
(* returned holds exactly one joined channel per other party, in the order  *)
(* of their ids.                                                            *)
THEOREM ReturnedCompleteCorrect == Spec => []ReturnedComplete
<1>1. ASSUME TypeOK, LoopInv, [Next]_vars PROVE LoopInv'
  BY <1>1, LoopStep
<1>2. TypeOK /\ LoopInv => ReturnedComplete
  <2> SUFFICES ASSUME TypeOK, LoopInv, NEW p \in Party, status[p] = "returned"
               PROVE  /\ parties[p] = [k \in 1 .. N - 1 |-> <<Peers(p)[k], <<p, Peers(p)[k]>>>>]
                      /\ \A e \in ChannelsOf(p) : pc[e] = "joined" /\ serverSocket[e] # NoPeer
    BY DEF ReturnedComplete
  <2>1. LoopOf(p) /\ index[p] = N /\ Stored(p) = N - 1
    BY NAssumption DEF LoopInv, Live, LoopOf, Stored, Party
  <2>2. ASSUME NEW e \in ChannelsOf(p) PROVE pc[e] = "joined" /\ serverSocket[e] # NoPeer
    <3>1. e \in Endpoint /\ e = <<p, e[2]>> /\ e[2] \in Party \ {p} /\ e[2] < N
      BY NAssumption DEF ChannelsOf, Endpoint, Party
    <3>2. pc[<<p, e[2]>>] = "joined"
      BY <2>1, <3>1 DEF LoopOf
    <3>3. QED
      BY <3>1, <3>2 DEF LoopInv
  <2>3. QED
    BY <2>1, <2>2 DEF LoopOf
<1>3. QED
  BY <1>1, <1>2, LoopInit, TypeCorrect, PTL DEF Spec

=============================================================================
