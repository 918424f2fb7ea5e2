--------------------------- MODULE ChannelProofs ---------------------------
(* Safety of one TCP channel: the join of CommPartyTCPSynced, for every set *)
(* of endpoints, and the framing of its messages, for every byte, size      *)
(* field and set of messages.                                               *)
EXTENDS TcpJoin, FramedChannel, TLAPS

-----------------------------------------------------------------------------
(* The join.  A socket and a queue entry only ever name an endpoint on the  *)
(* address that was connected to, and one that was started; an accepted or  *)
(* queued connection has its client end until that end is closed; and a     *)
(* connection stays in the queue of a living acceptor until it is accepted. *)
Towards(e, f) == AcceptAddress(f) = OtherAddress[e] /\ pc[e] # "new" /\ pc[f] # "new"
Queued(e, f) == \E k \in DOMAIN backlog[f] : backlog[f][k] = e
HasClient(e) == pc[e] = "closed" \/ clientSocket[e] # NoPeer

EndInv(e) ==
    /\ e \in listening => pc[e] # "new"
    /\ clientSocket[e] # NoPeer => Towards(e, clientSocket[e])
    /\ serverSocket[e] # NoPeer =>
         /\ Towards(serverSocket[e], e) /\ HasClient(serverSocket[e])
         /\ isAccepted[e] /\ pc[e] # "constructed"
    /\ \A k \in DOMAIN backlog[e] : Towards(backlog[e][k], e) /\ HasClient(backlog[e][k])
    /\ pc[e] = "joined" /\ Role[e] = 2 => serverSocket[e] # NoPeer

LinkInv(e, f) ==
    clientSocket[e] = f =>
        pc[f] = "closed" \/ Queued(e, f) \/ serverSocket[f] = e

JoinInv == \A e \in Endpoints : EndInv(e) /\ \A f \in Endpoints : LinkInv(e, f)
LEMMA TcpTypeStep == ASSUME TcpTypeOK, [TcpNext]_tcpVars PROVE TcpTypeOK'
<1> USE DEF TcpTypeOK, PcValues
<1>1. CASE UNCHANGED tcpVars
  BY <1>1 DEF tcpVars, joinVars, socketVars
<1>2. ASSUME NEW e \in Endpoints, Construct(e) PROVE TcpTypeOK'
  BY <1>2 DEF Construct, joinVars
<1>3. ASSUME NEW e \in Endpoints, StartJoin(e) PROVE TcpTypeOK'
  BY <1>3 DEF StartJoin, socketVars
<1>4. ASSUME NEW e \in Endpoints, Connect(e) PROVE TcpTypeOK'
  <2>1. PICK f \in Reachable(e) :
            /\ clientSocket' = [clientSocket EXCEPT ![e] = f]
            /\ backlog' = [backlog EXCEPT ![f] = Append(@, e)]
    BY <1>4 DEF Connect
  <2>2. f \in Endpoints
    BY DEF Reachable
  <2>3. backlog' \in [Endpoints -> Seq(Endpoints)]
    BY <2>1, <2>2
  <2>4. QED
    BY <1>4, <2>1, <2>2, <2>3 DEF Connect, AfterConnect
<1>5. ASSUME NEW e \in Endpoints, ConnectRefused(e) \/ ConnectFault(e) PROVE TcpTypeOK'
  <2>1. ConnectFailed(e) /\ faults' \in Nat
    BY <1>5 DEF ConnectRefused, ConnectFault
  <2>2. totalSleep[e] + SleepBetweenAttempts \in Nat
    BY TimesAssumption
  <2>3. totalSleep' \in [Endpoints -> Nat]
    BY <2>1, <2>2 DEF ConnectFailed
  <2>4. QED
    BY <2>1, <2>3 DEF ConnectFailed, AfterConnect, socketVars
<1>6. ASSUME NEW e \in Endpoints, Accept(e) PROVE TcpTypeOK'
  <2>1. backlog[e] \in Seq(Endpoints) /\ backlog[e] # <<>>
    BY <1>6 DEF Accept
  <2>2. Head(backlog[e]) \in Endpoints /\ Tail(backlog[e]) \in Seq(Endpoints)
    BY <2>1
  <2>3. QED
    BY <1>6, <2>2 DEF Accept
<1>7. ASSUME NEW e \in Endpoints, AcceptFault(e) PROVE TcpTypeOK'
  BY <1>7 DEF AcceptFault, socketVars
<1>8. ASSUME NEW e \in Endpoints, FinishJoin(e) PROVE TcpTypeOK'
  BY <1>8 DEF FinishJoin, setSocketOptions, joinVars, socketVars
<1>9. ASSUME NEW e \in Endpoints, Destroy(e) PROVE TcpTypeOK'
  BY <1>9 DEF Destroy, CloseAll, joinVars
<1>10. QED
  BY <1>1, <1>2, <1>3, <1>4, <1>5, <1>6, <1>7, <1>8, <1>9 DEF TcpNext, JoinStep, JoinFault

(* The variables of the endpoints hold values of their types.               *)
THEOREM TcpTypeCorrect == TcpSpec => []TcpTypeOK
<1>1. TcpInit => TcpTypeOK
  BY DEF TcpInit, TcpTypeOK, PcValues
<1>2. QED
  BY <1>1, TcpTypeStep, PTL DEF TcpSpec

(* What Append does to the entries of a sequence.                           *)
LEMMA AppendFacts ==
    ASSUME NEW S, NEW s \in Seq(S), NEW x \in S
    PROVE  /\ Append(s, x) \in Seq(S)
           /\ Len(s) \in Nat /\ Len(Append(s, x)) = Len(s) + 1
           /\ DOMAIN s = 1 .. Len(s) /\ DOMAIN Append(s, x) = 1 .. Len(s) + 1
           /\ \A k \in 1 .. Len(s) : Append(s, x)[k] = s[k]
           /\ Append(s, x)[Len(s) + 1] = x
OBVIOUS

LEMMA JoinInvInit == TcpInit => JoinInv
<1> SUFFICES ASSUME TcpInit, NEW e \in Endpoints
             PROVE  EndInv(e) /\ \A f \in Endpoints : LinkInv(e, f)
  BY DEF JoinInv
<1>1. /\ clientSocket[e] = NoPeer /\ serverSocket[e] = NoPeer /\ backlog[e] = <<>>
      /\ pc[e] = "new" /\ e \notin listening
  BY DEF TcpInit
<1>2. EndInv(e)
  BY <1>1 DEF EndInv
<1>3. \A f \in Endpoints : LinkInv(e, f)
  BY <1>1, NoPeerAssumption DEF LinkInv
<1>4. QED
  BY <1>2, <1>3

(* A step that changes no socket and no queue, makes nothing new and closes *)
(* nothing keeps the invariant, if it joins only with an accepted socket.   *)
LEMMA SocketsUnchanged ==
    ASSUME TcpTypeOK, JoinInv, NEW e \in Endpoints, NEW v \in PcValues \ {"new", "closed"},
           pc[e] # "closed", pc' = [pc EXCEPT ![e] = v],
           UNCHANGED <<backlog, clientSocket, serverSocket>>,
           listening' = listening \/ listening' = listening \cup {e},
           \A d \in Endpoints : d # e => isAccepted'[d] = isAccepted[d],
           serverSocket[e] # NoPeer => isAccepted'[e] /\ v # "constructed",
           v = "joined" /\ Role[e] = 2 => serverSocket[e] # NoPeer
    PROVE  JoinInv'
<1> USE DEF TcpTypeOK, PcValues
<1>1. \A d \in Endpoints : /\ pc[d] # "new" => pc'[d] # "new"
                           /\ pc'[d] = "closed" <=> pc[d] = "closed"
                           /\ HasClient(d)' <=> HasClient(d)
  BY DEF HasClient
<1>2. ASSUME NEW d \in Endpoints PROVE EndInv(d)'
  <2>1. EndInv(d)
    BY DEF JoinInv
  <2>2. ASSUME NEW c \in Endpoints, NEW f \in Endpoints, Towards(c, f) PROVE Towards(c, f)'
    BY <1>1, <2>2 DEF Towards
  <2>3. clientSocket'[d] # NoPeer => Towards(d, clientSocket[d])'
    BY <2>1, <2>2 DEF EndInv
  <2>4. serverSocket'[d] # NoPeer =>
          Towards(serverSocket[d], d)' /\ HasClient(serverSocket[d])'
    BY <2>1, <2>2, <1>1 DEF EndInv
  <2>5. \A k \in DOMAIN backlog[d] : Towards(backlog[d][k], d)' /\ HasClient(backlog[d][k])'
    BY <2>1, <2>2, <1>1 DEF EndInv
  <2>6. serverSocket'[d] # NoPeer => isAccepted'[d] /\ pc'[d] # "constructed"
    BY <2>1 DEF EndInv
  <2>7. d \in listening' => pc'[d] # "new"
    BY <2>1 DEF EndInv
  <2>8. pc'[d] = "joined" /\ Role[d] = 2 => serverSocket'[d] # NoPeer
    BY <2>1 DEF EndInv
  <2>9. QED
    BY <2>3, <2>4, <2>5, <2>6, <2>7, <2>8 DEF EndInv
<1>3. ASSUME NEW d \in Endpoints, NEW f \in Endpoints PROVE LinkInv(d, f)'
  BY <1>1 DEF JoinInv, LinkInv, Queued
<1>4. QED
  BY <1>2, <1>3 DEF JoinInv

LEMMA ConnectKeeps ==
    ASSUME TcpTypeOK, JoinInv, NEW e \in Endpoints, Connect(e)
    PROVE  JoinInv'
<1> USE DEF TcpTypeOK, PcValues
<1>1. PICK f \in Reachable(e) :
          /\ clientSocket' = [clientSocket EXCEPT ![e] = f]
          /\ backlog' = [backlog EXCEPT ![f] = Append(@, e)]
  BY DEF Connect
<1>2. /\ f \in Endpoints /\ f \in listening /\ AcceptAddress(f) = OtherAddress[e] /\ pc[f] # "new"
  BY DEF Reachable, JoinInv, EndInv
<1>3. PICK v \in {"loop", "accept"} : pc' = [pc EXCEPT ![e] = v]
  BY DEF Connect, AfterConnect
<1>4. pc[e] = "loop" /\ UNCHANGED <<isAccepted, listening, serverSocket>>
  BY DEF Connect
<1>5. \A d \in Endpoints : /\ pc[d] # "new" => pc'[d] # "new"
                           /\ pc'[d] = "closed" <=> pc[d] = "closed"
                           /\ HasClient(d) => HasClient(d)'
  BY <1>1, <1>2, <1>3, <1>4, NoPeerAssumption DEF HasClient
<1>6. ASSUME NEW c \in Endpoints, NEW d \in Endpoints, Towards(c, d) PROVE Towards(c, d)'
  BY <1>5, <1>6 DEF Towards
<1>7. Towards(e, f)' /\ HasClient(e)'
  BY <1>1, <1>2, <1>4, <1>5, NoPeerAssumption DEF Towards, HasClient
<1>8. ASSUME NEW d \in Endpoints PROVE EndInv(d)'
  <2>1. EndInv(d)
    BY DEF JoinInv
  <2>2. d \in listening' => pc'[d] # "new"
    BY <1>4, <1>5, <2>1 DEF EndInv
  <2>3. ASSUME clientSocket'[d] # NoPeer, NEW c, c = clientSocket'[d] PROVE Towards(d, c)'
    <3>1. CASE d = e
      BY <1>1, <1>7, <2>3, <3>1
    <3>2. CASE d # e
      BY <1>1, <1>6, <2>1, <2>3, <3>2 DEF EndInv
    <3>3. QED
      BY <3>1, <3>2
  <2>4. serverSocket[d] # NoPeer =>
          /\ Towards(serverSocket[d], d)' /\ HasClient(serverSocket[d])'
          /\ isAccepted'[d] /\ pc'[d] # "constructed"
    BY <1>3, <1>4, <1>5, <1>6, <2>1 DEF EndInv
  <2>5. ASSUME NEW k \in DOMAIN backlog'[d], NEW c, c = backlog'[d][k]
        PROVE  Towards(c, d)' /\ HasClient(c)'
    <3>1. CASE d # f
      <4>1. c \in Endpoints /\ Towards(c, d) /\ HasClient(c)
        BY <1>1, <2>1, <2>5, <3>1 DEF EndInv
      <4>2. QED
        BY <4>1, <1>5, <1>6
    <3>2. CASE d = f
      <4>1. backlog[f] \in Seq(Endpoints) /\ backlog'[f] = Append(backlog[f], e)
        BY <1>1, <1>2
      <4>2. c = e \/ (k \in DOMAIN backlog[f] /\ c = backlog[f][k])
        BY <2>5, <3>2, <4>1
      <4>3. CASE c = e
        BY <4>3, <1>7, <3>2
      <4>4. CASE k \in DOMAIN backlog[f] /\ c = backlog[f][k]
        <5>1. c \in Endpoints /\ Towards(c, d) /\ HasClient(c)
          BY <2>1, <3>2, <4>1, <4>4 DEF EndInv
        <5>2. QED
          BY <5>1, <1>5, <1>6
      <4>5. QED
        BY <4>2, <4>3, <4>4
    <3>3. QED
      BY <3>1, <3>2
  <2>6. pc'[d] = "joined" /\ Role[d] = 2 => serverSocket'[d] # NoPeer
    BY <1>3, <1>4, <2>1 DEF EndInv
  <2>7. QED
    BY <1>4, <2>2, <2>3, <2>4, <2>5, <2>6 DEF EndInv
<1>9. ASSUME NEW d \in Endpoints, NEW c \in Endpoints PROVE LinkInv(d, c)'
  <2>1. ASSUME Queued(d, c) PROVE Queued(d, c)'
    <3>1. PICK k \in DOMAIN backlog[c] : backlog[c][k] = d
      BY <2>1 DEF Queued
    <3>2. k \in DOMAIN backlog'[c] /\ backlog'[c][k] = d
      <4>1. backlog[c] \in Seq(Endpoints) /\ (c = f => backlog'[c] = Append(backlog[c], e))
                                         /\ (c # f => backlog'[c] = backlog[c])
        BY <1>1, <1>2
      <4>2. k \in 1 .. Len(backlog[c])
        BY <3>1, <4>1
      <4>3. CASE c = f
        <5>1. DOMAIN backlog'[c] = 1 .. Len(backlog[c]) + 1 /\ Len(backlog[c]) \in Nat
          BY <4>1, <4>3, AppendFacts
        <5>2. backlog'[c][k] = backlog[c][k]
          BY <4>1, <4>2, <4>3, AppendFacts
        <5>3. QED
          BY <3>1, <4>2, <5>1, <5>2
      <4>4. QED
        BY <3>1, <4>1, <4>3
    <3>3. QED
      BY <3>2 DEF Queued
  <2>2. Queued(e, f)'
    <3>1. backlog[f] \in Seq(Endpoints) /\ backlog'[f] = Append(backlog[f], e)
      BY <1>1, <1>2
    <3>2. Len(backlog[f]) + 1 \in DOMAIN backlog'[f] /\ backlog'[f][Len(backlog[f]) + 1] = e
      BY <3>1
    <3>3. QED
      BY <3>2 DEF Queued
  <2>3. CASE d = e
    BY <2>2, <2>3, <1>1 DEF LinkInv
  <2>4. CASE d # e
    BY <2>1, <2>4, <1>1, <1>4, <1>5 DEF LinkInv, JoinInv
  <2>5. QED
    BY <2>3, <2>4
<1>10. QED
  BY <1>8, <1>9 DEF JoinInv

LEMMA AcceptKeeps ==
    ASSUME TcpTypeOK, JoinInv, NEW e \in Endpoints, Accept(e)
    PROVE  JoinInv'
<1> USE DEF TcpTypeOK, PcValues
<1> DEFINE h == Head(backlog[e])
<1>1. /\ backlog[e] \in Seq(Endpoints) /\ backlog[e] # <<>>
      /\ ~isAccepted[e] /\ pc[e] \in {"loop", "accept"}
      /\ serverSocket' = [serverSocket EXCEPT ![e] = h]
      /\ backlog' = [backlog EXCEPT ![e] = Tail(@)]
      /\ isAccepted' = [isAccepted EXCEPT ![e] = TRUE]
      /\ pc' = [pc EXCEPT ![e] = "loop"]
      /\ UNCHANGED <<listening, clientSocket>>
  BY DEF Accept, AtAccept
<1>2. 1 \in DOMAIN backlog[e] /\ h = backlog[e][1] /\ h \in Endpoints
  BY <1>1
<1>3. Towards(h, e) /\ HasClient(h) /\ serverSocket[e] = NoPeer
  BY <1>1, <1>2 DEF JoinInv, EndInv
<1> HIDE DEF h
<1>4. \A k \in DOMAIN Tail(backlog[e]) :
          k + 1 \in DOMAIN backlog[e] /\ Tail(backlog[e])[k] = backlog[e][k + 1]
  BY <1>1
<1>5. \A d \in Endpoints : /\ pc[d] # "new" => pc'[d] # "new"
                           /\ pc'[d] = "closed" <=> pc[d] = "closed"
                           /\ HasClient(d) => HasClient(d)'
  BY <1>1 DEF HasClient
<1>6. ASSUME NEW c \in Endpoints, NEW d \in Endpoints, Towards(c, d) PROVE Towards(c, d)'
  BY <1>5, <1>6 DEF Towards
<1>7. ASSUME NEW d \in Endpoints PROVE EndInv(d)'
  <2>1. EndInv(d)
    BY DEF JoinInv
  <2>2. d \in listening' => pc'[d] # "new"
    BY <1>1, <1>5, <2>1 DEF EndInv
  <2>3. clientSocket'[d] # NoPeer => Towards(d, clientSocket[d])'
    BY <1>1, <1>6, <2>1 DEF EndInv
  <2>4. ASSUME serverSocket'[d] # NoPeer, NEW c, c = serverSocket'[d]
        PROVE  Towards(c, d)' /\ HasClient(c)' /\ isAccepted'[d] /\ pc'[d] # "constructed"
    <3>1. CASE d = e
      BY <1>1, <1>2, <1>3, <1>5, <1>6, <2>4, <3>1
    <3>2. CASE d # e
      BY <1>1, <1>5, <1>6, <2>1, <2>4, <3>2 DEF EndInv
    <3>3. QED
      BY <3>1, <3>2
  <2>5. ASSUME NEW k \in DOMAIN backlog'[d], NEW c, c = backlog'[d][k]
        PROVE  Towards(c, d)' /\ HasClient(c)'
    <3>1. PICK j \in DOMAIN backlog[d] : c = backlog[d][j]
      <4>1. CASE d = e
        BY <1>1, <1>4, <2>5, <4>1
      <4>2. CASE d # e
        BY <1>1, <2>5, <4>2
      <4>3. QED
        BY <4>1, <4>2
    <3>2. c \in Endpoints /\ Towards(c, d) /\ HasClient(c)
      BY <2>1, <3>1 DEF EndInv
    <3>3. QED
      BY <3>2, <1>5, <1>6
  <2>6. pc'[d] = "joined" /\ Role[d] = 2 => serverSocket'[d] # NoPeer
    BY <1>1, <2>1 DEF EndInv
  <2>7. QED
    BY <1>1, <2>2, <2>3, <2>4, <2>5, <2>6 DEF EndInv
<1>8. ASSUME NEW d \in Endpoints, NEW c \in Endpoints PROVE LinkInv(d, c)'
  <2>1. ASSUME Queued(d, c) PROVE Queued(d, c)' \/ serverSocket'[c] = d
    <3>1. PICK k \in DOMAIN backlog[c] : backlog[c][k] = d
      BY <2>1 DEF Queued
    <3>2. CASE c # e
      BY <1>1, <3>1, <3>2 DEF Queued
    <3>3. CASE c = e /\ k = 1
      BY <1>1, <1>2, <3>1, <3>3
    <3>4. CASE c = e /\ k # 1
      <4>1. k - 1 \in DOMAIN Tail(backlog[e]) /\ Tail(backlog[e])[k - 1] = d
        BY <1>1, <3>1, <3>4
      <4>2. QED
        BY <1>1, <3>4, <4>1 DEF Queued
    <3>5. QED
      BY <3>2, <3>3, <3>4
  <2>2. serverSocket[c] = d => serverSocket'[c] = d
    BY <1>1, <1>3, NoPeerAssumption
  <2>3. QED
    BY <1>1, <1>5, <2>1, <2>2 DEF LinkInv, JoinInv
<1>9. QED
  BY <1>7, <1>8 DEF JoinInv

LEMMA DestroyKeeps ==
    ASSUME TcpTypeOK, JoinInv, NEW e \in Endpoints, Destroy(e)
    PROVE  JoinInv'
<1> USE DEF TcpTypeOK, PcValues
<1>1. /\ \A d \in Endpoints \ {e} :
            /\ pc'[d] = pc[d] /\ backlog'[d] = backlog[d]
            /\ clientSocket'[d] = clientSocket[d] /\ serverSocket'[d] = serverSocket[d]
      /\ pc'[e] = "closed" /\ backlog'[e] = <<>>
      /\ clientSocket'[e] = NoPeer /\ serverSocket'[e] = NoPeer
      /\ listening' = listening \ {e} /\ isAccepted' = isAccepted
  BY DEF Destroy, CloseAll, joinVars
<1>2. \A d \in Endpoints : (pc[d] # "new" => pc'[d] # "new") /\ (HasClient(d) => HasClient(d)')
  BY <1>1 DEF HasClient
<1>3. ASSUME NEW c \in Endpoints, NEW d \in Endpoints, Towards(c, d) PROVE Towards(c, d)'
  BY <1>2, <1>3 DEF Towards
<1>4. EndInv(e)'
  BY <1>1 DEF EndInv
<1>5. ASSUME NEW d \in Endpoints, d # e PROVE EndInv(d)'
  <2>1. EndInv(d)
    BY DEF JoinInv
  <2>2. UNCHANGED <<pc[d], backlog[d], clientSocket[d], serverSocket[d]>>
    BY <1>1, <1>5
  <2>3. clientSocket[d] # NoPeer => Towards(d, clientSocket[d])'
    BY <1>3, <2>1, <2>2 DEF EndInv
  <2>4. serverSocket[d] # NoPeer => Towards(serverSocket[d], d)' /\ HasClient(serverSocket[d])'
    BY <1>2, <1>3, <2>1, <2>2 DEF EndInv
  <2>5. \A k \in DOMAIN backlog[d] : Towards(backlog[d][k], d)' /\ HasClient(backlog[d][k])'
    BY <1>2, <1>3, <2>1, <2>2 DEF EndInv
  <2>6. QED
    BY <1>1, <2>1, <2>2, <2>3, <2>4, <2>5 DEF EndInv
<1>6. ASSUME NEW d \in Endpoints, NEW c \in Endpoints PROVE LinkInv(d, c)'
  <2>1. CASE d = e
    BY <1>1, <2>1, NoPeerAssumption DEF LinkInv
  <2>2. CASE d # e /\ c = e
    BY <1>1, <2>2 DEF LinkInv
  <2>3. CASE d # e /\ c # e
    <3>1. /\ clientSocket'[d] = clientSocket[d] /\ serverSocket'[c] = serverSocket[c]
          /\ backlog'[c] = backlog[c] /\ pc'[c] = pc[c]
      BY <1>1, <2>3
    <3>2. LinkInv(d, c)
      BY DEF JoinInv
    <3>3. QED
      BY <3>1, <3>2 DEF LinkInv, Queued
  <2>4. QED
    BY <2>1, <2>2, <2>3
<1>7. QED
  BY <1>4, <1>5, <1>6 DEF JoinInv

LEMMA JoinInvStep == ASSUME TcpTypeOK, JoinInv, [TcpNext]_tcpVars PROVE JoinInv'
<1> USE DEF TcpTypeOK, PcValues
<1>1. CASE UNCHANGED tcpVars
  BY <1>1 DEF tcpVars, joinVars, socketVars, JoinInv, EndInv, LinkInv, Towards, Queued, HasClient
<1>2. ASSUME NEW e \in Endpoints, Construct(e) PROVE JoinInv'
  <2>1. pc[e] = "new" /\ serverSocket[e] = NoPeer
    BY <1>2 DEF Construct, JoinInv, EndInv, Towards
  <2>2. PICK v \in {"thrown", "constructed"} : pc' = [pc EXCEPT ![e] = v]
    BY <1>2 DEF Construct
  <2>3. QED
    BY <1>2, <2>1, <2>2, SocketsUnchanged DEF Construct, joinVars
<1>3. ASSUME NEW e \in Endpoints, StartJoin(e) PROVE JoinInv'
  <2>1. pc[e] = "constructed" /\ serverSocket[e] = NoPeer
    BY <1>3 DEF StartJoin, JoinInv, EndInv
  <2>2. QED
    BY <1>3, <2>1, SocketsUnchanged DEF StartJoin, socketVars
<1>4. ASSUME NEW e \in Endpoints, ConnectRefused(e) \/ ConnectFault(e) PROVE JoinInv'
  <2>1. ConnectFailed(e) /\ pc[e] = "loop"
    BY <1>4 DEF ConnectRefused, ConnectFault
  <2>2. PICK v \in {"thrown", "loop", "accept"} : pc' = [pc EXCEPT ![e] = v]
    BY <2>1 DEF ConnectFailed, AfterConnect
  <2>3. serverSocket[e] # NoPeer => isAccepted[e]
    BY DEF JoinInv, EndInv
  <2>4. UNCHANGED <<isAccepted, listening, backlog, clientSocket, serverSocket>>
    BY <2>1 DEF ConnectFailed, socketVars
  <2>5. QED
    BY <2>1, <2>2, <2>3, <2>4, SocketsUnchanged
<1>5. ASSUME NEW e \in Endpoints, AcceptFault(e) PROVE JoinInv'
  BY <1>5, SocketsUnchanged DEF AcceptFault, AtAccept, socketVars
<1>6. ASSUME NEW e \in Endpoints, FinishJoin(e) PROVE JoinInv'
  <2>1. PICK v \in {"thrown", "joined"} :
            /\ pc' = [pc EXCEPT ![e] = v]
            /\ v = "joined" /\ Role[e] = 2 => serverSocket[e] # NoPeer
    <3>1. CASE Role[e] # 1 /\ serverSocket[e] = NoPeer
      BY <1>6, <3>1 DEF FinishJoin, setSocketOptions
    <3>2. CASE ~(Role[e] # 1 /\ serverSocket[e] = NoPeer)
      <4>1. Role[e] = 2 => serverSocket[e] # NoPeer
        BY <3>2
      <4>2. pc' = [pc EXCEPT ![e] = "thrown"] \/ pc' = [pc EXCEPT ![e] = "joined"]
        BY <1>6 DEF FinishJoin, setSocketOptions
      <4>3. QED
        BY <4>1, <4>2
    <3>3. QED
      BY <3>1, <3>2
  <2>2. QED
    BY <1>6, <2>1, SocketsUnchanged DEF FinishJoin, joinVars, socketVars
<1>7. ASSUME NEW e \in Endpoints, Connect(e) PROVE JoinInv'
  BY <1>7, ConnectKeeps
<1>8. ASSUME NEW e \in Endpoints, Accept(e) PROVE JoinInv'
  BY <1>8, AcceptKeeps
<1>9. ASSUME NEW e \in Endpoints, Destroy(e) PROVE JoinInv'
  BY <1>9, DestroyKeeps
<1>10. QED
  BY <1>1, <1>2, <1>3, <1>4, <1>5, <1>6, <1>7, <1>8, <1>9 DEF TcpNext, JoinStep, JoinFault

(* When the join of a two-way CommPartyTCPSynced has returned, the two ends *)
(* are linked both ways or the other end gave up, whatever faults happened  *)
(* and in whatever order the ends ran, as long as nobody else was started   *)
(* on their addresses.                                                      *)
THEOREM JoinedCorrect == ASSUME Paired PROVE TcpSpec => []JoinedUnlessRestarted
<1>1. TcpTypeOK /\ JoinInv => JoinedUnlessRestarted
  <2> SUFFICES ASSUME TcpTypeOK, JoinInv, NEW e \in Endpoints, NEW f \in Endpoints,
                      JoinedTo(e, f), FirstOnAddress(e), FirstOnAddress(f),
                      pc[f] \notin {"thrown", "closed"}
               PROVE  clientSocket[f] = e /\ (Queued(e, f) \/ serverSocket[f] = e)
    BY DEF JoinedUnlessRestarted, Linked, Queued
  <2> USE DEF TcpTypeOK
  <2>1. /\ pc[e] = "joined" /\ Role[e] = 2 /\ clientSocket[e] = f
        /\ AcceptAddress(f) = OtherAddress[e] /\ AcceptAddress(e) = OtherAddress[f]
    BY NoPeerAssumption DEF JoinedTo, JoinInv, EndInv, Towards, Paired
  <2>2. serverSocket[e] = f
    <3>1. serverSocket[e] \in Endpoints /\ Towards(serverSocket[e], e)
      BY <2>1 DEF JoinInv, EndInv
    <3>2. AcceptAddress(serverSocket[e]) = AcceptAddress(f) /\ pc[serverSocket[e]] # "new"
      BY <2>1, <3>1 DEF Towards, Paired
    <3>3. QED
      BY <3>1, <3>2 DEF FirstOnAddress
  <2>3. clientSocket[f] = e
    <3>1. clientSocket[f] \in Endpoints
      BY <2>2, NoPeerAssumption DEF JoinInv, EndInv, HasClient
    <3>2. AcceptAddress(clientSocket[f]) = AcceptAddress(e) /\ pc[clientSocket[f]] # "new"
      BY <2>1, <3>1, NoPeerAssumption DEF JoinInv, EndInv, Towards
    <3>3. QED
      BY <3>1, <3>2 DEF FirstOnAddress
  <2>4. Queued(e, f) \/ serverSocket[f] = e
    BY <2>1 DEF JoinInv, LinkInv
  <2>5. QED
    BY <2>3, <2>4
<1>2. QED
  BY <1>1, JoinInvInit, JoinInvStep, TcpTypeCorrect, PTL DEF TcpSpec

-----------------------------------------------------------------------------
(* The framing.  The bytes of all the messages sent so far form one text T, *)
(* in which message i ends at off[i] and the size field and the body of the *)
(* next message follow.                                                     *)
Layout(T, off, msgs) ==
    /\ \A i \in Nat : off[i] \in Nat
    /\ off[0] = 0
    /\ \A i \in Nat : i < Len(msgs) =>
         /\ off[i + 1] = off[i] + HeaderLen + Len(msgs[i + 1]) /\ off[i + 1] <= off[Len(msgs)]
         /\ \A k \in 1 .. HeaderLen : T[off[i] + k] = SizeBytes(Len(msgs[i + 1]))[k]
         /\ \A k \in 1 .. Len(msgs[i + 1]) : T[off[i] + HeaderLen + k] = msgs[i + 1][k]

(* s is what T has behind its first b bytes.                                *)
At(T, b, s) == \A k \in 1 .. Len(s) : s[k] = T[b + k]

(* Where the text ends, where the current read began, and how far the       *)
(* reader has got.                                                          *)
End(off) == off[Len(sent)]
Start(off) == off[Len(received)] + (IF reading = "body" THEN HeaderLen ELSE 0)
Got == IF reading \in {"size", "body"} THEN buffer ELSE <<>>
Taken(off) == Start(off) + Len(Got)

(* The reader has returned the first messages and holds, with the stream, a *)
(* part of T that follows what it has consumed.                             *)
ReaderInv(T, off) ==
    /\ Len(received) <= Len(sent)
    /\ reading = "size" => msgSize = HeaderLen
    /\ reading = "body" => /\ Len(received) < Len(sent)
                           /\ msgSize = Len(sent[Len(received) + 1])
    /\ reading = "thrown" => broken
    /\ reading # "thrown" => /\ At(T, Start(off), Got) /\ At(T, Taken(off), stream)
                             /\ Taken(off) + Len(stream) <= End(off)
    /\ reading \in {"size", "body"} => Len(buffer) <= msgSize

(* While the connection lives, what is still to be written is the rest.     *)
WriterInv(T, off) ==
    /\ ~writing => toWrite = <<>> /\ bodyToWrite = <<>>
    /\ ~broken =>
         /\ At(T, Taken(off) + Len(stream), toWrite)
         /\ At(T, Taken(off) + Len(stream) + Len(toWrite), bodyToWrite)
         /\ Taken(off) + Len(stream) + Len(toWrite) + Len(bodyToWrite) = End(off)

FrameOf(T, off) == Layout(T, off, sent) /\ ReaderInv(T, off) /\ WriterInv(T, off)
FrameInv == \E T, off : FrameOf(T, off)

LEMMA SubSeqFacts ==
    ASSUME NEW S, NEW s \in Seq(S), NEW n \in 0 .. Len(s)
    PROVE  /\ SubSeq(s, 1, n) \in Seq(S) /\ Len(SubSeq(s, 1, n)) = n
           /\ \A k \in 1 .. n : SubSeq(s, 1, n)[k] = s[k]
           /\ SubSeq(s, n + 1, Len(s)) \in Seq(S)
           /\ Len(SubSeq(s, n + 1, Len(s))) = Len(s) - n
           /\ \A k \in 1 .. Len(s) - n : SubSeq(s, n + 1, Len(s))[k] = s[n + k]
OBVIOUS

LEMMA ConcatFacts ==
    ASSUME NEW S, NEW s \in Seq(S), NEW t \in Seq(S)
    PROVE  /\ s \o t \in Seq(S) /\ Len(s \o t) = Len(s) + Len(t)
           /\ Len(s) \in Nat /\ Len(t) \in Nat
           /\ \A k \in 1 .. Len(s) : (s \o t)[k] = s[k]
           /\ \A k \in 1 .. Len(t) : (s \o t)[Len(s) + k] = t[k]
OBVIOUS

LEMMA SameSequence ==
    ASSUME NEW S, NEW s \in Seq(S), NEW t \in Seq(S), Len(s) = Len(t),
           \A k \in 1 .. Len(s) : s[k] = t[k]
    PROVE  s = t
OBVIOUS

LEMMA FunctionIsSequence ==
    ASSUME NEW S, NEW n \in Nat, NEW f \in [1 .. n -> S]
    PROVE  f \in Seq(S) /\ Len(f) = n
OBVIOUS

(* A piece of T cut in two, and two adjacent pieces joined.                 *)
LEMMA AtCut ==
    ASSUME NEW T, NEW b \in Nat, NEW s \in Seq(Byte), At(T, b, s), NEW n \in 0 .. Len(s)
    PROVE  At(T, b, SubSeq(s, 1, n)) /\ At(T, b + n, SubSeq(s, n + 1, Len(s)))
<1>1. Len(s) \in Nat
  OBVIOUS
<1>2. At(T, b, SubSeq(s, 1, n))
  BY <1>1, SubSeqFacts DEF At
<1>3. ASSUME NEW k \in 1 .. Len(s) - n
      PROVE  SubSeq(s, n + 1, Len(s))[k] = T[b + n + k]
  <2>1. n + k \in 1 .. Len(s) /\ b + (n + k) = b + n + k
    BY <1>1
  <2>2. s[n + k] = T[b + (n + k)]
    BY <2>1 DEF At
  <2>3. QED
    BY <2>1, <2>2, SubSeqFacts
<1>4. Len(SubSeq(s, n + 1, Len(s))) = Len(s) - n
  BY SubSeqFacts
<1>5. QED
  BY <1>2, <1>3, <1>4 DEF At

LEMMA AtJoin ==
    ASSUME NEW T, NEW b \in Nat, NEW s \in Seq(Byte), NEW t \in Seq(Byte),
           At(T, b, s), At(T, b + Len(s), t)
    PROVE  At(T, b, s \o t)
<1>1. Len(s) \in Nat /\ Len(t) \in Nat /\ Len(s \o t) = Len(s) + Len(t)
  BY ConcatFacts
<1>2. ASSUME NEW k \in 1 .. Len(s) + Len(t) PROVE (s \o t)[k] = T[b + k]
  <2>1. CASE k \in 1 .. Len(s)
    BY <2>1, ConcatFacts DEF At
  <2>2. CASE k \notin 1 .. Len(s)
    <3>1. k - Len(s) \in 1 .. Len(t) /\ k = Len(s) + (k - Len(s))
          /\ b + Len(s) + (k - Len(s)) = b + k
      BY <1>1, <2>2
    <3>2. (s \o t)[k] = t[k - Len(s)]
      BY <3>1, ConcatFacts
    <3>3. t[k - Len(s)] = T[b + Len(s) + (k - Len(s))]
      BY <3>1 DEF At
    <3>4. QED
      BY <3>1, <3>2, <3>3
  <2>3. QED
    BY <2>1, <2>2
<1>3. QED
  BY <1>1, <1>2 DEF At

(* The part of T up to e is the same in a longer text.                      *)
LEMMA AtGrow ==
    ASSUME NEW T, NEW T2, NEW e \in Nat, NEW b \in Nat, NEW s \in Seq(Byte),
           \A k \in Nat : k <= e => T2[k] = T[k], b + Len(s) <= e, At(T, b, s)
    PROVE  At(T2, b, s)
<1>1. Len(s) \in Nat
  OBVIOUS
<1>2. \A k \in 1 .. Len(s) : b + k \in Nat /\ b + k <= e
  BY <1>1
<1>3. QED
  BY <1>2 DEF At

LEMMA AtEmpty == \A T, b : At(T, b, <<>>)
BY DEF At

LEMMA FrameInit == FramedInit => FramedTypeOK /\ FrameInv
<1> SUFFICES ASSUME FramedInit PROVE FramedTypeOK /\ FrameInv
  OBVIOUS
<1> DEFINE T == [k \in Nat |-> 0]
           off == [i \in Nat |-> 0]
<1>1. FramedTypeOK
  <2>1. /\ sent \in Seq(Messages) /\ received \in Seq(Seq(Byte))
        /\ toWrite \in Seq(Byte) /\ bodyToWrite \in Seq(Byte)
        /\ stream \in Seq(Byte) /\ buffer \in Seq(Byte)
        /\ msgSize \in Nat /\ bytesOut \in Nat /\ bytesIn \in Nat
    BY DEF FramedInit
  <2>2. reading \in {"idle", "size", "body", "thrown"}
    BY DEF FramedInit
  <2>3. broken \in BOOLEAN /\ writing \in BOOLEAN /\ BoostFree \in BOOLEAN
    BY Zenon DEF FramedInit
  <2>4. QED
    BY <2>1, <2>2, <2>3, Zenon DEF FramedTypeOK
<1>2. Len(sent) = 0 /\ Len(received) = 0 /\ Got = <<>> /\ Start(off) = 0 /\ End(off) = 0
  BY DEF FramedInit, Got, Start, End
<1>3. Layout(T, off, sent)
  BY <1>2 DEF Layout
<1>4. Taken(off) = 0
  BY <1>2 DEF Taken
<1>5. ReaderInv(T, off)
  BY <1>2, <1>4, AtEmpty DEF FramedInit, ReaderInv
<1>6. WriterInv(T, off)
  BY <1>2, <1>4, AtEmpty DEF FramedInit, WriterInv
<1>7. QED
  BY <1>1, <1>3, <1>5, <1>6 DEF FrameInv, FrameOf

(* What the steps need of the types.                                        *)
LEMMA Numbers ==
    ASSUME FramedTypeOK, NEW T, NEW off, FrameOf(T, off)
    PROVE  /\ HeaderLen \in Nat \ {0}
           /\ stream \in Seq(Byte) /\ toWrite \in Seq(Byte) /\ bodyToWrite \in Seq(Byte)
           /\ buffer \in Seq(Byte) /\ Got \in Seq(Byte)
           /\ Len(stream) \in Nat /\ Len(toWrite) \in Nat /\ Len(bodyToWrite) \in Nat
           /\ Len(sent) \in Nat /\ Len(received) \in Nat /\ Len(buffer) \in Nat
           /\ Len(Got) \in Nat
           /\ off[Len(received)] \in Nat /\ Start(off) \in Nat
           /\ Taken(off) \in Nat /\ End(off) \in Nat /\ msgSize \in Nat
<1>1. HeaderLen \in Nat \ {0}
  BY FramedAssumption
<1>2. /\ stream \in Seq(Byte) /\ toWrite \in Seq(Byte) /\ bodyToWrite \in Seq(Byte)
      /\ buffer \in Seq(Byte) /\ sent \in Seq(Messages) /\ received \in Seq(Seq(Byte))
      /\ msgSize \in Nat
  BY DEF FramedTypeOK
<1>3. /\ Len(stream) \in Nat /\ Len(toWrite) \in Nat /\ Len(bodyToWrite) \in Nat
      /\ Len(sent) \in Nat /\ Len(received) \in Nat /\ Len(buffer) \in Nat
  BY <1>2
<1>4. Got \in Seq(Byte) /\ Len(Got) \in Nat
  BY <1>2 DEF Got
<1>5. off[Len(received)] \in Nat /\ off[Len(sent)] \in Nat
  BY <1>3 DEF FrameOf, Layout
<1>6. Start(off) \in Nat /\ End(off) \in Nat
  BY <1>1, <1>5 DEF Start, End
<1>7. Taken(off) \in Nat
  BY <1>4, <1>6 DEF Taken
<1>8. QED
  BY <1>1, <1>2, <1>3, <1>4, <1>5, <1>6, <1>7

(* The message the reader is waiting for.                                   *)
LEMMA NextMessage ==
    ASSUME FramedTypeOK, NEW T, NEW off, FrameOf(T, off), Len(received) < Len(sent),
           NEW m, m = sent[Len(received) + 1]
    PROVE  /\ m \in Messages /\ m \in Seq(Byte) /\ Len(m) \in Nat
           /\ off[Len(received) + 1] = off[Len(received)] + HeaderLen + Len(m)
           /\ off[Len(received) + 1] <= End(off)
           /\ \A k \in 1 .. HeaderLen : T[off[Len(received)] + k] = SizeBytes(Len(m))[k]
           /\ \A k \in 1 .. Len(m) : T[off[Len(received)] + HeaderLen + k] = m[k]
<1>1. Len(received) \in Nat /\ Len(sent) \in Nat
  BY Numbers
<1>2. Len(received) + 1 \in 1 .. Len(sent)
  BY <1>1
<1>3. m \in Messages
  <2>1. sent \in Seq(Messages)
    BY DEF FramedTypeOK
  <2>2. QED
    BY <1>2, <2>1
<1>4. m \in Seq(Byte)
  BY <1>3, FramedAssumption
<1>5. Len(m) \in Nat
  BY <1>4
<1>6. Layout(T, off, sent)
  BY DEF FrameOf
<1>7. QED
  BY <1>1, <1>3, <1>4, <1>5, <1>6 DEF Layout, End

(* A complete size field is the one of the next message: the reader cannot  *)
(* hold it unless the message was sent.                                     *)
LEMMA SizeRead ==
    ASSUME SizesReadBack, FramedTypeOK, NEW T, NEW off, FrameOf(T, off),
           reading = "size", Len(buffer) = msgSize
    PROVE  /\ Len(received) < Len(sent) /\ Len(buffer) = HeaderLen
           /\ SizeOf(buffer) = Len(sent[Len(received) + 1])
<1>1. Got = buffer /\ Start(off) = off[Len(received)]
  BY Numbers DEF Got, Start
<1>2. Len(buffer) = HeaderLen /\ At(T, off[Len(received)], buffer)
      /\ Taken(off) + Len(stream) <= End(off) /\ Len(received) <= Len(sent)
  BY <1>1 DEF FrameOf, ReaderInv
<1>3. Taken(off) = off[Len(received)] + HeaderLen
  BY <1>1, <1>2 DEF Taken
<1>4. Len(received) < Len(sent)
  <2>1. SUFFICES ASSUME Len(received) = Len(sent) PROVE FALSE
    BY <1>2, Numbers
  <2>2. End(off) = off[Len(received)]
    BY <2>1 DEF End
  <2>3. QED
    BY <1>2, <1>3, <2>2, Numbers
<1> DEFINE m == sent[Len(received) + 1]
<1>5. /\ m \in Messages
      /\ \A k \in 1 .. HeaderLen : T[off[Len(received)] + k] = SizeBytes(Len(m))[k]
  BY <1>4, NextMessage
<1> HIDE DEF m
<1>6. SizeBytes(Len(m)) \in [1 .. HeaderLen -> Byte] /\ SizeOf(SizeBytes(Len(m))) = Len(m)
  BY <1>5 DEF SizesReadBack
<1>7. \A k \in 1 .. HeaderLen : buffer[k] = SizeBytes(Len(m))[k]
  BY <1>2, <1>5 DEF At
<1> DEFINE h == SizeBytes(Len(m))
<1> HIDE DEF h
<1>8. buffer = h
  <2>1. h \in [1 .. HeaderLen -> Byte] /\ \A k \in 1 .. HeaderLen : buffer[k] = h[k]
    BY <1>6, <1>7 DEF h
  <2>2. h \in Seq(Byte) /\ Len(h) = HeaderLen
    BY <2>1, Numbers, FunctionIsSequence
  <2>3. QED
    BY <1>2, <2>1, <2>2, SameSequence, Numbers
<1>9. QED
  BY <1>2, <1>4, <1>6, <1>8 DEF m, h

(* A complete body is the next message.                                     *)
LEMMA BodyRead ==
    ASSUME FramedTypeOK, NEW T, NEW off, FrameOf(T, off),
           reading = "body", Len(buffer) = msgSize
    PROVE  /\ Len(received) < Len(sent) /\ buffer = sent[Len(received) + 1]
           /\ off[Len(received) + 1] = Taken(off)
<1>1. Got = buffer /\ Start(off) = off[Len(received)] + HeaderLen
  BY DEF Got, Start
<1> DEFINE m == sent[Len(received) + 1]
<1>2. Len(received) < Len(sent) /\ Len(buffer) = Len(m)
      /\ At(T, off[Len(received)] + HeaderLen, buffer)
  BY <1>1 DEF FrameOf, ReaderInv
<1>3. /\ m \in Seq(Byte)
      /\ off[Len(received) + 1] = off[Len(received)] + HeaderLen + Len(m)
      /\ \A k \in 1 .. Len(m) : T[off[Len(received)] + HeaderLen + k] = m[k]
  BY <1>2, NextMessage
<1> HIDE DEF m
<1>4. \A k \in 1 .. Len(buffer) : buffer[k] = m[k]
  BY <1>2, <1>3 DEF At
<1>5. buffer = m
  BY <1>2, <1>3, <1>4, SameSequence, Numbers
<1>6. QED
  BY <1>1, <1>2, <1>3, <1>5 DEF Taken, m

(* A step that leaves messages and the reader alone.                        *)
LEMMA PositionsUnchanged ==
    ASSUME UNCHANGED <<sent, received, reading, buffer, msgSize>>, NEW off
    PROVE  /\ Start(off)' = Start(off) /\ Got' = Got /\ Taken(off)' = Taken(off)
           /\ End(off)' = End(off)
BY DEF Start, Got, Taken, End

LEMMA WriteSomeKeeps ==
    ASSUME FramedTypeOK, NEW T, NEW off, FrameOf(T, off), WriteSome
    PROVE  FrameOf(T, off)'
<1>p. PICK n \in 1 .. Len(toWrite) : /\ stream' = stream \o SubSeq(toWrite, 1, n)
                                     /\ toWrite' = SubSeq(toWrite, n + 1, Len(toWrite))
  BY DEF WriteSome
<1>0. /\ UNCHANGED <<sent, received, reading, buffer, msgSize>>
      /\ UNCHANGED <<bodyToWrite, writing, broken>> /\ ~broken /\ toWrite # <<>>
  BY DEF WriteSome, readerVars
<1>1. /\ Start(off)' = Start(off) /\ Got' = Got /\ Taken(off)' = Taken(off)
      /\ End(off)' = End(off)
  BY <1>0, PositionsUnchanged
<1>2. n \in 0 .. Len(toWrite) /\ n \in Nat
  BY Numbers
<1> DEFINE piece == SubSeq(toWrite, 1, n)
<1>3. piece \in Seq(Byte) /\ Len(piece) = n /\ Len(toWrite') = Len(toWrite) - n
  BY <1>p, <1>2, Numbers, SubSeqFacts
<1> HIDE DEF piece
<1>4. Len(stream') = Len(stream) + n
  BY <1>p, <1>3, Numbers, ConcatFacts DEF piece
<1>5. /\ At(T, Taken(off) + Len(stream), toWrite)
      /\ At(T, Taken(off) + Len(stream) + Len(toWrite), bodyToWrite)
      /\ Taken(off) + Len(stream) + Len(toWrite) + Len(bodyToWrite) = End(off)
      /\ writing
  BY <1>0 DEF FrameOf, WriterInv
<1> DEFINE b == Taken(off) + Len(stream)
<1>6. b \in Nat
  BY Numbers
<1> HIDE DEF b
<1>7. At(T, b, piece) /\ At(T, b + n, toWrite')
  BY <1>p, <1>2, <1>5, <1>6, Numbers, AtCut DEF piece, b
<1>8. b + n = Taken(off) + Len(stream') /\ b + n + Len(toWrite') = b + Len(toWrite)
  <2>1. Taken(off) \in Nat /\ Len(stream) \in Nat /\ Len(toWrite) \in Nat
    BY Numbers
  <2>2. b + n = Taken(off) + Len(stream')
    BY <1>2, <1>4, <2>1 DEF b
  <2>3. b + n + Len(toWrite') = b + Len(toWrite)
    BY <1>2, <1>3, <1>6, <2>1
  <2>4. QED
    BY <2>2, <2>3
<1>9. b + Len(toWrite) + Len(bodyToWrite) = End(off)
  BY <1>5 DEF b
<1>10. WriterInv(T, off)'
  BY <1>0, <1>1, <1>5, <1>7, <1>8, <1>9 DEF WriterInv, b
<1>11. reading # "thrown" => At(T, Taken(off), stream)
  BY DEF FrameOf, ReaderInv
<1>12. reading # "thrown" => At(T, Taken(off), stream')
  BY <1>p, <1>3, <1>7, <1>11, Numbers, AtJoin DEF piece, b
<1>13. Taken(off) + Len(stream') <= End(off)
  BY <1>2, <1>4, <1>5, Numbers
<1>14. ReaderInv(T, off)'
  BY <1>0, <1>1, <1>12, <1>13 DEF FrameOf, ReaderInv
<1>15. Layout(T, off, sent)'
  BY <1>0 DEF FrameOf, Layout
<1>16. QED
  BY <1>10, <1>14, <1>15 DEF FrameOf

(* The other steps of the writer and the death of the connection.           *)
LEMMA WriterKeeps ==
    ASSUME FramedTypeOK, NEW T, NEW off, FrameOf(T, off),
           WriteBody \/ WriteReturns \/ WriteError
    PROVE  FrameOf(T, off)'
<1>0. UNCHANGED <<sent, received, reading, buffer, msgSize>> /\ UNCHANGED <<stream, broken>>
  BY DEF WriteBody, WriteReturns, WriteError, readerVars
<1>1. /\ Start(off)' = Start(off) /\ Got' = Got /\ Taken(off)' = Taken(off)
      /\ End(off)' = End(off)
  BY <1>0, PositionsUnchanged
<1>2. ReaderInv(T, off)' /\ Layout(T, off, sent)'
  BY <1>0, <1>1 DEF FrameOf, ReaderInv, Layout
<1>3. WriterInv(T, off)
  BY DEF FrameOf
<1>4. CASE WriteBody
  <2>1. writing /\ toWrite = <<>> /\ toWrite' = bodyToWrite /\ bodyToWrite' = <<>>
        /\ writing' = writing /\ Len(toWrite) = 0 /\ Len(bodyToWrite') = 0
    BY <1>4 DEF WriteBody
  <2>2. ~broken => /\ Taken(off) + Len(stream) + Len(toWrite) = Taken(off) + Len(stream)
                   /\ Taken(off) + Len(stream) + Len(toWrite') + Len(bodyToWrite') = End(off)
    BY <1>3, <2>1, Numbers DEF WriterInv
  <2>3. At(T, Taken(off) + Len(stream) + Len(toWrite'), bodyToWrite')
    BY <2>1, AtEmpty
  <2>4. WriterInv(T, off)'
    BY <1>0, <1>1, <1>3, <2>1, <2>2, <2>3 DEF WriterInv
  <2>5. QED
    BY <1>2, <2>4 DEF FrameOf
<1>5. CASE WriteReturns
  BY <1>0, <1>1, <1>2, <1>3, <1>5 DEF WriteReturns, WriterInv, FrameOf
<1>6. CASE WriteError
  <2>1. broken /\ toWrite' = <<>> /\ bodyToWrite' = bodyToWrite /\ writing' = writing
    BY <1>6 DEF WriteError
  <2>2. WriterInv(T, off)'
    BY <1>0, <1>3, <2>1 DEF WriterInv
  <2>3. QED
    BY <1>2, <2>2 DEF FrameOf
<1>7. QED
  BY <1>4, <1>5, <1>6

LEMMA BreakKeeps ==
    ASSUME FramedTypeOK, NEW T, NEW off, FrameOf(T, off), Break
    PROVE  FrameOf(T, off)'
<1> PICK n \in 0 .. Len(stream) : stream' = SubSeq(stream, 1, n)
  BY DEF Break
<1>0. /\ UNCHANGED <<sent, received, reading, buffer, msgSize>>
      /\ UNCHANGED <<toWrite, bodyToWrite, writing>> /\ broken'
  BY DEF Break, readerVars, writerVars
<1>1. /\ Start(off)' = Start(off) /\ Got' = Got /\ Taken(off)' = Taken(off)
      /\ End(off)' = End(off)
  BY <1>0, PositionsUnchanged
<1>2. Len(stream') = n /\ n \in Nat /\ n <= Len(stream)
  BY Numbers, SubSeqFacts
<1>3. reading # "thrown" => At(T, Taken(off), stream) /\ Taken(off) + Len(stream) <= End(off)
  BY DEF FrameOf, ReaderInv
<1>4. reading # "thrown" => At(T, Taken(off), stream')
  BY <1>3, Numbers, AtCut
<1>5. reading # "thrown" => Taken(off) + Len(stream') <= End(off)
  BY <1>2, <1>3, Numbers
<1>6. ReaderInv(T, off)'
  BY <1>0, <1>1, <1>4, <1>5 DEF FrameOf, ReaderInv
<1>7. WriterInv(T, off)' /\ Layout(T, off, sent)'
  BY <1>0 DEF FrameOf, WriterInv, Layout
<1>8. QED
  BY <1>6, <1>7 DEF FrameOf

LEMMA ReadSomeKeeps ==
    ASSUME FramedTypeOK, NEW T, NEW off, FrameOf(T, off), ReadSome
    PROVE  FrameOf(T, off)'
<1>p. PICK n \in 1 .. (IF Len(stream) < msgSize - Len(buffer)
                     THEN Len(stream) ELSE msgSize - Len(buffer)) :
         /\ buffer' = buffer \o SubSeq(stream, 1, n)
         /\ stream' = SubSeq(stream, n + 1, Len(stream))
  BY DEF ReadSome
<1>0. /\ UNCHANGED <<sent, received, reading, msgSize>>
      /\ UNCHANGED <<toWrite, bodyToWrite, writing, broken>>
      /\ reading \in {"size", "body"}
  BY DEF ReadSome, writerVars
<1>1. n \in 0 .. Len(stream) /\ n \in Nat /\ Len(buffer) + n <= msgSize
  BY Numbers
<1> DEFINE piece == SubSeq(stream, 1, n)
<1>2. piece \in Seq(Byte) /\ Len(piece) = n /\ Len(stream') = Len(stream) - n
  BY <1>p, <1>1, Numbers, SubSeqFacts
<1> HIDE DEF piece
<1>3. Got = buffer /\ Got' = buffer \o piece
  BY <1>0, <1>p DEF Got, piece
<1>4. Len(Got') = Len(Got) + n /\ Len(buffer') = Len(buffer) + n
  BY <1>p, <1>2, <1>3, Numbers, ConcatFacts DEF piece
<1>5. Start(off)' = Start(off) /\ End(off)' = End(off)
  BY <1>0 DEF Start, End
<1>6. Taken(off)' = Taken(off) + n
  BY <1>1, <1>4, <1>5, Numbers DEF Taken
<1>7. /\ At(T, Start(off), Got) /\ At(T, Taken(off), stream)
      /\ Taken(off) + Len(stream) <= End(off)
  BY <1>0 DEF FrameOf, ReaderInv
<1>8. At(T, Taken(off), piece) /\ At(T, Taken(off) + n, stream')
  BY <1>p, <1>1, <1>7, Numbers, AtCut DEF piece
<1>9. At(T, Start(off), Got')
  BY <1>2, <1>3, <1>7, <1>8, Numbers, AtJoin DEF Taken
<1>10. Taken(off)' + Len(stream') = Taken(off) + Len(stream)
  <2>1. Taken(off) \in Nat /\ Len(stream) \in Nat
    BY Numbers
  <2>2. QED
    BY <1>1, <1>2, <1>6, <2>1
<1>11. ReaderInv(T, off)'
  <2>1. Len(buffer') <= msgSize
    BY <1>1, <1>4
  <2>2. /\ Len(received) <= Len(sent)
        /\ reading = "size" => msgSize = HeaderLen
        /\ reading = "body" => /\ Len(received) < Len(sent)
                               /\ msgSize = Len(sent[Len(received) + 1])
    BY DEF FrameOf, ReaderInv
  <2>3. At(T, Taken(off)', stream')
    BY <1>6, <1>8
  <2>4. Taken(off)' + Len(stream') <= End(off)'
    BY <1>5, <1>7, <1>10
  <2>5. At(T, Start(off)', Got')
    BY <1>5, <1>9
  <2>6. QED
    BY <1>0, <2>1, <2>2, <2>3, <2>4, <2>5 DEF ReaderInv
<1>12. WriterInv(T, off)'
  BY <1>0, <1>5, <1>10 DEF FrameOf, WriterInv
<1>13. Layout(T, off, sent)'
  BY <1>0 DEF FrameOf, Layout
<1>14. QED
  BY <1>11, <1>12, <1>13 DEF FrameOf

(* The steps of the reader between two reads: what has been taken of T      *)
(* stays the same.                                                          *)
LEMMA ReaderKeeps ==
    ASSUME SizesReadBack, FramedTypeOK, NEW T, NEW off, FrameOf(T, off),
           ReadSize \/ ReadBody \/ ReadReturns \/ ReadThrows
    PROVE  FrameOf(T, off)'
<1>0. UNCHANGED <<sent, toWrite, bodyToWrite, writing, stream, broken>>
  BY DEF ReadSize, ReadBody, ReadReturns, ReadThrows, writerVars
<1>1. Layout(T, off, sent)' /\ End(off)' = End(off)
  BY <1>0 DEF FrameOf, Layout, End
<1>2. SUFFICES ReaderInv(T, off)' /\ (Taken(off)' = Taken(off) \/ broken)
  BY <1>0, <1>1 DEF FrameOf, WriterInv
<1>3. CASE ReadSize
  <2>1. reading = "idle" /\ reading' = "size" /\ buffer' = <<>> /\ msgSize' = HeaderLen
        /\ received' = received
    BY <1>3 DEF ReadSize
  <2>2. Start(off)' = Start(off) /\ Got = <<>> /\ Got' = <<>>
    BY <2>1 DEF Start, Got
  <2>3. Taken(off)' = Taken(off)
    BY <2>2 DEF Taken
  <2>4. At(T, Taken(off), stream) /\ Taken(off) + Len(stream) <= End(off)
        /\ Len(received) <= Len(sent)
    BY <2>1 DEF FrameOf, ReaderInv
  <2>5. At(T, Start(off)', Got') /\ Len(buffer') = 0 /\ 0 <= HeaderLen
    BY <2>1, <2>2, AtEmpty, Numbers
  <2>6. QED
    BY <1>0, <1>1, <2>1, <2>3, <2>4, <2>5 DEF ReaderInv
<1>4. CASE ReadBody
  <2>1. /\ reading = "size" /\ Len(buffer) = msgSize /\ reading' = "body" /\ buffer' = <<>>
        /\ msgSize' = SizeOf(buffer) /\ received' = received
    BY <1>4 DEF ReadBody
  <2>2. /\ Len(received) < Len(sent) /\ Len(buffer) = HeaderLen
        /\ SizeOf(buffer) = Len(sent[Len(received) + 1])
    BY <2>1, SizeRead
  <2>3. /\ Start(off) = off[Len(received)] /\ Start(off)' = off[Len(received)] + HeaderLen
        /\ Got = buffer /\ Got' = <<>> /\ Len(Got') = 0
    BY <2>1, Numbers DEF Start, Got
  <2>4. Taken(off)' = Taken(off)
    BY <2>2, <2>3, Numbers DEF Taken
  <2>5. At(T, Taken(off), stream) /\ Taken(off) + Len(stream) <= End(off)
        /\ Len(received) <= Len(sent)
    BY <2>1 DEF FrameOf, ReaderInv
  <2>6. At(T, Start(off)', Got') /\ Len(buffer') = 0
    BY <2>1, <2>3, AtEmpty
  <2>7. 0 <= msgSize'
    BY <2>1, <2>2, NextMessage
  <2>8. QED
    BY <1>0, <1>1, <2>1, <2>2, <2>4, <2>5, <2>6, <2>7 DEF ReaderInv
<1>5. CASE ReadReturns
  <2>1. /\ reading = "body" /\ Len(buffer) = msgSize /\ reading' = "idle"
        /\ received' = Append(received, buffer)
    BY <1>5 DEF ReadReturns
  <2>2. /\ Len(received) < Len(sent) /\ off[Len(received) + 1] = Taken(off)
    BY <2>1, BodyRead
  <2>3. Len(received') = Len(received) + 1
    <3>1. received \in Seq(Seq(Byte)) /\ buffer \in Seq(Byte)
      BY DEF FramedTypeOK
    <3>2. QED
      BY <2>1, <3>1
  <2>4. Start(off)' = off[Len(received')] /\ Got' = <<>> /\ Len(Got') = 0
    <3>1. off[Len(received')] = Taken(off) /\ Taken(off) \in Nat
      BY <2>2, <2>3, Numbers
    <3>2. QED
      BY <2>1, <3>1 DEF Start, Got
  <2>5. Start(off)' = Taken(off) /\ Taken(off)' = Taken(off)
    BY <2>2, <2>3, <2>4, Numbers DEF Taken
  <2>6. At(T, Taken(off), stream) /\ Taken(off) + Len(stream) <= End(off)
    BY <2>1 DEF FrameOf, ReaderInv
  <2>7. At(T, Start(off)', Got') /\ Len(received') <= Len(sent)
    BY <2>2, <2>3, <2>4, AtEmpty, Numbers
  <2>8. QED
    BY <1>0, <1>1, <2>1, <2>5, <2>6, <2>7 DEF ReaderInv
<1>6. CASE ReadThrows
  <2>1. reading' = "thrown" /\ broken /\ received' = received
    BY <1>6 DEF ReadThrows
  <2>2. QED
    BY <1>0, <2>1 DEF FrameOf, ReaderInv
<1>7. QED
  BY <1>3, <1>4, <1>5, <1>6

(* A message more: T2 and off2 continue the text by its frame.              *)
Continues(T, off, msgs, m, T2, off2) ==
    LET e == off[Len(msgs)]
    IN  /\ msgs \in Seq(Messages) /\ m \in Messages /\ e \in Nat
        /\ \A i \in Nat :
              off2[i] = IF i = Len(msgs) + 1 THEN e + HeaderLen + Len(m) ELSE off[i]
        /\ \A k \in Nat : k <= e => T2[k] = T[k]
        /\ \A k \in 1 .. HeaderLen : T2[e + k] = SizeBytes(Len(m))[k]
        /\ \A k \in 1 .. Len(m) : T2[e + HeaderLen + k] = m[k]

LEMMA LayoutExtends ==
    ASSUME NEW T, NEW off, NEW msgs, NEW m, NEW T2, NEW off2,
           Layout(T, off, msgs), Continues(T, off, msgs, m, T2, off2)
    PROVE  Layout(T2, off2, Append(msgs, m))
<1> DEFINE e == off[Len(msgs)]
<1> SUFFICES ASSUME
           msgs \in Seq(Messages), m \in Messages, e \in Nat,
           \A i \in Nat : off2[i] = IF i = Len(msgs) + 1 THEN e + HeaderLen + Len(m) ELSE off[i],
           \A k \in Nat : k <= e => T2[k] = T[k],
           \A k \in 1 .. HeaderLen : T2[e + k] = SizeBytes(Len(m))[k],
           \A k \in 1 .. Len(m) : T2[e + HeaderLen + k] = m[k]
    PROVE  Layout(T2, off2, Append(msgs, m))
  BY DEF Continues
<1>0. e = off[Len(msgs)]
  OBVIOUS
<1> HIDE DEF e
<1> DEFINE n == Len(msgs)
           more == Append(msgs, m)
<1>1. /\ HeaderLen \in Nat /\ m \in Seq(Byte) /\ n \in Nat
      /\ Messages \subseteq Seq(Byte)
  BY FramedAssumption
<1>2. Len(m) \in Nat
  BY <1>1
<1>3. /\ Len(more) = n + 1 /\ more[n + 1] = m
      /\ \A i \in 1 .. n : more[i] = msgs[i]
  OBVIOUS
<1>4. \A i \in Nat : off[i] \in Nat
  BY DEF Layout
<1> HIDE DEF n, more
<1>5. \A i \in Nat : i <= n => off2[i] = off[i]
  BY <1>1 DEF n
<1>6. off2[n + 1] = e + HeaderLen + Len(m) /\ off2[n + 1] \in Nat /\ e <= off2[n + 1]
  BY <1>1, <1>2 DEF n
<1>7. \A i \in Nat : off2[i] \in Nat
  BY <1>1, <1>2, <1>4, <1>6 DEF n
<1>8. off2[0] = 0
  <2>1. off[0] = 0
    BY DEF Layout
  <2>2. QED
    BY <1>1, <1>5, <2>1
<1>9. ASSUME NEW i \in Nat, i < n + 1
      PROVE  /\ off2[i + 1] = off2[i] + HeaderLen + Len(more[i + 1])
             /\ off2[i + 1] <= off2[n + 1]
             /\ \A k \in 1 .. HeaderLen : T2[off2[i] + k] = SizeBytes(Len(more[i + 1]))[k]
             /\ \A k \in 1 .. Len(more[i + 1]) :
                   T2[off2[i] + HeaderLen + k] = more[i + 1][k]
  <2>1. CASE i = n
    <3>1. off2[i] = e /\ more[i + 1] = m
      BY <1>0, <1>1, <1>3, <1>5, <2>1 DEF n
    <3>2. QED
      BY <1>6, <2>1, <3>1
  <2>2. CASE i < n
    <3> DEFINE x == msgs[i + 1]
               b == off[i]
               c == off[i + 1]
    <3>1. more[i + 1] = x /\ x \in Messages
      <4>1. i + 1 \in 1 .. n
        BY <1>1, <2>2
      <4>2. QED
        BY <1>3, <4>1 DEF n
    <3>2. Len(x) \in Nat
      BY <1>1, <3>1
    <3>3. off2[i] = b /\ off2[i + 1] = c /\ b \in Nat /\ c \in Nat
      <4>1. i <= n /\ i + 1 <= n /\ i + 1 \in Nat
        BY <1>1, <2>2
      <4>2. QED
        BY <1>4, <1>5, <4>1
    <3>4. /\ c = b + HeaderLen + Len(x) /\ c <= e
          /\ \A k \in 1 .. HeaderLen : T[b + k] = SizeBytes(Len(x))[k]
          /\ \A k \in 1 .. Len(x) : T[b + HeaderLen + k] = x[k]
      BY <1>0, <2>2 DEF Layout, n
    <3> HIDE DEF x, b, c
    <3>5. ASSUME NEW k \in 1 .. HeaderLen PROVE T2[b + k] = SizeBytes(Len(x))[k]
      <4>1. b + k \in Nat /\ b + k <= e
        BY <1>1, <3>2, <3>3, <3>4
      <4>2. QED
        BY <3>4, <4>1
    <3>6. ASSUME NEW k \in 1 .. Len(x) PROVE T2[b + HeaderLen + k] = x[k]
      <4>1. b + HeaderLen + k \in Nat /\ b + HeaderLen + k <= e
        BY <1>1, <3>2, <3>3, <3>4
      <4>2. QED
        BY <3>4, <4>1
    <3>7. c <= off2[n + 1]
      BY <1>6, <3>3, <3>4
    <3>8. QED
      BY <3>1, <3>3, <3>4, <3>5, <3>6, <3>7
  <2>3. QED
    BY <1>1, <1>9, <2>1, <2>2
<1>10. QED
  BY <1>3, <1>7, <1>8, <1>9 DEF Layout, more

(* writeWithSize continues the text by the frame it is about to write.      *)
LEMMA WriteWithSizeKeeps ==
    ASSUME SizesReadBack, FramedTypeOK, NEW T, NEW off, FrameOf(T, off),
           NEW m \in Messages, WriteWithSize(m),
           NEW e, e = End(off), NEW n, n = Len(sent)
    PROVE  FrameInv'
<1> DEFINE h == SizeBytes(Len(m))
           T2 == [k \in Nat |-> IF k <= e THEN T[k]
                                ELSE IF k <= e + HeaderLen THEN h[k - e]
                                ELSE m[k - (e + HeaderLen)]]
           off2 == [i \in Nat |-> IF i = n + 1 THEN e + HeaderLen + Len(m) ELSE off[i]]
<1>0. /\ sent' = Append(sent, m) /\ toWrite' = h /\ bodyToWrite' = m /\ writing' /\ ~writing
      /\ UNCHANGED <<received, reading, buffer, msgSize, stream, broken>>
  BY DEF WriteWithSize, readerVars
<1>1. /\ sent \in Seq(Messages) /\ m \in Seq(Byte) /\ Len(m) \in Nat
      /\ h \in Seq(Byte) /\ Len(h) = HeaderLen
  <2>1. sent \in Seq(Messages)
    BY DEF FramedTypeOK
  <2>2. m \in Seq(Byte)
    BY FramedAssumption
  <2>3. h \in [1 .. HeaderLen -> Byte]
    BY DEF SizesReadBack
  <2>4. h \in Seq(Byte) /\ Len(h) = HeaderLen
    BY <2>3, Numbers, FunctionIsSequence
  <2>5. Len(m) \in Nat
    BY <2>2
  <2>6. QED
    BY <2>1, <2>2, <2>4, <2>5
<1>2. e \in Nat /\ HeaderLen \in Nat /\ n \in Nat /\ e = off[n]
  BY Numbers DEF End
<1>3. /\ Len(sent') = n + 1 /\ sent'[n + 1] = m
      /\ \A i \in 1 .. n : sent'[i] = sent[i]
  BY <1>0, <1>1
<1> HIDE DEF h
<1>4. \A k \in Nat : k <= e => T2[k] = T[k]
  OBVIOUS
<1>5. \A k \in 1 .. HeaderLen : T2[e + k] = h[k]
  <2>1. TAKE k \in 1 .. HeaderLen
  <2>2. e + k \in Nat /\ ~(e + k <= e) /\ e + k <= e + HeaderLen /\ (e + k) - e = k
    BY <1>2
  <2>3. QED
    BY <2>2
<1>6. \A k \in 1 .. Len(m) : T2[e + HeaderLen + k] = m[k]
  <2>1. TAKE k \in 1 .. Len(m)
  <2> DEFINE a == e + HeaderLen + k
  <2>2. /\ a \in Nat /\ ~(a <= e) /\ ~(a <= e + HeaderLen) /\ a - (e + HeaderLen) = k
    BY <1>1, <1>2
  <2> HIDE DEF a
  <2>3. T2[a] = m[k]
    BY <2>2
  <2>4. QED
    BY <2>3 DEF a
<1>7. /\ \A i \in Nat : off2[i] = IF i = n + 1 THEN e + HeaderLen + Len(m) ELSE off[i]
      /\ off2[n + 1] = e + HeaderLen + Len(m)
      /\ \A i \in Nat : i <= n => off2[i] = off[i]
  BY <1>2
<1> HIDE DEF T2, off2
<1>8. Layout(T2, off2, sent')
  <2>1. Layout(T, off, sent)
    BY DEF FrameOf
  <2>2. Layout(T2, off2, Append(sent, m))
    <3>1. \A i \in Nat :
             off2[i] = IF i = Len(sent) + 1 THEN e + HeaderLen + Len(m) ELSE off[i]
      BY <1>7
    <3>2. \A k \in 1 .. HeaderLen : T2[e + k] = SizeBytes(Len(m))[k]
      BY <1>5 DEF h
    <3>3. e \in Nat /\ e = off[Len(sent)] /\ sent \in Seq(Messages)
      BY <1>1, <1>2
    <3>4. Continues(T, off, sent, m, T2, off2)
      BY <1>4, <1>6, <3>1, <3>2, <3>3 DEF Continues
    <3>5. QED
      BY <2>1, <3>4, LayoutExtends
  <2>3. QED
    BY <1>0, <2>2
<1>9. /\ Start(off2)' = Start(off) /\ Got' = Got /\ Taken(off2)' = Taken(off)
      /\ End(off2)' = e + HeaderLen + Len(m)
  <2>1. off2[Len(received)] = off[Len(received)]
    BY <1>7, Numbers DEF FrameOf, ReaderInv
  <2>2. Start(off2)' = Start(off) /\ Got' = Got
    BY <1>0, <2>1 DEF Start, Got
  <2>3. Taken(off2)' = Taken(off)
    BY <2>2 DEF Taken
  <2>4. End(off2)' = e + HeaderLen + Len(m)
    BY <1>3, <1>7 DEF End
  <2>5. QED
    BY <2>2, <2>3, <2>4
<1>10. ReaderInv(T2, off2)'
  <2>1. /\ Len(received) <= n
        /\ reading = "size" => msgSize = HeaderLen
        /\ reading = "body" => /\ Len(received) < n
                               /\ msgSize = Len(sent[Len(received) + 1])
        /\ reading = "thrown" => broken
        /\ reading \in {"size", "body"} => Len(buffer) <= msgSize
        /\ reading # "thrown" => /\ At(T, Start(off), Got) /\ At(T, Taken(off), stream)
                                 /\ Taken(off) + Len(stream) <= e
    BY DEF FrameOf, ReaderInv
  <2>2. Len(received) <= n + 1 /\ (Len(received) < n => Len(received) < n + 1)
    BY <1>2, <2>1, Numbers
  <2>3. Len(received) < n => sent'[Len(received) + 1] = sent[Len(received) + 1]
    BY <1>2, <1>3, Numbers
  <2>4. Start(off) + Len(Got) = Taken(off)
    BY DEF Taken
  <2>5. reading # "thrown" => At(T2, Start(off), Got)
    <3>1. reading # "thrown" => Start(off) + Len(Got) <= e
      BY <1>2, <2>1, <2>4, Numbers
    <3>2. Start(off) \in Nat /\ Got \in Seq(Byte)
      BY Numbers
    <3>3. QED
      BY <1>2, <1>4, <2>1, <3>1, <3>2, AtGrow
  <2>6. reading # "thrown" => At(T2, Taken(off), stream)
    BY <1>2, <1>4, <2>1, Numbers, AtGrow
  <2>7. reading # "thrown" => Taken(off) + Len(stream) <= e + HeaderLen + Len(m)
    BY <1>1, <1>2, <2>1, Numbers
  <2>8. QED
    BY <1>0, <1>3, <1>9, <2>1, <2>2, <2>3, <2>5, <2>6, <2>7 DEF ReaderInv
<1>11. WriterInv(T2, off2)'
  <2>1. ~broken => Taken(off) + Len(stream) = e
    <3>1. ~broken => /\ Taken(off) + Len(stream) + Len(toWrite) + Len(bodyToWrite) = e
                     /\ Len(toWrite) = 0 /\ Len(bodyToWrite) = 0
      BY <1>0 DEF FrameOf, WriterInv
    <3>2. Taken(off) \in Nat /\ Len(stream) \in Nat
      BY Numbers
    <3>3. QED
      BY <1>2, <3>1, <3>2
  <2>2. At(T2, e, h) /\ At(T2, e + Len(h), m)
    BY <1>1, <1>5, <1>6 DEF At
  <2>3. QED
    BY <1>0, <1>1, <1>9, <2>1, <2>2 DEF WriterInv
<1>12. FrameOf(T2, off2)'
  BY <1>8, <1>10, <1>11 DEF FrameOf
<1>13. QED
  BY <1>12 DEF FrameInv

(* The types; that of msgSize needs the size field to be understood.        *)
LEMMA FramedTypeStep ==
    ASSUME SizesReadBack, FramedTypeOK, FrameInv, [FramedNext]_framedVars
    PROVE  FramedTypeOK'
<1>0. /\ HeaderLen \in Nat /\ Messages \subseteq Seq(Byte)
  BY FramedAssumption
<1>1. /\ sent \in Seq(Messages) /\ received \in Seq(Seq(Byte))
      /\ toWrite \in Seq(Byte) /\ bodyToWrite \in Seq(Byte)
      /\ stream \in Seq(Byte) /\ buffer \in Seq(Byte)
      /\ msgSize \in Nat /\ bytesOut \in Nat /\ bytesIn \in Nat
  BY DEF FramedTypeOK
<1>2. /\ broken \in BOOLEAN /\ writing \in BOOLEAN /\ BoostFree \in BOOLEAN
      /\ reading \in {"idle", "size", "body", "thrown"}
  BY Zenon DEF FramedTypeOK
<1>3. broken' \in BOOLEAN /\ writing' \in BOOLEAN /\ BoostFree' \in BOOLEAN
  BY <1>2, Zenon DEF FramedNext, WriteWithSize, Write, WriteSome, WriteBody, WriteReturns,
     WriteError, Read, ReadSize, ReadSome, ReadBody, ReadReturns, ReadThrows, Break,
     framedVars, writerVars, readerVars
<1>4. reading' \in {"idle", "size", "body", "thrown"}
  BY <1>2 DEF FramedNext, WriteWithSize, Write, WriteSome, WriteBody, WriteReturns,
     WriteError, Read, ReadSize, ReadSome, ReadBody, ReadReturns, ReadThrows, Break,
     framedVars, writerVars, readerVars
<1>5. SUFFICES /\ sent' \in Seq(Messages) /\ received' \in Seq(Seq(Byte))
               /\ toWrite' \in Seq(Byte) /\ bodyToWrite' \in Seq(Byte)
               /\ stream' \in Seq(Byte) /\ buffer' \in Seq(Byte)
               /\ msgSize' \in Nat /\ bytesOut' \in Nat /\ bytesIn' \in Nat
  BY <1>3, <1>4, Zenon DEF FramedTypeOK
<1>6. ASSUME NEW m \in Messages, WriteWithSize(m)
      PROVE  /\ sent' \in Seq(Messages) /\ toWrite' \in Seq(Byte)
             /\ bodyToWrite' \in Seq(Byte) /\ bytesOut' \in Nat
  <2>1. SizeBytes(Len(m)) \in Seq(Byte)
    BY <1>0, FunctionIsSequence DEF SizesReadBack
  <2>2. QED
    BY <1>0, <1>1, <1>6, <2>1 DEF WriteWithSize
<1>7. ASSUME NEW m \in Messages, WriteWithSize(m)
      PROVE  UNCHANGED <<received, stream, buffer, msgSize, bytesIn>>
  BY <1>7 DEF WriteWithSize, readerVars
<1>8. CASE WriteSome
  <2>1. stream' \in Seq(Byte) /\ toWrite' \in Seq(Byte)
    <3>1. PICK n \in 1 .. Len(toWrite) : /\ stream' = stream \o SubSeq(toWrite, 1, n)
                                         /\ toWrite' = SubSeq(toWrite, n + 1, Len(toWrite))
      BY <1>8 DEF WriteSome
    <3>2. n \in 0 .. Len(toWrite)
      BY <1>1
    <3>3. SubSeq(toWrite, 1, n) \in Seq(Byte) /\ toWrite' \in Seq(Byte)
      BY <1>1, <3>1, <3>2, SubSeqFacts
    <3>4. QED
      BY <1>1, <3>1, <3>3, ConcatFacts
  <2>2. UNCHANGED <<sent, bodyToWrite, bytesOut, received, buffer, msgSize, bytesIn>>
    BY <1>8 DEF WriteSome, readerVars
  <2>3. QED
    BY <1>1, <2>1, <2>2
<1>9. CASE WriteBody \/ WriteReturns \/ WriteError
  <2>1. UNCHANGED <<sent, received, buffer, msgSize, bytesIn, stream>>
    BY <1>9 DEF WriteBody, WriteReturns, WriteError, readerVars
  <2>2. toWrite' \in Seq(Byte) /\ bodyToWrite' \in Seq(Byte) /\ bytesOut' \in Nat
    <3>1. /\ toWrite' \in {toWrite, bodyToWrite, <<>>} /\ bodyToWrite' \in {bodyToWrite, <<>>}
          /\ bytesOut' \in {bytesOut, bytesOut + Len(bodyToWrite)}
      BY <1>9 DEF WriteBody, WriteReturns, WriteError
    <3>2. <<>> \in Seq(Byte) /\ bytesOut + Len(bodyToWrite) \in Nat
      BY <1>1
    <3>3. QED
      BY <1>1, <3>1, <3>2, Zenon
  <2>3. QED
    BY <1>1, <2>1, <2>2
<1>10. CASE ReadSome
  <2>1. stream' \in Seq(Byte) /\ buffer' \in Seq(Byte)
    <3>1. PICK n \in 1 .. (IF Len(stream) < msgSize - Len(buffer)
                           THEN Len(stream) ELSE msgSize - Len(buffer)) :
              /\ buffer' = buffer \o SubSeq(stream, 1, n)
              /\ stream' = SubSeq(stream, n + 1, Len(stream))
      BY <1>10 DEF ReadSome
    <3>2. n \in 0 .. Len(stream)
      BY <1>1
    <3>3. SubSeq(stream, 1, n) \in Seq(Byte) /\ stream' \in Seq(Byte)
      BY <1>1, <3>1, <3>2, SubSeqFacts
    <3>4. QED
      BY <1>1, <3>1, <3>3, ConcatFacts
  <2>2. UNCHANGED <<sent, toWrite, bodyToWrite, bytesOut, received, msgSize, bytesIn>>
    BY <1>10 DEF ReadSome, writerVars
  <2>3. QED
    BY <1>1, <2>1, <2>2
<1>11. CASE ReadBody
  <2>1. SizeOf(buffer) \in Nat
    <3>1. PICK T, off : FrameOf(T, off)
      BY DEF FrameInv
    <3>2. reading = "size" /\ Len(buffer) = msgSize
      BY <1>11 DEF ReadBody
    <3>3. Len(received) < Len(sent) /\ SizeOf(buffer) = Len(sent[Len(received) + 1])
      BY <3>1, <3>2, SizeRead
    <3>4. QED
      BY <3>1, <3>3, NextMessage
  <2>2. msgSize' = SizeOf(buffer) /\ buffer' = <<>> /\ bytesIn' = bytesIn + SizeOf(buffer)
        /\ UNCHANGED <<received, sent, toWrite, bodyToWrite, bytesOut, stream>>
    BY <1>11 DEF ReadBody, writerVars
  <2>3. QED
    BY <1>1, <2>1, <2>2
<1>12. CASE ReadSize \/ ReadReturns \/ ReadThrows
  <2>1. UNCHANGED <<sent, toWrite, bodyToWrite, bytesOut, stream>>
    BY <1>12 DEF ReadSize, ReadReturns, ReadThrows, writerVars
  <2>2. received' \in Seq(Seq(Byte)) /\ buffer' \in Seq(Byte)
        /\ msgSize' \in Nat /\ bytesIn' \in Nat
    <3>1. /\ received' \in {received, Append(received, buffer)} /\ buffer' \in {buffer, <<>>}
          /\ msgSize' \in {msgSize, HeaderLen} /\ bytesIn' \in {bytesIn, bytesIn + HeaderLen}
      BY <1>12 DEF ReadSize, ReadReturns, ReadThrows
    <3>2. /\ <<>> \in Seq(Byte) /\ Append(received, buffer) \in Seq(Seq(Byte))
          /\ bytesIn + HeaderLen \in Nat
      BY <1>0, <1>1
    <3>3. QED
      BY <1>0, <1>1, <3>1, <3>2, Zenon
  <2>3. QED
    BY <1>1, <2>1, <2>2
<1>13. CASE Break
  <2>1. stream' \in Seq(Byte)
    BY <1>1, <1>13, SubSeqFacts DEF Break
  <2>2. UNCHANGED <<sent, toWrite, bodyToWrite, bytesOut, received, buffer, msgSize, bytesIn>>
    BY <1>13 DEF Break, writerVars, readerVars
  <2>3. QED
    BY <1>1, <2>1, <2>2
<1>14. CASE UNCHANGED framedVars
  BY <1>1, <1>14 DEF framedVars, writerVars, readerVars
<1>15. QED
  BY <1>1, <1>6, <1>7, <1>8, <1>9, <1>10, <1>11, <1>12, <1>13, <1>14
     DEF FramedNext, Write, Read

LEMMA FrameInvStep ==
    ASSUME SizesReadBack, FramedTypeOK, FrameInv, [FramedNext]_framedVars
    PROVE  FrameInv'
<1>1. PICK T, off : FrameOf(T, off)
  BY DEF FrameInv
<1>2. ASSUME NEW m \in Messages, WriteWithSize(m) PROVE FrameInv'
  BY <1>1, <1>2, WriteWithSizeKeeps
<1>3. CASE Write
  BY <1>1, <1>3, WriteSomeKeeps, WriterKeeps DEF Write, FrameInv
<1>4. CASE Read
  BY <1>1, <1>4, ReadSomeKeeps, ReaderKeeps DEF Read, FrameInv
<1>5. CASE Break
  BY <1>1, <1>5, BreakKeeps DEF FrameInv
<1>6. CASE UNCHANGED framedVars
  <2>1. FrameOf(T, off)'
    BY <1>1, <1>6 DEF framedVars, writerVars, readerVars, FrameOf, Layout, ReaderInv,
       WriterInv, Start, Got, Taken, End
  <2>2. QED
    BY <2>1 DEF FrameInv
<1>7. QED
  BY <1>2, <1>3, <1>4, <1>5, <1>6 DEF FramedNext

(* Every step of the calls is a step of the channel or is not seen:         *)
(* writeWithSize sends, the return of readWithSizeIntoVector delivers.      *)
LEMMA FramedStep ==
    ASSUME FramedTypeOK, FrameInv, [FramedNext]_framedVars
    PROVE  [Fifo!FifoNext]_(Fifo!fifoVars)
<1>1. ASSUME NEW m \in Messages, WriteWithSize(m) PROVE Fifo!FifoNext
  BY <1>1 DEF WriteWithSize, readerVars, Fifo!FifoNext, Fifo!FifoSend
<1>2. CASE ReadReturns
  <2>1. PICK T, off : FrameOf(T, off)
    BY DEF FrameInv
  <2>2. reading = "body" /\ Len(buffer) = msgSize /\ received' = Append(received, buffer)
        /\ sent' = sent /\ broken' = broken
    BY <1>2 DEF ReadReturns, writerVars
  <2>3. Len(received) < Len(sent) /\ buffer = sent[Len(received) + 1]
    BY <2>1, <2>2, BodyRead
  <2>4. QED
    BY <2>2, <2>3 DEF Fifo!FifoNext, Fifo!FifoDeliver
<1>3. CASE Break
  BY <1>3 DEF Break, writerVars, readerVars, Fifo!FifoNext, Fifo!FifoBreak
<1>4. CASE Write \/ ReadSize \/ ReadSome \/ ReadBody \/ ReadThrows \/ UNCHANGED framedVars
  BY <1>4 DEF Write, WriteSome, WriteBody, WriteReturns, WriteError, ReadSize, ReadSome,
     ReadBody, ReadThrows, framedVars, writerVars, readerVars, Fifo!fifoVars
<1>5. QED
  BY <1>1, <1>2, <1>3, <1>4 DEF FramedNext, Read

(* For every byte, size field and set of messages whose lengths the size    *)
(* field can carry: however the bytes are cut and wherever the connection   *)
(* breaks, the framed channel is a FIFO channel.                            *)
THEOREM FramedImplementsFifo == ASSUME SizesReadBack PROVE FramedSpec => ImplementsFifo
<1>1. FramedInit => FramedTypeOK /\ FrameInv /\ Fifo!FifoInit
  BY FrameInit DEF FramedInit, Fifo!FifoInit
<1>2. FramedTypeOK /\ FrameInv /\ [FramedNext]_framedVars => FramedTypeOK' /\ FrameInv'
  BY FramedTypeStep, FrameInvStep
<1>3. FramedTypeOK /\ FrameInv /\ [FramedNext]_framedVars => [Fifo!FifoNext]_(Fifo!fifoVars)
  BY FramedStep
<1>4. QED
  BY <1>1, <1>2, <1>3, PTL DEF FramedSpec, ImplementsFifo, Fifo!FifoSpec

=============================================================================
