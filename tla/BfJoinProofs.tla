---------------------------- MODULE BfJoinProofs ----------------------------
(* Safety of the join of CommPartyTCPSyncedBoostFree, for every set of      *)
(* endpoints and however often accept rejects a connection.                 *)
EXTENDS BfJoin, TLAPS

(* A descriptor and a queue entry only ever name an endpoint on the address *)
(* that was connected to, and one that was started; an accepted or queued   *)
(* connection has its client end until that end is closed; the locals of    *)
(* join say which descriptors are connected; and a connection is queued,    *)
(* accepted or dropped for as long as its server lives.                     *)
Towards(e, f) == SelfAddress[f] = PeerAddress[e] /\ pc[e] # "new" /\ pc[f] # "new"
HasClient(e) == pc[e] = "closed" \/ clnt_fd[e] # NoFd

EndInv(e) ==
    /\ e \in listening => pc[e] # "new"
    /\ clnt_fd[e] # NoFd => Towards(e, clnt_fd[e])
    /\ srvc_fd[e] # NoFd => Towards(srvc_fd[e], e) /\ HasClient(srvc_fd[e])
    /\ \A k \in DOMAIN backlog[e] : Towards(backlog[e][k], e) /\ HasClient(backlog[e][k])
    /\ pc[e] # "closed" => /\ clnt_conn[e] <=> clnt_fd[e] # NoFd
                           /\ srvc_conn[e] <=> srvc_fd[e] # NoFd
    /\ pc[e] = "joined" => clnt_conn[e] /\ srvc_conn[e]

LinkInv(e, f) ==
    clnt_fd[e] = f => pc[f] = "closed" \/ Held(e, f) \/ <<e, f>> \in dropped

BfInv == \A e \in Endpoints : EndInv(e) /\ \A f \in Endpoints : LinkInv(e, f)

LEMMA BfTypeStep == ASSUME BfTypeOK, [BfNext]_bfVars PROVE BfTypeOK'
<1> USE DEF BfTypeOK
<1>1. CASE UNCHANGED bfVars
  BY <1>1 DEF bfVars, locals, fds
<1>2. ASSUME NEW e \in Endpoints,
             Open(e) \/ OpenFails(e) \/ JoinThrows(e) \/ JoinReturns(e) \/ NoWait(e) \/ Close(e)
      PROVE  BfTypeOK'
  <2>1. CASE Open(e)
    BY <2>1 DEF Open, locals
  <2>2. CASE OpenFails(e) \/ JoinThrows(e) \/ JoinReturns(e) \/ NoWait(e)
    BY <2>2 DEF OpenFails, JoinThrows, JoinReturns, NoWait, locals, fds
  <2>3. CASE Close(e)
    <3>1. backlog' \in [Endpoints -> Seq(Endpoints)]
      BY <2>3 DEF Close
    <3>2. QED
      BY <2>3, <3>1 DEF Close, locals
  <2>4. QED
    BY <1>2, <2>1, <2>2, <2>3
<1>3. ASSUME NEW e \in Endpoints, ConnectOk(e) PROVE BfTypeOK'
  <2>1. PICK f \in Reachable(e) :
            /\ clnt_fd' = [clnt_fd EXCEPT ![e] = f]
            /\ backlog' = [backlog EXCEPT ![f] = Append(@, e)]
    BY <1>3 DEF ConnectOk
  <2>2. f \in Endpoints
    BY DEF Reachable
  <2>3. backlog' \in [Endpoints -> Seq(Endpoints)]
    BY <2>1, <2>2
  <2>4. QED
    BY <1>3, <2>1, <2>2, <2>3 DEF ConnectOk
<1>4. ASSUME NEW e \in Endpoints, ConnectNot(e) PROVE BfTypeOK'
  BY <1>4, BfAssumption DEF ConnectNot, locals, fds
<1>5. ASSUME NEW e \in Endpoints, AcceptOk(e) \/ AcceptRejected(e) PROVE BfTypeOK'
  <2>1. backlog[e] \in Seq(Endpoints) /\ backlog[e] # <<>>
    BY <1>5 DEF AcceptOk, AcceptRejected
  <2>2. Head(backlog[e]) \in Endpoints /\ Tail(backlog[e]) \in Seq(Endpoints)
    BY <2>1
  <2>3. CASE AcceptOk(e)
    BY <2>2, <2>3 DEF AcceptOk
  <2>4. CASE AcceptRejected(e)
    <3>1. dropped' \in SUBSET (Endpoints \X Endpoints)
      BY <2>2, <2>4 DEF AcceptRejected
    <3>2. QED
      BY <2>2, <2>4, <3>1 DEF AcceptRejected, locals
  <2>5. QED
    BY <1>5, <2>3, <2>4
<1>6. ASSUME NEW e \in Endpoints, SelectTimeout(e) PROVE BfTypeOK'
  <2>1. time_consumption[e] + SleepBetweenAttempts \in Nat
    BY BfAssumption
  <2>2. QED
    BY <1>6, <2>1 DEF SelectTimeout, fds
<1>7. QED
  BY <1>1, <1>2, <1>3, <1>4, <1>5, <1>6 DEF BfNext, BfStep

LEMMA BfInvInit == BfInit => BfInv
<1> SUFFICES ASSUME BfInit, NEW e \in Endpoints
             PROVE  EndInv(e) /\ \A f \in Endpoints : LinkInv(e, f)
  BY DEF BfInv
<1>1. /\ clnt_fd[e] = NoFd /\ srvc_fd[e] = NoFd /\ backlog[e] = <<>>
      /\ pc[e] = "new" /\ e \notin listening /\ ~clnt_conn[e] /\ ~srvc_conn[e]
  BY DEF BfInit
<1>2. EndInv(e)
  BY <1>1 DEF EndInv
<1>3. \A f \in Endpoints : LinkInv(e, f)
  BY <1>1, BfAssumption DEF LinkInv
<1>4. QED
  BY <1>2, <1>3

(* A step that changes no descriptor and no queue, makes nothing new and    *)
(* closes nothing keeps the invariant, if it joins only with both           *)
(* connections.                                                             *)
LEMMA FdsUnchanged ==
    ASSUME BfTypeOK, BfInv, NEW e \in Endpoints, NEW v,
           v \notin {"new", "closed"}, pc[e] # "closed", pc' = [pc EXCEPT ![e] = v],
           UNCHANGED <<clnt_conn, srvc_conn, backlog, clnt_fd, srvc_fd, dropped>>,
           listening' = listening \/ listening' = listening \cup {e},
           v = "joined" => clnt_conn[e] /\ srvc_conn[e]
    PROVE  BfInv'
<1> USE DEF BfTypeOK
<1>1. \A d \in Endpoints : /\ pc[d] # "new" => pc'[d] # "new"
                           /\ pc'[d] = "closed" <=> pc[d] = "closed"
                           /\ HasClient(d)' <=> HasClient(d)
  BY DEF HasClient
<1>2. ASSUME NEW c \in Endpoints, NEW d \in Endpoints, Towards(c, d) PROVE Towards(c, d)'
  BY <1>1, <1>2 DEF Towards
<1>3. ASSUME NEW d \in Endpoints PROVE EndInv(d)'
  <2>1. EndInv(d)
    BY DEF BfInv
  <2>2. clnt_fd'[d] # NoFd => Towards(d, clnt_fd[d])'
    BY <1>2, <2>1 DEF EndInv
  <2>3. srvc_fd'[d] # NoFd => Towards(srvc_fd[d], d)' /\ HasClient(srvc_fd[d])'
    BY <1>1, <1>2, <2>1 DEF EndInv
  <2>4. \A k \in DOMAIN backlog[d] : Towards(backlog[d][k], d)' /\ HasClient(backlog[d][k])'
    BY <1>1, <1>2, <2>1 DEF EndInv
  <2>5. d \in listening' => pc'[d] # "new"
    BY <2>1 DEF EndInv
  <2>6. /\ pc'[d] # "closed" => /\ clnt_conn'[d] <=> clnt_fd'[d] # NoFd
                                /\ srvc_conn'[d] <=> srvc_fd'[d] # NoFd
        /\ pc'[d] = "joined" => clnt_conn'[d] /\ srvc_conn'[d]
    BY <1>1, <2>1 DEF EndInv
  <2>7. QED
    BY <2>2, <2>3, <2>4, <2>5, <2>6 DEF EndInv
<1>4. ASSUME NEW d \in Endpoints, NEW f \in Endpoints PROVE LinkInv(d, f)'
  BY <1>1 DEF BfInv, LinkInv, Held
<1>5. QED
  BY <1>3, <1>4 DEF BfInv

LEMMA AppendKeeps ==
    ASSUME NEW s \in Seq(Endpoints), NEW x \in Endpoints, NEW t, t = Append(s, x)
    PROVE  /\ \A k \in DOMAIN t : t[k] = x \/ (k \in DOMAIN s /\ t[k] = s[k])
           /\ \A k \in DOMAIN s : k \in DOMAIN t /\ t[k] = s[k]
           /\ \E k \in DOMAIN t : t[k] = x
<1>1. Len(s) + 1 \in DOMAIN t /\ t[Len(s) + 1] = x
  OBVIOUS
<1>2. \A k \in DOMAIN s : k \in DOMAIN t /\ t[k] = s[k]
  OBVIOUS
<1>3. \A k \in DOMAIN t : t[k] = x \/ (k \in DOMAIN s /\ t[k] = s[k])
  OBVIOUS
<1>4. QED
  BY <1>1, <1>2, <1>3

LEMMA TailKeeps ==
    ASSUME NEW s \in Seq(Endpoints), s # <<>>
    PROVE  /\ Head(s) \in Endpoints /\ 1 \in DOMAIN s /\ s[1] = Head(s)
           /\ \A k \in DOMAIN Tail(s) : k + 1 \in DOMAIN s /\ Tail(s)[k] = s[k + 1]
           /\ \A k \in DOMAIN s :
                  s[k] = Head(s) \/ (k - 1 \in DOMAIN Tail(s) /\ Tail(s)[k - 1] = s[k])
OBVIOUS

LEMMA ConnectKeeps ==
    ASSUME BfTypeOK, BfInv, NEW e \in Endpoints, ConnectOk(e)
    PROVE  BfInv'
<1> USE DEF BfTypeOK
<1>1. PICK f \in Reachable(e) :
          /\ clnt_fd' = [clnt_fd EXCEPT ![e] = f]
          /\ backlog' = [backlog EXCEPT ![f] = Append(@, e)]
  BY DEF ConnectOk
<1>2. /\ f \in Endpoints /\ f \in listening /\ SelfAddress[f] = PeerAddress[e]
      /\ pc[f] # "new" /\ f # NoFd
  BY BfAssumption DEF Reachable, BfInv, EndInv
<1>3. /\ pc[e] = "loop" /\ pc' = [pc EXCEPT ![e] = "wait"] /\ ~clnt_conn[e]
      /\ clnt_conn' = [clnt_conn EXCEPT ![e] = TRUE]
      /\ UNCHANGED <<srvc_conn, listening, srvc_fd, dropped>>
  BY DEF ConnectOk, InLoop
<1>4. \A d \in Endpoints : /\ pc[d] # "new" => pc'[d] # "new"
                           /\ pc'[d] = "closed" <=> pc[d] = "closed"
                           /\ HasClient(d) => HasClient(d)'
  BY <1>1, <1>2, <1>3 DEF HasClient
<1>5. ASSUME NEW c \in Endpoints, NEW d \in Endpoints, Towards(c, d) PROVE Towards(c, d)'
  BY <1>4, <1>5 DEF Towards
<1>6. Towards(e, f)' /\ HasClient(e)'
  BY <1>1, <1>2, <1>3, <1>4 DEF Towards, HasClient
<1>7. /\ \A k \in DOMAIN backlog'[f] :
            backlog'[f][k] = e \/ (k \in DOMAIN backlog[f] /\ backlog'[f][k] = backlog[f][k])
      /\ \A k \in DOMAIN backlog[f] :
            k \in DOMAIN backlog'[f] /\ backlog'[f][k] = backlog[f][k]
      /\ \E k \in DOMAIN backlog'[f] : backlog'[f][k] = e
  <2>1. backlog[f] \in Seq(Endpoints) /\ backlog'[f] = Append(backlog[f], e)
    BY <1>1, <1>2
  <2> DEFINE s == backlog[f]
             t == backlog'[f]
  <2>2. s \in Seq(Endpoints) /\ t = Append(s, e)
    BY <2>1
  <2> HIDE DEF s, t
  <2> HIDE DEF BfTypeOK
  <2>3. /\ \A k \in DOMAIN t : t[k] = e \/ (k \in DOMAIN s /\ t[k] = s[k])
        /\ \A k \in DOMAIN s : k \in DOMAIN t /\ t[k] = s[k]
        /\ \E k \in DOMAIN t : t[k] = e
    BY <2>2, AppendKeeps
  <2>4. QED
    BY <2>3 DEF s, t
<1>8. ASSUME NEW d \in Endpoints PROVE EndInv(d)'
  <2>1. EndInv(d)
    BY DEF BfInv
  <2>2. d \in listening' => pc'[d] # "new"
    BY <1>3, <1>4, <2>1 DEF EndInv
  <2>3. ASSUME clnt_fd'[d] # NoFd, NEW c, c = clnt_fd'[d] PROVE Towards(d, c)'
    <3>1. CASE d = e
      BY <1>1, <1>6, <2>3, <3>1
    <3>2. CASE d # e
      BY <1>1, <1>5, <2>1, <2>3, <3>2 DEF EndInv
    <3>3. QED
      BY <3>1, <3>2
  <2>4. srvc_fd[d] # NoFd => Towards(srvc_fd[d], d)' /\ HasClient(srvc_fd[d])'
    BY <1>3, <1>4, <1>5, <2>1 DEF EndInv
  <2>5. ASSUME NEW k \in DOMAIN backlog'[d], NEW c, c = backlog'[d][k]
        PROVE  Towards(c, d)' /\ HasClient(c)'
    <3>1. (d = f /\ c = e) \/ (k \in DOMAIN backlog[d] /\ c = backlog[d][k])
      <4>1. CASE d = f
        BY <1>7, <2>5, <4>1
      <4>2. CASE d # f
        BY <1>1, <1>2, <2>5, <4>2
      <4>3. QED
        BY <4>1, <4>2
    <3>2. CASE d = f /\ c = e
      BY <3>2, <1>6
    <3>3. CASE k \in DOMAIN backlog[d] /\ c = backlog[d][k]
      <4>1. c \in Endpoints /\ Towards(c, d) /\ HasClient(c)
        BY <2>1, <3>3 DEF EndInv
      <4>2. QED
        BY <4>1, <1>4, <1>5
    <3>4. QED
      BY <3>1, <3>2, <3>3
  <2>6. /\ pc'[d] # "closed" => /\ clnt_conn'[d] <=> clnt_fd'[d] # NoFd
                                /\ srvc_conn'[d] <=> srvc_fd'[d] # NoFd
        /\ pc'[d] = "joined" => clnt_conn'[d] /\ srvc_conn'[d]
    BY <1>1, <1>2, <1>3, <1>4, <2>1 DEF EndInv
  <2>7. QED
    BY <1>3, <2>2, <2>3, <2>4, <2>5, <2>6 DEF EndInv
<1>9. ASSUME NEW d \in Endpoints, NEW c \in Endpoints PROVE LinkInv(d, c)'
  <2>1. ASSUME Held(d, c) PROVE Held(d, c)'
    <3>1. CASE c # f
      BY <1>1, <1>2, <1>3, <2>1, <3>1 DEF Held
    <3>2. CASE c = f
      BY <1>3, <1>7, <2>1, <3>2 DEF Held
    <3>3. QED
      BY <3>1, <3>2
  <2>2. Held(e, f)'
    BY <1>7 DEF Held
  <2>3. CASE d = e
    BY <2>2, <2>3, <1>1 DEF LinkInv
  <2>4. CASE d # e
    BY <2>1, <2>4, <1>1, <1>3, <1>4 DEF LinkInv, BfInv
  <2>5. QED
    BY <2>3, <2>4
<1>10. QED
  BY <1>8, <1>9 DEF BfInv

(* accept takes the first connection from the queue, whether it keeps it or *)
(* closes it.                                                               *)
LEMMA AcceptKeeps ==
    ASSUME BfTypeOK, BfInv, NEW e \in Endpoints, AcceptOk(e) \/ AcceptRejected(e)
    PROVE  BfInv'
<1> USE DEF BfTypeOK
<1> DEFINE h == Head(backlog[e])
<1>1. /\ backlog[e] \in Seq(Endpoints) /\ backlog[e] # <<>>
      /\ ~srvc_conn[e] /\ pc[e] = "wait"
      /\ backlog' = [backlog EXCEPT ![e] = Tail(@)]
      /\ pc' = [pc EXCEPT ![e] = "loop"]
      /\ UNCHANGED <<listening, clnt_fd, clnt_conn>>
  BY DEF AcceptOk, AcceptRejected, locals
<1>2. \/ /\ srvc_fd' = [srvc_fd EXCEPT ![e] = h] /\ srvc_conn' = [srvc_conn EXCEPT ![e] = TRUE]
         /\ dropped' = dropped
      \/ /\ srvc_fd' = [srvc_fd EXCEPT ![e] = NoFd] /\ srvc_conn' = srvc_conn
         /\ dropped' = dropped \cup {<<h, e>>}
  BY DEF AcceptOk, AcceptRejected, locals
<1>3. /\ h \in Endpoints /\ 1 \in DOMAIN backlog[e] /\ backlog[e][1] = h
      /\ \A k \in DOMAIN backlog'[e] :
            k + 1 \in DOMAIN backlog[e] /\ backlog'[e][k] = backlog[e][k + 1]
      /\ \A k \in DOMAIN backlog[e] :
            backlog[e][k] = h
              \/ (k - 1 \in DOMAIN backlog'[e] /\ backlog'[e][k - 1] = backlog[e][k])
  BY <1>1, TailKeeps
<1>4. Towards(h, e) /\ HasClient(h) /\ srvc_fd[e] = NoFd
  BY <1>1, <1>3 DEF BfInv, EndInv
<1> HIDE DEF h
<1>5. \A d \in Endpoints : /\ pc[d] # "new" => pc'[d] # "new"
                           /\ pc'[d] = "closed" <=> pc[d] = "closed"
                           /\ HasClient(d) => HasClient(d)'
  BY <1>1 DEF HasClient
<1>6. ASSUME NEW c \in Endpoints, NEW d \in Endpoints, Towards(c, d) PROVE Towards(c, d)'
  BY <1>5, <1>6 DEF Towards
<1>7. h # NoFd
  BY <1>3, BfAssumption
<1>8. ASSUME NEW d \in Endpoints PROVE EndInv(d)'
  <2>1. EndInv(d)
    BY DEF BfInv
  <2>2. d \in listening' => pc'[d] # "new"
    BY <1>1, <1>5, <2>1 DEF EndInv
  <2>3. clnt_fd'[d] # NoFd => Towards(d, clnt_fd[d])'
    BY <1>1, <1>6, <2>1 DEF EndInv
  <2>4. ASSUME srvc_fd'[d] # NoFd, NEW c, c = srvc_fd'[d]
        PROVE  Towards(c, d)' /\ HasClient(c)'
    <3>1. CASE d = e
      <4>1. c = h
        BY <1>2, <2>4, <3>1
      <4>2. QED
        BY <1>3, <1>4, <1>5, <1>6, <3>1, <4>1
    <3>2. CASE d # e
      <4>1. c = srvc_fd[d]
        BY <1>2, <2>4, <3>2
      <4>2. QED
        BY <1>5, <1>6, <2>1, <2>4, <4>1 DEF EndInv
    <3>3. QED
      BY <3>1, <3>2
  <2>5. ASSUME NEW k \in DOMAIN backlog'[d], NEW c, c = backlog'[d][k]
        PROVE  Towards(c, d)' /\ HasClient(c)'
    <3>1. PICK j \in DOMAIN backlog[d] : c = backlog[d][j]
      <4>1. CASE d = e
        BY <1>3, <2>5, <4>1
      <4>2. CASE d # e
        BY <1>1, <2>5, <4>2
      <4>3. QED
        BY <4>1, <4>2
    <3>2. c \in Endpoints /\ Towards(c, d) /\ HasClient(c)
      BY <2>1, <3>1 DEF EndInv
    <3>3. QED
      BY <3>2, <1>5, <1>6
  <2>6. /\ pc'[d] # "closed" => /\ clnt_conn'[d] <=> clnt_fd'[d] # NoFd
                                /\ srvc_conn'[d] <=> srvc_fd'[d] # NoFd
        /\ pc'[d] = "joined" => clnt_conn'[d] /\ srvc_conn'[d]
    <3>1. CASE d = e
      BY <1>1, <1>2, <1>7, <2>1, <3>1 DEF EndInv
    <3>2. CASE d # e
      BY <1>1, <1>2, <2>1, <3>2 DEF EndInv
    <3>3. QED
      BY <3>1, <3>2
  <2>7. QED
    BY <1>1, <2>2, <2>3, <2>4, <2>5, <2>6 DEF EndInv
<1>9. ASSUME NEW d \in Endpoints, NEW c \in Endpoints PROVE LinkInv(d, c)'
  <2>1. ASSUME Held(d, c) PROVE Held(d, c)' \/ <<d, c>> \in dropped'
    <3>1. CASE srvc_fd[c] = d
      <4>1. c # e /\ srvc_fd'[c] = d
        BY <1>2, <1>4, <3>1, BfAssumption
      <4>2. QED
        BY <4>1 DEF Held
    <3>2. CASE \E k \in DOMAIN backlog[c] : backlog[c][k] = d
      <4>1. PICK k \in DOMAIN backlog[c] : backlog[c][k] = d
        BY <3>2
      <4>2. CASE c # e
        BY <1>1, <4>1, <4>2 DEF Held
      <4>3. CASE c = e /\ d = h
        BY <1>2, <4>3 DEF Held
      <4>4. CASE c = e /\ d # h
        BY <1>3, <4>1, <4>4 DEF Held
      <4>5. QED
        BY <4>2, <4>3, <4>4
    <3>3. QED
      BY <2>1, <3>1, <3>2 DEF Held
  <2>2. <<d, c>> \in dropped => <<d, c>> \in dropped'
    BY <1>2
  <2>3. QED
    BY <1>1, <1>5, <2>1, <2>2 DEF LinkInv, BfInv
<1>10. QED
  BY <1>8, <1>9 DEF BfInv

LEMMA CloseKeeps ==
    ASSUME BfTypeOK, BfInv, NEW e \in Endpoints, Close(e)
    PROVE  BfInv'
<1> USE DEF BfTypeOK
<1>1. /\ pc[e] \in {"joined", "thrown"} /\ pc' = [pc EXCEPT ![e] = "closed"]
      /\ listening' = listening \ {e} /\ backlog' = [backlog EXCEPT ![e] = <<>>]
      /\ clnt_fd' = [clnt_fd EXCEPT ![e] = NoFd] /\ srvc_fd' = [srvc_fd EXCEPT ![e] = NoFd]
      /\ UNCHANGED <<clnt_conn, srvc_conn, dropped>>
  BY DEF Close, locals
<1>2. \A d \in Endpoints : /\ pc[d] # "new" => pc'[d] # "new"
                           /\ pc[d] = "closed" => pc'[d] = "closed"
                           /\ HasClient(d) => HasClient(d)'
  BY <1>1 DEF HasClient
<1>3. ASSUME NEW c \in Endpoints, NEW d \in Endpoints, Towards(c, d) PROVE Towards(c, d)'
  BY <1>2, <1>3 DEF Towards
<1>4. ASSUME NEW d \in Endpoints PROVE EndInv(d)'
  <2>1. EndInv(d)
    BY DEF BfInv
  <2>2. CASE d = e
    <3>1. clnt_fd'[d] = NoFd /\ srvc_fd'[d] = NoFd /\ backlog'[d] = <<>>
          /\ pc'[d] = "closed" /\ d \notin listening'
      BY <1>1, <2>2
    <3>2. QED
      BY <3>1 DEF EndInv
  <2>3. CASE d # e
    <3>1. /\ clnt_fd'[d] = clnt_fd[d] /\ srvc_fd'[d] = srvc_fd[d] /\ backlog'[d] = backlog[d]
          /\ pc'[d] = pc[d] /\ (d \in listening' => d \in listening)
          /\ clnt_conn' = clnt_conn /\ srvc_conn' = srvc_conn
      BY <1>1, <2>3
    <3>2. clnt_fd'[d] # NoFd => Towards(d, clnt_fd[d])'
      BY <1>1, <1>3, <2>1, <2>3 DEF EndInv
    <3>3. ASSUME NEW c, c = srvc_fd'[d], c # NoFd PROVE Towards(c, d)' /\ HasClient(c)'
      BY <1>2, <1>3, <2>1, <3>1, <3>3 DEF EndInv
    <3>4. ASSUME NEW k \in DOMAIN backlog'[d], NEW c, c = backlog'[d][k]
          PROVE  Towards(c, d)' /\ HasClient(c)'
      <4>1. c \in Endpoints /\ Towards(c, d) /\ HasClient(c)
        BY <2>1, <3>1, <3>4 DEF EndInv
      <4>2. QED
        BY <4>1, <1>2, <1>3
    <3>5. QED
      BY <2>1, <3>1, <3>2, <3>3, <3>4 DEF EndInv
  <2>4. QED
    BY <2>2, <2>3
<1>5. ASSUME NEW d \in Endpoints, NEW f \in Endpoints PROVE LinkInv(d, f)'
  <2>1. CASE d = e
    BY <1>1, <2>1, BfAssumption DEF LinkInv
  <2>2. CASE f = e
    BY <1>1, <2>2 DEF LinkInv
  <2>3. CASE d # e /\ f # e
    <3>1. /\ clnt_fd'[d] = clnt_fd[d] /\ srvc_fd'[f] = srvc_fd[f] /\ backlog'[f] = backlog[f]
          /\ pc'[f] = pc[f] /\ dropped' = dropped
      BY <1>1, <2>3
    <3>2. QED
      BY <3>1 DEF BfInv, LinkInv, Held
  <2>4. QED
    BY <2>1, <2>2, <2>3
<1>6. QED
  BY <1>4, <1>5 DEF BfInv

LEMMA BfInvStep == ASSUME BfTypeOK, BfInv, [BfNext]_bfVars PROVE BfInv'
<1>1. CASE UNCHANGED bfVars
  BY <1>1 DEF bfVars, locals, fds, BfInv, EndInv, LinkInv, Towards, HasClient, Held
<1>2. ASSUME NEW e \in Endpoints,
             Open(e) \/ OpenFails(e) \/ JoinThrows(e) \/ JoinReturns(e)
                \/ ConnectNot(e) \/ SelectTimeout(e) \/ NoWait(e)
      PROVE  BfInv'
  <2>1. UNCHANGED <<clnt_conn, srvc_conn, backlog, clnt_fd, srvc_fd, dropped>>
    BY <1>2 DEF Open, OpenFails, JoinThrows, JoinReturns, ConnectNot, SelectTimeout, NoWait,
       locals, fds
  <2>2. /\ pc[e] # "closed" /\ (listening' = listening \/ listening' = listening \cup {e})
        /\ \E v : /\ v \notin {"new", "closed"} /\ pc' = [pc EXCEPT ![e] = v]
                  /\ v = "joined" => clnt_conn[e] /\ srvc_conn[e]
    BY <1>2 DEF Open, OpenFails, JoinThrows, JoinReturns, ConnectNot, SelectTimeout, NoWait,
       InLoop, locals, fds
  <2>3. QED
    BY <2>1, <2>2, FdsUnchanged
<1>3. QED
  BY <1>1, <1>2, ConnectKeeps, AcceptKeeps, CloseKeeps DEF BfNext, BfStep

(* For every number of endpoints, whatever order their joins take and       *)
(* however often a connect fails or an accept is rejected: a join of        *)
(* CommPartyTCPSyncedBoostFree that returned is connected both ways, if     *)
(* addresses are paired and nobody else has used the two.                   *)
THEOREM JoinedOrDroppedCorrect == ASSUME BfPaired PROVE BfSpec => []JoinedOrDropped
<1>1. BfInit => BfTypeOK /\ BfInv
  BY BfInvInit, BfAssumption DEF BfInit, BfTypeOK
<1>2. BfTypeOK /\ BfInv /\ [BfNext]_bfVars => BfTypeOK' /\ BfInv'
  BY BfTypeStep, BfInvStep
<1>3. BfTypeOK /\ BfInv => JoinedOrDropped
  <2> SUFFICES ASSUME BfTypeOK, BfInv, NEW e \in Endpoints, NEW f \in Endpoints,
                      Joined(e, f), FirstOnAddress(e), FirstOnAddress(f)
               PROVE  clnt_fd[f] = e /\ srvc_fd[e] = f /\ (Held(e, f) \/ <<e, f>> \in dropped)
    BY DEF JoinedOrDropped
  <2>1. EndInv(e) /\ EndInv(f) /\ LinkInv(e, f)
    BY DEF BfInv
  <2>2. clnt_fd[e] = f /\ pc[e] = "joined" /\ pc[f] \notin {"thrown", "closed"} /\ f # NoFd
    BY BfAssumption DEF Joined
  <2>3. Held(e, f) \/ <<e, f>> \in dropped
    BY <2>1, <2>2 DEF LinkInv
  <2>4. Towards(e, f)
    BY <2>1, <2>2 DEF EndInv
  <2>5. PICK g \in Endpoints : srvc_fd[e] = g /\ Towards(g, e) /\ HasClient(g)
    BY <2>1, <2>2 DEF EndInv, BfTypeOK
  <2>6. g = f
    BY <2>4, <2>5 DEF Towards, BfPaired, FirstOnAddress, SameAddress
  <2>7. PICK x \in Endpoints : clnt_fd[f] = x /\ Towards(f, x)
    BY <2>1, <2>2, <2>5, <2>6 DEF EndInv, HasClient, BfTypeOK
  <2>8. x = e
    BY <2>4, <2>7 DEF Towards, BfPaired, FirstOnAddress, SameAddress
  <2>9. QED
    BY <2>3, <2>5, <2>6, <2>7, <2>8
<1>4. QED
  BY <1>1, <1>2, <1>3, PTL DEF BfSpec

=============================================================================
