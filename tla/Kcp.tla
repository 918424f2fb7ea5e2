-------------------------------- MODULE Kcp --------------------------------
(***************************************************************************)
(* The reliable transport under the UDP channel: two ends of a connection, *)
(* each an ikcpcb driven by ikcp_send, ikcp_recv, ikcp_input and           *)
(* ikcp_update, over a network that loses, duplicates and reorders         *)
(* datagrams.                                                              *)
(*                                                                         *)
(* kcp[e] is the ikcpcb of end e with the fields that decide what is sent  *)
(* and what is delivered.  The library calls neither ikcp_nodelay nor      *)
(* ikcp_wndsize nor the stream mode, so fastresend, nocwnd and stream keep *)
(* the 0 of ikcp_create and the code they would enable is left out.        *)
(* Clocks are abstracted: a retransmission or a probe may be due at any    *)
(* update.  Sequence numbers stay far below 2^31, where _itimediff is the  *)
(* difference.                                                             *)
(***************************************************************************)
EXTENDS Integers, Sequences, FiniteSets, FiniteSetsExt, SequencesExt, Bags

CONSTANTS
    Workload,       \* Workload[e]: the messages the program of e sends in turn
    Mss, Overhead,  \* bytes of data and of header in a segment
    SndWnd, RcvWnd, \* IKCP_WND_SND, IKCP_WND_RCV
    ThreshMin,      \* IKCP_THRESH_INIT and IKCP_THRESH_MIN
    RecvLens,       \* the buffer sizes a program gives to ikcp_recv
    MaxFaults       \* bound: datagrams lost, datagrams duplicated and timers
                    \* that run out while an answer is under way

End == {"A", "B"}
Peer(e) == CHOOSE p \in End : p # e
Mtu == Mss + Overhead

VARIABLES
    kcp,            \* the ikcpcb of each end
    net,            \* net[e]: bag of datagrams under way to e
    sent,           \* sent[e]: messages ikcp_send took at e
    received,       \* received[e]: messages ikcp_recv returned at e
    calls,          \* calls[e]: calls of ikcp_send at e
    faults          \* what the network and the clocks have done

kcpVars == <<kcp, net, sent, received, calls, faults>>

ASSUME KcpAssumption ==
    /\ Workload \in [End -> Seq(Seq(Nat))]
    /\ {Mss, Overhead, SndWnd, RcvWnd, ThreshMin} \subseteq Nat \ {0}
    /\ MaxFaults \in Nat
    /\ \A e \in End : \A i \in DOMAIN Workload[e] :
         \E len \in RecvLens : len >= Len(Workload[e][i])

IMin(a, b) == IF a <= b THEN a ELSE b
IMax(a, b) == IF a >= b THEN a ELSE b

-----------------------------------------------------------------------------
(* ikcp_create.                                                             *)
Create ==
    [snd_una |-> 0, snd_nxt |-> 0, rcv_nxt |-> 0,
     snd_queue |-> <<>>, snd_buf |-> <<>>, rcv_queue |-> <<>>, rcv_buf |-> <<>>,
     acklist |-> <<>>, rmt_wnd |-> RcvWnd, cwnd |-> 0, incr |-> 0,
     ssthresh |-> ThreshMin, probe |-> {}, probe_wait |-> FALSE]

(* The fragments of a message: at least one, of at most mss bytes, numbered *)
(* down to 0.                                                               *)
FragmentCount(m) == IMax(1, (Len(m) + Mss - 1) \div Mss)
(* Mutant: every fragment is marked as the last one.                        *)
FragmentsMutLast(m) ==
    [i \in 1 .. FragmentCount(m) |->
        [frg |-> 0, data |-> SubSeq(m, (i - 1) * Mss + 1, IMin(i * Mss, Len(m)))]]

Fragments(m) ==
    [i \in 1 .. FragmentCount(m) |->
        [frg |-> FragmentCount(m) - i,
         data |-> SubSeq(m, (i - 1) * Mss + 1, IMin(i * Mss, Len(m)))]]

(* ikcp_send refuses a message whose fragments would fill the window of the *)
(* receiver.                                                                *)
Accepts(m) == FragmentCount(m) < RcvWnd

(* ikcp_peeksize: -1 while the last fragment has not come.                  *)
Bytes(segs) == FoldLeft(LAMBDA acc, s : acc \o s.data, <<>>, segs)
HeadMessage(k) == SubSeq(k.rcv_queue, 1, k.rcv_queue[1].frg + 1)
Complete(k) == k.rcv_queue # <<>> /\ Len(k.rcv_queue) >= k.rcv_queue[1].frg + 1

(* Mutant: rcv_queue always has room.                                       *)
ReadyMutNoRoom(k) ==
    {n \in 0 .. Len(k.rcv_buf) : \A i \in 1 .. n : k.rcv_buf[i].sn = k.rcv_nxt + i - 1}

(* The loop that ends ikcp_recv and ikcp_parse_data: the segments that      *)
(* follow in order move from rcv_buf to rcv_queue while it has room.        *)
Ready(k) ==
    {n \in 0 .. IMin(Len(k.rcv_buf), RcvWnd - Len(k.rcv_queue)) :
        \A i \in 1 .. n : k.rcv_buf[i].sn = k.rcv_nxt + i - 1}
MoveReady(k) ==
    LET n == Max(Ready(k))
    IN [k EXCEPT !.rcv_queue = @ \o SubSeq(k.rcv_buf, 1, n),
                 !.rcv_buf = SubSeq(@, n + 1, Len(@)),
                 !.rcv_nxt = @ + n]

-----------------------------------------------------------------------------
(* Mutant: the next segment the peer waits for is dropped with those before *)
AcknowledgedMutNext(seg, sn) == sn <= seg.una \/ (seg.cmd = "ACK" /\ sn = seg.sn)

(* ikcp_parse_una, ikcp_parse_ack and the ikcp_shrink_buf after each: the   *)
(* segments the other end has are dropped and snd_una is the first left.    *)
Acknowledged(seg, sn) == sn < seg.una \/ (seg.cmd = "ACK" /\ sn = seg.sn)
Acknowledge(k, seg) ==
    LET left == SelectSeq(k.snd_buf, LAMBDA s : ~Acknowledged(seg, s.sn))
    IN [k EXCEPT !.snd_buf = left,
                 !.snd_una = IF left # <<>> THEN Head(left).sn ELSE k.snd_nxt]

(* ikcp_parse_data: rcv_buf is kept in order and without repetition.        *)
Insert(buf, seg) ==
    SelectSeq(buf, LAMBDA s : s.sn < seg.sn)
    \o <<[sn |-> seg.sn, frg |-> seg.frg, data |-> seg.data]>>
    \o SelectSeq(buf, LAMBDA s : s.sn > seg.sn)
ParseData(k, seg) ==
    MoveReady([k EXCEPT !.rcv_buf = Insert(@, seg)])

(* A pushed segment below the end of the window is acknowledged, and kept   *)
(* unless it has been delivered before.                                     *)
InputPush(k, seg) ==
    IF seg.sn >= k.rcv_nxt + RcvWnd THEN k
    ELSE LET acked == [k EXCEPT !.acklist = Append(@, seg.sn)]
         IN IF seg.sn >= k.rcv_nxt THEN ParseData(acked, seg) ELSE acked

(* One round of the loop of ikcp_input.                                     *)
InputSeg(k, seg) ==
    [Acknowledge(CASE seg.cmd = "PUSH" -> InputPush(k, seg)
                   [] seg.cmd = "WASK" -> [k EXCEPT !.probe = @ \union {"TELL"}]
                   [] seg.cmd \in {"ACK", "WINS"} -> k, seg)
     EXCEPT !.rmt_wnd = seg.wnd]

(* The end of ikcp_input: the congestion window grows when snd_una did.     *)
GrowCwnd(k) ==
    LET slow == k.cwnd < k.ssthresh
        base == IMax(k.incr, Mss)
        incr == IF slow THEN k.incr + Mss ELSE base + (Mss * Mss) \div base + Mss \div 16
        cwnd == IF slow \/ (k.cwnd + 1) * Mss <= incr THEN k.cwnd + 1 ELSE k.cwnd
    IN [k EXCEPT !.cwnd = cwnd, !.incr = incr]

Input(k, datagram) ==
    LET after == FoldLeft(InputSeg, k, datagram)
    IN IF after.snd_una > k.snd_una /\ after.cwnd < after.rmt_wnd
       THEN GrowCwnd(after) ELSE after

-----------------------------------------------------------------------------
(* The segments of ikcp_flush are packed into datagrams of at most mtu      *)
(* bytes, in their order.                                                   *)
SizeOfSegs(segs) == FoldLeft(LAMBDA acc, s : acc + Overhead + Len(s.data), 0, segs)
Pack(segs) ==
    FoldLeft(LAMBDA out, s :
        IF out # <<>> /\ SizeOfSegs(Append(Last(out), s)) <= Mtu
        THEN Append(Front(out), Append(Last(out), s))
        ELSE Append(out, <<s>>), <<>>, segs)

WndUnused(k) == IMax(0, RcvWnd - Len(k.rcv_queue))

(* A segment without data, as ikcp_flush fills it in.                       *)
Control(k, cmd, sn) ==
    [cmd |-> cmd, sn |-> sn, frg |-> 0, data |-> <<>>,
     wnd |-> WndUnused(k), una |-> k.rcv_nxt]
Push(k, s) ==
    [Control(k, "PUSH", s.sn) EXCEPT !.frg = s.frg, !.data = s.data]

(* Segments move from snd_queue to snd_buf while the window has room.       *)
Window(k) == IMin(k.cwnd, IMin(SndWnd, k.rmt_wnd))
Admitted(k) == IMin(Len(k.snd_queue), IMax(0, k.snd_una + Window(k) - k.snd_nxt))
NewSegs(k) ==
    [i \in 1 .. Admitted(k) |->
        [sn |-> k.snd_nxt + i - 1, frg |-> k.snd_queue[i].frg, data |-> k.snd_queue[i].data]]

(* Mutant: the timer is looked at only by the flush that starts it.         *)
AsksMutOnce(k, probeDue) == k.rmt_wnd = 0 /\ ~k.probe_wait /\ probeDue

(* A closed window is asked about when the probe timer has run out.         *)
Asks(k, probeDue) == k.rmt_wnd = 0 /\ k.probe_wait /\ probeDue

(* ikcp_flush, on the ikcpcb.  The first flush that sees the window of the  *)
(* peer closed starts the probe timer; a loss closes the congestion window  *)
(* to one segment.                                                          *)
Flushed(k, lost) ==
    [k EXCEPT !.acklist = <<>>, !.probe = {}, !.probe_wait = (k.rmt_wnd = 0),
              !.snd_queue = SubSeq(@, Admitted(k) + 1, Len(@)),
              !.snd_buf = @ \o NewSegs(k),
              !.snd_nxt = @ + Admitted(k),
              !.ssthresh = IF lost THEN IMax(ThreshMin, Window(k) \div 2) ELSE @,
              !.cwnd = IF lost THEN 1 ELSE IMax(1, @),
              !.incr = IF lost \/ k.cwnd < 1 THEN Mss ELSE @]

(* ikcp_flush, on the wire: acknowledgements, the question when the probe   *)
(* timer has run out, the answer, the segments of due, whose retransmission *)
(* timers have run out, and the new ones.                                   *)
FlushOut(k, due, probeDue) ==
    LET acks == [i \in 1 .. Len(k.acklist) |-> Control(k, "ACK", k.acklist[i])]
        ask == IF Asks(k, probeDue) THEN <<Control(k, "WASK", 0)>> ELSE <<>>
        tell == IF "TELL" \in k.probe THEN <<Control(k, "WINS", 0)>> ELSE <<>>
        sending == SelectSeq(k.snd_buf, LAMBDA s : s.sn \in due) \o NewSegs(k)
        pushes == [i \in 1 .. Len(sending) |-> Push(k, sending[i])]
    IN Pack(acks \o ask \o tell \o pushes)

-----------------------------------------------------------------------------
KcpInit ==
    /\ kcp = [e \in End |-> Create]
    /\ net = [e \in End |-> EmptyBag]
    /\ sent = [e \in End |-> <<>>] /\ received = [e \in End |-> <<>>]
    /\ calls = [e \in End |-> 0]
    /\ faults = 0

(* ikcp_send.                                                               *)
Send(e) ==
    LET m == Workload[e][calls[e] + 1]
    IN /\ calls[e] < Len(Workload[e])
       /\ calls' = [calls EXCEPT ![e] = @ + 1]
       /\ IF Accepts(m)
          THEN /\ kcp' = [kcp EXCEPT ![e].snd_queue = @ \o Fragments(m)]
               /\ sent' = [sent EXCEPT ![e] = Append(@, m)]
          ELSE UNCHANGED <<kcp, sent>>
       /\ UNCHANGED <<net, received, faults>>

(* ikcp_recv with a buffer of len bytes.                                    *)
Recv(e, len) ==
    LET k == kcp[e]
        segs == HeadMessage(k)
        rest == MoveReady([k EXCEPT !.rcv_queue = SubSeq(@, Len(segs) + 1, Len(@))])
        recover == Len(k.rcv_queue) >= RcvWnd /\ Len(rest.rcv_queue) < RcvWnd
    IN /\ Complete(k) /\ Len(Bytes(segs)) <= len
       /\ received' = [received EXCEPT ![e] = Append(@, Bytes(segs))]
       /\ kcp' = [kcp EXCEPT ![e] =
                    IF recover THEN [rest EXCEPT !.probe = @ \union {"TELL"}] ELSE rest]
       /\ UNCHANGED <<net, sent, calls, faults>>

(* A datagram comes: ikcp_input.                                            *)
Arrive(e) ==
    \E d \in BagToSet(net[e]) :
       /\ kcp' = [kcp EXCEPT ![e] = Input(@, d)]
       /\ net' = [net EXCEPT ![e] = @ (-) SetToBag({d})]
       /\ UNCHANGED <<sent, received, calls, faults>>

(* Nothing is under way that a timer could overtake.                        *)
Quiet == \A e \in End : net[e] = EmptyBag /\ kcp[e].acklist = <<>> /\ kcp[e].probe = {}

Unacked(e) == {s.sn : s \in ToSet(kcp[e].snd_buf)}

(* ikcp_update, when it flushes: the retransmission timers of due and,      *)
(* with probeDue, the probe timer have run out.                             *)
Update(e, due, probeDue) ==
    LET overtakes == (due # {} \/ probeDue) /\ ~Quiet
    IN /\ probeDue => kcp[e].probe_wait
       /\ overtakes => faults < MaxFaults
       /\ faults' = IF overtakes THEN faults + 1 ELSE faults
       /\ kcp' = [kcp EXCEPT ![e] = Flushed(@, due # {})]
       /\ net' = [net EXCEPT ![Peer(e)] =
                    FoldLeft(LAMBDA b, d : b (+) SetToBag({d}), @, FlushOut(kcp[e], due, probeDue))]
       /\ UNCHANGED <<sent, received, calls>>

Lose ==
    /\ faults < MaxFaults
    /\ faults' = faults + 1
    /\ \E e \in End : \E d \in BagToSet(net[e]) :
         net' = [net EXCEPT ![e] = @ (-) SetToBag({d})]
    /\ UNCHANGED <<kcp, sent, received, calls>>

Duplicate ==
    /\ faults < MaxFaults
    /\ faults' = faults + 1
    /\ \E e \in End : \E d \in BagToSet(net[e]) :
         net' = [net EXCEPT ![e] = @ (+) SetToBag({d})]
    /\ UNCHANGED <<kcp, sent, received, calls>>

KcpNext ==
    \/ \E e \in End : Send(e)
    \/ \E e \in End, len \in RecvLens : Recv(e, len)
    \/ \E e \in End : Arrive(e)
    \/ \E e \in End : \E due \in SUBSET Unacked(e), probeDue \in BOOLEAN :
         Update(e, due, probeDue)
    \/ Lose \/ Duplicate

(* Every timer has run out by the time nothing else is under way.           *)
LateUpdate(e) ==
    Update(e, IF Quiet THEN Unacked(e) ELSE {}, Quiet /\ kcp[e].probe_wait)

(* updateConnections calls ikcp_update for ever, so a connection is flushed *)
(* again and again and its timers run out once nothing else is under way;   *)
(* a datagram that is not lost comes; the program reads.                    *)
KcpSpec ==
    /\ KcpInit /\ [][KcpNext]_kcpVars
    /\ WF_kcpVars(\E e \in End : Arrive(e))
    /\ WF_kcpVars(\E e \in End, len \in RecvLens : Recv(e, len))
    /\ \A e \in End : WF_kcpVars(LateUpdate(e))

-----------------------------------------------------------------------------
(* The types of the variables.                                            *)
KcpTypeOK ==
    /\ \A e \in End :
         /\ kcp[e].snd_una <= kcp[e].snd_nxt /\ kcp[e].rcv_nxt \in Nat
         /\ kcp[e].rmt_wnd \in 0 .. RcvWnd /\ kcp[e].cwnd \in Nat
         /\ kcp[e].probe \subseteq {"ASK", "TELL"} /\ kcp[e].probe_wait \in BOOLEAN
         /\ IsABag(net[e])
         /\ sent[e] \in Seq(ToSet(Workload[e])) /\ calls[e] \in 0 .. Len(Workload[e])
    /\ faults \in 0 .. MaxFaults

(* ikcp_recv returns the messages given to ikcp_send at the other end,      *)
(* whole, each once and in their order, whatever the network does.          *)
AtoB == INSTANCE FifoChannel WITH
    Messages <- ToSet(Workload["A"]), sent <- sent["A"],
    received <- received["B"], broken <- FALSE
BtoA == INSTANCE FifoChannel WITH
    Messages <- ToSet(Workload["B"]), sent <- sent["B"],
    received <- received["A"], broken <- FALSE
KcpImplementsFifo == AtoB!FifoSpec /\ BtoA!FifoSpec

(* A segment leaves snd_buf only when the other end holds it or has         *)
(* delivered it: ikcp_input acknowledges no segment that it drops.          *)
AckedIsHeld ==
    \A e \in End :
       LET p == kcp[Peer(e)]
       IN \A sn \in 0 .. kcp[e].snd_nxt - 1 :
             sn \in Unacked(e) \/ sn < p.rcv_nxt \/ \E s \in ToSet(p.rcv_buf) : s.sn = sn

(* What an end keeps for its peer is bounded by the window: one in rcv_queue*)
(* and one in rcv_buf, which is in order and without gaps before rcv_nxt.   *)
(* The window an end announces never wraps below zero.                      *)
WindowsHold ==
    \A e \in End :
       LET k == kcp[e]
       IN /\ Len(k.rcv_queue) <= RcvWnd
          /\ k.rmt_wnd \in 0 .. RcvWnd
          /\ k.snd_nxt - k.snd_una <= SndWnd
          /\ \A i \in 1 .. Len(k.rcv_buf) :
               /\ k.rcv_buf[i].sn \in k.rcv_nxt .. k.rcv_nxt + RcvWnd - 1
               /\ i > 1 => k.rcv_buf[i - 1].sn < k.rcv_buf[i].sn

(* Every message ikcp_send took is returned by ikcp_recv, although          *)
(* datagrams are lost, windows close and the answer that opens one again    *)
(* may be lost too.                                                         *)
KcpDelivers == <>[](\A e \in End : received[Peer(e)] = sent[e])
=============================================================================
