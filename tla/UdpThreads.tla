---------------------------- MODULE UdpThreads -----------------------------
(***************************************************************************)
(* The threads of one CommUDP or Network object, whose code is the same:   *)
(* the program, which joins, writes, reads and closes, readSocket and      *)
(* updateConnections.  A connection (one ikcpcb) is what these threads see *)
(* of it: the messages ikcp_send took and no flush has sent, the messages  *)
(* the peer has still to bring, and rcv_queue.  Kcp says how they get from *)
(* one end to the other.                                                   *)
(*                                                                         *)
(* mNumProtocols is 1: only the connections of protocol 0 have a mutex and *)
(* readSocket and updateConnections serve no other.  mConnDirty is a       *)
(* vector<bool>, so its bits share a word and an assignment to one of them *)
(* reads and writes the word of all.                                       *)
(*                                                                         *)
(* Times are abstracted: an update time is "near" (passed, or at most an   *)
(* interval ahead) or, when the 32 bits of iclock have wrapped round and   *)
(* it has not, "far" (49 days ahead).  A test of a near one may come out   *)
(* either way, and an update may come before or after ts_flush.            *)
(***************************************************************************)
EXTENDS Integers, Sequences, FiniteSets, FiniteSetsExt

CONSTANTS
    Peers,          \* the ids of the other parties
    Script,         \* Script[c]: the messages peer c writes, in turn
    Timeouts,       \* the 15 silent waits that end readSocket after cleanUp
    Readers,        \* bound: the peers the program reads from after join
    MaxCalls        \* bound: calls of join, and of write after it

Sync == "0"         \* the byte join writes and waits for
Long == "long"      \* a message of more than one byte; any other has one
None == -1          \* past the last peer of a loop

ASSUME UdpAssumption ==
    /\ Peers \subseteq Nat /\ IsFiniteSet(Peers) /\ Peers # {}
    /\ Script \in [Peers -> Seq(STRING)]
    /\ {Timeouts, MaxCalls} \subseteq Nat \ {0} /\ Readers \subseteq Peers

VARIABLES
    mConnDirty, mUpdateTimes, mMutex,   \* per peer, as in the code
    pending,        \* the next flush has something to send
    coming, held,   \* messages under way from the peer, and in rcv_queue
    pc, at, word,   \* the program: its place, its peer, mConnDirty as it read it
    syncs,          \* the local of join
    upc, uat, uword,\* updateConnections, likewise
    got,            \* messages the program has read after join
    joins, writes,  \* calls so far
    early,          \* peers whose next message was not a sync when join began
    mDone, mKill,   \* as in the code
    counter         \* the local of readSocket

connVars == <<mConnDirty, mUpdateTimes, mMutex, pending, coming, held>>
programVars == <<pc, at, word, syncs, got, joins, writes, early>>
updaterVars == <<upc, uat, uword>>
stopVars == <<mDone, mKill, counter>>
udpVars == <<connVars, programVars, updaterVars, stopVars>>

NoWord == [c \in Peers |-> FALSE]
First == Min(Peers)
(* The loops run over the peers in the order of their ids.                 *)
NextPeer(c) == LET later == {p \in Peers : p > c} IN IF later = {} THEN None ELSE Min(later)

(* The threads have been started; when a data race has been met nothing is *)
(* known of what follows, and the model goes no further.                   *)
Running == pc \notin {"idle", "undefined"}
Rest(c) == held[c] \o coming[c]
Early == {c \in Peers : Rest(c) = <<>> \/ Head(Rest(c)) # Sync}

UdpInit ==
    /\ mConnDirty = NoWord
    /\ mUpdateTimes = [c \in Peers |-> "near"]
    /\ mMutex = [c \in Peers |-> "free"]
    /\ pending = NoWord
    /\ coming = Script /\ held = [c \in Peers |-> <<>>]
    /\ pc = "idle" /\ at = First /\ word = NoWord /\ syncs = {}
    /\ upc = "test" /\ uat = First /\ uword = NoWord
    /\ got = [c \in Peers |-> <<>>]
    /\ joins = 0 /\ writes = 0 /\ early = {}
    /\ mDone = FALSE /\ mKill = FALSE /\ counter = 0

-----------------------------------------------------------------------------
(* join, up to its first write.  The first call starts the threads.        *)
join ==
    /\ pc \in {"idle", "up"} /\ joins + writes < MaxCalls
    /\ joins' = joins + 1
    /\ pc' = "sync" /\ at' = First /\ syncs' = {}
    /\ early' = early \union Early
    /\ UNCHANGED <<connVars, updaterVars, word, got, writes, stopVars>>

(* write: under the mutex ikcp_send takes the message and the word of the  *)
(* dirty bits is read; then it is written back with the bit of c set.      *)
beginWrite(c, place) ==
    /\ mMutex[c] = "free"
    /\ mMutex' = [mMutex EXCEPT ![c] = "program"]
    /\ pending' = [pending EXCEPT ![c] = TRUE]
    /\ word' = mConnDirty
    /\ pc' = place /\ at' = c
    /\ UNCHANGED <<mConnDirty, mUpdateTimes, coming, held, updaterVars,
                   syncs, got, joins, early, stopVars>>

syncWrite == pc = "sync" /\ beginWrite(at, "syncStore") /\ UNCHANGED writes

appWrite(c) ==
    /\ pc = "up" /\ joins + writes < MaxCalls
    /\ writes' = writes + 1
    /\ beginWrite(c, "store")

(* Mutant: the mutex stays locked.                                         *)
endWriteMut ==
    /\ pc \in {"syncStore", "store"}
    /\ mConnDirty' = [word EXCEPT ![at] = TRUE] /\ word' = NoWord
    /\ pc' = CASE pc = "store" -> "up"
               [] pc = "syncStore" /\ NextPeer(at) # None -> "sync"
               [] pc = "syncStore" /\ NextPeer(at) = None -> "poll"
    /\ at' = IF pc = "syncStore" /\ NextPeer(at) # None THEN NextPeer(at) ELSE First
    /\ UNCHANGED <<mUpdateTimes, mMutex, pending, coming, held, updaterVars,
                   syncs, got, joins, writes, early, stopVars>>

endWrite ==
    /\ pc \in {"syncStore", "store"}
    /\ mConnDirty' = [word EXCEPT ![at] = TRUE] /\ word' = NoWord
    /\ mMutex' = [mMutex EXCEPT ![at] = "free"]
    /\ pc' = CASE pc = "store" -> "up"
               [] pc = "syncStore" /\ NextPeer(at) # None -> "sync"
               [] pc = "syncStore" /\ NextPeer(at) = None -> "poll"
    /\ at' = IF pc = "syncStore" /\ NextPeer(at) # None THEN NextPeer(at) ELSE First
    /\ UNCHANGED <<mUpdateTimes, pending, coming, held, updaterVars,
                   syncs, got, joins, writes, early, stopVars>>

(* The loop of join goes to the next peer; after the last one it ends when *)
(* every peer has been counted.                                            *)
pollNext(counted) ==
    /\ syncs' = counted
    /\ at' = IF NextPeer(at) # None THEN NextPeer(at) ELSE First
    /\ pc' = IF NextPeer(at) = None /\ counted = Peers THEN "up" ELSE "poll"

(* Mutant: a peer that has been counted is read again.                     *)
pollBeginMut ==
    /\ pc = "poll"
    /\ IF held[at] = <<>>
       THEN pollNext(syncs)
       ELSE pc' = "pollRead" /\ UNCHANGED <<at, syncs>>
    /\ UNCHANGED <<connVars, updaterVars, word, got, joins, writes, early, stopVars>>

(* A peer that has been counted, or whose rcv_queue is empty, is passed    *)
(* over; otherwise ikcp_recv begins, without the mutex.                    *)
pollBegin ==
    /\ pc = "poll"
    /\ IF at \in syncs \/ held[at] = <<>>
       THEN pollNext(syncs)
       ELSE pc' = "pollRead" /\ UNCHANGED <<at, syncs>>
    /\ UNCHANGED <<connVars, updaterVars, word, got, joins, writes, early, stopVars>>

(* ikcp_recv with a buffer of one byte leaves a longer message where it    *)
(* is; the byte '0' counts the peer; any other byte is dropped.            *)
pollEnd ==
    /\ pc = "pollRead"
    /\ held' = IF Head(held[at]) = Long THEN held ELSE [held EXCEPT ![at] = Tail(@)]
    /\ pollNext(IF Head(held[at]) = Sync THEN syncs \union {at} ELSE syncs)
    /\ UNCHANGED <<mConnDirty, mUpdateTimes, mMutex, pending, coming, updaterVars,
                   word, got, joins, writes, early, stopVars>>

(* read, by the program, with a buffer that is large enough.               *)
readBegin(c) ==
    /\ pc = "up" /\ c \in Readers /\ held[c] # <<>>
    /\ pc' = "read" /\ at' = c
    /\ UNCHANGED <<connVars, updaterVars, word, syncs, got, joins, writes, early, stopVars>>

readEnd ==
    /\ pc = "read"
    /\ got' = [got EXCEPT ![at] = Append(@, Head(held[at]))]
    /\ held' = [held EXCEPT ![at] = Tail(@)]
    /\ pc' = "up" /\ at' = First
    /\ UNCHANGED <<mConnDirty, mUpdateTimes, mMutex, pending, coming, updaterVars,
                   word, syncs, joins, writes, early, stopVars>>

(* cleanUp, which only the destructor of Network calls: it waits until     *)
(* both threads have ended.                                                *)
cleanUp ==
    /\ pc = "up"
    /\ pc' = "closing" /\ mDone' = TRUE
    /\ UNCHANGED <<connVars, updaterVars, at, word, syncs, got, joins, writes, early,
                   mKill, counter>>

closed ==
    /\ pc = "closing" /\ mKill /\ upc = "ended"
    /\ pc' = "closed"
    /\ UNCHANGED <<connVars, updaterVars, at, word, syncs, got, joins, writes, early,
                   stopVars>>

-----------------------------------------------------------------------------
(* ikcp_update flushes when ts_flush has been reached, and ikcp_check      *)
(* tells a time that is not after ts_flush.                                *)
update(c, flush) ==
    /\ pending' = [pending EXCEPT ![c] = ~flush]
    /\ mUpdateTimes' = [mUpdateTimes EXCEPT ![c] = "near"]

(* readSocket, one datagram: ikcp_input, ikcp_update and ikcp_check under  *)
(* the mutex.  When the program is inside ikcp_recv on this connection the *)
(* two change the same lists, and nothing is known of the outcome.         *)
readSocket(c) ==
    /\ Running /\ ~mKill /\ coming[c] # <<>> /\ mMutex[c] = "free"
    /\ counter' = 0
    /\ coming' = [coming EXCEPT ![c] = Tail(@)]
    /\ held' = [held EXCEPT ![c] = Append(@, Head(coming[c]))]
    /\ \E flush \in BOOLEAN : update(c, flush)
    /\ \/ UNCHANGED pc
       \/ pc \in {"pollRead", "read"} /\ at = c /\ pc' = "undefined"
    /\ UNCHANGED <<mConnDirty, mMutex, updaterVars, at, word, syncs, got, joins,
                   writes, early, mDone, mKill>>

(* recvmmsg waits for half a second in vain.                               *)
readTimeout ==
    /\ Running /\ ~mKill /\ mDone
    /\ counter' = counter + 1
    /\ mKill' = (counter' >= Timeouts)
    /\ UNCHANGED <<connVars, programVars, updaterVars, mDone>>

(* The loop over the peers; mKill is looked at before each round.          *)
updateNext(c) ==
    /\ upc' = IF NextPeer(c) = None /\ mKill THEN "ended" ELSE "test"
    /\ uat' = IF NextPeer(c) # None THEN NextPeer(c) ELSE First

(* Mutant: only the dirty bit is looked at.                                *)
mayUpdateMut(c) == mConnDirty[c]

(* updateConnections tests a connection without its mutex,                 *)
mayUpdate(c) == mConnDirty[c] \/ mUpdateTimes[c] = "near"
updateDue(c) ==
    /\ Running /\ upc = "test" /\ uat = c /\ mayUpdate(c)
    /\ upc' = "lock"
    /\ UNCHANGED <<connVars, programVars, uat, uword, stopVars>>

updateNotDue ==
    /\ Running /\ upc = "test" /\ ~mConnDirty[uat]
    /\ updateNext(uat)
    /\ UNCHANGED <<connVars, programVars, uword, stopVars>>

(* then updates it under the mutex,                                        *)
updateLocked(c, flush) ==
    /\ Running /\ upc = "lock" /\ uat = c /\ mMutex[c] = "free"
    /\ mMutex' = [mMutex EXCEPT ![c] = "updater"]
    /\ pending' = [pending EXCEPT ![c] = @ /\ ~flush]
    /\ mUpdateTimes' = [mUpdateTimes EXCEPT ![c] = "near"]
    /\ uword' = mConnDirty
    /\ upc' = "store"
    /\ UNCHANGED <<mConnDirty, coming, held, programVars, uat, stopVars>>

(* and writes the word of the dirty bits back with the bit of it cleared.  *)
updateStore ==
    /\ Running /\ upc = "store"
    /\ mConnDirty' = [uword EXCEPT ![uat] = FALSE] /\ uword' = NoWord
    /\ mMutex' = [mMutex EXCEPT ![uat] = "free"]
    /\ updateNext(uat)
    /\ UNCHANGED <<mUpdateTimes, pending, coming, held, programVars, stopVars>>

(* The timer of a segment that is not acknowledged runs out.               *)
resendDue(c) ==
    /\ Running
    /\ pending' = [pending EXCEPT ![c] = TRUE]
    /\ UNCHANGED <<mConnDirty, mUpdateTimes, mMutex, coming, held, programVars,
                   updaterVars, stopVars>>

(* iclock() is the low half of a 64-bit clock.  An update time that has    *)
(* not wrapped round with it is not below it for a long time; ikcp_update  *)
(* itself compares differences.                                            *)
iclockWraps ==
    /\ Running
    /\ mUpdateTimes' \in [Peers -> {"near", "far"}]
    /\ UNCHANGED <<mConnDirty, mMutex, pending, coming, held, programVars, updaterVars, stopVars>>

(* What the program goes on with once it is inside a call, and the calls   *)
(* it may make.                                                            *)
Inside == syncWrite \/ endWrite \/ pollBegin \/ pollEnd \/ readEnd \/ closed
Calls == join \/ cleanUp \/ \E c \in Peers : appWrite(c) \/ readBegin(c)

Updater ==
    \/ updateNotDue \/ updateStore
    \/ \E c \in Peers : updateDue(c) \/ \E flush \in BOOLEAN : updateLocked(c, flush)

UdpNext ==
    \/ Inside \/ Calls \/ Updater \/ readTimeout \/ iclockWraps
    \/ \E c \in Peers : readSocket(c) \/ resendDue(c)

(* Threads go on; a thread that waits for a mutex that is free again and   *)
(* again gets it, since no thread holds one for long or takes it again at  *)
(* once.  Time passes: a near update time is past at one of the tests to   *)
(* come, and ts_flush, never more than an interval ahead, at one of the    *)
(* updates.  What a peer wrote arrives (Kcp), and a silent socket lets     *)
(* recvmmsg time out.  The program need not call anything.                 *)
UdpSpec ==
    /\ UdpInit /\ [][UdpNext]_udpVars
    /\ SF_udpVars(Inside)
    /\ WF_udpVars(updateNotDue \/ updateStore) /\ WF_udpVars(readTimeout)
    /\ SF_udpVars(\E c \in Peers : readSocket(c))
    /\ \A c \in Peers : SF_udpVars(updateDue(c)) /\ SF_udpVars(updateLocked(c, TRUE))

-----------------------------------------------------------------------------
Places == {"idle", "sync", "syncStore", "store", "poll", "pollRead", "up", "read",
           "closing", "closed", "undefined"}

(* The types of the variables.                                           *)
UdpTypeOK ==
    /\ mConnDirty \in [Peers -> BOOLEAN]
    /\ mUpdateTimes \in [Peers -> {"near", "far"}]
    /\ mMutex \in [Peers -> {"free", "program", "updater"}]
    /\ pending \in [Peers -> BOOLEAN]
    /\ pc \in Places /\ upc \in {"test", "lock", "store", "ended"}
    /\ at \in Peers /\ uat \in Peers
    /\ syncs \subseteq Peers /\ early \subseteq Peers /\ counter \in 0 .. Timeouts

(* What the peer wrote and join and read have taken.                       *)
Taken(c) == SubSeq(Script[c], 1, Len(Script[c]) - Len(Rest(c)))
Data(ms) == SelectSeq(ms, LAMBDA m : m # Sync)

(* Each call of join takes one sync byte from every peer and nothing else, *)
(* whatever arrives while it polls, so that the program reads all the data *)
(* in its order.  A later join may drop data of a peer only when it was    *)
(* called with that data unread.                                           *)
JoinTakesOneSync ==
    pc \in {"up", "store", "read"} =>
        \A c \in Peers \ early :
            Len(Taken(c)) - Len(got[c]) = joins /\ Data(Taken(c)) = Data(got[c])

(* join returns once every peer has called it, although readSocket and     *)
(* updateConnections take the same mutexes, unless ikcp_recv and           *)
(* ikcp_input meet in one connection or data is left unread in front of a  *)
(* sync.  The destructor of Network returns: both threads end although     *)
(* datagrams set the counter of silent waits back.                         *)
CallsReturn ==
    /\ pc = "sync" ~> pc \in {"up", "undefined"} \/ early # {}
    /\ pc = "closing" ~> pc = "closed"

(* Every connection is flushed again and again: what was written goes out, *)
(* acknowledgements and segments to be sent again too, which is what the   *)
(* fairness of Kcp assumes.  It is so also when the dirty bit of a write   *)
(* is lost in the word it shares, or cleared by an update that came before *)
(* ts_flush.  Only when iclock has left the update time behind and no      *)
(* write has set the bit since does a connection wait.                     *)
FlushesGoOn ==
    \A c \in Peers :
        pending[c] ~> \/ ~pending[c]
                      \/ mUpdateTimes[c] = "far" /\ ~mConnDirty[c]
                      \/ mKill \/ ~Running
=============================================================================
