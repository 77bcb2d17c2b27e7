-------------------------- MODULE ModemSvrConnection --------------------------
(* svr_proxy/svr_proxy.py: the thread that owns the link to the modem server. *)
(* It answers PINGs and ICCID requests, starts a ServerConnection for every   *)
(* CONNECT and hands data and DISCONNECT packets to the connection of their   *)
(* port pair.  It must end, with its connections, when the link is lost or    *)
(* its parent stops it.                                                       *)
EXTENDS ServerConnection, SequencesExt

CONSTANT NoConn     \* mchild before the first CONNECT.

ASSUME NoConnAssumption == NoConn \notin Conns

VARIABLES
    link,       \* The modem server's SockHandler is_running().
    lwriter,    \* Its writer lives: nobody else empties outq.
    mstop,      \* _stop_event: the parent asked the thread to stop.
    mpc,        \* Where the thread is.
    mchild,     \* The connection it creates, sends to or joins.
    mpkt,       \* The packet it is about to hand over.
    mi,         \* Position of the last loop's iterator in children.
    children,   \* _children.
    arrived     \* History: packets received so far for each pair.

mVars == <<link, lwriter, mstop, mpc, mchild, mpkt, mi, children, arrived>>
vars == <<sockVars, svrVars, mVars>>

NoPkt == [id |-> 0, disc |-> FALSE]

Init ==
    /\ SvrInit
    /\ link = TRUE
    /\ lwriter = TRUE
    /\ mstop = FALSE
    /\ mpc = "loop"
    /\ mchild = NoConn
    /\ mpkt = NoPkt
    /\ mi = 1
    /\ children = <<>>
    /\ arrived = [p \in Pairs |-> 0]

\* _running is reset when the loop ends; an exception leaves it set.
MRunning == mpc \notin {"stop", "join", "exited"}

\* _children_lock is held from the search until send() has returned; every
\* other critical section is a single step.
LockFree == mpc \notin {"send", "enqueue", "crashed"}

\* Local variables a loop iteration no longer needs.
MForget == mchild' = NoConn /\ mpkt' = NoPkt

MStep(from, to) == mpc = from /\ mpc' = to

MatchesPair(p) == {i \in DOMAIN children : pair[children[i]] = p}

-----------------------------------------------------------------------------
(* ModemSvrConnection.run.  MServing: neither the stop event nor the loss of  *)
(* the link was seen by the test at the head of the loop.                     *)

MServing == link /\ ~mstop

\* PING, or an ICCID_REQ the modem server answered; the reply's put may block.
MGetRequest ==
    /\ MServing
    /\ MStep("loop", "reply")
    /\ UNCHANGED <<sockVars, svrVars, link, lwriter, mstop, mchild, mpkt, mi, children, arrived>>

MPutReply ==
    /\ MStep("reply", "loop")
    /\ OutqPut
    /\ UNCHANGED <<sockVars, connVars, ppc, depackVars, told>>
    /\ UNCHANGED <<link, lwriter, mstop, mchild, mpkt, mi, children, arrived>>

\* PASSTHROUGH or DISCONNECT: the first child with the same ports is chosen
\* under the lock; without one the packet is forgotten.
MGetData(p, disc) ==
    /\ MServing
    /\ mpc = "loop"
    /\ arrived[p] < MaxPkts
    /\ arrived' = [arrived EXCEPT ![p] = @ + 1]
    /\ \/ \E i \in MatchesPair(p) :
            /\ \A j \in MatchesPair(p) : i <= j
            /\ mpc' = "send"
            /\ mchild' = children[i]
            /\ mpkt' = [id |-> arrived'[p], disc |-> disc]
       \/ MatchesPair(p) = {} /\ UNCHANGED <<mpc, mchild, mpkt>>
    /\ UNCHANGED <<sockVars, svrVars, link, lwriter, mstop, mi, children>>

\* ServerConnection.send: a connection without a Depacketize thread drops it.
MSend ==
    /\ MStep("send", IF HasDepack(mchild) THEN "enqueue" ELSE "loop")
    /\ IF HasDepack(mchild) THEN UNCHANGED <<mchild, mpkt>> ELSE MForget
    /\ UNCHANGED <<sockVars, svrVars, link, lwriter, mstop, mi, children, arrived>>

\* The reference is read again; if it was dropped meanwhile the exception
\* ends the thread with the lock held.
MEnqueue ==
    /\ MStep("enqueue", IF HasDepack(mchild) THEN "loop" ELSE "crashed")
    /\ dq' = IF HasDepack(mchild)
             THEN [dq EXCEPT ![mchild] = Append(@, mpkt)]
             ELSE dq
    /\ MForget
    /\ UNCHANGED <<sockVars, outq, connVars, ppc, dpc, gotDisc, told>>
    /\ UNCHANGED <<link, lwriter, mstop, mi, children, arrived>>

\* CONNECT: the constructor starts a thread and waits for its _started flag.
MGetConnect(c, p) ==
    /\ MServing
    /\ MStep("loop", "create")
    /\ SStep(c, "none", "connect")
    /\ pair' = [pair EXCEPT ![c] = p]
    /\ mchild' = c
    /\ UNCHANGED <<sockVars, outq, sstop, ppc, depackVars, told>>
    /\ UNCHANGED <<link, lwriter, mstop, mpkt, mi, children, arrived>>

\* Mutant: is_running() asked instead of is_connected().
MAppendRunning ==
    /\ MStep("create", "loop")
    /\ Started(mchild)
    /\ children' = IF Running(mchild) THEN Append(children, mchild) ELSE children
    /\ MForget
    /\ UNCHANGED <<sockVars, svrVars, link, lwriter, mstop, mi, arrived>>

MAppendChild ==
    /\ MStep("create", "loop")
    /\ Started(mchild)
    /\ children' = IF Connected(mchild) THEN Append(children, mchild) ELSE children
    /\ MForget
    /\ UNCHANGED <<sockVars, svrVars, link, lwriter, mstop, mi, arrived>>

\* Mutant: the loop does not look at the link.
MLeaveLoopWhenStopped ==
    /\ mstop
    /\ MStep("loop", "stop")
    /\ UNCHANGED <<sockVars, svrVars, link, lwriter, mstop, mchild, mpkt, mi, children, arrived>>

\* The loop ends; _running = False.
MLeaveLoop ==
    /\ ~MServing
    /\ MStep("loop", "stop")
    /\ UNCHANGED <<sockVars, svrVars, link, lwriter, mstop, mchild, mpkt, mi, children, arrived>>

\* for ch in children: ch.stop(), without the lock.
MStopNext ==
    /\ mpc = "stop"
    /\ IF mi \in DOMAIN children
       THEN /\ mchild' = children[mi]
            /\ mi' = mi + 1
            /\ mpc' = IF Running(mchild') THEN "join" ELSE "stop"
            /\ sstop' = [sstop EXCEPT ![mchild'] = @ \/ Running(mchild')]
       ELSE /\ mpc' = "exited"
            /\ UNCHANGED <<mchild, mi, sstop>>
    /\ UNCHANGED <<sockVars, outq, spc, pair, ppc, depackVars, told>>
    /\ UNCHANGED <<link, lwriter, mstop, mpkt, children, arrived>>

MJoined ==
    /\ MStep("join", "stop")
    /\ spc[mchild] = "exited"
    /\ UNCHANGED <<sockVars, svrVars, link, lwriter, mstop, mchild, mpkt, mi, children, arrived>>

MThread ==
    \/ MGetRequest \/ MPutReply \/ MSend \/ MEnqueue \/ MAppendChild
    \/ MLeaveLoop \/ MStopNext \/ MJoined
    \/ \E p \in Pairs, disc \in BOOLEAN : MGetData(p, disc)
    \/ \E c \in Conns, p \in Pairs : MGetConnect(c, p)

-----------------------------------------------------------------------------
(* _my_exit_callback, run by a ServerConnection thread as its last call.      *)

SCallback(c) ==
    /\ SStep(c, "callback", IF MRunning THEN "remove" ELSE "exited")
    /\ UNCHANGED <<sockVars, outq, pair, sstop, ppc, depackVars, told, mVars>>

\* utils.safe_remove: a child that failed or died early is not in the list.
SRemove(c) ==
    /\ LockFree
    /\ SStep(c, "remove", "exited")
    /\ \/ \E i \in DOMAIN children :
            /\ children[i] = c
            /\ \A j \in 1 .. i - 1 : children[j] # c
            /\ children' = RemoveAt(children, i)
       \/ c \notin ToSet(children) /\ UNCHANGED children
    /\ UNCHANGED <<sockVars, outq, pair, sstop, ppc, depackVars, told>>
    /\ UNCHANGED <<link, lwriter, mstop, mpc, mchild, mpkt, mi, arrived>>

Connection(c) ==
    \/ (SThread(c) \/ ChildThreads(c)) /\ UNCHANGED mVars
    \/ SCallback(c)
    \/ SRemove(c)

-----------------------------------------------------------------------------
(* The outside world *)

\* The modem server's writer sends a packet.
LinkSend ==
    /\ lwriter
    /\ outq > 0
    /\ outq' = outq - 1
    /\ UNCHANGED <<sockVars, connVars, ppc, depackVars, told, mVars>>

\* The same writer dies over a packet that took ten seconds (SockHandler's
\* WriterCrash): the link stays up, and what is in outq stays there.
LinkWriterCrash ==
    /\ lwriter
    /\ outq > 0
    /\ outq' = outq - 1
    /\ lwriter' = FALSE
    /\ UNCHANGED <<sockVars, connVars, ppc, depackVars, told>>
    /\ UNCHANGED <<link, mstop, mpc, mchild, mpkt, mi, children, arrived>>

\* The link's handler stops, and its writer with it.
LinkLost ==
    /\ link
    /\ link' = FALSE
    /\ lwriter' = FALSE
    /\ UNCHANGED <<sockVars, svrVars, mstop, mpc, mchild, mpkt, mi, children, arrived>>

ParentStops ==
    /\ MRunning
    /\ ~mstop
    /\ mstop' = TRUE
    /\ UNCHANGED <<sockVars, svrVars, link, lwriter, mpc, mchild, mpkt, mi, children, arrived>>

Next ==
    \/ MThread
    \/ \E c \in Conns : Connection(c)
    \/ LinkSend \/ LinkWriterCrash \/ LinkLost \/ ParentStops

Spec == Init /\ [][Next]_vars

\* What the thread of the link owes outside its reply and its waiting.
MOwes == MSend \/ MEnqueue \/ MAppendChild \/ MLeaveLoop \/ MStopNext \/ MJoined

\* The thread of a socket handler.
SockThread(c) == SockExitCallback(c) \/ (HandlerWake(c) /\ UNCHANGED svrVars)

\* Every thread that can go on does.  The puts on outq and the lock have
\* several contenders: Python wakes waiters in turn, so one that can go on
\* again and again does (SF).  Packets from the modem server, data from the
\* local server and the end of a connection are never owed to anyone.
Fairness ==
    /\ SF_vars(MPutReply) /\ WF_vars(MOwes)
    /\ WF_vars(LinkSend)
    /\ \A c \in Conns :
        /\ WF_vars((SThread(c) /\ UNCHANGED mVars) \/ SCallback(c))
        /\ SF_vars((SRefuse(c) \/ SSendDisc(c)) /\ UNCHANGED mVars)
        /\ SF_vars(SRemove(c))
        /\ WF_vars(Packetize(c) /\ UNCHANGED mVars)
        /\ SF_vars(PacketizePut(c) /\ UNCHANGED mVars)
        /\ WF_vars(Depacketize(c) /\ UNCHANGED mVars)
        /\ WF_vars(SockThread(c) /\ UNCHANGED mVars)
        /\ WF_vars(ReaderMustStep(c) /\ UNCHANGED <<svrVars, mVars>>)
        /\ WF_vars(WriterMustStep(c) /\ UNCHANGED <<svrVars, mVars>>)

FairSpec == Spec /\ Fairness

-----------------------------------------------------------------------------
(* Properties *)

LinkTypeOK ==
    /\ link \in BOOLEAN
    /\ lwriter \in BOOLEAN
    /\ mstop \in BOOLEAN
    /\ mpc \in {"loop", "reply", "send", "enqueue", "create", "stop", "join",
                "exited", "crashed"}
    /\ mchild \in Conns \cup {NoConn}
    /\ mpkt \in Packets \cup {NoPkt}
    /\ mi \in Nat
    /\ children \in Seq(Conns)
    /\ arrived \in [Pairs -> 0 .. MaxPkts]

\* Every variable keeps its type; in particular no bounded queue holds more
\* than its capacity (Queue.Queue(100) of connect_to_server).
TypeOK == SockTypeOK /\ SvrTypeOK /\ LinkTypeOK

\* What a server is sent are packets of its own port pair in the order they
\* arrived, and none is missing between two that are: a packet reaches a socket
\* through the children search, Depacketize's queue and the write queue.
NoHoleInStream ==
    \A c \in Conns : \A i \in DOMAIN delivered[c] :
        /\ delivered[c][i] \in 1 .. arrived[pair[c]]
        /\ i > 1 => delivered[c][i] = delivered[c][i - 1] + 1

\* A connection that has gone told the other side with one DISCONNECT, or was
\* told by the other side (_stop_all_children and the refusal in run).
RemoteIsTold ==
    \A c \in Conns :
        /\ told[c] <= 1
        /\ spc[c] \in {"callback", "remove", "exited"} => told[c] = 1 \/ gotDisc[c]

\* When a ServerConnection thread has ended, its Packetize and Depacketize
\* threads have ended and its socket handler was told to end.
NoOrphanThreads ==
    \A c \in Conns : spc[c] = "exited" =>
        ppc[c] \in {"none", "done"} /\ dpc[c] \in {"none", "done"} /\ ~SockRunning(c)

\* A connected ServerConnection can be found by its ports from the moment the
\* CONNECT was handled until it takes itself off the list, and is listed once.
LiveIsListed ==
    /\ IsInjective(children)
    /\ \A c \in Conns :
         /\ Connected(c)
         /\ spc[c] \notin {"none", "connect", "exited"}
         /\ ~(mpc = "create" /\ mchild = c)
         => Contains(children, c)

-----------------------------------------------------------------------------
(* Liveness.  A blocking put, join or acquire can wait for something that     *)
(* never happens; these are the five ways.                                    *)

\* The writer of outq left the queue full: it ended with the link, or it died
\* of an item that took ten seconds, in which case the link stays up.
OutqJammed == outq = QCap /\ ~lwriter

\* Nobody takes chunks out of the full read queue any more.
ReaderJammed(c) == rpc[c] = "put" /\ rq[c] = SCap /\ ppc[c] = "done"

\* Nobody takes data out of the full write queue any more: the socket's writer
\* ended with the socket, or died and left the socket open.
DepacketizeJammed(c) == dpc[c] = "put" /\ Len(wq[c]) = SCap /\ wpc[c] # "send"

ConnectionJammed(c) ==
    \/ OutqJammed /\ (spc[c] \in {"refuse", "putDisc"} \/ ppc[c] = "put")
    \/ ReaderJammed(c) /\ spc[c] = "joinH"
    \/ DepacketizeJammed(c) /\ spc[c] = "joinD"
    \/ mpc = "crashed" /\ spc[c] = "remove"

\* A connection whose stop event is set (by its parent, by a child thread that
\* ended or by its socket handler) ends, unless it hangs in one of the ways above.
ConnectionEndsOrJams ==
    \A c \in Conns : []<>(sstop[c] => spc[c] = "exited" \/ ConnectionJammed(c))

\* The thread of the link always comes back to serve the link, or, once the link
\* is lost or the parent asks, it ends; unless its reply hangs on the full queue
\* (with a dead writer, while the link is up and nobody stops the thread), a
\* connection it joins hangs, or it has crashed.
LinkThreadEndsOrJams ==
    []<>(\/ mpc = "loop" /\ MServing
         \/ mpc \in {"exited", "crashed"}
         \/ mpc = "reply" /\ OutqJammed
         \/ mpc = "join" /\ ConnectionJammed(mchild))

-----------------------------------------------------------------------------
(* What the docstring says and the code does not do *)

\* "Directs packets from the modem server to the correct ServerConnection"
\* (class docstring): a packet is not thrown away while a listed connection for
\* its ports runs, has a working socket and was not told to stop.
DirectsToConnection ==
    [][(mpc = "send" /\ mpc' = "loop" /\ UNCHANGED dq) =>
          \A c \in ToSet(children) :
              pair[c] = pair[mchild] /\ Running(c) /\ SockRunning(c) => sstop[c]]_vars
=============================================================================
