--------------------------- MODULE ServerConnection ---------------------------
(* svr_proxy/svr_proxy.py and utils/proxy_utils.py: a ServerConnection joins  *)
(* one proxied port pair to a socket of a local server.  Its Depacketize      *)
(* thread feeds the packets that arrive for the pair to the socket, its       *)
(* Packetize thread turns what the server says into packets for the modem     *)
(* server, and the connection ends when one of the three ends.                *)
EXTENDS SockHandler, FiniteSets

CONSTANTS
    Pairs,      \* (server port, client port) pairs named in packets.
    QCap,       \* Capacity of the modem server's write queue (100 in the code).
    MaxPkts     \* Bound: data and DISCONNECT packets received for one pair.

ASSUME PairsAssumption ==
    QCap \in Nat \ {0} /\ MaxPkts \in Nat /\ Pairs # {}

VARIABLES
    outq,       \* Packets waiting in the modem server's write queue.
    spc,        \* Where the ServerConnection thread is.
    pair,       \* Port pair the connection was made for.
    sstop,      \* Its _stop_event.
    ppc,        \* Packetize: "none", "get", "put" (holds a chunk), "done".
    dpc,        \* Depacketize: "none", "get", "put" (holds Head(dq)), "done".
    dq,         \* Depacketize's unbounded queue of packets.
    gotDisc,    \* Depacketize's _got_disconnect_pkt.
    told        \* History: DISCONNECT packets put on outq.

connVars == <<spc, pair, sstop>>
depackVars == <<dpc, dq, gotDisc>>
svrVars == <<outq, connVars, ppc, depackVars, told>>

\* A packet: the number it arrived as among those for its pair, and its type.
Packets == [id : 1 .. MaxPkts, disc : BOOLEAN]

SvrInit ==
    /\ SockInit
    /\ outq = 0
    /\ spc = [c \in Conns |-> "none"]
    /\ pair = [c \in Conns |-> CHOOSE p \in Pairs : TRUE]
    /\ sstop = [c \in Conns |-> FALSE]
    /\ ppc = [c \in Conns |-> "none"]
    /\ dpc = [c \in Conns |-> "none"]
    /\ dq = [c \in Conns |-> <<>>]
    /\ gotDisc = [c \in Conns |-> FALSE]
    /\ told = [c \in Conns |-> 0]

\* The flags of the class, read off the thread's position.
Connected(c) == hpc[c] # "none"
Started(c) == spc[c] \notin {"none", "connect"}
Running(c) == spc[c] \in {"mkPack", "mkDepack", "wait", "refuse"}
HasDepack(c) == spc[c] \in {"wait", "disc", "putDisc", "joinD"}

\* Mutant: put_nowait on a queue without a limit.
OutqPutUnbounded == outq' = outq + 1

OutqPut == outq < QCap /\ outq' = outq + 1

\* One action per statement group moves the thread on.
SStep(c, from, to) == spc[c] = from /\ spc' = [spc EXCEPT ![c] = to]

-----------------------------------------------------------------------------
(* ServerConnection.run *)

\* connect_to_server returns a handler or None; _started is set.
SConnect(c) ==
    /\ SStep(c, "connect", "started")
    /\ \/ SockStart(c)
       \/ UNCHANGED sockVars
    /\ UNCHANGED <<outq, pair, sstop, ppc, depackVars, told>>

\* _running = True comes after _started = True.
SRun(c) ==
    /\ SStep(c, "started", IF Connected(c) THEN "mkPack" ELSE "refuse")
    /\ UNCHANGED <<sockVars, outq, pair, sstop, ppc, depackVars, told>>

SMakePacketize(c) ==
    /\ SStep(c, "mkPack", "mkDepack")
    /\ ppc' = [ppc EXCEPT ![c] = "get"]
    /\ UNCHANGED <<sockVars, outq, pair, sstop, depackVars, told>>

\* _depack_thread refers to the thread from here on.
SMakeDepacketize(c) ==
    /\ SStep(c, "mkDepack", "wait")
    /\ dpc' = [dpc EXCEPT ![c] = "get"]
    /\ UNCHANGED <<sockVars, outq, pair, sstop, ppc, dq, gotDisc, told>>

\* The server could not be reached: tell the client, then leave.
SRefuse(c) ==
    /\ SStep(c, "refuse", "callback")
    /\ OutqPut
    /\ told' = [told EXCEPT ![c] = @ + 1]
    /\ UNCHANGED <<sockVars, pair, sstop, ppc, depackVars>>

\* _stop_event.wait() returns; _running = False.
SWake(c) ==
    /\ SStep(c, "wait", "disc")
    /\ sstop[c]
    /\ UNCHANGED <<sockVars, outq, pair, sstop, ppc, depackVars, told>>

\* Mutant: the connection leaves without a word.
SCheckDiscNever(c) ==
    /\ SStep(c, "disc", "joinD")
    /\ UNCHANGED <<sockVars, outq, pair, sstop, ppc, depackVars, told>>

\* _stop_all_children: was a DISCONNECT received?
SCheckDisc(c) ==
    /\ SStep(c, "disc", IF gotDisc[c] THEN "joinD" ELSE "putDisc")
    /\ UNCHANGED <<sockVars, outq, pair, sstop, ppc, depackVars, told>>

SSendDisc(c) ==
    /\ SStep(c, "putDisc", "joinD")
    /\ OutqPut
    /\ told' = [told EXCEPT ![c] = @ + 1]
    /\ UNCHANGED <<sockVars, pair, sstop, ppc, depackVars>>

\* _depack_thread.stop() has joined; the reference is dropped.
SJoinDepacketize(c) ==
    /\ SStep(c, "joinD", "joinP")
    /\ dpc[c] = "done"
    /\ UNCHANGED <<sockVars, outq, pair, sstop, ppc, depackVars, told>>

\* Mutant: stop() without the join.
SJoinPacketizeNot(c) ==
    /\ SStep(c, "joinP", "stopH")
    /\ UNCHANGED <<sockVars, outq, pair, sstop, ppc, depackVars, told>>

SJoinPacketize(c) ==
    /\ SStep(c, "joinP", "stopH")
    /\ ppc[c] = "done"
    /\ UNCHANGED <<sockVars, outq, pair, sstop, ppc, depackVars, told>>

\* _sock_h.stop(): nothing to wait for if the handler is no longer running.
SStopSock(c) ==
    /\ SStep(c, "stopH", IF SockRunning(c) THEN "joinH" ELSE "callback")
    /\ hstop' = [hstop EXCEPT ![c] = @ \/ SockRunning(c)]
    /\ UNCHANGED <<hpc, readerVars, writerVars>>
    /\ UNCHANGED <<outq, pair, sstop, ppc, depackVars, told>>

SJoinSock(c) ==
    /\ SStep(c, "joinH", "callback")
    /\ hpc[c] = "done"
    /\ UNCHANGED <<sockVars, outq, pair, sstop, ppc, depackVars, told>>

SThread(c) ==
    \/ SConnect(c) \/ SRun(c) \/ SMakePacketize(c) \/ SMakeDepacketize(c)
    \/ SRefuse(c) \/ SWake(c) \/ SCheckDisc(c) \/ SSendDisc(c)
    \/ SJoinDepacketize(c) \/ SJoinPacketize(c) \/ SStopSock(c) \/ SJoinSock(c)

-----------------------------------------------------------------------------
(* Packetize.run: the loop ends on its stop event or a dead socket, whether   *)
(* or not chunks are still queued; the exit callback wakes the connection.    *)

PacketizeMayGet(c) == ppc[c] = "get" /\ SockRunning(c) /\ spc[c] # "joinP"

PacketizeGet(c) ==
    /\ PacketizeMayGet(c)
    /\ rq[c] > 0
    /\ rq' = [rq EXCEPT ![c] = @ - 1]
    /\ ppc' = [ppc EXCEPT ![c] = "put"]
    /\ UNCHANGED <<hpc, hstop, rpc, recvd, writerVars>>
    /\ UNCHANGED <<outq, connVars, depackVars, told>>

PacketizePut(c) ==
    /\ ppc[c] = "put"
    /\ OutqPut
    /\ ppc' = [ppc EXCEPT ![c] = "get"]
    /\ UNCHANGED <<sockVars, connVars, depackVars, told>>

PacketizeExit(c) ==
    /\ ppc[c] = "get"
    /\ ~PacketizeMayGet(c)
    /\ ppc' = [ppc EXCEPT ![c] = "done"]
    /\ sstop' = [sstop EXCEPT ![c] = TRUE]
    /\ UNCHANGED <<sockVars, outq, spc, pair, depackVars, told>>

-----------------------------------------------------------------------------
(* Depacketize.run; a packet it works on stays at the head of dq until the    *)
(* blocking put of its data returns.                                          *)

\* Mutant: the loop tests the socket only, never its stop event.
DepacketizeMayGetStopped(c) == dpc[c] = "get" /\ SockRunning(c)

DepacketizeMayGet(c) == dpc[c] = "get" /\ SockRunning(c) /\ spc[c] # "joinD"

DepacketizeGet(c) ==
    /\ DepacketizeMayGet(c)
    /\ dq[c] # <<>>
    /\ IF Head(dq[c]).disc
       THEN /\ gotDisc' = [gotDisc EXCEPT ![c] = TRUE]
            /\ dpc' = [dpc EXCEPT ![c] = "done"]
            /\ dq' = [dq EXCEPT ![c] = Tail(@)]
            /\ sstop' = [sstop EXCEPT ![c] = TRUE]
       ELSE /\ dpc' = [dpc EXCEPT ![c] = "put"]
            /\ UNCHANGED <<gotDisc, dq, sstop>>
    /\ UNCHANGED <<sockVars, outq, spc, pair, ppc, told>>

\* Mutant: the packet is put back for a retry after its data was queued.
DepacketizePutTwice(c) ==
    /\ dpc[c] = "put"
    /\ Len(wq[c]) < SCap
    /\ wq' = [wq EXCEPT ![c] = Append(@, Head(dq[c]).id)]
    /\ dpc' = [dpc EXCEPT ![c] = "get"]
    /\ UNCHANGED <<hpc, hstop, readerVars, wpc, delivered>>
    /\ UNCHANGED <<outq, connVars, ppc, dq, gotDisc, told>>

DepacketizePut(c) ==
    /\ dpc[c] = "put"
    /\ Len(wq[c]) < SCap
    /\ wq' = [wq EXCEPT ![c] = Append(@, Head(dq[c]).id)]
    /\ dq' = [dq EXCEPT ![c] = Tail(@)]
    /\ dpc' = [dpc EXCEPT ![c] = "get"]
    /\ UNCHANGED <<hpc, hstop, readerVars, wpc, delivered>>
    /\ UNCHANGED <<outq, connVars, ppc, gotDisc, told>>

DepacketizeExit(c) ==
    /\ dpc[c] = "get"
    /\ ~DepacketizeMayGet(c)
    /\ dpc' = [dpc EXCEPT ![c] = "done"]
    /\ sstop' = [sstop EXCEPT ![c] = TRUE]
    /\ UNCHANGED <<sockVars, outq, spc, pair, ppc, dq, gotDisc, told>>

-----------------------------------------------------------------------------
(* The socket handler's exit callback sets _stop_event. *)

SockExitCallback(c) ==
    /\ HandlerExit(c)
    /\ sstop' = [sstop EXCEPT ![c] = TRUE]
    /\ UNCHANGED <<outq, spc, pair, ppc, depackVars, told>>

Packetize(c) == PacketizeGet(c) \/ PacketizePut(c) \/ PacketizeExit(c)
Depacketize(c) == DepacketizeGet(c) \/ DepacketizePut(c) \/ DepacketizeExit(c)

ChildThreads(c) ==
    \/ Packetize(c)
    \/ Depacketize(c)
    \/ SockExitCallback(c)
    \/ SockThreads(c) /\ UNCHANGED svrVars

SvrTypeOK ==
    /\ outq \in 0 .. QCap
    /\ spc \in [Conns -> {"none", "connect", "started", "mkPack", "mkDepack", "wait",
                          "refuse", "disc", "putDisc", "joinD", "joinP", "stopH",
                          "joinH", "callback", "remove", "exited"}]
    /\ pair \in [Conns -> Pairs]
    /\ sstop \in [Conns -> BOOLEAN]
    /\ ppc \in [Conns -> {"none", "get", "put", "done"}]
    /\ dpc \in [Conns -> {"none", "get", "put", "done"}]
    /\ dq \in [Conns -> Seq(Packets)]
    /\ gotDisc \in [Conns -> BOOLEAN]
    /\ told \in [Conns -> Nat]
=============================================================================
