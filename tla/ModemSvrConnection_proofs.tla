---------------------- MODULE ModemSvrConnection_proofs ----------------------
(* Theorems about ModemSvrConnection, for every number of connections, port   *)
(* pairs and queue capacities.                                                *)
EXTENDS ModemSvrConnection, TLAPS

\* Where the thread of the link stands decides what its local variables hold.
LinkLocals ==
    /\ mpc \in {"send", "enqueue", "create", "join"} => mchild \in Conns
    /\ mpc \in {"send", "enqueue"} => mpkt \in Packets

Talking == {"mkPack", "mkDepack", "wait", "disc", "putDisc", "joinD", "joinP", "stopH", "joinH"}
Leaving == {"callback", "remove", "exited"}
Told == {"joinD", "joinP", "stopH", "joinH"} \cup Leaving

\* Where a ServerConnection stands bounds where the threads it made can be.
Lifecycle(c) ==
    /\ spc[c] \in {"none", "connect", "refuse"} => hpc[c] = "none"
    /\ spc[c] \in Talking => hpc[c] # "none"
    /\ spc[c] \in Leaving => hpc[c] # "up"
    /\ spc[c] \in {"none", "connect", "started", "mkPack", "refuse"} => ppc[c] = "none"
    /\ spc[c] \in {"none", "connect", "started", "mkPack", "mkDepack", "refuse"} => dpc[c] = "none"
    /\ spc[c] \in {"joinP", "stopH", "joinH"} \cup Leaving => dpc[c] \in {"none", "done"}
    /\ spc[c] \in {"stopH", "joinH"} \cup Leaving => ppc[c] \in {"none", "done"}
    /\ dpc[c] = "put" => dq[c] # <<>>
    /\ told[c] = 0 \/ (told[c] = 1 /\ spc[c] \in Told)
    /\ spc[c] \in Told => told[c] = 1 \/ gotDisc[c]

ConnInv == SockTypeOK /\ SvrTypeOK /\ \A c \in Conns : Lifecycle(c)
LinkInv == LinkTypeOK /\ LinkLocals

\* The inductive invariant.
IInv == ConnInv /\ LinkInv

USE SockAssumption, PairsAssumption, NoConnAssumption

-----------------------------------------------------------------------------
(* Initially *)

LEMMA InitConnInv == SvrInit => ConnInv
<1>1. SvrInit => SockTypeOK
  BY DEF SvrInit, SockInit, SockTypeOK
<1>2. SvrInit => SvrTypeOK
  BY DEF SvrInit, SockInit, SvrTypeOK
<1>3. SvrInit => \A c \in Conns : Lifecycle(c)
  BY DEF SvrInit, SockInit, Lifecycle, Talking, Leaving, Told
<1> QED
  BY <1>1, <1>2, <1>3 DEF ConnInv

LEMMA InitIInv == Init => IInv
<1> SUFFICES ASSUME Init PROVE IInv
  OBVIOUS
<1>1. mpkt \in Packets \cup {NoPkt}
  BY DEF Init
<1>2. children \in Seq(Conns) /\ arrived \in [Pairs -> 0 .. MaxPkts]
  BY DEF Init
<1>3. /\ link \in BOOLEAN /\ lwriter \in BOOLEAN /\ mstop \in BOOLEAN /\ mi \in Nat
      /\ mpc = "loop" /\ mchild \in Conns \cup {NoConn}
  BY DEF Init
<1>4. ConnInv
  BY InitConnInv DEF Init
<1> QED
  BY <1>1, <1>2, <1>3, <1>4 DEF LinkTypeOK, LinkLocals, IInv, LinkInv

-----------------------------------------------------------------------------
(* The ServerConnection thread *)

LEMMA SThreadInv ==
  ASSUME ConnInv, NEW c \in Conns, SThread(c)
  PROVE  ConnInv'
<1> USE DEF ConnInv, SockTypeOK, SvrTypeOK, Lifecycle, Talking, Leaving, Told, SStep,
            sockVars, readerVars, writerVars, depackVars
<1>1. CASE SConnect(c)
  <2>1. SockTypeOK'
    <3>1. CASE SockStart(c)
      BY <3>1 DEF SockStart
    <3>2. CASE UNCHANGED sockVars
      BY <3>2
    <3> QED
      BY <1>1, <3>1, <3>2 DEF SConnect
  <2>3. SvrTypeOK'
    BY <1>1 DEF SConnect
  <2>2. \A d \in Conns : Lifecycle(d)'
    BY <1>1 DEF SConnect, SockStart
  <2> QED
    BY <2>1, <2>2, <2>3
<1>2. CASE SRun(c)
  BY SMTT(30), <1>2 DEF SRun, Connected
<1>3. CASE SMakePacketize(c)
  BY SMTT(30), <1>3 DEF SMakePacketize
<1>4. CASE SMakeDepacketize(c)
  BY SMTT(30), <1>4 DEF SMakeDepacketize
<1>5. CASE SRefuse(c)
  BY SMTT(30), <1>5 DEF SRefuse, OutqPut
<1>6. CASE SWake(c)
  BY SMTT(30), <1>6 DEF SWake
<1>7. CASE SCheckDisc(c)
  BY SMTT(30), <1>7 DEF SCheckDisc
<1>8. CASE SSendDisc(c)
  BY SMTT(30), <1>8 DEF SSendDisc, OutqPut
<1>9. CASE SJoinDepacketize(c)
  BY SMTT(30), <1>9 DEF SJoinDepacketize
<1>10. CASE SJoinPacketize(c)
  BY SMTT(30), <1>10 DEF SJoinPacketize
<1>11. CASE SStopSock(c)
  BY SMTT(30), <1>11 DEF SStopSock, SockRunning
<1>12. CASE SJoinSock(c)
  BY SMTT(30), <1>12 DEF SJoinSock
<1> HIDE DEF ConnInv
<1> QED
  BY <1>1, <1>2, <1>3, <1>4, <1>5, <1>6, <1>7, <1>8, <1>9, <1>10, <1>11, <1>12 DEF SThread

-----------------------------------------------------------------------------
(* The threads a ServerConnection made *)

LEMMA PacketizeInv ==
  ASSUME ConnInv, NEW c \in Conns, Packetize(c)
  PROVE  ConnInv'
<1> USE DEF ConnInv, SockTypeOK, SvrTypeOK, Lifecycle, Talking, Leaving, Told,
            sockVars, readerVars, writerVars, depackVars, connVars
<1>1. CASE PacketizeGet(c)
  BY <1>1 DEF PacketizeGet, PacketizeMayGet, SockRunning
<1>2. CASE PacketizePut(c)
  BY <1>2 DEF PacketizePut, OutqPut
<1>3. CASE PacketizeExit(c)
  BY <1>3 DEF PacketizeExit
<1> HIDE DEF ConnInv
<1> QED
  BY <1>1, <1>2, <1>3 DEF Packetize

LEMMA HeadAndTail ==
  ASSUME NEW q \in Seq(Packets), q # <<>>
  PROVE  Head(q).id \in Nat /\ Tail(q) \in Seq(Packets)
<1>1. Head(q) \in Packets /\ Tail(q) \in Seq(Packets)
  OBVIOUS
<1> QED
  BY <1>1 DEF Packets

LEMMA DepacketizeInv ==
  ASSUME ConnInv, NEW c \in Conns, Depacketize(c)
  PROVE  ConnInv'
<1> USE DEF ConnInv, Lifecycle, Talking, Leaving, Told,
            sockVars, readerVars, writerVars, depackVars, connVars
<1>1. CASE DepacketizeGet(c)
  <2>1. dq[c] \in Seq(Packets) /\ dq[c] # <<>>
    BY <1>1 DEF DepacketizeGet, SvrTypeOK
  <2>2. Tail(dq[c]) \in Seq(Packets)
    BY <2>1, HeadAndTail
  <2>3. SockTypeOK'
    BY <1>1 DEF DepacketizeGet, SockTypeOK
  <2>4. CASE Head(dq[c]).disc
    <3>1. /\ dpc[c] = "get"
          /\ gotDisc' = [gotDisc EXCEPT ![c] = TRUE]
          /\ dpc' = [dpc EXCEPT ![c] = "done"]
          /\ dq' = [dq EXCEPT ![c] = Tail(@)]
          /\ sstop' = [sstop EXCEPT ![c] = TRUE]
          /\ UNCHANGED <<outq, spc, pair, ppc, told, hpc>>
      BY <1>1, <2>4 DEF DepacketizeGet, DepacketizeMayGet
    <3>2. SvrTypeOK'
      BY <2>2, <3>1 DEF SvrTypeOK
    <3>3. \A d \in Conns : Lifecycle(d)'
      BY <3>1 DEF SvrTypeOK
    <3> QED
      BY <2>3, <3>2, <3>3
  <2>5. CASE ~Head(dq[c]).disc
    <3>1. /\ dpc[c] = "get"
          /\ dpc' = [dpc EXCEPT ![c] = "put"]
          /\ UNCHANGED <<outq, spc, pair, ppc, told, hpc, gotDisc, dq, sstop>>
      BY <1>1, <2>5 DEF DepacketizeGet, DepacketizeMayGet
    <3>2. SvrTypeOK'
      BY <3>1 DEF SvrTypeOK
    <3>3. \A d \in Conns : Lifecycle(d)'
      BY <2>1, <3>1 DEF SvrTypeOK
    <3> QED
      BY <2>3, <3>2, <3>3
  <2> QED
    BY <2>4, <2>5
<1>2. CASE DepacketizePut(c)
  <2>1. dq[c] \in Seq(Packets) /\ dq[c] # <<>> /\ wq[c] \in Seq(Nat)
    <3>1. dq[c] \in Seq(Packets) /\ dq[c] # <<>>
      BY <1>2 DEF DepacketizePut, SvrTypeOK
    <3> QED
      BY <3>1 DEF SockTypeOK
  <2>2. Head(dq[c]).id \in Nat /\ Tail(dq[c]) \in Seq(Packets)
    BY <2>1, HeadAndTail
  <2>3. Append(wq[c], Head(dq[c]).id) \in Seq(Nat)
    BY <2>1, <2>2
  <2>4. SockTypeOK'
    BY <1>2, <2>3 DEF DepacketizePut, SockTypeOK
  <2>5. SvrTypeOK'
    BY <1>2, <2>2 DEF DepacketizePut, SvrTypeOK
  <2>6. \A d \in Conns : Lifecycle(d)'
    BY <1>2 DEF DepacketizePut, SvrTypeOK
  <2> QED
    BY <2>4, <2>5, <2>6
<1>3. CASE DepacketizeExit(c)
  BY SMTT(30), <1>3 DEF DepacketizeExit, SockTypeOK, SvrTypeOK
<1> HIDE DEF ConnInv
<1> QED
  BY <1>1, <1>2, <1>3 DEF Depacketize

LEMMA SockThreadsInv ==
  ASSUME ConnInv, NEW c \in Conns, SockThreads(c), UNCHANGED svrVars
  PROVE  ConnInv'
<1>1. SvrTypeOK'
  BY DEF ConnInv, SvrTypeOK, svrVars, connVars, depackVars
<1>2. \A d \in Conns : (hpc'[d] = "none") = (hpc[d] = "none") /\ (hpc'[d] = "up" => hpc[d] = "up")
  <2> USE DEF ConnInv, SockTypeOK
  <2>1. CASE HandlerWake(c)
    BY <2>1 DEF HandlerWake
  <2>2. CASE UNCHANGED hpc
    BY <2>2
  <2> QED
    BY <2>1, <2>2 DEF SockThreads, ReaderRecv, ReaderPut, ReaderExit, WriterSend, WriterFail, WriterCrash, WriterStop
<1>3. \A d \in Conns : Lifecycle(d)'
  BY <1>2 DEF ConnInv, Lifecycle, svrVars, connVars, depackVars
<1>4. SockTypeOK'
  <2> USE DEF ConnInv, SockTypeOK, readerVars, writerVars
  <2>1. CASE HandlerWake(c)
    BY <2>1 DEF HandlerWake
  <2>2. CASE ReaderRecv(c)
    BY <2>2 DEF ReaderRecv
  <2>3. CASE ReaderPut(c)
    BY <2>3 DEF ReaderPut
  <2>4. CASE ReaderExit(c)
    BY <2>4 DEF ReaderExit
  <2>5. CASE WriterSend(c)
    <3>1. wq[c] \in Seq(Nat) /\ delivered[c] \in Seq(Nat) /\ wq[c] # <<>>
      BY <2>5 DEF WriterSend
    <3>2. Tail(wq[c]) \in Seq(Nat) /\ Append(delivered[c], Head(wq[c])) \in Seq(Nat)
      BY <3>1
    <3> QED
      BY <2>5, <3>2 DEF WriterSend
  <2>6. CASE WriterFail(c)
    <3>1. wq[c] \in Seq(Nat) /\ wq[c] # <<>>
      BY <2>6 DEF WriterFail
    <3>2. Tail(wq[c]) \in Seq(Nat)
      BY <3>1
    <3> QED
      BY <2>6, <3>2 DEF WriterFail
  <2>7. CASE WriterStop(c)
    BY <2>7 DEF WriterStop
  <2>8. CASE WriterCrash(c)
    <3>1. wq[c] \in Seq(Nat) /\ delivered[c] \in Seq(Nat) /\ wq[c] # <<>>
      BY <2>8 DEF WriterCrash
    <3>2. Tail(wq[c]) \in Seq(Nat) /\ Append(delivered[c], Head(wq[c])) \in Seq(Nat)
      BY <3>1
    <3>3. wq' \in [Conns -> Seq(Nat)] /\ delivered' \in [Conns -> Seq(Nat)]
      <4> DEFINE rest == Tail(wq[c])
                 more == Append(delivered[c], Head(wq[c]))
      <4>1. wq' = [wq EXCEPT ![c] = rest]
        BY <2>8 DEF WriterCrash
      <4>2. delivered' = delivered \/ delivered' = [delivered EXCEPT ![c] = more]
        BY <2>8 DEF WriterCrash
      <4>3. rest \in Seq(Nat) /\ more \in Seq(Nat)
        BY <3>2
      <4> HIDE DEF rest, more
      <4>4. wq' \in [Conns -> Seq(Nat)]
        BY <4>1, <4>3
      <4>5. delivered' \in [Conns -> Seq(Nat)]
        BY <4>2, <4>3
      <4> QED
        BY <4>4, <4>5
    <3>4. wpc' = [wpc EXCEPT ![c] = "crashed"] /\ UNCHANGED <<hpc, hstop, readerVars>>
      BY <2>8 DEF WriterCrash
    <3> QED
      BY <3>3, <3>4
  <2> QED
    BY <2>1, <2>2, <2>3, <2>4, <2>5, <2>6, <2>7, <2>8 DEF SockThreads
<1> QED
  BY <1>1, <1>3, <1>4 DEF ConnInv

LEMMA ChildThreadsInv ==
  ASSUME ConnInv, NEW c \in Conns, ChildThreads(c)
  PROVE  ConnInv'
<1>1. CASE SockExitCallback(c)
  BY <1>1 DEF SockExitCallback, HandlerExit, ConnInv, SockTypeOK, SvrTypeOK, Lifecycle,
              readerVars, writerVars, depackVars
<1> QED
  BY <1>1, PacketizeInv, DepacketizeInv, SockThreadsInv DEF ChildThreads

-----------------------------------------------------------------------------
(* The thread of the link *)

LEMMA SvrUnchanged ==
  ASSUME ConnInv, UNCHANGED <<sockVars, svrVars>>
  PROVE  ConnInv'
BY DEF ConnInv, SockTypeOK, SvrTypeOK, Lifecycle, Talking, Leaving, Told,
       sockVars, readerVars, writerVars, svrVars, connVars, depackVars

\* Removing an entry leaves a list of the same kind.
LEMMA RemoveAtType ==
  ASSUME NEW S, NEW s \in Seq(S), NEW i \in DOMAIN s
  PROVE  RemoveAt(s, i) \in Seq(S)
<1>1. SubSeq(s, 1, i - 1) \in Seq(S) /\ SubSeq(s, i + 1, Len(s)) \in Seq(S)
  OBVIOUS
<1> QED
  BY <1>1 DEF RemoveAt

LEMMA MGetDataInv ==
  ASSUME IInv, NEW p \in Pairs, NEW disc \in BOOLEAN, MGetData(p, disc)
  PROVE  IInv'
<1>1. ConnInv'
  BY SvrUnchanged DEF MGetData, IInv
<1>2. arrived' \in [Pairs -> 0 .. MaxPkts] /\ arrived'[p] \in 1 .. MaxPkts
  BY DEF MGetData, IInv, LinkInv, LinkTypeOK
<1>3. [id |-> arrived'[p], disc |-> disc] \in Packets
  BY <1>2 DEF Packets
<1>4. CASE \E i \in MatchesPair(p) : mchild' = children[i] /\ mpc' = "send"
                                  /\ mpkt' = [id |-> arrived'[p], disc |-> disc]
  <2>1. mchild' \in Conns
    BY <1>4 DEF MatchesPair, IInv, LinkInv, LinkTypeOK
  <2> QED
    BY <1>1, <1>2, <1>3, <1>4, <2>1 DEF MGetData, IInv, LinkInv, LinkTypeOK, LinkLocals
<1>5. CASE UNCHANGED <<mpc, mchild, mpkt>>
  BY <1>1, <1>2, <1>5 DEF MGetData, IInv, LinkInv, LinkTypeOK, LinkLocals, MServing
<1> QED
  BY <1>4, <1>5 DEF MGetData

LEMMA MEnqueueInv ==
  ASSUME IInv, MEnqueue
  PROVE  IInv'
<1>1. mchild \in Conns /\ mpkt \in Packets /\ dq \in [Conns -> Seq(Packets)]
  BY DEF MEnqueue, MStep, IInv, LinkInv, LinkLocals, ConnInv, SvrTypeOK
<1>2. dq' \in [Conns -> Seq(Packets)] /\ \A c \in Conns : dq[c] # <<>> => dq'[c] # <<>>
  <2>1. Append(dq[mchild], mpkt) \in Seq(Packets) /\ Append(dq[mchild], mpkt) # <<>>
    BY <1>1
  <2> QED
    BY <1>1, <2>1 DEF MEnqueue
<1>3. ConnInv'
  <2>1. SockTypeOK'
    BY DEF MEnqueue, IInv, ConnInv, SockTypeOK, sockVars, readerVars, writerVars
  <2>2. SvrTypeOK'
    BY <1>2 DEF MEnqueue, IInv, ConnInv, SvrTypeOK, connVars
  <2>3. \A d \in Conns : Lifecycle(d)'
    BY <1>2 DEF MEnqueue, IInv, ConnInv, Lifecycle, connVars, sockVars
  <2> QED
    BY <2>1, <2>2, <2>3 DEF ConnInv
<1>4. LinkInv'
  BY DEF MEnqueue, MStep, MForget, IInv, LinkInv, LinkTypeOK, LinkLocals
<1> QED
  BY <1>3, <1>4 DEF IInv

LEMMA MGetConnectInv ==
  ASSUME IInv, NEW c \in Conns, NEW p \in Pairs, MGetConnect(c, p)
  PROVE  IInv'
<1> USE DEF MGetConnect, SStep
<1>1. SockTypeOK' /\ SvrTypeOK'
  BY DEF IInv, ConnInv, SockTypeOK, SvrTypeOK, sockVars, readerVars, writerVars, depackVars
<1>2. \A d \in Conns : Lifecycle(d)'
  BY DEF IInv, ConnInv, SvrTypeOK, Lifecycle, Talking, Leaving, Told, sockVars, depackVars
<1>3. LinkInv'
  BY DEF MStep, IInv, LinkInv, LinkTypeOK, LinkLocals
<1> QED
  BY <1>1, <1>2, <1>3 DEF IInv, ConnInv

LEMMA MStopNextInv ==
  ASSUME IInv, MStopNext
  PROVE  IInv'
<1>1. /\ \A d \in Conns : Lifecycle(d)'
      /\ SockTypeOK'
  BY DEF MStopNext, IInv, ConnInv, SockTypeOK, Lifecycle, sockVars, readerVars, writerVars, depackVars
<1>2. CASE mi \in DOMAIN children
  <2>1. mchild' \in Conns
    BY <1>2 DEF MStopNext, IInv, LinkInv, LinkTypeOK
  <2>2. SvrTypeOK'
    BY <1>2, <2>1 DEF MStopNext, IInv, ConnInv, SvrTypeOK, depackVars, Running
  <2>3. LinkInv'
    BY <1>2, <2>1 DEF MStopNext, IInv, LinkInv, LinkTypeOK, LinkLocals
  <2> QED
    BY <1>1, <2>2, <2>3 DEF IInv, ConnInv
<1>3. CASE mi \notin DOMAIN children
  <2>1. SvrTypeOK'
    BY <1>3 DEF MStopNext, IInv, ConnInv, SvrTypeOK, depackVars
  <2>2. LinkInv'
    BY <1>3 DEF MStopNext, IInv, LinkInv, LinkTypeOK, LinkLocals
  <2> QED
    BY <1>1, <2>1, <2>2 DEF IInv, ConnInv
<1> QED
  BY <1>2, <1>3

LEMMA MThreadInv ==
  ASSUME IInv, MThread
  PROVE  IInv'
<1> USE DEF MStep, LinkInv, LinkTypeOK, LinkLocals, MForget
<1>1. CASE MGetRequest
  BY <1>1, SvrUnchanged DEF MGetRequest, IInv
<1>2. CASE MPutReply
  <2>1. ConnInv'
    BY SMTT(30), <1>2 DEF MPutReply, OutqPut, IInv, ConnInv, SockTypeOK, SvrTypeOK, Lifecycle,
                sockVars, readerVars, writerVars, connVars, depackVars
  <2> QED
    BY <1>2, <2>1 DEF MPutReply, IInv
<1>3. CASE MSend
  BY <1>3, SvrUnchanged DEF MSend, IInv
<1>4. CASE MAppendChild
  <2>1. children' \in Seq(Conns)
    BY <1>4 DEF MAppendChild, IInv
  <2> QED
    BY <1>4, <2>1, SvrUnchanged DEF MAppendChild, IInv
<1>5. CASE MLeaveLoop
  BY <1>5, SvrUnchanged DEF MLeaveLoop, IInv
<1>6. CASE MJoined
  BY <1>6, SvrUnchanged DEF MJoined, IInv
<1> HIDE DEF MStep, LinkInv, LinkTypeOK, LinkLocals, MForget
<1> QED
  BY <1>1, <1>2, <1>3, <1>4, <1>5, <1>6, MGetDataInv, MEnqueueInv, MGetConnectInv, MStopNextInv
     DEF MThread

-----------------------------------------------------------------------------
(* Every step *)

LEMMA LinkUnchanged ==
  ASSUME LinkInv, UNCHANGED mVars
  PROVE  LinkInv'
BY DEF LinkInv, LinkTypeOK, LinkLocals, mVars

LEMMA ConnectionInv ==
  ASSUME IInv, NEW c \in Conns, Connection(c)
  PROVE  IInv'
<1>1. CASE (SThread(c) \/ ChildThreads(c)) /\ UNCHANGED mVars
  BY <1>1, SThreadInv, ChildThreadsInv, LinkUnchanged DEF IInv
<1>2. ASSUME NEW to \in Leaving, SStep(c, "callback", to) \/ SStep(c, "remove", to),
             UNCHANGED <<sockVars, outq, pair, sstop, ppc, depackVars, told>>
      PROVE  ConnInv'
  <2>1. SockTypeOK'
    BY <1>2 DEF IInv, ConnInv, SockTypeOK, sockVars, readerVars, writerVars
  <2>4. SvrTypeOK'
    <3>1. spc' = [spc EXCEPT ![c] = to]
      BY <1>2 DEF SStep
    <3> QED
      BY <1>2, <3>1 DEF IInv, ConnInv, SvrTypeOK, Leaving, depackVars
  <2>2. spc[c] \in Leaving /\ spc'[c] \in Leaving /\ \A d \in Conns \ {c} : spc'[d] = spc[d]
    BY <1>2 DEF SStep, Leaving, IInv, ConnInv, SvrTypeOK
  <2>3. \A d \in Conns : Lifecycle(d)'
    BY <1>2, <2>2 DEF IInv, ConnInv, Lifecycle, Talking, Leaving, Told, sockVars, depackVars
  <2> QED
    BY <2>1, <2>3, <2>4 DEF ConnInv
<1>3. CASE SCallback(c)
  BY <1>2, <1>3, LinkUnchanged DEF SCallback, IInv, Leaving
<1>4. CASE SRemove(c)
  <2>1. children' \in Seq(Conns)
    BY <1>4, RemoveAtType DEF SRemove, IInv, LinkInv, LinkTypeOK
  <2>2. LinkInv'
    BY <1>4, <2>1 DEF SRemove, IInv, LinkInv, LinkTypeOK, LinkLocals
  <2> QED
    BY <1>2, <1>4, <2>2 DEF SRemove, IInv, Leaving
<1> QED
  BY <1>1, <1>3, <1>4 DEF Connection

LEMMA NextIInv == IInv /\ [Next]_vars => IInv'
<1> SUFFICES ASSUME IInv, [Next]_vars PROVE IInv'
  OBVIOUS
<1>1. CASE LinkSend \/ LinkWriterCrash
  <2>1. lwriter' \in BOOLEAN /\ outq > 0 /\ outq' = outq - 1
        /\ UNCHANGED <<sockVars, connVars, ppc, depackVars, told>>
        /\ UNCHANGED <<link, mstop, mpc, mchild, mpkt, mi, children, arrived>>
    BY <1>1 DEF LinkSend, LinkWriterCrash, mVars, IInv, LinkInv, LinkTypeOK
  <2>2. ConnInv'
    BY <2>1 DEF IInv, ConnInv, SockTypeOK, SvrTypeOK, Lifecycle,
                sockVars, readerVars, writerVars, connVars, depackVars
  <2>3. LinkInv'
    BY <2>1 DEF IInv, LinkInv, LinkTypeOK, LinkLocals
  <2> QED
    BY <2>2, <2>3 DEF IInv
<1>2. CASE LinkLost
  BY <1>2, SvrUnchanged DEF LinkLost, IInv, LinkInv, LinkTypeOK, LinkLocals
<1>3. CASE ParentStops
  BY <1>3, SvrUnchanged DEF ParentStops, IInv, LinkInv, LinkTypeOK, LinkLocals
<1>4. CASE UNCHANGED vars
  BY <1>4, SvrUnchanged, LinkUnchanged DEF vars, IInv
<1> QED
  BY <1>1, <1>2, <1>3, <1>4, MThreadInv, ConnectionInv DEF Next

-----------------------------------------------------------------------------
(* Theorems *)

\* The inductive invariant holds in every reachable state.
THEOREM Inductive == Spec => []IInv
<1> QED
  BY InitIInv, NextIInv, PTL DEF Spec

\* Types are kept and no bounded queue outgrows its capacity.
THEOREM TypeCorrect == Spec => []TypeOK
<1>1. IInv => TypeOK
  BY DEF IInv, ConnInv, LinkInv, TypeOK
<1> QED
  BY <1>1, Inductive, PTL

\* Every connection that is over told the other side, once, or was told.
THEOREM RemoteToldOnce == Spec => []RemoteIsTold
<1>1. IInv => RemoteIsTold
  <2> SUFFICES ASSUME IInv, NEW c \in Conns
               PROVE  /\ told[c] <= 1
                      /\ spc[c] \in {"callback", "remove", "exited"} => told[c] = 1 \/ gotDisc[c]
    BY DEF RemoteIsTold
  <2>1. Lifecycle(c)
    BY DEF IInv, ConnInv
  <2>2. told[c] \in {0, 1}
    BY <2>1 DEF Lifecycle
  <2>3. spc[c] \in Leaving => spc[c] \in Told
    BY DEF Told
  <2> QED
    BY <2>1, <2>2, <2>3 DEF Lifecycle, Leaving
<1> QED
  BY <1>1, Inductive, PTL

\* A ServerConnection thread outlives the threads it made and its handler.
THEOREM NoOrphans == Spec => []NoOrphanThreads
<1>1. IInv => NoOrphanThreads
  <2> SUFFICES ASSUME IInv, NEW c \in Conns, spc[c] = "exited"
               PROVE  ppc[c] \in {"none", "done"} /\ dpc[c] \in {"none", "done"} /\ ~SockRunning(c)
    BY DEF NoOrphanThreads
  <2>1. Lifecycle(c)
    BY DEF IInv, ConnInv
  <2> QED
    BY <2>1 DEF Lifecycle, Leaving, SockRunning
<1> QED
  BY <1>1, Inductive, PTL
=============================================================================
