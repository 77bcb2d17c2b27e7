------------------ MODULE ModemSvrConnectionStream_proofs ------------------
(* Theorems about ModemSvrConnection that relate its list of children and     *)
(* the packets on their way: a connection can be found as long as it lives,   *)
(* and what reaches a server has no hole.                                     *)
EXTENDS ModemSvrConnection_proofs

\* Every listed child has been started, none is listed twice, and only the one
\* that the thread is creating may be missing.
Kids == ToSet(children)
ListInv ==
    /\ IsInjective(children)
    /\ \A c \in Kids : spc[c] \notin {"none", "connect"}
    /\ mpc = "create" => mchild \notin Kids /\ spc[mchild] # "none"
    /\ \A c \in Conns : spc[c] = "connect" => mpc = "create" /\ mchild = c
    /\ \A c \in Conns :
         /\ Connected(c)
         /\ spc[c] \notin {"none", "connect", "exited"}
         /\ ~(mpc = "create" /\ mchild = c)
         => c \in Kids

\* Depacketize runs.
Active(c) == dpc[c] \in {"get", "put"}
Handing == {"send", "enqueue"}

\* The last packet that c was given, if it is given those of its pair.
Top(c) == IF mpc \in Handing /\ mchild = c THEN arrived[pair[c]] - 1 ELSE arrived[pair[c]]

\* The search for the packets of its pair finds c.
First(c) == \E i \in DOMAIN children : /\ children[i] = c
                                       /\ \A j \in 1..(i - 1) : pair[children[j]] # pair[c]

Unused(c) == dq[c] = <<>> /\ wq[c] = <<>> /\ delivered[c] = <<>>

\* Consecutive numbers, up to n.
UpTo(s, n) == \A i \in 1..Len(s) : s[i] = (n - Len(s)) + i

\* As long as Depacketize runs, the queues end with the last packet given; what is
\* delivered joins on as long as the writer of the socket runs.
InStep(c) ==
    LET d == Len(dq[c]) w == Len(wq[c])
    IN  /\ \A i \in 1..d : dq[c][i].id = (Top(c) - d) + i
        /\ UpTo(wq[c], Top(c) - d)
        /\ wpc[c] = "send" => UpTo(delivered[c], (Top(c) - d) - w)

\* Consecutive numbers, of packets that have arrived.
Row(s, last) == \A i \in 1..Len(s) : s[i] \in 1..last /\ s[i] = (s[1] + i) - 1

\* The write queue has no hole, and joins on to what is delivered.
Joined(c) ==
    LET w == Len(wq[c]) s == Len(delivered[c])
    IN  /\ Row(wq[c], arrived[pair[c]])
        /\ Row(delivered[c], arrived[pair[c]])
        /\ wpc[c] = "send" /\ s > 0 /\ w > 0 => wq[c][1] = delivered[c][s] + 1

Early == {"none", "connect", "started", "mkPack", "mkDepack", "refuse"}
OfConn(c) ==
    /\ Joined(c)
    /\ Active(c) => InStep(c) /\ (Unused(c) \/ First(c))
    /\ spc[c] \in Early => Unused(c)
HandInv == mpc \in Handing => First(mchild) /\ mpkt.id = arrived[pair[mchild]]
StreamInv == (\A c \in Conns : OfConn(c)) /\ HandInv

USE SockAssumption, PairsAssumption, NoConnAssumption

-----------------------------------------------------------------------------
(* What the types say of one connection *)

LEMMA QueueTypes ==
  ASSUME IInv, NEW c \in Conns
  PROVE  /\ wq[c] \in Seq(Nat) /\ delivered[c] \in Seq(Nat) /\ dq[c] \in Seq(Packets)
         /\ pair[c] \in Pairs /\ arrived[pair[c]] \in Nat /\ Top(c) \in Int
<1>1. pair[c] \in Pairs /\ arrived \in [Pairs -> 0..MaxPkts]
  BY DEF IInv, ConnInv, LinkInv, SvrTypeOK, LinkTypeOK
<1>2. arrived[pair[c]] \in Nat
  BY <1>1
<1>3. Top(c) \in Int
  BY <1>2 DEF Top
<1> QED
  BY <1>1, <1>2, <1>3 DEF IInv, ConnInv, SockTypeOK, SvrTypeOK

\* Depacketize runs only while the connection refers to it.
LEMMA ActiveHasDepack ==
  ASSUME IInv, NEW c \in Conns, Active(c)
  PROVE  HasDepack(c)
<1>1. Lifecycle(c) /\ dpc[c] \in {"get", "put"}
  BY DEF IInv, ConnInv, Active
<1> QED
  BY <1>1 DEF IInv, ConnInv, SvrTypeOK, Lifecycle, Leaving, HasDepack

LEMMA ActiveNotEarly ==
  ASSUME IInv, NEW c \in Conns, Active(c)
  PROVE  spc[c] \notin Early
BY ActiveHasDepack DEF HasDepack, Early

\* The packets of an unused connection are in step whatever the thread does.
LEMMA UnusedOf ==
  ASSUME NEW c \in Conns, Unused(c)'
  PROVE  OfConn(c)'
BY DEF Unused, OfConn, Joined, InStep, UpTo, Row

\* Nothing is put, sent or started at c.
Still(c) ==
    /\ wq'[c] = wq[c] /\ delivered'[c] = delivered[c] /\ dq'[c] = dq[c] /\ pair'[c] = pair[c]
    /\ wpc'[c] = "send" => wpc[c] = "send"
    /\ Active(c)' => Active(c)
    /\ spc'[c] \in Early => spc[c] \in Early

LEMMA StillOf ==
  ASSUME IInv, NEW c \in Conns, OfConn(c), Still(c),
         arrived'[pair[c]] \in Nat, arrived[pair[c]] <= arrived'[pair[c]],
         Active(c) /\ ~Unused(c) => Top(c)' = Top(c) /\ First(c)'
  PROVE  OfConn(c)'
<1>1. CASE Unused(c)
  BY <1>1, UnusedOf DEF Still, Unused
<1>2. CASE ~Unused(c)
  <2>1. /\ wq[c] \in Seq(Nat) /\ delivered[c] \in Seq(Nat) /\ dq[c] \in Seq(Packets)
        /\ arrived[pair[c]] \in Nat
    BY QueueTypes
  <2>2. Joined(c)'
    <3>1. \A n \in Nat : n \in 1..arrived[pair[c]] => n \in 1..arrived'[pair[c]]
      BY <2>1
    <3>2. /\ \A i \in 1..Len(wq[c]) : wq[c][i] \in Nat
          /\ \A i \in 1..Len(delivered[c]) : delivered[c][i] \in Nat
      BY <2>1
    <3> QED
      BY <3>1, <3>2 DEF OfConn, Joined, Row, Still
  <2>3. Active(c)' => InStep(c)' /\ First(c)'
    BY <1>2 DEF OfConn, InStep, Still
  <2>4. spc'[c] \notin Early
    BY <1>2 DEF OfConn, Still
  <2> QED
    BY <2>2, <2>3, <2>4 DEF OfConn
<1> QED
  BY <1>1, <1>2

-----------------------------------------------------------------------------
(* Steps that leave the list and the hand of the thread alone *)

Busy == {"create", "send", "enqueue"}
LinkStill ==
    /\ UNCHANGED <<children, arrived>>
    /\ UNCHANGED <<mpc, mchild, mpkt>> \/ (mpc \notin Busy /\ mpc' \notin Busy)

\* The thread of d goes on, from neither its first places nor its last.
Forward(d) ==
    /\ Connected(d)' => Connected(d)
    /\ spc'[d] = spc[d] \/ (spc[d] \notin {"none", "connect", "exited"} /\ spc'[d] \notin {"none", "connect"})

LEMMA ListStill ==
  ASSUME IInv, ListInv, LinkStill, \A d \in Conns : Forward(d)
  PROVE  ListInv'
<1>1. Kids' = Kids /\ children' = children /\ Kids \subseteq Conns
  BY DEF LinkStill, Kids, ToSet, IInv, LinkInv, LinkTypeOK
<1>2. \A d \in Kids : spc'[d] \notin {"none", "connect"}
  BY <1>1 DEF ListInv, Forward
<1>3. (mpc' = "create") = (mpc = "create") /\ (mpc = "create" => mchild' = mchild /\ mchild \in Conns)
  BY DEF LinkStill, Busy, IInv, LinkInv, LinkLocals
<1>4. mpc' = "create" => mchild' \notin Kids /\ spc'[mchild'] # "none"
  BY <1>3 DEF ListInv, Forward
<1>5. \A d \in Conns : spc'[d] = "connect" => mpc' = "create" /\ mchild' = d
  BY <1>3 DEF ListInv, Forward
<1>6. \A d \in Conns : /\ Connected(d)' /\ spc'[d] \notin {"none", "connect", "exited"}
                       /\ ~(mpc' = "create" /\ mchild' = d)
                       => d \in Kids
  BY <1>3 DEF ListInv, Forward
<1> QED
  BY <1>1, <1>2, <1>4, <1>5, <1>6 DEF ListInv

LEMMA HandStill ==
  ASSUME HandInv, LinkStill, UNCHANGED pair
  PROVE  /\ HandInv'
         /\ \A c : Top(c)' = Top(c) /\ (First(c)' <=> First(c))
<1>1. \A c : First(c)' <=> First(c)
  BY DEF First, LinkStill
<1>2. \A c : Top(c)' = Top(c)
  BY DEF Top, LinkStill, Busy, Handing
<1>3. HandInv'
  <2>1. mpc' \in Handing => UNCHANGED <<mpc, mchild, mpkt, arrived>>
    BY DEF LinkStill, Busy, Handing
  <2> QED
    BY <1>1, <2>1 DEF HandInv
<1> QED
  BY <1>1, <1>2, <1>3

LEMMA StreamStill ==
  ASSUME IInv, StreamInv, LinkStill, UNCHANGED pair, \A c \in Conns : Still(c) \/ OfConn(c)'
  PROVE  StreamInv'
<1>1. HandInv' /\ \A c \in Conns : Top(c)' = Top(c) /\ (First(c)' <=> First(c))
  BY HandStill DEF StreamInv
<1>2. ASSUME NEW c \in Conns, Still(c) PROVE OfConn(c)'
  <2>1. arrived[pair[c]] \in Nat /\ arrived' = arrived
    BY QueueTypes DEF LinkStill
  <2>2. OfConn(c)
    BY DEF StreamInv
  <2>3. Active(c) /\ ~Unused(c) => First(c)'
    BY <1>1, <2>2 DEF OfConn
  <2> QED
    BY <1>1, <1>2, <2>1, <2>2, <2>3, StillOf
<1> QED
  BY <1>1, <1>2 DEF StreamInv

-----------------------------------------------------------------------------
(* The ServerConnection thread *)

LEMMA ThreadGoesOn ==
  ASSUME IInv, NEW c \in Conns,
         spc[c] \notin {"none", "connect", "exited"},
         spc' = [spc EXCEPT ![c] = spc'[c]], spc'[c] \notin {"none", "connect"},
         spc'[c] \in Early => spc[c] \in Early,
         UNCHANGED <<hpc, wpc, wq, delivered, pair, dpc, dq>>
  PROVE  \A d \in Conns : Forward(d) /\ Still(d)
BY DEF Forward, Still, Connected, Active, IInv, ConnInv, SvrTypeOK

LEMMA SThreadStreams ==
  ASSUME IInv, ListInv, StreamInv, NEW c \in Conns, SThread(c), UNCHANGED mVars
  PROVE  ListInv' /\ StreamInv'
<1>1. LinkStill
  BY DEF LinkStill, mVars
<1>2. spc = [d \in Conns |-> spc[d]] /\ UNCHANGED pair
  <2>1. spc = [d \in Conns |-> spc[d]]
    BY DEF IInv, ConnInv, SvrTypeOK
  <2>2. UNCHANGED pair
    BY DEF SThread, SConnect, SRun, SMakePacketize, SMakeDepacketize, SRefuse, SWake, SCheckDisc,
       SSendDisc, SJoinDepacketize, SJoinPacketize, SStopSock, SJoinSock
  <2> QED
    BY <2>1, <2>2
<1>3. CASE SConnect(c)
  <2>1. spc[c] = "connect" /\ spc' = [spc EXCEPT ![c] = "started"] /\ UNCHANGED <<dpc, dq, wq, delivered>>
    BY <1>3 DEF SConnect, SStep, SockStart, depackVars, sockVars, writerVars
  <2>2. mpc = "create" /\ mchild = c /\ Unused(c) /\ c \notin Kids
    BY <2>1 DEF ListInv, StreamInv, OfConn, Early
  <2>3. \A d \in Conns \ {c} : Still(d) /\ spc'[d] = spc[d] /\ hpc'[d] = hpc[d]
    <3>1. wpc \in [Conns -> {"send", "done", "crashed"}] /\ hpc \in [Conns -> {"none", "up", "joining", "done"}]
      BY DEF IInv, ConnInv, SockTypeOK
    <3>2. (hpc' = [hpc EXCEPT ![c] = "up"] /\ wpc' = [wpc EXCEPT ![c] = "send"]) \/ UNCHANGED <<hpc, wpc>>
      BY <1>3 DEF SConnect, SockStart, sockVars, writerVars
    <3> QED
      BY <1>2, <2>1, <3>1, <3>2 DEF Still, Active
  <2>4. OfConn(c)'
    BY <2>1, <2>2, UnusedOf DEF Unused
  <2>5. StreamInv'
    BY <1>1, <1>2, <2>3, <2>4, StreamStill
  <2>6. ListInv'
    <3>1. UNCHANGED <<mpc, mchild, children>> /\ Kids' = Kids /\ Kids \subseteq Conns
      BY DEF mVars, Kids, ToSet, IInv, LinkInv, LinkTypeOK
    <3>2. spc'[c] = "started"
      BY <1>2, <2>1
    <3>3. \A d \in Kids : spc'[d] \notin {"none", "connect"}
      BY <2>2, <2>3, <3>1 DEF ListInv
    <3>4. \A d \in Conns : spc'[d] # "connect"
      BY <2>2, <2>3, <3>2 DEF ListInv
    <3>5. \A d \in Conns : /\ Connected(d)' /\ spc'[d] \notin {"none", "connect", "exited"}
                           /\ ~(mpc' = "create" /\ mchild' = d)
                           => d \in Kids
      BY <2>2, <2>3, <3>1 DEF ListInv, Connected
    <3> QED
      BY <2>2, <3>1, <3>2, <3>3, <3>4, <3>5 DEF ListInv
  <2> QED
    BY <2>5, <2>6
<1>4. CASE SMakeDepacketize(c)
  <2>1. spc[c] = "mkDepack" /\ spc' = [spc EXCEPT ![c] = "wait"] /\ dpc' = [dpc EXCEPT ![c] = "get"]
        /\ UNCHANGED <<hpc, wpc, dq, wq, delivered>>
    BY <1>4 DEF SMakeDepacketize, SStep, sockVars, writerVars
  <2>2. OfConn(c)'
    <3>1. Unused(c)
      BY <2>1 DEF StreamInv, OfConn, Early
    <3> QED
      BY <2>1, <3>1, UnusedOf DEF Unused
  <2>3. \A d \in Conns \ {c} : Still(d)
    BY <1>2, <2>1 DEF Still, Active, IInv, ConnInv, SvrTypeOK
  <2>4. \A d \in Conns : Forward(d)
    BY <1>2, <2>1 DEF Forward, Connected
  <2> QED
    BY <1>1, <1>2, <2>2, <2>3, <2>4, ListStill, StreamStill
<1>5. CASE ~SConnect(c) /\ ~SMakeDepacketize(c)
  <2>1. UNCHANGED <<hpc, wpc, wq, delivered, dpc, dq>>
    BY <1>5 DEF SThread, SRun, SMakePacketize, SRefuse, SWake, SCheckDisc, SSendDisc,
       SJoinDepacketize, SJoinPacketize, SStopSock, SJoinSock, sockVars, writerVars, depackVars
  <2>2. PICK from \in {"started", "mkPack", "refuse", "wait", "disc", "putDisc", "joinD", "joinP", "stopH", "joinH"},
             to \in {"mkPack", "refuse", "mkDepack", "callback", "disc", "joinD", "putDisc", "joinP", "stopH", "joinH"} :
          SStep(c, from, to) /\ (to \in Early => from \in Early)
    <3> USE DEF Early
    <3>1. CASE SRun(c)
      BY <3>1 DEF SRun
    <3>2. CASE SMakePacketize(c)
      BY <3>2 DEF SMakePacketize
    <3>3. CASE SRefuse(c)
      BY <3>3 DEF SRefuse
    <3>4. CASE SWake(c)
      BY <3>4 DEF SWake
    <3>5. CASE SCheckDisc(c)
      BY <3>5 DEF SCheckDisc
    <3>6. CASE SSendDisc(c)
      BY <3>6 DEF SSendDisc
    <3>7. CASE SJoinDepacketize(c)
      BY <3>7 DEF SJoinDepacketize
    <3>8. CASE SJoinPacketize(c)
      BY <3>8 DEF SJoinPacketize
    <3>9. CASE SStopSock(c)
      BY <3>9 DEF SStopSock
    <3>10. CASE SJoinSock(c)
      BY <3>10 DEF SJoinSock
    <3> QED
      BY <1>5, <3>1, <3>2, <3>3, <3>4, <3>5, <3>6, <3>7, <3>8, <3>9, <3>10 DEF SThread
  <2>3. spc[c] = from /\ spc' = [spc EXCEPT ![c] = to] /\ spc'[c] = to
    BY <1>2, <2>2 DEF SStep
  <2>4. \A d \in Conns : Forward(d) /\ Still(d)
    BY <1>2, <2>1, <2>2, <2>3, ThreadGoesOn
  <2> QED
    BY <1>1, <1>2, <2>4, ListStill, StreamStill
<1> QED
  BY <1>3, <1>4, <1>5

-----------------------------------------------------------------------------
(* Queues *)

LEMMA TailFacts ==
  ASSUME NEW S, NEW s \in Seq(S), s # <<>>
  PROVE  /\ Len(s) \in Nat \ {0} /\ Head(s) = s[1] /\ Tail(s) \in Seq(S) /\ Len(Tail(s)) = Len(s) - 1
         /\ \A i \in 1..(Len(s) - 1) : Tail(s)[i] = s[i + 1]
OBVIOUS

LEMMA AppendFacts ==
  ASSUME NEW S, NEW s \in Seq(S), NEW e \in S
  PROVE  /\ Len(s) \in Nat /\ Append(s, e) \in Seq(S) /\ Len(Append(s, e)) = Len(s) + 1
         /\ Append(s, e)[Len(s) + 1] = e
         /\ \A i \in 1..Len(s) : Append(s, e)[i] = s[i]
OBVIOUS

LEMMA UpToTail ==
  ASSUME NEW s \in Seq(Nat), s # <<>>, NEW n \in Int, UpTo(s, n)
  PROVE  UpTo(Tail(s), n) /\ Head(s) = (n - Len(s)) + 1
<1>1. /\ Len(s) \in Nat \ {0} /\ Head(s) = s[1] /\ Len(Tail(s)) = Len(s) - 1
      /\ \A i \in 1..(Len(s) - 1) : Tail(s)[i] = s[i + 1]
  BY TailFacts
<1>2. ASSUME NEW i \in 1..(Len(s) - 1) PROVE Tail(s)[i] = (n - (Len(s) - 1)) + i
  <2>1. i + 1 \in 1..Len(s)
    BY <1>1
  <2> QED
    BY <1>1, <2>1 DEF UpTo
<1> QED
  BY <1>1, <1>2 DEF UpTo

LEMMA UpToEnds ==
  ASSUME NEW s \in Seq(Nat), NEW n \in Int, UpTo(s, n), Len(s) > 0
  PROVE  s[Len(s)] = n /\ s[1] = (n - Len(s)) + 1
<1>1. Len(s) \in Nat /\ Len(s) \in 1..Len(s) /\ 1 \in 1..Len(s)
  OBVIOUS
<1>2. s[Len(s)] = (n - Len(s)) + Len(s)
  BY <1>1 DEF UpTo
<1>3. (n - Len(s)) + Len(s) = n
  BY <1>1
<1> QED
  BY <1>1, <1>2, <1>3 DEF UpTo

LEMMA UpToAppend ==
  ASSUME NEW s \in Seq(Nat), NEW n \in Int, NEW e \in Nat, UpTo(s, n), e = n + 1
  PROVE  UpTo(Append(s, e), e)
<1>1. /\ Len(s) \in Nat /\ Len(Append(s, e)) = Len(s) + 1 /\ Append(s, e)[Len(s) + 1] = e
      /\ \A i \in 1..Len(s) : Append(s, e)[i] = s[i]
  BY AppendFacts
<1>2. ASSUME NEW i \in 1..(Len(s) + 1) PROVE Append(s, e)[i] = (e - (Len(s) + 1)) + i
  <2>1. CASE i \in 1..Len(s)
    BY <1>1, <2>1 DEF UpTo
  <2>2. CASE i = Len(s) + 1
    BY <1>1, <2>2
  <2> QED
    BY <1>1, <2>1, <2>2
<1> QED
  BY <1>1, <1>2 DEF UpTo

LEMMA RowTail ==
  ASSUME NEW s \in Seq(Nat), s # <<>>, NEW n \in Nat, Row(s, n)
  PROVE  Row(Tail(s), n) /\ (Len(s) > 1 => Tail(s)[1] = s[1] + 1)
<1> DEFINE t == Tail(s)
<1>1. /\ Len(s) \in Nat \ {0} /\ Len(t) = Len(s) - 1
      /\ \A i \in 1..(Len(s) - 1) : t[i] = s[i + 1]
  BY TailFacts
<1>2. s[1] \in Nat
  BY <1>1
<1> HIDE DEF t
<1>3. ASSUME NEW i \in 1..(Len(s) - 1)
      PROVE  t[i] \in 1..n /\ t[i] = s[1] + i
  <2>1. i + 1 \in 1..Len(s) /\ i \in Nat
    BY <1>1
  <2>2. s[i + 1] \in 1..n /\ s[i + 1] = (s[1] + (i + 1)) - 1
    BY <2>1 DEF Row
  <2>3. t[i] = s[i + 1]
    BY <1>1
  <2>4. (s[1] + (i + 1)) - 1 = s[1] + i
    BY SMTT(30), <1>2, <2>1
  <2> QED
    BY <2>2, <2>3, <2>4
<1>4. Len(s) > 1 => t[1] = s[1] + 1
  <2>1. Len(s) > 1 => 1 \in 1..(Len(s) - 1)
    BY <1>1
  <2> QED
    BY <1>3, <2>1
<1>5. \A i \in 1..Len(t) : t[i] \in 1..n /\ t[i] = (t[1] + i) - 1
  <2> SUFFICES ASSUME NEW i \in 1..(Len(s) - 1) PROVE t[i] \in 1..n /\ t[i] = (t[1] + i) - 1
    BY <1>1
  <2>1. Len(s) > 1 /\ i \in Nat
    BY <1>1
  <2>2. t[1] = s[1] + 1
    BY <1>4, <2>1
  <2>3. \A a \in Nat : ((a + 1) + i) - 1 = a + i
    BY <2>1
  <2>4. (t[1] + i) - 1 = s[1] + i
    BY <1>2, <2>2, <2>3
  <2> QED
    BY <1>3, <2>4
<1>6. Row(t, n)
  BY <1>5 DEF Row
<1> QED
  BY <1>4, <1>6 DEF t

LEMMA RowAppend ==
  ASSUME NEW s \in Seq(Nat), NEW n \in Nat, NEW e \in 1..n, Row(s, n),
         Len(s) > 0 => e = s[Len(s)] + 1
  PROVE  Row(Append(s, e), n)
<1>1. /\ Len(s) \in Nat /\ Len(Append(s, e)) = Len(s) + 1 /\ Append(s, e)[Len(s) + 1] = e
      /\ \A i \in 1..Len(s) : Append(s, e)[i] = s[i]
  BY AppendFacts
<1>2. CASE Len(s) = 0
  BY <1>1, <1>2 DEF Row
<1>3. CASE Len(s) > 0
  <2>1. 1 \in 1..Len(s) /\ Len(s) \in 1..Len(s) /\ s[1] \in Nat
    BY <1>1, <1>3
  <2>2. s[Len(s)] = (s[1] + Len(s)) - 1 /\ Append(s, e)[1] = s[1]
    BY <1>1, <2>1 DEF Row
  <2>3. e = (s[1] + (Len(s) + 1)) - 1
    BY SMTT(30), <1>1, <1>3, <2>1, <2>2
  <2>4. ASSUME NEW i \in 1..(Len(s) + 1)
        PROVE  Append(s, e)[i] \in 1..n /\ Append(s, e)[i] = (s[1] + i) - 1
    <3>1. CASE i \in 1..Len(s)
      BY <1>1, <3>1 DEF Row
    <3>2. CASE i = Len(s) + 1
      BY <1>1, <2>3, <3>2
    <3> QED
      BY <1>1, <3>1, <3>2
  <2> QED
    BY <1>1, <2>2, <2>4 DEF Row
<1> QED
  BY <1>1, <1>2, <1>3

-----------------------------------------------------------------------------
(* The threads a ServerConnection made *)

\* spc is unchanged, and no connection appears.
SpcStays == UNCHANGED <<spc, pair>> /\ \A d \in Conns : Connected(d)' => Connected(d)

LEMMA SpcStaysForward ==
  ASSUME SpcStays
  PROVE  \A d \in Conns : Forward(d)
BY DEF SpcStays, Forward

LEMMA NoConnectionAppears ==
  ASSUME IInv, NEW c \in Conns, UNCHANGED <<spc, pair>>,
         UNCHANGED hpc \/ HandlerWake(c) \/ HandlerExit(c)
  PROVE  SpcStays
BY DEF SpcStays, Connected, HandlerWake, HandlerExit, IInv, ConnInv, SockTypeOK

QueuesStay == UNCHANGED <<wq, dq, delivered>>

\* Threads that do not touch the packets on their way to the server.
LEMMA ChildStill ==
  ASSUME IInv, NEW c \in Conns, SpcStays, QueuesStay,
         \A d \in Conns : wpc'[d] = "send" => wpc[d] = "send",
         \A d \in Conns : Active(d)' => Active(d)
  PROVE  \A d \in Conns : Still(d)
BY DEF SpcStays, QueuesStay, Still

LEMMA OthersStill ==
  ASSUME IInv, NEW c \in Conns, UNCHANGED <<spc, pair>>,
         \A d \in Conns \ {c} : wpc'[d] = wpc[d] /\ dpc'[d] = dpc[d] /\ dq'[d] = dq[d]
                                /\ wq'[d] = wq[d] /\ delivered'[d] = delivered[d]
  PROVE  \A d \in Conns \ {c} : Still(d)
BY DEF Still, Active

\* What a packet that Depacketize or the writer takes leads to.
Moved(c) ==
    /\ UNCHANGED <<spc, pair, hpc>>
    /\ \A d \in Conns \ {c} : wpc'[d] = wpc[d] /\ dpc'[d] = dpc[d] /\ dq'[d] = dq[d]
                              /\ wq'[d] = wq[d] /\ delivered'[d] = delivered[d]

LEMMA MovedKeeps ==
  ASSUME IInv, ListInv, StreamInv, NEW c \in Conns, Moved(c), UNCHANGED mVars, OfConn(c)'
  PROVE  ListInv' /\ StreamInv'
<1>1. LinkStill
  BY DEF LinkStill, mVars
<1>2. \A d \in Conns : Forward(d)
  BY NoConnectionAppears, SpcStaysForward DEF Moved
<1>3. \A d \in Conns \ {c} : Still(d)
  BY OthersStill DEF Moved
<1> QED
  BY <1>1, <1>2, <1>3, ListStill, StreamStill DEF Moved

\* The link leaves what c is given and where it is listed alone.
LEMMA SameHand ==
  ASSUME HandInv, UNCHANGED mVars, UNCHANGED pair, NEW c \in Conns
  PROVE  Top(c)' = Top(c) /\ (First(c)' <=> First(c)) /\ arrived'[pair'[c]] = arrived[pair[c]]
<1>1. LinkStill
  BY DEF LinkStill, mVars
<1> QED
  BY <1>1, HandStill DEF mVars

\* The writer takes an item and sends it, whether or not it dies over it.
LEMMA WriterSendKeeps ==
  ASSUME IInv, ListInv, StreamInv, NEW c \in Conns, UNCHANGED <<svrVars, mVars>>,
         WriterSend(c) \/ WriterCrash(c),
         delivered' = [delivered EXCEPT ![c] = Append(@, Head(wq[c]))]
  PROVE  ListInv' /\ StreamInv'
<1>1. /\ wpc[c] = "send" /\ wq[c] # <<>>
      /\ wq' = [wq EXCEPT ![c] = Tail(@)]
      /\ delivered' = [delivered EXCEPT ![c] = Append(@, Head(wq[c]))]
      /\ wpc' = wpc \/ wpc' = [wpc EXCEPT ![c] = "crashed"]
      /\ UNCHANGED <<hpc, spc, pair, dpc, dq>>
  BY DEF WriterSend, WriterCrash, svrVars, connVars, depackVars
<1>2. /\ wq[c] \in Seq(Nat) /\ delivered[c] \in Seq(Nat) /\ arrived[pair[c]] \in Nat
      /\ dq[c] \in Seq(Packets) /\ Top(c) \in Int
  BY QueueTypes
<1>3. wq'[c] = Tail(wq[c]) /\ delivered'[c] = Append(delivered[c], wq[c][1])
  <2>1. wq \in [Conns -> Seq(Nat)] /\ delivered \in [Conns -> Seq(Nat)]
    BY DEF IInv, ConnInv, SockTypeOK
  <2>2. Head(wq[c]) = wq[c][1]
    BY <1>1, <1>2, TailFacts
  <2> QED
    BY <1>1, <2>1, <2>2
<1>4. Moved(c)
  BY <1>1 DEF Moved, IInv, ConnInv, SockTypeOK
<1>5. /\ Len(wq[c]) \in Nat \ {0} /\ Len(Tail(wq[c])) = Len(wq[c]) - 1
      /\ wq[c][1] \in Nat /\ Len(delivered[c]) \in Nat /\ Len(dq[c]) \in Nat
      /\ Len(delivered'[c]) = Len(delivered[c]) + 1
      /\ delivered'[c][Len(delivered[c]) + 1] = wq[c][1]
  <2>1. Len(wq[c]) \in Nat \ {0} /\ Len(Tail(wq[c])) = Len(wq[c]) - 1 /\ wq[c][1] \in Nat
    <3>1. Len(wq[c]) \in Nat \ {0} /\ Len(Tail(wq[c])) = Len(wq[c]) - 1
      BY <1>1, <1>2, TailFacts
    <3> QED
      BY <1>2, <3>1
  <2> QED
    BY <1>2, <1>3, <2>1, AppendFacts
<1>6. OfConn(c) /\ ~Unused(c)
  BY <1>1 DEF StreamInv, Unused
<1>7. Top(c)' = Top(c) /\ (First(c)' <=> First(c)) /\ arrived'[pair'[c]] = arrived[pair[c]]
  BY <1>1, SameHand DEF StreamInv
<1>8. Joined(c)'
  <2>1. /\ Row(wq[c], arrived[pair[c]]) /\ Row(delivered[c], arrived[pair[c]])
        /\ Len(delivered[c]) > 0 => wq[c][1] = delivered[c][Len(delivered[c])] + 1
    BY <1>1, <1>5, <1>6 DEF OfConn, Joined
  <2>2. wq[c][1] \in 1..arrived[pair[c]]
    BY <1>5, <2>1 DEF Row
  <2>3. Row(Tail(wq[c]), arrived[pair[c]]) /\ (Len(wq[c]) > 1 => Tail(wq[c])[1] = wq[c][1] + 1)
    BY <1>1, <1>2, <2>1, RowTail
  <2>4. Row(Append(delivered[c], wq[c][1]), arrived[pair[c]])
    BY <1>2, <2>1, <2>2, RowAppend
  <2>5. Len(wq'[c]) > 0 => wq'[c][1] = delivered'[c][Len(delivered'[c])] + 1
    BY <1>3, <1>5, <2>3
  <2> QED
    BY <1>3, <1>7, <2>3, <2>4, <2>5 DEF Joined
<1>9. Active(c)' => InStep(c)' /\ First(c)'
  <2> SUFFICES ASSUME Active(c) PROVE InStep(c)' /\ First(c)'
    BY <1>1 DEF Active
  <2>1. InStep(c) /\ First(c)
    BY <1>6 DEF OfConn
  <2> DEFINE n == Top(c) - Len(dq[c])
  <2>2. n \in Int /\ UpTo(wq[c], n) /\ UpTo(delivered[c], n - Len(wq[c]))
    BY <1>1, <1>2, <1>5, <2>1 DEF InStep
  <2>3. UpTo(Tail(wq[c]), n) /\ wq[c][1] = (n - Len(wq[c])) + 1
    BY <1>1, <1>2, <2>2, UpToTail, TailFacts
  <2>4. UpTo(Append(delivered[c], wq[c][1]), wq[c][1])
    <3>1. n - Len(wq[c]) \in Int
      BY <1>5, <2>2
    <3> DEFINE k == n - Len(wq[c])
               e == wq[c][1]
               s == delivered[c]
    <3>2. k \in Int /\ e \in Nat /\ s \in Seq(Nat) /\ UpTo(s, k) /\ e = k + 1
      BY <1>2, <1>5, <2>2, <2>3, <3>1
    <3> HIDE DEF k, e, s
    <3>3. UpTo(Append(s, e), e)
      BY <3>2, UpToAppend
    <3> QED
      BY <3>3 DEF e, s
  <2>5. wq[c][1] = n - Len(Tail(wq[c]))
    BY <1>5, <2>2, <2>3
  <2>6. UpTo(wq'[c], Top(c)' - Len(dq'[c])) /\ UpTo(delivered'[c], (Top(c)' - Len(dq'[c])) - Len(wq'[c]))
    BY <1>1, <1>3, <1>7, <2>3, <2>4, <2>5
  <2>7. \A i \in 1..Len(dq'[c]) : dq'[c][i].id = (Top(c)' - Len(dq'[c])) + i
    BY <1>1, <1>7, <2>1 DEF InStep
  <2> QED
    BY <1>7, <2>1, <2>6, <2>7 DEF InStep
<1>10. OfConn(c)'
  BY <1>1, <1>6, <1>8, <1>9 DEF OfConn
<1> QED
  BY <1>4, <1>10, MovedKeeps

\* The writer takes an item and ends or dies without sending it.
LEMMA WriterDropKeeps ==
  ASSUME IInv, ListInv, StreamInv, NEW c \in Conns, UNCHANGED <<svrVars, mVars>>,
         WriterFail(c) \/ WriterCrash(c), UNCHANGED delivered
  PROVE  ListInv' /\ StreamInv'
<1>1. /\ wq[c] # <<>>
      /\ wq' = [wq EXCEPT ![c] = Tail(@)]
      /\ wpc' = [wpc EXCEPT ![c] = "done"] \/ wpc' = [wpc EXCEPT ![c] = "crashed"]
      /\ UNCHANGED <<delivered, hpc, spc, pair, dpc, dq>>
  BY DEF WriterFail, WriterCrash, svrVars, connVars, depackVars
<1>2. /\ wq[c] \in Seq(Nat) /\ arrived[pair[c]] \in Nat
      /\ dq[c] \in Seq(Packets) /\ Top(c) \in Int
  BY QueueTypes
<1>3. wq'[c] = Tail(wq[c]) /\ wpc'[c] # "send"
  BY <1>1 DEF IInv, ConnInv, SockTypeOK
<1>4. Moved(c)
  BY <1>1 DEF Moved, IInv, ConnInv, SockTypeOK
<1>5. OfConn(c) /\ ~Unused(c)
  BY <1>1 DEF StreamInv, Unused
<1>6. Top(c)' = Top(c) /\ (First(c)' <=> First(c)) /\ arrived'[pair'[c]] = arrived[pair[c]]
  BY <1>1, SameHand DEF StreamInv
<1>7. Joined(c)'
  BY <1>1, <1>2, <1>3, <1>5, <1>6, RowTail DEF OfConn, Joined
<1>8. Active(c)' => InStep(c)' /\ First(c)'
  <2> SUFFICES ASSUME Active(c) PROVE InStep(c)' /\ First(c)'
    BY <1>1 DEF Active
  <2>1. InStep(c) /\ First(c)
    BY <1>5 DEF OfConn
  <2>2. UpTo(Tail(wq[c]), Top(c) - Len(dq[c]))
    <3>1. UpTo(wq[c], Top(c) - Len(dq[c])) /\ Top(c) - Len(dq[c]) \in Int
      BY <1>2, <2>1 DEF InStep
    <3> QED
      BY <1>1, <1>2, <3>1, UpToTail
  <2> QED
    BY <1>1, <1>3, <1>6, <2>1, <2>2 DEF InStep
<1>9. OfConn(c)'
  BY <1>1, <1>5, <1>7, <1>8 DEF OfConn
<1> QED
  BY <1>4, <1>9, MovedKeeps

LEMMA DepacketizePutKeeps ==
  ASSUME IInv, ListInv, StreamInv, NEW c \in Conns, DepacketizePut(c), UNCHANGED mVars
  PROVE  ListInv' /\ StreamInv'
<1>1. /\ dpc[c] = "put"
      /\ wq' = [wq EXCEPT ![c] = Append(@, Head(dq[c]).id)]
      /\ dq' = [dq EXCEPT ![c] = Tail(@)]
      /\ dpc' = [dpc EXCEPT ![c] = "get"]
      /\ UNCHANGED <<hpc, wpc, delivered, spc, pair>>
  BY DEF DepacketizePut, connVars
<1>2. /\ wq[c] \in Seq(Nat) /\ delivered[c] \in Seq(Nat) /\ arrived[pair[c]] \in Nat
      /\ dq[c] \in Seq(Packets) /\ Top(c) \in Int
  BY QueueTypes
<1>3. dq[c] # <<>> /\ Active(c) /\ dpc'[c] = "get"
  BY <1>1 DEF Active, IInv, ConnInv, SvrTypeOK, Lifecycle
<1> DEFINE d == Len(dq[c])
           w == Len(wq[c])
           s == Len(delivered[c])
           e == dq[c][1].id
<1>4. wq'[c] = Append(wq[c], e) /\ dq'[c] = Tail(dq[c])
  <2>1. wq \in [Conns -> Seq(Nat)] /\ dq \in [Conns -> Seq(Packets)]
    BY DEF IInv, ConnInv, SockTypeOK, SvrTypeOK
  <2>2. Head(dq[c]) = dq[c][1]
    BY <1>2, <1>3, TailFacts
  <2> QED
    BY <1>1, <2>1, <2>2
<1>5. /\ d \in Nat \ {0} /\ w \in Nat /\ s \in Nat
      /\ Len(Tail(dq[c])) = d - 1
      /\ \A i \in 1..(d - 1) : Tail(dq[c])[i] = dq[c][i + 1]
  BY <1>2, <1>3, TailFacts
<1>6. e \in Nat \ {0}
  <2>1. dq[c][1] \in Packets
    BY <1>2, <1>5
  <2> QED
    BY <2>1 DEF Packets
<1>7. Len(Append(wq[c], e)) = w + 1
  BY <1>2, <1>6, AppendFacts
<1>8. Moved(c)
  BY <1>1 DEF Moved, IInv, ConnInv, SockTypeOK, SvrTypeOK
<1>9. OfConn(c) /\ ~Unused(c) /\ InStep(c) /\ First(c) /\ spc[c] \notin Early
  BY <1>3, ActiveNotEarly DEF StreamInv, OfConn, Unused
<1>10. Top(c)' = Top(c) /\ (First(c)' <=> First(c)) /\ arrived'[pair'[c]] = arrived[pair[c]]
  BY <1>1, SameHand DEF StreamInv
<1>11. Top(c) <= arrived[pair[c]]
  BY <1>2 DEF Top
<1> DEFINE n == Top(c) - d
<1>12. n \in Int /\ UpTo(wq[c], n) /\ (wpc[c] = "send" => UpTo(delivered[c], n - w)) /\ e = n + 1
  <2>1. 1 \in 1..d
    BY <1>5
  <2> QED
    BY <1>2, <1>5, <1>9, <2>1 DEF InStep
<1>13. UpTo(Append(wq[c], e), e)
  <2> HIDE DEF n, e
  <2> QED
    BY <1>2, <1>6, <1>12, UpToAppend
<1>14. e = Top(c)' - Len(dq'[c]) /\ n - w = (Top(c)' - Len(dq'[c])) - Len(wq'[c])
  <2>1. \A t \in Int : (t - d) + 1 = t - (d - 1) /\ (t - d) - w = (t - (d - 1)) - (w + 1)
    BY <1>5
  <2>2. Len(dq'[c]) = d - 1 /\ Len(wq'[c]) = w + 1 /\ Top(c)' = Top(c)
    BY <1>4, <1>5, <1>7, <1>10
  <2> QED
    BY <1>2, <1>12, <2>1, <2>2
<1>15. \A i \in 1..Len(dq'[c]) : dq'[c][i].id = (Top(c)' - Len(dq'[c])) + i
  <2> SUFFICES ASSUME NEW i \in 1..(d - 1) PROVE dq[c][i + 1].id = (Top(c) - (d - 1)) + i
    BY <1>4, <1>5, <1>10
  <2>1. i + 1 \in 1..d
    BY <1>5
  <2>2. dq[c][i + 1].id = (Top(c) - d) + (i + 1)
    BY <1>9, <2>1 DEF InStep
  <2> QED
    BY <1>2, <1>5, <2>2
<1>16. InStep(c)'
  BY <1>1, <1>4, <1>12, <1>13, <1>14, <1>15 DEF InStep
<1>17. Joined(c)'
  <2>1. Row(wq[c], arrived[pair[c]]) /\ Row(delivered[c], arrived[pair[c]])
    BY <1>9 DEF OfConn, Joined
  <2>2. e \in 1..arrived[pair[c]]
    BY <1>2, <1>5, <1>6, <1>11, <1>12
  <2>3. w > 0 => e = wq[c][w] + 1
    <3>1. w > 0 => wq[c][w] = n
      <4> HIDE DEF n
      <4> QED
        BY <1>2, <1>12, UpToEnds
    <3> QED
      BY <1>12, <3>1
  <2>4. Row(Append(wq[c], e), arrived[pair[c]])
    <3> HIDE DEF e
    <3> QED
      BY <1>2, <2>1, <2>2, <2>3, RowAppend
  <2>5. wpc[c] = "send" /\ s > 0 => wq'[c][1] = delivered[c][s] + 1
    <3> DEFINE k == n - w
    <3>1. k \in Int /\ e \in Int /\ e - w = k + 1
      BY SMTT(30), <1>5, <1>6, <1>12
    <3>2. wpc[c] = "send" /\ s > 0 => delivered[c][s] = k
      <4>1. wpc[c] = "send" => UpTo(delivered[c], k)
        BY <1>12
      <4> HIDE DEF k
      <4> QED
        BY <1>2, <3>1, <4>1, UpToEnds
    <3>3. wq'[c][1] = e - w
      <4> DEFINE q == wq'[c]
      <4>1. q \in Seq(Nat) /\ UpTo(q, e) /\ Len(q) = w + 1 /\ Len(q) > 0
        BY <1>2, <1>4, <1>5, <1>6, <1>7, <1>13, AppendFacts
      <4>2. q[1] = (e - Len(q)) + 1
        <5> HIDE DEF e, q
        <5> QED
          BY <3>1, <4>1, UpToEnds
      <4>3. \A x \in Int : (x - (w + 1)) + 1 = x - w
        BY <1>5
      <4> QED
        BY <3>1, <4>1, <4>2, <4>3
    <3>4. wq'[c][1] = k + 1
      BY <3>1, <3>3
    <3> HIDE DEF k, s
    <3> QED
      BY <3>2, <3>4
  <2> QED
    BY <1>1, <1>4, <1>10, <2>1, <2>4, <2>5 DEF Joined
<1>18. OfConn(c)'
  BY <1>1, <1>9, <1>10, <1>16, <1>17 DEF OfConn
<1> QED
  BY <1>8, <1>18, MovedKeeps

\* A thread that leaves the queues alone, whatever it ends.
LEMMA QuietKeeps ==
  ASSUME IInv, ListInv, StreamInv, UNCHANGED mVars, SpcStays, QueuesStay,
         \A d \in Conns : wpc'[d] = "send" => wpc[d] = "send",
         \A d \in Conns : Active(d)' => Active(d)
  PROVE  ListInv' /\ StreamInv'
<1>1. LinkStill
  BY DEF LinkStill, mVars
<1>2. \A d \in Conns : Forward(d)
  BY SpcStaysForward
<1>3. \A d \in Conns : Still(d)
  BY DEF SpcStays, QueuesStay, Still
<1> QED
  BY <1>1, <1>2, <1>3, ListStill, StreamStill DEF SpcStays

LEMMA DepacketizeKeeps ==
  ASSUME IInv, ListInv, StreamInv, NEW c \in Conns, Depacketize(c), UNCHANGED mVars
  PROVE  ListInv' /\ StreamInv'
<1>1. CASE DepacketizePut(c)
  BY <1>1, DepacketizePutKeeps
<1>2. CASE ~DepacketizePut(c)
  <2>1. dpc[c] = "get" /\ UNCHANGED <<hpc, wpc, wq, delivered, spc, pair>>
    BY <1>2 DEF Depacketize, DepacketizeGet, DepacketizeMayGet, DepacketizeExit, sockVars, writerVars
  <2>2. \/ dq' = dq /\ (dpc' = [dpc EXCEPT ![c] = "put"] \/ dpc' = [dpc EXCEPT ![c] = "done"])
        \/ dq' = [dq EXCEPT ![c] = Tail(@)] /\ dpc' = [dpc EXCEPT ![c] = "done"]
    BY <1>2 DEF Depacketize, DepacketizeGet, DepacketizeExit
  <2>3. dpc = [d \in Conns |-> dpc[d]] /\ dq = [d \in Conns |-> dq[d]]
    BY DEF IInv, ConnInv, SvrTypeOK
  <2>4. CASE dq' = dq
    <3>1. \A d \in Conns : Active(d)' => Active(d)
      BY <2>1, <2>2, <2>3, <2>4 DEF Active
    <3>2. SpcStays /\ QueuesStay
      BY <2>1, <2>4 DEF SpcStays, QueuesStay, Connected
    <3> QED
      BY <2>1, <3>1, <3>2, QuietKeeps
  <2>5. CASE dq' = [dq EXCEPT ![c] = Tail(@)] /\ dpc' = [dpc EXCEPT ![c] = "done"]
    <3>1. Moved(c)
      BY <2>1, <2>3, <2>5 DEF Moved
    <3>2. dpc'[c] = "done" /\ spc[c] \notin Early /\ OfConn(c)
      BY <2>1, <2>3, <2>5, ActiveNotEarly DEF Active, StreamInv
    <3>3. arrived' = arrived
      BY DEF mVars
    <3>4. OfConn(c)'
      BY <2>1, <3>2, <3>3 DEF OfConn, Joined, Active
    <3> QED
      BY <3>1, <3>4, MovedKeeps
  <2> QED
    BY <2>2, <2>4, <2>5
<1> QED
  BY <1>1, <1>2

LEMMA SockThreadsKeep ==
  ASSUME IInv, ListInv, StreamInv, NEW c \in Conns, SockThreads(c), UNCHANGED <<svrVars, mVars>>
  PROVE  ListInv' /\ StreamInv'
<1>1. UNCHANGED mVars /\ UNCHANGED <<spc, pair, dq, dpc>>
  BY DEF svrVars, connVars, depackVars
<1>2. CASE WriterSend(c) \/ WriterFail(c) \/ WriterCrash(c)
  <2>1. delivered' = [delivered EXCEPT ![c] = Append(@, Head(wq[c]))] \/ UNCHANGED delivered
    BY <1>2 DEF WriterSend, WriterFail, WriterCrash
  <2>2. WriterSend(c) => delivered' = [delivered EXCEPT ![c] = Append(@, Head(wq[c]))]
    BY DEF WriterSend
  <2>3. WriterFail(c) => UNCHANGED delivered
    BY DEF WriterFail
  <2> QED
    BY <1>2, <2>1, <2>2, <2>3, WriterSendKeeps, WriterDropKeeps
<1>3. CASE HandlerWake(c)
  <2>1. UNCHANGED <<wq, delivered, wpc>>
    BY <1>3 DEF HandlerWake, writerVars
  <2>2. SpcStays /\ QueuesStay
    BY <1>1, <1>3, <2>1, NoConnectionAppears DEF QueuesStay
  <2> QED
    BY <1>1, <2>1, <2>2, QuietKeeps DEF Active
<1>4. CASE ReaderRecv(c) \/ ReaderPut(c) \/ ReaderExit(c) \/ WriterStop(c)
  <2>1. UNCHANGED <<wq, delivered, hpc>>
    BY <1>4 DEF ReaderRecv, ReaderPut, ReaderExit, WriterStop, writerVars
  <2>2. wpc' = wpc \/ wpc' = [wpc EXCEPT ![c] = "done"]
    BY <1>4 DEF ReaderRecv, ReaderPut, ReaderExit, WriterStop, writerVars
  <2>3. \A d \in Conns : wpc'[d] = "send" => wpc[d] = "send"
    BY <2>2 DEF IInv, ConnInv, SockTypeOK
  <2>4. SpcStays /\ QueuesStay
    BY <1>1, <2>1, NoConnectionAppears DEF QueuesStay
  <2> QED
    BY <1>1, <2>3, <2>4, QuietKeeps DEF Active
<1> QED
  BY <1>2, <1>3, <1>4 DEF SockThreads

LEMMA ChildThreadsKeep ==
  ASSUME IInv, ListInv, StreamInv, NEW c \in Conns, ChildThreads(c), UNCHANGED mVars
  PROVE  ListInv' /\ StreamInv'
<1>1. ASSUME Packetize(c) \/ SockExitCallback(c) PROVE ListInv' /\ StreamInv'
  <2>1. UNCHANGED <<spc, pair, wq, dq, delivered, wpc, dpc>>
    BY <1>1 DEF Packetize, PacketizeGet, PacketizePut, PacketizeExit, SockExitCallback, HandlerExit,
                sockVars, writerVars, connVars, depackVars
  <2>2. UNCHANGED hpc \/ HandlerExit(c)
    BY <1>1 DEF Packetize, PacketizeGet, PacketizePut, PacketizeExit, SockExitCallback, sockVars
  <2>3. SpcStays /\ QueuesStay
    BY <2>1, <2>2, NoConnectionAppears DEF QueuesStay
  <2> QED
    BY <2>1, <2>3, QuietKeeps DEF Active
<1>2. ASSUME SockThreads(c), UNCHANGED svrVars PROVE ListInv' /\ StreamInv'
  <2>1. UNCHANGED <<svrVars, mVars>>
    BY <1>2
  <2> QED
    BY <1>2, <2>1, SockThreadsKeep
<1> QED
  BY <1>1, <1>2, DepacketizeKeeps DEF ChildThreads

-----------------------------------------------------------------------------
(* The connection leaves *)

LEMMA RemoveAtFacts ==
  ASSUME NEW S, NEW s \in Seq(S), NEW i \in 1..Len(s)
  PROVE  /\ Len(s) \in Nat /\ Len(RemoveAt(s, i)) = Len(s) - 1
         /\ \A j \in 1..(i - 1) : RemoveAt(s, i)[j] = s[j]
         /\ \A j \in i..(Len(s) - 1) : RemoveAt(s, i)[j] = s[j + 1]
<1> DEFINE a == SubSeq(s, 1, i - 1)
           b == SubSeq(s, i + 1, Len(s))
<1>1. /\ Len(s) \in Nat /\ a \in Seq(S) /\ b \in Seq(S) /\ Len(a) = i - 1 /\ Len(b) = Len(s) - i
      /\ \A j \in 1..(i - 1) : a[j] = s[j]
      /\ \A j \in 1..(Len(s) - i) : b[j] = s[i + j]
  OBVIOUS
<1> HIDE DEF a, b
<1>2. /\ Len(a \o b) = Len(s) - 1
      /\ \A j \in 1..(i - 1) : (a \o b)[j] = s[j]
  BY <1>1
<1>3. ASSUME NEW j \in i..(Len(s) - 1) PROVE (a \o b)[j] = s[j + 1]
  <2>1. (j - i) + 1 \in 1..(Len(s) - i) /\ i + ((j - i) + 1) = j + 1 /\ j - (i - 1) = (j - i) + 1
    BY <1>1
  <2>2. b[(j - i) + 1] = s[j + 1]
    BY <1>1, <2>1
  <2>3. (a \o b)[j] = b[j - (i - 1)]
    BY <1>1
  <2> QED
    BY <2>1, <2>2, <2>3
<1>4. RemoveAt(s, i) = a \o b
  BY DEF RemoveAt, a, b
<1> QED
  BY <1>1, <1>2, <1>3, <1>4

LEMMA CallbackKeeps ==
  ASSUME IInv, ListInv, StreamInv, NEW c \in Conns, SCallback(c)
  PROVE  ListInv' /\ StreamInv'
<1>1. PICK to \in {"remove", "exited"} : spc[c] = "callback" /\ spc' = [spc EXCEPT ![c] = to]
  BY DEF SCallback, SStep
<1>2. UNCHANGED <<hpc, wpc, wq, delivered, pair, dpc, dq>> /\ UNCHANGED mVars
  BY DEF SCallback, sockVars, writerVars, depackVars
<1>3. spc'[c] = to
  BY <1>1 DEF IInv, ConnInv, SvrTypeOK
<1>4. \A d \in Conns : Forward(d) /\ Still(d)
  BY <1>1, <1>2, <1>3, ThreadGoesOn DEF Early
<1>5. LinkStill
  BY <1>2 DEF LinkStill, mVars
<1> QED
  BY <1>2, <1>4, <1>5, ListStill, StreamStill

\* The others keep their order when c is taken off the list.
LEMMA Removed ==
  ASSUME children \in Seq(Conns), IsInjective(children),
         NEW i \in 1..Len(children), children' = RemoveAt(children, i)
  PROVE  /\ IsInjective(children')
         /\ Kids' = Kids \ {children[i]}
         /\ UNCHANGED pair => \A d \in Conns \ {children[i]} : First(d) => First(d)'
<1> DEFINE n == Len(children)
           old(j) == IF j < i THEN j ELSE j + 1
<1>1. /\ n \in Nat /\ Len(children') = n - 1
      /\ \A j \in 1..(i - 1) : children'[j] = children[j]
      /\ \A j \in i..(n - 1) : children'[j] = children[j + 1]
  BY RemoveAtFacts
<1>2. DOMAIN children = 1..n /\ DOMAIN children' = 1..(n - 1)
  <2>1. children' \in Seq(Conns)
    BY RemoveAtType
  <2> QED
    BY <1>1, <2>1
<1>3. \A j \in 1..(n - 1) : old(j) \in 1..n \ {i} /\ children'[j] = children[old(j)]
  BY <1>1
<1>4. \A k \in 1..n \ {i} : \E j \in 1..(n - 1) : old(j) = k
  <2> SUFFICES ASSUME NEW k \in 1..n \ {i} PROVE \E j \in 1..(n - 1) : old(j) = k
    OBVIOUS
  <2>1. CASE k < i
    <3>1. k \in 1..(n - 1) /\ old(k) = k
      BY <1>1, <2>1
    <3> QED
      BY <3>1
  <2>2. CASE ~(k < i)
    <3>1. k - 1 \in 1..(n - 1) /\ old(k - 1) = k
      BY <1>1, <2>2
    <3> QED
      BY <3>1
  <2> QED
    BY <2>1, <2>2
<1>5. \A j, k \in 1..(n - 1) : (j < k) = (old(j) < old(k)) /\ (old(j) = old(k) => j = k)
  BY <1>1
<1> HIDE DEF old
<1>6. IsInjective(children')
  BY <1>2, <1>3, <1>5 DEF IsInjective
<1>7. Kids' = Kids \ {children[i]}
  <2>1. Kids = {children[k] : k \in 1..n} /\ Kids' = {children'[j] : j \in 1..(n - 1)}
    BY <1>2 DEF Kids, ToSet
  <2>2. \A k \in 1..n : k # i => children[k] # children[i]
    BY <1>2 DEF IsInjective
  <2>3. ASSUME NEW d PROVE d \in Kids' <=> d \in Kids \ {children[i]}
    <3>1. ASSUME NEW j \in 1..(n - 1), d = children'[j] PROVE d \in Kids /\ d # children[i]
      <4>1. old(j) \in 1..n /\ old(j) # i /\ d = children[old(j)]
        BY <1>3, <3>1
      <4> QED
        BY <2>1, <2>2, <4>1
    <3>2. ASSUME NEW k \in 1..n, d = children[k], d # children[i] PROVE d \in Kids'
      <4>1. PICK j \in 1..(n - 1) : old(j) = k
        BY <1>4, <3>2
      <4>2. d = children'[j]
        BY <1>3, <3>2, <4>1
      <4> QED
        BY <2>1, <4>2
    <3> QED
      BY <2>1, <3>1, <3>2
  <2> QED
    BY <2>3
<1>8. ASSUME UNCHANGED pair, NEW d \in Conns \ {children[i]}, First(d) PROVE First(d)'
  <2>0. \E k \in DOMAIN children : children[k] = d /\ \A l \in 1..(k - 1) : pair[children[l]] # pair[d]
    BY <1>8, Zenon DEF First
  <2>1. PICK k \in 1..n : children[k] = d /\ \A l \in 1..(k - 1) : pair[children[l]] # pair[d]
    BY <1>2, <2>0
  <2>2. PICK j \in 1..(n - 1) : old(j) = k
    BY <1>4, <1>8, <2>1
  <2>3. ASSUME NEW l \in 1..(j - 1) PROVE pair[children'[l]] # pair[d]
    <3>1. l \in 1..(n - 1) /\ l < j
      BY <1>1
    <3>2. old(l) < k /\ old(l) \in 1..n
      BY <1>3, <1>5, <2>2, <3>1
    <3>3. old(l) \in 1..(k - 1)
      BY <3>2, <1>1
    <3> QED
      BY <1>3, <2>1, <3>1, <3>3
  <2> QED
    BY <1>2, <1>3, <1>8, <2>1, <2>2, <2>3 DEF First
<1>9. UNCHANGED pair => \A d \in Conns \ {children[i]} : First(d) => First(d)'
  BY <1>8
<1> QED
  BY <1>6, <1>7, <1>9

LEMMA RemoveKeeps ==
  ASSUME IInv, ListInv, StreamInv, NEW c \in Conns, SRemove(c)
  PROVE  ListInv' /\ StreamInv'
<1>1. /\ spc[c] = "remove" /\ spc' = [spc EXCEPT ![c] = "exited"]
      /\ UNCHANGED <<hpc, wpc, wq, delivered, pair, dpc, dq, mpc, mchild, mpkt, arrived>>
      /\ mpc \notin Handing
  BY DEF SRemove, SStep, LockFree, sockVars, writerVars, depackVars, Handing
<1>2. spc'[c] = "exited" /\ \A d \in Conns \ {c} : spc'[d] = spc[d]
  BY <1>1 DEF IInv, ConnInv, SvrTypeOK
<1>3. /\ IsInjective(children') /\ Kids' = Kids \ {c}
      /\ \A d \in Conns \ {c} : First(d) => First(d)'
  <2>1. CASE \E i \in DOMAIN children : children[i] = c /\ children' = RemoveAt(children, i)
    <3>1. PICK i \in DOMAIN children : children[i] = c /\ children' = RemoveAt(children, i)
      BY <2>1
    <3>2. children \in Seq(Conns) /\ i \in 1..Len(children) /\ IsInjective(children)
      <4>1. children \in Seq(Conns)
        BY DEF IInv, LinkInv, LinkTypeOK
      <4>2. DOMAIN children = 1..Len(children)
        BY <4>1
      <4> QED
        BY <4>1, <4>2 DEF ListInv
    <3> QED
      BY <1>1, <3>1, <3>2, Removed
  <2>2. CASE c \notin ToSet(children) /\ UNCHANGED children
    <3>1. \A d \in Conns : First(d) => First(d)'
      BY <1>1, <2>2 DEF First
    <3>2. Kids' = Kids /\ c \notin Kids /\ children' = children
      BY <2>2 DEF Kids
    <3> QED
      BY <3>1, <3>2 DEF ListInv
  <2> QED
    BY <2>1, <2>2 DEF SRemove
<1>4. Kids \subseteq Conns
  BY DEF Kids, ToSet, IInv, LinkInv, LinkTypeOK
<1>5. ListInv'
  <2>1. \A d \in Kids' : spc'[d] \notin {"none", "connect"}
    BY <1>2, <1>3, <1>4 DEF ListInv
  <2>2. mpc' = "create" => mchild' \notin Kids' /\ spc'[mchild'] # "none"
    <3>1. mpc = "create" => mchild \in Conns
      BY DEF IInv, LinkInv, LinkLocals
    <3> QED
      BY <1>1, <1>2, <1>3, <3>1 DEF ListInv
  <2>3. \A d \in Conns : spc'[d] = "connect" => mpc' = "create" /\ mchild' = d
    BY <1>1, <1>2 DEF ListInv
  <2>4. \A d \in Conns : /\ Connected(d)' /\ spc'[d] \notin {"none", "connect", "exited"}
                         /\ ~(mpc' = "create" /\ mchild' = d)
                         => d \in Kids'
    BY <1>1, <1>2, <1>3 DEF ListInv, Connected
  <2> QED
    BY <1>3, <2>1, <2>2, <2>3, <2>4 DEF ListInv
<1>6. ~Active(c)
  BY <1>1, ActiveHasDepack DEF HasDepack
<1>7. ASSUME NEW d \in Conns PROVE OfConn(d)'
  <2>1. Still(d)
    BY <1>1, <1>2 DEF Still, Active, Early
  <2>2. Top(d)' = Top(d)
    BY <1>1 DEF Top, Handing
  <2>3. Active(d) /\ ~Unused(d) => First(d)'
    BY <1>3, <1>6 DEF StreamInv, OfConn
  <2>4. arrived' = arrived /\ arrived[pair[d]] \in Nat /\ OfConn(d)
    BY <1>1, QueueTypes DEF StreamInv
  <2> QED
    BY <2>1, <2>2, <2>3, <2>4, StillOf
<1>8. HandInv'
  BY <1>1 DEF HandInv
<1> QED
  BY <1>5, <1>7, <1>8 DEF StreamInv

-----------------------------------------------------------------------------
(* The thread of the link *)

\* A step of the thread that touches neither the list nor a connection.
LEMMA LinkGoesOn ==
  ASSUME IInv, ListInv, StreamInv, LinkStill, UNCHANGED <<sockVars, connVars, depackVars>>
  PROVE  ListInv' /\ StreamInv'
<1>1. UNCHANGED <<hpc, wpc, wq, delivered, spc, pair, dpc, dq>>
  BY DEF sockVars, writerVars, connVars, depackVars
<1>2. \A d \in Conns : Forward(d) /\ Still(d)
  BY <1>1 DEF Forward, Still, Connected, Active
<1> QED
  BY <1>1, <1>2, ListStill, StreamStill

LEMMA GetDataKeeps ==
  ASSUME IInv, ListInv, StreamInv, NEW p \in Pairs, NEW disc \in BOOLEAN, MGetData(p, disc)
  PROVE  ListInv' /\ StreamInv'
<1>1. /\ mpc = "loop" /\ arrived' = [arrived EXCEPT ![p] = @ + 1]
      /\ UNCHANGED <<hpc, wpc, wq, delivered, spc, pair, dpc, dq, children>>
  BY DEF MGetData, sockVars, writerVars, svrVars, connVars, depackVars
<1>2. arrived \in [Pairs -> 0..MaxPkts] /\ children \in Seq(Conns) /\ pair \in [Conns -> Pairs]
  BY DEF IInv, ConnInv, LinkInv, LinkTypeOK, SvrTypeOK
<1>3. arrived[p] \in Nat /\ arrived'[p] = arrived[p] + 1 /\ \A q \in Pairs \ {p} : arrived'[q] = arrived[q]
  BY <1>1, <1>2
<1>4. mpc' # "create"
  BY <1>1 DEF MGetData
<1>5. ListInv'
  <2>1. Kids' = Kids /\ \A d \in Conns : (Connected(d)' <=> Connected(d))
    BY <1>1 DEF Kids, Connected
  <2> QED
    BY <1>1, <1>4, <2>1 DEF ListInv
<1>6. \A d \in Conns : Still(d) /\ (First(d)' <=> First(d)) /\ OfConn(d) /\ Top(d) = arrived[pair[d]]
  BY <1>1 DEF Still, First, Active, StreamInv, Top, Handing
<1>7. \A d \in Conns : First(d) /\ pair[d] = p =>
        /\ mpc' = "send" /\ mchild' = d /\ mpkt'.id = arrived'[p]
  <2> SUFFICES ASSUME NEW d \in Conns, First(d), pair[d] = p
               PROVE  mpc' = "send" /\ mchild' = d /\ mpkt'.id = arrived'[p]
    OBVIOUS
  <2>1. \E k \in DOMAIN children : children[k] = d /\ \A j \in 1..(k - 1) : pair[children[j]] # pair[d]
    BY Zenon DEF First
  <2>2. PICK k \in DOMAIN children : children[k] = d /\ \A j \in 1..(k - 1) : pair[children[j]] # p
    BY <2>1
  <2>3. k \in MatchesPair(p)
    BY <2>2 DEF MatchesPair
  <2>4. PICK i \in MatchesPair(p) :
          /\ \A j \in MatchesPair(p) : i <= j
          /\ mpc' = "send" /\ mchild' = children[i] /\ mpkt' = [id |-> arrived'[p], disc |-> disc]
    BY <2>3 DEF MGetData
  <2>5. i \in DOMAIN children /\ pair[children[i]] = p /\ i <= k
    BY <2>3, <2>4 DEF MatchesPair
  <2>6. i = k
    BY <1>2, <2>2, <2>5
  <2> QED
    BY <2>2, <2>4, <2>6
<1>8. mpc' \in Handing => /\ mchild' \in Conns /\ First(mchild') /\ pair[mchild'] = p
                          /\ mpkt'.id = arrived'[p]
  <2> SUFFICES ASSUME mpc' \in Handing
               PROVE  mchild' \in Conns /\ First(mchild') /\ pair[mchild'] = p /\ mpkt'.id = arrived'[p]
    OBVIOUS
  <2>1. PICK i \in MatchesPair(p) :
          /\ \A j \in MatchesPair(p) : i <= j
          /\ mchild' = children[i] /\ mpkt' = [id |-> arrived'[p], disc |-> disc]
    BY <1>1 DEF MGetData, Handing
  <2>2. i \in DOMAIN children /\ pair[children[i]] = p /\ children[i] \in Conns
    BY <1>2, <2>1 DEF MatchesPair
  <2>3. \A j \in 1..(i - 1) : pair[children[j]] # p
    <3>1. \A j \in 1..(i - 1) : j \in DOMAIN children /\ ~(i <= j)
      BY <1>2, <2>2
    <3> QED
      BY <2>1, <3>1 DEF MatchesPair
  <2> QED
    BY <2>1, <2>2, <2>3 DEF First
<1>9. ASSUME NEW d \in Conns PROVE OfConn(d)'
  <2>1. arrived[pair[d]] \in Nat /\ arrived'[pair[d]] \in Nat /\ arrived[pair[d]] <= arrived'[pair[d]]
    BY <1>2, <1>3, QueueTypes
  <2>2. CASE pair[d] = p /\ First(d)
    <3>1. mpc' = "send" /\ mchild' = d
      BY <1>7, <2>2
    <3>2. Top(d)' = arrived'[p] - 1
      BY <1>1, <2>2, <3>1 DEF Top, Handing
    <3>3. Top(d)' = Top(d)
      BY <1>3, <1>6, <2>2, <3>2
    <3> QED
      BY <1>6, <2>1, <2>2, <3>3, StillOf
  <2>3. CASE pair[d] = p /\ ~First(d)
    <3>1. ~(Active(d) /\ ~Unused(d))
      BY <1>6, <2>3 DEF OfConn
    <3> QED
      BY <1>6, <2>1, <3>1, StillOf
  <2>4. CASE pair[d] # p
    <3>1. ~(mpc' \in Handing /\ mchild' = d)
      BY <1>8, <2>4
    <3>2. Top(d)' = arrived'[pair[d]]
      BY <1>1, <3>1 DEF Top
    <3>3. Top(d)' = Top(d)
      BY <1>2, <1>3, <1>6, <2>4, <3>2
    <3>4. Active(d) /\ ~Unused(d) => First(d)'
      BY <1>6 DEF OfConn
    <3> QED
      BY <1>6, <2>1, <3>3, <3>4, StillOf
  <2> QED
    BY <2>2, <2>3, <2>4
<1>10. HandInv'
  <2> SUFFICES ASSUME mpc' \in Handing PROVE First(mchild)' /\ mpkt'.id = arrived'[pair'[mchild']]
    BY DEF HandInv
  <2>1. mchild' \in Conns /\ First(mchild') /\ pair[mchild'] = p /\ mpkt'.id = arrived'[p]
    BY <1>8
  <2>2. First(mchild)'
    BY <1>1, <2>1 DEF First
  <2> QED
    BY <1>1, <2>1, <2>2
<1> QED
  BY <1>5, <1>9, <1>10 DEF StreamInv

LEMMA SendKeeps ==
  ASSUME IInv, ListInv, StreamInv, MSend
  PROVE  ListInv' /\ StreamInv'
<1>1. /\ mpc = "send" /\ mchild \in Conns
      /\ UNCHANGED <<hpc, wpc, wq, delivered, spc, pair, dpc, dq, children, arrived>>
  BY DEF MSend, MStep, sockVars, writerVars, svrVars, connVars, depackVars, IInv, LinkInv, LinkLocals
<1>2. CASE HasDepack(mchild)
  <2>1. mpc' = "enqueue" /\ UNCHANGED <<mchild, mpkt>>
    BY <1>2 DEF MSend, MStep
  <2>2. \A d \in Conns : Still(d) /\ Top(d)' = Top(d) /\ (First(d)' <=> First(d))
    BY <1>1, <2>1 DEF Still, Active, Top, Handing, First
  <2>3. ListInv'
    <3>1. Kids' = Kids /\ \A d \in Conns : (Connected(d)' <=> Connected(d))
      BY <1>1 DEF Kids, Connected
    <3> QED
      BY <1>1, <2>1, <3>1 DEF ListInv
  <2>4. HandInv'
    <3>1. First(mchild) /\ mpkt.id = arrived[pair[mchild]]
      BY <1>1 DEF StreamInv, HandInv, Handing
    <3>2. First(mchild)'
      BY <1>1, <2>1, <3>1 DEF First
    <3> QED
      BY <1>1, <2>1, <3>1, <3>2 DEF HandInv
  <2>5. ASSUME NEW d \in Conns PROVE OfConn(d)'
    <3>1. OfConn(d) /\ arrived' = arrived /\ arrived[pair[d]] \in Nat
      BY <1>1, QueueTypes DEF StreamInv
    <3>2. Active(d) /\ ~Unused(d) => First(d)'
      BY <2>2, <3>1 DEF OfConn
    <3> QED
      BY <2>2, <3>1, <3>2, StillOf
  <2> QED
    BY <2>3, <2>4, <2>5 DEF StreamInv
<1>3. CASE ~HasDepack(mchild)
  <2>1. mpc' = "loop"
    BY <1>3 DEF MSend, MStep
  <2>2. ~Active(mchild)
    BY <1>1, <1>3, ActiveHasDepack
  <2>3. ListInv'
    <3>1. Kids' = Kids /\ \A d \in Conns : (Connected(d)' <=> Connected(d))
      BY <1>1 DEF Kids, Connected
    <3> QED
      BY <1>1, <2>1, <3>1 DEF ListInv
  <2>4. ASSUME NEW d \in Conns PROVE OfConn(d)'
    <3>1. Still(d) /\ (First(d)' <=> First(d)) /\ (d # mchild => Top(d)' = Top(d))
      BY <1>1, <2>1 DEF Still, Active, First, Top, Handing
    <3>2. OfConn(d) /\ arrived' = arrived /\ arrived[pair[d]] \in Nat
      BY <1>1, QueueTypes DEF StreamInv
    <3>3. Active(d) /\ ~Unused(d) => First(d)' /\ Top(d)' = Top(d)
      BY <2>2, <3>1, <3>2 DEF OfConn
    <3> QED
      BY <3>1, <3>2, <3>3, StillOf
  <2> QED
    BY <2>1, <2>3, <2>4 DEF StreamInv, HandInv, Handing
<1> QED
  BY <1>2, <1>3

LEMMA EnqueueKeeps ==
  ASSUME IInv, ListInv, StreamInv, MEnqueue
  PROVE  ListInv' /\ StreamInv'
<1>0. PICK c \in Conns : c = mchild
  BY DEF MEnqueue, MStep, IInv, LinkInv, LinkLocals
<1>1. /\ mpc = "enqueue" /\ mpc' \notin Busy /\ mchild = c /\ mpkt \in Packets
      /\ UNCHANGED <<hpc, wpc, wq, delivered, spc, pair, dpc, children, arrived>>
  BY <1>0 DEF MEnqueue, MStep, sockVars, writerVars, svrVars, connVars, IInv, LinkInv, LinkLocals, Busy
<1>2. ListInv'
  <2>1. Kids' = Kids /\ \A d \in Conns : (Connected(d)' <=> Connected(d))
    BY <1>1 DEF Kids, Connected
  <2> QED
    BY <1>1, <2>1 DEF ListInv, Busy
<1>3. HandInv'
  BY <1>1 DEF HandInv, Handing, Busy
<1>4. \A d \in Conns : /\ OfConn(d) /\ arrived[pair[d]] \in Nat
                       /\ (Active(d)' <=> Active(d)) /\ (First(d)' <=> First(d))
                       /\ Top(d)' = arrived[pair[d]] /\ (d # c => Top(d)' = Top(d))
  <2>1. \A d \in Conns : (Active(d)' <=> Active(d)) /\ (First(d)' <=> First(d))
    BY <1>1 DEF Active, First
  <2>2. \A d \in Conns : Top(d)' = arrived[pair[d]] /\ (d # c => Top(d)' = Top(d))
    BY <1>1 DEF Top, Handing, Busy
  <2> QED
    BY <2>1, <2>2, QueueTypes DEF StreamInv
<1>5. CASE ~HasDepack(c)
  <2>1. dq' = dq /\ ~Active(c)
    BY <1>1, <1>5, ActiveHasDepack DEF MEnqueue
  <2>2. ASSUME NEW d \in Conns PROVE OfConn(d)'
    <3>1. Still(d) /\ (Active(d) /\ ~Unused(d) => First(d)' /\ Top(d)' = Top(d))
      BY <1>1, <1>4, <2>1 DEF Still, Active, OfConn
    <3> QED
      BY <1>1, <1>4, <3>1, StillOf
  <2> QED
    BY <1>2, <1>3, <2>2 DEF StreamInv
<1>6. CASE HasDepack(c)
  <2>1. dq' = [dq EXCEPT ![c] = Append(@, mpkt)]
    BY <1>1, <1>6 DEF MEnqueue
  <2>2. dq'[c] = Append(dq[c], mpkt) /\ \A d \in Conns \ {c} : dq'[d] = dq[d]
    BY <1>1, <2>1 DEF IInv, ConnInv, SvrTypeOK
  <2>3. ASSUME NEW d \in Conns \ {c} PROVE OfConn(d)'
    <3>1. Still(d) /\ (Active(d) /\ ~Unused(d) => First(d)' /\ Top(d)' = Top(d))
      BY <1>1, <1>4, <2>2 DEF Still, Active, OfConn
    <3> QED
      BY <1>1, <1>4, <3>1, StillOf
  <2>4. OfConn(c)'
    <3>1. spc'[c] \notin Early /\ Joined(c)'
      BY <1>1, <1>4, <1>6 DEF HasDepack, Early, OfConn, Joined
    <3>2. First(c) /\ mpkt.id = arrived[pair[c]] /\ Top(c) = arrived[pair[c]] - 1
      BY <1>1 DEF StreamInv, HandInv, Handing, Top
    <3>3. Active(c)' => InStep(c)'
      <4> SUFFICES ASSUME Active(c) PROVE InStep(c)'
        BY <1>4
      <4> DEFINE d == Len(dq[c])
                 t == arrived[pair[c]]
      <4>1. InStep(c) /\ t \in Nat /\ d \in Nat /\ Top(c) = t - 1 /\ Top(c)' = t
        BY <1>4, <1>1, <3>2, QueueTypes DEF OfConn
      <4>2. /\ Len(dq'[c]) = d + 1 /\ dq'[c][d + 1] = mpkt
            /\ \A i \in 1..d : dq'[c][i] = dq[c][i]
        BY <1>1, <2>2, QueueTypes, AppendFacts
      <4>3. Top(c) - Len(dq[c]) = Top(c)' - Len(dq'[c])
        BY SMTT(30), <4>1, <4>2
      <4>4. UpTo(wq'[c], Top(c)' - Len(dq'[c]))
        BY <1>1, <4>1, <4>3 DEF InStep
      <4>5. wpc'[c] = "send" => UpTo(delivered'[c], (Top(c)' - Len(dq'[c])) - Len(wq'[c]))
        BY <1>1, <4>1, <4>3 DEF InStep
      <4>6. ASSUME NEW i \in 1..(d + 1) PROVE dq'[c][i].id = (Top(c)' - Len(dq'[c])) + i
        <5>1. CASE i \in 1..d
          BY <4>1, <4>2, <4>3, <5>1 DEF InStep
        <5>2. CASE i = d + 1
          <6>1. \A x, y \in Int : (x - y) + y = x
            OBVIOUS
          <6>2. Top(c)' = t /\ Len(dq'[c]) = i /\ t \in Int /\ i \in Int
            BY <4>1, <4>2, <5>2
          <6>3. (Top(c)' - Len(dq'[c])) + i = t
            BY <6>1, <6>2
          <6> QED
            BY <3>2, <4>2, <5>2, <6>3
        <5>3. i \in 1..d \/ i = d + 1
          BY <4>1
        <5> QED
          BY <5>1, <5>2, <5>3
      <4> QED
        BY <4>2, <4>4, <4>5, <4>6 DEF InStep
    <3> QED
      BY <1>1, <1>4, <3>1, <3>2, <3>3 DEF OfConn
  <2> QED
    BY <1>1, <1>2, <1>3, <2>3, <2>4 DEF StreamInv
<1> QED
  BY <1>5, <1>6

LEMMA GetConnectKeeps ==
  ASSUME IInv, ListInv, StreamInv, NEW c \in Conns, NEW p \in Pairs, MGetConnect(c, p)
  PROVE  ListInv' /\ StreamInv'
<1>1. /\ mpc = "loop" /\ mpc' = "create" /\ mchild' = c
      /\ spc[c] = "none" /\ spc' = [spc EXCEPT ![c] = "connect"]
      /\ pair' = [pair EXCEPT ![c] = p]
      /\ UNCHANGED <<hpc, wpc, wq, delivered, dpc, dq, children, arrived>>
  BY DEF MGetConnect, MStep, SStep, sockVars, writerVars, depackVars
<1>2. /\ spc'[c] = "connect" /\ pair'[c] = p
      /\ \A d \in Conns \ {c} : spc'[d] = spc[d] /\ pair'[d] = pair[d]
  BY <1>1 DEF IInv, ConnInv, SvrTypeOK
<1>3. c \notin Kids /\ Kids' = Kids /\ Kids \subseteq Conns /\ \A d \in Conns : (Connected(d)' <=> Connected(d))
  BY <1>1 DEF Kids, ToSet, ListInv, Connected, IInv, LinkInv, LinkTypeOK
<1>4. ListInv'
  <2>1. \A d \in Kids : spc'[d] \notin {"none", "connect"}
    BY <1>2, <1>3 DEF ListInv
  <2>2. \A d \in Conns : spc'[d] = "connect" => d = c
    BY <1>1, <1>2 DEF ListInv
  <2>3. \A d \in Conns : /\ Connected(d)' /\ spc'[d] \notin {"none", "connect", "exited"} => d \in Kids
    BY <1>1, <1>2, <1>3 DEF ListInv
  <2> QED
    BY <1>1, <1>2, <1>3, <2>1, <2>2, <2>3 DEF ListInv
<1>5. OfConn(c)'
  <2>1. Unused(c)
    BY <1>1 DEF StreamInv, OfConn, Early
  <2> QED
    BY <1>1, <2>1, UnusedOf DEF Unused
<1>6. ASSUME NEW d \in Conns \ {c} PROVE OfConn(d)'
  <2>1. Still(d) /\ Top(d)' = Top(d) /\ arrived[pair[d]] \in Nat /\ OfConn(d)
    BY <1>1, <1>2, QueueTypes DEF Still, Active, Top, Handing, StreamInv
  <2>2. First(d) => First(d)'
    <3>1. \A j \in DOMAIN children : children[j] \in Conns \ {c}
      BY <1>3 DEF Kids, ToSet
    <3>2. \A i \in DOMAIN children : \A j \in 1..(i - 1) : j \in DOMAIN children
      BY DEF IInv, LinkInv, LinkTypeOK
    <3> QED
      BY <1>1, <1>2, <3>1, <3>2 DEF First
  <2>3. Active(d) /\ ~Unused(d) => First(d)'
    BY <2>1, <2>2 DEF OfConn
  <2> QED
    BY <1>1, <2>1, <2>3, StillOf
<1> QED
  BY <1>1, <1>4, <1>5, <1>6 DEF StreamInv, HandInv, Handing

LEMMA AppendKeeps ==
  ASSUME IInv, ListInv, StreamInv, MAppendChild
  PROVE  ListInv' /\ StreamInv'
<1>0. PICK c \in Conns : c = mchild
  BY DEF MAppendChild, MStep, IInv, LinkInv, LinkLocals
<1>1. /\ mpc = "create" /\ mpc' = "loop" /\ mchild = c /\ Started(c)
      /\ children' = IF Connected(c) THEN Append(children, c) ELSE children
      /\ UNCHANGED <<hpc, wpc, wq, delivered, spc, pair, dpc, dq, arrived>>
  BY <1>0 DEF MAppendChild, MStep, sockVars, writerVars, svrVars, connVars, depackVars
<1>2. children \in Seq(Conns) /\ Len(children) \in Nat /\ DOMAIN children = 1..Len(children)
  BY DEF IInv, LinkInv, LinkTypeOK
<1> DEFINE n == Len(children)
<1>3. /\ Len(Append(children, c)) = n + 1 /\ DOMAIN Append(children, c) = 1..(n + 1)
      /\ Append(children, c)[n + 1] = c
      /\ \A j \in 1..n : Append(children, c)[j] = children[j]
  <2>1. Append(children, c) \in Seq(Conns)
    BY <1>2, AppendFacts
  <2>2. Len(Append(children, c)) = n + 1
    BY <1>2, AppendFacts
  <2>3. DOMAIN Append(children, c) = 1..(n + 1)
    BY <2>1, <2>2
  <2> QED
    BY <1>2, <2>2, <2>3, AppendFacts
<1>4. IsInjective(children) /\ c \notin Kids /\ Kids \subseteq Conns
  BY <1>1, <1>2 DEF ListInv, Kids, ToSet
<1>5. /\ IsInjective(children')
      /\ Kids \subseteq Kids' /\ Kids' \subseteq Kids \union {c} /\ (Connected(c) => c \in Kids')
      /\ \A d \in Conns : First(d) => First(d)'
  <2>1. CASE ~Connected(c)
    <3>1. children' = children
      BY <1>1, <2>1
    <3> QED
      BY <1>1, <1>4, <2>1, <3>1 DEF First, Kids
  <2>2. CASE Connected(c)
    <3>1. children' = Append(children, c)
      BY <1>1, <2>2
    <3>2. DOMAIN children' = 1..(n + 1) /\ children'[n + 1] = c /\ \A j \in 1..n : children'[j] = children[j]
      BY <1>3, <3>1
    <3>3. \A j \in 1..n : children[j] # c
      BY <1>2, <1>4 DEF Kids, ToSet
    <3>4. IsInjective(children')
      <4>1. ASSUME NEW j \in 1..(n + 1), NEW k \in 1..(n + 1), children'[j] = children'[k] PROVE j = k
        <5>1. (j \in 1..n \/ j = n + 1) /\ (k \in 1..n \/ k = n + 1)
          BY <1>2
        <5>2. j \in 1..n /\ k \in 1..n => j = k
          BY <1>2, <1>4, <3>2, <4>1 DEF IsInjective
        <5> QED
          BY <3>2, <3>3, <4>1, <5>1, <5>2
      <4> QED
        BY <3>2, <4>1 DEF IsInjective
    <3>5. Kids' = Kids \union {c}
      <4>1. Kids = {children[j] : j \in 1..n} /\ Kids' = {children'[j] : j \in 1..(n + 1)}
        BY <1>2, <3>2 DEF Kids, ToSet
      <4>2. 1..(n + 1) = 1..n \union {n + 1}
        BY <1>2
      <4> QED
        BY <3>2, <4>1, <4>2
    <3>6. ASSUME NEW d \in Conns, First(d) PROVE First(d)'
      <4>1. \E i \in DOMAIN children : children[i] = d /\ \A j \in 1..(i - 1) : pair[children[j]] # pair[d]
        BY <3>6, Zenon DEF First
      <4>2. PICK i \in 1..n : children[i] = d /\ \A j \in 1..(i - 1) : pair[children[j]] # pair[d]
        BY <1>2, <4>1
      <4>3. i \in 1..(n + 1) /\ children'[i] = d /\ \A j \in 1..(i - 1) : children'[j] = children[j]
        BY <1>2, <3>2, <4>2
      <4> QED
        BY <1>1, <3>2, <4>2, <4>3 DEF First
    <3> QED
      BY <3>4, <3>5, <3>6
  <2> QED
    BY <2>1, <2>2
<1>6. ListInv'
  <2>1. \A d \in Kids' : spc'[d] \notin {"none", "connect"}
    BY <1>1, <1>5 DEF ListInv, Started
  <2>2. \A d \in Conns : spc'[d] # "connect"
    BY <1>1 DEF ListInv, Started
  <2>3. \A d \in Conns : Connected(d)' /\ spc'[d] \notin {"none", "connect", "exited"} => d \in Kids'
    BY <1>1, <1>5 DEF ListInv, Connected
  <2> QED
    BY <1>1, <1>5, <2>1, <2>2, <2>3 DEF ListInv
<1>7. ASSUME NEW d \in Conns PROVE OfConn(d)'
  <2>1. Still(d) /\ Top(d)' = Top(d) /\ arrived[pair[d]] \in Nat /\ OfConn(d)
    BY <1>1, QueueTypes DEF Still, Active, Top, Handing, StreamInv
  <2>2. Active(d) /\ ~Unused(d) => First(d)'
    BY <1>5, <2>1 DEF OfConn
  <2> QED
    BY <1>1, <2>1, <2>2, StillOf
<1> QED
  BY <1>1, <1>6, <1>7 DEF StreamInv, HandInv, Handing

LEMMA MThreadKeeps ==
  ASSUME IInv, ListInv, StreamInv, MThread
  PROVE  ListInv' /\ StreamInv'
<1>1. ASSUME MGetRequest \/ MPutReply \/ MLeaveLoop \/ MStopNext \/ MJoined
      PROVE  ListInv' /\ StreamInv'
  <2>1. mpc \notin Busy /\ mpc' \notin Busy /\ UNCHANGED <<children, arrived>>
    BY <1>1 DEF MGetRequest, MPutReply, MLeaveLoop, MStopNext, MJoined, MStep, Busy, svrVars
  <2>2. UNCHANGED <<sockVars, spc, pair, depackVars>>
    BY <1>1 DEF MGetRequest, MPutReply, MLeaveLoop, MStopNext, MJoined, svrVars, connVars
  <2>3. \A d \in Conns : Forward(d) /\ Still(d)
    BY <2>2 DEF Forward, Still, Connected, Active, sockVars, writerVars, depackVars
  <2>4. LinkStill
    BY <2>1 DEF LinkStill
  <2> QED
    BY <2>2, <2>3, <2>4, ListStill, StreamStill
<1> QED
  BY <1>1, SendKeeps, EnqueueKeeps, AppendKeeps, GetDataKeeps, GetConnectKeeps DEF MThread

-----------------------------------------------------------------------------
(* Every step *)

ListsAndStreams == IInv /\ ListInv /\ StreamInv

LEMMA InitLists == Init => ListInv /\ StreamInv
<1> SUFFICES ASSUME Init PROVE ListInv /\ StreamInv
  OBVIOUS
<1>1. /\ children = <<>> /\ mpc = "loop" /\ spc = [c \in Conns |-> "none"]
      /\ dq = [c \in Conns |-> <<>>] /\ wq = [c \in Conns |-> <<>>] /\ delivered = [c \in Conns |-> <<>>]
  BY DEF Init, SvrInit, SockInit
<1>2. Kids = {} /\ IsInjective(children)
  BY <1>1 DEF Kids, ToSet, IsInjective
<1>3. ListInv
  BY <1>1, <1>2 DEF ListInv
<1>4. \A c \in Conns : Unused(c)
  BY <1>1 DEF Unused
<1>5. ASSUME NEW c \in Conns PROVE OfConn(c)
  <2>1. Unused(c)
    BY <1>4
  <2> QED
    BY <2>1 DEF Unused, OfConn, Joined, InStep, UpTo, Row
<1> QED
  BY <1>1, <1>3, <1>5 DEF StreamInv, HandInv, Handing

LEMMA NextLists == ListsAndStreams /\ [Next]_vars => ListsAndStreams'
<1> SUFFICES ASSUME ListsAndStreams, [Next]_vars PROVE ListsAndStreams'
  OBVIOUS
<1>1. IInv /\ ListInv /\ StreamInv
  BY DEF ListsAndStreams
<1>2. IInv'
  BY <1>1, NextIInv
<1>3. ListInv' /\ StreamInv'
  <2>1. ASSUME NEW c \in Conns, Connection(c) PROVE ListInv' /\ StreamInv'
    BY <1>1, <2>1, SThreadStreams, ChildThreadsKeep, CallbackKeeps, RemoveKeeps DEF Connection
  <2>2. ASSUME LinkSend \/ LinkWriterCrash \/ LinkLost \/ ParentStops \/ UNCHANGED vars PROVE ListInv' /\ StreamInv'
    <3>1. UNCHANGED <<sockVars, spc, pair, depackVars, children, arrived, mpc, mchild, mpkt>>
      BY <2>2 DEF LinkSend, LinkWriterCrash, LinkLost, ParentStops, vars, svrVars, connVars, mVars
    <3>2. \A d \in Conns : Forward(d) /\ Still(d)
      BY <3>1 DEF Forward, Still, Connected, Active, sockVars, writerVars, depackVars
    <3>3. LinkStill
      BY <3>1 DEF LinkStill
    <3> QED
      BY <1>1, <3>1, <3>2, <3>3, ListStill, StreamStill
  <2> QED
    BY <1>1, <2>1, <2>2, MThreadKeeps DEF Next
<1> QED
  BY <1>2, <1>3 DEF ListsAndStreams

LEMMA AlwaysLists == Spec => []ListsAndStreams
<1>1. Init => ListsAndStreams
  BY InitLists, InitIInv DEF ListsAndStreams
<1> QED
  BY <1>1, NextLists, PTL DEF Spec

-----------------------------------------------------------------------------
(* Theorems *)

\* A connection whose socket works can be found by its port pair from the moment
\* the thread has listed it until it takes itself off the list, and no child is
\* listed twice (_children of ModemSvrConnection).
THEOREM LiveAreListed == Spec => []LiveIsListed
<1>1. ListsAndStreams => LiveIsListed
  <2> SUFFICES ASSUME ListsAndStreams PROVE LiveIsListed
    OBVIOUS
  <2>1. children \in Seq(Conns)
    BY DEF ListsAndStreams, IInv, LinkInv, LinkTypeOK
  <2>2. \A c \in Kids : Contains(children, c)
    BY <2>1 DEF Kids, ToSet, Contains
  <2> QED
    BY <2>2 DEF ListsAndStreams, ListInv, LiveIsListed
<1> QED
  BY <1>1, AlwaysLists, PTL

\* What a server is sent are packets of its own port pair, in the order of their
\* arrival and none missing between two that are sent, whatever connections of
\* the same pair come and go (ModemSvrConnection.run, Depacketize, SockWriteThread).
THEOREM StreamsWithoutHoles == Spec => []NoHoleInStream
<1>1. ListsAndStreams => NoHoleInStream
  <2> SUFFICES ASSUME ListsAndStreams, NEW c \in Conns, NEW i \in DOMAIN delivered[c]
               PROVE  /\ delivered[c][i] \in 1 .. arrived[pair[c]]
                      /\ i > 1 => delivered[c][i] = delivered[c][i - 1] + 1
    BY DEF NoHoleInStream
  <2> DEFINE s == delivered[c]
  <2>1. s \in Seq(Nat) /\ Row(s, arrived[pair[c]])
    BY QueueTypes DEF ListsAndStreams, StreamInv, OfConn, Joined
  <2>2. i \in 1..Len(s) /\ Len(s) \in Nat /\ DOMAIN s = 1..Len(s) /\ s[1] \in Nat
    BY <2>1
  <2>3. s[i] \in 1..arrived[pair[c]] /\ s[i] = (s[1] + i) - 1
    BY <2>1, <2>2 DEF Row
  <2>4. i > 1 => s[i - 1] = (s[1] + (i - 1)) - 1
    <3>1. i > 1 => i - 1 \in 1..Len(s)
      BY <2>2
    <3> QED
      BY <2>1, <3>1 DEF Row
  <2>5. (s[1] + i) - 1 = ((s[1] + (i - 1)) - 1) + 1
    BY <2>2
  <2> QED
    BY <2>3, <2>4, <2>5
<1> QED
  BY <1>1, AlwaysLists, PTL
=============================================================================
