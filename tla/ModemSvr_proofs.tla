--------------------------- MODULE ModemSvr_proofs ---------------------------
(* Theorems about ModemSvr, for every number of diallings and of clients.     *)
EXTENDS ModemSvr, TLAPS

Dialling == {"open", "init", "command", "connect1", "connect2", "giveup"}

\* The parts of TypeOK that change together.
KTypes ==
    /\ kpc \in Dialling \cup {"loop", "listener", "dummy", "connection", "join", "hangup", "ended"}
    /\ state \in {"start", "to_proxy", "established"}
    /\ dial \in 0..MaxDials /\ modem \in {0, dial} /\ conn \in {0, modem} /\ asked \in BOOLEAN
LineTypes == carrier \in BOOLEAN /\ port \in [Dials -> BOOLEAN] /\ dark \in [Dials -> BOOLEAN]
ListenTypes ==
    /\ lpc \in {"none", "test", "bind", "check", "accept", "gone"} /\ sock \in Clients \cup {NoClient}
    /\ wake \in BOOLEAN
    /\ client \in [Clients -> {"idle", "calls", "quit", "accepted", "left", "closed"}]
ConnTypes ==
    /\ cpc \in [Dials -> {"none", "loop", "reader", "writer", "handler", "gone"}]
    /\ cstop \in [Dials -> BOOLEAN] /\ csock \in [Dials -> Clients \cup {NoClient}]
    /\ rpc \in [Dials -> {"none", "run", "gone", "crashed"}]
    /\ wpc \in [Dials -> {"none", "run", "gone"}] /\ hpc \in [Dials -> {"none", "run", "gone"}]

\* What the connector holds, by where it stands.
HoldsInv ==
    /\ kpc \in Dialling => state = "start"
    /\ kpc = "join" => conn # 0
    /\ kpc = "hangup" => conn = 0
    /\ conn # 0 => state = "established"

\* There is no connection of a dialling to come, and that of the modem is made last.
\* A connection is in its loop only while the connector refers to it, and it lets
\* go of a modem that is in use only by hanging up; threads that talk to the modem
\* are children the connection has not joined.
UseInv ==
    \A d \in Dials :
        /\ InUse(d) => d <= dial
        /\ InUse(d) /\ modem = d => state = "established"
        /\ cpc[d] = "loop" => conn = d
        /\ InUse(d) /\ modem # d => ~port[d] \/ dark[d]
        /\ rpc[d] = "run" => cpc[d] \in {"loop", "reader"}
        /\ wpc[d] = "run" => cpc[d] \in {"loop", "reader", "writer"}

\* The inductive invariant.
IInv == KTypes /\ LineTypes /\ ListenTypes /\ ConnTypes /\ HoldsInv /\ UseInv

USE ModemSvrAssumption

-----------------------------------------------------------------------------
(* The initial states *)

LEMMA InitIInv == Init => IInv
<1> SUFFICES ASSUME Init PROVE IInv
  OBVIOUS
<1>0. 0 \in 0..MaxDials
  OBVIOUS
<1>1. KTypes /\ HoldsInv
  BY <1>0 DEF Init, KTypes, HoldsInv, Dialling
<1>2. LineTypes
  BY DEF Init, LineTypes
<1>3. ListenTypes
  BY DEF Init, ListenTypes
<1>4. ConnTypes
  BY DEF Init, ConnTypes
<1>5. UseInv
  BY DEF Init, UseInv, InUse
<1> QED
  BY <1>1, <1>2, <1>3, <1>4, <1>5 DEF IInv

-----------------------------------------------------------------------------
(* Dialling *)

\* The modem of before is in no connection's use, and the new one in none yet.
LEMMA MakeModemIInv == IInv /\ MakeModem => IInv'
<1> SUFFICES ASSUME IInv, MakeModem PROVE IInv'
  OBVIOUS
<1>1. KTypes' /\ HoldsInv'
  BY DEF IInv, KTypes, HoldsInv, MakeModem, KStep, Dialling
<1>2. LineTypes' /\ ListenTypes' /\ ConnTypes'
  BY DEF IInv, LineTypes, ListenTypes, ConnTypes, MakeModem, lineVars, listenVars, connVars
<1>3. UseInv'
  BY DEF IInv, UseInv, KTypes, HoldsInv, MakeModem, InUse, Dials, lineVars, connVars
<1> QED
  BY <1>1, <1>2, <1>3 DEF IInv

\* The port of the modem is opened and closed; no connection has it yet.
LEMMA DialIInv == IInv /\ (OpenPort \/ InitModem \/ EnterCmdMode \/ Connect) => IInv'
<1> SUFFICES ASSUME IInv, OpenPort \/ InitModem \/ EnterCmdMode \/ Connect PROVE IInv'
  OBVIOUS
<1>0. /\ UNCHANGED <<state, dial, modem, asked, dark, listenVars, client, conn, connVars>>
      /\ kpc \in Dialling /\ kpc' \in Dialling \cup {"loop"} /\ state = "start"
      /\ \E b \in BOOLEAN : port' = [port EXCEPT ![modem] = b] \/ port' = port
      /\ carrier' \in BOOLEAN
  BY DEF IInv, HoldsInv, LineTypes, OpenPort, InitModem, EnterCmdMode, Connect, KStep, Send, ToggleDTR,
         Dialling, lineVars
<1>1. KTypes' /\ HoldsInv'
  BY <1>0 DEF IInv, KTypes, HoldsInv, Dialling
<1>2. LineTypes' /\ ListenTypes' /\ ConnTypes'
  BY <1>0 DEF IInv, LineTypes, ListenTypes, ConnTypes, listenVars, connVars
<1>3. UseInv'
  <2> SUFFICES ASSUME NEW d \in Dials PROVE (UseInv!(d))'
    BY DEF UseInv
  <2>1. modem # d => port'[d] = port[d]
    BY <1>0 DEF IInv, LineTypes
  <2> QED
    BY <1>0, <2>1 DEF IInv, UseInv, InUse, connVars
<1> QED
  BY <1>1, <1>2, <1>3 DEF IInv

\* hangup() closes the port of the modem or leaves it dark; no connection is referred to.
LEMMA HangUpIInv ==
  ASSUME IInv, HangUp, conn = 0, conn' = 0, dial' = dial, cpc' = cpc, rpc' = rpc, wpc' = wpc
  PROVE  LineTypes' /\ UseInv'
<1>0. modem' = 0 /\ (modem # 0 => modem \in Dials)
  BY DEF IInv, KTypes, HangUp, Dials
<1>1. \/ /\ modem # 0 /\ port' = [port EXCEPT ![modem] = FALSE] /\ carrier' = FALSE /\ dark' = dark
      \/ /\ modem # 0 /\ dark' = [dark EXCEPT ![modem] = TRUE] /\ port' = port
         /\ carrier' = (carrier /\ InUse(modem))
      \/ modem = 0 /\ port' = port /\ dark' = dark /\ carrier' = carrier
  BY DEF HangUp
<1>2. carrier' \in BOOLEAN
  BY <1>1 DEF IInv, LineTypes
<1>3. port' \in [Dials -> BOOLEAN] /\ dark' \in [Dials -> BOOLEAN]
  BY <1>1 DEF IInv, LineTypes
<1>4. UseInv'
  <2> SUFFICES ASSUME NEW d \in Dials PROVE (UseInv!(d))'
    BY DEF UseInv
  <2>1. CASE d = modem
    <3>1. ~port'[d] \/ dark'[d]
      BY <1>1, <2>1 DEF IInv, LineTypes, Dials
    <3> QED
      BY <1>0, <2>1, <3>1 DEF IInv, UseInv, InUse, Dials
  <2>2. CASE d # modem
    <3>1. port'[d] = port[d] /\ dark'[d] = dark[d]
      BY <1>1, <2>2 DEF IInv, LineTypes
    <3> QED
      BY <1>0, <2>2, <3>1 DEF IInv, UseInv, InUse, Dials
  <2> QED
    BY <2>1, <2>2
<1> QED
  BY <1>2, <1>3, <1>4 DEF LineTypes

LEMMA GiveUpIInv == IInv /\ GiveUp => IInv'
<1> SUFFICES ASSUME IInv, GiveUp PROVE IInv'
  OBVIOUS
<1>0. /\ HangUp /\ modem' = 0 /\ conn = 0 /\ kpc' = "loop"
      /\ UNCHANGED <<state, dial, asked, listenVars, client, conn, connVars>>
  BY DEF GiveUp, KStep, HangUp, IInv, HoldsInv, KTypes, Dialling
<1>1. KTypes' /\ HoldsInv'
  BY <1>0 DEF IInv, KTypes, HoldsInv, Dialling
<1>2. LineTypes' /\ UseInv'
  BY <1>0, HangUpIInv DEF connVars
<1>3. ListenTypes' /\ ConnTypes'
  BY <1>0 DEF IInv, ListenTypes, ConnTypes, listenVars, connVars
<1> QED
  BY <1>1, <1>2, <1>3 DEF IInv

-----------------------------------------------------------------------------
(* The loop of the connector *)

\* Steps that touch neither the modem nor a connection.
LEMMA QuietIInv ==
  ASSUME IInv, UNCHANGED <<dial, modem, lineVars, conn, connVars>>, asked' \in BOOLEAN,
         KTypes' /\ HoldsInv', ListenTypes',
         state' # state => state' = "established" \/ (state = "start" /\ state' = "to_proxy")
  PROVE  IInv'
<1>1. LineTypes' /\ ConnTypes'
  BY DEF IInv, LineTypes, ConnTypes, lineVars, connVars
<1>2. UseInv'
  BY DEF IInv, UseInv, InUse, lineVars, connVars
<1> QED
  BY <1>1, <1>2 DEF IInv

LEMMA LoopIInv == IInv /\ (Dialled \/ MakeListener \/ Kill \/ WakeListener \/ ListenerJoined) => IInv'
<1> SUFFICES ASSUME IInv, Dialled \/ MakeListener \/ Kill \/ WakeListener \/ ListenerJoined PROVE IInv'
  OBVIOUS
<1>1. /\ UNCHANGED <<dial, modem, asked, lineVars, conn, connVars>>
      /\ state' = state \/ (state = "start" /\ state' = "to_proxy")
      /\ kpc' \in {"loop", "listener", "dummy", "connection"}
  BY DEF Dialled, MakeListener, Kill, WakeListener, ListenerJoined, KStep
<1>2. KTypes' /\ HoldsInv'
  BY <1>1 DEF IInv, KTypes, HoldsInv, Dialling
<1>3. ListenTypes'
  <2>1. CASE ListenerJoined
    BY <2>1 DEF IInv, ListenTypes, ListenerJoined
  <2>2. CASE WakeListener
    BY <2>2 DEF IInv, ListenTypes, WakeListener, Listens
  <2>3. CASE Dialled \/ MakeListener \/ Kill
    BY <2>3 DEF IInv, ListenTypes, Dialled, MakeListener, Kill, listenVars
  <2> QED
    BY <2>1, <2>2, <2>3
<1> QED
  BY <1>1, <1>2, <1>3, QuietIInv DEF IInv, KTypes

\* The connection that is made is that of the modem, which none uses yet.
LEMMA MakeConnectionIInv == IInv /\ MakeConnection => IInv'
<1> SUFFICES ASSUME IInv, MakeConnection PROVE IInv'
  OBVIOUS
<1>0. /\ modem \in Dials /\ kpc' = "loop" /\ state = "to_proxy" /\ state' = "established" /\ conn' = modem
      /\ conn = 0
      /\ UNCHANGED <<dial, modem, asked, lineVars, listenVars, client, cstop>>
  BY DEF IInv, KTypes, HoldsInv, MakeConnection, KStep, IsConnected, Dials
<1>1. KTypes' /\ HoldsInv'
  BY <1>0 DEF IInv, KTypes, HoldsInv, Dialling
<1>2. LineTypes' /\ ListenTypes'
  BY <1>0 DEF IInv, LineTypes, ListenTypes, lineVars, listenVars
<1>3. ConnTypes'
  BY <1>0 DEF IInv, ConnTypes, ListenTypes, MakeConnection
<1>4. UseInv'
  <2> SUFFICES ASSUME NEW d \in Dials PROVE (UseInv!(d))'
    BY DEF UseInv
  <2>1. CASE d = modem
    <3>1. cpc'[d] = "loop"
      BY <1>0, <2>1 DEF MakeConnection, IInv, ConnTypes
    <3>2. modem <= dial
      BY <1>0 DEF IInv, KTypes, Dials
    <3> QED
      BY <1>0, <2>1, <3>1, <3>2
  <2>2. CASE d # modem
    <3>1. cpc'[d] = cpc[d] /\ rpc'[d] = rpc[d] /\ wpc'[d] = wpc[d]
      BY <2>2 DEF MakeConnection, IInv, ConnTypes
    <3> QED
      BY <1>0, <2>2, <3>1 DEF IInv, UseInv, InUse, lineVars, Dials
  <2> QED
    BY <2>1, <2>2
<1> QED
  BY <1>1, <1>2, <1>3, <1>4 DEF IInv

\* The connector lets go of a connection that is not in its loop.
LEMMA LetGoIInv == IInv /\ (StopConnection \/ ConnectionJoined) => IInv'
<1> SUFFICES ASSUME IInv, StopConnection \/ ConnectionJoined PROVE IInv'
  OBVIOUS
<1>0. /\ UNCHANGED <<state, dial, modem, asked, lineVars, listenVars, client, cpc, csock, rpc, wpc, hpc>>
      /\ \/ kpc' = "join" /\ conn # 0 /\ conn' = conn
         \/ kpc' = "hangup" /\ conn' = 0 /\ (conn # 0 => cpc[conn] # "loop")
      /\ cstop' = cstop \/ cstop' = [cstop EXCEPT ![conn] = TRUE]
  <2>1. CASE StopConnection /\ CRunning
    BY <2>1 DEF StopConnection, CRunning, KStep
  <2>2. CASE StopConnection /\ ~CRunning
    BY <2>2 DEF StopConnection, CRunning, KStep
  <2>3. CASE ConnectionJoined
    BY <2>3 DEF ConnectionJoined, KStep, connVars
  <2> QED
    BY <2>1, <2>2, <2>3
<1>1. KTypes' /\ HoldsInv'
  BY <1>0 DEF IInv, KTypes, HoldsInv, Dialling
<1>2. LineTypes' /\ ListenTypes'
  BY <1>0 DEF IInv, LineTypes, ListenTypes, lineVars, listenVars
<1>3. ConnTypes'
  BY <1>0 DEF IInv, ConnTypes
<1>4. UseInv'
  BY <1>0 DEF IInv, UseInv, InUse, lineVars, Dials
<1> QED
  BY <1>1, <1>2, <1>3, <1>4 DEF IInv

LEMMA KillEndsIInv == IInv /\ KillEnds => IInv'
<1> SUFFICES ASSUME IInv, KillEnds PROVE IInv'
  OBVIOUS
<1>0. /\ HangUp /\ modem' = 0 /\ conn = 0 /\ kpc' \in {"ended", "loop"} /\ state' = "start"
      /\ UNCHANGED <<dial, asked, listenVars, client, conn, connVars>>
  BY DEF KillEnds, KStep, HangUp, IInv, HoldsInv
<1>1. KTypes' /\ HoldsInv'
  BY <1>0 DEF IInv, KTypes, HoldsInv, Dialling
<1>2. LineTypes' /\ UseInv'
  BY <1>0, HangUpIInv DEF connVars
<1>3. ListenTypes' /\ ConnTypes'
  BY <1>0 DEF IInv, ListenTypes, ConnTypes, listenVars, connVars
<1> QED
  BY <1>1, <1>2, <1>3 DEF IInv

-----------------------------------------------------------------------------
(* The listener, the threads of the connections, and the others *)

\* Only what is listened for changes.
LEMMA ListenIInv ==
  ASSUME IInv, UNCHANGED <<kVars, lineVars, conn, connVars>>, ListenTypes'
  PROVE  IInv'
<1>1. KTypes' /\ HoldsInv'
  BY DEF IInv, KTypes, HoldsInv, kVars
<1> QED
  BY <1>1, QuietIInv DEF IInv, KTypes, kVars

LEMMA ListenerIInv == IInv /\ Listener => IInv'
<1> SUFFICES ASSUME IInv, Listener PROVE IInv'
  OBVIOUS
<1>1. UNCHANGED <<kVars, lineVars, conn, connVars, wake>>
  BY DEF Listener, LTest, LListen, LCheck, LWoken, LAccept
<1>2. lpc' \in {"test", "bind", "check", "accept", "gone"}
  BY DEF Listener, LTest, LListen, LCheck, LWoken, LAccept
<1>3. sock' \in Clients \cup {NoClient}
  BY DEF IInv, ListenTypes, Listener, LTest, LListen, LCheck, LWoken, LAccept
<1>4. client' \in [Clients -> {"idle", "calls", "quit", "accepted", "left", "closed"}]
  <2>1. CASE LTest \/ LListen
    BY <2>1 DEF IInv, ListenTypes, LTest, LListen
  <2>2. CASE LCheck
    BY <2>2 DEF IInv, ListenTypes, LCheck
  <2>3. CASE LWoken
    BY <2>3 DEF IInv, ListenTypes, LWoken
  <2>4. ASSUME NEW i \in Clients, LAccept(i)
        PROVE  client' \in [Clients -> {"idle", "calls", "quit", "accepted", "left", "closed"}]
    BY <2>4 DEF IInv, ListenTypes, LAccept
  <2> QED
    BY <2>1, <2>2, <2>3, <2>4 DEF Listener
<1> QED
  <2>1. ListenTypes'
    BY <1>1, <1>2, <1>3, <1>4 DEF IInv, ListenTypes
  <2> QED
    BY <1>1, <2>1, ListenIInv

\* What a connection and its threads may do to it.
LEMMA ConnectionIInv ==
  ASSUME IInv, UNCHANGED <<kVars, lineVars, listenVars, conn>>, NEW d \in Dials,
         client' \in [Clients -> {"idle", "calls", "quit", "accepted", "left", "closed"}],
         ConnTypes',
         InUse(d), cpc'[d] \notin {"none", "loop"} \/ cpc'[d] = cpc[d],
         rpc'[d] = "run" => cpc'[d] \in {"loop", "reader"},
         wpc'[d] = "run" => cpc'[d] \in {"loop", "reader", "writer"},
         \A e \in Dials \ {d} : cpc'[e] = cpc[e] /\ rpc'[e] = rpc[e] /\ wpc'[e] = wpc[e]
  PROVE  IInv'
<1>1. KTypes' /\ HoldsInv'
  BY DEF IInv, KTypes, HoldsInv, kVars
<1>2. LineTypes' /\ ListenTypes'
  BY DEF IInv, LineTypes, ListenTypes, lineVars, listenVars
<1>3. UseInv'
  <2> SUFFICES ASSUME NEW e \in Dials PROVE (UseInv!(e))'
    BY DEF UseInv
  <2>1. CASE e = d
    BY <2>1 DEF IInv, UseInv, InUse, kVars, lineVars
  <2>2. CASE e # d
    BY <2>2 DEF IInv, UseInv, InUse, kVars, lineVars
  <2> QED
    BY <2>1, <2>2
<1> QED
  BY <1>1, <1>2, <1>3 DEF IInv

LEMMA ThreadIInv == ASSUME IInv, NEW d \in Dials, Thread(d) \/ RTimesOut(d) \/ RCrashes(d) PROVE IInv'
<1>1. UNCHANGED <<kVars, lineVars, listenVars, conn>>
  BY DEF Thread, CLeave, CReaderJoined, CWriterJoined, CHandlerJoined, REnds, WEnds, HEnds, RTimesOut, RCrashes
<1>2. CASE CLeave(d) \/ CReaderJoined(d) \/ CWriterJoined(d)
  <2>1. /\ UNCHANGED <<client, cstop, csock, rpc, wpc, hpc>>
        /\ InUse(d) /\ \E to \in {"reader", "writer", "handler"} : cpc' = [cpc EXCEPT ![d] = to]
    BY <1>2 DEF CLeave, CReaderJoined, CWriterJoined, CStep, InUse
  <2>2. ConnTypes'
    BY <2>1 DEF IInv, ConnTypes
  <2>3. rpc'[d] = "run" => cpc'[d] \in {"loop", "reader"}
    BY <1>2, <2>1 DEF IInv, ConnTypes, UseInv, CLeave, CReaderJoined, CWriterJoined, CStep
  <2>4. wpc'[d] = "run" => cpc'[d] \in {"loop", "reader", "writer"}
    BY <1>2, <2>1 DEF IInv, ConnTypes, UseInv, CLeave, CReaderJoined, CWriterJoined, CStep
  <2>5. cpc'[d] \notin {"none", "loop"} /\ \A e \in Dials \ {d} : cpc'[e] = cpc[e]
    BY <2>1 DEF IInv, ConnTypes
  <2> QED
    BY <1>1, <2>1, <2>2, <2>3, <2>4, <2>5, ConnectionIInv DEF IInv, ListenTypes
<1>3. CASE CHandlerJoined(d)
  <2>1. ConnTypes' /\ client' = client
    BY <1>3 DEF IInv, ConnTypes, CHandlerJoined, CStep
  <2>2. InUse(d) /\ cpc'[d] = "gone" /\ rpc'[d] = "none" /\ wpc'[d] = "none"
    BY <1>3 DEF IInv, ConnTypes, CHandlerJoined, CStep, InUse
  <2>3. \A e \in Dials \ {d} : cpc'[e] = cpc[e] /\ rpc'[e] = rpc[e] /\ wpc'[e] = wpc[e]
    BY <1>3 DEF IInv, ConnTypes, CHandlerJoined, CStep
  <2> QED
    BY <1>1, <2>1, <2>2, <2>3, ConnectionIInv DEF IInv, ListenTypes
<1>4. CASE REnds(d) \/ RTimesOut(d) \/ RCrashes(d) \/ WEnds(d)
  <2>1. UNCHANGED <<cpc, client>>
    BY <1>4 DEF REnds, RTimesOut, RCrashes, WEnds
  <2>2. ConnTypes'
    BY <1>4 DEF IInv, ConnTypes, REnds, RTimesOut, RCrashes, WEnds
  <2>3. InUse(d)
    BY <1>4 DEF IInv, UseInv, InUse, REnds, RTimesOut, RCrashes, WEnds
  <2>4. /\ rpc'[d] # rpc[d] => rpc'[d] \in {"gone", "crashed"}
        /\ wpc'[d] # wpc[d] => wpc'[d] = "gone"
        /\ \A e \in Dials \ {d} : rpc'[e] = rpc[e] /\ wpc'[e] = wpc[e]
    BY <1>4 DEF IInv, ConnTypes, REnds, RTimesOut, RCrashes, WEnds
  <2> QED
    BY <1>1, <2>1, <2>2, <2>3, <2>4, ConnectionIInv DEF IInv, ListenTypes, UseInv
<1>5. CASE HEnds(d)
  <2>1. UNCHANGED <<kVars, lineVars, listenVars, conn, cpc, csock, rpc, wpc>>
    BY <1>5 DEF HEnds
  <2>2. KTypes' /\ HoldsInv' /\ LineTypes'
    BY <2>1 DEF IInv, KTypes, HoldsInv, LineTypes, kVars, lineVars
  <2>3. ListenTypes' /\ ConnTypes'
    BY <1>5, <2>1 DEF IInv, ListenTypes, ConnTypes, HEnds, listenVars
  <2>4. UseInv'
    BY <2>1 DEF IInv, UseInv, InUse, kVars, lineVars
  <2> QED
    BY <2>2, <2>3, <2>4 DEF IInv
<1> QED
  BY <1>2, <1>3, <1>4, <1>5 DEF Thread

LEMMA OthersIInv ==
  ASSUME IInv, (\E i \in Clients : Call(i) \/ Leave(i)) \/ CarrierLost \/ StopAsks
  PROVE  IInv'
<1>1. ASSUME NEW i \in Clients, Call(i) \/ Leave(i) PROVE IInv'
  <2>1. UNCHANGED <<kVars, lineVars, listenVars, conn, connVars>>
    BY <1>1 DEF Call, Leave
  <2>2. ListenTypes'
    BY <1>1, <2>1 DEF IInv, ListenTypes, Call, Leave, listenVars
  <2> QED
    BY <2>1, <2>2, ListenIInv
<1>2. CASE CarrierLost
  <2>1. KTypes' /\ HoldsInv'
    BY <1>2 DEF IInv, KTypes, HoldsInv, CarrierLost, kVars
  <2>2. LineTypes' /\ ListenTypes'
    BY <1>2 DEF IInv, LineTypes, ListenTypes, CarrierLost, listenVars
  <2>3. ConnTypes'
    BY <1>2 DEF IInv, ConnTypes, CarrierLost, connVars
  <2>4. UseInv'
    BY <1>2 DEF IInv, UseInv, InUse, CarrierLost, kVars, connVars
  <2> QED
    BY <2>1, <2>2, <2>3, <2>4 DEF IInv
<1>3. CASE StopAsks
  <2>1. KTypes' /\ HoldsInv'
    BY <1>3 DEF IInv, KTypes, HoldsInv, StopAsks
  <2>2. ListenTypes'
    BY <1>3 DEF IInv, ListenTypes, StopAsks, listenVars
  <2> QED
    BY <1>3, <2>1, <2>2, QuietIInv DEF StopAsks
<1> QED
  BY <1>1, <1>2, <1>3

LEMMA StutterIInv == IInv /\ UNCHANGED vars => IInv'
<1> SUFFICES ASSUME IInv, UNCHANGED vars PROVE IInv'
  OBVIOUS
<1>1. ListenTypes'
  BY DEF IInv, ListenTypes, vars, listenVars
<1> QED
  BY <1>1, ListenIInv DEF vars

LEMMA NextIInv == IInv /\ [Next]_vars => IInv'
<1> SUFFICES ASSUME IInv, [Next]_vars PROVE IInv'
  OBVIOUS
<1>1. CASE KThread
  BY <1>1, MakeModemIInv, DialIInv, GiveUpIInv, LoopIInv, MakeConnectionIInv, LetGoIInv, KillEndsIInv DEF KThread
<1>2. CASE Listener
  BY <1>2, ListenerIInv
<1>3. ASSUME NEW d \in Dials, Thread(d) \/ RTimesOut(d) \/ RCrashes(d) PROVE IInv'
  BY <1>3, ThreadIInv
<1>4. CASE (\E i \in Clients : Call(i) \/ Leave(i)) \/ CarrierLost \/ StopAsks
  BY <1>4, OthersIInv
<1>5. CASE UNCHANGED vars
  BY <1>5, StutterIInv
<1> QED
  BY <1>1, <1>2, <1>3, <1>4, <1>5 DEF Next

-----------------------------------------------------------------------------
(* Theorems *)

\* The invariant is inductive: it holds in every reachable state.
THEOREM InvariantHolds == Spec => []IInv
<1>1. IInv /\ [Next]_vars => IInv'
  BY NextIInv
<1> QED
  BY InitIInv, <1>1, PTL DEF Spec

\* Every variable keeps its type; the connector refers to no connection but that of
\* its modem, and to no modem but the last (modem_svr.py:299-355).
THEOREM TypeCorrect == Spec => []TypeOK
<1>1. IInv => TypeOK
  BY DEF IInv, KTypes, LineTypes, ListenTypes, ConnTypes, TypeOK, Dialling
<1> QED
  BY InvariantHolds, <1>1, PTL

\* However many diallings there are, a thread of an earlier connection still talks
\* to the serial port only where the modem had no power when it was hung up, and
\* then only until it has been joined (modem_svr.py:179-199, RudicsModem.py:137-143).
THEOREM OneTalker == Spec => []OneTalksToTheModem
<1>1. IInv => OneTalksToTheModem
  <2> SUFFICES ASSUME IInv, NEW d \in Dials, Talks(d), modem \notin {0, d}
               PROVE  dark[d] /\ cpc[d] \in {"reader", "writer"}
    BY DEF OneTalksToTheModem
  <2>1. port[d] /\ InUse(d) /\ (rpc[d] = "run" \/ wpc[d] = "run")
    BY DEF Talks, Reaches
  <2>2. dark[d] /\ cpc[d] \in {"loop", "reader", "writer"}
    BY <2>1 DEF IInv, UseInv
  <2>3. cpc[d] # "loop"
    BY DEF IInv, UseInv, KTypes, Dials
  <2> QED
    BY <2>2, <2>3
<1> QED
  BY InvariantHolds, <1>1, PTL
=============================================================================
