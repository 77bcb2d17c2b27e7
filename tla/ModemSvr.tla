------------------------------ MODULE ModemSvr ------------------------------
(* modem_svr/modem_svr.py with modem/RudicsModem.py: dials the RUDICS server  *)
(* through the Iridium modem, accepts a connection of svr_proxy, and moves    *)
(* data between the two until one of them is lost; then everything is taken   *)
(* down and it dials again.  Every dialling makes a RudicsModem object of its *)
(* own for the one serial port.  Connection d belongs to dialling d.          *)
EXTENDS Naturals

CONSTANTS
    MaxDials,   \* Bound on the diallings.
    Clients,    \* The connections svr_proxy makes.
    NoClient    \* No connection of svr_proxy.

ASSUME ModemSvrAssumption == MaxDials \in Nat /\ MaxDials > 0 /\ NoClient \notin Clients

Dials == 1..MaxDials

VARIABLES
    kpc,        \* Where RUDICSSvrProxyConnector is; between the calls it makes, "loop".
    state,      \* Its variable state.
    dial,       \* The diallings so far.
    modem,      \* The dialling of _modem, or 0 for None.
    asked,      \* Its _stop_event.
    carrier,    \* Whether the modem has a connection with the RUDICS server.
    port,       \* For each dialling, whether its serial port was opened and not closed.
    dark,       \* It was hung up when hw_mgr did not say it has power. (History.)
    lpc,        \* Where SvrProxyConnector is,
    wake,       \* whether the connection of its stop() is waiting for it, and
    sock,       \* the client whose socket it has.
    client,     \* For each client, what has become of its socket.
    conn,       \* _rudics_svr_proxy_connection, or 0.
    cpc,        \* Where each RUDICSSvrProxyConnection is,
    cstop,      \* its _stop_event,
    csock,      \* the client it serves,
    rpc,        \* and where its ModemReadThread,
    wpc,        \* its ModemWriteThread
    hpc         \* and its SockHandler are.

kVars == <<kpc, state, dial, modem, asked>>
lineVars == <<carrier, port, dark>>
listenVars == <<lpc, wake, sock>>
connVars == <<cpc, cstop, csock, rpc, wpc, hpc>>
vars == <<kVars, lineVars, listenVars, client, conn, connVars>>

Init ==
    /\ kpc = "loop" /\ state = "start" /\ dial = 0 /\ modem = 0 /\ asked = FALSE
    /\ carrier = FALSE
    /\ port = [d \in Dials |-> FALSE]
    /\ dark = [d \in Dials |-> FALSE]
    /\ lpc = "none" /\ wake = FALSE /\ sock = NoClient
    /\ client = [i \in Clients |-> "idle"]
    /\ conn = 0
    /\ cpc = [d \in Dials |-> "none"]
    /\ cstop = [d \in Dials |-> FALSE]
    /\ csock = [d \in Dials |-> NoClient]
    /\ rpc = [d \in Dials |-> "none"]
    /\ wpc = [d \in Dials |-> "none"]
    /\ hpc = [d \in Dials |-> "none"]

KStep(from, to) == kpc = from /\ kpc' = to

-----------------------------------------------------------------------------
(* RudicsModem *)

\* isConnected(); the flag _connected is set with the carrier and reset with the port.
IsConnected == modem # 0 /\ port[modem] /\ carrier

\* _make_rudics_connection makes the object.
MakeModem ==
    /\ KStep("loop", "open")
    /\ ~asked /\ state = "start" /\ ~IsConnected /\ dial < MaxDials
    /\ dial' = dial + 1 /\ modem' = dial + 1
    /\ UNCHANGED <<state, asked, lineVars, listenVars, client, conn, connVars>>

\* _send: the modem answers as expected, or rejects, is silent, or its port is closed.
Send(from, expected, otherwise) == KStep(from, expected) \/ KStep(from, otherwise)

\* Lowering DTR ends a call.
ToggleDTR == carrier' = FALSE

\* dialup() does nothing when hw_mgr does not answer, or that there is no power.
OpenPort ==
    /\ \/ /\ KStep("open", "init")
          /\ port' = [port EXCEPT ![modem] = TRUE]
          /\ ToggleDTR
       \/ KStep("open", "giveup") /\ UNCHANGED <<port, carrier>>
    /\ UNCHANGED <<state, dial, modem, asked, dark, listenVars, client, conn, connVars>>

\* Ten commands, each sent if the one before was answered; the port of a modem that
\* cannot be initialized is closed again.
InitModem ==
    /\ Send("init", "command", "giveup")
    /\ IF kpc' = "giveup" THEN port' = [port EXCEPT ![modem] = FALSE] /\ ToggleDTR
                          ELSE UNCHANGED <<port, carrier>>
    /\ UNCHANGED <<state, dial, modem, asked, dark, listenVars, client, conn, connVars>>

EnterCmdMode ==
    /\ Send("command", "connect1", "giveup")
    /\ UNCHANGED <<state, dial, modem, asked, lineVars, listenVars, client, conn, connVars>>

\* _connect, twice; after the last attempt dialup() hangs up, and closes the port in any case.
Connect ==
    /\ Send("connect1", "loop", "connect2") \/ Send("connect2", "loop", "giveup")
    /\ CASE kpc' = "loop" -> carrier' = TRUE /\ UNCHANGED port
         [] kpc' = "connect2" -> UNCHANGED <<carrier, port>>
         [] kpc' = "giveup" -> port' = [port EXCEPT ![modem] = FALSE] /\ ToggleDTR
    /\ UNCHANGED <<state, dial, modem, asked, dark, listenVars, client, conn, connVars>>

\* A modem object goes on to exist while a connection uses it, and with it its port.
InUse(d) == cpc[d] \notin {"none", "gone"}

\* Mutant: without power, the port is left to itself and the carrier with it.
HangUpNoClose ==
    /\ modem' = 0
    /\ UNCHANGED <<port, dark, carrier>>

\* hangup(): the modem is told, and the port closed, only if hw_mgr says that the
\* modem has power; hw_mgr may not answer either. The reference is dropped anyway, and the
\* port with it unless a connection holds it.
HangUp ==
    /\ modem' = 0
    /\ \/ /\ modem # 0
          /\ port' = [port EXCEPT ![modem] = FALSE] /\ carrier' = FALSE
          /\ UNCHANGED dark
       \/ /\ modem # 0
          /\ dark' = [dark EXCEPT ![modem] = TRUE]
          /\ carrier' = (carrier /\ InUse(modem))
          /\ UNCHANGED port
       \/ modem = 0 /\ UNCHANGED <<port, carrier, dark>>

GiveUp ==
    /\ KStep("giveup", "loop")
    /\ HangUp
    /\ UNCHANGED <<state, dial, asked, listenVars, client, conn, connVars>>

Reaches(d) == port[d] /\ (modem = d \/ InUse(d))

-----------------------------------------------------------------------------
(* RUDICSSvrProxyConnector *)

Dialled ==
    /\ KStep("loop", "loop")
    /\ ~asked /\ state = "start" /\ IsConnected
    /\ state' = "to_proxy"
    /\ UNCHANGED <<dial, modem, asked, lineVars, listenVars, client, conn, connVars>>

MakeListener ==
    /\ KStep("loop", "loop")
    /\ ~asked /\ state = "to_proxy" /\ IsConnected
    /\ lpc = "none"
    /\ lpc' = "test"
    /\ UNCHANGED <<state, dial, modem, asked, lineVars, wake, sock, client, conn, connVars>>

\* A connection is made of the two sides.
MakeConnection ==
    /\ KStep("loop", "loop")
    /\ ~asked /\ state = "to_proxy" /\ IsConnected
    /\ sock # NoClient
    /\ state' = "established"
    /\ conn' = modem
    /\ cpc' = [cpc EXCEPT ![modem] = "loop"]
    /\ csock' = [csock EXCEPT ![modem] = sock]
    /\ rpc' = [rpc EXCEPT ![modem] = "run"]
    /\ wpc' = [wpc EXCEPT ![modem] = "run"]
    /\ hpc' = [hpc EXCEPT ![modem] = "run"]
    /\ UNCHANGED <<dial, modem, asked, lineVars, listenVars, client, cstop>>

\* is_running() of the connection: its own loop, not its children.
CRunning == conn # 0 /\ cpc[conn] = "loop"
FullyConnected == CRunning /\ IsConnected

\* Mutant: the connection is only looked at through the modem.
LostIfNoCarrier ==
    \/ asked
    \/ state \in {"to_proxy", "established"} /\ ~IsConnected

\* What makes the loop call _kill_connections.
Lost ==
    \/ asked
    \/ state = "to_proxy" /\ ~IsConnected
    \/ state = "established" /\ ~FullyConnected

\* _kill_connections: the listener, the connection and the modem, in this order.
Kill ==
    /\ KStep("loop", "listener")
    /\ Lost
    /\ UNCHANGED <<state, dial, modem, asked, lineVars, listenVars, client, conn, connVars>>

Listens == lpc \in {"check", "accept"}

\* stop() has set the event; dummy_connection() is refused if nobody listens.
WakeListener ==
    /\ KStep("listener", "dummy")
    /\ wake' = Listens
    /\ UNCHANGED <<state, dial, modem, asked, lineVars, lpc, sock, client, conn, connVars>>

\* A socket that is dropped is closed, unless a connection has it.
Dropped(c) == IF c # NoClient /\ (conn = 0 \/ csock[conn] # c) THEN {c} ELSE {}

\* Mutant: a socket nobody took is left open.
ListenerJoinedSocketKept ==
    /\ KStep("dummy", "connection")
    /\ lpc \in {"none", "gone"}
    /\ lpc' = "none" /\ wake' = FALSE /\ sock' = NoClient
    /\ UNCHANGED <<state, dial, modem, asked, lineVars, client, conn, connVars>>

\* The last socket goes with the object.
ListenerJoined ==
    /\ KStep("dummy", "connection")
    /\ lpc \in {"none", "gone"}
    /\ lpc' = "none" /\ wake' = FALSE /\ sock' = NoClient
    /\ client' = [i \in Clients |-> IF i \in Dropped(sock) THEN "closed" ELSE client[i]]
    /\ UNCHANGED <<state, dial, modem, asked, lineVars, conn, connVars>>

\* Mutant: the reference to a connection that has ended is kept.
StopConnectionKeptReference ==
    /\ KStep("connection", IF CRunning THEN "join" ELSE "hangup")
    /\ cstop' = IF CRunning THEN [cstop EXCEPT ![conn] = TRUE] ELSE cstop
    /\ UNCHANGED <<state, dial, modem, asked, lineVars, listenVars, client, conn,
                   cpc, csock, rpc, wpc, hpc>>

\* stop() of a connection in its loop waits for it; otherwise it returns at once.
StopConnection ==
    /\ KStep("connection", IF CRunning THEN "join" ELSE "hangup")
    /\ cstop' = IF CRunning THEN [cstop EXCEPT ![conn] = TRUE] ELSE cstop
    /\ conn' = IF CRunning THEN conn ELSE 0
    /\ UNCHANGED <<state, dial, modem, asked, lineVars, listenVars, client,
                   cpc, csock, rpc, wpc, hpc>>

ConnectionJoined ==
    /\ KStep("join", "hangup")
    /\ cpc[conn] = "gone"
    /\ conn' = 0
    /\ UNCHANGED <<state, dial, modem, asked, lineVars, listenVars, client, connVars>>

KillEnds ==
    /\ KStep("hangup", IF asked THEN "ended" ELSE "loop")
    /\ HangUp
    /\ state' = "start"
    /\ UNCHANGED <<dial, asked, listenVars, client, conn, connVars>>

KThread ==
    \/ MakeModem \/ OpenPort \/ InitModem \/ EnterCmdMode \/ Connect \/ GiveUp
    \/ Dialled \/ MakeListener \/ MakeConnection
    \/ Kill \/ WakeListener \/ ListenerJoined \/ StopConnection \/ ConnectionJoined \/ KillEnds

-----------------------------------------------------------------------------
(* SvrProxyConnector *)

LStopped == kpc \in {"listener", "dummy"}

\* It goes on accepting after it has a socket: "connected" is never set.
LTest ==
    /\ lpc = "test"
    /\ lpc' = IF LStopped THEN "gone" ELSE "bind"
    /\ UNCHANGED <<kVars, lineVars, wake, sock, client, conn, connVars>>

LListen ==
    /\ lpc = "bind"
    /\ lpc' = "check"
    /\ UNCHANGED <<kVars, lineVars, wake, sock, client, conn, connVars>>

\* Clients that wait are reset when the server socket is closed.
Waiting == {i \in Clients : client[i] \in {"calls", "quit"}}

\* The event is tested once the port is open, so the connection of stop() is not missed.
LCheck ==
    /\ lpc = "check"
    /\ lpc' = IF LStopped THEN "gone" ELSE "accept"
    /\ client' = [i \in Clients |-> IF LStopped /\ i \in Waiting THEN "closed" ELSE client[i]]
    /\ UNCHANGED <<kVars, lineVars, wake, sock, conn, connVars>>

\* The socket of the client before is dropped, and when stopped that of this one.
LAccept(i) ==
    /\ lpc = "accept" /\ i \in Waiting
    /\ lpc' = IF LStopped THEN "gone" ELSE "test"
    /\ client' = [j \in Clients |->
                    IF j = i /\ ~LStopped THEN (IF client[i] = "calls" THEN "accepted" ELSE "left")
                    ELSE IF j \in Waiting \cup Dropped(sock) THEN "closed" ELSE client[j]]
    /\ sock' = IF LStopped THEN NoClient ELSE i
    /\ UNCHANGED <<kVars, lineVars, wake, conn, connVars>>

LWoken ==
    /\ lpc = "accept" /\ wake
    /\ lpc' = "gone" /\ sock' = NoClient
    /\ client' = [j \in Clients |-> IF j \in Waiting \cup Dropped(sock) THEN "closed" ELSE client[j]]
    /\ UNCHANGED <<kVars, lineVars, wake, conn, connVars>>

Listener == LTest \/ LListen \/ LCheck \/ LWoken \/ \E i \in Clients : LAccept(i)

-----------------------------------------------------------------------------
(* RUDICSSvrProxyConnection, ModemReadThread, ModemWriteThread *)

CStep(d, from, to) == cpc[d] = from /\ cpc' = [cpc EXCEPT ![d] = to]

\* The loop ends, and _running with it, before any child is stopped. A reader that
\* has crashed says that it is running.
CLeave(d) ==
    /\ CStep(d, "loop", "reader")
    /\ cstop[d] \/ rpc[d] = "gone"
    /\ UNCHANGED <<kVars, lineVars, listenVars, client, conn, cstop, csock, rpc, wpc, hpc>>

CReaderJoined(d) ==
    /\ CStep(d, "reader", "writer")
    /\ rpc[d] \in {"gone", "crashed"}
    /\ UNCHANGED <<kVars, lineVars, listenVars, client, conn, cstop, csock, rpc, wpc, hpc>>

CWriterJoined(d) ==
    /\ CStep(d, "writer", "handler")
    /\ wpc[d] = "gone"
    /\ UNCHANGED <<kVars, lineVars, listenVars, client, conn, cstop, csock, rpc, wpc, hpc>>

\* What is left of a connection that is gone is nothing to anybody.
CHandlerJoined(d) ==
    /\ CStep(d, "handler", "gone")
    /\ hpc[d] = "gone"
    /\ cstop' = [cstop EXCEPT ![d] = FALSE] /\ csock' = [csock EXCEPT ![d] = NoClient]
    /\ rpc' = [rpc EXCEPT ![d] = "none"] /\ wpc' = [wpc EXCEPT ![d] = "none"] /\ hpc' = [hpc EXCEPT ![d] = "none"]
    /\ UNCHANGED <<kVars, lineVars, listenVars, client, conn>>

\* Mutant: the reader looks at the modem and not at its stop event.
RMayEndIfClosed(d) == ~port[d]

\* It is stopped, or has read nothing for a minute and a half.
RMayEnd(d) == cpc[d] = "reader" \/ ~(carrier /\ Reaches(d))

REnds(d) ==
    /\ rpc[d] = "run"
    /\ RMayEnd(d)
    /\ rpc' = [rpc EXCEPT ![d] = "gone"]
    /\ UNCHANGED <<kVars, lineVars, listenVars, client, conn, cpc, cstop, csock, wpc, hpc>>

\* The server is silent for so long.
RTimesOut(d) ==
    /\ rpc[d] = "run" /\ cpc[d] = "loop" /\ carrier
    /\ rpc' = [rpc EXCEPT ![d] = "gone"]
    /\ UNCHANGED <<kVars, lineVars, listenVars, client, conn, cpc, cstop, csock, wpc, hpc>>

\* read() raises: the port is closed under it, or has another reader too. The
\* thread dies with _running set.
RCrashes(d) ==
    /\ rpc[d] = "run"
    /\ rpc' = [rpc EXCEPT ![d] = "crashed"]
    /\ UNCHANGED <<kVars, lineVars, listenVars, client, conn, cpc, cstop, csock, wpc, hpc>>

\* It is stopped, and woken by a text in its queue.
WEnds(d) ==
    /\ wpc[d] = "run" /\ cpc[d] = "writer"
    /\ wpc' = [wpc EXCEPT ![d] = "gone"]
    /\ UNCHANGED <<kVars, lineVars, listenVars, client, conn, cpc, cstop, csock, rpc, hpc>>

\* The socket is lost, or the handler is stopped; its callback stops the connection.
HEnds(d) ==
    /\ hpc[d] = "run"
    /\ client[csock[d]] = "left" \/ cpc[d] = "handler"
    /\ hpc' = [hpc EXCEPT ![d] = "gone"]
    /\ client' = [client EXCEPT ![csock[d]] = "closed"]
    /\ cstop' = [cstop EXCEPT ![d] = TRUE]
    /\ UNCHANGED <<kVars, lineVars, listenVars, conn, cpc, csock, rpc, wpc>>

Thread(d) ==
    \/ CLeave(d) \/ CReaderJoined(d) \/ CWriterJoined(d) \/ CHandlerJoined(d)
    \/ REnds(d) \/ WEnds(d) \/ HEnds(d)

-----------------------------------------------------------------------------
(* svr_proxy, the modem, and the user *)

\* svr_proxy may make a connection beside another (OnlyOneConnection, ModemSvrConnector).
Call(i) ==
    /\ client[i] = "idle" /\ Listens
    /\ client' = [client EXCEPT ![i] = "calls"]
    /\ UNCHANGED <<kVars, lineVars, listenVars, conn, connVars>>

Leave(i) ==
    /\ client[i] \in {"calls", "accepted"}
    /\ client' = [client EXCEPT ![i] = IF client[i] = "calls" THEN "quit" ELSE "left"]
    /\ UNCHANGED <<kVars, lineVars, listenVars, conn, connVars>>

\* The server hangs up, the satellites are lost, or the power.
CarrierLost ==
    /\ carrier
    /\ carrier' = FALSE
    /\ UNCHANGED <<kVars, port, dark, listenVars, client, conn, connVars>>

\* SIGINT, or the end of the XML-RPC thread.
StopAsks ==
    /\ ~asked
    /\ asked' = TRUE
    /\ UNCHANGED <<kpc, state, dial, modem, lineVars, listenVars, client, conn, connVars>>

Next ==
    \/ KThread \/ Listener
    \/ \E i \in Clients : Call(i) \/ Leave(i)
    \/ \E d \in Dials : Thread(d) \/ RTimesOut(d) \/ RCrashes(d)
    \/ CarrierLost \/ StopAsks

\* Threads that can go on do; a dialling may fail for ever.
Fairness ==
    /\ WF_vars(KThread) /\ WF_vars(Listener)
    /\ \A d \in Dials : WF_vars(CLeave(d) \/ CReaderJoined(d) \/ CWriterJoined(d) \/ CHandlerJoined(d))
                     /\ WF_vars(REnds(d)) /\ WF_vars(WEnds(d)) /\ WF_vars(HEnds(d))

Spec == Init /\ [][Next]_vars /\ Fairness

-----------------------------------------------------------------------------
(* Properties *)

\* Types of all variables.
TypeOK ==
    /\ kpc \in {"loop", "open", "init", "command", "connect1", "connect2", "giveup",
                "listener", "dummy", "connection", "join", "hangup", "ended"}
    /\ state \in {"start", "to_proxy", "established"}
    /\ dial \in 0..MaxDials /\ modem \in {0, dial} /\ conn \in {0, modem}
    /\ {asked, carrier, wake} \subseteq BOOLEAN
    /\ port \in [Dials -> BOOLEAN] /\ dark \in [Dials -> BOOLEAN] /\ cstop \in [Dials -> BOOLEAN]
    /\ lpc \in {"none", "test", "bind", "check", "accept", "gone"} /\ sock \in Clients \cup {NoClient}
    /\ client \in [Clients -> {"idle", "calls", "quit", "accepted", "left", "closed"}]
    /\ cpc \in [Dials -> {"none", "loop", "reader", "writer", "handler", "gone"}]
    /\ csock \in [Dials -> Clients \cup {NoClient}]
    /\ rpc \in [Dials -> {"none", "run", "gone", "crashed"}]
    /\ wpc \in [Dials -> {"none", "run", "gone"}] /\ hpc \in [Dials -> {"none", "run", "gone"}]

Talks(d) == Reaches(d) /\ (rpc[d] = "run" \/ wpc[d] = "run")

\* While the modem is dialled or serves a connection, no thread of an earlier
\* connection reads from or writes to the same serial port, although stop() does
\* not wait for a connection that is already ending; the one exception is a modem
\* that had no power when it was hung up, whose port stays open until the threads
\* that are being stopped are gone (modem_svr.py:179-199, RudicsModem.py:137-143).
OneTalksToTheModem ==
    \A d \in Dials : Talks(d) /\ modem \notin {0, d} => dark[d] /\ cpc[d] \in {"reader", "writer"}

\* The connection is of no use any more, and the connector has not taken it down.
Left(d) == \E i \in Clients : csock[d] = i /\ client[i] = "left"
Established(d) == state = "established" /\ conn = d
TakenDown == state = "start" \/ kpc = "ended"

\* A connection of which either side is lost is taken down and the modem hung up:
\* because svr_proxy left, because the carrier was lost or the modem its power, or
\* because the server was silent until the ModemReadThread gave it up. A
\* ModemReadThread that dies by an exception is not noticed as long as svr_proxy
\* and the carrier stay, although the docstring says "Exits if svr_proxy connection
\* dies or the ModemReadThread dies" (modem_svr.py:55-58, 130-134, 174-199, 299-355).
LossIsNoticed ==
    \A d \in Dials : (Established(d) /\ (~carrier \/ Left(d) \/ rpc[d] = "gone")) ~> TakenDown

Served(i) == \E d \in Dials : csock[d] = i /\ hpc[d] = "run"
Overlooked(i) == CRunning /\ sock = i /\ csock[conn] # i

\* A client whose connection was accepted is not forgotten: it is served, or its
\* socket is closed, although further clients are accepted over its head. The one
\* exception is the last client accepted beside a connection that serves another: it
\* is overlooked as long as that connection goes on, and no longer ("Makes one
\* connection and then waits to be stopped" is not what the code does)
\* (modem_svr.py:203-205, 232-239, 318-330).
AcceptedIsServed ==
    \A i \in Clients :
        <>[](client[i] = "accepted" /\ ~Served(i)) => <>[]Overlooked(i)

\* Once asked to stop, the connector ends, and with it every thread
\* (modem_svr.py:332-335, 371-374, 441-443).
AllStop ==
    asked ~> /\ kpc = "ended" /\ lpc = "none"
             /\ \A d \in Dials : cpc[d] \in {"none", "gone"} /\ "run" \notin {rpc[d], wpc[d], hpc[d]}
=============================================================================
