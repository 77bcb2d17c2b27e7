-------------------------- MODULE ModemSvrConnector --------------------------
(* svr_proxy/svr_proxy.py: the thread that keeps the server proxy connected   *)
(* to the modem server.  Each link it makes has a SockHandler, whose thread   *)
(* calls _my_exit_callback as its last act, and a ModemSvrConnection, here    *)
(* only its main loop.  The connector's thread and the callbacks share        *)
(* _modem_svr_conn and _modem_svr_sock_h without a lock, and every mention of *)
(* such a field in the code is a read of its own.                             *)
EXTENDS Naturals, FiniteSets

CONSTANTS
    Links,      \* Links that can ever be made: Bound on reconnections.
    NoLink,     \* None.
    Ghost       \* A ModemSvrConnection made with None for a socket handler.

ASSUME LinksAssumption == NoLink \notin Links /\ Ghost \notin Links /\ NoLink # Ghost

VARIABLES
    kpc,        \* Where the connector thread is.
    kstop,      \* Its _stop_event.
    kmade,      \* The connection it has just constructed.
    sockh,      \* _modem_svr_sock_h, as the link it handles.
    conn,       \* _modem_svr_conn, as the link it serves.
    hpc,        \* Where the SockHandler of a link is.
    hjoin,      \* The connection its exit callback waits for.
    mpc,        \* Where the ModemSvrConnection of a link is.
    mstop,      \* Its _stop_event.
    full,       \* The link's write queue is full.
    writer,     \* Its writer lives: nobody else empties that queue.
    rput        \* Its reader holds a packet its full read queue has no room for.

kVars == <<kpc, kstop, kmade>>
hVars == <<hpc, hjoin>>
mVars == <<mpc, mstop>>
qVars == <<full, writer, rput>>
vars == <<kVars, sockh, conn, hVars, mVars, qVars>>

Init ==
    /\ kpc = "loop"
    /\ kstop = FALSE
    /\ kmade = NoLink
    /\ sockh = NoLink
    /\ conn = NoLink
    /\ hpc = [l \in Links |-> "none"]
    /\ hjoin = [l \in Links |-> NoLink]
    /\ mpc = [l \in Links |-> "none"]
    /\ mstop = [l \in Links |-> FALSE]
    /\ full = [l \in Links |-> FALSE]
    /\ writer = [l \in Links |-> TRUE]
    /\ rput = [l \in Links |-> FALSE]

Up(l) == hpc[l] = "up"

\* _running of the connection of a link: an exception leaves it set.
Runs(m) == m \in Links /\ mpc[m] \in {"loop", "reply", "crashed"}

\* is_running(); the thread of the ghost died with its flag set.
MRunning(m) == m = Ghost \/ Runs(m)

\* m.stop() returns at once, or asks the thread to stop and joins it.
StopAsks(m) == Runs(m)

\* What a join waits for; that of a dead thread returns at once.
Ended(m) == mpc[m] \in {"exited", "crashed"}

KStep(from, to) == kpc = from /\ kpc' = to
HStep(l, from, to) == hpc[l] = from /\ hpc' = [hpc EXCEPT ![l] = to]
MStep(l, from, to) == mpc[l] = from /\ mpc' = [mpc EXCEPT ![l] = to]

-----------------------------------------------------------------------------
(* ModemSvrConnector.run *)

KLoop ==
    /\ KStep("loop", IF kstop THEN "stop" ELSE IF conn = NoLink THEN "connect" ELSE "check")
    /\ UNCHANGED <<kstop, kmade, sockh, conn, hVars, mVars, qVars>>

\* connect_to_server makes a handler for a new link, or returns None.
KConnect ==
    /\ KStep("connect", "test")
    /\ \/ \E l \in Links :
            /\ HStep(l, "none", "up")
            /\ sockh' = l
       \/ sockh' = NoLink /\ UNCHANGED hpc
    /\ UNCHANGED <<kstop, kmade, conn, hjoin, mVars, qVars>>

KTest ==
    /\ KStep("test", IF sockh # NoLink THEN "make" ELSE "loop")
    /\ UNCHANGED <<kstop, kmade, sockh, conn, hVars, mVars, qVars>>

\* ModemSvrConnection(sock_h, ...) starts a thread and returns when it runs.
KMake ==
    /\ KStep("make", "assign")
    /\ IF sockh # NoLink
       THEN MStep(sockh, "none", "loop") /\ kmade' = sockh
       ELSE UNCHANGED mpc /\ kmade' = Ghost
    /\ UNCHANGED <<kstop, sockh, conn, hVars, mstop, qVars>>

KAssign ==
    /\ KStep("assign", "loop")
    /\ conn' = kmade
    /\ kmade' = NoLink
    /\ UNCHANGED <<kstop, sockh, hVars, mVars, qVars>>

\* Mutant: the socket handler is asked instead of the connection.
KCheckSock ==
    /\ KStep("check", IF conn = NoLink THEN "crashed"
                      ELSE IF sockh # NoLink THEN "loop" ELSE "clear")
    /\ UNCHANGED <<kstop, kmade, sockh, conn, hVars, mVars, qVars>>

\* conn.is_running(); a callback may have cleared conn since the loop test.
KCheck ==
    /\ KStep("check", IF conn = NoLink THEN "crashed"
                      ELSE IF MRunning(conn) THEN "loop" ELSE "clear")
    /\ UNCHANGED <<kstop, kmade, sockh, conn, hVars, mVars, qVars>>

\* Mutant: the reference to the dead connection is kept.
KClearNot ==
    /\ KStep("clear", "loop")
    /\ UNCHANGED <<kstop, kmade, sockh, conn, hVars, mVars, qVars>>

KClear ==
    /\ KStep("clear", "loop")
    /\ conn' = NoLink
    /\ UNCHANGED <<kstop, kmade, sockh, hVars, mVars, qVars>>

\* _running = False; conn.stop() if there is one.
KStop ==
    /\ KStep("stop", IF StopAsks(conn) THEN "join" ELSE "exited")
    /\ mstop' = [l \in Links |-> mstop[l] \/ (l = conn /\ StopAsks(conn))]
    /\ kmade' = conn
    /\ UNCHANGED <<kstop, sockh, conn, hVars, mpc, qVars>>

KJoined ==
    /\ KStep("join", "exited")
    /\ Ended(kmade)
    /\ UNCHANGED <<kstop, kmade, sockh, conn, hVars, mVars, qVars>>

KThread ==
    \/ KLoop \/ KConnect \/ KTest \/ KMake \/ KAssign \/ KCheck \/ KClear
    \/ KStop \/ KJoined

-----------------------------------------------------------------------------
(* The SockHandler of a link and its exit callback *)

\* The reader or the writer ended and is_running() turns false.  A blocked reader
\* does not see that the link is lost, and a dead writer does not either.
HLost(l) ==
    /\ HStep(l, "up", "joining")
    /\ writer[l] \/ ~rput[l]
    /\ writer' = [writer EXCEPT ![l] = FALSE]
    /\ UNCHANGED <<kVars, sockh, conn, hjoin, mVars, full, rput>>

\* The reader's put has no timeout: its join waits until there is room.
HJoined(l) ==
    /\ HStep(l, "joining", "callback")
    /\ ~rput[l]
    /\ UNCHANGED <<kVars, sockh, conn, hjoin, mVars, qVars>>

\* if self._modem_svr_conn: ...
HCallback(l) ==
    /\ HStep(l, "callback", IF conn # NoLink THEN "stopConn" ELSE "clearSock")
    /\ UNCHANGED <<kVars, sockh, conn, hjoin, mVars, qVars>>

\* Mutant: the ghost is taken for a thread to wait for.
HStopConnGhost(l) ==
    /\ HStep(l, "stopConn", IF conn = NoLink THEN "done"
                            ELSE IF MRunning(conn) THEN "join" ELSE "clearConn")
    /\ mstop' = [m \in Links |-> mstop[m] \/ (m = conn /\ StopAsks(conn))]
    /\ hjoin' = [hjoin EXCEPT ![l] = IF MRunning(conn) THEN conn ELSE @]
    /\ UNCHANGED <<kVars, sockh, conn, mpc, qVars>>

\* ... self._modem_svr_conn.stop(): whichever connection is current by now;
\* None raises, which ends this thread.
HStopConn(l) ==
    /\ HStep(l, "stopConn", IF conn = NoLink THEN "done"
                            ELSE IF StopAsks(conn) THEN "join" ELSE "clearConn")
    /\ mstop' = [m \in Links |-> mstop[m] \/ (m = conn /\ StopAsks(conn))]
    /\ hjoin' = [hjoin EXCEPT ![l] = IF StopAsks(conn) THEN conn ELSE @]
    /\ UNCHANGED <<kVars, sockh, conn, mpc, qVars>>

HJoinedConn(l) ==
    /\ HStep(l, "join", "clearConn")
    /\ Ended(hjoin[l])
    /\ hjoin' = [hjoin EXCEPT ![l] = NoLink]
    /\ UNCHANGED <<kVars, sockh, conn, mVars, qVars>>

HClearConn(l) ==
    /\ HStep(l, "clearConn", "clearSock")
    /\ conn' = NoLink
    /\ UNCHANGED <<kVars, sockh, hjoin, mVars, qVars>>

HClearSock(l) ==
    /\ HStep(l, "clearSock", "done")
    /\ sockh' = NoLink
    /\ UNCHANGED <<kVars, conn, hjoin, mVars, qVars>>

HThread(l) ==
    \/ HJoined(l) \/ HCallback(l) \/ HStopConn(l) \/ HJoinedConn(l)
    \/ HClearConn(l) \/ HClearSock(l)

-----------------------------------------------------------------------------
(* ModemSvrConnection.run, as far as its parent can tell *)

\* A PING or an ICCID request is answered with a blocking put.
MGetRequest(l) ==
    /\ MStep(l, "loop", "reply")
    /\ Up(l) /\ ~mstop[l]
    /\ UNCHANGED <<kVars, sockh, conn, hVars, mstop, qVars>>

MPutReply(l) ==
    /\ MStep(l, "reply", "loop")
    /\ ~full[l]
    /\ UNCHANGED <<kVars, sockh, conn, hVars, mstop, qVars>>

\* The loop ends and _running = False.
MLeaveLoop(l) ==
    /\ MStep(l, "loop", "stopKids")
    /\ ~Up(l) \/ mstop[l]
    /\ UNCHANGED <<kVars, sockh, conn, hVars, mstop, qVars>>

\* Stopping the ServerConnections takes a while, or for ever.
MExit(l) ==
    /\ MStep(l, "stopKids", "exited")
    /\ UNCHANGED <<kVars, sockh, conn, hVars, mstop, qVars>>

\* A packet of a connection that is going ends the thread with _running set.
MCrash(l) ==
    /\ MStep(l, "loop", "crashed")
    /\ UNCHANGED <<kVars, sockh, conn, hVars, mstop, qVars>>

\* A get in the loop makes room for the reader.
MTakePacket(l) ==
    /\ mpc[l] = "loop"
    /\ rput[l]
    /\ rput' = [rput EXCEPT ![l] = FALSE]
    /\ UNCHANGED <<kVars, sockh, conn, hVars, mVars, full, writer>>

MThread(l) == MPutReply(l) \/ MLeaveLoop(l) \/ MTakePacket(l)

-----------------------------------------------------------------------------
(* The outside world *)

\* The modem server sends more than the read queue holds.
ReaderBlocks(l) ==
    /\ Up(l) /\ ~rput[l]
    /\ rput' = [rput EXCEPT ![l] = TRUE]
    /\ UNCHANGED <<kVars, sockh, conn, hVars, mVars, full, writer>>

\* ServerConnections fill the write queue, its writer drains it.
QueueFills(l) ==
    /\ Up(l) /\ ~full[l]
    /\ full' = [full EXCEPT ![l] = TRUE]
    /\ UNCHANGED <<kVars, sockh, conn, hVars, mVars, writer, rput>>

QueueDrains(l) ==
    /\ Up(l) /\ writer[l] /\ full[l]
    /\ full' = [full EXCEPT ![l] = FALSE]
    /\ UNCHANGED <<kVars, sockh, conn, hVars, mVars, writer, rput>>

\* The writer dies over a packet that took ten seconds; the link stays up.
WriterCrash(l) ==
    /\ Up(l) /\ writer[l]
    /\ writer' = [writer EXCEPT ![l] = FALSE]
    /\ full' = [full EXCEPT ![l] = FALSE]
    /\ UNCHANGED <<kVars, sockh, conn, hVars, mVars, rput>>

ParentStops ==
    /\ ~kstop
    /\ kstop' = TRUE
    /\ UNCHANGED <<kpc, kmade, sockh, conn, hVars, mVars, qVars>>

Next ==
    \/ KThread
    \/ \E l \in Links :
        \/ HLost(l) \/ HThread(l)
        \/ MGetRequest(l) \/ MThread(l) \/ MCrash(l) \/ MExit(l)
        \/ ReaderBlocks(l) \/ QueueFills(l) \/ QueueDrains(l) \/ WriterCrash(l)
    \/ ParentStops

Spec == Init /\ [][Next]_vars

\* Threads run on, and the get of a loop that goes on comes again and again
\* (SF).  A link need not be lost, a request need not come, and
\* ServerConnections may never let their parent exit, so those are not fair.
Fairness ==
    /\ WF_vars(KThread)
    /\ \A l \in Links :
        /\ WF_vars(HThread(l))
        /\ SF_vars(MPutReply(l)) /\ WF_vars(MLeaveLoop(l)) /\ SF_vars(MTakePacket(l))
        /\ WF_vars(QueueDrains(l))

FairSpec == Spec /\ Fairness

-----------------------------------------------------------------------------
(* Properties *)

TypeOK ==
    /\ kpc \in {"loop", "connect", "test", "make", "assign", "check", "clear",
                "stop", "join", "exited", "crashed"}
    /\ kstop \in BOOLEAN
    /\ kmade \in Links \cup {NoLink, Ghost}
    /\ sockh \in Links \cup {NoLink}
    /\ conn \in Links \cup {NoLink, Ghost}
    /\ hpc \in [Links -> {"none", "up", "joining", "callback", "stopConn", "join",
                          "clearConn", "clearSock", "done"}]
    /\ hjoin \in [Links -> Links \cup {NoLink}]
    /\ mpc \in [Links -> {"none", "loop", "reply", "stopKids", "exited", "crashed"}]
    /\ mstop \in [Links -> BOOLEAN]
    /\ full \in [Links -> BOOLEAN]
    /\ writer \in [Links -> BOOLEAN]
    /\ rput \in [Links -> BOOLEAN]

\* When the connector's own thread gives a connection up, that connection has
\* left its loop, however long ago it was looked at (run, "else" branch).
GivesUpOnlyTheDead ==
    [][kpc = "clear" /\ kpc' = "loop" => ~MRunning(conn)]_vars

\* The link of m is up and its thread reads it.
Serves(m) == m \in Links /\ Up(m) /\ mpc[m] = "loop"

\* The thread of m waits for room in a queue nobody drains, whether its link was
\* lost or only lost its writer.
Jammed(m) == m \in Links /\ mpc[m] = "reply" /\ full[m] /\ ~writer[m]

\* The thread of m is dead while its flag says it runs, and no callback comes to
\* clear it: its link is up, its handler waits for a reader that is blocked for
\* ever, or the callback went by before the connection was assigned.
Abandoned(m) ==
    /\ m \in Links
    /\ mpc[m] = "crashed"
    /\ Up(m) \/ (hpc[m] = "joining" /\ rput[m]) \/ hpc[m] = "done"

\* Without a link it serves and without an order to stop, the connector tries to
\* connect again and again ("Resumes modem_svr connection attempts if
\* ModemSvrConnections dies"), except when its connection is jammed, abandoned
\* or a ghost, or a callback crashed it by clearing the connection it was about
\* to look at.
KeepsConnectingUnlessStuck ==
    []<>(\/ kpc = "connect"
         \/ Serves(conn)
         \/ kstop
         \/ kpc = "crashed"
         \/ conn = Ghost
         \/ Jammed(conn)
         \/ Abandoned(conn))

-----------------------------------------------------------------------------
(* What the docstring says and the code does not do *)

\* "There is only one ModemSvrConnection" (class docstring): a late callback
\* clears the reference to a new connection, and a second one is made.
OnlyOneConnection ==
    Cardinality({l \in Links : Serves(l)}) <= 1
=============================================================================
