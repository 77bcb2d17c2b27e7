----------------------------- MODULE SockHandler -----------------------------
(* utils/sock_utils.py: a SockHandler owns one connected stream socket.  Its  *)
(* StreamReadThread moves what recv() returns into a bounded read queue, its  *)
(* SockWriteThread moves the bounded write queue to the socket, and the       *)
(* handler itself sleeps until either of them ends or stop() is called, then  *)
(* joins both.                                                                *)
(*                                                                            *)
(* A thread that tests "was I stopped, is the socket still there" and then    *)
(* polls for at most a second does both in one step here: the poll depends on *)
(* nothing that happens between the test and its return.                      *)
EXTENDS Naturals, Sequences

CONSTANTS
    Conns,      \* Identities of the sockets (one per connection ever made).
    SCap,       \* Capacity of a stream queue (100 in connect_to_server).
    MaxChunks   \* Bound: chunks of stream data a server sends on one socket.

ASSUME SockAssumption == SCap \in Nat \ {0} /\ MaxChunks \in Nat

VARIABLES
    hpc,        \* Handler: "none", "up" (is_running()), "joining", "done".
    hstop,      \* Handler's _stop_event.
    rpc,        \* Reader: "recv", "put" (holds a chunk), "done".
    wpc,        \* Writer: "send", "done", or "crashed" (dead, but _running).
    rq,         \* Chunks waiting in the read queue.
    wq,         \* Write queue: sequence numbers of the packets it carries.
    recvd,      \* History: chunks recv() returned so far.
    delivered   \* History: sequence numbers of packets sent to the server.

readerVars == <<rpc, rq, recvd>>
writerVars == <<wpc, wq, delivered>>
sockVars == <<hpc, hstop, readerVars, writerVars>>

SockInit ==
    /\ hpc = [c \in Conns |-> "none"]
    /\ hstop = [c \in Conns |-> FALSE]
    /\ rpc = [c \in Conns |-> "done"]
    /\ wpc = [c \in Conns |-> "done"]
    /\ rq = [c \in Conns |-> 0]
    /\ wq = [c \in Conns |-> <<>>]
    /\ recvd = [c \in Conns |-> 0]
    /\ delivered = [c \in Conns |-> <<>>]

SockRunning(c) == hpc[c] = "up"

-----------------------------------------------------------------------------
(* The handler *)

\* The constructor returns once both threads run and the handler waits.
SockStart(c) ==
    /\ hpc[c] = "none"
    /\ hpc' = [hpc EXCEPT ![c] = "up"]
    /\ rpc' = [rpc EXCEPT ![c] = "recv"]
    /\ wpc' = [wpc EXCEPT ![c] = "send"]
    /\ UNCHANGED <<hstop, rq, wq, recvd, delivered>>

\* _stop_event.wait() returns: is_running() turns false, then the joins start.
HandlerWake(c) ==
    /\ hpc[c] = "up"
    /\ hstop[c]
    /\ hpc' = [hpc EXCEPT ![c] = "joining"]
    /\ UNCHANGED <<hstop, readerVars, writerVars>>

\* Both joins returned (the join of a crashed writer returns at once); the
\* caller adds what the exit callback does.
HandlerExit(c) ==
    /\ hpc[c] = "joining"
    /\ rpc[c] = "done"
    /\ wpc[c] # "send"
    /\ hpc' = [hpc EXCEPT ![c] = "done"]
    /\ UNCHANGED <<hstop, readerVars, writerVars>>

-----------------------------------------------------------------------------
(* StreamReadThread *)

ReaderRecv(c) ==
    /\ rpc[c] = "recv"
    /\ SockRunning(c)
    /\ wpc[c] # "done"          \* the writer closes the socket when it ends
    /\ recvd[c] < MaxChunks
    /\ rpc' = [rpc EXCEPT ![c] = "put"]
    /\ recvd' = [recvd EXCEPT ![c] = @ + 1]
    /\ UNCHANGED <<hpc, hstop, rq, writerVars>>

\* A blocking put: nothing but room in the queue lets the reader go on.
ReaderPut(c) ==
    /\ rpc[c] = "put"
    /\ rq[c] < SCap
    /\ rpc' = [rpc EXCEPT ![c] = "recv"]
    /\ rq' = [rq EXCEPT ![c] = @ + 1]
    /\ UNCHANGED <<hpc, hstop, recvd, writerVars>>

\* recv() fails, or the loop test sees the stop event.
ReaderMustExit(c) == hpc[c] = "joining" \/ wpc[c] = "done"

\* The peer may also close or reset the connection at any time.
ReaderExit(c) ==
    /\ rpc[c] = "recv"
    /\ rpc' = [rpc EXCEPT ![c] = "done"]
    /\ hstop' = [hstop EXCEPT ![c] = TRUE]
    /\ UNCHANGED <<hpc, rq, recvd, writerVars>>

-----------------------------------------------------------------------------
(* SockWriteThread *)

WriterSend(c) ==
    /\ wpc[c] = "send"
    /\ wq[c] # <<>>
    /\ rpc[c] # "done"          \* the reader closes the socket when it ends
    /\ wq' = [wq EXCEPT ![c] = Tail(@)]
    /\ delivered' = [delivered EXCEPT ![c] = Append(@, Head(wq[c]))]
    /\ UNCHANGED <<hpc, hstop, readerVars, wpc>>

\* send() fails, or does not take a byte within the socket's half second: what
\* was dequeued is lost and the thread ends in good order.
WriterFail(c) ==
    /\ wpc[c] = "send"
    /\ wq[c] # <<>>
    /\ wq' = [wq EXCEPT ![c] = Tail(@)]
    /\ wpc' = [wpc EXCEPT ![c] = "done"]
    /\ hstop' = [hstop EXCEPT ![c] = TRUE]
    /\ UNCHANGED <<hpc, readerVars, delivered>>

\* An item took more than ten seconds (or the clock was set meanwhile).  Telling
\* of it names an attribute that does not exist: the thread dies of that, having
\* sent all or part of the item; the socket stays open, nobody is called back.
WriterCrash(c) ==
    /\ wpc[c] = "send"
    /\ wq[c] # <<>>
    /\ rpc[c] # "done"
    /\ wq' = [wq EXCEPT ![c] = Tail(@)]
    /\ \/ delivered' = [delivered EXCEPT ![c] = Append(@, Head(wq[c]))]
       \/ UNCHANGED delivered
    /\ wpc' = [wpc EXCEPT ![c] = "crashed"]
    /\ UNCHANGED <<hpc, hstop, readerVars>>

\* The handler stops the writer only after it has joined the reader.
WriterStop(c) ==
    /\ wpc[c] = "send"
    /\ hpc[c] = "joining"
    /\ rpc[c] = "done"
    /\ wpc' = [wpc EXCEPT ![c] = "done"]
    /\ UNCHANGED <<hpc, hstop, readerVars, wq, delivered>>

SockThreads(c) ==
    \/ HandlerWake(c)
    \/ ReaderRecv(c) \/ ReaderPut(c) \/ ReaderExit(c)
    \/ WriterSend(c) \/ WriterFail(c) \/ WriterCrash(c) \/ WriterStop(c)

\* The steps a reader and a writer owe: neither waits for the network for ever.
ReaderMustStep(c) == ReaderPut(c) \/ (ReaderMustExit(c) /\ ReaderExit(c))
WriterMustStep(c) ==
    WriterSend(c) \/ WriterFail(c) \/ WriterCrash(c) \/ WriterStop(c)

SockTypeOK ==
    /\ hpc \in [Conns -> {"none", "up", "joining", "done"}]
    /\ hstop \in [Conns -> BOOLEAN]
    /\ rpc \in [Conns -> {"recv", "put", "done"}]
    /\ wpc \in [Conns -> {"send", "done", "crashed"}]
    /\ rq \in [Conns -> 0 .. SCap]
    /\ wq \in [Conns -> Seq(Nat)]
    /\ recvd \in [Conns -> 0 .. MaxChunks]
    /\ delivered \in [Conns -> Seq(Nat)]
=============================================================================
