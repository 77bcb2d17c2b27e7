------------------------- MODULE MCModemSvrConnection -------------------------
(* Small instances of ModemSvrConnection for TLC. *)
EXTENDS ModemSvrConnection, TLC

\* Load in one direction at a time: what fills the write queue of the server's
\* socket does not come together with what fills its read queue, nor with
\* requests of the modem server.
OneWay ==
    \A c \in Conns, p \in Pairs :
        /\ recvd'[c] = 0 \/ arrived'[p] = 0
        /\ mpc' = "reply" => arrived'[p] = 0

\* At most one of these goes wrong: the link is lost, its writer dies, the
\* writer of one server's socket dies.
OneFault ==
    /\ link /\ ~link' => lwriter
    /\ \A c \in Conns : wpc'[c] = "crashed" =>
            lwriter' /\ \A d \in Conns \ {c} : wpc'[d] # "crashed"


\* The thread of the link leaves its loop for one reason.
OneReason == link' \/ ~mstop'

OneFaultSpec == Init /\ [][Next /\ OneFault /\ OneWay /\ OneReason]_vars

FlowSpec == Init /\ [][Next /\ OneWay /\ OneFault /\ OneReason]_vars /\ Fairness

ConnSymmetry == Permutations(Conns)
=============================================================================
