-------------------------------- MODULE HwMgr --------------------------------
(* hw_mgr/hw_mgr.py, the one program that switches the hardware, with the     *)
(* calls utils.set_power_state, get_hw_status and get_full_hw_status and the  *)
(* plain XML-RPC calls the other programs make.  The server handles every     *)
(* request in a thread of its own (ThreadingMixIn); _exec_lock makes one      *)
(* command run at a time and subprocess_lock one subprocess.  sbcctl sets a   *)
(* bit by reading its register and writing it back.  A caller stops waiting   *)
(* after ten seconds and tries again, and the thread it has left goes on.     *)
EXTENDS Naturals, FiniteSets

CONSTANTS
    Clients,    \* Callers, each a thread of super, RudicsModem or a console.
    Threads,    \* Server threads: Bound on the requests under way.
    Dio1,       \* Devices on DIO1, set one bit at a time by the dio1 driver.
    Bus,        \* Those that need the PC-104 bus.
    Pwr,        \* Devices that share the register pwrcon, "pc104" among them.
    Commands,   \* The requests callers make.
    None

Router == {"ovr", "latch", "mux"}      \* DIO2 bits 3, 7 and 0 to 2.
Devices == Dio1 \cup Pwr
Pins == Devices \cup Router
Owners == Threads \cup {"main"}
NoDevice == "-"
AllCommands == [kind : {"set_power"}, dev : Devices, state : {"on", "off"}] \cup
               [kind : {"get_status", "refresh", "reset_overcurrent", "help"},
                dev : {NoDevice}, state : {"off"}]

NoCommand == [kind |-> "none", dev |-> NoDevice, state |-> "off"]

ASSUME HwAssumption ==
    /\ Bus \subseteq Dio1
    /\ "pc104" \in Pwr
    /\ Dio1 \cap Pwr = {} /\ Devices \cap Router = {}
    /\ Commands \subseteq AllCommands
    /\ "main" \notin Threads /\ "leaked" \notin Threads
    /\ None \notin Clients \cup Threads \cup {"main", "leaked"}

VARIABLES
    cpc,        \* Where a caller is.
    ccmd,       \* The command it asks for.
    attempt,    \* attempt in utils, 0 outside a call.
    cres,       \* What its last call returned, "none" before that.
    cthr,       \* The thread whose reply it waits for.
    tpc,        \* Where a server thread is.
    tcmd,       \* Its request,
    tfor,       \* and whose it is.
    snap,       \* Devices on in the text sbcctl status printed for it.
    exec,       \* _exec_lock: who holds it, None, or "leaked".
    sub,        \* subprocess_lock.
    sb,         \* The sbcctl process run by an owner,
    seen,       \* and the bits it read from its register.
    pins,       \* The bits that are on.
    cache,      \* Devices on according to the dictionary status.
    mpc         \* Where the main thread is.

cVars == <<cpc, ccmd, attempt, cres, cthr>>
tVars == <<tpc, tcmd, tfor, snap>>
sbVars == <<sub, sb, seen, pins>>
vars == <<cVars, tVars, exec, sbVars, cache, mpc>>

\* The dictionary status starts as zeros, whatever the switches are, and
\* _init_digital_IO leaves both overcurrent bits off.
Init ==
    /\ cpc = [c \in Clients |-> "idle"]
    /\ ccmd = [c \in Clients |-> NoCommand]
    /\ attempt = [c \in Clients |-> 0]
    /\ cres = [c \in Clients |-> "none"]
    /\ cthr = [c \in Clients |-> None]
    /\ tpc = [t \in Threads |-> "free"]
    /\ tcmd = [t \in Threads |-> NoCommand]
    /\ tfor = [t \in Threads |-> None]
    /\ snap = [t \in Threads |-> {}]
    /\ exec = None
    /\ sub = None
    /\ sb = [o \in Owners |-> "no"]
    /\ seen = [o \in Owners |-> {}]
    /\ pins \in SUBSET (Pins \ {"ovr", "latch"})
    /\ cache = {}
    /\ mpc = "run"

Put(S, pin, state) == IF state = "on" THEN S \cup {pin} ELSE S \ {pin}

\* The bits sbcctl reads and writes together with a bit.
Register(pin) ==
    IF pin \in Dio1 THEN {pin} ELSE IF pin \in Pwr THEN Pwr ELSE Router

TStep(t, from, to) == tpc[t] = from /\ tpc' = [tpc EXCEPT ![t] = to]

-----------------------------------------------------------------------------
(* Callers *)

Ask(c) ==
    /\ cpc[c] = "idle"
    /\ \E cmd \in Commands : ccmd' = [ccmd EXCEPT ![c] = cmd]
    /\ cpc' = [cpc EXCEPT ![c] = "send"]
    /\ attempt' = [attempt EXCEPT ![c] = 1]
    /\ cres' = [cres EXCEPT ![c] = "none"]
    /\ UNCHANGED <<cthr, tVars, exec, sbVars, cache, mpc>>

\* The server accepts the connection and starts a thread for the request.
Send(c, t) ==
    /\ cpc[c] = "send"
    /\ mpc # "stopped"
    /\ TStep(t, "free", "acquire")
    /\ cpc' = [cpc EXCEPT ![c] = "wait"]
    /\ cthr' = [cthr EXCEPT ![c] = t]
    /\ tcmd' = [tcmd EXCEPT ![t] = ccmd[c]]
    /\ tfor' = [tfor EXCEPT ![t] = c]
    /\ UNCHANGED <<ccmd, attempt, cres, snap, exec, sbVars, cache, mpc>>

\* Only the calls in utils try twice.
Attempts(cmd) == IF cmd.kind \in {"set_power", "get_status"} THEN 2 ELSE 1

Answer(c, res) ==
    /\ cpc' = [cpc EXCEPT ![c] = "idle"]
    /\ attempt' = [attempt EXCEPT ![c] = 0]
    /\ cres' = [cres EXCEPT ![c] = res]
    /\ ccmd' = [ccmd EXCEPT ![c] = NoCommand]

\* Mutant: the attempt is not counted.
TryAgainUncounted(c) ==
    /\ cpc' = [cpc EXCEPT ![c] = "send"]
    /\ UNCHANGED <<ccmd, attempt, cres>>

TryAgain(c) ==
    /\ cpc' = [cpc EXCEPT ![c] = "send"]
    /\ attempt' = [attempt EXCEPT ![c] = @ + 1]
    /\ UNCHANGED <<ccmd, cres>>

\* Mutant: one attempt too many.
AttemptFailsOnceMore(c) ==
    /\ IF attempt[c] <= Attempts(ccmd[c]) THEN TryAgain(c) ELSE Answer(c, "None")
    /\ cthr' = [cthr EXCEPT ![c] = None]

AttemptFails(c) ==
    /\ IF attempt[c] < Attempts(ccmd[c]) THEN TryAgain(c) ELSE Answer(c, "None")
    /\ cthr' = [cthr EXCEPT ![c] = None]

\* Connection refused, or ten seconds without a reply.
GivesUp(c) ==
    /\ cpc[c] \in {"send", "wait"}
    /\ AttemptFails(c)
    /\ UNCHANGED <<tVars, exec, sbVars, cache, mpc>>

-----------------------------------------------------------------------------
(* subprocess_lock and the sbcctl process run under it *)

\* The setpin or power command an owner is at, or the mux of status.
Job(o) ==
    IF o = "main" THEN [pin |-> "latch", state |-> "on"]
    ELSE CASE tpc[o] = "set" -> [pin |-> tcmd[o].dev, state |-> tcmd[o].state]
           [] tpc[o] = "bus" -> [pin |-> "pc104", state |-> "on"]
           [] tpc[o] = "reset on" -> [pin |-> "ovr", state |-> "on"]
           [] tpc[o] = "reset off" -> [pin |-> "ovr", state |-> "off"]
           [] OTHER -> [pin |-> "mux", state |-> "on"]

HasJob(o) ==
    \/ o = "main" /\ mpc = "stop"
    \/ o \in Threads /\ tpc[o] \in {"set", "reset on", "reset off", "status"}
    \/ o \in Threads /\ tpc[o] = "bus" /\ "pc104" \notin cache

\* What an owner does after its subprocess, whether it worked or not: nobody
\* looks at the exit status, but status without its last lines cannot be parsed.
AfterJob(o, whole) ==
    IF o = "main" THEN mpc' = "stopped" /\ UNCHANGED tVars
    ELSE
    /\ tpc' = [tpc EXCEPT ![o] =
            CASE @ = "set" /\ tcmd[o].dev \in Bus -> "bus"
              [] @ = "reset on" -> "reset off"
              [] @ = "status" -> IF whole THEN "parse" ELSE "cut"
              [] OTHER -> "release"]
    /\ snap' = IF tpc[o] = "status" THEN [snap EXCEPT ![o] = pins \cap Devices] ELSE snap
    /\ UNCHANGED <<tcmd, tfor, mpc>>

\* Mutant: subprocess_lock is not taken.
StartSbcctlUnlocked(o) ==
    /\ HasJob(o)
    /\ sb[o] = "no"
    /\ sub' = o
    /\ sb' = [sb EXCEPT ![o] = "read"]
    /\ UNCHANGED <<cVars, tVars, exec, seen, pins, cache, mpc>>

StartSbcctl(o) ==
    /\ HasJob(o)
    /\ sub = None
    /\ sub' = o
    /\ sb' = [sb EXCEPT ![o] = "read"]
    /\ UNCHANGED <<cVars, tVars, exec, seen, pins, cache, mpc>>

ReadRegister(o) ==
    /\ sb[o] = "read"
    /\ sb' = [sb EXCEPT ![o] = "write"]
    /\ seen' = [seen EXCEPT ![o] = pins \cap Register(Job(o).pin)]
    /\ UNCHANGED <<cVars, tVars, exec, sub, pins, cache, mpc>>

WriteRegister(o) ==
    /\ sb[o] = "write"
    /\ sb' = [sb EXCEPT ![o] = "exit"]
    /\ pins' = (pins \ Register(Job(o).pin)) \cup Put(seen[o], Job(o).pin, Job(o).state)
    /\ seen' = [seen EXCEPT ![o] = {}]
    /\ UNCHANGED <<cVars, tVars, exec, sub, cache, mpc>>

\* sbcctl ends and call_subprocess returns; subprocess_lock.release().
ReapSbcctl(o) ==
    /\ sb[o] = "exit"
    /\ sb' = [sb EXCEPT ![o] = "no"]
    /\ sub' = None
    /\ AfterJob(o, TRUE)
    /\ UNCHANGED <<cVars, exec, seen, pins, cache>>

\* sbcctl's alarm of twenty seconds kills it.
SbcctlKilled(o) ==
    /\ sb[o] \in {"read", "write"}
    /\ sb' = [sb EXCEPT ![o] = "no"]
    /\ seen' = [seen EXCEPT ![o] = {}]
    /\ sub' = None
    /\ AfterJob(o, FALSE)
    /\ UNCHANGED <<cVars, exec, pins, cache>>

-----------------------------------------------------------------------------
(* A request in its server thread *)

\* Mutant: nobody waits for _exec_lock.
AcquireNoLock(t) ==
    /\ exec' = t
    /\ TStep(t, "acquire",
            CASE tcmd[t].kind = "set_power" -> "set"
              [] tcmd[t].kind = "refresh" -> "status"
              [] OTHER -> "release")
    /\ UNCHANGED <<cVars, tcmd, tfor, snap, sbVars, cache, mpc>>

\* Lock.acquire tries again every tenth of a second: nobody queues.
Acquire(t) ==
    /\ exec = None
    /\ exec' = t
    /\ TStep(t, "acquire",
            CASE tcmd[t].kind = "set_power" -> "set"
              [] tcmd[t].kind = "refresh" -> "status"
              [] tcmd[t].kind = "reset_overcurrent" -> "reset on"
              [] tcmd[t].kind = "help" -> "help"
              [] OTHER -> "release")
    /\ UNCHANGED <<cVars, tcmd, tfor, snap, sbVars, cache, mpc>>

\* _control_PC104_power, when the dictionary has the bus on.
BusIsOn(t) ==
    /\ TStep(t, "bus", "release")
    /\ "pc104" \in cache
    /\ UNCHANGED <<cVars, tcmd, tfor, snap, exec, sbVars, cache, mpc>>

\* refresh_sbcctl_status fills the dictionary from the text.
Parse(t) ==
    /\ TStep(t, "parse", "rest")
    /\ cache' = snap[t]
    /\ snap' = [snap EXCEPT ![t] = {}]
    /\ UNCHANGED <<cVars, tcmd, tfor, exec, sbVars, mpc>>

\* Lines are missing: an exception leaves refresh with the lock held, and
\* what was parsed before it, DIO1 ahead of the power lines, stays.
ParseFails(t) ==
    /\ TStep(t, "cut", "fault")
    /\ \E parsed \in SUBSET Dio1 : cache' = (cache \ parsed) \cup (snap[t] \cap parsed)
    /\ snap' = [snap EXCEPT ![t] = {}]
    /\ exec' = "leaked"
    /\ UNCHANGED <<cVars, tcmd, tfor, sbVars, mpc>>

\* The fluxgate, clock and uptime fields, the last two from subprocesses.
RefreshRest(t) ==
    /\ TStep(t, "rest", "release")
    /\ sub = None
    /\ UNCHANGED <<cVars, tcmd, tfor, snap, exec, sbVars, cache, mpc>>

\* help releases the lock only if a console is connected.
Help(t) ==
    /\ \/ TStep(t, "help", "release") /\ UNCHANGED exec
       \/ TStep(t, "help", "reply") /\ exec' = "leaked"
    /\ UNCHANGED <<cVars, tcmd, tfor, snap, sbVars, cache, mpc>>

\* Mutant: a request nobody waits for any more keeps the lock.
ReleaseIfAwaited(t) ==
    /\ TStep(t, "release", "reply")
    /\ exec' = IF cthr[tfor[t]] = t THEN None ELSE exec
    /\ UNCHANGED <<cVars, tcmd, tfor, snap, sbVars, cache, mpc>>

Release(t) ==
    /\ TStep(t, "release", "reply")
    /\ exec' = None
    /\ UNCHANGED <<cVars, tcmd, tfor, snap, sbVars, cache, mpc>>

\* The thread ends; its answer, or a Fault, reaches a caller that still waits.
Reply(t) ==
    /\ tpc[t] \in {"reply", "fault"}
    /\ tpc' = [tpc EXCEPT ![t] = "free"]
    /\ tcmd' = [tcmd EXCEPT ![t] = NoCommand]
    /\ tfor' = [tfor EXCEPT ![t] = None]
    /\ IF cthr[tfor[t]] # t THEN UNCHANGED cVars
       ELSE IF tpc[t] = "fault" THEN AttemptFails(tfor[t])
       ELSE Answer(tfor[t], "proxy") /\ cthr' = [cthr EXCEPT ![tfor[t]] = None]
    /\ UNCHANGED <<snap, exec, sbVars, cache, mpc>>

\* SIGINT: _run_mgr leaves its loop for _stop_dig_io, and takes no requests
\* once xmlrpc_thread has stopped.
Interrupt ==
    /\ mpc = "run"
    /\ mpc' = "stop"
    /\ UNCHANGED <<cVars, tVars, exec, sbVars, cache>>

-----------------------------------------------------------------------------
Client(c) == Ask(c) \/ (\E t \in Threads : Send(c, t)) \/ GivesUp(c)
Sbcctl(o) ==
    StartSbcctl(o) \/ ReadRegister(o) \/ WriteRegister(o) \/ ReapSbcctl(o) \/ SbcctlKilled(o)
Thread(t) ==
    \/ BusIsOn(t) \/ Parse(t) \/ ParseFails(t) \/ RefreshRest(t)
    \/ Help(t) \/ Release(t) \/ Reply(t)

Next ==
    \/ \E c \in Clients : Client(c)
    \/ \E o \in Owners : Sbcctl(o)
    \/ \E t \in Threads : Acquire(t) \/ Thread(t)
    \/ Interrupt

Spec == Init /\ [][Next]_vars

\* Threads and processes get the CPU and calls time out.  A thread that keeps
\* trying the lock gets it if it keeps coming free.
Fairness ==
    /\ \A c \in Clients : WF_vars(GivesUp(c))
    /\ \A o \in Owners : WF_vars(Sbcctl(o))
    /\ \A t \in Threads : SF_vars(Acquire(t)) /\ WF_vars(Thread(t))

FairSpec == Spec /\ Fairness

-----------------------------------------------------------------------------
(* Properties *)

Critical == {"set", "bus", "reset on", "reset off", "status", "parse", "cut",
             "rest", "help", "release"}

TypeOK ==
    /\ cpc \in [Clients -> {"idle", "send", "wait"}]
    /\ ccmd \in [Clients -> Commands \cup {NoCommand}]
    /\ attempt \in [Clients -> 0..2]
    /\ cres \in [Clients -> {"none", "proxy", "None"}]
    /\ cthr \in [Clients -> Threads \cup {None}]
    /\ tpc \in [Threads -> {"free", "acquire", "reply", "fault"} \cup Critical]
    /\ tcmd \in [Threads -> Commands \cup {NoCommand}]
    /\ tfor \in [Threads -> Clients \cup {None}]
    /\ snap \in [Threads -> SUBSET Devices]
    /\ exec \in Threads \cup {None, "leaked"}
    /\ sub \in Owners \cup {None}
    /\ sb \in [Owners -> {"no", "read", "write", "exit"}]
    /\ seen \in [Owners -> SUBSET Pins]
    /\ pins \in SUBSET Pins
    /\ cache \in SUBSET Devices
    /\ mpc \in {"run", "stop", "stopped"}

\* A refresh is a snapshot: when it has filled the dictionary, and for as long
\* as it holds the lock, the dictionary has every switch as it is, although
\* the text was printed, read and parsed in many steps.
RefreshIsSnapshot == \A t \in Threads : tpc[t] = "rest" => cache = pins \cap Devices

\* What a command writes, and what an owner has still to write.
Writes(cmd) ==
    CASE cmd.kind = "set_power" ->
            {[pin |-> cmd.dev, state |-> cmd.state]} \cup
            (IF cmd.dev \in Bus THEN {[pin |-> "pc104", state |-> "on"]} ELSE {})
      [] cmd.kind = "reset_overcurrent" ->
            {[pin |-> "ovr", state |-> "on"], [pin |-> "ovr", state |-> "off"]}
      [] cmd.kind = "refresh" -> {[pin |-> "mux", state |-> "on"]}
      [] OTHER -> {}

ToWrite(o) ==
    IF o = "main" THEN IF mpc = "stop" THEN {Job(o)} ELSE {}
    ELSE IF tpc[o] \in {"acquire", "set", "reset on"} THEN Writes(tcmd[o])
    ELSE IF tpc[o] \in {"bus", "reset off", "status"} THEN {Job(o)}
    ELSE {}

OrderBy(o, w) == [by |-> o, pin |-> w.pin, state |-> w.state]
Done(o) == IF sb[o] = "exit" THEN {Job(o)} ELSE {}
OrdersOf(o) == {OrderBy(o, w) : w \in ToWrite(o) \ Done(o)}
OutstandingOrders == UNION {OrdersOf(o) : o \in Owners}

\* hw_mgr keeps the promise of PowerSwitches: although the devices of a
\* register are written together by processes of several threads, no write
\* undoes another and no switch moves that no command named.
Promise == INSTANCE PowerSwitches
    WITH Switches <- Pins, Sources <- Owners, lit <- pins, orders <- OutstandingOrders
KeepsPromise == Promise!Spec

\* A request gets its turn unless the lock has been lost to a help without a
\* console or to a refresh that raised.
ServedUnlessLeaked ==
    \A t \in Threads : tpc[t] = "acquire" ~> tpc[t] # "acquire" \/ exec = "leaked"

\* Every call returns, even when nobody serves it any more.
CallsReturn == \A c \in Clients : cpc[c] # "idle" ~> cpc[c] = "idle"

\* "Return the server proxy if successful, None if not successful."  The code
\* breaks this: a switch moves for a caller that has been told None.
NoneMeansNotDone ==
    [][\A t \in Threads : \A c \in Clients :
            WriteRegister(t) /\ tcmd[t].kind = "set_power" /\ tfor[t] = c /\ cpc[c] = "idle"
                => cres[c] # "None"]_vars
=============================================================================
