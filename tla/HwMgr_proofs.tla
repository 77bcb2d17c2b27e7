----------------------------- MODULE HwMgr_proofs -----------------------------
(* What HwMgr guarantees for any callers, server threads, devices and         *)
(* commands: its types, that a refresh is a snapshot, and that it keeps the   *)
(* promise of PowerSwitches.                                                  *)
EXTENDS HwMgr, TLAPS

\* The thread between acquire and release is the one that holds _exec_lock.
Exclusive == \A t \in Threads : tpc[t] \in Critical => exec = t

\* The one sbcctl process is run by the holder of subprocess_lock, for its job.
OneSubprocess == \A o \in Owners : sb[o] # "no" => sub = o /\ HasJob(o)

\* What sbcctl has read of its register is still there when it writes.
RegisterIsCurrent ==
    \A o \in Owners : sb[o] = "write" => seen[o] = pins \cap Register(Job(o).pin)

\* A caller has a command while it calls.
CallersHaveCommands ==
    \A c \in Clients : cpc[c] # "idle" \/ cthr[c] # None => ccmd[c] \in Commands

\* A thread is at a step of the command it was given.
Fits(pc, cmd) ==
    /\ pc \in {"acquire"} \cup Critical => cmd \in Commands
    /\ pc \in {"set", "bus"} => cmd.kind = "set_power"
    /\ pc = "bus" => cmd.dev \in Bus
    /\ pc \in {"reset on", "reset off"} => cmd.kind = "reset_overcurrent"
    /\ pc = "status" => cmd.kind = "refresh"

RequestsFit == \A t \in Threads : Fits(tpc[t], tcmd[t])

\* The text of status tells the devices as they are until it has been parsed.
TextIsCurrent == \A t \in Threads : tpc[t] = "parse" => snap[t] = pins \cap Devices

IInv ==
    /\ TypeOK
    /\ Exclusive
    /\ OneSubprocess
    /\ RegisterIsCurrent
    /\ CallersHaveCommands
    /\ RequestsFit
    /\ TextIsCurrent
    /\ RefreshIsSnapshot

-----------------------------------------------------------------------------
(* What a job writes *)

\* A device, or the bus, or a bit of the router board.
LEMMA JobIsAPin ==
    ASSUME RequestsFit, NEW o \in Owners, HasJob(o)
    PROVE  Job(o).pin \in Pins /\ Job(o).state \in {"on", "off"}
<1> USE HwAssumption
<1>1. CASE o = "main"
    BY <1>1 DEF Job, Pins, Router
<1>2. CASE o \in Threads /\ tpc[o] = "set"
    <2>1. tcmd[o] \in AllCommands /\ tcmd[o].kind = "set_power"
        BY <1>2 DEF RequestsFit, Fits, Critical
    <2>2. tcmd[o].dev \in Devices /\ tcmd[o].state \in {"on", "off"}
        BY <2>1 DEF AllCommands
    <2> QED
        BY <1>2, <2>2 DEF Job, Pins
<1>3. CASE o \in Threads /\ tpc[o] # "set"
    BY <1>3 DEF Job, HasJob, Pins, Router, Devices
<1> QED
    BY <1>1, <1>2, <1>3 DEF Owners

\* Writing a bit with the rest of its register as it was changes only the bit.
LEMMA WriteIsPut ==
    ASSUME NEW pin \in Pins, NEW state \in {"on", "off"}, pins \in SUBSET Pins
    PROVE  (pins \ Register(pin)) \cup Put(pins \cap Register(pin), pin, state) = Put(pins, pin, state)
BY HwAssumption DEF Register, Put, Pins, Devices, Router

-----------------------------------------------------------------------------
LEMMA InitIInv == Init => IInv
<1> SUFFICES ASSUME Init PROVE IInv
    OBVIOUS
<1> USE HwAssumption
<1>1. TypeOK
    BY DEF Init, TypeOK, Owners
<1> QED
    BY <1>1 DEF Init, IInv, Exclusive, OneSubprocess, RegisterIsCurrent, RequestsFit, Fits,
                CallersHaveCommands, TextIsCurrent, RefreshIsSnapshot, Critical
\* In a state of the invariant a write changes the one bit of the job.
LEMMA WriteObeys ==
    ASSUME IInv, NEW o \in Owners, WriteRegister(o)
    PROVE  /\ Job(o).pin \in Pins /\ Job(o).state \in {"on", "off"}
           /\ pins' = Put(pins, Job(o).pin, Job(o).state)
<1>1. HasJob(o) /\ seen[o] = pins \cap Register(Job(o).pin)
    BY DEF IInv, OneSubprocess, RegisterIsCurrent, WriteRegister
<1>2. Job(o).pin \in Pins /\ Job(o).state \in {"on", "off"}
    BY <1>1, JobIsAPin DEF IInv
<1>3. pins' = (pins \ Register(Job(o).pin)) \cup Put(seen[o], Job(o).pin, Job(o).state)
    BY DEF WriteRegister
<1> QED
    BY <1>1, <1>2, <1>3, WriteIsPut DEF IInv, TypeOK

\* What follows a subprocess keeps the types.
LEMMA AfterJobTypes ==
    ASSUME TypeOK, NEW o \in Owners, NEW whole \in BOOLEAN, AfterJob(o, whole)
    PROVE  /\ tpc' \in [Threads -> {"free", "acquire", "reply", "fault"} \cup Critical]
           /\ snap' \in [Threads -> SUBSET Devices]
           /\ mpc' \in {"run", "stop", "stopped"}
           /\ UNCHANGED <<tcmd, tfor>>
<1> USE HwAssumption
<1>1. CASE o = "main"
    BY <1>1 DEF AfterJob, TypeOK, tVars
<1>2. CASE o \in Threads
    <2>1. o # "main"
        BY <1>2
    <2>2. PICK next \in {"bus", "reset off", "parse", "cut", "release"} :
                tpc' = [tpc EXCEPT ![o] = next]
        BY <2>1 DEF AfterJob
    <2>3. snap' = (IF tpc[o] = "status" THEN [snap EXCEPT ![o] = pins \cap Devices] ELSE snap)
        BY <2>1 DEF AfterJob
    <2>4. UNCHANGED <<tcmd, tfor, mpc>>
        BY <2>1 DEF AfterJob
    <2> QED
        BY <2>2, <2>3, <2>4 DEF TypeOK, Critical
<1> QED
    BY <1>1, <1>2 DEF Owners

\* Every step keeps the types.
LEMMA TypeStep ==
    ASSUME IInv, [Next]_vars
    PROVE  TypeOK'
<1> USE HwAssumption DEF IInv, TypeOK
<1>1. ASSUME NEW c \in Clients, Ask(c) PROVE TypeOK'
    BY <1>1 DEF Ask, cVars, tVars, sbVars
<1>2. ASSUME NEW c \in Clients, NEW t \in Threads, Send(c, t) PROVE TypeOK'
    BY <1>2 DEF Send, TStep, cVars, tVars, sbVars
<1>3. ASSUME NEW c \in Clients, GivesUp(c) PROVE TypeOK'
    BY <1>3 DEF GivesUp, AttemptFails, TryAgain, Answer, Attempts, cVars, tVars, sbVars
<1>4. ASSUME NEW o \in Owners, StartSbcctl(o) PROVE TypeOK'
    BY <1>4 DEF StartSbcctl, cVars, tVars, sbVars
<1>5. ASSUME NEW o \in Owners, ReadRegister(o) PROVE TypeOK'
    BY <1>5 DEF ReadRegister, cVars, tVars, sbVars
<1>6. ASSUME NEW o \in Owners, WriteRegister(o) PROVE TypeOK'
    BY <1>6, WriteObeys DEF WriteRegister, Put, cVars, tVars, sbVars
<1>7. ASSUME NEW o \in Owners, ReapSbcctl(o) PROVE TypeOK'
    BY <1>7, AfterJobTypes DEF ReapSbcctl, cVars, sbVars
<1>8. ASSUME NEW o \in Owners, SbcctlKilled(o) PROVE TypeOK'
    BY <1>8, AfterJobTypes DEF SbcctlKilled, cVars, sbVars
<1>9. ASSUME NEW t \in Threads, Acquire(t) PROVE TypeOK'
    BY <1>9 DEF Acquire, TStep, Critical, cVars, tVars, sbVars
<1>10. ASSUME NEW t \in Threads, BusIsOn(t) PROVE TypeOK'
    BY <1>10 DEF BusIsOn, TStep, Critical, cVars, tVars, sbVars
<1>11. ASSUME NEW t \in Threads, Parse(t) PROVE TypeOK'
    BY <1>11 DEF Parse, TStep, Critical, cVars, tVars, sbVars
<1>12. ASSUME NEW t \in Threads, ParseFails(t) PROVE TypeOK'
    BY <1>12 DEF ParseFails, TStep, Critical, cVars, tVars, sbVars
<1>13. ASSUME NEW t \in Threads, RefreshRest(t) PROVE TypeOK'
    BY <1>13 DEF RefreshRest, TStep, Critical, cVars, tVars, sbVars
<1>14. ASSUME NEW t \in Threads, Help(t) PROVE TypeOK'
    BY <1>14 DEF Help, TStep, Critical, cVars, tVars, sbVars
<1>15. ASSUME NEW t \in Threads, Release(t) PROVE TypeOK'
    BY <1>15 DEF Release, TStep, cVars, tVars, sbVars
<1>16. ASSUME NEW t \in Threads, Reply(t) PROVE TypeOK'
    BY <1>16 DEF Reply, AttemptFails, TryAgain, Answer, Attempts, cVars, tVars, sbVars
<1>17. ASSUME Interrupt PROVE TypeOK'
    BY <1>17 DEF Interrupt, cVars, tVars, sbVars
<1>18. CASE UNCHANGED vars
    BY <1>18 DEF vars, cVars, tVars, sbVars
<1> QED
    BY <1>1, <1>2, <1>3, <1>4, <1>5, <1>6, <1>7, <1>8, <1>9, <1>10, <1>11, <1>12, <1>13, <1>14, <1>15, <1>16, <1>17, <1>18 DEF Next, Client, Sbcctl, Thread
\* The lock excludes: a step enters the critical steps only with it.
LEMMA ExclusiveStep ==
    ASSUME IInv, [Next]_vars
    PROVE  Exclusive'
<1>0. /\ Exclusive /\ OneSubprocess
        /\ tpc \in [Threads -> {"free", "acquire", "reply", "fault"} \cup Critical]
    BY DEF IInv, TypeOK
<1> USE <1>0, HwAssumption DEF Exclusive, OneSubprocess, HasJob, Critical
<1>1. ASSUME NEW c \in Clients, Ask(c) PROVE Exclusive'
    BY <1>1 DEF Ask, cVars, tVars, sbVars
<1>2. ASSUME NEW c \in Clients, NEW t \in Threads, Send(c, t) PROVE Exclusive'
    BY <1>2 DEF Send, TStep, cVars, tVars, sbVars
<1>3. ASSUME NEW c \in Clients, GivesUp(c) PROVE Exclusive'
    BY <1>3 DEF GivesUp, AttemptFails, TryAgain, Answer, cVars, tVars, sbVars
<1>4. ASSUME NEW o \in Owners, StartSbcctl(o) PROVE Exclusive'
    BY <1>4 DEF StartSbcctl, cVars, tVars, sbVars
<1>5. ASSUME NEW o \in Owners, ReadRegister(o) PROVE Exclusive'
    BY <1>5 DEF ReadRegister, cVars, tVars, sbVars
<1>6. ASSUME NEW o \in Owners, WriteRegister(o) PROVE Exclusive'
    BY <1>6 DEF WriteRegister, cVars, tVars, sbVars
<1>7. ASSUME NEW o \in Owners, ReapSbcctl(o) PROVE Exclusive'
    BY <1>7 DEF ReapSbcctl, AfterJob, tVars, cVars, tVars, sbVars
<1>8. ASSUME NEW o \in Owners, SbcctlKilled(o) PROVE Exclusive'
    BY <1>8 DEF SbcctlKilled, AfterJob, tVars, cVars, tVars, sbVars
<1>9. ASSUME NEW t \in Threads, Acquire(t) PROVE Exclusive'
    BY ZenonT(40), <1>9 DEF Acquire, TStep, cVars, tVars, sbVars
<1>10. ASSUME NEW t \in Threads, BusIsOn(t) PROVE Exclusive'
    BY ZenonT(40), <1>10 DEF BusIsOn, TStep, cVars, tVars, sbVars
<1>11. ASSUME NEW t \in Threads, Parse(t) PROVE Exclusive'
    BY ZenonT(40), <1>11 DEF Parse, TStep, cVars, tVars, sbVars
<1>12. ASSUME NEW t \in Threads, ParseFails(t) PROVE Exclusive'
    BY ZenonT(40), <1>12 DEF ParseFails, TStep, cVars, tVars, sbVars
<1>13. ASSUME NEW t \in Threads, RefreshRest(t) PROVE Exclusive'
    BY <1>13 DEF RefreshRest, TStep, cVars, tVars, sbVars
<1>14. ASSUME NEW t \in Threads, Help(t) PROVE Exclusive'
    BY ZenonT(40), <1>14 DEF Help, TStep, cVars, tVars, sbVars
<1>15. ASSUME NEW t \in Threads, Release(t) PROVE Exclusive'
    BY <1>15 DEF Release, TStep, cVars, tVars, sbVars
<1>16. ASSUME NEW t \in Threads, Reply(t) PROVE Exclusive'
    BY <1>16 DEF Reply, AttemptFails, TryAgain, Answer, cVars, tVars, sbVars
<1>17. ASSUME Interrupt PROVE Exclusive'
    BY <1>17 DEF Interrupt, cVars, tVars, sbVars
<1>18. CASE UNCHANGED vars
    BY <1>18 DEF vars, cVars, tVars, sbVars
<1> HIDE <1>0, HwAssumption DEF Exclusive, OneSubprocess, HasJob, Critical
<1> QED
    BY <1>1, <1>2, <1>3, <1>4, <1>5, <1>6, <1>7, <1>8, <1>9, <1>10, <1>11, <1>12, <1>13, <1>14, <1>15, <1>16, <1>17, <1>18 DEF Next, Client, Sbcctl, Thread

\* One sbcctl runs at a time, for the job its owner is at.
LEMMA OneSubprocessStep ==
    ASSUME IInv, [Next]_vars
    PROVE  OneSubprocess'
<1>0. /\ Exclusive /\ OneSubprocess
        /\ tpc \in [Threads -> {"free", "acquire", "reply", "fault"} \cup Critical]
        /\ sb \in [Owners -> {"no", "read", "write", "exit"}]
    BY DEF IInv, TypeOK
<1> USE <1>0, HwAssumption DEF OneSubprocess, Exclusive, HasJob, Critical, Owners
<1>1. ASSUME NEW c \in Clients, Ask(c) PROVE OneSubprocess'
    BY <1>1 DEF Ask, cVars, tVars, sbVars
<1>2. ASSUME NEW c \in Clients, NEW t \in Threads, Send(c, t) PROVE OneSubprocess'
    BY <1>2 DEF Send, TStep, cVars, tVars, sbVars
<1>3. ASSUME NEW c \in Clients, GivesUp(c) PROVE OneSubprocess'
    BY <1>3 DEF GivesUp, AttemptFails, TryAgain, Answer, cVars, tVars, sbVars
<1>4. ASSUME NEW o \in Owners, StartSbcctl(o) PROVE OneSubprocess'
    BY <1>4 DEF StartSbcctl, cVars, tVars, sbVars
<1>5. ASSUME NEW o \in Owners, ReadRegister(o) PROVE OneSubprocess'
    BY <1>5 DEF ReadRegister, cVars, tVars, sbVars
<1>6. ASSUME NEW o \in Owners, WriteRegister(o) PROVE OneSubprocess'
    BY <1>6 DEF WriteRegister, cVars, tVars, sbVars
<1>7. ASSUME NEW o \in Owners, ReapSbcctl(o) PROVE OneSubprocess'
    BY <1>7 DEF ReapSbcctl, AfterJob, tVars, cVars, tVars, sbVars
<1>8. ASSUME NEW o \in Owners, SbcctlKilled(o) PROVE OneSubprocess'
    BY <1>8 DEF SbcctlKilled, AfterJob, tVars, cVars, tVars, sbVars
<1>9. ASSUME NEW t \in Threads, Acquire(t) PROVE OneSubprocess'
    BY <1>9 DEF Acquire, TStep, cVars, tVars, sbVars
<1>10. ASSUME NEW t \in Threads, BusIsOn(t) PROVE OneSubprocess'
    BY <1>10 DEF BusIsOn, TStep, cVars, tVars, sbVars
<1>11. ASSUME NEW t \in Threads, Parse(t) PROVE OneSubprocess'
    BY ZenonT(40), <1>11 DEF Parse, TStep, cVars, tVars, sbVars
<1>12. ASSUME NEW t \in Threads, ParseFails(t) PROVE OneSubprocess'
    BY <1>12 DEF ParseFails, TStep, cVars, tVars, sbVars
<1>13. ASSUME NEW t \in Threads, RefreshRest(t) PROVE OneSubprocess'
    BY <1>13 DEF RefreshRest, TStep, cVars, tVars, sbVars
<1>14. ASSUME NEW t \in Threads, Help(t) PROVE OneSubprocess'
    BY <1>14 DEF Help, TStep, cVars, tVars, sbVars
<1>15. ASSUME NEW t \in Threads, Release(t) PROVE OneSubprocess'
    BY <1>15 DEF Release, TStep, cVars, tVars, sbVars
<1>16. ASSUME NEW t \in Threads, Reply(t) PROVE OneSubprocess'
    BY <1>16 DEF Reply, AttemptFails, TryAgain, Answer, cVars, tVars, sbVars
<1>17. ASSUME Interrupt PROVE OneSubprocess'
    BY <1>17 DEF Interrupt, cVars, tVars, sbVars
<1>18. CASE UNCHANGED vars
    BY <1>18 DEF vars, cVars, tVars, sbVars
<1> HIDE <1>0, HwAssumption DEF OneSubprocess, Exclusive, HasJob, Critical, Owners
<1> QED
    BY <1>1, <1>2, <1>3, <1>4, <1>5, <1>6, <1>7, <1>8, <1>9, <1>10, <1>11, <1>12, <1>13, <1>14, <1>15, <1>16, <1>17, <1>18 DEF Next, Client, Sbcctl, Thread

\* A caller keeps its command until it is answered.
LEMMA CallersStep ==
    ASSUME IInv, [Next]_vars
    PROVE  CallersHaveCommands'
<1>0. /\ CallersHaveCommands
        /\ cpc \in [Clients -> {"idle", "send", "wait"}]
        /\ ccmd \in [Clients -> Commands \cup {NoCommand}]
        /\ cthr \in [Clients -> Threads \cup {None}]
    BY DEF IInv, TypeOK
<1> USE <1>0, HwAssumption DEF CallersHaveCommands, Owners
<1>1. ASSUME NEW c \in Clients, Ask(c) PROVE CallersHaveCommands'
    BY <1>1 DEF Ask, cVars, tVars, sbVars
<1>2. ASSUME NEW c \in Clients, NEW t \in Threads, Send(c, t) PROVE CallersHaveCommands'
    BY <1>2 DEF Send, TStep, cVars, tVars, sbVars
<1>3. ASSUME NEW c \in Clients, GivesUp(c) PROVE CallersHaveCommands'
    BY <1>3 DEF GivesUp, AttemptFails, TryAgain, Answer, cVars, tVars, sbVars
<1>4. ASSUME NEW o \in Owners, StartSbcctl(o) PROVE CallersHaveCommands'
    BY <1>4 DEF StartSbcctl, cVars, tVars, sbVars
<1>5. ASSUME NEW o \in Owners, ReadRegister(o) PROVE CallersHaveCommands'
    BY <1>5 DEF ReadRegister, cVars, tVars, sbVars
<1>6. ASSUME NEW o \in Owners, WriteRegister(o) PROVE CallersHaveCommands'
    BY <1>6 DEF WriteRegister, cVars, tVars, sbVars
<1>7. ASSUME NEW o \in Owners, ReapSbcctl(o) PROVE CallersHaveCommands'
    BY <1>7 DEF ReapSbcctl, AfterJob, tVars, cVars, tVars, sbVars
<1>8. ASSUME NEW o \in Owners, SbcctlKilled(o) PROVE CallersHaveCommands'
    BY <1>8 DEF SbcctlKilled, AfterJob, tVars, cVars, tVars, sbVars
<1>9. ASSUME NEW t \in Threads, Acquire(t) PROVE CallersHaveCommands'
    BY <1>9 DEF Acquire, TStep, cVars, tVars, sbVars
<1>10. ASSUME NEW t \in Threads, BusIsOn(t) PROVE CallersHaveCommands'
    BY <1>10 DEF BusIsOn, TStep, cVars, tVars, sbVars
<1>11. ASSUME NEW t \in Threads, Parse(t) PROVE CallersHaveCommands'
    BY <1>11 DEF Parse, TStep, cVars, tVars, sbVars
<1>12. ASSUME NEW t \in Threads, ParseFails(t) PROVE CallersHaveCommands'
    BY <1>12 DEF ParseFails, TStep, cVars, tVars, sbVars
<1>13. ASSUME NEW t \in Threads, RefreshRest(t) PROVE CallersHaveCommands'
    BY <1>13 DEF RefreshRest, TStep, cVars, tVars, sbVars
<1>14. ASSUME NEW t \in Threads, Help(t) PROVE CallersHaveCommands'
    BY <1>14 DEF Help, TStep, cVars, tVars, sbVars
<1>15. ASSUME NEW t \in Threads, Release(t) PROVE CallersHaveCommands'
    BY <1>15 DEF Release, TStep, cVars, tVars, sbVars
<1>16. ASSUME NEW t \in Threads, Reply(t) PROVE CallersHaveCommands'
    BY <1>16 DEF Reply, AttemptFails, TryAgain, Answer, cVars, tVars, sbVars
<1>17. ASSUME Interrupt PROVE CallersHaveCommands'
    BY <1>17 DEF Interrupt, cVars, tVars, sbVars
<1>18. CASE UNCHANGED vars
    BY <1>18 DEF vars, cVars, tVars, sbVars
<1> HIDE <1>0, HwAssumption DEF CallersHaveCommands, Owners
<1> QED
    BY <1>1, <1>2, <1>3, <1>4, <1>5, <1>6, <1>7, <1>8, <1>9, <1>10, <1>11, <1>12, <1>13, <1>14, <1>15, <1>16, <1>17, <1>18 DEF Next, Client, Sbcctl, Thread

\* The command of a thread that takes one step decides the next.
LEMMA MovesFit ==
    ASSUME RequestsFit, tpc \in [Threads -> {"free", "acquire", "reply", "fault"} \cup Critical],
           UNCHANGED tcmd, NEW t \in Threads, NEW next,
           tpc' = [tpc EXCEPT ![t] = next],
           Fits(tpc[t], tcmd[t]) => Fits(next, tcmd[t])
    PROVE  RequestsFit'
BY DEF RequestsFit

\* A thread stays within its command.
LEMMA RequestsFitStep ==
    ASSUME IInv, [Next]_vars
    PROVE  RequestsFit'
<1>0. /\ RequestsFit /\ OneSubprocess /\ CallersHaveCommands
        /\ tpc \in [Threads -> {"free", "acquire", "reply", "fault"} \cup Critical]
        /\ tcmd \in [Threads -> Commands \cup {NoCommand}]
        /\ cpc \in [Clients -> {"idle", "send", "wait"}]
    BY DEF IInv, TypeOK
<1>1. CASE UNCHANGED <<tpc, tcmd>>
    BY <1>0, <1>1 DEF RequestsFit
<1>2. ASSUME NEW c \in Clients, NEW t \in Threads, Send(c, t) PROVE RequestsFit'
    <2>1. tpc' = [tpc EXCEPT ![t] = "acquire"] /\ tcmd' = [tcmd EXCEPT ![t] = ccmd[c]]
        BY <1>2 DEF Send, TStep
    <2>2. Fits("acquire", ccmd[c])
        BY <1>0, <1>2 DEF Fits, Critical, CallersHaveCommands, Send
    <2> QED
        BY <1>0, <2>1, <2>2 DEF RequestsFit
<1>3. ASSUME NEW o \in Owners, NEW whole \in BOOLEAN, sb[o] # "no", AfterJob(o, whole)
      PROVE  RequestsFit'
    <2>1. CASE o = "main"
        BY <1>0, <1>3, <2>1 DEF AfterJob, tVars, RequestsFit
    <2>2. CASE o # "main"
        <3>1. o \in Threads /\ HasJob(o)
            BY <1>0, <1>3, <2>2 DEF OneSubprocess, Owners
        <3>2. DEFINE next ==
                CASE tpc[o] = "set" /\ tcmd[o].dev \in Bus -> "bus"
                  [] tpc[o] = "reset on" -> "reset off"
                  [] tpc[o] = "status" -> IF whole THEN "parse" ELSE "cut"
                  [] OTHER -> "release"
        <3>3. tpc' = [tpc EXCEPT ![o] = next] /\ UNCHANGED tcmd
            BY <1>0, <1>3, <2>2, <3>1 DEF AfterJob
        <3>4. Fits(tpc[o], tcmd[o]) => Fits(next, tcmd[o])
            BY <2>2, <3>1 DEF Fits, Critical, HasJob
        <3> QED
            BY <1>0, <3>1, <3>3, <3>4, MovesFit
    <2> QED
        BY <2>1, <2>2
<1>4. ASSUME NEW t \in Threads, Acquire(t) PROVE RequestsFit'
    <2> DEFINE next ==
            CASE tcmd[t].kind = "set_power" -> "set"
              [] tcmd[t].kind = "refresh" -> "status"
              [] tcmd[t].kind = "reset_overcurrent" -> "reset on"
              [] tcmd[t].kind = "help" -> "help"
              [] OTHER -> "release"
    <2>1. tpc[t] = "acquire" /\ tpc' = [tpc EXCEPT ![t] = next] /\ UNCHANGED tcmd
        BY <1>4 DEF Acquire, TStep
    <2>2. Fits(tpc[t], tcmd[t]) => Fits(next, tcmd[t])
        BY <2>1 DEF Fits, Critical
    <2> QED
        BY <1>0, <2>1, <2>2, MovesFit
<1>5. ASSUME NEW t \in Threads, NEW next \in {"rest", "release", "reply", "fault"},
             tpc[t] \in Critical, tpc' = [tpc EXCEPT ![t] = next], UNCHANGED tcmd
      PROVE  RequestsFit'
    <2>1. Fits(tpc[t], tcmd[t]) => Fits(next, tcmd[t])
        BY <1>5 DEF Fits, Critical
    <2> QED
        BY <1>0, <1>5, <2>1, MovesFit
<1>6. ASSUME NEW t \in Threads, Reply(t) PROVE RequestsFit'
    BY <1>0, <1>6 DEF Reply, RequestsFit, Fits, Critical
<1>7. ASSUME NEW c \in Clients, Client(c) PROVE RequestsFit'
    BY <1>1, <1>2, <1>7 DEF Client, Ask, GivesUp, tVars
<1>8. ASSUME NEW o \in Owners, Sbcctl(o) PROVE RequestsFit'
    <2>1. CASE StartSbcctl(o) \/ ReadRegister(o) \/ WriteRegister(o)
        BY <1>1, <2>1 DEF StartSbcctl, ReadRegister, WriteRegister, tVars
    <2>2. CASE ReapSbcctl(o)
        BY <1>3, <2>2 DEF ReapSbcctl
    <2>3. CASE SbcctlKilled(o)
        BY <1>3, <2>3 DEF SbcctlKilled
    <2> QED
        BY <1>8, <2>1, <2>2, <2>3 DEF Sbcctl
<1>9. ASSUME NEW t \in Threads, Thread(t) PROVE RequestsFit'
    <2>1. CASE BusIsOn(t) \/ Parse(t) \/ ParseFails(t) \/ RefreshRest(t) \/ Help(t) \/ Release(t)
        BY <1>5, <2>1 DEF BusIsOn, Parse, ParseFails, RefreshRest, Help, Release, TStep, Critical
    <2> QED
        BY <1>6, <1>9, <2>1 DEF Thread
<1>10. CASE Interrupt \/ UNCHANGED vars
    BY <1>1, <1>10 DEF Interrupt, vars, tVars
<1> QED
    BY <1>4, <1>7, <1>8, <1>9, <1>10 DEF Next

\* Where nothing about sbcctl changes, and no owner with a job moves, what a
\* process has read of its register stays current.
LEMMA RegisterStays ==
    ASSUME RegisterIsCurrent, OneSubprocess, UNCHANGED <<sb, seen, pins>>,
           \A t \in Threads : HasJob(t) => tpc'[t] = tpc[t] /\ tcmd'[t] = tcmd[t]
    PROVE  RegisterIsCurrent'
<1> SUFFICES ASSUME NEW o \in Owners, sb[o] = "write"
             PROVE  seen[o] = pins \cap Register(Job(o)'.pin)
    BY DEF RegisterIsCurrent, Register
<1>1. HasJob(o)
    BY DEF OneSubprocess
<1>2. Job(o)' = Job(o)
    BY <1>1 DEF Job, Owners
<1> QED
    BY <1>2 DEF RegisterIsCurrent

\* Nobody writes between the read and the write of another.
LEMMA RegisterIsCurrentStep ==
    ASSUME IInv, [Next]_vars
    PROVE  RegisterIsCurrent'
<1> USE HwAssumption
<1>0. /\ RegisterIsCurrent /\ OneSubprocess
        /\ tpc \in [Threads -> {"free", "acquire", "reply", "fault"} \cup Critical]
        /\ tcmd \in [Threads -> Commands \cup {NoCommand}]
        /\ sb \in [Owners -> {"no", "read", "write", "exit"}]
        /\ seen \in [Owners -> SUBSET Pins]
    BY DEF IInv, TypeOK
<1>1. CASE UNCHANGED <<sb, seen, pins, tpc, tcmd>>
    BY <1>0, <1>1, RegisterStays
<1>2. ASSUME NEW t \in Threads, ~HasJob(t), UNCHANGED <<sb, seen, pins>>,
             \A u \in Threads \ {t} : tpc'[u] = tpc[u] /\ tcmd'[u] = tcmd[u]
      PROVE  RegisterIsCurrent'
    BY <1>0, <1>2, RegisterStays
<1>3. ASSUME NEW o \in Owners, NEW at \in {"no", "read", "exit"}, sb[o] # "no" \/ sub = None,
             sb' = [sb EXCEPT ![o] = at]
      PROVE  RegisterIsCurrent'
    <2>1. \A p \in Owners \ {o} : sb[p] = "no"
        BY <1>0, <1>3 DEF OneSubprocess, Owners
    <2> QED
        BY <1>0, <1>3, <2>1 DEF RegisterIsCurrent
<1>4. ASSUME NEW o \in Owners, ReadRegister(o) PROVE RegisterIsCurrent'
    <2>1. \A p \in Owners \ {o} : sb[p] = "no"
        BY <1>0, <1>4 DEF OneSubprocess, ReadRegister
    <2>2. Job(o)' = Job(o)
        BY <1>4 DEF Job, ReadRegister, tVars
    <2> QED
        BY <1>0, <1>4, <2>1, <2>2 DEF RegisterIsCurrent, ReadRegister, Register
<1>5. ASSUME NEW c \in Clients, Client(c) PROVE RegisterIsCurrent'
    <2>1. ASSUME NEW t \in Threads, Send(c, t) PROVE RegisterIsCurrent'
        <3>1. ~HasJob(t)
            BY <2>1 DEF Send, TStep, HasJob
        <3>2. \A u \in Threads \ {t} : tpc'[u] = tpc[u] /\ tcmd'[u] = tcmd[u]
            BY <1>0, <2>1 DEF Send, TStep
        <3> QED
            BY <1>2, <2>1, <3>1, <3>2 DEF Send, sbVars
    <2> QED
        BY <1>1, <1>5, <2>1 DEF Client, Ask, GivesUp, tVars, sbVars
<1>6. ASSUME NEW o \in Owners, Sbcctl(o) PROVE RegisterIsCurrent'
    <2>1. CASE StartSbcctl(o) \/ WriteRegister(o) \/ ReapSbcctl(o) \/ SbcctlKilled(o)
        BY <1>3, <2>1 DEF StartSbcctl, WriteRegister, ReapSbcctl, SbcctlKilled
    <2> QED
        BY <1>4, <1>6, <2>1 DEF Sbcctl
<1>7. ASSUME NEW t \in Threads, Acquire(t) \/ Thread(t) PROVE RegisterIsCurrent'
    <2>1. ~HasJob(t)
        BY <1>7 DEF Acquire, Thread, BusIsOn, Parse, ParseFails, RefreshRest, Help, Release,
                    Reply, TStep, HasJob
    <2>2. UNCHANGED <<sb, seen, pins>>
        BY <1>7 DEF Acquire, Thread, BusIsOn, Parse, ParseFails, RefreshRest, Help, Release,
                    Reply, sbVars
    <2>3. \A u \in Threads \ {t} : tpc'[u] = tpc[u] /\ tcmd'[u] = tcmd[u]
        BY <1>0, <1>7 DEF Acquire, Thread, BusIsOn, Parse, ParseFails, RefreshRest, Help, Release,
                    Reply, TStep
    <2> QED
        BY <1>2, <2>1, <2>2, <2>3
<1>8. CASE Interrupt \/ UNCHANGED vars
    BY <1>1, <1>8 DEF Interrupt, vars, tVars, sbVars
<1> QED
    BY <1>5, <1>6, <1>7, <1>8 DEF Next

\* While a refresh parses or finishes, only the main thread can write, and it
\* writes no device.
LEMMA WriteElsewhere ==
    ASSUME IInv, NEW o \in Owners, WriteRegister(o),
           NEW t \in Threads, tpc[t] \in {"parse", "rest"}
    PROVE  pins' \cap Devices = pins \cap Devices
<1> USE HwAssumption
<1>1. HasJob(o) /\ exec = t
    BY DEF IInv, OneSubprocess, Exclusive, Critical, WriteRegister
<1>2. o = "main"
    BY <1>1 DEF HasJob, IInv, Exclusive, Critical
<1>3. pins' = Put(pins, "latch", "on")
    BY <1>2, WriteObeys DEF Job
<1> QED
    BY <1>3 DEF Put, Devices, Router

\* No device moves between the text of status and its parsing.
LEMMA TextIsCurrentStep ==
    ASSUME IInv, [Next]_vars
    PROVE  TextIsCurrent'
<1>0. /\ TextIsCurrent /\ Exclusive
        /\ tpc \in [Threads -> {"free", "acquire", "reply", "fault"} \cup Critical]
        /\ snap \in [Threads -> SUBSET Devices]
    BY DEF IInv, TypeOK
<1> USE <1>0, HwAssumption DEF TextIsCurrent, Exclusive, Critical
<1>1. ASSUME NEW c \in Clients, Ask(c) PROVE TextIsCurrent'
    BY <1>1 DEF Ask, cVars, tVars, sbVars
<1>2. ASSUME NEW c \in Clients, NEW t \in Threads, Send(c, t) PROVE TextIsCurrent'
    BY <1>2 DEF Send, TStep, cVars, tVars, sbVars
<1>3. ASSUME NEW c \in Clients, GivesUp(c) PROVE TextIsCurrent'
    BY <1>3 DEF GivesUp, AttemptFails, TryAgain, Answer, cVars, tVars, sbVars
<1>4. ASSUME NEW o \in Owners, StartSbcctl(o) PROVE TextIsCurrent'
    BY <1>4 DEF StartSbcctl, cVars, tVars, sbVars
<1>5. ASSUME NEW o \in Owners, ReadRegister(o) PROVE TextIsCurrent'
    BY <1>5 DEF ReadRegister, cVars, tVars, sbVars
<1>6. ASSUME NEW o \in Owners, WriteRegister(o) PROVE TextIsCurrent'
    BY <1>6, WriteElsewhere DEF WriteRegister, cVars, tVars, sbVars
<1>7. ASSUME NEW o \in Owners, ReapSbcctl(o) PROVE TextIsCurrent'
    BY <1>7 DEF ReapSbcctl, AfterJob, tVars, cVars, tVars, sbVars
<1>8. ASSUME NEW o \in Owners, SbcctlKilled(o) PROVE TextIsCurrent'
    BY <1>8 DEF SbcctlKilled, AfterJob, tVars, cVars, tVars, sbVars
<1>9. ASSUME NEW t \in Threads, Acquire(t) PROVE TextIsCurrent'
    BY <1>9 DEF Acquire, TStep, cVars, tVars, sbVars
<1>10. ASSUME NEW t \in Threads, BusIsOn(t) PROVE TextIsCurrent'
    BY <1>10 DEF BusIsOn, TStep, cVars, tVars, sbVars
<1>11. ASSUME NEW t \in Threads, Parse(t) PROVE TextIsCurrent'
    BY <1>11 DEF Parse, TStep, cVars, tVars, sbVars
<1>12. ASSUME NEW t \in Threads, ParseFails(t) PROVE TextIsCurrent'
    BY <1>12 DEF ParseFails, TStep, cVars, tVars, sbVars
<1>13. ASSUME NEW t \in Threads, RefreshRest(t) PROVE TextIsCurrent'
    BY <1>13 DEF RefreshRest, TStep, cVars, tVars, sbVars
<1>14. ASSUME NEW t \in Threads, Help(t) PROVE TextIsCurrent'
    BY <1>14 DEF Help, TStep, cVars, tVars, sbVars
<1>15. ASSUME NEW t \in Threads, Release(t) PROVE TextIsCurrent'
    BY <1>15 DEF Release, TStep, cVars, tVars, sbVars
<1>16. ASSUME NEW t \in Threads, Reply(t) PROVE TextIsCurrent'
    BY <1>16 DEF Reply, AttemptFails, TryAgain, Answer, cVars, tVars, sbVars
<1>17. ASSUME Interrupt PROVE TextIsCurrent'
    BY <1>17 DEF Interrupt, cVars, tVars, sbVars
<1>18. CASE UNCHANGED vars
    BY <1>18 DEF vars, cVars, tVars, sbVars
<1> HIDE <1>0, HwAssumption DEF TextIsCurrent, Exclusive, Critical
<1> QED
    BY <1>1, <1>2, <1>3, <1>4, <1>5, <1>6, <1>7, <1>8, <1>9, <1>10, <1>11, <1>12, <1>13, <1>14, <1>15, <1>16, <1>17, <1>18 DEF Next, Client, Sbcctl, Thread

\* Nor between the parsing and the end of the refresh.
LEMMA SnapshotStep ==
    ASSUME IInv, [Next]_vars
    PROVE  RefreshIsSnapshot'
<1>0. /\ RefreshIsSnapshot /\ TextIsCurrent /\ Exclusive
        /\ tpc \in [Threads -> {"free", "acquire", "reply", "fault"} \cup Critical]
    BY DEF IInv, TypeOK
<1> USE <1>0, HwAssumption DEF RefreshIsSnapshot, TextIsCurrent, Exclusive, Critical
<1>1. ASSUME NEW c \in Clients, Ask(c) PROVE RefreshIsSnapshot'
    BY <1>1 DEF Ask, cVars, tVars, sbVars
<1>2. ASSUME NEW c \in Clients, NEW t \in Threads, Send(c, t) PROVE RefreshIsSnapshot'
    BY <1>2 DEF Send, TStep, cVars, tVars, sbVars
<1>3. ASSUME NEW c \in Clients, GivesUp(c) PROVE RefreshIsSnapshot'
    BY <1>3 DEF GivesUp, AttemptFails, TryAgain, Answer, cVars, tVars, sbVars
<1>4. ASSUME NEW o \in Owners, StartSbcctl(o) PROVE RefreshIsSnapshot'
    BY <1>4 DEF StartSbcctl, cVars, tVars, sbVars
<1>5. ASSUME NEW o \in Owners, ReadRegister(o) PROVE RefreshIsSnapshot'
    BY <1>5 DEF ReadRegister, cVars, tVars, sbVars
<1>6. ASSUME NEW o \in Owners, WriteRegister(o) PROVE RefreshIsSnapshot'
    BY <1>6, WriteElsewhere DEF WriteRegister, cVars, tVars, sbVars
<1>7. ASSUME NEW o \in Owners, ReapSbcctl(o) PROVE RefreshIsSnapshot'
    BY <1>7 DEF ReapSbcctl, AfterJob, tVars, cVars, tVars, sbVars
<1>8. ASSUME NEW o \in Owners, SbcctlKilled(o) PROVE RefreshIsSnapshot'
    BY <1>8 DEF SbcctlKilled, AfterJob, tVars, cVars, tVars, sbVars
<1>9. ASSUME NEW t \in Threads, Acquire(t) PROVE RefreshIsSnapshot'
    BY <1>9 DEF Acquire, TStep, cVars, tVars, sbVars
<1>10. ASSUME NEW t \in Threads, BusIsOn(t) PROVE RefreshIsSnapshot'
    BY <1>10 DEF BusIsOn, TStep, cVars, tVars, sbVars
<1>11. ASSUME NEW t \in Threads, Parse(t) PROVE RefreshIsSnapshot'
    BY <1>11 DEF Parse, TStep, cVars, tVars, sbVars
<1>12. ASSUME NEW t \in Threads, ParseFails(t) PROVE RefreshIsSnapshot'
    BY <1>12 DEF ParseFails, TStep, cVars, tVars, sbVars
<1>13. ASSUME NEW t \in Threads, RefreshRest(t) PROVE RefreshIsSnapshot'
    BY <1>13 DEF RefreshRest, TStep, cVars, tVars, sbVars
<1>14. ASSUME NEW t \in Threads, Help(t) PROVE RefreshIsSnapshot'
    BY <1>14 DEF Help, TStep, cVars, tVars, sbVars
<1>15. ASSUME NEW t \in Threads, Release(t) PROVE RefreshIsSnapshot'
    BY <1>15 DEF Release, TStep, cVars, tVars, sbVars
<1>16. ASSUME NEW t \in Threads, Reply(t) PROVE RefreshIsSnapshot'
    BY <1>16 DEF Reply, AttemptFails, TryAgain, Answer, cVars, tVars, sbVars
<1>17. ASSUME Interrupt PROVE RefreshIsSnapshot'
    BY <1>17 DEF Interrupt, cVars, tVars, sbVars
<1>18. CASE UNCHANGED vars
    BY <1>18 DEF vars, cVars, tVars, sbVars
<1> HIDE <1>0, HwAssumption DEF RefreshIsSnapshot, TextIsCurrent, Exclusive, Critical
<1> QED
    BY <1>1, <1>2, <1>3, <1>4, <1>5, <1>6, <1>7, <1>8, <1>9, <1>10, <1>11, <1>12, <1>13, <1>14, <1>15, <1>16, <1>17, <1>18 DEF Next, Client, Sbcctl, Thread

LEMMA NextIInv == IInv /\ [Next]_vars => IInv'
BY TypeStep, ExclusiveStep, OneSubprocessStep, RegisterIsCurrentStep, CallersStep,
   RequestsFitStep, TextIsCurrentStep, SnapshotStep DEF IInv

THEOREM Inductive == Spec => []IInv
BY InitIInv, NextIInv, PTL DEF Spec

\* Every variable of the hardware manager and its callers keeps its type.
THEOREM TypeCorrect == Spec => []TypeOK
<1>1. IInv => TypeOK
    BY DEF IInv
<1> QED
    BY <1>1, Inductive, PTL

\* Whatever the other requests do, the dictionary a refresh has filled shows
\* the switches as they are.
THEOREM RefreshesAreSnapshots == Spec => []RefreshIsSnapshot
<1>1. IInv => RefreshIsSnapshot
    BY DEF IInv
<1> QED
    BY <1>1, Inductive, PTL
-----------------------------------------------------------------------------
(* The promise of PowerSwitches *)

\* An order names an owner, a switch and a state.
OrdersFit == OutstandingOrders \subseteq Promise!Orders

LEMMA OrdersTyped == IInv => OrdersFit
<1> SUFFICES ASSUME IInv, NEW o \in Owners, NEW w \in ToWrite(o)
             PROVE  OrderBy(o, w) \in Promise!Orders
    BY DEF OrdersFit, OutstandingOrders, OrdersOf
<1> USE HwAssumption
<1>1. CASE w = Job(o) /\ HasJob(o)
    BY <1>1, JobIsAPin DEF IInv, OrderBy, Promise!Orders
<1>2. CASE o \in Threads /\ tpc[o] \in {"acquire", "set", "reset on"}
    <2>1. w \in Writes(tcmd[o]) /\ tcmd[o] \in AllCommands
        BY <1>2 DEF ToWrite, IInv, RequestsFit, Fits, Critical
    <2>2. w.pin \in Pins /\ w.state \in {"on", "off"}
        <3>1. CASE tcmd[o].kind = "set_power"
            <4>1. tcmd[o].dev \in Devices /\ tcmd[o].state \in {"on", "off"}
                BY <2>1, <3>1 DEF AllCommands
            <4>2. w \in {[pin |-> tcmd[o].dev, state |-> tcmd[o].state], [pin |-> "pc104", state |-> "on"]}
                BY <2>1, <3>1 DEF Writes
            <4>3. "pc104" \in Devices
                BY DEF Devices
            <4>4. w.pin \in Devices /\ w.state \in {"on", "off"}
                BY <4>1, <4>2, <4>3
            <4> QED
                BY <4>4 DEF Pins
        <3>2. CASE tcmd[o].kind # "set_power"
            <4>1. w \in {[pin |-> "ovr", state |-> "on"], [pin |-> "ovr", state |-> "off"],
                         [pin |-> "mux", state |-> "on"]}
                BY <2>1, <3>2 DEF Writes
            <4>2. w.pin \in Router /\ w.state \in {"on", "off"}
                BY <4>1 DEF Router
            <4> QED
                BY <4>2 DEF Pins
        <3> QED
            BY <3>1, <3>2
    <2> QED
        BY <2>2 DEF OrderBy, Promise!Orders
<1>3. CASE o \in Threads /\ tpc[o] \in {"bus", "reset off", "status"}
    <2>1. Job(o).pin \in Pins /\ Job(o).state \in {"on", "off"} /\ w = Job(o)
        BY <1>3 DEF Job, ToWrite, Pins, Devices, Router
    <2> QED
        BY <2>1 DEF OrderBy, Promise!Orders
<1> QED
    BY <1>1, <1>2, <1>3 DEF ToWrite, HasJob, Owners

\* The orders of an owner depend on where it and its sbcctl are.
LEMMA OrdersStay ==
    ASSUME NEW o \in Owners, sb'[o] = sb[o],
           o = "main" => mpc' = mpc,
           o \in Threads => tpc'[o] = tpc[o] /\ tcmd'[o] = tcmd[o]
    PROVE  OrdersOf(o)' = OrdersOf(o)
<1>1. Job(o)' = Job(o) /\ ToWrite(o)' = ToWrite(o)
    BY DEF Job, ToWrite, Owners
<1> QED
    BY <1>1 DEF OrdersOf, Done, OrderBy

\* A step in which no order appears and no switch moves drops orders.
LEMMA DropsOrders ==
    ASSUME UNCHANGED pins, \A o \in Owners : OrdersOf(o)' \subseteq OrdersOf(o)
    PROVE  Promise!Next
BY DEF OutstandingOrders, Promise!Next, Promise!Drop

\* A step in which no order disappears and no switch moves gives orders.
LEMMA GivesOrders ==
    ASSUME UNCHANGED pins, \A o \in Owners : OrdersOf(o) \subseteq OrdersOf(o)',
           OutstandingOrders' \subseteq Promise!Orders
    PROVE  Promise!Next
BY DEF OutstandingOrders, Promise!Next, Promise!Give

LEMMA WritesDiffer ==
    ASSUME NEW p, NEW q, NEW s, NEW t, p # q \/ s # t
    PROVE  [pin |-> p, state |-> s] # [pin |-> q, state |-> t]
OBVIOUS

\* After its subprocess an owner has to write what it had to, but for this.
LEMMA AfterJobDrops ==
    ASSUME IInv, NEW o \in Owners, NEW whole \in BOOLEAN, AfterJob(o, whole), HasJob(o)
    PROVE  ToWrite(o)' \subseteq ToWrite(o) \ {Job(o)}
<1> USE HwAssumption
<1>1. CASE o = "main"
    BY <1>1 DEF AfterJob, ToWrite
<1>2. CASE o # "main"
    <2>1. o \in Threads /\ tpc \in [Threads -> {"free", "acquire", "reply", "fault"} \cup Critical]
        BY <1>2 DEF Owners, IInv, TypeOK
    <2>2. PICK next \in {"bus", "reset off", "parse", "cut", "release"} :
                /\ tpc' = [tpc EXCEPT ![o] = next] /\ UNCHANGED tcmd
                /\ next = "bus" => tpc[o] = "set" /\ tcmd[o].dev \in Bus
                /\ next = "reset off" => tpc[o] = "reset on"
        BY <1>2, <2>1 DEF AfterJob
    <2>3. CASE next = "bus"
        <3>1. tcmd[o].kind = "set_power" /\ tcmd[o].dev # "pc104"
            BY <2>1, <2>2, <2>3 DEF IInv, RequestsFit, Fits
        <3> DEFINE bus == [pin |-> "pc104", state |-> "on"]
        <3>2. ToWrite(o)' = {bus}
            BY <1>2, <2>1, <2>2, <2>3 DEF ToWrite, Job
        <3>3. Job(o) = [pin |-> tcmd[o].dev, state |-> tcmd[o].state]
            BY <1>2, <2>2, <2>3 DEF Job
        <3>4. ToWrite(o) = {Job(o), bus}
            BY <1>2, <2>2, <2>3, <3>1, <3>3 DEF ToWrite, Writes
        <3>5. [pin |-> tcmd[o].dev, state |-> tcmd[o].state] # bus
            BY <3>1, WritesDiffer
        <3>6. Job(o) # bus
            BY <3>3, <3>5, Zenon
        <3> HIDE DEF bus
        <3> QED
            BY <3>2, <3>4, <3>6
    <2>4. CASE next = "reset off"
        <3>1. tcmd[o].kind = "reset_overcurrent"
            BY <2>1, <2>2, <2>4 DEF IInv, RequestsFit, Fits
        <3> DEFINE off == [pin |-> "ovr", state |-> "off"]
        <3>2. ToWrite(o)' = {off}
            BY <1>2, <2>1, <2>2, <2>4 DEF ToWrite, Job
        <3>3. Job(o) = [pin |-> "ovr", state |-> "on"]
            BY <1>2, <2>2, <2>4 DEF Job
        <3>4. ToWrite(o) = {Job(o), off}
            BY <1>2, <2>2, <2>4, <3>1, <3>3 DEF ToWrite, Writes
        <3>5. [pin |-> "ovr", state |-> "on"] # off
            BY WritesDiffer
        <3>6. Job(o) # off
            BY <3>3, <3>5, Zenon
        <3> HIDE DEF off
        <3> QED
            BY <3>2, <3>4, <3>6
    <2>5. CASE next \notin {"bus", "reset off"}
        BY <1>2, <2>1, <2>2, <2>5 DEF ToWrite
    <2> QED
        BY <2>3, <2>4, <2>5
<1> QED
    BY <1>1, <1>2

\* The job of an owner is among what it has to write.
LEMMA JobIsOrdered ==
    ASSUME IInv, NEW o \in Owners, HasJob(o)
    PROVE  Job(o) \in ToWrite(o)
<1> USE HwAssumption
<1>1. CASE o = "main"
    BY <1>1 DEF ToWrite, HasJob
<1>2. CASE o # "main" /\ tpc[o] \in {"set", "reset on"}
    <2>1. Fits(tpc[o], tcmd[o])
        BY <1>2 DEF IInv, RequestsFit, Owners
    <2> QED
        BY <1>2, <2>1 DEF Fits, ToWrite, Job, Writes
<1>3. CASE o # "main" /\ tpc[o] \notin {"set", "reset on"}
    BY <1>3 DEF ToWrite, HasJob
<1> QED
    BY <1>1, <1>2, <1>3

\* Where nobody moves and no sbcctl starts to write, all orders stay.
LEMMA OthersStay ==
    ASSUME NEW o \in Owners,
           \A p \in Owners \ {o} : sb'[p] = sb[p],
           o # "main" => mpc' = mpc,
           \A t \in Threads \ {o} : tpc'[t] = tpc[t] /\ tcmd'[t] = tcmd[t]
    PROVE  \A p \in Owners \ {o} : OrdersOf(p)' = OrdersOf(p)
<1> SUFFICES ASSUME NEW p \in Owners \ {o} PROVE OrdersOf(p)' = OrdersOf(p)
    OBVIOUS
<1> QED
    BY OrdersStay DEF Owners

\* The write of sbcctl obeys the order of its job, and that order only.
LEMMA WriteObeysOrder ==
    ASSUME IInv, NEW o \in Owners, WriteRegister(o)
    PROVE  Promise!Next
<1> USE HwAssumption
<1> DEFINE order == OrderBy(o, Job(o))
<1>1. /\ sb \in [Owners -> {"no", "read", "write", "exit"}]
        /\ sb[o] = "write" /\ sb' = [sb EXCEPT ![o] = "exit"] /\ UNCHANGED <<tpc, tcmd, mpc>>
    BY DEF IInv, TypeOK, WriteRegister, tVars
<1>2. Job(o) \in ToWrite(o)
    BY JobIsOrdered DEF IInv, OneSubprocess, WriteRegister
<1>3. \A p \in Owners \ {o} : OrdersOf(p)' = OrdersOf(p)
    BY <1>1, OthersStay
<1>4. OrdersOf(o) = {OrderBy(o, w) : w \in ToWrite(o)}
    BY <1>1 DEF OrdersOf, Done
<1>5. OrdersOf(o)' = {OrderBy(o, w) : w \in ToWrite(o) \ {Job(o)}}
    <2>1. ToWrite(o)' = ToWrite(o) /\ Job(o)' = Job(o)
        BY <1>1 DEF ToWrite, Job
    <2>2. Done(o)' = {Job(o)}
        BY <1>1, <2>1 DEF Done
    <2> QED
        BY <2>1, <2>2 DEF OrdersOf, OrderBy
<1>6. \A w \in ToWrite(o) : OrderBy(o, w) = order => w = Job(o)
    <2> SUFFICES ASSUME NEW w \in ToWrite(o), OrderBy(o, w) = order
                 PROVE  w = Job(o)
        OBVIOUS
    <2>1. PICK q, r : w = [pin |-> q, state |-> r]
        BY DEF ToWrite, Writes, Job
    <2>2. PICK q0, r0 : Job(o) = [pin |-> q0, state |-> r0]
        BY DEF Job
    <2>3. w.pin = Job(o).pin /\ w.state = Job(o).state
        BY DEF OrderBy
    <2> QED
        BY <2>1, <2>2, <2>3
<1>7. OrdersOf(o)' = OrdersOf(o) \ {order}
    BY <1>4, <1>5, <1>6
<1>8. \A p \in Owners \ {o} : order \notin OrdersOf(p)
    BY DEF OrdersOf, OrderBy
<1>9. order \in OutstandingOrders
    BY <1>2, <1>4 DEF OutstandingOrders
<1>10. OutstandingOrders' = OutstandingOrders \ {order}
    BY <1>3, <1>7, <1>8 DEF OutstandingOrders
<1>11. pins' = Promise!Put(pins, order.pin, order.state)
    BY WriteObeys DEF Put, Promise!Put, OrderBy
<1>12. Promise!Obey(order)
    BY <1>10, <1>11 DEF Promise!Obey
<1> QED
    BY <1>9, <1>12 DEF Promise!Next

\* A thread that goes on within its command drops orders, if any.
LEMMA MoveDrops ==
    ASSUME NEW t \in Threads, UNCHANGED <<pins, sb, mpc, tcmd>>, sb[t] = "no",
           tpc \in [Threads -> {"free", "acquire", "reply", "fault"} \cup Critical],
           NEW next, tpc' = [tpc EXCEPT ![t] = next],
           ToWrite(t)' \subseteq ToWrite(t)
    PROVE  Promise!Next
<1> USE HwAssumption
<1>1. \A p \in Owners \ {t} : OrdersOf(p)' = OrdersOf(p)
    BY OthersStay DEF Owners
<1>2. OrdersOf(t)' \subseteq OrdersOf(t)
    BY DEF OrdersOf, Done, OrderBy
<1> QED
    BY <1>1, <1>2, DropsOrders

\* Every step of hw_mgr and its callers is a step of the promise, or none.
LEMMA StepKeepsPromise ==
    ASSUME IInv, OrdersFit', [Next]_vars
    PROVE  [Promise!Next]_<<pins, OutstandingOrders>>
<1> USE HwAssumption
<1>0. /\ OneSubprocess /\ RequestsFit
      /\ tpc \in [Threads -> {"free", "acquire", "reply", "fault"} \cup Critical]
      /\ tcmd \in [Threads -> Commands \cup {NoCommand}]
      /\ sb \in [Owners -> {"no", "read", "write", "exit"}]
    BY DEF IInv, TypeOK
<1>1. OutstandingOrders' \subseteq Promise!Orders
    BY DEF OrdersFit
<1>2. ASSUME UNCHANGED <<pins, sb, mpc, tpc, tcmd>> PROVE Promise!Next
    <2>1. \A o \in Owners : OrdersOf(o)' = OrdersOf(o)
        BY <1>2, OrdersStay
    <2> QED
        BY <1>2, <2>1, DropsOrders
<1>3. ASSUME NEW c \in Clients, NEW t \in Threads, Send(c, t) PROVE Promise!Next
    <2>1. sb[t] = "no" /\ t \in Owners
        <3>1. tpc[t] = "free"
            BY <1>3 DEF Send, TStep
        <3>2. ~HasJob(t)
            BY <3>1 DEF HasJob
        <3> QED
            BY <1>0, <3>2 DEF OneSubprocess, Owners
    <2>2. OrdersOf(t) = {}
        BY <1>3 DEF OrdersOf, ToWrite, Send, TStep
    <2>3. \A p \in Owners \ {t} : OrdersOf(p)' = OrdersOf(p)
        BY <1>0, <1>3, <2>1, OthersStay DEF Send, TStep, sbVars
    <2> QED
        BY <1>1, <1>3, <2>2, <2>3, GivesOrders DEF Send, sbVars
<1>4. CASE Interrupt
    <2>1. sb["main"] = "no" /\ "main" \in Owners
        BY <1>0, <1>4 DEF OneSubprocess, HasJob, Interrupt, Owners
    <2>2. OrdersOf("main") = {}
        BY <1>4 DEF OrdersOf, ToWrite, Interrupt
    <2>3. \A p \in Owners \ {"main"} : OrdersOf(p)' = OrdersOf(p)
        BY <1>4, <2>1, OthersStay DEF Interrupt, tVars, sbVars
    <2> QED
        BY <1>1, <1>4, <2>2, <2>3, GivesOrders DEF Interrupt, sbVars
<1>5. ASSUME NEW o \in Owners, StartSbcctl(o) \/ ReadRegister(o) PROVE Promise!Next
    <2>1. /\ UNCHANGED <<pins, mpc, tpc, tcmd>> /\ sb[o] # "exit" /\ sb'[o] # "exit"
          /\ \A p \in Owners \ {o} : sb'[p] = sb[p]
        <3>1. CASE StartSbcctl(o)
            <4>1. sb[o] = "no"
                BY <1>0, <3>1 DEF StartSbcctl, OneSubprocess, Owners
            <4> QED
                BY <1>0, <3>1, <4>1 DEF StartSbcctl, tVars
        <3>2. CASE ReadRegister(o)
            BY <1>0, <3>2 DEF ReadRegister, tVars
        <3> QED
            BY <1>5, <3>1, <3>2
    <2>2. \A p \in Owners \ {o} : OrdersOf(p)' = OrdersOf(p)
        BY <2>1, OthersStay
    <2>3. ToWrite(o)' = ToWrite(o)
        BY <2>1 DEF ToWrite, Job
    <2>4. OrdersOf(o)' = OrdersOf(o)
        BY <2>1, <2>3 DEF OrdersOf, Done, OrderBy
    <2> QED
        BY <2>1, <2>2, <2>4, DropsOrders
<1>6. ASSUME NEW o \in Owners, ReapSbcctl(o) \/ SbcctlKilled(o) PROVE Promise!Next
    <2>1. /\ HasJob(o) /\ UNCHANGED pins /\ sb' = [sb EXCEPT ![o] = "no"]
          /\ \E whole \in BOOLEAN : AfterJob(o, whole)
        BY <1>0, <1>6 DEF ReapSbcctl, SbcctlKilled, OneSubprocess
    <2>2. ToWrite(o)' \subseteq ToWrite(o) \ {Job(o)}
        BY <2>1, AfterJobDrops
    <2>3. OrdersOf(o)' \subseteq OrdersOf(o)
        BY <1>0, <2>1, <2>2 DEF OrdersOf, Done, OrderBy
    <2>4. UNCHANGED tcmd /\ (o # "main" => mpc' = mpc)
            /\ \A t \in Threads \ {o} : tpc'[t] = tpc[t]
        <3>1. CASE o = "main"
            BY <2>1, <3>1 DEF AfterJob, tVars
        <3>2. CASE o # "main"
            <4>1. o \in Threads
                BY <3>2 DEF Owners
            <4> QED
                BY <1>0, <2>1, <3>2, <4>1 DEF AfterJob
        <3> QED
            BY <3>1, <3>2
    <2>5. \A p \in Owners \ {o} : OrdersOf(p)' = OrdersOf(p)
        BY <1>0, <2>1, <2>4, OthersStay
    <2> QED
        BY <2>1, <2>3, <2>5, DropsOrders
<1>7. ASSUME NEW t \in Threads, Acquire(t) PROVE Promise!Next
    <2> DEFINE next ==
            CASE tcmd[t].kind = "set_power" -> "set"
              [] tcmd[t].kind = "refresh" -> "status"
              [] tcmd[t].kind = "reset_overcurrent" -> "reset on"
              [] tcmd[t].kind = "help" -> "help"
              [] OTHER -> "release"
    <2>1. tpc[t] = "acquire" /\ tpc' = [tpc EXCEPT ![t] = next]
            /\ UNCHANGED <<pins, sb, mpc, tcmd>>
        BY <1>7 DEF Acquire, TStep, sbVars
    <2>2. sb[t] = "no" /\ t # "main"
        <3>1. ~HasJob(t)
            BY <2>1 DEF HasJob
        <3> QED
            BY <1>0, <3>1 DEF OneSubprocess, Owners
    <2>3. ToWrite(t) = Writes(tcmd[t])
        BY <2>1, <2>2 DEF ToWrite
    <2>4. tpc'[t] = next /\ tcmd'[t] = tcmd[t]
        BY <1>0, <2>1
    <2>5. ToWrite(t)' \subseteq Writes(tcmd[t])
        <3>1. CASE next = "status"
            <4>1. ToWrite(t)' = {[pin |-> "mux", state |-> "on"]}
                BY <2>2, <2>4, <3>1 DEF ToWrite, Job
            <4>2. tcmd[t].kind = "refresh"
                BY <3>1
            <4>3. Writes(tcmd[t]) = {[pin |-> "mux", state |-> "on"]}
                BY <4>2 DEF Writes
            <4> QED
                BY <4>1, <4>3, Zenon
        <3>2. CASE next \in {"set", "reset on"}
            <4>1. ToWrite(t)' = Writes(tcmd'[t])
                BY <2>2, <2>4, <3>2 DEF ToWrite, Writes
            <4> QED
                BY <2>4, <4>1
        <3>3. CASE next \in {"help", "release"}
            BY <2>2, <2>4, <3>3 DEF ToWrite
        <3> QED
            BY <3>1, <3>2, <3>3
    <2> HIDE DEF next
    <2> QED
        BY ZenonT(40), <1>0, <2>1, <2>2, <2>3, <2>5, MoveDrops
<1>8. ASSUME NEW t \in Threads, Thread(t), ~Reply(t) PROVE Promise!Next
    <2>1. PICK next \in {"rest", "release", "reply", "fault"} :
                /\ tpc' = [tpc EXCEPT ![t] = next]
                /\ UNCHANGED <<pins, sb, mpc, tcmd>> /\ ~HasJob(t)
        BY <1>8 DEF Thread, BusIsOn, Parse, ParseFails, RefreshRest, Help, Release, TStep, sbVars, HasJob
    <2>2. sb[t] = "no" /\ t # "main"
        BY <1>0, <2>1 DEF OneSubprocess, Owners
    <2>3. ToWrite(t)' = {}
        BY <1>0, <2>1, <2>2 DEF ToWrite
    <2> QED
        BY <1>0, <2>1, <2>2, <2>3, MoveDrops
<1>9. ASSUME NEW t \in Threads, Reply(t) PROVE Promise!Next
    <2>1. sb[t] = "no" /\ t # "main" /\ t \in Owners
        BY <1>0, <1>9 DEF OneSubprocess, HasJob, Reply, Owners
    <2>2. /\ UNCHANGED <<pins, sb, mpc>> /\ tpc'[t] = "free"
          /\ \A u \in Threads \ {t} : tpc'[u] = tpc[u] /\ tcmd'[u] = tcmd[u]
        BY <1>0, <1>9 DEF Reply, sbVars
    <2>3. OrdersOf(t)' = {}
        BY <2>1, <2>2 DEF OrdersOf, ToWrite
    <2>4. \A p \in Owners \ {t} : OrdersOf(p)' = OrdersOf(p)
        BY <2>1, <2>2, OthersStay
    <2> QED
        BY <2>2, <2>3, <2>4, DropsOrders
<1>10. ASSUME NEW c \in Clients, Client(c) PROVE Promise!Next
    <2>1. CASE Ask(c) \/ GivesUp(c)
        <3>1. UNCHANGED <<pins, sb, mpc, tpc, tcmd>>
            BY <2>1 DEF Ask, GivesUp, tVars, sbVars
        <3> QED
            BY <1>2, <3>1
    <2>2. CASE \E t \in Threads : Send(c, t)
        BY <1>3, <2>2
    <2> QED
        BY <1>10, <2>1, <2>2 DEF Client
<1>11. ASSUME NEW o \in Owners, Sbcctl(o) PROVE Promise!Next
    BY <1>5, <1>6, <1>11, WriteObeysOrder DEF Sbcctl
<1>12. CASE UNCHANGED vars
    BY <1>2, <1>12 DEF vars, tVars, sbVars
<1> QED
    BY <1>4, <1>7, <1>8, <1>9, <1>10, <1>11, <1>12 DEF Next

\* hw_mgr implements PowerSwitches: no switch moves that no command named, and
\* no write of one thread undoes the write of another.
THEOREM PromiseKept == Spec => KeepsPromise
<1>1. Init => Promise!Init
    <2> SUFFICES ASSUME Init PROVE Promise!Init
        OBVIOUS
    <2>1. \A o \in Owners : ToWrite(o) = {}
        BY HwAssumption DEF Init, ToWrite, Owners
    <2>2. OutstandingOrders = {}
        BY <2>1 DEF OutstandingOrders, OrdersOf
    <2>3. pins \subseteq Pins
        BY DEF Init
    <2> QED
        BY <2>2, <2>3 DEF Promise!Init
<1>2. IInv /\ OrdersFit' /\ [Next]_vars => [Promise!Next]_<<pins, OutstandingOrders>>
    BY StepKeepsPromise
<1> QED
    BY <1>1, <1>2, OrdersTyped, Inductive, PTL DEF Spec, KeepsPromise, Promise!Spec
=============================================================================
