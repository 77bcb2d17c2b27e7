------------------------------ MODULE CommPower ------------------------------
(* The power of the Iridium modem (super/ControlModemPower.py) and the        *)
(* monitor of the link, which reboots the system (super/MonitorRUDICSComm.py).*)
(* The modem is switched off when no data have moved for a while, and on      *)
(* twice an hour.  Its orders are given by threads of the XML-RPC server,     *)
(* which set two flags one after the other while the loop reads them.  The    *)
(* monitor knows of the link by the times of two files that svr_proxy         *)
(* touches, and measures time with the clock that gps_mgr sets.               *)
EXTENDS PowerControl

CONSTANTS
    HalfHour,   \* Minutes between the times at which the modem is switched on.
    Timeout,    \* data_xfer_timeout, in passes.
    MaxDown,    \* comm_max_down_time and comm_max_init_time, in passes.
    MaxUp       \* comm_max_up_time, in passes.

ASSUME CommAssumption == HalfHour > 0 /\ {Timeout, MaxDown, MaxUp} \subseteq Nat

\* svr_proxy marks the end of a link after it has begun the next: see "ending".
Files == {"none", "connect", "later", "same", "earlier"}

VARIABLES
    comm,       \* _comm_state of the controller or the monitor.
    kill,       \* _kill_power.
    cmd,        \* _power_cntl_cmd_pending.
    handlers,   \* Threads between their two assignments.
    grace,      \* Passes since _data_xfer_timer, as far as they count.
    idle,       \* Passes since the last data moved, as far as they count.
    link,       \* Whether svr_proxy has a link.
    ending,     \* Whether an ended link's thread has still to touch its file.
    files,      \* The connect file compared with the disconnect file.
    timer,      \* Passes since the monitor's _timer, as far as they count.
    was,        \* The link at the last pass,
    steady,     \* and the passes since it was otherwise, or super looks at it. (History.)
    excuse,     \* Since then the files have misled it or the clock was set. (History.)
    reboot      \* Whether it has called reboot.

commVars == <<comm, kill, cmd, handlers, grace, idle, link, ending, files, timer, was, steady, excuse, reboot>>
modemVars == <<comm, kill, cmd, handlers, grace, idle>>
monitorVars == <<link, ending, files, timer, was, steady, excuse, reboot>>

CommInit ==
    /\ comm = IF which = "irid" THEN "powered_up" ELSE "init"
    /\ kill = FALSE
    /\ cmd = FALSE
    /\ handlers = 0
    /\ grace = 0
    /\ idle = 0
    /\ link \in IF which = "comm" THEN BOOLEAN ELSE {FALSE}
    /\ files \in CASE which # "comm" -> {"none"}
                   [] link -> Files \ {"none"}
                   [] OTHER -> Files
    /\ ending = FALSE
    /\ timer = 0
    /\ was = link
    /\ steady = 0
    /\ excuse = FALSE
    /\ reboot = FALSE

\* Mutant.
CountOn(n, max) == n + 1

Count(n, max) == IF n < max THEN n + 1 ELSE n

CommRefresh(bad, skip) ==
    /\ which \in {"irid", "comm"}
    /\ Refresh(bad, skip)
    /\ grace' = IF which = "irid" THEN Count(grace, Timeout) ELSE grace
    /\ idle' = IF which = "irid" THEN Count(idle, Timeout + 1) ELSE idle
    /\ timer' = IF which = "comm" THEN Count(timer, MaxUp + 1) ELSE timer
    /\ steady' = IF which = "comm" THEN Count(steady, MaxUp + 1) ELSE steady
    /\ UNCHANGED <<comm, kill, cmd, handlers, link, ending, files, was, excuse, reboot>>

-----------------------------------------------------------------------------
(* The modem *)

\* power_off and power_on: first the one flag, then the other.
OrderKill(off) ==
    /\ which = "irid" /\ handlers < 2
    /\ kill' = off
    /\ handlers' = handlers + 1
    /\ UNCHANGED <<loopVars, comm, cmd, grace, idle, monitorVars>>

OrderPending ==
    /\ handlers > 0
    /\ cmd' = TRUE
    /\ handlers' = handlers - 1
    /\ UNCHANGED <<loopVars, comm, kill, grace, idle, monitorVars>>

\* Only a modem that is on can move data.
DataMove ==
    /\ which = "irid" /\ power /\ idle > 0
    /\ idle' = 0
    /\ UNCHANGED <<loopVars, comm, kill, cmd, handlers, grace, monitorVars>>

LateModemCommand(state, done) ==
    /\ which = "irid"
    /\ state \in late
    /\ late' = late \ {state}
    /\ power' = IF done THEN state ELSE power
    /\ UNCHANGED <<which, pc, now, shown, trouble, view, commVars>>

PowerUp(bad) == IF kill THEN UNCHANGED <<power, late>> ELSE SetPower(TRUE, bad)

\* If svr_proxy does not say when data moved, they have.
TimedOut(bad) == grace >= Timeout /\ "data" \notin bad /\ idle > Timeout

ModemStep(from, to, bad) ==
    /\ which = "irid"
    /\ pc = from
    /\ pc' = to
    /\ Trouble(bad)
    /\ UNCHANGED <<which, now, shown, view, kill, handlers, idle, monitorVars>>

\* Mutant: after the modem has been switched off by an order, the half hours are ignored.
ControlModemKilled(bad) ==
    /\ ModemStep("control", "command", bad)
    /\ \/ /\ comm = "powered_up" /\ TimedOut(bad)
          /\ SetPower(FALSE, bad)
          /\ comm' = "powered_down"
          /\ UNCHANGED grace
       \/ /\ comm = "powered_down" /\ Minute % HalfHour = 0 /\ ~kill
          /\ PowerUp(bad)
          /\ grace' = 0
          /\ comm' = "powered_up"
       \/ /\ IF comm = "powered_up" THEN ~TimedOut(bad) ELSE Minute % HalfHour # 0 \/ kill
          /\ UNCHANGED <<power, late, comm, grace>>
    /\ UNCHANGED cmd

\* Mutant: the state is not changed when the modem times out.
ControlModemForgets(bad) ==
    /\ ModemStep("control", "command", bad)
    /\ \/ /\ comm = "powered_up" /\ TimedOut(bad)
          /\ SetPower(FALSE, bad)
          /\ UNCHANGED <<comm, grace>>
       \/ /\ comm = "powered_down" /\ Minute % HalfHour = 0
          /\ PowerUp(bad)
          /\ grace' = 0
          /\ comm' = "powered_up"
       \/ /\ IF comm = "powered_up" THEN ~TimedOut(bad) ELSE Minute % HalfHour # 0
          /\ UNCHANGED <<power, late, comm, grace>>
    /\ UNCHANGED cmd

\* Powered up only in name if an operator has switched it off.
ControlModem(bad) ==
    /\ ModemStep("control", "command", bad)
    /\ \/ /\ comm = "powered_up" /\ TimedOut(bad)
          /\ SetPower(FALSE, bad)
          /\ comm' = "powered_down"
          /\ UNCHANGED grace
       \/ /\ comm = "powered_down" /\ Minute % HalfHour = 0
          /\ PowerUp(bad)
          /\ grace' = 0
          /\ comm' = "powered_up"
       \/ /\ IF comm = "powered_up" THEN ~TimedOut(bad) ELSE Minute % HalfHour # 0
          /\ UNCHANGED <<power, late, comm, grace>>
    /\ UNCHANGED cmd

TestCommand ==
    /\ ModemStep("command", IF cmd THEN "handle" ELSE "refresh", {})
    /\ cmd' = FALSE
    /\ UNCHANGED <<power, late, comm, grace>>

HandleCommand(bad) ==
    /\ ModemStep("handle", IF kill THEN "refresh" ELSE "up", bad)
    /\ IF kill THEN SetPower(FALSE, bad) ELSE UNCHANGED <<power, late>>
    /\ UNCHANGED <<cmd, comm, grace>>

\* _power_up_modem reads the flag again.
HandlePowerUp(bad) ==
    /\ ModemStep("up", "refresh", bad)
    /\ PowerUp(bad)
    /\ UNCHANGED <<cmd, comm, grace>>

-----------------------------------------------------------------------------
(* The monitor of the link *)

\* svr_proxy touches the connect file when a link begins; the thread of a link
\* that has ended may touch the other file a little later.
LinkBegins(same) ==
    /\ which = "comm" /\ ~link
    /\ link' = TRUE
    /\ files' = IF files \in {"none", "connect"} THEN "connect"
                ELSE IF same /\ files \in {"earlier", "same"} THEN "same" ELSE "later"
    /\ UNCHANGED <<loopVars, modemVars, ending, timer, was, steady, excuse, reboot>>

LinkEnds ==
    /\ which = "comm" /\ link /\ ~ending
    /\ link' = FALSE
    /\ ending' = TRUE
    /\ UNCHANGED <<loopVars, modemVars, files, timer, was, steady, excuse, reboot>>

LinkMarked(same) ==
    /\ ending
    /\ ending' = FALSE
    /\ files' = IF same THEN "same" ELSE "earlier"
    /\ UNCHANGED <<loopVars, modemVars, link, timer, was, steady, excuse, reboot>>

\* gps_mgr sets the clock.
ClockSet(age) ==
    /\ which = "comm"
    /\ timer' = age
    /\ excuse' = TRUE
    /\ trouble > 0 /\ trouble' = trouble - 1
    /\ UNCHANGED <<which, pc, now, power, shown, late, view, modemVars, link, ending, files, was, steady, reboot>>

\* _connected()
LinkIsUp == files \in {"connect", "later"}

RestartTimer(state) == comm' = state /\ timer' = 0 /\ UNCHANGED reboot
KeepTimer(limit) == reboot' = (reboot \/ timer > limit) /\ UNCHANGED <<comm, timer>>

\* Mutant: a new link does not restart the timer.
CheckCommOldTimer ==
    CASE comm = "init" -> RestartTimer("starting_up")
      [] comm # "init" /\ LinkIsUp /\ comm # "connected" ->
             comm' = "connected" /\ UNCHANGED <<timer, reboot>>
      [] comm = "connected" /\ ~LinkIsUp -> RestartTimer("disconnected")
      [] comm = "connected" /\ LinkIsUp -> KeepTimer(MaxUp)
      [] OTHER -> KeepTimer(MaxDown)

\* Mutant: no limit until the first link.
CheckCommPatient ==
    CASE comm = "init" -> RestartTimer("starting_up")
      [] comm # "init" /\ LinkIsUp /\ comm # "connected" -> RestartTimer("connected")
      [] comm = "connected" /\ ~LinkIsUp -> RestartTimer("disconnected")
      [] comm = "connected" /\ LinkIsUp -> KeepTimer(MaxUp)
      [] comm = "disconnected" /\ ~LinkIsUp -> KeepTimer(MaxDown)
      [] OTHER -> UNCHANGED <<comm, timer, reboot>>

CheckComm ==
    CASE comm = "init" -> RestartTimer("starting_up")
      [] comm # "init" /\ LinkIsUp /\ comm # "connected" -> RestartTimer("connected")
      [] comm = "connected" /\ ~LinkIsUp -> RestartTimer("disconnected")
      [] comm = "connected" /\ LinkIsUp -> KeepTimer(MaxUp)
      [] OTHER -> KeepTimer(MaxDown)

\* The check is not made any more after a reboot was ordered, except from starting_up.
MonitorComm ==
    /\ which = "comm" /\ pc = "control"
    /\ pc' = "refresh"
    /\ IF reboot /\ comm # "starting_up" THEN UNCHANGED <<comm, timer, reboot>> ELSE CheckComm
    /\ was' = link
    /\ steady' = IF comm # "init" /\ (was = link \/ (comm = "starting_up" /\ ~link)) THEN steady ELSE 0
    /\ excuse' = (LinkIsUp # link \/ (excuse /\ comm' = comm))
    /\ UNCHANGED <<which, now, power, shown, late, trouble, view, kill, cmd, handlers, grace, idle,
                   link, ending, files>>

CommConstruct(bad) ==
    /\ which \in {"irid", "comm"}
    /\ pc = "start"
    /\ pc' = "refresh"
    /\ Trouble(bad)
    /\ IF which = "irid" THEN PowerUp(bad) ELSE UNCHANGED <<power, late>>
    /\ UNCHANGED <<which, now, shown, view, commVars>>

CommStop(bad) ==
    /\ which \in {"irid", "comm"}
    /\ pc \notin {"start", "stopped"}
    /\ pc' = "stopped"
    /\ Trouble(bad)
    /\ IF which = "irid" THEN SetPower(FALSE, bad) ELSE UNCHANGED <<power, late>>
    /\ UNCHANGED <<which, now, shown, view, commVars>>
=============================================================================
