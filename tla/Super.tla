-------------------------------- MODULE Super --------------------------------
(* The program super: its loop with each of its controllers.                  *)
EXTENDS InstrumentPower, CommPower

vars == <<loopVars, instVars, commVars>>

Init == LoopInit /\ InstInit /\ CommInit

Instrument ==
    /\ \/ Order \/ WorldChanges
       \/ \E state, done \in BOOLEAN : which # "irid" /\ LateCommand(state, done)
       \/ \E bad \in Failing({"status"}), skip \in 0..PerMinute : InstRefresh(bad, skip)
       \/ \E bad \in Failing({"status", "temp", "power", "halt"}) : InstControl(bad)
       \/ \E bad \in Failing({"power"}) : InstConstruct(bad)
       \/ \E bad \in Failing({"power", "halt"}) : InstStop(bad)
    /\ UNCHANGED commVars

Communication ==
    /\ \/ \E off \in BOOLEAN : OrderKill(off)
       \/ OrderPending \/ DataMove
       \/ \E state, done \in BOOLEAN : LateModemCommand(state, done)
       \/ \E bad \in Failing({"status"}), skip \in 0..PerMinute : CommRefresh(bad, skip)
       \/ \E bad \in Failing({"power", "data"}) : ControlModem(bad)
       \/ TestCommand
       \/ \E bad \in Failing({"power"}) : HandleCommand(bad) \/ HandlePowerUp(bad)
       \/ \E same \in BOOLEAN : LinkBegins(same) \/ LinkMarked(same)
       \/ LinkEnds
       \/ \E timeSet \in {0, MaxUp + 1} : ClockSet(timeSet)
       \/ MonitorComm
       \/ \E bad \in Failing({"power"}) : CommConstruct(bad) \/ CommStop(bad)
    /\ UNCHANGED instVars

Next == Instrument \/ Communication

\* The loop goes on, hw_mgr gets round to what it has accepted, a handler to its
\* second assignment and svr_proxy to its file.
LoopStep ==
    \/ \E bad \in Failing({"status"}), skip \in 0..PerMinute :
          (InstRefresh(bad, skip) /\ UNCHANGED commVars) \/ (CommRefresh(bad, skip) /\ UNCHANGED instVars)
    \/ \E bad \in Failing({"status", "temp", "power", "halt"}) : InstControl(bad) /\ UNCHANGED commVars
    \/ \E bad \in Failing({"power", "data"}) : ControlModem(bad) /\ UNCHANGED instVars
    \/ \E bad \in Failing({"power"}) :
          \/ InstConstruct(bad) /\ UNCHANGED commVars
          \/ (HandleCommand(bad) \/ HandlePowerUp(bad) \/ CommConstruct(bad)) /\ UNCHANGED instVars
    \/ (TestCommand \/ MonitorComm) /\ UNCHANGED instVars

HwMgrStep ==
    \E state, done \in BOOLEAN :
       \/ which # "irid" /\ LateCommand(state, done) /\ UNCHANGED commVars
       \/ LateModemCommand(state, done) /\ UNCHANGED instVars

Fairness ==
    /\ WF_vars(LoopStep) /\ WF_vars(HwMgrStep)
    /\ WF_vars(OrderPending /\ UNCHANGED instVars)
    /\ WF_vars(\E same \in BOOLEAN : LinkMarked(same) /\ UNCHANGED instVars)

Spec == Init /\ [][Next]_vars /\ Fairness

-----------------------------------------------------------------------------
(* Properties *)

\* Types of all variables.
TypeOK ==
    /\ which \in Which
    /\ pc \in {"start", "refresh", "control", "command", "handle", "up", "stopped"}
    /\ now \in Pass /\ trouble \in 0..MaxTrouble /\ view \in {"true", "old", "false"}
    /\ {power, shown, enable, run, pending, desired, looked, missed, unhalted} \subseteq BOOLEAN
    /\ late \subseteq BOOLEAN
    /\ mode \in {"normal", "update"} /\ temp \in {"low", "mid", "high"} /\ age \in {"fresh", "equal", "old"}
    /\ thermo \in [over : BOOLEAN, under : BOOLEAN, on : BOOLEAN]
    /\ sbc \in {"off", "up", "halted"} /\ extreme \in {"none", "low", "high"}
    /\ comm \in {"powered_up", "powered_down", "init", "starting_up", "connected", "disconnected"}
    /\ {kill, cmd, link, ending, was, excuse, reboot} \subseteq BOOLEAN
    /\ handlers \in 0..2 /\ grace \in 0..Timeout /\ idle \in 0..(Timeout + 1)
    /\ files \in Files /\ timer \in 0..(MaxUp + 1) /\ steady \in 0..(MaxUp + 1)

\* The loop never takes the power of CASES while its computer is up, whatever
\* thermostat, schedule, data limit, mode and operator have done between the halt
\* and the cut, unless the halt failed or a late command started it again
\* (ControlCASESPower.py:33-44, 170-173).
CutOnlyHalted ==
    [][which = "cases" /\ power /\ ~power' /\ pc \in {"refresh", "control"} /\ pc' # pc
         => sbc = "halted" \/ unhalted \/ pc' = "stopped"]_vars

\* What CASES and HF are to do: the operator has a veto, so has the temperature,
\* which has the hysteresis between its two limits, and the schedule, which CASES
\* ignores in update mode.
Wanted == /\ enable
          /\ extreme # "high"
          /\ (which = "cases" /\ mode = "update") \/ run

\* After a pass that saw what is, a device is in the state that the rules ask
\* for, except CASES between halt and cut; and CASES and HF run by the schedule in
\* its window only, with the minutes of its end that a late pass has missed as
\* the only excuse (ControlCASESPower.py:59-157, ControlHFPower.py:36-129,
\* ControlTemp.py:26-43, ControlGPSPower.py:24-38, ControlFGSCPower.py:27-45).
FollowsRules ==
    pc = "refresh" /\ view = "true" =>
       CASE which \in {"cases", "hf"} -> /\ power = Wanted \/ (power /\ pending)
                                         /\ run => InWindow \/ missed
         [] which = "fg" -> power = enable
         [] which = "htr" -> (temp = "low" => power) /\ (temp = "high" => ~power)
         [] which = "gps" -> (age = "fresh" => ~power) /\ (age = "old" => power)
         [] OTHER -> TRUE

MustBeOff ==
    /\ pc # "stopped"
    /\ \/ which \in {"cases", "hf", "fg"} /\ ~enable
       \/ which \in {"cases", "hf", "htr"} /\ temp = "high"
       \/ which = "irid" /\ kill
MustBeOn ==
    /\ pc # "stopped"
    /\ \/ which = "fg" /\ enable
       \/ which = "htr" /\ temp = "low"
       \/ which = "gps" /\ age = "old"
MayRun ==
    /\ pc # "stopped"
    /\ \/ which \in {"cases", "hf"} /\ enable /\ temp = "low"
       \/ which = "irid" /\ ~kill

\* What is to be off goes off for good, however calls fail, are given up or are
\* carried out after they were given up, and however late passes come. irid off
\* keeps the modem off too: the half-hourly cycle that goes on beside the order
\* repeats it, unless data keep moving (ControlModemPower.py:29-63).
KeptOff == <>[]MustBeOff => <>[]~power \/ []<>(which = "irid" /\ idle = 0)

\* In the same way what is to be on goes on for good; CASES and HF run again every
\* day if nothing speaks against it, and a station whose modem was not switched
\* off by an operator can be reached again and again.
ComesBack ==
    /\ <>[]MustBeOn => <>[]power
    /\ <>[]MayRun => []<>power

\* A reboot is ordered because the link was down, or up, too long, unless the clock
\* was set meanwhile or the two files contradicted the link: both were touched in
\* one second, or the thread of the old link touched its file after the new link
\* had begun (MonitorRUDICSComm.py:22-87, svr_proxy.py:109-111).
RebootJustified ==
    [][reboot' /\ ~reboot => excuse' \/ steady' > IF link THEN MaxUp ELSE MaxDown]_vars

\* A link that is down, or up, for ever leads to a reboot, whatever the files say
\* and however the clock is set.
StuckLinkReboots ==
    (<>[](which = "comm" /\ link) \/ <>[](which = "comm" /\ ~link)) => <>(reboot \/ pc = "stopped")
=============================================================================
