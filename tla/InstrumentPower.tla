--------------------------- MODULE InstrumentPower ---------------------------
(* The power of the instruments: CASES and the HF radio, which follow a       *)
(* schedule and a thermostat, the fluxgate, the heater and the GPS receiver   *)
(* (super/ControlCASESPower.py, ControlHFPower.py, ControlFGSCPower.py,       *)
(* ControlTemp.py, ControlGPSPower.py).  CASES has a computer of its own,     *)
(* which is told to halt one pass before it is switched off.  Operators give  *)
(* orders through the XML-RPC server of super at any time.                    *)
EXTENDS PowerControl

VARIABLES
    enable,     \* master_power_enable, or fg_power_setting.
    mode,       \* Of CASES: "normal" (or "storm", which has another schedule), "update".
    temp,       \* "low", "mid", "high", by the limits of the controller.
    age,        \* Of the last synchronisation: "fresh", "old", or "equal" to the limit.
    thermo,     \* The thermostat,
    run,        \* and the scheduler (its state is 2).
    pending,    \* _power_down_pending.
    desired,    \* _htr_desired_state.
    sbc,        \* The computer of CASES: "off", "up", "halted".
    extreme,    \* The last extreme temperature seen. (History.)
    looked,     \* The scheduler has run in this minute. (History.)
    missed,     \* It has not run in the minute in which the item stops. (History.)
    unhalted    \* The halt failed, or CASES came up again after it. (History.)

orders == <<enable, mode>>
world == <<temp, age>>
states == <<thermo, run, pending, desired>>
history == <<extreme, looked, missed, unhalted>>
instVars == <<orders, world, states, sbc, history>>

\* The constructors have their say in Construct.
InstInit ==
    /\ enable = (which = "fg")
    /\ mode = "normal"
    /\ temp \in IF which \in {"cases", "hf", "htr"} THEN {"low", "mid", "high"} ELSE {"low"}
    /\ age = "old"
    /\ thermo = [over |-> FALSE, under |-> FALSE, on |-> TRUE]
    /\ run = FALSE
    /\ pending = FALSE
    /\ desired = FALSE
    /\ sbc = IF power /\ which = "cases" THEN "up" ELSE "off"
    /\ extreme = "none"
    /\ looked = FALSE
    /\ missed = FALSE
    /\ unhalted = FALSE

\* The computer starts with the power and is gone with it.
Computer(halt) ==
    sbc' = IF which # "cases" \/ ~power' THEN "off"
           ELSE IF ~power THEN "up"
           ELSE IF halt /\ sbc = "up" THEN "halted" ELSE sbc

-----------------------------------------------------------------------------
(* Orders, the world, and hw_mgr *)

\* The controllers read orders at one point of their pass.
Order ==
    /\ \/ which \in {"cases", "hf", "fg"} /\ enable' = ~enable /\ UNCHANGED mode
       \/ which = "cases" /\ mode' \in {"normal", "update"} \ {mode} /\ UNCHANGED enable
    /\ Changed
    /\ UNCHANGED <<which, pc, now, power, shown, late, trouble, world, states, sbc, history>>

\* As seen by hw_mgr when it refreshes its dictionary.
WorldChanges ==
    /\ pc # "control"
    /\ \/ which \in {"cases", "hf", "htr"} /\ temp' \in {"low", "mid", "high"} \ {temp} /\ UNCHANGED age
       \/ which = "gps" /\ age' \in (IF power THEN {"fresh", "equal", "old"} ELSE {"equal", "old"}) \ {age} /\ UNCHANGED temp
    /\ Changed
    /\ UNCHANGED <<which, pc, now, power, shown, late, trouble, orders, states, sbc, history>>

\* A command that was given up is carried out, or was not accepted after all.
LateCommand(state, done) ==
    /\ state \in late
    /\ late' = late \ {state}
    /\ power' = IF done THEN state ELSE power
    /\ Computer(FALSE)
    /\ unhalted' = (unhalted \/ (power' /\ ~power))
    /\ view' = "false"
    /\ UNCHANGED <<which, pc, now, shown, trouble, orders, world, states, extreme, looked, missed>>

-----------------------------------------------------------------------------
(* The passes *)

InstRefresh(bad, skip) ==
    /\ which \notin {"irid", "comm"}
    /\ Refresh(bad, skip)
    /\ LET next == now' \div PerMinute
       IN  /\ looked' = (looked /\ next = Minute)
           /\ missed' = (missed \/ (run /\ next # Minute /\
                           (\/ Minute = Stop /\ ~looked
                            \/ Minute # Stop /\ next # Stop /\ next = (Minute + 2) % Minutes /\
                               (Minute + 1) % Minutes = Stop)))
    /\ UNCHANGED <<orders, world, states, sbc, extreme, unhalted>>

\* Thermostat and scheduler run whatever else is known. While CASES runs it may
\* have produced more data than its limit; if cases_mgr does not answer it has not.
Decide(bad) ==
    /\ thermo' = Thermostat(thermo, "temp" \notin bad, temp)
    /\ extreme' = IF "temp" \notin bad /\ temp # "mid" THEN temp ELSE extreme
    /\ \E full \in BOOLEAN :
          /\ full => which = "cases" /\ run
          /\ run' = Schedule(run, full)
    /\ looked' = TRUE
    /\ missed' = (missed /\ run /\ run')

ShouldBeOn(bad) ==
    /\ enable
    /\ Status(bad) # {}
    /\ "temp" \notin bad
    /\ thermo'.on
    /\ (which = "cases" /\ mode = "update") \/ run'

ControlStep(bad) ==
    /\ pc = "control"
    /\ pc' = "refresh"
    /\ Trouble(bad)
    /\ UNCHANGED <<which, now, shown, orders, temp, age>>

\* The first pass after the halt only switches off.
CutCASES(bad) ==
    /\ which = "cases" /\ pending
    /\ ControlStep(bad)
    /\ pending' = FALSE
    /\ SetPower(FALSE, bad)
    /\ Computer(FALSE)
    /\ IF bad = {} /\ late = {} THEN Changed ELSE view' = "false"
    /\ UNCHANGED <<thermo, run, desired, history>>

\* Mutant: CASES is switched off without a halt if its power is wanted again.
ControlCASESHasty(bad) ==
    /\ which = "cases" /\ ~pending
    /\ ControlStep(bad)
    /\ Decide(bad)
    /\ IF Status(bad) = {ShouldBeOn(bad)}
       THEN UNCHANGED <<power, late, pending, unhalted>> /\ Computer(FALSE)
       ELSE IF ShouldBeOn(bad)
       THEN SetPower(TRUE, bad) /\ Computer(FALSE) /\ UNCHANGED <<pending, unhalted>>
       ELSE /\ UNCHANGED <<power, late>>
            /\ pending' = TRUE
            /\ Computer(FALSE)
            /\ unhalted' = ("halt" \in bad)
    /\ Look(bad)
    /\ UNCHANGED desired

\* An unknown state is taken as a wrong one: CASES is halted and switched off.
ControlCASES(bad) ==
    /\ which = "cases" /\ ~pending
    /\ ControlStep(bad)
    /\ Decide(bad)
    /\ IF Status(bad) = {ShouldBeOn(bad)}
       THEN UNCHANGED <<power, late, pending, unhalted>> /\ Computer(FALSE)
       ELSE IF ShouldBeOn(bad)
       THEN SetPower(TRUE, bad) /\ Computer(FALSE) /\ UNCHANGED <<pending, unhalted>>
       ELSE /\ UNCHANGED <<power, late>>
            /\ pending' = TRUE
            /\ Computer("halt" \notin bad)
            /\ unhalted' = ("halt" \in bad)
    /\ Look(bad)
    /\ UNCHANGED desired

\* Mutant: the master switch is only looked at to switch on.
ControlHFStaysOn(bad) ==
    /\ which = "hf"
    /\ ControlStep(bad)
    /\ Decide(bad)
    /\ IF Status(bad) = {ShouldBeOn(bad)} \/ ~enable THEN UNCHANGED <<power, late>> ELSE SetPower(ShouldBeOn(bad), bad)
    /\ Look(bad)
    /\ UNCHANGED <<pending, desired, sbc, unhalted>>

ControlHF(bad) ==
    /\ which = "hf"
    /\ ControlStep(bad)
    /\ Decide(bad)
    /\ IF Status(bad) = {ShouldBeOn(bad)} THEN UNCHANGED <<power, late>> ELSE SetPower(ShouldBeOn(bad), bad)
    /\ Look(bad)
    /\ UNCHANGED <<pending, desired, sbc, unhalted>>

ControlSimple(bad) ==
    /\ which \in {"fg", "htr", "gps"}
    /\ ControlStep(bad)
    /\ \/ which = "fg" /\ FGSCRule(enable, bad) /\ UNCHANGED desired
       \/ /\ which = "htr"
          /\ desired' = IF "temp" \in bad THEN desired ELSE HeaterState(temp, desired)
          /\ IF "temp" \notin bad /\ Status(bad) = {~desired'} THEN SetPower(desired', bad)
             ELSE UNCHANGED <<power, late>>
       \/ which = "gps" /\ GPSRule(age, bad) /\ UNCHANGED desired
    /\ Look(bad)
    /\ UNCHANGED <<thermo, run, pending, sbc, history>>

InstControl(bad) == CutCASES(bad) \/ ControlCASES(bad) \/ ControlHF(bad) \/ ControlSimple(bad)

\* hw_mgr answers, and the constructors of the controllers put some devices in a state.
InstConstruct(bad) ==
    /\ which \notin {"irid", "comm"}
    /\ pc = "start"
    /\ pc' = "refresh"
    /\ Trouble(bad)
    /\ IF which \in {"cases", "hf", "fg"} THEN SetPower(which = "fg", bad) ELSE UNCHANGED <<power, late>>
    /\ Computer(FALSE)
    /\ UNCHANGED <<which, now, shown, view, orders, world, states, history>>

\* SIGINT ends the loop wherever it is; then all devices are switched off, CASES
\* ten seconds after the halt.
InstStop(bad) ==
    /\ which \notin {"irid", "comm"}
    /\ pc \in {"refresh", "control"}
    /\ pc' = "stopped"
    /\ Trouble(bad)
    /\ SetPower(FALSE, bad)
    /\ Computer("halt" \notin bad)
    /\ UNCHANGED <<which, now, shown, view, orders, world, states, history>>
=============================================================================
