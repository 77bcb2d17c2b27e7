---------------------------- MODULE PowerControl ----------------------------
(* The loop of super (super/super.py), which every 15 seconds refreshes the   *)
(* status hw_mgr keeps and runs one power controller after the other.  The    *)
(* controllers share the loop, the clock and hw_mgr, and nothing else: a      *)
(* behaviour is about one of them, and fg stands for sc, whose rule is the    *)
(* same.  hw_mgr (module HwMgr) is seen as its callers see it: a call may     *)
(* fail, and one that was given up may still be carried out.                  *)
EXTENDS Naturals

CONSTANTS
    Which,      \* The controllers: "cases", "hf", "fg", "htr", "gps", "irid", "comm".
    Minutes,    \* Length of a day.
    PerMinute,  \* Passes of the loop in a minute.
    Start,      \* The minute in which an item of the schedule starts,
    Stop,       \* and the one in which it stops.
    MaxTrouble  \* Bound on the passes in which something goes wrong.

ASSUME PowerAssumption ==
    /\ Which \subseteq {"cases", "hf", "fg", "htr", "gps", "irid", "comm"}
    /\ {Minutes, PerMinute, Start, Stop, MaxTrouble} \subseteq Nat
    /\ PerMinute > 0 /\ Start < Stop /\ Stop + 1 < Minutes

VARIABLES
    which,      \* The controller.
    pc,         \* Where the main thread of super is.
    now,        \* The pass of the day.
    power,      \* Whether the device is on.
    shown,      \* Whether it is on according to the dictionary of hw_mgr.
    late,       \* The commands given up that hw_mgr may still carry out.
    trouble,    \* What is left of MaxTrouble.
    view        \* Of the last pass: "true" if it saw what is and its calls were
                \* answered, "old" if an order or the world has changed since,
                \* "false" if not. (History.)

loopVars == <<which, pc, now, power, shown, late, trouble, view>>

Minute == now \div PerMinute
Pass == 0..(Minutes * PerMinute - 1)
InWindow == Start <= Minute /\ Minute < Stop

LoopInit ==
    /\ which \in Which
    /\ pc = "start"
    /\ now \in IF which \in {"cases", "hf"} THEN {0, Start * PerMinute} ELSE {0}
    /\ power \in IF which = "comm" THEN {FALSE} ELSE BOOLEAN
    /\ shown = FALSE
    /\ late = {}
    /\ trouble = MaxTrouble
    /\ view = "false"

\* The calls of a pass that fail: none or, a bound of the model, one.
Failing(calls) == {{}} \cup {{call} : call \in calls}

Trouble(bad) == IF bad = {} THEN UNCHANGED trouble ELSE trouble > 0 /\ trouble' = trouble - 1

\* set_power_state: done, or given up, and then not done or not done yet.
SetPower(state, bad) ==
    \/ "power" \notin bad /\ power' = state /\ UNCHANGED late
    \/ "power" \in bad /\ UNCHANGED power /\ (UNCHANGED late \/ late' = late \cup {state})

\* get_hw_status: None if the call fails.
Status(bad) == IF "status" \in bad THEN {} ELSE {shown}

Look(bad) == view' = IF bad = {} /\ late' = {} /\ shown = power THEN "true" ELSE "false"
Changed == view' = IF view = "true" THEN "old" ELSE view

\* The next pass, on time, or late because calls timed out: up to a minute is
\* skipped. It starts with RefreshStatus, which may fail.
Refresh(bad, skip) ==
    /\ pc = "refresh"
    /\ pc' = "control"
    /\ Trouble(bad)
    /\ skip > 0 => bad # {}
    /\ now' = IF which \in {"cases", "hf", "irid"} THEN (now + 1 + skip) % (Minutes * PerMinute) ELSE now
    /\ shown' = IF "status" \in bad THEN shown ELSE power
    /\ UNCHANGED <<which, power, late, view>>

-----------------------------------------------------------------------------
(* The rules without a memory *)

\* ControlFGSCPower: as set by the operator, if the status is known.
FGSCRule(setting, bad) ==
    IF Status(bad) = {~setting} THEN SetPower(setting, bad) ELSE UNCHANGED <<power, late>>

\* ControlTemp: the state asked for is the first thing to change.
HeaterState(temp, desired) ==
    CASE temp = "high" -> FALSE [] temp = "low" -> TRUE [] OTHER -> desired

\* ControlGPSPower: on when the last synchronisation is old, off when it is not.
GPSRule(age, bad) ==
    CASE age = "fresh" /\ Status(bad) = {TRUE} -> SetPower(FALSE, bad)
      [] age = "old" /\ Status(bad) = {FALSE} -> SetPower(TRUE, bad)
      [] OTHER -> UNCHANGED <<power, late>>

-----------------------------------------------------------------------------
(* The thermostat and the schedule of CASES and HF *)

\* An unknown temperature changes nothing; the switch moves on an edge.
Thermostat(th, known, temp) ==
    IF ~known THEN th
    ELSE LET over == temp = "high"
             under == temp = "low"
         IN  [over |-> over, under |-> under,
              on |-> IF under /\ ~th.under THEN TRUE ELSE IF over /\ ~th.over THEN FALSE ELSE th.on]

\* The device starts in the first minute of an item, and stops in its last one
\* or at the limit of the data, if a pass looks at the clock in that minute.
Schedule(running, full) == IF running THEN Minute # Stop /\ ~full ELSE Minute = Start
=============================================================================
