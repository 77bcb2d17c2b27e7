------------------------------ MODULE GpsClock ------------------------------
(* gps_mgr/gps_io_thread.c: initializes the GPS receiver, sets the system      *)
(* clock from it once, and then measures and compensates the drift and error   *)
(* of the clock, through the driver GpsPps.  Every second has a pulse at its   *)
(* beginning and a $GPRMC sentence after it; the thread passes do_gps_tasks    *)
(* often in between, and a pass ends before the next pulse.                    *)
EXTENDS GpsPps

CONSTANTS
    InitWait, Settle1, Settle2, DriftPeriod, SyncPeriod,    \* 2, 60, 5, 30 and 3600 s.
    FixTimeout, PowerTimeout,   \* 2 and 5 s.
    FilterSize,     \* DRIFT_FILTER_SIZE and ERROR_FILTER_SIZE: 5.
    MaxSlew,        \* The greatest error adjtimex compensates in SyncPeriod: 360 s.
    MaxTrouble      \* Bound on losses of power, fix and pulses, and on late passes.

ASSUME GpsClockAssumption ==
    /\ {InitWait, Settle1, Settle2, DriftPeriod, SyncPeriod, FixTimeout, PowerTimeout,
        FilterSize, MaxSlew, MaxTrouble} \subseteq Nat
    /\ InitWait + 1 < PowerTimeout /\ PowerTimeout < SyncPeriod /\ FilterSize > 0
    /\ MaxSlew <= Far

VARIABLES
    power,      \* Whether the receiver has power,
    fix,        \* and a position fix.
    recv,       \* What it sends: $GPRMC if "on"; nothing if "off"; the answer to a
                \* command; after power came, if "cold", first a $GPRMC without a fix.
    trouble,    \* The troubles so far, (Bound.)
    upset,      \* and those that make a reading of the error wrong. (History.)
    sub,        \* The part of the second: "A" before the sentence, and "B",
    passed,     \* and whether the thread has passed in it and has nothing left to do.
    sen,        \* The sentence received: its status field "A" or "V", another, or none.
    senAge,     \* How many pulses it has waited.
    pc,         \* Where the thread is in do_gps_tasks.
    phase,      \* phase of state_machine,
    rem,        \* its stop_time less now,
    sysSet,     \* and system_time_set.
    setFlag,    \* _set_sys_time
    isSet,      \* _sys_time_set
    powerOn,    \* _receiver_power_on
    powRem,     \* The seconds to stop_time of monitor_power_status.
    serial,     \* _serial_data_received
    haveFix,    \* _have_pos_fix
    fixRem,     \* The seconds to _time_of_last_pos_fix + threshold.
    measure,    \* _sys_time_error.measure,
    error,      \* and its error_secs.
    ring,       \* _error_filter, with
    ringIdx,    \* _error_filter_index
    ringCnt,    \* and _error_filter_cnt.
    lost,       \* _drift_params.lost_pos_fix
    driftCnt,   \* _drift_filter_cnt
    moved,      \* Whether the clock drifted on between two readings. (History.)
    asked,      \* What _clock_comp is to add to the error in a sync period, and what
    comp,       \* the rate adds that adjtimex took last.
    pseudo      \* pseudo_pps_running

worldVars == <<power, fix, recv, trouble, upset>>
timeVars == <<sub, passed, sen, senAge>>
powerVars == <<powerOn, powRem, serial>>
fixVars == <<haveFix, fixRem>>
filterVars == <<ring, ringIdx, ringCnt, moved>>
compVars == <<asked, comp>>
errorVars == <<measure, error>>
setterVars == <<setFlag, isSet>>
machineVars == <<phase, rem, sysSet, filterVars, lost, driftCnt, compVars, pseudo>>
vars == <<ppsVars, worldVars, timeVars, pc, powerVars, fixVars, errorVars, setterVars, machineVars>>

Init ==
    /\ PpsInit
    /\ power = FALSE /\ fix = FALSE /\ recv = "off" /\ trouble = 0 /\ upset = 0
    /\ sub = "A" /\ passed = FALSE /\ sen = "none" /\ senAge = 0
    /\ pc = "serial"
    /\ phase = "WAIT_FOR_POWER_ON" /\ rem = 0 /\ sysSet = FALSE
    /\ setFlag = FALSE /\ isSet = FALSE
    /\ powerOn = FALSE /\ powRem = 0 /\ serial = FALSE
    /\ haveFix = FALSE /\ fixRem = 0
    /\ measure = FALSE /\ error = 0
    /\ ring = [i \in 1..FilterSize |-> 0] /\ ringIdx = 1 /\ ringCnt = 0 /\ moved = FALSE
    /\ lost = FALSE /\ driftCnt = 0
    /\ asked = 0 /\ comp = 0 /\ pseudo = FALSE

-----------------------------------------------------------------------------
(* Time, the receiver, and the user *)

Trouble == trouble < MaxTrouble /\ trouble' = trouble + 1

\* Times further off than any jump of the clock are the same.
Late(r) == IF r < -(2 * Far) THEN -(2 * Far) ELSE r

\* What is waited for comes nearer by what the clock advances.
TimePasses(secs) ==
    /\ rem' = IF phase \in {"WAIT_FOR_POWER_ON", "SET_SYSTEM_TIME", "MEASURE_ERROR"} THEN 0 ELSE Late(rem - secs)
    /\ powRem' = IF powerOn THEN Late(powRem - secs) ELSE 0
    /\ fixRem' = IF haveFix THEN Late(fixRem - secs) ELSE 0

\* The sentence before was handled, or it comes after the pulse.
NextSecond ==
    /\ pc = "ended" \/ (pc = "serial" /\ sub = "B")
    /\ sub' = "A" /\ passed' = FALSE
    /\ senAge' = IF sen = "none" THEN 0 ELSE 1
    /\ UNCHANGED <<power, fix, recv, sen, pc, powerOn, serial, haveFix, errorVars, setterVars,
                   phase, sysSet, filterVars, lost, driftCnt, compVars, pseudo>>

OnTime == (passed \/ pc = "ended") /\ UNCHANGED <<trouble, upset>>
TooLate == ~passed /\ sen # "none" /\ Trouble /\ upset' = upset + 1

SecondBegins ==
    /\ power
    /\ NextSecond
    /\ OnTime \/ TooLate
    /\ PpsIsr
    /\ TimePasses(1 + Step)

SecondWithoutPulse ==
    /\ NextSecond
    /\ \/ ~power /\ OnTime
       \/ power /\ passed /\ Trouble /\ upset' = upset + 1
    /\ drv # "closed"
    /\ NoPulse
    /\ TimePasses(1)

\* The receiver is silent between the commands that disable and enable its output,
\* but for its answers to others.
Sentence ==
    /\ pc = "serial" /\ sub = "A" /\ passed
    /\ sub' = "B" /\ passed' = FALSE
    /\ sen' = IF ~power \/ recv = "off" THEN sen
              ELSE IF recv = "answer" THEN "other"
              ELSE IF fix THEN "A" ELSE "V"
    /\ recv' = IF recv = "answer" THEN "off" ELSE IF recv = "cold" THEN "on" ELSE recv
    /\ UNCHANGED <<ppsVars, power, fix, trouble, upset, senAge, pc, powerVars, fixVars, errorVars, setterVars, machineVars>>

Receiver ==
    /\ pc = "serial"
    /\ UNCHANGED <<ppsVars, upset, timeVars, pc, powerVars, fixVars, errorVars, setterVars, machineVars>>

PowerOff ==
    /\ Receiver /\ Trouble
    /\ power
    /\ power' = FALSE /\ fix' = FALSE /\ recv' = "off"

PowerOn ==
    /\ Receiver
    /\ ~power
    /\ power' = TRUE /\ recv' = "cold"
    /\ UNCHANGED <<fix, trouble>>

FixLost ==
    /\ Receiver /\ Trouble
    /\ fix
    /\ fix' = FALSE
    /\ UNCHANGED <<power, recv>>

FixFound ==
    /\ Receiver
    /\ power /\ ~fix /\ recv # "cold"
    /\ fix' = TRUE
    /\ UNCHANGED <<power, recv, trouble>>

\* While the receiver has no power or no fix, the rate set at the last sync goes on
\* for period after period.
NothingToSync ==
    \/ ~power /\ phase = "WAIT_FOR_POWER_ON"
    \/ power /\ ~fix /\ ~haveFix /\ phase \in {"WAIT_FOR_FIRST_FIX", "MEASURE_DRIFT", "MEASURE_ERROR"}

PeriodWithoutSync ==
    /\ pc = "serial" /\ passed /\ comp # 0
    /\ NothingToSync
    /\ off' = Clamp(off + comp)
    /\ lastPps' = IF power THEN Clamp(lastPps + comp) ELSE -Far
    /\ rem' = IF phase = "WAIT_FOR_FIRST_FIX" THEN Late(rem - SyncPeriod) ELSE rem
    /\ moved' = TRUE
    /\ UNCHANGED <<setTime, steps, stale, drv, measureVars, pseudoVars, worldVars, timeVars, pc,
                   powerVars, fixVars, errorVars, setterVars, phase, sysSet, ring, ringIdx, ringCnt,
                   lost, driftCnt, compVars, pseudo>>

-----------------------------------------------------------------------------
(* The thread: HandleSerialInput *)

\* A pass that finds nothing to do is the last one before something happens.
PassBegins == pc = "serial" /\ ~passed /\ pc' = "monitor"

NothingToRead ==
    /\ PassBegins
    /\ sen = "none"
    /\ UNCHANGED <<ppsVars, worldVars, timeVars, powerVars, fixVars, errorVars, setterVars, machineVars>>

ReadSerial ==
    /\ PassBegins
    /\ serial' = TRUE
    /\ sen' = "none" /\ senAge' = 0
    /\ UNCHANGED <<worldVars, sub, passed, powerOn, powRem, machineVars>>

OtherSentence ==
    /\ sen = "other"
    /\ ReadSerial
    /\ UNCHANGED <<ppsVars, fixVars, errorVars, setterVars>>

\* HandleGprmcSen
SentenceWithoutFix ==
    /\ sen = "V"
    /\ ReadSerial
    /\ haveFix' = FALSE /\ fixRem' = 0
    /\ UNCHANGED <<ppsVars, errorVars, setterVars>>

\* Mutant: the flag is not reset.
SetSysTimeFlagKept ==
    \/ ~setFlag /\ UNCHANGED <<setVars, setterVars>>
    \/ /\ setFlag
       /\ IocSetTime(senAge)
       /\ isSet' = TRUE
       /\ UNCHANGED setFlag


\* set_sys_time names the second after the one of the sentence.
SetSysTime ==
    \/ ~setFlag /\ UNCHANGED <<setVars, setterVars>>
    \/ /\ setFlag
       /\ IocSetTime(senAge)
       /\ setFlag' = FALSE /\ isSet' = TRUE

\* The clock at the last pulse less the time of the sentence.
MeasureError ==
    /\ error' = IF measure THEN Clamp(lastPps + senAge) ELSE error
    /\ measure' = FALSE

SentenceWithFix ==
    /\ sen = "A"
    /\ ReadSerial
    /\ haveFix' = TRUE /\ fixRem' = FixTimeout
    /\ SetSysTime
    /\ MeasureError
    /\ UNCHANGED <<drv, lastPps, measureVars, pseudoVars>>

HandleSerialInput == NothingToRead \/ OtherSentence \/ SentenceWithoutFix \/ SentenceWithFix

-----------------------------------------------------------------------------
(* monitor_fix_status and monitor_power_status *)

MonitorFixStatus ==
    /\ haveFix' = (haveFix /\ fixRem >= 0)
    /\ fixRem' = IF haveFix' THEN fixRem ELSE 0

MonitorPowerStatus ==
    /\ serial' = FALSE
    /\ powerOn' = (serial \/ (powerOn /\ powRem >= 0))
    /\ powRem' = IF serial THEN PowerTimeout ELSE IF powerOn' THEN powRem ELSE 0

Monitors ==
    /\ pc = "monitor" /\ pc' = "machine"
    /\ MonitorFixStatus
    /\ MonitorPowerStatus
    /\ UNCHANGED <<ppsVars, worldVars, timeVars, errorVars, setterVars, machineVars>>

-----------------------------------------------------------------------------
(* state_machine *)

TimedOut == rem < 0

\* An action of one phase, that goes on to another and waits there.
Goes(from, to, wait) ==
    /\ pc = "machine" /\ pc' = "serial"
    /\ powerOn /\ phase = from /\ phase' = to /\ rem' = wait
    /\ UNCHANGED <<power, fix, trouble, upset, timeVars, powerVars>>

Command(answer) ==
    /\ recv' = IF power THEN answer ELSE recv
    /\ UNCHANGED <<ppsVars, errorVars, setterVars, sysSet, filterVars, lost, driftCnt, compVars, pseudo>>

\* Without power the machine starts again from any phase.
WithoutPower ==
    /\ pc = "machine" /\ pc' = "serial" /\ passed' = TRUE
    /\ ~powerOn
    /\ phase' = "WAIT_FOR_POWER_ON" /\ rem' = 0
    /\ UNCHANGED <<ppsVars, worldVars, sub, sen, senAge, powerVars, fixVars, errorVars, setterVars,
                   sysSet, filterVars, lost, driftCnt, compVars, pseudo>>

WaitForPowerOn ==
    /\ Goes("WAIT_FOR_POWER_ON", "INIT_1", InitWait)
    /\ Command("off")
    /\ haveFix' = FALSE /\ fixRem' = 0

Init1 == TimedOut /\ Goes("INIT_1", "INIT_2", InitWait) /\ Command("answer") /\ UNCHANGED fixVars
Init2 == TimedOut /\ Goes("INIT_2", "INIT_3", InitWait) /\ Command("answer") /\ UNCHANGED fixVars
Init3 == TimedOut /\ Goes("INIT_3", "WAIT_FOR_FIRST_FIX", InitWait) /\ Command("on") /\ UNCHANGED fixVars

Quiet == UNCHANGED <<recv, fixVars, errorVars, filterVars, compVars, pseudo>>

WaitForFirstFix ==
    /\ TimedOut /\ haveFix
    /\ Goes("WAIT_FOR_FIRST_FIX", "SETTLE_1", Settle1)
    /\ Quiet
    /\ UNCHANGED <<ppsVars, setterVars, sysSet, lost, driftCnt>>

\* The clock is set once.
ToSetSystemTime ==
    /\ TimedOut /\ ~sysSet
    /\ Goes("SETTLE_1", "SET_SYSTEM_TIME", 0)
    /\ sysSet' = TRUE /\ isSet' = FALSE /\ setFlag' = TRUE
    /\ Quiet
    /\ UNCHANGED <<ppsVars, lost, driftCnt>>

StartDriftMeas ==
    /\ IocStartDrift
    /\ lost' = FALSE
    /\ UNCHANGED <<setVars, drv, lastPps, pseudoVars, setterVars, sysSet>>

ToMeasureDrift ==
    /\ TimedOut
    /\ \/ sysSet /\ Goes("SETTLE_1", "MEASURE_DRIFT", DriftPeriod)
       \/ Goes("SETTLE_2", "MEASURE_DRIFT", DriftPeriod)
    /\ StartDriftMeas
    /\ driftCnt' = 0
    /\ Quiet

SetSystemTime ==
    /\ isSet
    /\ Goes("SET_SYSTEM_TIME", "SETTLE_2", Settle2)
    /\ Quiet
    /\ UNCHANGED <<ppsVars, setterVars, sysSet, lost, driftCnt>>

\* The drift rate is that of the clock if the time measured is that of the pulses
\* counted, of which there is one, and the fix was not lost in between.
DriftRateValid == measured = 0 /\ ~lost /\ haveFix

\* The filter counts the rates that were valid.
PassesDriftFilter == DriftRateValid /\ driftCnt + 1 >= FilterSize

DriftMeasured ==
    /\ TimedOut /\ PassesDriftFilter
    /\ Goes("MEASURE_DRIFT", "MEASURE_ERROR", 0)
    /\ IocStopDrift
    /\ measure' = TRUE
    /\ ringIdx' = 1 /\ ringCnt' = 0 /\ moved' = FALSE
    /\ driftCnt' = 0 /\ lost' = FALSE
    /\ UNCHANGED <<setVars, drv, lastPps, pseudoVars, recv, fixVars, error, setterVars, sysSet, ring, compVars, pseudo>>

MeasureDriftAgain ==
    /\ TimedOut /\ ~PassesDriftFilter
    /\ Goes("MEASURE_DRIFT", "MEASURE_DRIFT", DriftPeriod)
    /\ StartDriftMeas
    /\ driftCnt' = IF DriftRateValid THEN driftCnt + 1 ELSE driftCnt
    /\ Quiet

\* monitor_drift_meas
FixLostInDriftMeas ==
    /\ ~TimedOut /\ ~haveFix /\ ~lost
    /\ Goes("MEASURE_DRIFT", "MEASURE_DRIFT", rem)
    /\ lost' = TRUE
    /\ Quiet
    /\ UNCHANGED <<ppsVars, setterVars, sysSet, driftCnt>>

Pushed == [ring EXCEPT ![ringIdx] = error]

\* Mutant: one reading is enough.
PassesErrorFilterOnce == TRUE

\* passes_error_filter: so many readings since the last init, neighbours of which do
\* not differ.
PassesErrorFilter ==
    /\ ringCnt + 1 >= FilterSize
    /\ \A i \in 1..(FilterSize - 1) : Pushed[i] = Pushed[i + 1]

\* Mutant: the index is not wrapped.
PushErrorPastEnd ==
    /\ ring' = Pushed
    /\ ringIdx' = ringIdx + 1
    /\ ringCnt' = IF ringCnt < FilterSize THEN ringCnt + 1 ELSE ringCnt
    /\ UNCHANGED moved

PushError ==
    /\ ring' = Pushed
    /\ ringIdx' = (ringIdx % FilterSize) + 1
    /\ ringCnt' = IF ringCnt < FilterSize THEN ringCnt + 1 ELSE ringCnt
    /\ UNCHANGED moved

MeasureErrorAgain ==
    /\ ~measure /\ ~PassesErrorFilter
    /\ Goes("MEASURE_ERROR", "MEASURE_ERROR", 0)
    /\ PushError
    /\ measure' = TRUE
    /\ UNCHANGED <<ppsVars, recv, fixVars, error, setterVars, sysSet, lost, driftCnt, compVars, pseudo>>

\* update_comp_rate: the error is to be gone at the next sync. What was asked for and
\* not taken passes for drift of the clock the next time.
Asked(e) == Clamp(asked - comp - e)

\* adjtimex does not take a rate out of its range, and the old one stays.
Taken(rate) == IF rate \in -MaxSlew..MaxSlew THEN rate ELSE comp

ErrorMeasured ==
    /\ ~measure /\ PassesErrorFilter
    /\ Goes("MEASURE_ERROR", "WAIT_FOR_NEXT_SYNC", SyncPeriod)
    /\ PushError
    /\ asked' = Asked(error) /\ comp' = Taken(asked')
    /\ IF pseudo THEN UNCHANGED pseudoVars ELSE IocStartPseudoPps
    /\ pseudo' = TRUE
    /\ UNCHANGED <<setVars, drv, lastPps, measureVars, recv, fixVars, errorVars, setterVars, sysSet, lost, driftCnt>>

\* Once the error of a period is gone, the rate goes on for a part of another one
\* before the next is set.
WaitForNextSync ==
    /\ TimedOut
    /\ Goes("WAIT_FOR_NEXT_SYNC", "WAIT_FOR_FIRST_FIX", rem)
    /\ \E part \in {0} \union 1..(comp - 1) \union (comp + 1)..-1 : off' = Clamp(off + comp + part)
    /\ UNCHANGED <<setTime, steps, stale, drv, lastPps, measureVars, pseudoVars, recv, fixVars, errorVars,
                   setterVars, sysSet, filterVars, lost, driftCnt, compVars, pseudo>>

Phase ==
    \/ WithoutPower \/ WaitForPowerOn \/ Init1 \/ Init2 \/ Init3 \/ WaitForFirstFix
    \/ ToSetSystemTime \/ ToMeasureDrift \/ SetSystemTime
    \/ DriftMeasured \/ MeasureDriftAgain \/ FixLostInDriftMeas
    \/ MeasureErrorAgain \/ ErrorMeasured \/ WaitForNextSync

\* Nothing to do in this phase yet.
Waits ==
    /\ pc = "machine" /\ pc' = "serial" /\ passed' = TRUE
    /\ powerOn
    /\ CASE phase = "WAIT_FOR_POWER_ON" -> FALSE
         [] phase = "WAIT_FOR_FIRST_FIX" -> ~(TimedOut /\ haveFix)
         [] phase = "SET_SYSTEM_TIME" -> ~isSet
         [] phase = "MEASURE_DRIFT" -> ~TimedOut /\ (haveFix \/ lost)
         [] phase = "MEASURE_ERROR" -> measure
         [] OTHER -> ~TimedOut
    /\ UNCHANGED <<ppsVars, worldVars, sub, sen, senAge, powerVars, fixVars, errorVars, setterVars, machineVars>>

StateMachine == Phase \/ Waits

\* stop_gps_io_thread() at any time; the end of gps_io_thread_func closes the driver.
ThreadEnds ==
    /\ pc = "serial" /\ pc' = "ended"
    /\ ReleaseStopsPseudoPps
    /\ UNCHANGED <<worldVars, timeVars, powerVars, fixVars, errorVars, setterVars, machineVars>>

DriverCloses ==
    /\ pc = "ended"
    /\ ReleaseUninstalls
    /\ UNCHANGED <<worldVars, timeVars, pc, powerVars, fixVars, errorVars, setterVars, machineVars>>

TimerFires ==
    /\ PseudoPpsEdge
    /\ UNCHANGED <<worldVars, timeVars, pc, powerVars, fixVars, errorVars, setterVars, machineVars>>

Pass == HandleSerialInput \/ Monitors \/ StateMachine

Next ==
    \/ SecondBegins \/ SecondWithoutPulse \/ Sentence
    \/ PowerOff \/ PowerOn \/ FixLost \/ FixFound \/ PeriodWithoutSync
    \/ Pass \/ ThreadEnds \/ DriverCloses \/ TimerFires

\* Time goes on, the thread passes, and power and fix come back.
Fairness ==
    /\ WF_vars(SecondBegins \/ SecondWithoutPulse) /\ WF_vars(Sentence)
    /\ WF_vars(Pass) /\ WF_vars(DriverCloses)
    /\ SF_vars(PowerOn) /\ SF_vars(FixFound)

Spec == Init /\ [][Next]_vars /\ Fairness

-----------------------------------------------------------------------------
(* Properties *)

\* Types of all variables.
TypeOK ==
    /\ PpsTypeOK
    /\ recv \in {"cold", "on", "off", "answer"}
    /\ {power, fix, passed, sysSet, setFlag, isSet, powerOn, serial, haveFix, measure, moved, lost, pseudo} \subseteq BOOLEAN
    /\ trouble \in 0..MaxTrouble /\ upset \in 0..trouble
    /\ sub \in {"A", "B"} /\ sen \in {"none", "A", "V", "other"} /\ senAge \in 0..1
    /\ pc \in {"serial", "monitor", "machine", "ended"}
    /\ phase \in {"WAIT_FOR_POWER_ON", "INIT_1", "INIT_2", "INIT_3", "WAIT_FOR_FIRST_FIX", "SETTLE_1",
                  "SET_SYSTEM_TIME", "SETTLE_2", "MEASURE_DRIFT", "MEASURE_ERROR", "WAIT_FOR_NEXT_SYNC"}
    /\ error \in -Far..Far /\ asked \in -Far..Far /\ comp \in -MaxSlew..MaxSlew
    /\ ring \in [1..FilterSize -> -Far..Far] /\ ringIdx \in 1..FilterSize /\ ringCnt \in 0..FilterSize
    /\ driftCnt \in 0..FilterSize

\* "The state machine sets the system time from GPS one time only": however often
\* power, fix or pulses are lost on the way, the driver steps the clock at most once
\* (gps_io_thread.c:332-346, 935-957, gps_pps.c:233-236).
SteppedOnce == steps <= 1

\* What a sync sets out to compensate is the true error of the clock, although single
\* sentences are handled late and single pulses are missed, unless as many of these go
\* wrong as the filter looks at, the clock drifts on for a period between two of the
\* readings, or adjtimex refused the rate of an earlier sync (gps_io_thread.c:407-440,
\* 1362-1391, 1526-1566).
CompensatesTrueError ==
    [][phase = "MEASURE_ERROR" /\ phase' = "WAIT_FOR_NEXT_SYNC" /\ upset < FilterSize /\ ~moved /\ asked = comp
        => asked' = -off /\ (off \in -MaxSlew..MaxSlew => comp' = -off)]_vars

\* Once the driver is closed its timer is not pending, unless P-PPS had been asked for
\* and the pulse that starts it comes between the two halves of drvr_release
\* (gps_pps.c:163-172, 245-250).
NoTimerLeft == drv = "closed" /\ timer # "none" => raced

=============================================================================
