------------------------------- MODULE GpsPps -------------------------------
(* gps_pps/gps_pps.c, the kernel driver of the pulse per second (PPS) of the   *)
(* GPS receiver: it sets the system clock at a pulse, measures its drift, and  *)
(* makes a pulse of its own (P-PPS) with a timer.  The computer has one CPU,   *)
(* so what holds a lock with interrupts disabled is one step.  Clocks count    *)
(* seconds; the clock of the system is given by its distance from UTC.         *)
EXTENDS Integers

CONSTANT Far    \* Distances of the clock from here on are not told apart.

ASSUME FarAssumption == Far \in Nat /\ Far > 0

VARIABLES
    off,        \* The system clock less UTC.
    drv,        \* "open", or for drvr_release "stopped" and "closed".
    setTime,    \* set_sys_time and new_sys_time: how late a clock set now would be.
    lastPps,    \* last_pps_time less the UTC of now.
    measuring,  \* "no"; "start" with start_meas; "yes".
    skew,       \* System time since begin_sys_time less gps_seconds,
    measured,   \* and this at the last pulse that was counted.
    pstart,     \* _pseudo_pps.start,
    timer,      \* and the function of its timer while one is pending.
    steps,      \* How often the clock was set, (History.)
    stale,      \* whether it was set more than a second late, (History.)
    raced       \* whether P-PPS was started after it was stopped for good. (History.)

measureVars == <<measuring, skew, measured>>
setVars == <<off, setTime, steps, stale>>
pseudoVars == <<pstart, timer, raced>>
ppsVars == <<setVars, drv, lastPps, measureVars, pseudoVars>>

NoTime == -1
NoDrift == Far + 1

Clamp(n) == IF n > Far THEN Far ELSE IF n < -Far THEN -Far ELSE n

PpsInit ==
    /\ off \in {-Far, 0, Far}
    /\ drv = "open"
    /\ setTime = NoTime
    /\ lastPps = -Far
    /\ measuring = "no" /\ skew = 0 /\ measured = NoDrift
    /\ pstart = FALSE /\ timer = "none"
    /\ steps = 0 /\ stale = FALSE /\ raced = FALSE

-----------------------------------------------------------------------------
(* pps_isr *)

\* What the clock jumps by at a pulse: new_sys_time is the second it was meant for.
Step == IF setTime = NoTime THEN 0 ELSE -setTime - off

ForceSysTime ==
    /\ off' = off + Step
    /\ setTime' = NoTime
    /\ steps' = IF setTime = NoTime \/ steps = 2 THEN steps ELSE steps + 1
    /\ stale' = (stale \/ setTime > 1)

HandleDriftMeasurement ==
    \/ measuring = "no" /\ UNCHANGED measureVars
    \/ measuring = "start" /\ measuring' = "yes" /\ skew' = 0 /\ UNCHANGED measured
    \/ /\ measuring = "yes" /\ UNCHANGED measuring
       /\ skew' = Clamp(skew + Step)
       /\ measured' = skew'

\* Starts P-PPS once it was asked to, on the pulse.
StartPseudoPps ==
    /\ pstart' = FALSE
    /\ timer' = IF pstart THEN "falling" ELSE timer
    /\ raced' = (raced \/ (pstart /\ drv = "stopped"))

PpsIsr ==
    /\ drv # "closed"
    /\ ForceSysTime
    /\ lastPps' = off'
    /\ HandleDriftMeasurement
    /\ StartPseudoPps
    /\ UNCHANGED drv

\* A second without a pulse.
NoPulse ==
    /\ setTime' = IF setTime \in {NoTime, Far} THEN setTime ELSE setTime + 1
    /\ lastPps' = Clamp(lastPps - 1)
    /\ skew' = IF measuring = "yes" THEN Clamp(skew + 1) ELSE skew
    /\ UNCHANGED <<off, steps, stale, drv, measuring, measured, pseudoVars>>

-----------------------------------------------------------------------------
(* P-PPS *)

\* Each edge sets the timer for the next one.
PseudoPpsEdge ==
    /\ timer # "none"
    /\ timer' = IF timer = "falling" THEN "rising" ELSE "falling"
    /\ UNCHANGED <<setVars, drv, lastPps, measureVars, pstart, raced>>

\* Mutant: the timer goes on.
ReleaseStopsOutputOnly ==
    /\ drv = "open" /\ drv' = "stopped"
    /\ UNCHANGED <<setVars, lastPps, measureVars, pseudoVars>>

\* drvr_release: P-PPS is stopped,
ReleaseStopsPseudoPps ==
    /\ drv = "open" /\ drv' = "stopped"
    /\ timer' = "none"
    /\ UNCHANGED <<setVars, lastPps, measureVars, pstart, raced>>

\* and then the interrupt uninstalled.
ReleaseUninstalls ==
    /\ drv = "stopped" /\ drv' = "closed"
    /\ UNCHANGED <<setVars, lastPps, measureVars, pseudoVars>>

\* jiffie_drift_adj: the jiffies by which a rising edge is moved, from the
\* microseconds of the clock, with so many to a jiffie.
JiffieDriftAdj(usec, perJiffie) ==
    LET thresh == perJiffie \div 2 + 500
    IN  IF usec > 1000000 - thresh \/ usec < thresh THEN 0
        ELSE IF usec < 500000 THEN -1 ELSE 1

\* Distance of a time of the clock from the change of second.
ToSecond(usec) == LET u == usec % 1000000 IN IF u < 500000 THEN u ELSE 1000000 - u

\* An edge that is moved comes closer to the change of second.
ASSUME JiffieDriftAdjAssumption ==
    \A k \in 0..999 : LET usec == 1000 * k + 1
                          adj == JiffieDriftAdj(usec, 10000)
                      IN  adj # 0 => ToSecond(usec + adj * 10000) < ToSecond(usec)

-----------------------------------------------------------------------------
(* drvr_ioctl *)

\* late is how far the second to be set has begun already.
IocSetTime(late) ==
    /\ setTime' = late
    /\ UNCHANGED <<off, steps, stale>>

IocStartDrift ==
    /\ measuring' = "start" /\ measured' = NoDrift
    /\ UNCHANGED skew

IocStopDrift ==
    /\ measuring' = "no"
    /\ UNCHANGED <<skew, measured>>

IocStartPseudoPps ==
    /\ pstart' = TRUE
    /\ UNCHANGED <<timer, raced>>

PpsTypeOK ==
    /\ off \in -Far..Far /\ lastPps \in -Far..Far /\ skew \in -Far..Far
    /\ drv \in {"open", "stopped", "closed"}
    /\ setTime \in -1..Far
    /\ measuring \in {"no", "start", "yes"} /\ measured \in -Far..NoDrift
    /\ {pstart, stale, raced} \subseteq BOOLEAN
    /\ timer \in {"none", "falling", "rising"}
    /\ steps \in 0..2
=============================================================================
