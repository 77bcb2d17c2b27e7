--------------------------- MODULE GpsClock_proofs ---------------------------
(* Theorems about GpsClock, for every length of the waits, size of the filter *)
(* and number of troubles.                                                    *)
EXTENDS GpsClock, FiniteSetTheorems, WellFoundedInduction, TLAPS

Phases == {"WAIT_FOR_POWER_ON", "INIT_1", "INIT_2", "INIT_3", "WAIT_FOR_FIRST_FIX", "SETTLE_1",
           "SET_SYSTEM_TIME", "SETTLE_2", "MEASURE_DRIFT", "MEASURE_ERROR", "WAIT_FOR_NEXT_SYNC"}

\* The parts of TypeOK that change together.
SetTypes == off \in -Far..Far /\ setTime \in -1..Far /\ steps \in 0..2 /\ stale \in BOOLEAN
DriverTypes ==
    /\ drv \in {"open", "stopped", "closed"} /\ lastPps \in -Far..Far
    /\ measuring \in {"no", "start", "yes"} /\ skew \in -Far..Far /\ measured \in -Far..NoDrift
PseudoTypes == timer \in {"none", "falling", "rising"} /\ pstart \in BOOLEAN /\ raced \in BOOLEAN
WorldTypes ==
    /\ power \in BOOLEAN /\ fix \in BOOLEAN /\ recv \in {"cold", "on", "off", "answer"}
    /\ trouble \in 0..MaxTrouble /\ upset \in 0..trouble
TimeTypes ==
    /\ sub \in {"A", "B"} /\ passed \in BOOLEAN
    /\ sen \in {"none", "A", "V", "other"} /\ senAge \in 0..1
    /\ pc \in {"serial", "monitor", "machine", "ended"}
ThreadTypes ==
    /\ powerOn \in BOOLEAN /\ serial \in BOOLEAN /\ haveFix \in BOOLEAN
    /\ measure \in BOOLEAN /\ error \in -Far..Far /\ setFlag \in BOOLEAN /\ isSet \in BOOLEAN
MachineTypes ==
    /\ phase \in Phases /\ sysSet \in BOOLEAN /\ lost \in BOOLEAN /\ pseudo \in BOOLEAN /\ moved \in BOOLEAN
    /\ asked \in -Far..Far /\ comp \in -MaxSlew..MaxSlew /\ driftCnt \in 0..FilterSize
    /\ ring \in [1..FilterSize -> -Far..Far] /\ ringIdx \in 1..FilterSize /\ ringCnt \in 0..FilterSize
Types ==
    SetTypes /\ DriverTypes /\ PseudoTypes /\ WorldTypes /\ TimeTypes /\ ThreadTypes /\ MachineTypes

\* The one setting of the clock is to come, asked for, left with the driver, or done.
OnceInv ==
    /\ ~sysSet => ~setFlag /\ setTime = NoTime /\ steps = 0
    /\ setFlag => setTime = NoTime /\ steps = 0
    /\ setTime # NoTime => steps = 0
    /\ steps <= 1

TimerInv == drv # "open" /\ timer # "none" => raced

\* Where the request to set the clock can still be pending: with a fix it is gone by
\* the time the machine comes by WAIT_FOR_FIRST_FIX again.
FlagInv ==
    /\ isSet => ~setFlag
    /\ setFlag =>
          \/ phase \in {"SET_SYSTEM_TIME", "WAIT_FOR_POWER_ON"}
          \/ phase \in {"INIT_1", "INIT_2", "INIT_3", "WAIT_FOR_FIRST_FIX"} /\ ~haveFix

\* A pass reads what was sent, and a receiver that has just come up has no fix.
SentenceInv ==
    /\ pc \in {"monitor", "machine"} => sen = "none"
    /\ pc = "serial" /\ passed => sen = "none"
    /\ sen = "none" => senAge = 0
    /\ sub = "A" /\ sen # "none" => senAge = 1
    /\ ~power \/ recv = "cold" => ~fix

\* There was a pulse since the drift measurement began.
Pulsed ==
    \/ phase = "MEASURE_ERROR"
    \/ phase = "MEASURE_DRIFT" /\ (measuring = "yes" \/ measured # NoDrift)

\* From then on the clock is not stepped, and a sentence read after the pulse finds
\* the time of that pulse.
PulseInv ==
    pc # "ended" /\ Pulsed =>
       /\ setTime = NoTime
       /\ senAge = 1 => lastPps = off

\* The reading of this second is going to be wrong.
Astray ==
    \/ sen = "A" /\ lastPps + senAge # off
    \/ sub = "A" /\ power /\ recv # "cold" /\ lastPps # off

\* The wrong readings in the filter.
Wrong == {i \in 1..ringCnt : ring[i] # off}

\* Each wrong reading has a trouble of its own: those in the filter, the one to be
\* entered, and the one to be taken.
CountInv ==
    /\ pc # "ended" /\ Pulsed /\ Astray => upset >= 1
    /\ ringCnt < FilterSize => ringIdx = ringCnt + 1
    /\ pc # "ended" /\ phase = "MEASURE_ERROR" /\ ~moved =>
          /\ Cardinality(Wrong) <= upset
          /\ ~measure /\ error # off => Cardinality(Wrong) + 1 <= upset
          /\ Astray => Cardinality(Wrong) + 1 <= upset
          /\ ~measure /\ error # off /\ Astray => Cardinality(Wrong) + 2 <= upset

\* The inductive invariant.
IInv == Types /\ OnceInv /\ TimerInv /\ FlagInv /\ SentenceInv /\ PulseInv /\ CountInv

USE FarAssumption, GpsClockAssumption

-----------------------------------------------------------------------------
(* Numbers *)

LEMMA ClampType == ASSUME NEW n \in Int PROVE Clamp(n) \in -Far..Far
  BY DEF Clamp

\* A distance that is told apart is itself.
LEMMA ClampKnown == ASSUME NEW n \in -Far..Far PROVE Clamp(n) = n
  BY DEF Clamp

LEMMA NextIndex ==
  ASSUME NEW i \in 1..FilterSize
  PROVE  (i % FilterSize) + 1 \in 1..FilterSize /\ (i < FilterSize => (i % FilterSize) + 1 = i + 1)
  OBVIOUS

\* A set of natural numbers has a least element.
LEMMA Least ==
  ASSUME NEW T, T \subseteq Nat, T # {}
  PROVE  \E x \in T : \A y \in T : x <= y
<1> DEFINE R == OpToRel(<, Nat)
<1>1. IsWellFoundedOn(R, Nat)
  BY NatLessThanWellFounded
<1>2. \A x, y \in Nat : <<y, x>> \in R <=> y < x
  BY DEF OpToRel
<1> HIDE DEF R
<1>3. PICK x \in T : \A y \in T : ~ (<<y, x>> \in R)
  BY <1>1, WFMin, Zenon
<1>4. ASSUME NEW y \in T PROVE x <= y
  <2>1. x \in Nat /\ y \in Nat
    OBVIOUS
  <2>2. ~(y < x)
    BY <2>1, <1>2, <1>3
  <2> QED
    BY <2>1, <2>2
<1> QED
  BY <1>4

\* If no two neighbours differ, none differs from the first.
LEMMA NeighboursAllEqual ==
  ASSUME NEW n \in Nat, NEW f, \A i \in 1..(n - 1) : f[i] = f[i + 1]
  PROVE  \A i \in 1..n : f[i] = f[1]
<1> DEFINE T == {i \in 1..n : f[i] # f[1]}
<1>1. SUFFICES ASSUME T # {} PROVE FALSE
  OBVIOUS
<1>2. T \subseteq Nat
  OBVIOUS
<1>3. PICK x \in T : \A y \in T : x <= y
  BY <1>1, <1>2, Least
<1>4. x \in 1..n /\ x # 1 /\ f[x] # f[1]
  OBVIOUS
<1>5. x - 1 \in 1..(n - 1) /\ (x - 1) + 1 = x
  BY <1>4
<1>6. f[x - 1] # f[1]
  BY <1>4, <1>5
<1>7. x - 1 \in T
  BY <1>5, <1>6
<1> QED
  BY <1>3, <1>4, <1>7

-----------------------------------------------------------------------------
(* The initial states *)

LEMMA InitIInv == Init => IInv
<1> SUFFICES ASSUME Init PROVE IInv
  OBVIOUS
<1>0. /\ {-Far, 0, Far} \subseteq -Far..Far /\ -1 \in -1..Far /\ 0 \in 0..2 /\ NoDrift \in -Far..NoDrift
      /\ 0 \in 0..MaxTrouble /\ 0 \in 0..0 /\ 0 \in 0..1
      /\ 0 \in -MaxSlew..MaxSlew /\ 0 \in 0..FilterSize /\ 1 \in 1..FilterSize
  BY DEF NoDrift
<1>1. SetTypes /\ DriverTypes /\ PseudoTypes
  BY <1>0 DEF Init, PpsInit, SetTypes, DriverTypes, PseudoTypes, NoTime
<1>2. WorldTypes /\ TimeTypes
  BY <1>0 DEF Init, WorldTypes, TimeTypes
<1>3. ThreadTypes
  BY <1>0 DEF Init, ThreadTypes
<1>4. MachineTypes
  BY <1>0 DEF Init, MachineTypes, Phases
<1>5. OnceInv /\ TimerInv /\ FlagInv /\ SentenceInv
  BY DEF Init, PpsInit, OnceInv, TimerInv, FlagInv, SentenceInv
<1>6. PulseInv /\ CountInv
  BY DEF Init, PulseInv, CountInv, Pulsed
<1> QED
  BY <1>1, <1>2, <1>3, <1>4, <1>5, <1>6 DEF IInv, Types

-----------------------------------------------------------------------------
(* Steps that disturb little *)

\* What remains to be shown of a step that leaves no measurement going on.
LEMMA NotPulsedIInv ==
  ASSUME Types', OnceInv', TimerInv', FlagInv', SentenceInv', ~Pulsed',
         (ringCnt < FilterSize => ringIdx = ringCnt + 1)'
  PROVE  IInv'
<1>1. PulseInv' /\ CountInv'
  BY DEF PulseInv, CountInv, Pulsed
<1> QED
  BY <1>1 DEF IInv

LEMMA WrongFinite == Types => IsFiniteSet(Wrong) /\ Cardinality(Wrong) \in Nat
<1> SUFFICES ASSUME Types PROVE IsFiniteSet(Wrong) /\ Cardinality(Wrong) \in Nat
  OBVIOUS
<1>1. ringCnt \in Int
  BY DEF Types, MachineTypes
<1>2. IsFiniteSet(1..ringCnt)
  BY <1>1, FS_Interval
<1>3. Wrong \in SUBSET (1..ringCnt)
  BY DEF Wrong
<1>4. IsFiniteSet(Wrong)
  BY <1>2, <1>3, FS_Subset
<1> QED
  BY <1>4, FS_CardinalityType

\* The wrong readings are what they were as long as the clock is what it was.
LEMMA SameCount ==
  ASSUME IInv, ring' = ring, ringCnt' = ringCnt, ringIdx' = ringIdx, moved' = moved, phase' = phase,
         phase = "MEASURE_ERROR" => off' = off,
         measure' = measure, error' = error, pc' # "ended" => pc # "ended",
         \/ upset' = upset /\ (pc' # "ended" /\ Pulsed' /\ Astray' => Pulsed /\ Astray)
         \/ upset' = upset + 1
  PROVE  CountInv'
<1>1. phase = "MEASURE_ERROR" => Wrong' = Wrong
  BY DEF Wrong
<1>2. phase = "MEASURE_ERROR" => Cardinality(Wrong)' = Cardinality(Wrong)
  BY <1>1, Zenon
<1>3. Cardinality(Wrong) \in Nat
  BY WrongFinite DEF IInv
<1>4. upset \in Nat
  BY DEF IInv, Types, WorldTypes
<1>5. CountInv
  BY DEF IInv
<1> QED
  BY <1>2, <1>3, <1>4, <1>5 DEF CountInv, Pulsed

-----------------------------------------------------------------------------
(* Time *)

\* A pulse: what it does to the driver.
LEMMA PulseTypes ==
  ASSUME IInv, PpsIsr
  PROVE  /\ SetTypes' /\ DriverTypes' /\ PseudoTypes' /\ TimerInv'
         /\ setTime' = NoTime /\ lastPps' = off' /\ (setTime = NoTime => off' = off /\ steps' = steps)
         /\ steps' <= 1
<1>1. off \in Int /\ setTime \in -1..Far /\ steps \in 0..2 /\ (setTime # NoTime => steps = 0) /\ steps <= 1
  BY DEF IInv, Types, SetTypes, OnceInv
<1>2. off' = IF setTime = NoTime THEN off ELSE -setTime
  BY <1>1 DEF PpsIsr, ForceSysTime, Step, NoTime
<1>3. off' \in -Far..Far
  BY <1>1, <1>2 DEF NoTime, IInv, Types, SetTypes
<1>4. setTime' = NoTime /\ lastPps' = off' /\ drv # "closed" /\ drv' = drv
  BY DEF PpsIsr, ForceSysTime
<1>5. SetTypes' /\ steps' <= 1 /\ (setTime = NoTime => steps' = steps)
  <2>1. stale' \in BOOLEAN
    <3>1. stale' = (stale \/ setTime > 1)
      BY Zenon DEF PpsIsr, ForceSysTime
    <3> QED
      BY <3>1, Zenon
  <2>2. steps' = IF setTime = NoTime \/ steps = 2 THEN steps ELSE steps + 1
    BY DEF PpsIsr, ForceSysTime
  <2>3. steps' \in 0..2 /\ steps' <= 1 /\ (setTime = NoTime => steps' = steps)
    BY <1>1, <2>2
  <2>4. setTime' \in -1..Far
    BY <1>4 DEF NoTime
  <2> QED
    BY <1>3, <2>1, <2>3, <2>4 DEF SetTypes
<1>6. TimerInv' /\ PseudoTypes'
  <2>1. raced' \in BOOLEAN
    <3>1. raced' = (raced \/ (pstart /\ drv = "stopped"))
      BY Zenon DEF PpsIsr, StartPseudoPps
    <3> QED
      BY <3>1, Zenon
  <2>2. pstart' = FALSE /\ timer' = IF pstart THEN "falling" ELSE timer
    BY DEF PpsIsr, StartPseudoPps
  <2>3. PseudoTypes'
    BY <2>1, <2>2 DEF PseudoTypes, IInv, Types
  <2>4. TimerInv'
    BY <1>4 DEF PpsIsr, StartPseudoPps, TimerInv, DriverTypes, IInv, Types
  <2> QED
    BY <2>3, <2>4
<1>7. skew' \in -Far..Far /\ measuring' \in {"no", "yes"} /\ measured' \in -Far..NoDrift
  <2>1. Step \in Int
    BY <1>1 DEF Step, NoTime
  <2>2. Clamp(skew + Step) \in -Far..Far
    BY <2>1, ClampType DEF IInv, Types, DriverTypes
  <2>3. 0 \in -Far..Far /\ \A n \in -Far..Far : n \in -Far..NoDrift
    BY DEF NoDrift
  <2> QED
    BY <2>2, <2>3 DEF PpsIsr, HandleDriftMeasurement, measureVars, IInv, Types, DriverTypes
<1> QED
  BY <1>1, <1>2, <1>3, <1>4, <1>5, <1>6, <1>7 DEF DriverTypes, IInv, Types

LEMMA SecondBeginsIInv == IInv /\ SecondBegins => IInv'
<1> SUFFICES ASSUME IInv, SecondBegins PROVE IInv'
  OBVIOUS
<1>0. /\ pc = "ended" \/ (pc = "serial" /\ sub = "B")
      /\ sub' = "A" /\ passed' = FALSE
      /\ senAge' = IF sen = "none" THEN 0 ELSE 1
      /\ UNCHANGED <<power, fix, recv, sen, pc, powerOn, serial, haveFix, errorVars, setterVars,
                     phase, sysSet, filterVars, lost, driftCnt, compVars, pseudo>>
      /\ PpsIsr /\ power
  BY DEF SecondBegins, NextSecond
<1>1. /\ SetTypes' /\ DriverTypes' /\ PseudoTypes' /\ TimerInv'
      /\ setTime' = NoTime /\ lastPps' = off' /\ (setTime = NoTime => off' = off /\ steps' = steps)
      /\ steps' <= 1
  BY <1>0, PulseTypes
<1>2. \/ (passed \/ pc = "ended") /\ trouble' = trouble /\ upset' = upset
      \/ ~passed /\ trouble < MaxTrouble /\ trouble' = trouble + 1 /\ upset' = upset + 1
  BY DEF SecondBegins, OnTime, TooLate, Trouble
<1>3. Types'
  <2>1. trouble' \in 0..MaxTrouble /\ upset' \in 0..trouble'
    BY <1>2 DEF IInv, Types, WorldTypes
  <2>2. WorldTypes'
    BY <1>0, <2>1 DEF IInv, Types, WorldTypes
  <2>3. TimeTypes'
    <3>1. senAge' \in 0..1
      BY <1>0
    <3> QED
      BY <1>0, <3>1 DEF IInv, Types, TimeTypes
  <2>4. ThreadTypes' /\ MachineTypes'
    BY <1>0 DEF IInv, Types, ThreadTypes, MachineTypes, errorVars, setterVars, filterVars, compVars
  <2> QED
    BY <1>1, <2>2, <2>3, <2>4 DEF Types
<1>4. OnceInv' /\ FlagInv' /\ SentenceInv'
  <2>1. OnceInv'
    BY <1>0, <1>1 DEF IInv, OnceInv, setterVars
  <2>2. FlagInv' /\ SentenceInv'
    BY <1>0 DEF IInv, FlagInv, SentenceInv, setterVars
  <2> QED
    BY <2>1, <2>2
<1>5. PulseInv'
  BY <1>1 DEF PulseInv
<1>6. phase = "MEASURE_ERROR" /\ pc # "ended" => off' = off
  BY <1>1 DEF IInv, PulseInv, Pulsed
<1>7. CountInv'
  <2>1. CASE pc = "ended"
    BY <1>0, <2>1 DEF CountInv, IInv, filterVars
  <2>2. CASE pc # "ended" /\ passed
    <3>1. ~Astray'
      BY <1>0, <1>1, <2>2 DEF Astray, IInv, SentenceInv
    <3> QED
      BY <1>0, <1>2, <1>6, <2>2, <3>1, SameCount DEF errorVars, filterVars, IInv, Types, WorldTypes
  <2>3. CASE pc # "ended" /\ ~passed
    BY <1>0, <1>2, <1>6, <2>3, SameCount DEF errorVars, filterVars
  <2> QED
    BY <2>1, <2>2, <2>3
<1> QED
  BY <1>1, <1>3, <1>4, <1>5, <1>7 DEF IInv

LEMMA SecondWithoutPulseIInv == IInv /\ SecondWithoutPulse => IInv'
<1> SUFFICES ASSUME IInv, SecondWithoutPulse PROVE IInv'
  OBVIOUS
<1>0. /\ pc = "ended" \/ (pc = "serial" /\ sub = "B")
      /\ sub' = "A" /\ passed' = FALSE
      /\ senAge' = IF sen = "none" THEN 0 ELSE 1
      /\ UNCHANGED <<power, fix, recv, sen, pc, powerOn, serial, haveFix, errorVars, setterVars,
                     phase, sysSet, filterVars, lost, driftCnt, compVars, pseudo>>
      /\ UNCHANGED <<off, steps, stale, drv, measuring, measured, pseudoVars>>
      /\ NoPulse
  BY DEF SecondWithoutPulse, NextSecond, NoPulse
<1>1. \/ ~power /\ (passed \/ pc = "ended") /\ trouble' = trouble /\ upset' = upset
      \/ power /\ passed /\ trouble < MaxTrouble /\ trouble' = trouble + 1 /\ upset' = upset + 1
  BY DEF SecondWithoutPulse, OnTime, Trouble
<1>2. Types'
  <2>1. trouble' \in 0..MaxTrouble /\ upset' \in 0..trouble'
    BY <1>1 DEF IInv, Types, WorldTypes
  <2>2. WorldTypes'
    BY <1>0, <2>1 DEF IInv, Types, WorldTypes
  <2>3. TimeTypes'
    <3>1. senAge' \in 0..1
      BY <1>0
    <3> QED
      BY <1>0, <3>1 DEF IInv, Types, TimeTypes
  <2>4. ThreadTypes' /\ MachineTypes'
    BY <1>0 DEF IInv, Types, ThreadTypes, MachineTypes, errorVars, setterVars, filterVars, compVars
  <2>5. SetTypes'
    <3>1. setTime' = IF setTime \in {NoTime, Far} THEN setTime ELSE setTime + 1
      BY DEF SecondWithoutPulse, NoPulse
    <3>2. setTime' \in -1..Far
      BY <3>1 DEF IInv, Types, SetTypes, NoTime
    <3> QED
      BY <1>0, <3>2 DEF IInv, Types, SetTypes
  <2>6. DriverTypes'
    <3>1. lastPps' \in -Far..Far
      BY ClampType DEF SecondWithoutPulse, NoPulse, IInv, Types, DriverTypes
    <3>2. skew' = (IF measuring = "yes" THEN Clamp(skew + 1) ELSE skew)
      BY DEF SecondWithoutPulse, NoPulse
    <3>3. skew' \in -Far..Far
      BY <3>2, ClampType DEF IInv, Types, DriverTypes
    <3> QED
      BY <1>0, <3>1, <3>3 DEF IInv, Types, DriverTypes
  <2>7. PseudoTypes'
    BY <1>0 DEF IInv, Types, PseudoTypes, pseudoVars
  <2> QED
    BY <2>2, <2>3, <2>4, <2>5, <2>6, <2>7 DEF Types
<1>3. setTime' = NoTime <=> setTime = NoTime
  <2>1. setTime' = IF setTime \in {NoTime, Far} THEN setTime ELSE setTime + 1
    BY DEF SecondWithoutPulse, NoPulse
  <2> QED
    BY <2>1 DEF IInv, Types, SetTypes, NoTime
<1>4. OnceInv' /\ TimerInv'
  BY <1>0, <1>3 DEF IInv, OnceInv, TimerInv, setterVars, pseudoVars
<1>5. FlagInv' /\ SentenceInv'
  BY <1>0 DEF IInv, FlagInv, SentenceInv, setterVars
<1>6. PulseInv'
  <2>1. pc # "ended" => senAge' = 0
    BY <1>0, <1>1 DEF IInv, SentenceInv
  <2> QED
    BY <1>0, <1>3, <2>1 DEF IInv, PulseInv, Pulsed
<1>7. CountInv'
  <2>1. CASE pc = "ended"
    BY <1>0, <2>1 DEF CountInv, IInv, filterVars
  <2>2. CASE pc # "ended" /\ ~power
    <3>1. ~Astray'
      BY <1>0, <1>1, <2>2 DEF Astray, IInv, SentenceInv
    <3> QED
      BY <1>0, <1>1, <2>2, <3>1, SameCount DEF errorVars, filterVars
  <2>3. CASE pc # "ended" /\ power
    BY <1>0, <1>1, <2>3, SameCount DEF errorVars, filterVars
  <2> QED
    BY <2>1, <2>2, <2>3
<1> QED
  BY <1>2, <1>4, <1>5, <1>6, <1>7 DEF IInv

-----------------------------------------------------------------------------
(* The receiver *)

\* Nothing but what the receiver sends changes, and no reading goes astray by it.
LEMMA ReceiverIInv ==
  ASSUME IInv,
         UNCHANGED <<ppsVars, upset, senAge, pc, powerVars, fixVars, errorVars, setterVars, machineVars>>,
         pc = "serial", WorldTypes', sub' \in {"A", "B"}, passed' \in BOOLEAN, sen' \in {"none", "A", "V", "other"},
         SentenceInv', Astray' => Astray
  PROVE  IInv'
<1>1. SetTypes' /\ DriverTypes' /\ PseudoTypes'
  BY DEF IInv, Types, SetTypes, DriverTypes, PseudoTypes, ppsVars, setVars, measureVars, pseudoVars
<1>2. TimeTypes' /\ ThreadTypes'
  BY DEF IInv, Types, TimeTypes, ThreadTypes, powerVars, fixVars, errorVars, setterVars
<1>3. MachineTypes'
  BY DEF IInv, Types, MachineTypes, machineVars, filterVars, compVars
<1>4. OnceInv' /\ TimerInv'
  BY DEF IInv, OnceInv, TimerInv, ppsVars, setVars, pseudoVars, setterVars, machineVars
<1>5. FlagInv'
  BY DEF IInv, FlagInv, setterVars, machineVars, fixVars
<1>6. PulseInv'
  BY DEF IInv, PulseInv, Pulsed, ppsVars, setVars, measureVars, machineVars
<1>7. CountInv'
  <2>1. Pulsed' <=> Pulsed
    BY DEF Pulsed, ppsVars, measureVars, machineVars
  <2> QED
    BY <2>1, SameCount DEF ppsVars, setVars, errorVars, machineVars, filterVars
<1> QED
  BY <1>1, <1>2, <1>3, <1>4, <1>5, <1>6, <1>7 DEF IInv, Types

LEMMA PowerAndFixIInv == IInv /\ (PowerOff \/ PowerOn \/ FixLost \/ FixFound) => IInv'
<1> SUFFICES ASSUME IInv, PowerOff \/ PowerOn \/ FixLost \/ FixFound PROVE IInv'
  OBVIOUS
<1>1. UNCHANGED <<ppsVars, upset, timeVars, pc, powerVars, fixVars, errorVars, setterVars, machineVars>> /\ pc = "serial"
  BY DEF PowerOff, PowerOn, FixLost, FixFound, Receiver
<1>2. trouble' \in 0..MaxTrouble /\ upset' \in 0..trouble'
  BY <1>1 DEF IInv, Types, WorldTypes, PowerOff, PowerOn, FixLost, FixFound, Trouble
<1>3. power' \in BOOLEAN /\ fix' \in BOOLEAN /\ recv' \in {"cold", "on", "off", "answer"}
  BY DEF IInv, Types, WorldTypes, PowerOff, PowerOn, FixLost, FixFound
<1>4. SentenceInv'
  BY <1>1 DEF IInv, SentenceInv, timeVars, PowerOff, PowerOn, FixLost, FixFound
<1>5. Astray' => Astray
  BY <1>1 DEF Astray, ppsVars, setVars, timeVars, PowerOff, PowerOn, FixLost, FixFound
<1> QED
  BY <1>1, <1>2, <1>3, <1>4, <1>5, ReceiverIInv DEF WorldTypes, timeVars, IInv, Types, TimeTypes

LEMMA SentenceIInv == IInv /\ Sentence => IInv'
<1> SUFFICES ASSUME IInv, Sentence PROVE IInv'
  OBVIOUS
<1>1. /\ UNCHANGED <<ppsVars, power, fix, trouble, upset, senAge, pc, powerVars, fixVars, errorVars, setterVars, machineVars>>
      /\ pc = "serial" /\ sub = "A" /\ passed /\ sub' = "B" /\ passed' = FALSE
  BY DEF Sentence
<1>2. sen = "none" /\ senAge = 0
  BY <1>1 DEF IInv, SentenceInv
<1>3. sen' \in {"none", "A", "V", "other"} /\ (sen' = "A" => power /\ fix)
  <2>1. sen' = IF ~power \/ recv = "off" THEN sen
               ELSE IF recv = "answer" THEN "other"
               ELSE IF fix THEN "A" ELSE "V"
    BY DEF Sentence
  <2> QED
    BY <1>2, <2>1
<1>4. recv' \in {"on", "off"} \/ (recv' = recv /\ recv # "cold")
  <2>1. recv' = IF recv = "answer" THEN "off" ELSE IF recv = "cold" THEN "on" ELSE recv
    BY DEF Sentence
  <2> QED
    BY <2>1
<1>5. WorldTypes'
  BY <1>1, <1>4 DEF IInv, Types, WorldTypes
<1>6. SentenceInv'
  BY <1>1, <1>2, <1>4 DEF IInv, SentenceInv
<1>7. Astray' => Astray
  BY <1>1, <1>2, <1>3 DEF Astray, ppsVars, setVars, IInv, SentenceInv, Types, SetTypes, DriverTypes
<1> QED
  BY <1>1, <1>3, <1>5, <1>6, <1>7, ReceiverIInv

\* What a period does to the clock it does to the time of the last pulse, too.
LEMMA PeriodWithoutSyncIInv == IInv /\ PeriodWithoutSync => IInv'
<1> SUFFICES ASSUME IInv, PeriodWithoutSync PROVE IInv'
  OBVIOUS
<1>1. /\ UNCHANGED <<setTime, steps, stale, drv, measureVars, pseudoVars, worldVars, timeVars, pc,
                     powerVars, fixVars, errorVars, setterVars, phase, sysSet, ring, ringIdx, ringCnt,
                     lost, driftCnt, compVars, pseudo>>
      /\ moved' = TRUE /\ pc = "serial" /\ passed
  BY DEF PeriodWithoutSync
<1>2. /\ off' = Clamp(off + comp)
      /\ lastPps' = IF power THEN Clamp(lastPps + comp) ELSE -Far
  BY DEF PeriodWithoutSync
<1>3. SetTypes' /\ DriverTypes'
  <2>1. off \in Int /\ lastPps \in Int /\ comp \in Int
    BY DEF IInv, Types, SetTypes, DriverTypes, MachineTypes
  <2>2. Clamp(off + comp) \in -Far..Far /\ Clamp(lastPps + comp) \in -Far..Far /\ -Far \in -Far..Far
    BY <2>1, ClampType
  <2> QED
    BY <1>1, <1>2, <2>2 DEF IInv, Types, SetTypes, DriverTypes, measureVars
<1>4. PseudoTypes' /\ WorldTypes'
  BY <1>1 DEF IInv, Types, PseudoTypes, WorldTypes, pseudoVars, worldVars
<1>5. TimeTypes' /\ ThreadTypes'
  BY <1>1 DEF IInv, Types, TimeTypes, ThreadTypes, timeVars, powerVars, fixVars, errorVars, setterVars
<1>6. MachineTypes'
  BY <1>1 DEF IInv, Types, MachineTypes, compVars
<1>7. OnceInv' /\ TimerInv'
  BY <1>1 DEF IInv, OnceInv, TimerInv, pseudoVars, setterVars
<1>8. FlagInv' /\ SentenceInv'
  BY <1>1 DEF IInv, FlagInv, SentenceInv, setterVars, fixVars, timeVars, worldVars
<1>9. Pulsed' <=> Pulsed
  BY <1>1 DEF Pulsed, measureVars
<1>10. sen = "none" /\ senAge = 0
  BY <1>1 DEF IInv, SentenceInv
<1>11. PulseInv'
  BY <1>1, <1>9, <1>10 DEF IInv, PulseInv, timeVars
<1>12. CountInv'
  <2>1. Astray' => Astray
    BY <1>1, <1>2, <1>10 DEF Astray, worldVars, timeVars
  <2> QED
    BY <1>1, <1>9, <2>1 DEF IInv, CountInv, worldVars
<1> QED
  BY <1>3, <1>4, <1>5, <1>6, <1>7, <1>8, <1>11, <1>12 DEF IInv, Types

-----------------------------------------------------------------------------
(* A pass of the thread *)

\* A pass that reads nothing right.
LEMMA ReadIInv ==
  ASSUME IInv, NothingToRead \/ OtherSentence \/ SentenceWithoutFix
  PROVE  IInv'
<1>1. /\ UNCHANGED <<ppsVars, worldVars, sub, passed, powerOn, powRem, machineVars, errorVars, setterVars>>
      /\ pc = "serial" /\ pc' = "monitor" /\ sen' = "none"
      /\ serial' \in BOOLEAN /\ haveFix' \in BOOLEAN /\ (haveFix' => haveFix)
  <2>1. CASE NothingToRead
    BY <2>1 DEF NothingToRead, PassBegins, powerVars, fixVars, timeVars, IInv, Types, ThreadTypes
  <2>2. CASE OtherSentence
    BY <2>2 DEF OtherSentence, PassBegins, ReadSerial, fixVars, IInv, Types, ThreadTypes
  <2>3. CASE SentenceWithoutFix
    BY <2>3 DEF SentenceWithoutFix, PassBegins, ReadSerial
  <2> QED
    BY <2>1, <2>2, <2>3
<1>2. senAge' = 0
  BY DEF NothingToRead, OtherSentence, SentenceWithoutFix, ReadSerial, timeVars, IInv, SentenceInv
<1>3. SetTypes' /\ DriverTypes' /\ PseudoTypes' /\ WorldTypes'
  BY <1>1 DEF IInv, Types, SetTypes, DriverTypes, PseudoTypes, WorldTypes, ppsVars, setVars, measureVars, pseudoVars, worldVars
<1>4. TimeTypes' /\ ThreadTypes'
  BY <1>1, <1>2 DEF IInv, Types, TimeTypes, ThreadTypes, errorVars, setterVars
<1>5. MachineTypes'
  BY <1>1 DEF IInv, Types, MachineTypes, machineVars, filterVars, compVars
<1>6. OnceInv' /\ TimerInv'
  BY <1>1 DEF IInv, OnceInv, TimerInv, ppsVars, setVars, pseudoVars, setterVars, machineVars
<1>7. FlagInv' /\ SentenceInv'
  BY <1>1, <1>2 DEF IInv, FlagInv, SentenceInv, setterVars, machineVars, worldVars
<1>8. PulseInv'
  BY <1>1, <1>2 DEF IInv, PulseInv, Pulsed, ppsVars, setVars, measureVars, machineVars
<1>9. CountInv'
  <2>1. Pulsed' <=> Pulsed
    BY <1>1 DEF Pulsed, ppsVars, measureVars, machineVars
  <2>2. Astray' => Astray
    BY <1>1, <1>2 DEF Astray, ppsVars, setVars, worldVars
  <2> QED
    BY <1>1, <2>1, <2>2, SameCount DEF ppsVars, setVars, errorVars, machineVars, filterVars, worldVars
<1> QED
  BY <1>3, <1>4, <1>5, <1>6, <1>7, <1>8, <1>9 DEF IInv, Types

\* A reading is taken, and the clock set if that was asked for.
LEMMA ReadFixIInv == IInv /\ SentenceWithFix => IInv'
<1> SUFFICES ASSUME IInv, SentenceWithFix PROVE IInv'
  OBVIOUS
<1>1. /\ UNCHANGED <<worldVars, sub, passed, powerOn, powRem, machineVars, drv, lastPps, measureVars, pseudoVars,
                     off, steps, stale>>
      /\ pc = "serial" /\ pc' = "monitor" /\ sen = "A" /\ sen' = "none" /\ senAge' = 0 /\ serial' = TRUE
      /\ haveFix' = TRUE /\ measure' = FALSE
  BY DEF SentenceWithFix, PassBegins, ReadSerial, SetSysTime, IocSetTime, MeasureError, setVars
<1>2. \/ ~setFlag /\ UNCHANGED <<setTime, setFlag, isSet>>
      \/ setFlag /\ setTime' = senAge /\ setFlag' = FALSE /\ isSet' = TRUE
  BY DEF SentenceWithFix, SetSysTime, IocSetTime, setVars, setterVars
<1>3. error' = IF measure THEN Clamp(lastPps + senAge) ELSE error
  BY DEF SentenceWithFix, MeasureError
<1>4. Types'
  <2>1. SetTypes'
    <3>1. senAge \in -1..Far
      BY DEF IInv, Types, TimeTypes
    <3> QED
      BY <1>1, <1>2, <3>1 DEF IInv, Types, SetTypes
  <2>2. DriverTypes' /\ PseudoTypes' /\ WorldTypes'
    BY <1>1 DEF IInv, Types, DriverTypes, PseudoTypes, WorldTypes, measureVars, pseudoVars, worldVars
  <2>3. TimeTypes'
    BY <1>1 DEF IInv, Types, TimeTypes
  <2>4. error' \in -Far..Far
    <3>1. lastPps + senAge \in Int
      BY DEF IInv, Types, TimeTypes, DriverTypes
    <3> QED
      BY <1>3, <3>1, ClampType DEF IInv, Types, ThreadTypes
  <2>5. ThreadTypes'
    BY <1>1, <1>2, <2>4 DEF IInv, Types, ThreadTypes
  <2>6. MachineTypes'
    BY <1>1 DEF IInv, Types, MachineTypes, machineVars, filterVars, compVars
  <2> QED
    BY <2>1, <2>2, <2>3, <2>5, <2>6 DEF Types
<1>5. OnceInv' /\ TimerInv'
  BY <1>1, <1>2 DEF IInv, OnceInv, TimerInv, pseudoVars, machineVars
<1>6. FlagInv' /\ SentenceInv'
  BY <1>1, <1>2 DEF IInv, FlagInv, SentenceInv, machineVars, worldVars
<1>7. Pulsed' <=> Pulsed
  BY <1>1 DEF Pulsed, measureVars, machineVars
<1>8. Pulsed => ~setFlag
  BY DEF IInv, FlagInv, Pulsed
<1>9. PulseInv'
  BY <1>1, <1>2, <1>7, <1>8 DEF IInv, PulseInv
<1>10. CountInv'
  <2>1. Pulsed => ~Astray'
    BY <1>1 DEF Astray, IInv, SentenceInv, PulseInv, worldVars
  <2>2. /\ phase' = phase /\ ring' = ring /\ ringCnt' = ringCnt /\ ringIdx' = ringIdx /\ moved' = moved
        /\ upset' = upset /\ off' = off
    BY <1>1 DEF machineVars, filterVars, worldVars
  <2>3. Wrong' = Wrong
    BY <2>2 DEF Wrong
  <2>4. Cardinality(Wrong)' = Cardinality(Wrong)
    BY <2>3, Zenon
  <2>5. phase = "MEASURE_ERROR" /\ error' # off => Astray \/ (~measure /\ error # off)
    <3>1. SUFFICES ASSUME measure, lastPps + senAge = off PROVE error' = off
      BY <1>1, <1>3 DEF Astray
    <3> QED
      BY <1>3, <3>1, ClampKnown DEF IInv, Types, SetTypes
  <2>6. CountInv
    BY DEF IInv
  <2>7. pc # "ended" /\ pc' # "ended" /\ (phase = "MEASURE_ERROR" => Pulsed)
    BY <1>1 DEF Pulsed
  <2> QED
    BY <1>7, <2>1, <2>2, <2>4, <2>5, <2>6, <2>7 DEF CountInv
<1> QED
  BY <1>4, <1>5, <1>6, <1>9, <1>10 DEF IInv

LEMMA MonitorsIInv == IInv /\ Monitors => IInv'
<1> SUFFICES ASSUME IInv, Monitors PROVE IInv'
  OBVIOUS
<1>1. /\ UNCHANGED <<ppsVars, worldVars, timeVars, errorVars, setterVars, machineVars>>
      /\ pc = "monitor" /\ pc' = "machine" /\ serial' = FALSE
  BY DEF Monitors, MonitorPowerStatus
<1>2. haveFix' \in BOOLEAN /\ (haveFix' => haveFix)
  BY Zenon DEF Monitors, MonitorFixStatus
<1>3. powerOn' \in BOOLEAN
  BY Zenon DEF Monitors, MonitorPowerStatus
<1>4. SetTypes' /\ DriverTypes' /\ PseudoTypes' /\ WorldTypes'
  BY <1>1 DEF IInv, Types, SetTypes, DriverTypes, PseudoTypes, WorldTypes, ppsVars, setVars, measureVars, pseudoVars, worldVars
<1>5. TimeTypes' /\ ThreadTypes'
  BY <1>1, <1>2, <1>3 DEF IInv, Types, TimeTypes, ThreadTypes, errorVars, setterVars, timeVars
<1>6. MachineTypes'
  BY <1>1 DEF IInv, Types, MachineTypes, machineVars, filterVars, compVars
<1>7. OnceInv' /\ TimerInv'
  BY <1>1 DEF IInv, OnceInv, TimerInv, ppsVars, setVars, pseudoVars, setterVars, machineVars
<1>8. FlagInv' /\ SentenceInv'
  BY <1>1, <1>2 DEF IInv, FlagInv, SentenceInv, setterVars, machineVars, worldVars, timeVars
<1>9. PulseInv'
  BY <1>1 DEF IInv, PulseInv, Pulsed, ppsVars, setVars, measureVars, machineVars, timeVars
<1>10. CountInv'
  <2>1. (Pulsed' <=> Pulsed) /\ (Astray' <=> Astray)
    BY <1>1 DEF Pulsed, Astray, ppsVars, setVars, measureVars, machineVars, timeVars, worldVars
  <2> QED
    BY <1>1, <2>1, SameCount DEF ppsVars, setVars, errorVars, machineVars, filterVars, worldVars
<1> QED
  BY <1>4, <1>5, <1>6, <1>7, <1>8, <1>9, <1>10 DEF IInv, Types

-----------------------------------------------------------------------------
(* The state machine *)

\* A phase that does not go on with a measurement.
LEMMA PhaseIInv ==
  ASSUME IInv, pc = "machine", pc' = "serial",
         UNCHANGED <<power, fix, trouble, upset, sub, sen, senAge, powerVars, setTime, steps, stale, drv,
                     lastPps, skew, pseudoVars, errorVars, filterVars, pseudo>>,
         passed' \in BOOLEAN, recv' \in {"on", "off", "answer", recv}, phase' \in Phases,
         haveFix' \in BOOLEAN, haveFix' => haveFix, setFlag' \in BOOLEAN, isSet' \in BOOLEAN,
         off' \in -Far..Far, measuring' \in {"no", "start", "yes"}, measured' \in -Far..NoDrift,
         sysSet' \in BOOLEAN, lost' \in BOOLEAN, driftCnt' \in 0..FilterSize,
         asked' \in -Far..Far, comp' \in -MaxSlew..MaxSlew,
         OnceInv', FlagInv', ~Pulsed'
  PROVE  IInv'
<1>1. SetTypes' /\ DriverTypes'
  BY DEF IInv, Types, SetTypes, DriverTypes
<1>2. PseudoTypes' /\ WorldTypes'
  BY DEF IInv, Types, PseudoTypes, WorldTypes, pseudoVars
<1>3. TimeTypes' /\ ThreadTypes'
  BY DEF IInv, Types, TimeTypes, ThreadTypes, powerVars, errorVars
<1>4. MachineTypes'
  BY DEF IInv, Types, MachineTypes, filterVars, compVars
<1>5. TimerInv'
  BY DEF IInv, TimerInv, pseudoVars
<1>6. SentenceInv'
  BY DEF IInv, SentenceInv
<1>7. (ringCnt < FilterSize => ringIdx = ringCnt + 1)'
  BY DEF IInv, CountInv, filterVars
<1> QED
  BY <1>1, <1>2, <1>3, <1>4, <1>5, <1>6, <1>7, NotPulsedIInv DEF Types

\* Phases in which the receiver is waited for; the clock and its setting are left alone.
LEMMA InitPhaseIInv ==
  ASSUME IInv, WithoutPower \/ WaitForPowerOn \/ Init1 \/ Init2 \/ Init3
  PROVE  IInv'
<1>1. /\ pc = "machine" /\ pc' = "serial"
      /\ UNCHANGED <<power, fix, trouble, upset, sub, sen, senAge, powerVars, ppsVars, errorVars, setterVars,
                     sysSet, filterVars, lost, driftCnt, compVars, pseudo>>
      /\ phase' \in {"WAIT_FOR_POWER_ON", "INIT_1", "INIT_2", "INIT_3", "WAIT_FOR_FIRST_FIX"}
  BY DEF WithoutPower, WaitForPowerOn, Init1, Init2, Init3, Goes, Command, worldVars, timeVars
<1>2. passed' \in BOOLEAN
  BY DEF IInv, Types, TimeTypes, WithoutPower, WaitForPowerOn, Init1, Init2, Init3, Goes, timeVars
<1>3. recv' \in {"on", "off", "answer", recv}
  BY DEF WithoutPower, WaitForPowerOn, Init1, Init2, Init3, Command, worldVars
<1>4. haveFix' \in BOOLEAN /\ (haveFix' => haveFix)
  <2>1. haveFix' = haveFix \/ haveFix' = FALSE
    BY DEF WithoutPower, WaitForPowerOn, Init1, Init2, Init3, fixVars
  <2>2. haveFix \in BOOLEAN
    BY DEF IInv, Types, ThreadTypes
  <2>3. haveFix' \in BOOLEAN
    BY <2>1, <2>2, Zenon
  <2>4. haveFix' => haveFix
    BY <2>1, Zenon
  <2> QED
    BY <2>3, <2>4
<1>5. OnceInv'
  BY <1>1 DEF IInv, OnceInv, ppsVars, setVars, setterVars
<1>6. FlagInv'
  <2>1. setFlag => phase' = "WAIT_FOR_POWER_ON" \/ ~haveFix'
    BY DEF IInv, FlagInv, WithoutPower, WaitForPowerOn, Init1, Init2, Init3, Goes, fixVars
  <2> QED
    BY <1>1, <2>1 DEF IInv, FlagInv, setterVars
<1>7. ~Pulsed'
  BY <1>1 DEF Pulsed
<1>8. /\ setFlag' \in BOOLEAN /\ isSet' \in BOOLEAN /\ off' \in -Far..Far
      /\ measuring' \in {"no", "start", "yes"} /\ measured' \in -Far..NoDrift
  BY <1>1 DEF IInv, Types, ThreadTypes, SetTypes, DriverTypes, setterVars, ppsVars, setVars, measureVars
<1>9. /\ sysSet' \in BOOLEAN /\ lost' \in BOOLEAN /\ driftCnt' \in 0..FilterSize
      /\ asked' \in -Far..Far /\ comp' \in -MaxSlew..MaxSlew
  BY <1>1 DEF IInv, Types, MachineTypes, compVars
<1>10. UNCHANGED <<setTime, steps, stale, drv, lastPps, skew, pseudoVars>> /\ phase' \in Phases
  BY <1>1 DEF ppsVars, setVars, measureVars, Phases
<1> QED
  BY <1>1, <1>2, <1>3, <1>4, <1>5, <1>6, <1>7, <1>8, <1>9, <1>10, PhaseIInv

\* The clock is asked to be set, for the first and last time.
LEMMA ToSetIInv == IInv /\ ToSetSystemTime => IInv'
<1> SUFFICES ASSUME IInv, ToSetSystemTime PROVE IInv'
  OBVIOUS
<1>1. /\ pc = "machine" /\ pc' = "serial" /\ ~sysSet
      /\ UNCHANGED <<power, fix, trouble, upset, timeVars, powerVars, recv, fixVars, errorVars, filterVars,
                     compVars, pseudo, ppsVars, lost, driftCnt>>
      /\ phase' = "SET_SYSTEM_TIME" /\ sysSet' = TRUE /\ isSet' = FALSE /\ setFlag' = TRUE
  BY DEF ToSetSystemTime, Goes, Quiet
<1>2. OnceInv'
  BY <1>1 DEF IInv, OnceInv, ppsVars, setVars
<1>3. FlagInv' /\ ~Pulsed'
  BY <1>1 DEF FlagInv, Pulsed
<1>4. /\ passed' \in BOOLEAN /\ haveFix' \in BOOLEAN /\ haveFix' = haveFix /\ off' \in -Far..Far
      /\ measuring' \in {"no", "start", "yes"} /\ measured' \in -Far..NoDrift
  BY <1>1 DEF IInv, Types, TimeTypes, ThreadTypes, SetTypes, DriverTypes, timeVars, fixVars, ppsVars, setVars, measureVars
<1>5. /\ lost' \in BOOLEAN /\ driftCnt' \in 0..FilterSize
      /\ asked' \in -Far..Far /\ comp' \in -MaxSlew..MaxSlew
  BY <1>1 DEF IInv, Types, MachineTypes, compVars
<1>6. UNCHANGED <<setTime, steps, stale, drv, lastPps, skew, pseudoVars, sub, sen, senAge>> /\ phase' \in Phases
  BY <1>1 DEF ppsVars, setVars, measureVars, timeVars, Phases
<1> QED
  BY <1>1, <1>2, <1>3, <1>4, <1>5, <1>6, PhaseIInv

\* Phases that wait with the clock set or not to be set, and the start of a measurement.
LEMMA SettledIInv ==
  ASSUME IInv, WaitForFirstFix \/ SetSystemTime \/ ToMeasureDrift \/ MeasureDriftAgain \/ WaitForNextSync
  PROVE  IInv'
<1>1. /\ pc = "machine" /\ pc' = "serial"
      /\ UNCHANGED <<power, fix, trouble, upset, timeVars, powerVars, recv, fixVars, errorVars, filterVars,
                     pseudo, setTime, steps, stale, drv, lastPps, skew, pseudoVars, setterVars, sysSet>>
      /\ phase' \in {"SETTLE_1", "SETTLE_2", "MEASURE_DRIFT", "WAIT_FOR_FIRST_FIX"}
  BY DEF WaitForFirstFix, SetSystemTime, ToMeasureDrift, MeasureDriftAgain, WaitForNextSync, Goes, Quiet,
         StartDriftMeas, IocStartDrift, ppsVars, setVars, measureVars
<1>2. ~setFlag
  <2>1. CASE WaitForFirstFix
    BY <2>1 DEF IInv, FlagInv, WaitForFirstFix, Goes
  <2>2. CASE SetSystemTime
    BY <2>2 DEF IInv, FlagInv, SetSystemTime
  <2>3. CASE ToMeasureDrift \/ MeasureDriftAgain \/ WaitForNextSync
    BY <2>3 DEF IInv, FlagInv, ToMeasureDrift, MeasureDriftAgain, WaitForNextSync, Goes
  <2> QED
    BY <2>1, <2>2, <2>3
<1>3. OnceInv' /\ FlagInv'
  BY <1>1, <1>2 DEF IInv, OnceInv, FlagInv, setterVars
<1>4. phase' = "MEASURE_DRIFT" => measuring' = "start" /\ measured' = NoDrift
  BY DEF WaitForFirstFix, SetSystemTime, ToMeasureDrift, MeasureDriftAgain, WaitForNextSync, Goes,
         StartDriftMeas, IocStartDrift
<1>5. ~Pulsed'
  BY <1>1, <1>4 DEF Pulsed
<1>6. off' \in -Far..Far
  <2>1. CASE WaitForNextSync
    <3>1. off \in Int /\ comp \in Int
      BY DEF IInv, Types, SetTypes, MachineTypes
    <3>2. PICK part \in {0} \union 1..(comp - 1) \union (comp + 1)..-1 : off' = Clamp(off + comp + part)
      BY <2>1 DEF WaitForNextSync
    <3>3. off + comp + part \in Int
      BY <3>1, <3>2
    <3> QED
      BY <3>2, <3>3, ClampType
  <2>2. CASE ~WaitForNextSync
    <3>1. off' = off
      BY <2>2 DEF WaitForFirstFix, SetSystemTime, ToMeasureDrift, MeasureDriftAgain, StartDriftMeas, ppsVars, setVars
    <3> QED
      BY <3>1 DEF IInv, Types, SetTypes
  <2> QED
    BY <2>1, <2>2
<1>7. measuring' \in {"no", "start", "yes"} /\ measured' \in -Far..NoDrift
  <2>1. NoDrift \in -Far..NoDrift
    BY DEF NoDrift
  <2>2. (measuring' = "start" /\ measured' = NoDrift) \/ UNCHANGED <<measuring, measured>>
    BY DEF WaitForFirstFix, SetSystemTime, ToMeasureDrift, MeasureDriftAgain, WaitForNextSync,
           StartDriftMeas, IocStartDrift, ppsVars, measureVars
  <2> QED
    BY <2>1, <2>2 DEF IInv, Types, DriverTypes
<1>8. driftCnt' \in 0..FilterSize
  <2>1. driftCnt \in 0..FilterSize /\ FilterSize \in Nat
    BY DEF IInv, Types, MachineTypes
  <2>2. CASE driftCnt' \in {driftCnt, 0}
    BY <2>1, <2>2
  <2>3. CASE driftCnt' \notin {driftCnt, 0}
    <3>1. MeasureDriftAgain /\ driftCnt' = driftCnt + 1 /\ DriftRateValid
      BY <2>3 DEF WaitForFirstFix, SetSystemTime, ToMeasureDrift, MeasureDriftAgain, WaitForNextSync
    <3>2. ~(driftCnt + 1 >= FilterSize)
      BY <3>1 DEF MeasureDriftAgain, PassesDriftFilter
    <3> QED
      BY <2>1, <3>1, <3>2
  <2> QED
    BY <2>2, <2>3
<1>9. lost' \in BOOLEAN /\ asked' \in -Far..Far /\ comp' \in -MaxSlew..MaxSlew
  <2>1. lost' = lost \/ lost' = FALSE
    BY DEF WaitForFirstFix, SetSystemTime, ToMeasureDrift, MeasureDriftAgain, WaitForNextSync, StartDriftMeas
  <2>2. UNCHANGED compVars
    BY DEF WaitForFirstFix, SetSystemTime, ToMeasureDrift, MeasureDriftAgain, WaitForNextSync, Quiet
  <2>3. lost \in BOOLEAN
    BY DEF IInv, Types, MachineTypes
  <2>4. lost' \in BOOLEAN
    BY <2>1, <2>3, Zenon
  <2> QED
    BY SMTT(30), <2>2, <2>4 DEF IInv, Types, MachineTypes, compVars
<1>10. /\ passed' \in BOOLEAN /\ haveFix' \in BOOLEAN /\ haveFix' = haveFix
       /\ setFlag' \in BOOLEAN /\ isSet' \in BOOLEAN /\ sysSet' \in BOOLEAN
  BY <1>1 DEF IInv, Types, TimeTypes, ThreadTypes, MachineTypes, timeVars, fixVars, setterVars
<1>11. UNCHANGED <<sub, sen, senAge>> /\ phase' \in Phases
  BY <1>1 DEF timeVars, Phases
<1> QED
  BY <1>1, <1>3, <1>5, <1>6, <1>7, <1>8, <1>9, <1>10, <1>11, PhaseIInv

\* The error begins to be measured; what may go wrong now has had its trouble.
LEMMA DriftMeasuredIInv == IInv /\ DriftMeasured => IInv'
<1> SUFFICES ASSUME IInv, DriftMeasured PROVE IInv'
  OBVIOUS
<1>1. /\ pc = "machine" /\ pc' = "serial" /\ phase = "MEASURE_DRIFT" /\ phase' = "MEASURE_ERROR"
      /\ UNCHANGED <<worldVars, timeVars, powerVars, setVars, drv, lastPps, skew, measured, pseudoVars, fixVars,
                     error, setterVars, sysSet, ring, compVars, pseudo>>
      /\ measuring' = "no" /\ measure' = TRUE /\ ringIdx' = 1 /\ ringCnt' = 0 /\ moved' = FALSE
      /\ driftCnt' = 0 /\ lost' = FALSE
  BY DEF DriftMeasured, Goes, IocStopDrift, worldVars
<1>2. Pulsed
  BY <1>1 DEF DriftMeasured, PassesDriftFilter, DriftRateValid, Pulsed, NoDrift
<1>3. SetTypes' /\ DriverTypes'
  BY <1>1 DEF IInv, Types, SetTypes, DriverTypes, setVars
<1>4. PseudoTypes' /\ WorldTypes' /\ TimeTypes'
  BY <1>1 DEF IInv, Types, PseudoTypes, WorldTypes, TimeTypes, pseudoVars, worldVars, timeVars
<1>5. ThreadTypes' /\ MachineTypes'
  <2>1. 0 \in 0..FilterSize /\ 1 \in 1..FilterSize
    OBVIOUS
  <2>2. ThreadTypes'
    BY <1>1 DEF IInv, Types, ThreadTypes, powerVars, fixVars, setterVars
  <2>3. MachineTypes'
    BY <1>1, <2>1 DEF IInv, Types, MachineTypes, Phases, compVars
  <2> QED
    BY <2>2, <2>3
<1>6. OnceInv' /\ TimerInv'
  BY <1>1 DEF IInv, OnceInv, TimerInv, setVars, pseudoVars, setterVars
<1>7. FlagInv' /\ SentenceInv'
  BY <1>1 DEF IInv, FlagInv, SentenceInv, setterVars, worldVars, timeVars
<1>8. PulseInv'
  BY <1>1, <1>2 DEF IInv, PulseInv, setVars, timeVars
<1>9. CountInv'
  <2>1. Wrong' = {}
    BY <1>1 DEF Wrong
  <2>2. Cardinality(Wrong)' = 0
    BY <2>1, FS_EmptySet
  <2>3. Astray' => Astray
    BY <1>1 DEF Astray, setVars, worldVars, timeVars
  <2>4. upset \in Nat /\ upset' = upset
    BY <1>1 DEF IInv, Types, WorldTypes, worldVars
  <2>5. CountInv /\ pc # "ended"
    BY <1>1 DEF IInv
  <2> QED
    BY <1>1, <1>2, <2>2, <2>3, <2>4, <2>5 DEF CountInv
<1> QED
  BY <1>3, <1>4, <1>5, <1>6, <1>7, <1>8, <1>9 DEF IInv, Types

\* Nothing to do but to note that the fix was lost.
LEMMA WaitsIInv == IInv /\ (FixLostInDriftMeas \/ Waits) => IInv'
<1> SUFFICES ASSUME IInv, FixLostInDriftMeas \/ Waits PROVE IInv'
  OBVIOUS
<1>1. /\ pc = "machine" /\ pc' = "serial"
      /\ UNCHANGED <<ppsVars, worldVars, sub, sen, senAge, powerVars, fixVars, errorVars, setterVars,
                     phase, sysSet, filterVars, driftCnt, compVars, pseudo>>
  BY DEF FixLostInDriftMeas, Waits, Goes, Quiet, timeVars, worldVars, machineVars
<1>2. passed' \in BOOLEAN /\ lost' \in BOOLEAN
  BY DEF IInv, Types, TimeTypes, MachineTypes, FixLostInDriftMeas, Waits, Goes, timeVars, machineVars
<1>3. SetTypes' /\ DriverTypes' /\ PseudoTypes' /\ WorldTypes'
  BY <1>1 DEF IInv, Types, SetTypes, DriverTypes, PseudoTypes, WorldTypes, ppsVars, setVars, measureVars, pseudoVars, worldVars
<1>4. TimeTypes' /\ ThreadTypes'
  BY <1>1, <1>2 DEF IInv, Types, TimeTypes, ThreadTypes, errorVars, setterVars, powerVars, fixVars
<1>5. MachineTypes'
  BY <1>1, <1>2 DEF IInv, Types, MachineTypes, filterVars, compVars
<1>6. OnceInv' /\ TimerInv'
  BY <1>1 DEF IInv, OnceInv, TimerInv, ppsVars, setVars, pseudoVars, setterVars
<1>7. FlagInv' /\ SentenceInv'
  BY <1>1 DEF IInv, FlagInv, SentenceInv, setterVars, worldVars, fixVars
<1>8. (Pulsed' <=> Pulsed) /\ (Astray' <=> Astray)
  BY <1>1 DEF Pulsed, Astray, ppsVars, setVars, measureVars, worldVars
<1>9. PulseInv'
  BY <1>1, <1>8 DEF IInv, PulseInv, ppsVars, setVars
<1>10. CountInv'
  BY <1>1, <1>8, SameCount DEF ppsVars, setVars, errorVars, filterVars, worldVars
<1> QED
  BY <1>3, <1>4, <1>5, <1>6, <1>7, <1>9, <1>10 DEF IInv, Types

\* A reading goes into the filter in place of the oldest.
LEMMA PushIInv ==
  ASSUME IInv, PushError
  PROVE  /\ ring' \in [1..FilterSize -> -Far..Far] /\ ringIdx' \in 1..FilterSize /\ ringCnt' \in 0..FilterSize
         /\ (ringCnt < FilterSize => ringIdx = ringCnt + 1)' /\ moved' = moved
<1>1. /\ ring' = [ring EXCEPT ![ringIdx] = error] /\ ringIdx' = (ringIdx % FilterSize) + 1
      /\ moved' = moved
  BY DEF PushError, Pushed
<1>2. ringCnt' = IF ringCnt < FilterSize THEN ringCnt + 1 ELSE ringCnt
  BY DEF PushError
<1>3. /\ ring \in [1..FilterSize -> -Far..Far] /\ ringIdx \in 1..FilterSize /\ ringCnt \in 0..FilterSize
      /\ error \in -Far..Far /\ (ringCnt < FilterSize => ringIdx = ringCnt + 1)
  BY DEF IInv, Types, MachineTypes, ThreadTypes, CountInv
<1>4. ring' \in [1..FilterSize -> -Far..Far]
  BY <1>1, <1>3
<1>5. ringIdx' \in 1..FilterSize /\ (ringIdx < FilterSize => ringIdx' = ringIdx + 1)
  BY <1>1, <1>3, NextIndex
<1>6. ringCnt' \in 0..FilterSize /\ (ringCnt' < FilterSize => ringIdx' = ringCnt' + 1)
  BY SMTT(30), <1>2, <1>3, <1>5
<1> QED
  BY <1>1, <1>4, <1>5, <1>6

\* With it, there are at most one more wrong readings.
LEMMA PushWrong ==
  ASSUME IInv, PushError, off' = off
  PROVE  /\ error = off => Cardinality(Wrong)' <= Cardinality(Wrong)
         /\ Cardinality(Wrong)' <= Cardinality(Wrong) + 1
<1>1. ring' = [ring EXCEPT ![ringIdx] = error] /\ ringCnt' \in {ringCnt, ringCnt + 1}
      /\ (ringCnt' = ringCnt + 1 => ringIdx = ringCnt + 1)
  BY DEF PushError, Pushed, IInv, CountInv
<1>2. /\ ring \in [1..FilterSize -> -Far..Far] /\ ringIdx \in 1..FilterSize /\ ringCnt \in 0..FilterSize
      /\ ringCnt' \in 0..FilterSize
  BY PushIInv DEF IInv, Types, MachineTypes
<1>3. Wrong' = {i \in 1..ringCnt' : ring'[i] # off}
  BY DEF Wrong
<1>4. IsFiniteSet(Wrong) /\ Cardinality(Wrong) \in Nat
  BY WrongFinite DEF IInv
<1>5. \A i \in Wrong' : i = ringIdx \/ i \in Wrong
  <2> SUFFICES ASSUME NEW i \in Wrong', i # ringIdx PROVE i \in Wrong
    OBVIOUS
  <2>1. i \in 1..ringCnt' /\ ring'[i] # off
    BY <1>3
  <2>2. i \in 1..ringCnt
    BY SMTT(30), <1>1, <1>2, <2>1
  <2>3. ring'[i] = ring[i]
    BY <1>1, <1>2, <2>2
  <2> QED
    BY <2>1, <2>2, <2>3 DEF Wrong
<1>6. ASSUME error = off PROVE Cardinality(Wrong)' <= Cardinality(Wrong)
  <2>1. ring'[ringIdx] = off
    BY <1>1, <1>2, <1>6
  <2>2. Wrong' \in SUBSET Wrong
    BY <1>3, <1>5, <2>1
  <2> QED
    BY <1>4, <2>2, FS_Subset
<1>7. Cardinality(Wrong)' <= Cardinality(Wrong) + 1
  <2>1. Wrong' \in SUBSET (Wrong \cup {ringIdx})
    BY <1>5
  <2>2. IsFiniteSet(Wrong \cup {ringIdx}) /\ Cardinality(Wrong \cup {ringIdx}) <= Cardinality(Wrong) + 1
    BY <1>4, FS_AddElement
  <2>3. /\ Cardinality(Wrong)' <= Cardinality(Wrong \cup {ringIdx})
        /\ IsFiniteSet(Wrong')
    BY <2>1, <2>2, FS_Subset
  <2>4. Cardinality(Wrong)' \in Int /\ Cardinality(Wrong \cup {ringIdx}) \in Int
    BY <2>2, <2>3, FS_CardinalityType
  <2> QED
    BY <1>4, <2>2, <2>3, <2>4
<1> QED
  BY <1>6, <1>7

LEMMA MeasureErrorAgainIInv == IInv /\ MeasureErrorAgain => IInv'
<1> SUFFICES ASSUME IInv, MeasureErrorAgain PROVE IInv'
  OBVIOUS
<1>1. /\ pc = "machine" /\ pc' = "serial" /\ phase = "MEASURE_ERROR" /\ phase' = "MEASURE_ERROR"
      /\ UNCHANGED <<ppsVars, worldVars, timeVars, powerVars, fixVars, error, setterVars, sysSet, lost, driftCnt,
                     compVars, pseudo>>
      /\ ~measure /\ measure' = TRUE /\ PushError
  BY DEF MeasureErrorAgain, Goes, worldVars
<1>2. SetTypes' /\ DriverTypes' /\ PseudoTypes' /\ WorldTypes'
  BY <1>1 DEF IInv, Types, SetTypes, DriverTypes, PseudoTypes, WorldTypes, ppsVars, setVars, measureVars, pseudoVars, worldVars
<1>3. TimeTypes' /\ ThreadTypes'
  BY <1>1 DEF IInv, Types, TimeTypes, ThreadTypes, timeVars, powerVars, fixVars, setterVars
<1>4. MachineTypes'
  BY <1>1, PushIInv DEF IInv, Types, MachineTypes, compVars
<1>5. OnceInv' /\ TimerInv'
  BY <1>1 DEF IInv, OnceInv, TimerInv, ppsVars, setVars, pseudoVars, setterVars
<1>6. FlagInv' /\ SentenceInv'
  BY <1>1 DEF IInv, FlagInv, SentenceInv, setterVars, worldVars, timeVars, fixVars
<1>7. Pulsed /\ (Astray' <=> Astray)
  BY <1>1 DEF Pulsed, Astray, ppsVars, setVars, worldVars, timeVars
<1>8. PulseInv'
  BY <1>1, <1>7 DEF IInv, PulseInv, ppsVars, setVars, timeVars
<1>9. CountInv'
  <2>1. off' = off /\ upset' = upset
    BY <1>1 DEF ppsVars, setVars, worldVars
  <2>2. /\ error = off => Cardinality(Wrong)' <= Cardinality(Wrong)
        /\ Cardinality(Wrong)' <= Cardinality(Wrong) + 1
    BY <1>1, <2>1, PushWrong
  <2>3. Cardinality(Wrong) \in Nat /\ Cardinality(Wrong)' \in Nat
    <3>1. Types'
      BY <1>2, <1>3, <1>4 DEF Types
    <3>2. (Types => IsFiniteSet(Wrong) /\ Cardinality(Wrong) \in Nat)'
      BY WrongFinite, PTL
    <3> QED
      BY <3>1, <3>2, WrongFinite DEF IInv
  <2>4. upset \in Nat
    BY DEF IInv, Types, WorldTypes
  <2>5. CountInv /\ pc # "ended"
    BY <1>1 DEF IInv
  <2>6. (ringCnt < FilterSize => ringIdx = ringCnt + 1)' /\ moved' = moved
    BY <1>1, PushIInv
  <2> QED
    BY <1>1, <1>7, <2>1, <2>2, <2>3, <2>4, <2>5, <2>6 DEF CountInv
<1> QED
  BY <1>2, <1>3, <1>4, <1>5, <1>6, <1>8, <1>9 DEF IInv, Types

LEMMA ErrorMeasuredIInv == IInv /\ ErrorMeasured => IInv'
<1> SUFFICES ASSUME IInv, ErrorMeasured PROVE IInv'
  OBVIOUS
<1>1. /\ pc = "machine" /\ pc' = "serial" /\ phase = "MEASURE_ERROR" /\ phase' = "WAIT_FOR_NEXT_SYNC"
      /\ UNCHANGED <<setVars, drv, lastPps, measureVars, timer, raced, worldVars, timeVars, powerVars, fixVars,
                     errorVars, setterVars, sysSet, lost, driftCnt>>
      /\ PushError /\ pseudo' = TRUE /\ asked' = Asked(error) /\ comp' = Taken(asked')
  BY DEF ErrorMeasured, Goes, worldVars, pseudoVars, IocStartPseudoPps
<1>2. pstart' \in BOOLEAN
  BY DEF ErrorMeasured, pseudoVars, IocStartPseudoPps, IInv, Types, PseudoTypes
<1>3. asked' \in -Far..Far /\ comp' \in -MaxSlew..MaxSlew
  <2>1. asked - comp - error \in Int
    BY DEF IInv, Types, ThreadTypes, MachineTypes
  <2>2. asked' \in -Far..Far
    BY <1>1, <2>1, ClampType DEF Asked
  <2>3. comp' = IF asked' \in -MaxSlew..MaxSlew THEN asked' ELSE comp
    BY <1>1 DEF Taken
  <2> QED
    BY SMTT(30), <2>2, <2>3 DEF IInv, Types, MachineTypes
<1>4. SetTypes' /\ DriverTypes' /\ PseudoTypes' /\ WorldTypes'
  BY <1>1, <1>2 DEF IInv, Types, SetTypes, DriverTypes, PseudoTypes, WorldTypes, setVars, measureVars, worldVars
<1>5. TimeTypes' /\ ThreadTypes'
  BY <1>1 DEF IInv, Types, TimeTypes, ThreadTypes, timeVars, powerVars, fixVars, setterVars, errorVars
<1>6. MachineTypes'
  BY <1>1, <1>3, PushIInv DEF IInv, Types, MachineTypes, Phases
<1>7. OnceInv' /\ TimerInv'
  BY <1>1 DEF IInv, OnceInv, TimerInv, setVars, setterVars
<1>8. FlagInv' /\ SentenceInv'
  BY <1>1 DEF IInv, FlagInv, SentenceInv, setterVars, worldVars, timeVars, fixVars
<1>9. ~Pulsed'
  BY <1>1 DEF Pulsed
<1>10. (ringCnt < FilterSize => ringIdx = ringCnt + 1)'
  BY <1>1, PushIInv
<1> QED
  BY <1>4, <1>5, <1>6, <1>7, <1>8, <1>9, <1>10, NotPulsedIInv DEF Types

-----------------------------------------------------------------------------
(* The end, and the next-state relation *)

LEMMA EndIInv == IInv /\ (ThreadEnds \/ DriverCloses \/ TimerFires) => IInv'
<1> SUFFICES ASSUME IInv, ThreadEnds \/ DriverCloses \/ TimerFires PROVE IInv'
  OBVIOUS
<1>1. /\ UNCHANGED <<worldVars, timeVars, powerVars, fixVars, errorVars, setterVars, machineVars,
                     setVars, lastPps, measureVars, pstart, raced>>
      /\ pc' \in {pc, "ended"}
  BY DEF ThreadEnds, DriverCloses, TimerFires, ReleaseStopsPseudoPps, ReleaseUninstalls, PseudoPpsEdge, pseudoVars
<1>2. drv' \in {"open", "stopped", "closed"} /\ timer' \in {"none", "falling", "rising"} /\ TimerInv'
  BY <1>1 DEF IInv, Types, DriverTypes, PseudoTypes, TimerInv, ThreadEnds, DriverCloses, TimerFires,
              ReleaseStopsPseudoPps, ReleaseUninstalls, PseudoPpsEdge, pseudoVars
<1>3. SetTypes' /\ DriverTypes' /\ PseudoTypes' /\ WorldTypes'
  BY <1>1, <1>2 DEF IInv, Types, SetTypes, DriverTypes, PseudoTypes, WorldTypes, setVars, measureVars, worldVars
<1>4. TimeTypes' /\ ThreadTypes'
  BY <1>1 DEF IInv, Types, TimeTypes, ThreadTypes, timeVars, powerVars, fixVars, setterVars, errorVars
<1>5. MachineTypes'
  BY <1>1 DEF IInv, Types, MachineTypes, machineVars, filterVars, compVars
<1>6. OnceInv'
  BY <1>1 DEF IInv, OnceInv, setVars, setterVars, machineVars
<1>7. FlagInv' /\ SentenceInv'
  BY <1>1 DEF IInv, FlagInv, SentenceInv, setterVars, worldVars, timeVars, fixVars, machineVars
<1>8. (Pulsed' <=> Pulsed) /\ (Astray' <=> Astray)
  BY <1>1 DEF Pulsed, Astray, setVars, measureVars, worldVars, timeVars, machineVars
<1>9. PulseInv'
  BY <1>1, <1>8 DEF IInv, PulseInv, setVars, timeVars
<1>10. CountInv'
  BY <1>1, <1>8, SameCount DEF setVars, errorVars, machineVars, filterVars, worldVars
<1> QED
  BY <1>2, <1>3, <1>4, <1>5, <1>6, <1>7, <1>9, <1>10 DEF IInv, Types

LEMMA StutterIInv == IInv /\ UNCHANGED vars => IInv'
<1> SUFFICES ASSUME IInv, UNCHANGED vars PROVE IInv'
  OBVIOUS
<1>1. UNCHANGED <<ppsVars, worldVars, timeVars, pc, powerVars, fixVars, errorVars, setterVars, machineVars>>
  BY DEF vars
<1>2. SetTypes' /\ DriverTypes' /\ PseudoTypes' /\ WorldTypes'
  BY <1>1 DEF IInv, Types, SetTypes, DriverTypes, PseudoTypes, WorldTypes, ppsVars, setVars, measureVars, pseudoVars, worldVars
<1>3. TimeTypes' /\ ThreadTypes'
  BY <1>1 DEF IInv, Types, TimeTypes, ThreadTypes, timeVars, powerVars, fixVars, setterVars, errorVars
<1>4. MachineTypes'
  BY <1>1 DEF IInv, Types, MachineTypes, machineVars, filterVars, compVars
<1>5. OnceInv' /\ TimerInv'
  BY <1>1 DEF IInv, OnceInv, TimerInv, ppsVars, setVars, pseudoVars, setterVars, machineVars
<1>6. FlagInv' /\ SentenceInv'
  BY <1>1 DEF IInv, FlagInv, SentenceInv, setterVars, worldVars, timeVars, fixVars, machineVars
<1>7. (Pulsed' <=> Pulsed) /\ (Astray' <=> Astray)
  BY <1>1 DEF Pulsed, Astray, ppsVars, setVars, measureVars, worldVars, timeVars, machineVars
<1>8. PulseInv'
  BY <1>1, <1>7 DEF IInv, PulseInv, ppsVars, setVars, timeVars
<1>9. CountInv'
  BY <1>1, <1>7, SameCount DEF ppsVars, setVars, errorVars, machineVars, filterVars, worldVars
<1> QED
  BY <1>2, <1>3, <1>4, <1>5, <1>6, <1>8, <1>9 DEF IInv, Types

LEMMA NextIInv == IInv /\ [Next]_vars => IInv'
<1> SUFFICES ASSUME IInv, [Next]_vars PROVE IInv'
  OBVIOUS
<1>1. CASE SecondBegins \/ SecondWithoutPulse \/ Sentence
  BY <1>1, SecondBeginsIInv, SecondWithoutPulseIInv, SentenceIInv
<1>2. CASE PowerOff \/ PowerOn \/ FixLost \/ FixFound \/ PeriodWithoutSync
  BY <1>2, PowerAndFixIInv, PeriodWithoutSyncIInv
<1>3. CASE HandleSerialInput \/ Monitors
  BY <1>3, ReadIInv, ReadFixIInv, MonitorsIInv DEF HandleSerialInput
<1>4. CASE StateMachine
  BY <1>4, InitPhaseIInv, ToSetIInv, SettledIInv, DriftMeasuredIInv, WaitsIInv, MeasureErrorAgainIInv,
     ErrorMeasuredIInv DEF StateMachine, Phase
<1>5. CASE ThreadEnds \/ DriverCloses \/ TimerFires
  BY <1>5, EndIInv
<1>6. CASE UNCHANGED vars
  BY <1>6, StutterIInv
<1> QED
  BY <1>1, <1>2, <1>3, <1>4, <1>5, <1>6 DEF Next, Pass

-----------------------------------------------------------------------------
(* Theorems *)

\* The invariant is inductive: it holds in every reachable state.
THEOREM InvariantHolds == Spec => []IInv
<1>1. IInv /\ [Next]_vars => IInv'
  BY NextIInv
<1> QED
  BY InitIInv, <1>1, PTL DEF Spec

\* Every variable of the thread and of the driver keeps its type; the index of the
\* error filter stays within it (gps_io_thread.c:1526-1566).
THEOREM TypeCorrect == Spec => []TypeOK
<1>1. IInv => TypeOK
  <2> SUFFICES ASSUME IInv PROVE TypeOK
    OBVIOUS
  <2>1. PpsTypeOK
    BY DEF IInv, Types, SetTypes, DriverTypes, PseudoTypes, PpsTypeOK
  <2>2. /\ recv \in {"cold", "on", "off", "answer"} /\ trouble \in 0..MaxTrouble /\ upset \in 0..trouble
        /\ power \in BOOLEAN /\ fix \in BOOLEAN
    BY DEF IInv, Types, WorldTypes
  <2>3. /\ sub \in {"A", "B"} /\ sen \in {"none", "A", "V", "other"} /\ senAge \in 0..1
        /\ pc \in {"serial", "monitor", "machine", "ended"} /\ passed \in BOOLEAN
    BY DEF IInv, Types, TimeTypes
  <2>4. /\ powerOn \in BOOLEAN /\ serial \in BOOLEAN /\ haveFix \in BOOLEAN /\ measure \in BOOLEAN
        /\ setFlag \in BOOLEAN /\ isSet \in BOOLEAN /\ error \in -Far..Far
    BY DEF IInv, Types, ThreadTypes
  <2>5. MachineTypes
    BY DEF IInv, Types
  <2> QED
    BY <2>1, <2>2, <2>3, <2>4, <2>5 DEF TypeOK, MachineTypes, Phases
<1> QED
  BY InvariantHolds, <1>1, PTL

\* The clock is stepped at most once, whatever is lost on the way
\* (gps_io_thread.c:332-346, 935-957, gps_pps.c:233-236).
THEOREM ClockSteppedOnce == Spec => []SteppedOnce
<1>1. IInv => SteppedOnce
  BY DEF IInv, OnceInv, SteppedOnce
<1> QED
  BY InvariantHolds, <1>1, PTL

\* A timer of P-PPS is left pending by drvr_release only if a pulse has started it
\* between its two halves (gps_pps.c:163-172, 245-250).
THEOREM TimerLeftByRaceOnly == Spec => []NoTimerLeft
<1>1. IInv => NoTimerLeft
  BY DEF IInv, TimerInv, NoTimerLeft
<1> QED
  BY InvariantHolds, <1>1, PTL

\* If a filter of equal readings is wrong, as many troubles have happened.
LEMMA WrongFilterHasTroubles ==
  ASSUME IInv, ErrorMeasured, error # off, ~moved
  PROVE  FilterSize <= upset
<1>1. /\ ring \in [1..FilterSize -> -Far..Far] /\ ringIdx \in 1..FilterSize /\ ringCnt \in 0..FilterSize
      /\ (ringCnt < FilterSize => ringIdx = ringCnt + 1)
      /\ ringCnt + 1 >= FilterSize /\ Pushed = [ring EXCEPT ![ringIdx] = error]
  BY DEF IInv, Types, MachineTypes, CountInv, ErrorMeasured, PassesErrorFilter, Pushed
<1>2. \A i \in 1..FilterSize : Pushed[i] = Pushed[1]
  <2>1. \A i \in 1..(FilterSize - 1) : Pushed[i] = Pushed[i + 1]
    BY DEF ErrorMeasured, PassesErrorFilter
  <2> QED
    BY <2>1, NeighboursAllEqual
<1>3. \A i \in 1..FilterSize : Pushed[i] = error
  <2>1. Pushed[ringIdx] = error
    BY <1>1
  <2> QED
    BY <1>1, <1>2, <2>1
<1>4. 1..FilterSize \in SUBSET (Wrong \cup {ringIdx})
  <2> SUFFICES ASSUME NEW i \in 1..FilterSize, i # ringIdx PROVE i \in Wrong
    OBVIOUS
  <2>1. ring[i] # off
    BY <1>1, <1>3
  <2>2. i \in 1..ringCnt
    BY SMTT(30), <1>1
  <2> QED
    BY <2>1, <2>2 DEF Wrong
<1>5. IsFiniteSet(Wrong) /\ Cardinality(Wrong) \in Nat
  BY WrongFinite DEF IInv
<1>6. /\ IsFiniteSet(Wrong \cup {ringIdx})
      /\ Cardinality(Wrong \cup {ringIdx}) <= Cardinality(Wrong) + 1
      /\ Cardinality(Wrong \cup {ringIdx}) \in Int
  <2>1. IsFiniteSet(Wrong \cup {ringIdx})
    BY <1>5, FS_AddElement
  <2>2. Cardinality(Wrong \cup {ringIdx}) = IF ringIdx \in Wrong THEN Cardinality(Wrong) ELSE Cardinality(Wrong) + 1
    BY <1>5, FS_AddElement, Zenon
  <2> QED
    BY <1>5, <2>1, <2>2, FS_CardinalityType
<1>7. Cardinality(1..FilterSize) = FilterSize /\ Cardinality(1..FilterSize) <= Cardinality(Wrong \cup {ringIdx})
  <2>1. Cardinality(1..FilterSize) = FilterSize
    BY FS_Interval
  <2> QED
    BY <1>4, <1>6, <2>1, FS_Subset
<1>8. Cardinality(Wrong) + 1 <= upset
  BY DEF IInv, CountInv, ErrorMeasured, Goes
<1>9. upset \in Nat
  BY DEF IInv, Types, WorldTypes
<1> QED
  BY <1>5, <1>6, <1>7, <1>8, <1>9

\* What a sync sets out to compensate is the true error of the clock, unless as many
\* sentences and pulses went wrong as the filter holds, the clock drifted on between two
\* of the readings, or an earlier rate was refused (gps_io_thread.c:407-440, 1362-1391,
\* 1526-1566).
THEOREM SyncCompensatesTrueError == Spec => CompensatesTrueError
<1>1. IInv /\ [Next]_vars =>
        [phase = "MEASURE_ERROR" /\ phase' = "WAIT_FOR_NEXT_SYNC" /\ upset < FilterSize /\ ~moved /\ asked = comp
           => asked' = -off /\ (off \in -MaxSlew..MaxSlew => comp' = -off)]_vars
  <2> SUFFICES ASSUME IInv, Next, phase = "MEASURE_ERROR", phase' = "WAIT_FOR_NEXT_SYNC", upset < FilterSize,
                      ~moved, asked = comp
               PROVE  asked' = -off /\ (off \in -MaxSlew..MaxSlew => comp' = -off)
    BY DEF vars
  <2>1. ErrorMeasured
    <3>1. CASE SecondBegins \/ SecondWithoutPulse
      BY <3>1 DEF SecondBegins, SecondWithoutPulse, NextSecond
    <3>2. CASE Sentence \/ PowerOff \/ PowerOn \/ FixLost \/ FixFound \/ PeriodWithoutSync
      BY <3>2 DEF Sentence, PowerOff, PowerOn, FixLost, FixFound, Receiver, PeriodWithoutSync, machineVars
    <3>3. CASE HandleSerialInput \/ Monitors
      BY <3>3 DEF HandleSerialInput, NothingToRead, OtherSentence, SentenceWithoutFix, SentenceWithFix,
                  ReadSerial, Monitors, machineVars
    <3>4. CASE StateMachine
      BY <3>4 DEF StateMachine, Waits, Phase, WithoutPower, WaitForPowerOn, Init1, Init2, Init3, WaitForFirstFix,
                  ToSetSystemTime, ToMeasureDrift, SetSystemTime, DriftMeasured, MeasureDriftAgain,
                  FixLostInDriftMeas, MeasureErrorAgain, WaitForNextSync, Goes, machineVars
    <3>5. CASE ThreadEnds \/ DriverCloses \/ TimerFires
      BY <3>5 DEF ThreadEnds, DriverCloses, TimerFires, machineVars
    <3> QED
      BY <3>1, <3>2, <3>3, <3>4, <3>5 DEF Next, Pass
  <2>2. error = off
    <3>1. upset \in Nat
      BY DEF IInv, Types, WorldTypes
    <3> QED
      BY <2>1, <3>1, WrongFilterHasTroubles
  <2>3. off \in -Far..Far /\ comp \in -MaxSlew..MaxSlew
    BY DEF IInv, Types, SetTypes, MachineTypes
  <2>4. asked - comp - error = -off /\ -off \in -Far..Far
    BY <2>2, <2>3
  <2>5. asked' = -off
    BY <2>1, <2>4, ClampKnown DEF ErrorMeasured, Asked
  <2> QED
    BY <2>1, <2>3, <2>5 DEF ErrorMeasured, Taken
<1> QED
  BY InvariantHolds, <1>1, PTL DEF Spec, CompensatesTrueError
=============================================================================
