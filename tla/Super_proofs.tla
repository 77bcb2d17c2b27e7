---------------------------- MODULE Super_proofs ----------------------------
(* Theorems about Super, for every length of the day and of the windows, all  *)
(* limits, and every number of troubles.                                      *)
EXTENDS Super, Integers, TLAPS

\* The parts of TypeOK: the loop, the instruments, the modem and its monitor.
LoopTypes ==
    /\ which \in Which /\ pc \in {"start", "refresh", "control", "command", "handle", "up", "stopped"}
    /\ now \in Pass /\ trouble \in 0..MaxTrouble /\ view \in {"true", "old", "false"}
    /\ power \in BOOLEAN /\ shown \in BOOLEAN /\ late \subseteq BOOLEAN
InstTypes ==
    /\ enable \in BOOLEAN /\ mode \in {"normal", "update"}
    /\ temp \in {"low", "mid", "high"} /\ age \in {"fresh", "equal", "old"}
    /\ thermo \in [over : BOOLEAN, under : BOOLEAN, on : BOOLEAN]
    /\ run \in BOOLEAN /\ pending \in BOOLEAN /\ desired \in BOOLEAN
    /\ sbc \in {"off", "up", "halted"} /\ extreme \in {"none", "low", "high"}
    /\ looked \in BOOLEAN /\ missed \in BOOLEAN /\ unhalted \in BOOLEAN
CommTypes ==
    /\ comm \in {"powered_up", "powered_down", "init", "starting_up", "connected", "disconnected"}
    /\ kill \in BOOLEAN /\ cmd \in BOOLEAN /\ link \in BOOLEAN /\ ending \in BOOLEAN
    /\ was \in BOOLEAN /\ excuse \in BOOLEAN /\ reboot \in BOOLEAN
    /\ handlers \in 0..2 /\ grace \in 0..Timeout /\ idle \in 0..(Timeout + 1)
    /\ files \in Files /\ timer \in 0..(MaxUp + 1) /\ steady \in 0..(MaxUp + 1)

\* The computer of CASES runs with its power; while the cut is pending it is halted
\* or was excused.
HaltInv ==
    which = "cases" =>
       /\ power => sbc # "off"
       /\ pc = "start" => ~pending
       /\ pending /\ power => sbc = "halted" \/ unhalted

\* The thermostat remembers the last extreme.
ThermoInv ==
    /\ thermo.on <=> extreme # "high"
    /\ thermo.over => extreme = "high"
    /\ thermo.under => extreme = "low"

\* An item of the schedule that runs is in its window, or in its last minute and will be
\* stopped there, or that minute was missed.
WindowInv ==
    which \in {"cases", "hf"} =>
       /\ run => InWindow \/ missed \/ Minute = Stop
       /\ looked /\ Minute = Stop => ~run

RulesInv == FollowsRules /\ (pc = "start" => view # "true")

\* Unless something misled the monitor, it knows the link as it was at the last pass,
\* and its timer runs no longer than the link has been so.
LinkInv ==
    which = "comm" =>
       /\ comm \notin {"powered_up", "powered_down"}
       /\ ~reboot /\ ~excuse =>
             /\ comm = "connected" => was
             /\ comm = "disconnected" => ~was
             /\ comm # "init" => timer <= steady

\* The inductive invariant.
IInv == LoopTypes /\ InstTypes /\ CommTypes /\ HaltInv /\ ThermoInv /\ WindowInv /\ RulesInv /\ LinkInv

USE PowerAssumption, CommAssumption

-----------------------------------------------------------------------------
(* Arithmetic of the clock *)

LEMMA PassBounds == Minutes * PerMinute \in Nat /\ Minutes * PerMinute > 0
  <1>1. Minutes \in Nat /\ PerMinute \in Nat /\ PerMinute > 0 /\ Minutes > 0
    BY DEF PowerAssumption
  <1> HIDE PowerAssumption, CommAssumption
  <1> QED BY <1>1

LEMMA PassIsCyclic ==
  ASSUME NEW x \in Nat
  PROVE  x % (Minutes * PerMinute) \in Pass
  <1>1. Minutes * PerMinute \in Nat /\ Minutes * PerMinute > 0
    BY PassBounds
  <1> HIDE PowerAssumption, CommAssumption
  <1> QED BY <1>1 DEF Pass

-----------------------------------------------------------------------------
(* Types *)

LEMMA SetPowerTypes ==
  ASSUME NEW state \in BOOLEAN, NEW bad, LoopTypes, SetPower(state, bad)
  PROVE  power' \in BOOLEAN /\ late' \subseteq BOOLEAN
  BY DEF LoopTypes, SetPower

LEMMA TroubleTypes ==
  ASSUME NEW bad, LoopTypes, Trouble(bad)
  PROVE  trouble' \in 0..MaxTrouble
  <1>1. MaxTrouble \in Nat
    BY DEF PowerAssumption
  <1> HIDE PowerAssumption, CommAssumption
  <1> QED BY <1>1 DEF LoopTypes, Trouble

LEMMA RefreshTypes ==
  ASSUME NEW bad, NEW skip \in 0..PerMinute, LoopTypes, Refresh(bad, skip)
  PROVE  LoopTypes'
  <1>1. trouble' \in 0..MaxTrouble
    BY TroubleTypes DEF Refresh
  <1>2. now \in Nat /\ skip \in Nat
    BY PassBounds DEF LoopTypes, Pass, PowerAssumption
  <1>3. now + 1 + skip \in Nat
    BY <1>2
  <1>4. (now + 1 + skip) % (Minutes * PerMinute) \in Pass
    BY <1>3, PassIsCyclic
  <1>5. now' \in Pass
    BY <1>4 DEF LoopTypes, Refresh
  <1>6. shown' \in BOOLEAN
    <2>1. CASE "status" \in bad
      BY <2>1 DEF LoopTypes, Refresh
    <2>2. CASE "status" \notin bad
      BY <2>2 DEF LoopTypes, Refresh
    <2> QED BY <2>1, <2>2
  <1>7. Pass' = Pass
    BY DEF Pass
  <1> QED BY <1>1, <1>5, <1>6, <1>7 DEF LoopTypes, Refresh

LEMMA ComputerTypes ==
  ASSUME NEW halt \in BOOLEAN, InstTypes, Computer(halt)
  PROVE  sbc' \in {"off", "up", "halted"}
  BY DEF InstTypes, Computer

LEMMA DecideTypes ==
  ASSUME NEW bad, InstTypes, Decide(bad)
  PROVE  /\ thermo' \in [over : BOOLEAN, under : BOOLEAN, on : BOOLEAN]
         /\ extreme' \in {"none", "low", "high"}
         /\ run' \in BOOLEAN /\ looked' \in BOOLEAN /\ missed' \in BOOLEAN
  <1>1. thermo' \in [over : BOOLEAN, under : BOOLEAN, on : BOOLEAN]
    BY DEF InstTypes, Decide, Thermostat
  <1>2. extreme' \in {"none", "low", "high"}
    BY DEF InstTypes, Decide
  <1>3. run' \in BOOLEAN
    <2>1. PICK full \in BOOLEAN : run' = Schedule(run, full)
      BY DEF Decide
    <2>2. Schedule(run, full) \in BOOLEAN
      BY Zenon, <2>1 DEF Schedule, InstTypes
    <2> QED BY <2>1, <2>2
  <1>4. looked' = TRUE
    BY DEF Decide
  <1>5. missed' = (missed /\ run /\ run')
    BY DEF Decide
  <1>6. missed' \in BOOLEAN
    BY Zenon, <1>5
  <1> QED BY <1>1, <1>2, <1>3, <1>4, <1>6

LEMMA LookTypes ==
  ASSUME NEW bad, Look(bad)
  PROVE  view' \in {"true", "old", "false"}
  BY DEF Look

LEMMA ChangedTypes ==
  ASSUME LoopTypes, Changed
  PROVE  view' \in {"true", "old", "false"}
  BY DEF Changed, LoopTypes

LEMMA ControlStepTypes ==
  ASSUME NEW bad, LoopTypes, InstTypes, ControlStep(bad),
         power' \in BOOLEAN, late' \subseteq BOOLEAN, view' \in {"true", "old", "false"}
  PROVE  /\ LoopTypes'
         /\ enable' \in BOOLEAN /\ mode' \in {"normal", "update"}
         /\ temp' \in {"low", "mid", "high"} /\ age' \in {"fresh", "equal", "old"}
  <1>1. trouble' \in 0..MaxTrouble
    BY TroubleTypes DEF ControlStep
  <1>2. now' = now /\ which' = which /\ shown' = shown /\ pc' = "refresh" /\ Pass' = Pass
    BY DEF ControlStep, Pass
  <1>3. LoopTypes'
    BY <1>1, <1>2 DEF LoopTypes
  <1> QED BY <1>3 DEF ControlStep, InstTypes, orders

LEMMA LoopUnchanged ==
  ASSUME LoopTypes, UNCHANGED <<which, pc, now, power, shown, late, trouble, view>>
  PROVE  LoopTypes'
  <1>1. Pass' = Pass
    BY DEF Pass
  <1> QED BY <1>1 DEF LoopTypes

LEMMA OrderTypes ==
  ASSUME LoopTypes, InstTypes, Order \/ WorldChanges
  PROVE  LoopTypes' /\ InstTypes'
  <1>1. view' \in {"true", "old", "false"}
    BY ChangedTypes DEF Order, WorldChanges
  <1>2. UNCHANGED <<which, pc, now, power, shown, late, trouble, states, sbc, history>> /\ Pass' = Pass
    BY DEF Order, WorldChanges, Pass
  <1>3. LoopTypes'
    BY <1>1, <1>2 DEF LoopTypes
  <1>4. enable' \in BOOLEAN /\ mode' \in {"normal", "update"}
    BY DEF InstTypes, Order, WorldChanges, orders
  <1>5. temp' \in {"low", "mid", "high"} /\ age' \in {"fresh", "equal", "old"}
    BY DEF InstTypes, Order, WorldChanges, world
  <1> QED BY <1>2, <1>3, <1>4, <1>5 DEF InstTypes, states, history

LEMMA LateCommandTypes ==
  ASSUME NEW state \in BOOLEAN, NEW done \in BOOLEAN, LoopTypes, InstTypes, LateCommand(state, done)
  PROVE  LoopTypes' /\ InstTypes'
  <1>1. power' \in BOOLEAN /\ late' \subseteq BOOLEAN
    BY DEF LateCommand, LoopTypes
  <1>2. UNCHANGED <<which, pc, now, shown, trouble>> /\ view' = "false" /\ Pass' = Pass
    BY DEF LateCommand, Pass
  <1>3. LoopTypes'
    BY <1>1, <1>2 DEF LoopTypes
  <1>4. Computer(FALSE)
    BY DEF LateCommand
  <1>5. sbc' \in {"off", "up", "halted"}
    BY <1>4, ComputerTypes
  <1>6. unhalted' = (unhalted \/ (power' /\ ~power))
    BY DEF LateCommand
  <1>7. unhalted' \in BOOLEAN
    BY Zenon, <1>6
  <1>8. UNCHANGED <<orders, world, states, extreme, looked, missed>>
    BY DEF LateCommand
  <1> QED BY <1>3, <1>5, <1>7, <1>8 DEF InstTypes, orders, world, states

LEMMA InstRefreshTypes ==
  ASSUME NEW bad, NEW skip \in 0..PerMinute, LoopTypes, InstTypes, InstRefresh(bad, skip)
  PROVE  LoopTypes' /\ InstTypes'
  <1>1. LoopTypes'
    BY RefreshTypes DEF InstRefresh
  <1>2. PICK m : looked' = (looked /\ m)
    BY Zenon DEF InstRefresh
  <1>3. PICK n : missed' = (missed \/ n)
    BY Zenon DEF InstRefresh
  <1>4. looked' \in BOOLEAN
    BY Zenon, <1>2
  <1>5. missed' \in BOOLEAN
    BY Zenon, <1>3
  <1>6. UNCHANGED <<orders, world, states, sbc, extreme, unhalted>>
    BY DEF InstRefresh
  <1> QED BY <1>1, <1>4, <1>5, <1>6 DEF InstTypes, orders, world, states

LEMMA CutTypes ==
  ASSUME NEW bad, LoopTypes, InstTypes, CutCASES(bad)
  PROVE  LoopTypes' /\ InstTypes'
  <1>1. power' \in BOOLEAN /\ late' \subseteq BOOLEAN
    BY SetPowerTypes DEF CutCASES
  <1>2. view' \in {"true", "old", "false"}
    <2>1. CASE bad = {} /\ late = {}
      BY <2>1, ChangedTypes DEF CutCASES
    <2>2. CASE ~(bad = {} /\ late = {})
      BY <2>2 DEF CutCASES
    <2> QED BY <2>1, <2>2
  <1>3. ControlStep(bad)
    BY DEF CutCASES
  <1>4. LoopTypes' /\ enable' \in BOOLEAN /\ mode' \in {"normal", "update"}
        /\ temp' \in {"low", "mid", "high"} /\ age' \in {"fresh", "equal", "old"}
    BY <1>1, <1>2, <1>3, ControlStepTypes
  <1>5. sbc' \in {"off", "up", "halted"}
    BY ComputerTypes DEF CutCASES
  <1>6. pending' = FALSE /\ UNCHANGED <<thermo, run, desired, history>>
    BY DEF CutCASES
  <1> QED BY <1>4, <1>5, <1>6 DEF InstTypes, history

LEMMA ControlCASESTypes ==
  ASSUME NEW bad, LoopTypes, InstTypes, ControlCASES(bad)
  PROVE  LoopTypes' /\ InstTypes'
  <1>1. power' \in BOOLEAN /\ late' \subseteq BOOLEAN
    <2>1. CASE UNCHANGED <<power, late>>
      BY <2>1 DEF LoopTypes
    <2>2. CASE SetPower(TRUE, bad)
      BY <2>2, SetPowerTypes
    <2> QED BY <2>1, <2>2 DEF ControlCASES
  <1>2. view' \in {"true", "old", "false"}
    BY LookTypes DEF ControlCASES
  <1>3. ControlStep(bad) /\ Decide(bad) /\ desired' = desired
    BY DEF ControlCASES
  <1>4. LoopTypes' /\ enable' \in BOOLEAN /\ mode' \in {"normal", "update"}
        /\ temp' \in {"low", "mid", "high"} /\ age' \in {"fresh", "equal", "old"}
    BY <1>1, <1>2, <1>3, ControlStepTypes
  <1>5. sbc' \in {"off", "up", "halted"}
    <2>1. PICK halt \in BOOLEAN : Computer(halt)
      <3>1. CASE Computer(FALSE)
        BY <3>1
      <3>2. CASE "halt" \in bad /\ Computer("halt" \notin bad)
        BY <3>2 DEF Computer
      <3>3. CASE "halt" \notin bad /\ Computer("halt" \notin bad)
        BY <3>3 DEF Computer
      <3> QED BY <3>1, <3>2, <3>3 DEF ControlCASES
    <2> QED BY <2>1, ComputerTypes
  <1>6. /\ thermo' \in [over : BOOLEAN, under : BOOLEAN, on : BOOLEAN]
        /\ extreme' \in {"none", "low", "high"}
        /\ run' \in BOOLEAN /\ looked' \in BOOLEAN /\ missed' \in BOOLEAN
    BY <1>3, DecideTypes
  <1>7. pending' \in BOOLEAN
    BY DEF ControlCASES, InstTypes
  <1>8. unhalted' \in BOOLEAN
    <2>1. unhalted' = unhalted \/ unhalted' = ("halt" \in bad)
      BY Zenon DEF ControlCASES
    <2>2. ("halt" \in bad) \in BOOLEAN
      <3>1. CASE "halt" \in bad
        BY <3>1
      <3>2. CASE "halt" \notin bad
        BY <3>2
      <3> QED BY <3>1, <3>2
    <2>3. unhalted \in BOOLEAN
      BY DEF InstTypes
    <2> QED BY Zenon, <2>1, <2>2, <2>3
  <1>9. desired' \in BOOLEAN
    BY <1>3 DEF InstTypes
  <1> QED BY <1>4, <1>5, <1>6, <1>7, <1>8, <1>9 DEF InstTypes

LEMMA ControlHFTypes ==
  ASSUME NEW bad, LoopTypes, InstTypes, ControlHF(bad)
  PROVE  LoopTypes' /\ InstTypes'
  <1>1. power' \in BOOLEAN /\ late' \subseteq BOOLEAN
    <2>1. PICK state \in BOOLEAN : UNCHANGED <<power, late>> \/ SetPower(state, bad)
      <3>1. ShouldBeOn(bad) \in BOOLEAN
        BY Zenon DEF ShouldBeOn
      <3> QED BY Zenon, <3>1 DEF ControlHF
    <2>2. CASE UNCHANGED <<power, late>>
      BY <2>2 DEF LoopTypes
    <2>3. CASE SetPower(state, bad)
      BY <2>3, SetPowerTypes
    <2> QED BY <2>1, <2>2, <2>3
  <1>2. view' \in {"true", "old", "false"}
    BY LookTypes DEF ControlHF
  <1>3. ControlStep(bad) /\ Decide(bad) /\ UNCHANGED <<pending, desired, sbc, unhalted>>
    BY DEF ControlHF
  <1>4. LoopTypes' /\ enable' \in BOOLEAN /\ mode' \in {"normal", "update"}
        /\ temp' \in {"low", "mid", "high"} /\ age' \in {"fresh", "equal", "old"}
    BY <1>1, <1>2, <1>3, ControlStepTypes
  <1>5. /\ thermo' \in [over : BOOLEAN, under : BOOLEAN, on : BOOLEAN]
        /\ extreme' \in {"none", "low", "high"}
        /\ run' \in BOOLEAN /\ looked' \in BOOLEAN /\ missed' \in BOOLEAN
    BY <1>3, DecideTypes
  <1> QED BY <1>3, <1>4, <1>5 DEF InstTypes

LEMMA ControlSimpleTypes ==
  ASSUME NEW bad, LoopTypes, InstTypes, ControlSimple(bad)
  PROVE  LoopTypes' /\ InstTypes'
  <1>1. desired' \in BOOLEAN
    BY DEF ControlSimple, HeaterState, InstTypes
  <1>2. power' \in BOOLEAN /\ late' \subseteq BOOLEAN
    <2>1. PICK state \in BOOLEAN : UNCHANGED <<power, late>> \/ SetPower(state, bad)
      <3>1. CASE which = "fg" /\ FGSCRule(enable, bad)
        BY Zenon, <3>1 DEF FGSCRule, InstTypes
      <3>2. CASE IF "temp" \notin bad /\ Status(bad) = {~desired'} THEN SetPower(desired', bad)
                 ELSE UNCHANGED <<power, late>>
        BY Zenon, <1>1, <3>2
      <3>3. CASE GPSRule(age, bad)
        BY <3>3 DEF GPSRule
      <3> QED BY Zenon, <3>1, <3>2, <3>3 DEF ControlSimple
    <2>2. CASE UNCHANGED <<power, late>>
      BY <2>2 DEF LoopTypes
    <2>3. CASE SetPower(state, bad)
      BY <2>3, SetPowerTypes
    <2> QED BY <2>1, <2>2, <2>3
  <1>3. view' \in {"true", "old", "false"}
    BY LookTypes DEF ControlSimple
  <1>4. ControlStep(bad) /\ UNCHANGED <<thermo, run, pending, sbc, history>>
    BY DEF ControlSimple
  <1>5. LoopTypes' /\ enable' \in BOOLEAN /\ mode' \in {"normal", "update"}
        /\ temp' \in {"low", "mid", "high"} /\ age' \in {"fresh", "equal", "old"}
    BY <1>2, <1>3, <1>4, ControlStepTypes
  <1> QED BY <1>1, <1>4, <1>5 DEF InstTypes, history

LEMMA StartStopTypes ==
  ASSUME NEW bad, LoopTypes, InstTypes, InstConstruct(bad) \/ InstStop(bad)
  PROVE  LoopTypes' /\ InstTypes'
  <1>1. power' \in BOOLEAN /\ late' \subseteq BOOLEAN
    <2>1. PICK state \in BOOLEAN : UNCHANGED <<power, late>> \/ SetPower(state, bad)
      <3>1. (which = "fg") \in BOOLEAN
        BY Zenon
      <3> QED BY Zenon, <3>1 DEF InstConstruct, InstStop
    <2>2. CASE UNCHANGED <<power, late>>
      BY <2>2 DEF LoopTypes
    <2>3. CASE SetPower(state, bad)
      BY <2>3, SetPowerTypes
    <2> QED BY <2>1, <2>2, <2>3
  <1>2. trouble' \in 0..MaxTrouble
    BY TroubleTypes DEF InstConstruct, InstStop
  <1>3. UNCHANGED <<which, now, shown, view, orders, world, states, history>> /\ Pass' = Pass
        /\ pc' \in {"refresh", "stopped"}
    BY DEF InstConstruct, InstStop, Pass
  <1>4. LoopTypes'
    BY <1>1, <1>2, <1>3 DEF LoopTypes
  <1>5. sbc' \in {"off", "up", "halted"}
    <2>1. PICK halt \in BOOLEAN : Computer(halt)
      <3>1. ("halt" \notin bad) \in BOOLEAN
        BY Zenon
      <3> QED BY Zenon, <3>1 DEF InstConstruct, InstStop
    <2> QED BY <2>1, ComputerTypes
  <1> QED BY <1>3, <1>4, <1>5 DEF InstTypes, orders, world, states, history

LEMMA InstrumentTypes ==
  ASSUME LoopTypes, InstTypes, Instrument
  PROVE  LoopTypes' /\ InstTypes'
  <1>1. CASE \E state, done \in BOOLEAN : LateCommand(state, done)
    BY <1>1, LateCommandTypes
  <1>2. CASE \E bad \in Failing({"status"}), skip \in 0..PerMinute : InstRefresh(bad, skip)
    BY <1>2, InstRefreshTypes
  <1>3. CASE \E bad \in Failing({"status", "temp", "power", "halt"}) : InstControl(bad)
    BY <1>3, CutTypes, ControlCASESTypes, ControlHFTypes, ControlSimpleTypes DEF InstControl
  <1>4. CASE \E bad : InstConstruct(bad) \/ InstStop(bad)
    BY <1>4, StartStopTypes
  <1> QED BY <1>1, <1>2, <1>3, <1>4, OrderTypes DEF Instrument

LEMMA CountTypes ==
  ASSUME NEW max \in Nat, NEW n \in 0..max
  PROVE  Count(n, max) \in 0..max
  <1> HIDE PowerAssumption, CommAssumption
  <1> QED BY DEF Count

LEMMA CommRefreshTypes ==
  ASSUME NEW bad, NEW skip \in 0..PerMinute, LoopTypes, CommTypes, CommRefresh(bad, skip)
  PROVE  LoopTypes' /\ CommTypes'
  <1>1. LoopTypes'
    BY RefreshTypes DEF CommRefresh
  <1>2. Timeout \in Nat /\ Timeout + 1 \in Nat /\ MaxUp + 1 \in Nat
    BY DEF CommAssumption
  <1>3. grace' \in 0..Timeout
    BY <1>2, CountTypes DEF CommRefresh, CommTypes
  <1>4. idle' \in 0..(Timeout + 1)
    BY <1>2, CountTypes DEF CommRefresh, CommTypes
  <1>5. timer' \in 0..(MaxUp + 1) /\ steady' \in 0..(MaxUp + 1)
    BY <1>2, CountTypes DEF CommRefresh, CommTypes
  <1>6. UNCHANGED <<comm, kill, cmd, handlers, link, ending, files, was, excuse, reboot>>
    BY DEF CommRefresh
  <1> QED BY <1>1, <1>3, <1>4, <1>5, <1>6 DEF CommTypes

LEMMA ModemOrderTypes ==
  ASSUME LoopTypes, CommTypes, NEW off \in BOOLEAN, OrderKill(off) \/ OrderPending \/ DataMove
  PROVE  LoopTypes' /\ CommTypes'
  <1>1. LoopTypes'
    BY LoopUnchanged DEF OrderKill, OrderPending, DataMove, loopVars
  <1>2. kill' \in BOOLEAN /\ cmd' \in BOOLEAN
    BY DEF OrderKill, OrderPending, DataMove, CommTypes
  <1>3. handlers' \in 0..2
    <2>1. handlers \in 0..2
      BY DEF CommTypes
    <2>2. CASE handlers < 2 /\ handlers' = handlers + 1
      BY <2>1, <2>2
    <2>3. CASE handlers > 0 /\ handlers' = handlers - 1
      BY <2>1, <2>3
    <2>4. CASE handlers' = handlers
      BY <2>1, <2>4
    <2> QED BY Zenon, <2>2, <2>3, <2>4 DEF OrderKill, OrderPending, DataMove
  <1>4. idle' \in 0..(Timeout + 1)
    <2>1. Timeout + 1 \in Nat
      BY DEF CommAssumption
    <2>2. 0 \in 0..(Timeout + 1)
      BY <2>1
    <2> QED BY <2>2 DEF OrderKill, OrderPending, DataMove, CommTypes
  <1>5. UNCHANGED <<comm, grace, monitorVars>>
    BY DEF OrderKill, OrderPending, DataMove
  <1> QED BY <1>1, <1>2, <1>3, <1>4, <1>5 DEF CommTypes, monitorVars

LEMMA LateModemTypes ==
  ASSUME NEW state \in BOOLEAN, NEW done \in BOOLEAN, LoopTypes, CommTypes, LateModemCommand(state, done)
  PROVE  LoopTypes' /\ CommTypes'
  <1>1. power' \in BOOLEAN /\ late' \subseteq BOOLEAN
    BY DEF LateModemCommand, LoopTypes
  <1>2. UNCHANGED <<which, pc, now, shown, trouble, view, commVars>> /\ Pass' = Pass
    BY DEF LateModemCommand, Pass
  <1> QED BY <1>1, <1>2 DEF LoopTypes, CommTypes, commVars

LEMMA PowerUpTypes ==
  ASSUME NEW bad, LoopTypes, PowerUp(bad)
  PROVE  power' \in BOOLEAN /\ late' \subseteq BOOLEAN
  <1>1. CASE UNCHANGED <<power, late>>
    BY <1>1 DEF LoopTypes
  <1>2. CASE SetPower(TRUE, bad)
    BY <1>2, SetPowerTypes
  <1> QED BY <1>1, <1>2 DEF PowerUp

LEMMA ModemStepTypes ==
  ASSUME NEW from, NEW to \in {"refresh", "command", "handle", "up"}, NEW bad,
         LoopTypes, CommTypes, ModemStep(from, to, bad),
         power' \in BOOLEAN, late' \subseteq BOOLEAN, cmd' \in BOOLEAN, grace' \in 0..Timeout,
         comm' \in {comm, "powered_up", "powered_down"}
  PROVE  LoopTypes' /\ CommTypes'
  <1>1. trouble' \in 0..MaxTrouble
    BY TroubleTypes DEF ModemStep
  <1>2. UNCHANGED <<which, now, shown, view, kill, handlers, idle, monitorVars>> /\ Pass' = Pass
        /\ pc' = to
    BY DEF ModemStep, Pass
  <1>3. LoopTypes'
    BY <1>1, <1>2 DEF LoopTypes
  <1> QED BY <1>2, <1>3 DEF CommTypes, monitorVars

LEMMA ControlModemTypes ==
  ASSUME NEW bad, LoopTypes, CommTypes, ControlModem(bad)
  PROVE  LoopTypes' /\ CommTypes'
  <1>1. power' \in BOOLEAN /\ late' \subseteq BOOLEAN
    <2>1. CASE SetPower(FALSE, bad)
      BY <2>1, SetPowerTypes
    <2>2. CASE PowerUp(bad)
      BY <2>2, PowerUpTypes
    <2>3. CASE UNCHANGED <<power, late>>
      BY <2>3 DEF LoopTypes
    <2> QED BY <2>1, <2>2, <2>3 DEF ControlModem
  <1>2. comm' \in {comm, "powered_up", "powered_down"}
    BY DEF ControlModem
  <1>3. grace' \in 0..Timeout
    <2>1. 0 \in 0..Timeout
      BY DEF CommAssumption
    <2>2. grace' = grace \/ grace' = 0
      BY DEF ControlModem
    <2> QED BY <2>1, <2>2 DEF CommTypes
  <1>4. ModemStep("control", "command", bad) /\ cmd' = cmd
    BY DEF ControlModem
  <1>5. cmd' \in BOOLEAN
    BY <1>4 DEF CommTypes
  <1> QED BY <1>1, <1>2, <1>3, <1>4, <1>5, ModemStepTypes

LEMMA CommandTypes ==
  ASSUME NEW bad, LoopTypes, CommTypes, TestCommand \/ HandleCommand(bad) \/ HandlePowerUp(bad)
  PROVE  LoopTypes' /\ CommTypes'
  <1>1. power' \in BOOLEAN /\ late' \subseteq BOOLEAN
    <2>1. CASE SetPower(FALSE, bad)
      BY <2>1, SetPowerTypes
    <2>2. CASE PowerUp(bad)
      BY <2>2, PowerUpTypes
    <2>3. CASE UNCHANGED <<power, late>>
      BY <2>3 DEF LoopTypes
    <2> QED BY <2>1, <2>2, <2>3 DEF TestCommand, HandleCommand, HandlePowerUp
  <1>2. comm' = comm /\ grace' = grace /\ (cmd' = cmd \/ cmd' = FALSE)
    BY DEF TestCommand, HandleCommand, HandlePowerUp
  <1>3. PICK from, other : \E to \in {"refresh", "command", "handle", "up"} : ModemStep(from, to, other)
    BY DEF TestCommand, HandleCommand, HandlePowerUp
  <1>4. grace' \in 0..Timeout /\ cmd' \in BOOLEAN
    BY <1>2 DEF CommTypes
  <1> QED BY <1>1, <1>2, <1>3, <1>4, ModemStepTypes

LEMMA LinkTypes ==
  ASSUME NEW same \in BOOLEAN, LoopTypes, CommTypes, LinkBegins(same) \/ LinkMarked(same) \/ LinkEnds
  PROVE  LoopTypes' /\ CommTypes'
  <1>1. LoopTypes'
    BY LoopUnchanged DEF LinkBegins, LinkMarked, LinkEnds, loopVars
  <1>2. link' \in BOOLEAN /\ ending' \in BOOLEAN
    BY DEF LinkBegins, LinkMarked, LinkEnds, CommTypes
  <1>3. files' \in Files
    BY DEF LinkBegins, LinkMarked, LinkEnds, CommTypes, Files
  <1>4. UNCHANGED <<modemVars, timer, was, steady, excuse, reboot>>
    BY DEF LinkBegins, LinkMarked, LinkEnds
  <1> QED BY <1>1, <1>2, <1>3, <1>4 DEF CommTypes, modemVars

LEMMA ClockSetTypes ==
  ASSUME NEW timeSet \in {0, MaxUp + 1}, LoopTypes, CommTypes, ClockSet(timeSet)
  PROVE  LoopTypes' /\ CommTypes'
  <1>1. MaxUp \in Nat /\ MaxTrouble \in Nat
    BY DEF CommAssumption, PowerAssumption
  <1>2. trouble' \in 0..MaxTrouble
    BY <1>1 DEF ClockSet, LoopTypes
  <1>3. UNCHANGED <<which, pc, now, power, shown, late, view>> /\ Pass' = Pass
    BY DEF ClockSet, Pass
  <1>4. LoopTypes'
    BY <1>2, <1>3 DEF LoopTypes
  <1>5. timer' \in 0..(MaxUp + 1)
    BY <1>1 DEF ClockSet
  <1>6. UNCHANGED <<modemVars, link, ending, files, was, steady, reboot>> /\ excuse' = TRUE
    BY DEF ClockSet
  <1> QED BY <1>4, <1>5, <1>6 DEF CommTypes, modemVars

LEMMA CheckCommTypes ==
  ASSUME CommTypes, CheckComm
  PROVE  /\ comm' \in {"powered_up", "powered_down", "init", "starting_up", "connected", "disconnected"}
         /\ timer' \in 0..(MaxUp + 1)
         /\ reboot' \in BOOLEAN
  <1>1. 0 \in 0..(MaxUp + 1)
    BY DEF CommAssumption
  <1>2. CASE \E state \in {"starting_up", "connected", "disconnected"} : RestartTimer(state)
    BY <1>1, <1>2 DEF RestartTimer, CommTypes
  <1>3. CASE \E limit : KeepTimer(limit)
    <2>1. PICK limit : reboot' = (reboot \/ timer > limit) /\ UNCHANGED <<comm, timer>>
      BY <1>3 DEF KeepTimer
    <2>2. reboot' \in BOOLEAN
      <3>1. PICK b : reboot' = (reboot \/ b)
        BY Zenon, <2>1
      <3> QED BY Zenon, <3>1
    <2> QED BY <2>1, <2>2 DEF CommTypes
  <1> QED BY Zenon, <1>2, <1>3 DEF CheckComm

LEMMA MonitorTypes ==
  ASSUME LoopTypes, CommTypes, MonitorComm
  PROVE  LoopTypes' /\ CommTypes'
  <1>1. UNCHANGED <<which, now, power, shown, late, trouble, view, kill, cmd, handlers, grace, idle,
                    link, ending, files>> /\ pc' = "refresh" /\ was' = link /\ Pass' = Pass
    BY DEF MonitorComm, Pass
  <1>2. LoopTypes'
    BY <1>1 DEF LoopTypes
  <1>3. /\ comm' \in {"powered_up", "powered_down", "init", "starting_up", "connected", "disconnected"}
        /\ timer' \in 0..(MaxUp + 1)
        /\ reboot' \in BOOLEAN
    <2>1. CASE UNCHANGED <<comm, timer, reboot>>
      BY <2>1 DEF CommTypes
    <2>2. CASE CheckComm
      BY <2>2, CheckCommTypes
    <2> QED BY <2>1, <2>2 DEF MonitorComm
  <1>4. steady' \in 0..(MaxUp + 1)
    <2>1. 0 \in 0..(MaxUp + 1)
      BY DEF CommAssumption
    <2>2. steady' = steady \/ steady' = 0
      BY Zenon DEF MonitorComm
    <2> QED BY <2>1, <2>2 DEF CommTypes
  <1>5. excuse' \in BOOLEAN
    <2>1. excuse' = (LinkIsUp # link \/ (excuse /\ comm' = comm))
      BY DEF MonitorComm
    <2> QED BY Zenon, <2>1
  <1> QED BY <1>1, <1>2, <1>3, <1>4, <1>5 DEF CommTypes

LEMMA CommStartStopTypes ==
  ASSUME NEW bad, LoopTypes, CommTypes, CommConstruct(bad) \/ CommStop(bad)
  PROVE  LoopTypes' /\ CommTypes'
  <1>1. power' \in BOOLEAN /\ late' \subseteq BOOLEAN
    <2>1. CASE SetPower(FALSE, bad)
      BY <2>1, SetPowerTypes
    <2>2. CASE PowerUp(bad)
      BY <2>2, PowerUpTypes
    <2>3. CASE UNCHANGED <<power, late>>
      BY <2>3 DEF LoopTypes
    <2> QED BY <2>1, <2>2, <2>3 DEF CommConstruct, CommStop
  <1>2. trouble' \in 0..MaxTrouble
    BY TroubleTypes DEF CommConstruct, CommStop
  <1>3. UNCHANGED <<which, now, shown, view, commVars>> /\ Pass' = Pass /\ pc' \in {"refresh", "stopped"}
    BY DEF CommConstruct, CommStop, Pass
  <1> QED BY <1>1, <1>2, <1>3 DEF LoopTypes, CommTypes, commVars

LEMMA CommunicationTypes ==
  ASSUME LoopTypes, CommTypes, Communication
  PROVE  LoopTypes' /\ CommTypes'
  <1>1. CASE \E off \in BOOLEAN : OrderKill(off) \/ OrderPending \/ DataMove
    BY <1>1, ModemOrderTypes
  <1>2. CASE \E state, done \in BOOLEAN : LateModemCommand(state, done)
    BY <1>2, LateModemTypes
  <1>3. CASE \E bad \in Failing({"status"}), skip \in 0..PerMinute : CommRefresh(bad, skip)
    BY <1>3, CommRefreshTypes
  <1>4. CASE \E bad \in Failing({"power", "data"}) : ControlModem(bad)
    BY <1>4, ControlModemTypes
  <1>5. CASE \E bad : TestCommand \/ HandleCommand(bad) \/ HandlePowerUp(bad)
    BY <1>5, CommandTypes
  <1>6. CASE \E same \in BOOLEAN : LinkBegins(same) \/ LinkMarked(same) \/ LinkEnds
    BY <1>6, LinkTypes
  <1>7. CASE \E timeSet \in {0, MaxUp + 1} : ClockSet(timeSet)
    BY <1>7, ClockSetTypes
  <1>8. CASE \E bad : CommConstruct(bad) \/ CommStop(bad)
    BY <1>8, CommStartStopTypes
  <1> QED BY Zenon, <1>1, <1>2, <1>3, <1>4, <1>5, <1>6, <1>7, <1>8, MonitorTypes DEF Communication

LEMMA TypesNext ==
  ASSUME LoopTypes, InstTypes, CommTypes, [Next]_vars
  PROVE  LoopTypes' /\ InstTypes' /\ CommTypes'
  <1>1. CASE Instrument
    <2>1. CommTypes'
      BY <1>1 DEF Instrument, CommTypes, commVars
    <2> QED BY <1>1, <2>1, InstrumentTypes
  <1>2. CASE Communication
    <2>1. InstTypes'
      BY <1>2 DEF Communication, InstTypes, instVars, orders, world, states, history
    <2> QED BY <1>2, <2>1, CommunicationTypes
  <1>3. CASE UNCHANGED vars
    <2>1. UNCHANGED <<loopVars, instVars, commVars>>
      BY <1>3 DEF vars
    <2>2. LoopTypes'
      BY <2>1, LoopUnchanged DEF loopVars
    <2>3. InstTypes'
      BY <2>1 DEF InstTypes, instVars, orders, world, states, history
    <2>4. CommTypes'
      BY <2>1 DEF CommTypes, commVars
    <2> QED BY <2>2, <2>3, <2>4
  <1> QED BY <1>1, <1>2, <1>3 DEF Next

LEMMA TypesInit ==
  ASSUME Init
  PROVE  LoopTypes /\ InstTypes /\ CommTypes
  <1>1. Minutes \in Nat /\ PerMinute \in Nat /\ PerMinute > 0 /\ Start \in Nat /\ Stop \in Nat
        /\ Start < Stop /\ Stop + 1 < Minutes /\ MaxTrouble \in Nat
    BY DEF PowerAssumption
  <1>2. Start < Minutes
    BY <1>1
  <1>3. Start * PerMinute \in Pass
    <2> HIDE PowerAssumption, CommAssumption
    <2>1. Start * PerMinute < Minutes * PerMinute /\ Start * PerMinute \in Nat /\ Minutes * PerMinute \in Nat
      BY <1>1, <1>2
    <2> HIDE <1>1, <1>2
    <2>2. ASSUME NEW a \in Nat, NEW b \in Nat, a < b
          PROVE  a \in 0..(b - 1)
      BY <2>2
    <2> QED BY <2>1, <2>2 DEF Pass
  <1>4. 0 \in Pass
    BY PassBounds DEF Pass
  <1>5. now \in Pass
    BY <1>3, <1>4 DEF Init, LoopInit
  <1>6. LoopTypes
    <2>1. trouble \in 0..MaxTrouble
      BY <1>1 DEF Init, LoopInit
    <2>2. power \in BOOLEAN
      BY DEF Init, LoopInit
    <2> QED BY <1>5, <2>1, <2>2 DEF Init, LoopInit, LoopTypes
  <1>7. InstTypes
    <2>1. enable \in BOOLEAN
      BY Zenon DEF Init, InstInit
    <2>2. temp \in {"low", "mid", "high"}
      BY DEF Init, InstInit
    <2>3. sbc \in {"off", "up", "halted"}
      BY DEF Init, InstInit
    <2>4. thermo \in [over : BOOLEAN, under : BOOLEAN, on : BOOLEAN]
      BY DEF Init, InstInit
    <2> QED BY <2>1, <2>2, <2>3, <2>4 DEF Init, InstInit, InstTypes
  <1>8. CommTypes
    <2>1. Timeout \in Nat /\ MaxUp \in Nat
      BY DEF CommAssumption
    <2>2. 0 \in 0..2 /\ 0 \in 0..Timeout /\ 0 \in 0..(Timeout + 1) /\ 0 \in 0..(MaxUp + 1)
      BY <2>1
    <2>3. link \in BOOLEAN
      BY DEF Init, CommInit
    <2>4. files \in Files
      BY DEF Init, CommInit, Files
    <2>5. comm \in {"powered_up", "init"}
      BY DEF Init, CommInit
    <2> QED BY <2>2, <2>3, <2>4, <2>5 DEF Init, CommInit, CommTypes
  <1> QED BY <1>6, <1>7, <1>8

-----------------------------------------------------------------------------
(* The controllers do not meet *)

LEMMA CommunicationKeeps ==
  ASSUME Communication
  PROVE  /\ which' = which /\ view' = view
         /\ which \in {"irid", "comm"} \/ UNCHANGED loopVars
         /\ which # "irid" => UNCHANGED power
         /\ which \notin {"irid", "comm"} => UNCHANGED pc
         /\ pc' = "start" => pc = "start"
  <1>1. CASE UNCHANGED loopVars
    BY <1>1 DEF loopVars
  <1>2. CASE ~ UNCHANGED loopVars
    <2>1. which' = which /\ view' = view /\ which \in {"irid", "comm"}
      BY <1>2 DEF Communication, OrderKill, OrderPending, DataMove, LateModemCommand, CommRefresh, Refresh,
                  ControlModem, TestCommand, HandleCommand, HandlePowerUp, ModemStep, LinkBegins, LinkMarked,
                  LinkEnds, ClockSet, MonitorComm, CommConstruct, CommStop
    <2>2. which # "irid" => UNCHANGED power
      BY <1>2 DEF Communication, OrderKill, OrderPending, DataMove, LateModemCommand, CommRefresh, Refresh,
                  ControlModem, TestCommand, HandleCommand, HandlePowerUp, ModemStep, LinkBegins, LinkMarked,
                  LinkEnds, ClockSet, MonitorComm, CommConstruct, CommStop
    <2>3. pc' = "start" => pc = "start"
      BY <1>2 DEF Communication, OrderKill, OrderPending, DataMove, LateModemCommand, CommRefresh, Refresh,
                  ControlModem, TestCommand, HandleCommand, HandlePowerUp, ModemStep, LinkBegins, LinkMarked,
                  LinkEnds, ClockSet, MonitorComm, CommConstruct, CommStop
    <2> QED BY <2>1, <2>2, <2>3
  <1> QED BY <1>1, <1>2

-----------------------------------------------------------------------------
(* The halt of CASES *)

LEMMA HaltInit == Init => HaltInv
  BY DEF Init, LoopInit, InstInit, HaltInv

LEMMA HaltNext ==
  ASSUME InstTypes, LoopTypes, HaltInv, [Next]_vars, which' = "cases"
  PROVE  HaltInv'
  <1> USE DEF HaltInv
  <1>1. CASE Order \/ WorldChanges
    BY <1>1 DEF Order, WorldChanges, states, history
  <1>2. CASE \E state, done \in BOOLEAN : LateCommand(state, done)
    <2>1. PICK state, done \in BOOLEAN : LateCommand(state, done)
      BY <1>2
    <2>2. UNCHANGED <<which, pc, pending>> /\ power' \in BOOLEAN
      BY <2>1 DEF LateCommand, states, LoopTypes
    <2>3. Computer(FALSE) /\ unhalted' = (unhalted \/ (power' /\ ~power))
      BY <2>1 DEF LateCommand
    <2>4. power' => sbc' # "off" /\ (power => sbc' = sbc)
      BY <2>2, <2>3 DEF Computer
    <2> QED BY Zenon, <2>2, <2>3, <2>4
  <1>3. CASE \E bad, skip : InstRefresh(bad, skip)
    BY <1>3 DEF InstRefresh, Refresh, states
  <1>4. CASE \E bad : CutCASES(bad)
    <2>1. pending' = FALSE /\ (power' => sbc' # "off")
      BY <1>4 DEF CutCASES, Computer
    <2> QED BY <2>1
  <1>5. CASE \E bad : ControlCASES(bad)
    <2>1. PICK bad : ControlCASES(bad)
      BY <1>5
    <2>2. pc' = "refresh" /\ which = "cases" /\ ~pending
      BY <2>1 DEF ControlCASES, ControlStep
    <2>3. CASE pending' = pending /\ Computer(FALSE)
      BY <2>2, <2>3 DEF Computer
    <2>4. CASE /\ UNCHANGED power
               /\ pending' = TRUE
               /\ Computer("halt" \notin bad)
               /\ unhalted' = ("halt" \in bad)
      <3>1. CASE "halt" \in bad
        BY <2>2, <2>4, <3>1 DEF Computer
      <3>2. CASE "halt" \notin bad
        BY <2>2, <2>4, <3>2 DEF Computer, InstTypes
      <3> QED BY <3>1, <3>2
    <2> QED BY Zenon, <2>1, <2>3, <2>4 DEF ControlCASES
  <1>6. CASE \E bad : ControlHF(bad) \/ ControlSimple(bad)
    BY <1>6 DEF ControlHF, ControlSimple, ControlStep
  <1>7. CASE \E bad : InstConstruct(bad)
    <2>1. pending' = pending /\ unhalted' = unhalted /\ pc = "start" /\ pc' = "refresh" /\ which = "cases"
      BY <1>7 DEF InstConstruct, states, history
    <2>2. Computer(FALSE)
      BY <1>7 DEF InstConstruct
    <2> QED BY <2>1, <2>2 DEF Computer
  <1>8. CASE \E bad : InstStop(bad)
    <2>1. PICK bad : InstStop(bad)
      BY <1>8
    <2>2. pending' = pending /\ unhalted' = unhalted /\ pc' = "stopped" /\ which = "cases"
      BY <2>1 DEF InstStop, states, history
    <2>3. Computer("halt" \notin bad)
      BY <2>1 DEF InstStop
    <2>4. power' = FALSE \/ power' = power
      BY <2>1 DEF InstStop, SetPower
    <2> QED BY <2>2, <2>3, <2>4 DEF Computer
  <1>9. CASE Communication
    <2>1. UNCHANGED <<pending, sbc, unhalted>>
      BY <1>9 DEF Communication, instVars, states, history
    <2>2. UNCHANGED <<which, power, pc>>
      BY <1>9, CommunicationKeeps DEF loopVars
    <2> QED BY <2>1, <2>2
  <1>10. CASE UNCHANGED vars
    BY <1>10 DEF vars, loopVars, instVars, states, history
  <1> QED BY Zenon, <1>1, <1>2, <1>3, <1>4, <1>5, <1>6, <1>7, <1>8, <1>9, <1>10 DEF Next, Instrument, InstControl

-----------------------------------------------------------------------------
(* The thermostat *)

LEMMA ThermoInit == Init => ThermoInv
  BY DEF Init, InstInit, ThermoInv

LEMMA ThermostatKeeps ==
  ASSUME NEW bad, InstTypes, ThermoInv, Decide(bad)
  PROVE  ThermoInv'
  <1>1. thermo' = Thermostat(thermo, "temp" \notin bad, temp)
    BY DEF Decide
  <1>2. extreme' = IF "temp" \notin bad /\ temp # "mid" THEN temp ELSE extreme
    BY DEF Decide
  <1>3. CASE "temp" \in bad
    BY <1>1, <1>2, <1>3 DEF Thermostat, ThermoInv
  <1>4. CASE "temp" \notin bad
    <2>1. CASE temp = "mid"
      BY <1>1, <1>2, <1>4, <2>1 DEF Thermostat, ThermoInv
    <2>2. CASE temp = "low"
      BY <1>1, <1>2, <1>4, <2>2 DEF Thermostat, ThermoInv
    <2>3. CASE temp = "high"
      BY <1>1, <1>2, <1>4, <2>3 DEF Thermostat, ThermoInv
    <2> QED BY <2>1, <2>2, <2>3 DEF InstTypes
  <1> QED BY <1>3, <1>4

LEMMA ThermoNext ==
  ASSUME InstTypes, ThermoInv, [Next]_vars
  PROVE  ThermoInv'
  <1>1. CASE UNCHANGED <<thermo, extreme>>
    BY <1>1 DEF ThermoInv
  <1>2. CASE \E bad : Decide(bad)
    BY <1>2, ThermostatKeeps
  <1>3. CASE Instrument
    <2>1. CASE \E bad : InstControl(bad)
      BY <1>1, <1>2, <2>1 DEF InstControl, CutCASES, ControlCASES, ControlHF, ControlSimple, history
    <2>2. CASE ~ \E bad : InstControl(bad)
      BY <1>1, <1>3, <2>2 DEF Instrument, Order, WorldChanges, LateCommand, InstRefresh, InstConstruct, InstStop,
                              states, history
    <2> QED BY <2>1, <2>2
  <1>4. CASE Communication
    BY <1>1, <1>4 DEF Communication, instVars, states, history
  <1>5. CASE UNCHANGED vars
    BY <1>1, <1>5 DEF vars, instVars, states, history
  <1> QED BY <1>3, <1>4, <1>5 DEF Next

-----------------------------------------------------------------------------
(* The schedule *)

\* Between two passes on the days before the minute of the stop at most two minutes begin.
LEMMA NextMinutes ==
  ASSUME NEW x \in Pass, NEW skip \in 0..PerMinute, x \div PerMinute < Stop
  PROVE  /\ x \div PerMinute \in Nat
         /\ ((x + 1 + skip) % (Minutes * PerMinute)) \div PerMinute
               \in {x \div PerMinute, x \div PerMinute + 1, x \div PerMinute + 2}
  <1> DEFINE q == x \div PerMinute
             y == x + 1 + skip
             M == Minutes * PerMinute
  <1>1. PerMinute \in Nat /\ PerMinute > 0 /\ Minutes \in Nat /\ Stop \in Nat /\ Stop + 1 < Minutes
    BY DEF PowerAssumption
  <1>2. x \in Nat /\ skip \in Nat /\ skip <= PerMinute /\ y \in Nat
    BY <1>1, PassBounds DEF Pass
  <1> HIDE PowerAssumption, CommAssumption
  <1>3. q \in Nat /\ q * PerMinute <= x /\ x < (q + 1) * PerMinute
    BY <1>1, <1>2
  <1>4. y \div PerMinute \in q..(q + 2) /\ y \div PerMinute \in Nat
    <2>1. ASSUME NEW P \in Nat, P > 0, NEW z \in Nat, NEW s \in 1..(P + 1)
          PROVE  (z + s) \div P \in (z \div P)..((z \div P) + 2) /\ (z + s) \div P \in Nat
      BY <2>1
    <2>2. 1 + skip \in 1..(PerMinute + 1) /\ y = x + (1 + skip)
      BY <1>1, <1>2
    <2> QED BY <1>1, <1>2, <2>1, <2>2
  <1>5. y < M
    <2>1. ASSUME NEW P \in Nat, P > 0, NEW z \in Nat, NEW n \in Nat, z \div P < n
          PROVE  z < n * P
      <3>1. z < (z \div P + 1) * P /\ z \div P \in Nat
        BY <2>1
      <3>2. (z \div P + 1) * P <= n * P
        BY <2>1, <3>1
      <3> QED BY <2>1, <3>1, <3>2
    <2>2. y \div PerMinute < Minutes
      BY <1>1, <1>3, <1>4
    <2> QED BY <1>1, <1>2, <2>1, <2>2
  <1>6. y % M = y
    <2>1. M \in Nat
      BY PassBounds
    <2> HIDE DEF M, y
    <2> QED BY <1>2, <1>5, <2>1
  <1> QED
    <2>1. q \in Nat /\ y \div PerMinute \in {q, q + 1, q + 2}
      BY <1>3, <1>4
    <2> QED BY <1>6, <2>1

LEMMA WindowInit == Init => WindowInv
  BY DEF Init, InstInit, WindowInv

LEMMA WindowRefresh ==
  ASSUME LoopTypes, InstTypes, WindowInv, NEW bad, NEW skip \in 0..PerMinute, InstRefresh(bad, skip),
         which \in {"cases", "hf"}
  PROVE  WindowInv'
  <1> DEFINE next == now' \div PerMinute
  <1>1. now' = (now + 1 + skip) % (Minutes * PerMinute) /\ run' = run /\ Minute' = next
    BY DEF InstRefresh, Refresh, states, Minute
  <1>2. looked' = (looked /\ next = Minute)
    BY DEF InstRefresh
  <1>3. missed' = (missed \/ (run /\ next # Minute /\
                     (\/ Minute = Stop /\ ~looked
                      \/ Minute # Stop /\ next # Stop /\ next = (Minute + 2) % Minutes /\
                         (Minute + 1) % Minutes = Stop)))
    BY DEF InstRefresh
  <1>4. Start \in Nat /\ Stop \in Nat /\ Minutes \in Nat /\ Start < Stop /\ Stop + 1 < Minutes
    BY DEF PowerAssumption
  <1>5. looked' /\ Minute' = Stop => ~run'
    BY <1>1, <1>2 DEF WindowInv
  <1>6. ASSUME run'
        PROVE  InWindow' \/ missed' \/ Minute' = Stop
    <2>1. CASE missed
      BY <1>3, <2>1
    <2>2. CASE Minute = Stop
      <3>1. ~looked
        BY <1>1, <1>6, <2>2 DEF WindowInv
      <3>2. CASE next = Minute
        BY <1>1, <2>2, <3>2
      <3>3. CASE next # Minute
        BY <1>1, <1>3, <1>6, <2>2, <3>1, <3>3
      <3> QED BY <3>2, <3>3
    <2>3. CASE Start <= Minute /\ Minute < Stop
      <3>1. Minute \in Nat /\ next \in {Minute, Minute + 1, Minute + 2}
        BY <1>1, <2>3, NextMinutes DEF LoopTypes, Minute
      <3>2. CASE next <= Stop
        <4>1. Start <= next /\ (next < Stop \/ next = Stop)
          BY <1>4, <2>3, <3>1, <3>2
        <4> QED BY <1>1, <4>1 DEF InWindow
      <3>3. CASE ~(next <= Stop)
        <4>1. next = Minute + 2 /\ Minute + 1 = Stop
          BY <1>4, <2>3, <3>1, <3>3
        <4>2. (Minute + 2) % Minutes = Minute + 2 /\ (Minute + 1) % Minutes = Minute + 1
          <5>1. Minute + 2 < Minutes /\ Minute + 1 < Minutes
            BY <1>4, <3>1, <4>1
          <5>2. ASSUME NEW n \in Nat, NEW m \in Nat, n < m
                PROVE  n % m = n
            BY <5>2
          <5> HIDE DEF Minute
          <5>3. Minute + 2 \in Nat /\ Minute + 1 \in Nat
            BY <3>1
          <5> QED BY <1>4, <5>1, <5>2, <5>3
        <4>3. next # Minute /\ Minute # Stop /\ next # Stop
          BY <1>4, <3>1, <4>1
        <4> QED BY <1>1, <1>3, <1>6, <4>1, <4>2, <4>3
      <3> QED BY <3>2, <3>3
    <2>4. InWindow \/ missed \/ Minute = Stop
      BY <1>1, <1>6 DEF WindowInv
    <2> QED BY <2>1, <2>2, <2>3, <2>4 DEF InWindow
  <1> QED BY <1>5, <1>6 DEF WindowInv

LEMMA RunsInWindow ==
  ASSUME LoopTypes, InstTypes, WindowInv, NEW bad, Decide(bad), run',
         which \in {"cases", "hf"}
  PROVE  (InWindow \/ missed') /\ Minute # Stop
  <1>1. PICK full \in BOOLEAN : run' = Schedule(run, full)
    BY DEF Decide
  <1>2. missed' = (missed /\ run /\ run')
    BY DEF Decide
  <1>3. CASE run
    <2>1. Minute # Stop
      BY <1>1, <1>3 DEF Schedule
    <2>2. InWindow \/ missed
      BY <1>3, <2>1 DEF WindowInv
    <2> QED BY Zenon, <1>2, <1>3, <2>1, <2>2
  <1>4. CASE ~run
    <2>1. Minute = Start
      BY <1>1, <1>4 DEF Schedule
    <2>2. Start \in Nat /\ Stop \in Nat /\ Start < Stop
      BY DEF PowerAssumption
    <2> QED BY <2>1, <2>2 DEF InWindow
  <1> QED BY <1>3, <1>4

LEMMA WindowDecide ==
  ASSUME LoopTypes, InstTypes, WindowInv, NEW bad, Decide(bad), now' = now,
         which \in {"cases", "hf"}
  PROVE  WindowInv'
  <1>1. Minute' = Minute /\ (InWindow' <=> InWindow)
    BY DEF Minute, InWindow
  <1>2. run' => (InWindow \/ missed') /\ Minute # Stop
    BY RunsInWindow
  <1> QED BY Zenon, <1>1, <1>2 DEF WindowInv

LEMMA WindowNext ==
  ASSUME LoopTypes, InstTypes, WindowInv, [Next]_vars
  PROVE  WindowInv'
  <1> SUFFICES ASSUME which' \in {"cases", "hf"}
               PROVE  WindowInv'
    BY DEF WindowInv
  <1>1. CASE UNCHANGED <<which, now, run, looked, missed>>
    BY <1>1 DEF WindowInv, InWindow, Minute
  <1>2. CASE Order \/ WorldChanges \/ \E state, done : LateCommand(state, done)
    BY <1>1, <1>2 DEF Order, WorldChanges, LateCommand, states, history
  <1>3. CASE \E bad \in Failing({"status"}), skip \in 0..PerMinute : InstRefresh(bad, skip)
    <2>1. PICK bad \in Failing({"status"}), skip \in 0..PerMinute : InstRefresh(bad, skip)
      BY <1>3
    <2>2. which' = which
      BY <2>1 DEF InstRefresh, Refresh
    <2> QED BY <2>1, <2>2, WindowRefresh
  <1>4. CASE \E bad : ControlCASES(bad) \/ ControlHF(bad)
    <2>1. PICK bad : Decide(bad) /\ now' = now /\ which' = which
      BY <1>4 DEF ControlCASES, ControlHF, ControlStep
    <2> QED BY <2>1, WindowDecide
  <1>5. CASE \E bad : CutCASES(bad) \/ ControlSimple(bad) \/ InstConstruct(bad) \/ InstStop(bad)
    BY <1>1, <1>5 DEF CutCASES, ControlSimple, ControlStep, InstConstruct, InstStop, states, history
  <1>6. CASE Communication
    <2>1. UNCHANGED <<run, looked, missed>>
      BY <1>6 DEF Communication, instVars, states, history
    <2>2. UNCHANGED <<which, now>>
      BY <1>6, CommunicationKeeps DEF loopVars
    <2> QED BY <1>1, <2>1, <2>2
  <1>7. CASE UNCHANGED vars
    BY <1>1, <1>7 DEF vars, loopVars, instVars, states, history
  <1> QED BY Zenon, <1>2, <1>3, <1>4, <1>5, <1>6, <1>7 DEF Next, Instrument, InstControl

-----------------------------------------------------------------------------
(* The rules *)

LEMMA RulesInit == Init => RulesInv
  BY DEF Init, LoopInit, RulesInv, FollowsRules

\* A pass that saw what is leaves CASES and HF as Wanted, or CASES halted.
LEMMA WantedFollowed ==
  ASSUME LoopTypes, InstTypes, ThermoInv', NEW bad, bad = {}, shown = power,
         ControlCASES(bad) \/ ControlHF(bad)
  PROVE  power' = Wanted' \/ (power' /\ pending')
  <1>1. which' = which /\ mode' = mode /\ enable' = enable
    BY DEF ControlCASES, ControlHF, ControlStep, orders
  <1>2. thermo'.on <=> extreme' # "high"
    BY DEF ThermoInv
  <1>3. ShouldBeOn(bad) <=> /\ enable
                            /\ extreme' # "high"
                            /\ (which = "cases" /\ mode = "update") \/ run'
    <2>1. Status(bad) # {} /\ "temp" \notin bad
      BY DEF Status
    <2> QED BY <1>2, <2>1 DEF ShouldBeOn
  <1>4. PICK s \in BOOLEAN : s = ShouldBeOn(bad)
    <2>1. ShouldBeOn(bad) \in BOOLEAN
      BY Zenon DEF ShouldBeOn
    <2> QED BY <2>1
  <1>5. s = Wanted'
    <2>1. Wanted' <=> /\ enable
                      /\ extreme' # "high"
                      /\ (which = "cases" /\ mode = "update") \/ run'
      BY <1>1 DEF Wanted
    <2>2. Wanted' \in BOOLEAN
      BY Zenon DEF Wanted
    <2> QED BY Zenon, <1>3, <1>4, <2>1, <2>2
  <1>6. Status(bad) = {power} /\ power \in BOOLEAN
    BY DEF Status, LoopTypes
  <1>7. ASSUME NEW state, SetPower(state, bad)
        PROVE  power' = state
    BY <1>7 DEF SetPower
  <1>8. power' = s \/ (power' /\ pending')
    <2>1. CASE ControlCASES(bad)
      <3>1. IF Status(bad) = {ShouldBeOn(bad)}
            THEN UNCHANGED <<power, late, pending, unhalted>> /\ Computer(FALSE)
            ELSE IF ShouldBeOn(bad)
            THEN SetPower(TRUE, bad) /\ Computer(FALSE) /\ UNCHANGED <<pending, unhalted>>
            ELSE /\ UNCHANGED <<power, late>>
                 /\ pending' = TRUE
                 /\ Computer("halt" \notin bad)
                 /\ unhalted' = ("halt" \in bad)
        BY Zenon, <2>1 DEF ControlCASES
      <3>2. CASE power = s
        <4>1. UNCHANGED <<power, late, pending, unhalted>>
          BY Zenon, <1>4, <1>6, <3>1, <3>2
        <4> QED BY <3>2, <4>1
      <3>3. CASE power # s /\ s
        <4>1. {power} # {ShouldBeOn(bad)}
          BY <1>4, <3>3
        <4>2. SetPower(TRUE, bad)
          BY Zenon, <1>4, <1>6, <3>1, <3>3, <4>1
        <4> QED BY <1>7, <3>3, <4>2
      <3>4. CASE power # s /\ ~s
        <4>1. {power} # {ShouldBeOn(bad)}
          BY <1>4, <3>4
        <4>2. UNCHANGED <<power, late>> /\ pending' = TRUE
          BY Zenon, <1>4, <1>6, <3>1, <3>4, <4>1
        <4> QED BY <1>6, <3>4, <4>2
      <3> QED BY <3>2, <3>3, <3>4
    <2>2. CASE ControlHF(bad)
      <3>1. IF {power} = {s} THEN power' = power ELSE SetPower(s, bad)
        BY Zenon, <1>4, <1>6, <2>2 DEF ControlHF
      <3> QED BY <1>6, <1>7, <3>1
    <2> QED BY <2>1, <2>2
  <1> QED BY Zenon, <1>5, <1>8

\* A pass that saw what is leaves fluxgate, heater and GPS as the rules ask for.
LEMMA SimpleFollowed ==
  ASSUME LoopTypes, InstTypes, NEW bad, bad = {}, shown = power, ControlSimple(bad)
  PROVE  /\ which = "fg" => power' = enable'
         /\ which = "htr" => (temp' = "low" => power') /\ (temp' = "high" => ~power')
         /\ which = "gps" => (age' = "fresh" => ~power') /\ (age' = "old" => power')
  <1>1. UNCHANGED <<enable, temp, age>> /\ Status(bad) = {power} /\ power \in BOOLEAN /\ enable \in BOOLEAN
    BY DEF ControlSimple, ControlStep, orders, Status, LoopTypes, InstTypes
  <1>2. ASSUME NEW state, SetPower(state, bad)
        PROVE  power' = state
    BY <1>2 DEF SetPower
  <1>3. ASSUME which = "fg"
        PROVE  power' = enable'
    <2>1. IF {power} = {~enable} THEN SetPower(enable, bad) ELSE power' = power
      BY <1>1, <1>3 DEF ControlSimple, FGSCRule
    <2> QED BY <1>1, <1>2, <2>1
  <1>4. ASSUME which = "htr"
        PROVE  (temp' = "low" => power') /\ (temp' = "high" => ~power')
    <2>1. desired' = HeaterState(temp, desired)
      BY <1>4 DEF ControlSimple
    <2>2. IF {power} = {~desired'} THEN SetPower(desired', bad) ELSE power' = power
      BY <1>1, <1>4 DEF ControlSimple
    <2>3. CASE temp = "low"
      <3>1. desired' = TRUE
        BY <2>1, <2>3 DEF HeaterState
      <3> QED BY <1>1, <1>2, <2>2, <2>3, <3>1
    <2>4. CASE temp = "high"
      <3>1. desired' = FALSE
        BY <2>1, <2>4 DEF HeaterState
      <3> QED BY <1>1, <1>2, <2>2, <2>4, <3>1
    <2> QED BY <1>1, <2>3, <2>4
  <1>5. ASSUME which = "gps"
        PROVE  (age' = "fresh" => ~power') /\ (age' = "old" => power')
    <2>1. GPSRule(age, bad)
      BY <1>5 DEF ControlSimple
    <2>2. CASE age = "fresh" /\ power
      BY <1>1, <1>2, <2>1, <2>2 DEF GPSRule
    <2>3. CASE age = "old" /\ ~power
      BY <1>1, <1>2, <2>1, <2>3 DEF GPSRule
    <2>4. CASE ~(age = "fresh" /\ power) /\ ~(age = "old" /\ ~power)
      <3>1. UNCHANGED power
        BY <1>1, <2>1, <2>4 DEF GPSRule
      <3> QED BY <1>1, <2>4, <3>1
    <2> QED BY <2>2, <2>3, <2>4
  <1> QED BY <1>3, <1>4, <1>5

LEMMA RulesNext ==
  ASSUME LoopTypes, InstTypes, ThermoInv, ThermoInv', WindowInv, RulesInv, [Next]_vars
  PROVE  RulesInv'
  <1>1. CASE view' # "true"
    BY <1>1 DEF RulesInv, FollowsRules
  <1>2. CASE pc' \notin {"start", "refresh"}
    BY <1>2 DEF RulesInv, FollowsRules
  <1>3. CASE UNCHANGED <<loopVars, instVars>>
    BY <1>3 DEF RulesInv, FollowsRules, loopVars, instVars, orders, world, states, history,
                Wanted, InWindow, Minute
  <1>4. CASE Order \/ WorldChanges \/ (\E state, done : LateCommand(state, done)) \/ (\E bad : CutCASES(bad))
    <2>1. view' # "true"
      BY <1>4 DEF Order, WorldChanges, LateCommand, CutCASES, Changed
    <2> QED BY <1>1, <2>1
  <1>5. CASE \E bad : (\E skip : InstRefresh(bad, skip)) \/ InstStop(bad)
    BY <1>2, <1>5 DEF InstRefresh, Refresh, InstStop
  <1>6. CASE \E bad : InstConstruct(bad)
    <2>1. view' # "true"
      BY <1>6 DEF InstConstruct, RulesInv
    <2> QED BY <1>1, <2>1
  <1>7. CASE view' = "true" /\ \E bad : ControlCASES(bad) \/ ControlHF(bad) \/ ControlSimple(bad)
    <2>1. PICK bad : ControlCASES(bad) \/ ControlHF(bad) \/ ControlSimple(bad)
      BY <1>7
    <2>2. Look(bad) /\ ControlStep(bad)
      BY <2>1 DEF ControlCASES, ControlHF, ControlSimple
    <2>3. bad = {} /\ shown = power
      BY <1>7, <2>2 DEF Look
    <2>4. pc' = "refresh" /\ which' = which /\ now' = now
      BY <2>2 DEF ControlStep
    <2>5. CASE ControlCASES(bad) \/ ControlHF(bad)
      <3>1. which \in {"cases", "hf"} /\ Decide(bad)
        BY <2>5 DEF ControlCASES, ControlHF
      <3>2. power' = Wanted' \/ (power' /\ pending')
        BY <2>3, <2>5, WantedFollowed
      <3>3. run' => InWindow \/ missed'
        BY <3>1, RunsInWindow
      <3>4. InWindow' <=> InWindow
        BY <2>4 DEF InWindow, Minute
      <3>5. which' \in {"cases", "hf"}
        BY <2>4, <3>1
      <3>6. FollowsRules'
        BY Zenon, <3>2, <3>3, <3>4, <3>5 DEF FollowsRules
      <3> QED BY <2>4, <3>6 DEF RulesInv
    <2>6. CASE ControlSimple(bad)
      <3>1. which \in {"fg", "htr", "gps"}
        BY <2>6 DEF ControlSimple
      <3>2. /\ which = "fg" => power' = enable'
            /\ which = "htr" => (temp' = "low" => power') /\ (temp' = "high" => ~power')
            /\ which = "gps" => (age' = "fresh" => ~power') /\ (age' = "old" => power')
        BY <2>3, <2>6, SimpleFollowed
      <3>3. FollowsRules'
        BY <2>4, <3>1, <3>2 DEF FollowsRules
      <3> QED BY <2>4, <3>3 DEF RulesInv
    <2> QED BY <2>1, <2>5, <2>6
  <1>8. CASE Communication
    <2>1. CASE UNCHANGED loopVars
      BY <1>3, <1>8, <2>1 DEF Communication
    <2>2. CASE ~ UNCHANGED loopVars
      <3>1. which' \in {"irid", "comm"} /\ (pc' = "start" => view' # "true")
        BY <1>8, <2>2, CommunicationKeeps DEF RulesInv
      <3>2. FollowsRules'
        BY <3>1 DEF FollowsRules
      <3> QED BY <3>1, <3>2 DEF RulesInv
    <2> QED BY <2>1, <2>2
  <1>9. CASE UNCHANGED vars
    BY <1>3, <1>9 DEF vars
  <1> QED BY Zenon, <1>1, <1>4, <1>5, <1>6, <1>7, <1>8, <1>9 DEF Next, Instrument, InstControl

-----------------------------------------------------------------------------
(* The monitor of the link *)

LEMMA LinkInit == Init => LinkInv
  BY DEF Init, LoopInit, CommInit, LinkInv

\* Both counters of passes stop at one limit, so they keep their order.
LEMMA CountKeepsOrder ==
  ASSUME NEW max \in Nat, NEW m \in 0..max, NEW n \in 0..max, m <= n
  PROVE  Count(m, max) <= Count(n, max)
  <1> HIDE PowerAssumption, CommAssumption
  <1> QED BY DEF Count

\* What a check of the monitor does, if its files tell the truth: it restarts the timer
\* in the state of the link, or keeps state and timer and may order a reboot.
LEMMA CheckKeeps ==
  ASSUME CommTypes, LinkInv, which = "comm", CheckComm
  PROVE  /\ comm' \notin {"powered_up", "powered_down", "init"}
         /\ \/ /\ comm' # comm /\ timer' = 0 /\ reboot' = reboot
               /\ comm' = "connected" => LinkIsUp
               /\ comm' = "disconnected" => ~LinkIsUp
            \/ /\ comm' = comm /\ timer' = timer /\ comm # "init"
               /\ (comm = "connected") <=> LinkIsUp
               /\ reboot' /\ ~reboot => timer > IF LinkIsUp THEN MaxUp ELSE MaxDown
  <1>1. comm \in {"init", "starting_up", "connected", "disconnected"}
    BY DEF CommTypes, LinkInv
  <1>2. CASE comm = "init"
    BY <1>2 DEF CheckComm, RestartTimer
  <1>3. CASE comm # "init" /\ LinkIsUp /\ comm # "connected"
    BY <1>3 DEF CheckComm, RestartTimer
  <1>4. CASE comm = "connected" /\ ~LinkIsUp
    BY <1>4 DEF CheckComm, RestartTimer
  <1>5. CASE comm = "connected" /\ LinkIsUp
    BY <1>5 DEF CheckComm, KeepTimer
  <1>6. CASE comm # "init" /\ comm # "connected" /\ ~LinkIsUp
    BY <1>1, <1>6 DEF CheckComm, KeepTimer
  <1> QED BY <1>2, <1>3, <1>4, <1>5, <1>6

\* A reboot that nothing excuses follows a link that was long as it is.
LEMMA MonitorJustified ==
  ASSUME CommTypes, CommTypes', LinkInv, MonitorComm
  PROVE  /\ LinkInv'
         /\ reboot' /\ ~reboot => excuse' \/ steady' > IF link THEN MaxUp ELSE MaxDown
  <1>1. which = "comm" /\ which' = "comm" /\ was' = link /\ link' = link
    BY DEF MonitorComm
  <1>2. steady' = IF comm # "init" /\ (was = link \/ (comm = "starting_up" /\ ~link)) THEN steady ELSE 0
    BY DEF MonitorComm
  <1>3. excuse' = (LinkIsUp # link \/ (excuse /\ comm' = comm))
    BY DEF MonitorComm
  <1>4. timer \in Nat /\ steady \in Nat /\ steady' \in Nat /\ link \in BOOLEAN /\ was \in BOOLEAN
        /\ reboot \in BOOLEAN /\ excuse \in BOOLEAN
    BY DEF CommTypes, CommAssumption
  <1>5. comm \in {"init", "starting_up", "connected", "disconnected"}
    BY <1>1 DEF CommTypes, LinkInv
  <1>6. CASE reboot /\ comm # "starting_up"
    <2>1. reboot' = reboot /\ comm' = comm
      BY <1>6 DEF MonitorComm
    <2> QED BY <1>1, <1>6, <2>1 DEF LinkInv
  <1>7. CASE CheckComm /\ excuse'
    <2>1. comm' \notin {"powered_up", "powered_down"}
      BY <1>1, <1>7, CheckKeeps
    <2> QED BY <1>7, <2>1 DEF LinkInv
  <1>8. CASE CheckComm /\ ~excuse' /\ comm' # comm
    <2>1. LinkIsUp <=> link
      BY Zenon, <1>3, <1>4, <1>8 DEF LinkIsUp
    <2>2. /\ comm' \notin {"powered_up", "powered_down", "init"}
          /\ timer' = 0 /\ reboot' = reboot
          /\ comm' = "connected" => LinkIsUp
          /\ comm' = "disconnected" => ~LinkIsUp
      BY <1>1, <1>8, CheckKeeps
    <2>3. timer' <= steady'
      BY <1>4, <2>2
    <2> QED BY <1>1, <2>1, <2>2, <2>3 DEF LinkInv
  <1>9. CASE CheckComm /\ ~excuse' /\ comm' = comm
    <2>1. (LinkIsUp <=> link) /\ ~excuse
      BY Zenon, <1>3, <1>4, <1>9 DEF LinkIsUp
    <2>2. /\ comm' \notin {"powered_up", "powered_down", "init"}
          /\ timer' = timer /\ comm # "init"
          /\ (comm = "connected") <=> LinkIsUp
          /\ reboot' /\ ~reboot => timer > IF LinkIsUp THEN MaxUp ELSE MaxDown
      BY <1>1, <1>9, CheckKeeps
    <2>3. ASSUME ~reboot
          PROVE  timer <= steady' /\ (comm = "connected" => link) /\ (comm = "disconnected" => ~link)
      <3>1. (comm = "connected" => was) /\ (comm = "disconnected" => ~was) /\ timer <= steady
        BY <1>1, <2>1, <2>2, <2>3 DEF LinkInv
      <3>2. was = link \/ (comm = "starting_up" /\ ~link)
        BY <1>4, <1>5, <2>1, <2>2, <3>1
      <3>3. steady' = steady
        BY Zenon, <1>2, <2>2, <3>2
      <3> QED BY <2>1, <2>2, <3>1, <3>3
    <2>4. reboot' /\ ~reboot => steady' > IF link THEN MaxUp ELSE MaxDown
      <3>1. MaxUp \in Nat /\ MaxDown \in Nat
        BY DEF CommAssumption
      <3>2. ASSUME reboot', ~reboot
            PROVE  steady' > IF link THEN MaxUp ELSE MaxDown
        <4>1. timer <= steady'
          BY <2>3, <3>2
        <4>2. CASE link
          <5>1. timer > MaxUp
            BY <2>1, <2>2, <3>2, <4>2
          <5> QED BY <1>4, <3>1, <4>1, <4>2, <5>1
        <4>3. CASE ~link
          <5>1. timer > MaxDown
            BY <2>1, <2>2, <3>2, <4>3
          <5> QED BY <1>4, <3>1, <4>1, <4>3, <5>1
        <4> QED BY <4>2, <4>3
      <3> QED BY <3>2
    <2>5. ~reboot' => ~reboot
      <3>1. CASE comm = "connected" /\ LinkIsUp
        BY Zenon, <1>5, <1>9, <3>1 DEF MonitorComm, CheckComm, KeepTimer
      <3>2. CASE ~(comm = "connected" /\ LinkIsUp)
        BY <1>5, <1>9, <2>2, <3>2 DEF CheckComm, KeepTimer
      <3> QED BY <3>1, <3>2
    <2> QED BY <1>1, <1>9, <2>2, <2>3, <2>4, <2>5 DEF LinkInv
  <1> QED BY <1>6, <1>7, <1>8, <1>9 DEF MonitorComm

LEMMA LinkNext ==
  ASSUME LoopTypes, CommTypes, CommTypes', LinkInv, [Next]_vars
  PROVE  LinkInv'
  <1>1. CASE UNCHANGED <<which, comm, reboot, excuse, was, timer, steady>>
    BY <1>1 DEF LinkInv
  <1>2. which' = which
    BY CommunicationKeeps DEF Next, Instrument, InstControl, Order, WorldChanges, LateCommand, InstRefresh, Refresh,
       CutCASES, ControlCASES, ControlHF, ControlSimple, ControlStep, InstConstruct, InstStop, vars, loopVars
  <1>3. CASE which # "comm"
    BY <1>2, <1>3 DEF LinkInv
  <1>4. CASE Instrument \/ UNCHANGED vars
    BY <1>1, <1>2, <1>4 DEF Instrument, vars, commVars
  <1>5. CASE which = "comm" /\ Communication
    <2>1. CASE \E bad, skip : CommRefresh(bad, skip)
      <3>1. timer' = Count(timer, MaxUp + 1) /\ steady' = Count(steady, MaxUp + 1)
            /\ UNCHANGED <<comm, was, excuse, reboot>>
        BY <1>5, <2>1 DEF CommRefresh
      <3>2. MaxUp + 1 \in Nat /\ timer \in 0..(MaxUp + 1) /\ steady \in 0..(MaxUp + 1)
        BY DEF CommTypes, CommAssumption
      <3>3. timer <= steady => timer' <= steady'
        BY <3>1, <3>2, CountKeepsOrder
      <3> QED BY <1>2, <1>5, <3>1, <3>3 DEF LinkInv
    <2>2. CASE MonitorComm
      BY <2>2, MonitorJustified
    <2>3. CASE \E timeSet : ClockSet(timeSet)
      BY <2>3 DEF ClockSet, LinkInv, modemVars
    <2>4. CASE OrderPending \/ \E same : LinkBegins(same) \/ LinkMarked(same) \/ LinkEnds
      BY <1>1, <1>2, <2>4 DEF OrderPending, LinkBegins, LinkMarked, LinkEnds, modemVars, monitorVars
    <2>5. CASE \E bad : CommConstruct(bad) \/ CommStop(bad)
      BY <1>1, <1>2, <2>5 DEF CommConstruct, CommStop, commVars
    <2>6. ~ \/ \E off : OrderKill(off)
            \/ DataMove \/ TestCommand
            \/ \E state, done : LateModemCommand(state, done)
            \/ \E bad : ControlModem(bad) \/ HandleCommand(bad) \/ HandlePowerUp(bad)
      BY <1>5 DEF OrderKill, DataMove, TestCommand, LateModemCommand, ControlModem, HandleCommand, HandlePowerUp,
                  ModemStep
    <2> QED BY Zenon, <1>5, <2>1, <2>2, <2>3, <2>4, <2>5, <2>6 DEF Communication
  <1> QED BY <1>3, <1>4, <1>5 DEF Next

-----------------------------------------------------------------------------
(* The theorems *)

LEMMA IInvInit == Init => IInv
  BY TypesInit, HaltInit, ThermoInit, WindowInit, RulesInit, LinkInit DEF IInv

LEMMA IInvNext == IInv /\ [Next]_vars => IInv'
  <1> SUFFICES ASSUME IInv, [Next]_vars
               PROVE  IInv'
    OBVIOUS
  <1>1. LoopTypes /\ InstTypes /\ CommTypes /\ HaltInv /\ ThermoInv /\ WindowInv /\ RulesInv /\ LinkInv
    BY DEF IInv
  <1>2. LoopTypes' /\ InstTypes' /\ CommTypes'
    BY <1>1, TypesNext
  <1>3. HaltInv'
    <2>1. CASE which' = "cases"
      BY <1>1, <2>1, HaltNext
    <2>2. CASE which' # "cases"
      BY <2>2 DEF HaltInv
    <2> QED BY <2>1, <2>2
  <1>4. ThermoInv' /\ WindowInv'
    BY <1>1, ThermoNext, WindowNext
  <1>5. RulesInv'
    BY <1>1, <1>4, RulesNext
  <1>6. LinkInv'
    BY <1>1, <1>2, LinkNext
  <1> QED BY <1>2, <1>3, <1>4, <1>5, <1>6 DEF IInv

\* The inductive invariant holds of every behaviour of super with any of its controllers.
THEOREM InvariantHolds == Spec => []IInv
  BY IInvInit, IInvNext, PTL DEF Spec

\* All variables of super and its controllers keep their types.
THEOREM TypeCorrect == Spec => []TypeOK
  <1>1. IInv => TypeOK
    BY DEF IInv, LoopTypes, InstTypes, CommTypes, TypeOK
  <1> QED BY <1>1, InvariantHolds, PTL

\* After every pass that saw what is, a device is as its rules ask for, and CASES and
\* HF run in their window only, or have missed its end: for every schedule, every rate
\* of passes, and any sequence of orders, temperatures and failed or late calls.
THEOREM RulesFollowed == Spec => []FollowsRules
  <1>1. IInv => FollowsRules
    BY DEF IInv, RulesInv
  <1> QED BY <1>1, InvariantHolds, PTL

\* The loop cuts the power of CASES only after its computer was halted, or the halt
\* failed, or a late command had started it again.
THEOREM CutAfterHalt == Spec => CutOnlyHalted
  <1>1. ASSUME IInv, [Next]_vars
        PROVE  [which = "cases" /\ power /\ ~power' /\ pc \in {"refresh", "control"} /\ pc' # pc
                  => sbc = "halted" \/ unhalted \/ pc' = "stopped"]_vars
    <2> SUFFICES ASSUME Next, which = "cases", power, ~power', pc \in {"refresh", "control"}, pc' # pc
                 PROVE  sbc = "halted" \/ unhalted \/ pc' = "stopped"
      BY <1>1 DEF vars
    <2>1. pending /\ power => sbc = "halted" \/ unhalted
      BY <1>1 DEF IInv, HaltInv
    <2>2. ~ Communication
      BY CommunicationKeeps
    <2>3. CASE \E bad : CutCASES(bad)
      BY <2>1, <2>3 DEF CutCASES
    <2>4. CASE \E bad : InstStop(bad)
      BY <2>4 DEF InstStop
    <2>5. ~ \E bad : ControlCASES(bad)
      <3> SUFFICES ASSUME NEW bad, ControlCASES(bad)
                   PROVE  FALSE
        OBVIOUS
      <3>1. UNCHANGED power \/ SetPower(TRUE, bad)
        BY DEF ControlCASES
      <3> QED BY <3>1 DEF SetPower
    <2>6. ~ \E bad : ControlHF(bad) \/ ControlSimple(bad) \/ InstConstruct(bad) \/ \E skip : InstRefresh(bad, skip)
      BY DEF ControlHF, ControlSimple, InstConstruct, InstRefresh, Refresh
    <2>7. ~ (Order \/ WorldChanges \/ \E state, done : LateCommand(state, done))
      BY DEF Order, WorldChanges, LateCommand
    <2> QED BY Zenon, <2>2, <2>3, <2>4, <2>5, <2>6, <2>7 DEF Next, Instrument, InstControl
  <1> QED BY <1>1, InvariantHolds, PTL DEF Spec, CutOnlyHalted

\* The monitor orders a reboot only when the link has been down, or up, longer than its
\* limit, or the clock or the two files have misled it.
THEOREM RebootsAreJustified == Spec => RebootJustified
  <1>1. ASSUME IInv, [Next]_vars
        PROVE  [reboot' /\ ~reboot => excuse' \/ steady' > IF link THEN MaxUp ELSE MaxDown]_vars
    <2> SUFFICES ASSUME Next, reboot', ~reboot
                 PROVE  excuse' \/ steady' > IF link THEN MaxUp ELSE MaxDown
      BY <1>1 DEF vars
    <2>1. CommTypes /\ LinkInv
      BY <1>1 DEF IInv
    <2>2. CommTypes'
      BY <1>1, TypesNext DEF IInv
    <2>3. MonitorComm
      BY DEF Next, Instrument, Communication, OrderKill, OrderPending, DataMove, LateModemCommand, CommRefresh,
             ControlModem, TestCommand, HandleCommand, HandlePowerUp, ModemStep, LinkBegins, LinkMarked, LinkEnds,
             ClockSet, CommConstruct, CommStop, commVars, modemVars, monitorVars
    <2> QED BY <2>1, <2>2, <2>3, MonitorJustified
  <1> QED BY <1>1, InvariantHolds, PTL DEF Spec, RebootJustified
=============================================================================
