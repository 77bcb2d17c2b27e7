-------------------------------- MODULE HfMgr --------------------------------
(***************************************************************************)
(* The manager of the HF transmitter, the fifth of the managers that store *)
(* data files.  Its modem has a serial port; the power of both is switched *)
(* by super.  Several stations send test messages to each other, each in a *)
(* time slot of its own of a common cycle, and what a station receives     *)
(* between two power-ons of its modem is one data file, written when the   *)
(* manager finds the power off.                                            *)
(*                                                                         *)
(* The other managers are driven by their instruments' packets, this one   *)
(* by the wall clock, gps_mgr's doing, whose second within the cycle is    *)
(* testTime.  The stamp of a file is the time of the power-on, and now     *)
(* counts power-ons.  The thread's waits are exact, and hw_mgr's answer to *)
(* the question whether the power is on takes at most CallTime while the   *)
(* modem is in transmit mode; everywhere else a step takes any time.       *)
(***************************************************************************)
EXTENDS DataFiles

CONSTANTS NumSystems,   \* the stations
          TxPeriod,     \* length of a slot in seconds
          TxDeadTime,   \* seconds left free at the beginning of a slot
          TxTime,       \* seconds that a message and the wait after it take
          CallTime,     \* seconds that hw_mgr may take to answer
          MaxPowerOns   \* bound on the number of power-ons

TestPeriod == NumSystems * TxPeriod

\* hf_mgr_config.py has 5, 120, 10; a message is 38 characters at 50 bits a second.
ASSUME HfAssumption ==
    /\ NumSystems \in Nat \ {0, 1} /\ TxPeriod \in Nat /\ TxDeadTime \in Nat
    /\ TxTime \in Nat /\ CallTime \in Nat /\ MaxPowerOns \in 0..MaxTime
    /\ TxTime <= TxDeadTime
    /\ TxDeadTime <= TxPeriod
    /\ TxDeadTime + CallTime < TestPeriod - TxPeriod

Systems == 0..(NumSystems - 1)

VARIABLES sysIndex,   \* the station's slot, or NumSystems if its CPU's number is not in the list
          testTime,   \* the second of the cycle
          mode,       \* what the modem was last told to do
          hf          \* where HFMgrThread is, and the seconds it still waits there

hfVars == <<sysIndex, testTime, mode, hf>>

HfInit ==
    /\ sysIndex \in 0..NumSystems
    /\ testTime \in 0..(TestPeriod - 1)
    /\ kind # "hf" => sysIndex = 0 /\ testTime = 0
    /\ mode = "receive"
    /\ hf = [pc |-> "sync", timer |-> 0]

InTransmitWindow(i) == testTime \div TxPeriod = i

Stopped == dt.pc = "saving"

\* The top of a loop that tests _stop_event.
LoopTop(pc, timer) == hf' = [pc |-> IF Stopped THEN "ended" ELSE pc, timer |-> timer]
Goto(pc, timer) == hf' = [pc |-> pc, timer |-> timer]

NoFile == UNCHANGED <<content, disk, compress, saver>>
Still == UNCHANGED <<kind, now, dt, ready, sysIndex, testTime>>

\* What was received since the power-on is a file at once complete, given to a
\* SaveFileThread; if it cannot be opened it is lost.
StoreRxBuf(opened) ==
    IF opened
    THEN /\ content' = [content EXCEPT ![now] = <<now>>]
         /\ disk' = disk \union {now}
         /\ compress' = [compress EXCEPT ![now] = TRUE]
         /\ saver' = [saver EXCEPT ![<<now, 1>>] = "call"]
    ELSE NoFile

\* gps_mgr has set the clock, or the manager is being stopped.
Synchronized ==
    /\ hf.pc = "sync"
    /\ LoopTop("baud", 0)
    /\ NoFile /\ Still /\ UNCHANGED mode

\* The modem, just switched on, asks for the baud rate, and answers in time.
\* MaxPowerOns bounds how often that happens.
BaudRateSet ==
    /\ hf.pc = "baud" /\ now < MaxPowerOns
    /\ now' = now + 1
    /\ Goto("init", 0)
    /\ NoFile /\ UNCHANGED <<kind, dt, ready, sysIndex, testTime, mode>>

\* One command after the other, each answered or the rest is not sent.  A station
\* without a call sign raises an exception, which ends the thread and no more.
InitModem ==
    /\ hf.pc = "init"
    /\ IF sysIndex = NumSystems THEN Goto("crashed", 0) /\ UNCHANGED mode
       ELSE \/ LoopTop("receive", 0) /\ mode' = "receive"
            \/ LoopTop("baud", 0) /\ UNCHANGED mode
    /\ NoFile /\ Still

PowerIsOff(opened) ==
    /\ StoreRxBuf(opened)
    /\ LoopTop("baud", 0)

\* hw_mgr says that the power is off, or does not answer.
ReceivingEnds(opened) ==
    /\ hf.pc = "receive"
    /\ PowerIsOff(opened)
    /\ Still /\ UNCHANGED mode

\* The slot has begun: the others may still be sending, the dead time passes first.
WindowOpens ==
    /\ hf.pc = "receive" /\ InTransmitWindow(sysIndex)
    /\ Goto("dead", TxDeadTime)
    /\ NoFile /\ Still /\ UNCHANGED mode

\* The loop in _transmit asks hw_mgr first, if the loop in _manage lets it begin.
EnterTransmitMode ==
    /\ hf.pc = "dead" /\ hf.timer = 0
    /\ mode' = "transmit"
    /\ LoopTop("transmit", CallTime)
    /\ NoFile /\ Still

TransmittingEnds(opened) ==
    /\ hf.pc = "transmit"
    /\ PowerIsOff(opened)
    /\ mode' = "receive"
    /\ Still

SendUntested ==
    /\ hf.pc = "transmit"
    /\ \/ Goto("sending", TxTime) /\ UNCHANGED mode
       \/ ~InTransmitWindow(sysIndex) /\ LoopTop("receive", 0) /\ mode' = "receive"
    /\ NoFile /\ Still
\* The power is on: a message, if the slot has not ended.
SendTestMsg ==
    /\ hf.pc = "transmit"
    /\ IF InTransmitWindow(sysIndex) THEN Goto("sending", TxTime) /\ UNCHANGED mode
       ELSE LoopTop("receive", 0) /\ mode' = "receive"
    /\ NoFile /\ Still

TestMsgSentOnly ==
    /\ hf.pc = "sending" /\ hf.timer = 0
    /\ LoopTop("transmit", CallTime)
    /\ NoFile /\ Still /\ UNCHANGED mode
\* A manager that is stopped while it transmits puts the modem into receive mode.
TestMsgSent ==
    /\ hf.pc = "sending" /\ hf.timer = 0
    /\ LoopTop("transmit", CallTime)
    /\ mode' = IF Stopped THEN "receive" ELSE mode
    /\ NoFile /\ Still

LoopsEnd ==
    /\ hf.pc \in {"baud", "receive"} /\ Stopped
    /\ LoopTop(hf.pc, 0)
    /\ NoFile /\ Still /\ UNCHANGED mode

HfThread ==
    \/ Synchronized \/ InitModem \/ WindowOpens \/ EnterTransmitMode
    \/ SendTestMsg \/ TestMsgSent \/ LoopsEnd
    \/ \E opened \in BOOLEAN : ReceivingEnds(opened) \/ TransmittingEnds(opened)

\* A second passes, unless the thread has something to do before.
Second ==
    /\ kind = "hf"
    /\ hf.pc \in {"dead", "transmit", "sending"} => hf.timer > 0
    /\ testTime' = (testTime + 1) % TestPeriod
    /\ hf' = [hf EXCEPT !.timer = IF @ > 0 THEN @ - 1 ELSE 0]
    /\ UNCHANGED <<fileVars, sysIndex, mode>>

\* _run_mgr is interrupted; it waits for the thread and then for the SaveFileThreads.
StopHf ==
    /\ kind = "hf" /\ dt.pc = "run"
    /\ dt' = [dt EXCEPT !.pc = "saving"]
    /\ UNCHANGED <<kind, now, ready, content, disk, compress, saver, hfVars>>

HfEnds ==
    /\ kind = "hf" /\ Stopped
    /\ hf.pc \in {"ended", "crashed"}
    /\ \A id \in Ids : saver[id] = "none" \/ Finished(id)
    /\ dt' = [dt EXCEPT !.pc = "ended"]
    /\ UNCHANGED <<kind, now, ready, content, disk, compress, saver, hfVars>>

HfStep == (kind = "hf" /\ (HfThread \/ BaudRateSet)) \/ Second \/ StopHf \/ HfEnds

-----------------------------------------------------------------------------
(* Properties *)

\* The second t of the cycle is in the slot of station i, moved by the dead time.
InMovedSlot(t, i) == ((t + (TestPeriod - TxDeadTime)) % TestPeriod) \div TxPeriod = i

\* A station is on the air in its own slot only, each slot being moved by the dead
\* time: a message begun in the last second of the slot has ended before the next
\* station begins, and a status call that hangs over the end of the slot is not
\* followed by a message. So no two stations ever send at once (hf_mgr.py:142-167,
\* 228-239).
AirInSlot == hf.pc = "sending" => InMovedSlot(testTime, sysIndex)

\* The thread of a stopped manager leaves the modem transmitting if the stop came
\* in the dead time before it, when _manage's loop ends before _transmit could
\* undo it, and only then (hf_mgr.py:115-125, 142-146, 168).
NotLeftKeyed ==
    [][hf.pc # "ended" /\ hf'.pc = "ended" /\ mode' = "transmit" => hf.pc = "dead"]_<<fileVars, hfVars>>
=============================================================================
