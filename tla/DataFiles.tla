------------------------------ MODULE DataFiles ------------------------------
(***************************************************************************)
(* How the managers of the instruments cut what they receive into data     *)
(* files, and hand the files over to be stored.  There are five of them:   *)
(* the fluxgate ("fg"), the search coil ("sc"), the CASES receiver         *)
(* ("cases"), each a thread that reads a serial port, the housekeeping of  *)
(* super ("hskp"), called by its loop, and the HF transmitter ("hf"),      *)
(* whose thread is in module HfMgr.  A behaviour is about one of them;     *)
(* its rules for opening and closing a file are operators of their own.    *)
(* A closed file is given to a SaveFileThread, a thread of the same        *)
(* process, which asks usb_mgr to store it (module FileStore) and then     *)
(* deletes it.                                                             *)
(*                                                                         *)
(* A file is named by the time stamp of its first packet.  Packets are     *)
(* represented by their stamps.  Time is counted in units of one packet    *)
(* time of the instrument: one second for fg and sc, 15 seconds for hskp.  *)
(***************************************************************************)
EXTENDS Naturals, Sequences, SequencesExt

CONSTANTS Kinds,      \* the instruments, a subset of {"fg", "sc", "cases", "hskp", "hf"}
          MaxTime,    \* bound on the clock
          Period,     \* length of a file in packet times
          Day,        \* length of a day in packet times
          MaxSize     \* size at which a CASES file is closed

ASSUME FilesAssumption == /\ Kinds \subseteq {"fg", "sc", "cases", "hskp", "hf"}
                          /\ MaxTime \in Nat /\ Period \in Nat \ {0, 1} /\ MaxSize \in Nat \ {0, 1}
                          /\ Day \in Nat /\ Day > Period

None == MaxTime + 1            \* no path
Stamps == 0..MaxTime
Ids == Stamps \X {1, 2}        \* SaveFileThreads: the file and a number

VARIABLES kind,      \* which instrument this is
          now,       \* its clock
          dt,        \* the data thread: pc, file state, path, previous stamp, ...
          ready,     \* whether sc has seen a packet come at the start of a second
          content,   \* the packets in each file, by stamp
          disk,      \* the files that exist in the instrument's temp_dir
          compress,  \* for each file, whether it is to be compressed
          saver      \* what each SaveFileThread is doing

fileVars == <<kind, now, dt, ready, content, disk, compress, saver>>

Init ==
    /\ kind \in Kinds
    /\ now = 0
    /\ dt = [pc |-> IF kind = "fg" THEN "sync" ELSE "run", state |-> 1, path |-> None,
             prev |-> 0, size |-> 0]
    /\ ready = (kind # "sc")
    /\ content = [f \in Stamps |-> <<>>]
    /\ disk = {}
    /\ compress = [f \in Stamps |-> TRUE]
    /\ saver = [id \in Ids |-> "none"]

EndOfPeriod(t) == (t + 1) % Period = 0

\* A file that could be opened is new and holds the packet; one that could not
\* leaves its name behind.
OpenFile(t, opened, size) ==
    /\ dt' = IF opened THEN [dt EXCEPT !.path = t, !.state = 2, !.prev = t, !.size = size]
                       ELSE [dt EXCEPT !.path = t]
    /\ content' = IF opened THEN [content EXCEPT ![t] = <<t>>] ELSE content
    /\ disk' = IF opened THEN disk \union {t} ELSE disk
    /\ UNCHANGED <<compress, saver>>

\* The packet is written, unless it is dropped; then the file may be closed and
\* given to a SaveFileThread. path is what the manager remembers as its file.
WriteAndClose(t, drop, close, path, compressed, size) ==
    /\ content' = IF drop THEN content ELSE [content EXCEPT ![dt.path] = Append(@, t)]
    /\ dt' = IF close THEN [dt EXCEPT !.prev = t, !.state = 1, !.path = path, !.size = 0]
                      ELSE [dt EXCEPT !.prev = t, !.size = size]
    /\ compress' = IF close THEN [compress EXCEPT ![dt.path] = compressed] ELSE compress
    /\ saver' = IF close THEN [saver EXCEPT ![<<dt.path, 1>>] = "call"] ELSE saver
    /\ UNCHANGED disk

\* The fluxgate: files end with the period, and at a gap, whose packet is lost.
FgPacketGapKept(t, opened) ==
    IF dt.state = 1 THEN OpenFile(t, opened, 0)
    ELSE LET gap == t > dt.prev + 1
         IN  WriteAndClose(t, FALSE, gap \/ EndOfPeriod(t), None, TRUE, 0)
FgPacketRunsOn(t, opened) ==
    IF dt.state = 1 THEN OpenFile(t, opened, 0)
    ELSE LET gap == t > dt.prev + 1
         IN  WriteAndClose(t, gap, gap, None, TRUE, 0)
FgPacket(t, opened) ==
    IF dt.state = 1 THEN OpenFile(t, opened, 0)
    ELSE LET gap == t > dt.prev + 1
         IN  WriteAndClose(t, gap, gap \/ EndOfPeriod(t), None, TRUE, 0)

\* The search coil: as the fluxgate, but a closed file is not forgotten.
ScPacket(t, opened) ==
    IF dt.state = 1 THEN OpenFile(t, opened, 0)
    ELSE LET gap == t > dt.prev + 1
         IN  WriteAndClose(t, gap, gap \/ EndOfPeriod(t), dt.path, TRUE, 0)

\* CASES: files end by their age or their size; only the slow ones are compressed.
\* The age is the seconds of a timedelta, which has its days beside them.
TooOld(age) == age % Day >= Period

CasesPacketTooBig(t, opened, size) ==
    IF dt.state = 1 THEN OpenFile(t, opened, size)
    ELSE LET old == TooOld(t - dt.path)
         IN  WriteAndClose(t, FALSE, old \/ dt.size + size > MaxSize, None, old, dt.size + size)
CasesPacket(t, opened, size) ==
    IF dt.state = 1 THEN OpenFile(t, opened, size)
    ELSE LET old == TooOld(t - dt.path)
         IN  WriteAndClose(t, FALSE, old \/ dt.size + size >= MaxSize, None, old, dt.size + size)

\* Housekeeping: a record is written when hw_mgr's status was there; a file ends
\* with the last record of the period and with nothing else.
HskpRecord(t, opened) ==
    IF dt.state = 1 THEN OpenFile(t, opened, 0)
    ELSE WriteAndClose(t, FALSE, EndOfPeriod(t), None, TRUE, 0)

-----------------------------------------------------------------------------
\* The stamp of a packet is rounded to the next second if it is late.
FgTick(late, opened) ==
    /\ kind = "fg" /\ dt.pc = "run"
    /\ FgPacket(now + late, opened) /\ UNCHANGED ready

\* The search coil ignores packets until one comes close to the second.
ScTick(late, jitter, opened) ==
    /\ kind = "sc" /\ dt.pc = "run"
    /\ ready' = (ready \/ ~jitter)
    /\ IF ready' THEN ScPacket(now + late, opened)
       ELSE UNCHANGED <<dt, content, disk, compress, saver>>

CasesTick(opened, size) ==
    /\ kind = "cases" /\ dt.pc = "run"
    /\ CasesPacket(now, opened, size) /\ UNCHANGED ready

HskpTick(opened) ==
    /\ kind = "hskp" /\ dt.pc = "run"
    /\ HskpRecord(now, opened) /\ UNCHANGED ready

\* One packet time passes, with or without a packet; there is none for cases_mgr
\* while stop_rx_data makes it throw away what it reads.
Tick ==
    /\ kind # "hf" /\ now < MaxTime
    /\ dt.pc \in {"sync", "run"}
    /\ now' = now + 1
    /\ \/ \E opened \in BOOLEAN :
            \/ \E late \in {0, 1} : FgTick(late, opened) \/ \E jitter \in BOOLEAN : ScTick(late, jitter, opened)
            \/ \E size \in 1..(MaxSize - 1) : CasesTick(opened, size)
            \/ HskpTick(opened)
       \/ UNCHANGED <<dt, content, disk, compress, saver, ready>>
    /\ UNCHANGED kind

\* fg_mgr waits until gps_mgr has set the clock; the rest of the packet that it is
\* then in the middle of is skipped up to the delimiter.
ClockIsSet ==
    /\ dt.pc = "sync"
    /\ dt' = [dt EXCEPT !.pc = "run"]
    /\ UNCHANGED <<kind, now, ready, content, disk, compress, saver>>

\* The manager is stopped: what is in the file so far is saved too, under the
\* name that is remembered, by a thread that is waited for.
StopData ==
    /\ kind # "hf" /\ dt.pc \in {"sync", "run"}
    /\ IF dt.path = None
       THEN dt' = [dt EXCEPT !.pc = "ended"] /\ UNCHANGED saver
       ELSE LET id == <<dt.path, IF saver[<<dt.path, 1>>] = "none" THEN 1 ELSE 2>>
            IN  dt' = [dt EXCEPT !.pc = "saving"] /\ saver' = [saver EXCEPT ![id] = "call"]
    /\ UNCHANGED <<kind, now, ready, content, disk, compress>>

\* Its join returns when the thread ends, whatever is_running() says.
FinishedByFlag(id) == saver[id] = "done"
Finished(id) == saver[id] \in {"left", "done"}

DataThreadEnds ==
    /\ kind # "hf" /\ dt.pc = "saving"
    /\ IF saver[<<dt.path, 2>>] = "none" THEN Finished(<<dt.path, 1>>) ELSE Finished(<<dt.path, 2>>)
    /\ dt' = [dt EXCEPT !.pc = "ended"]
    /\ UNCHANGED <<kind, now, ready, content, disk, compress, saver>>

DataStep == Tick \/ ClockIsSet \/ StopData \/ DataThreadEnds

-----------------------------------------------------------------------------
(* Properties of the files *)

\* The packets of a fluxgate or search coil file follow each other without a
\* hole: a packet that comes after a gap is not stored behind it, whatever the
\* rounding of the stamps does, and the next file begins after it
\* (fg_mgr.py:193-207, sc_mgr.py).
NoGapInFile ==
    kind \in {"fg", "sc"} =>
        \A f \in Stamps : \A i \in 1..(Len(content[f]) - 1) : content[f][i + 1] - content[f][i] \in {0, 1}

\* No file holds packets from both sides of the end of a period, with two
\* exceptions: a file that begins with the last packet of a period, which is not
\* tested for the end, and a housekeeping file whose record of that time is
\* missing. A CASES file ("If tmp file is max size or too old save it in USB flash") is
\* written to once it is a period old only after a pause of about a day without
\* packets, whose days its age does not count (fg_mgr.py:193-207, sc_mgr.py,
\* super.py, cases_mgr.py:283-290).
ClosedInTime ==
    \A f \in Stamps : \A i \in 1..(Len(content[f]) - 1) :
        IF kind = "cases"
        THEN \/ content[f][i] - f < Period
             \/ \E j \in 2..i : content[f][j] - content[f][j - 1] > Day - Period
        ELSE \A e \in Stamps : /\ EndOfPeriod(e)
                               /\ content[f][i] <= e
                               /\ e < content[f][i + 1]
                               => f = e \/ (kind = "hskp" /\ content[f][i] # e)
=============================================================================
