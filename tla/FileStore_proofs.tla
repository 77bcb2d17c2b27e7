-------------------------- MODULE FileStore_proofs --------------------------
(* Theorems about FileStore, for every length of a period and of a slot,   *)
(* every bound on the clock and any number of HF stations.                 *)
EXTENDS FileStore, TLAPS

SaverPcs == {"none", "call", "copying", "copied", "ok", "left", "done"}
HfPcs == {"sync", "baud", "init", "receive", "dead", "transmit", "sending", "ended", "crashed"}
Jobs == [pc : {"mount", "compress", "copy", "delete", "hung"}, id : Ids]

Sizes == 0..(MaxSize - 1)
DataThreads == [pc : {"sync", "run", "saving", "ended"}, state : {1, 2}, path : Stamps \union {None},
                prev : Stamps, size : Sizes]

\* The types, with the job as a record.
FileTypeOK ==
    /\ kind \in Kinds /\ now \in 0..MaxTime /\ ready \in BOOLEAN
    /\ dt \in DataThreads
    /\ content \in [Stamps -> Seq(Stamps)] /\ disk \subseteq Stamps
    /\ compress \in [Stamps -> BOOLEAN]
    /\ saver \in [Ids -> SaverPcs]
HfTypeOK ==
    /\ sysIndex \in 0..NumSystems /\ testTime \in 0..(TestPeriod - 1) /\ mode \in {"receive", "transmit"}
    /\ hf \in [pc : HfPcs, timer : Nat]
    /\ kind # "hf" => hf.pc = "sync"
StoreTypeOK ==
    /\ serving \in BOOLEAN /\ tmp \subseteq Ids /\ queue \in Seq(Ids) /\ logged \subseteq Ids /\ late \subseteq Ids
    /\ disp \in {"loop", "drain", "wait", "ended"} /\ main \in {"run", "dispatcher", "ended"}
    /\ flash \in [Stamps -> {"none", "partial", "whole"}]
    /\ job \in Jobs \union {NoJob}

\* A file is something once it has a packet or a SaveFileThread.
Begun(f) == content[f] # <<>> \/ saver[<<f, 1>>] # "none"

\* A file on the disk has a packet, the first is the one it is named by, and it
\* leaves the disk by the hand of a SaveFileThread that ends with it.
DiskInv ==
    /\ \A f \in Stamps : content[f] # <<>> => content[f][1] = f
    /\ \A f \in disk : content[f] # <<>>
    /\ \A f \in Stamps : content[f] # <<>> /\ f \notin disk => saver[<<f, 1>>] = "done" \/ saver[<<f, 2>>] = "done"

Running == dt.pc \in {"sync", "run"}

\* The open file is the last that was begun, is there, has no SaveFileThread, and
\* ends with the previous packet; every file that is closed has a stamp that will
\* not come again.
ClosedFiles == \A f \in Stamps : Begun(f) => f < now
OpenFiles ==
    /\ dt.path \in disk /\ dt.path <= now
    /\ saver[<<dt.path, 1>>] = "none"
    /\ content[dt.path][Len(content[dt.path])] = dt.prev
    /\ dt.prev <= now
    /\ \A f \in Stamps : Begun(f) /\ f # dt.path => f < now
DataInv ==
    kind # "hf" /\ Running =>
        /\ \A f \in Stamps : saver[<<f, 2>>] = "none"
        /\ dt.pc = "sync" => dt.state = 1
        /\ dt.state = 1 => ClosedFiles
        /\ dt.state = 2 => OpenFiles

\* The HF manager has a file for each power-on, and none yet for one it has not left.
PoweredOn == {"init", "receive", "dead", "transmit", "sending"}
HfFilesInv ==
    kind = "hf" =>
        /\ dt.state = 1 /\ dt.path = None /\ dt.pc # "sync"
        /\ \A f \in Stamps : saver[<<f, 2>>] = "none"
        /\ \A f \in Stamps : Begun(f) => f <= now
        /\ hf.pc \in PoweredOn => ~Begun(now)
        /\ dt.pc = "ended" => hf.pc \in {"ended", "crashed"}

\* A packet that ends the period is the last of its file, unless the first.
Ended(f, last) == \A i \in 2..last : ~EndOfPeriod(content[f][i])
\* A packet of a CASES file came before the file was a period old, or not long
\* enough after a pause of about a day for its age to show.
Fresh(packets, f, i) ==
    packets[i] - f < Period \/ \E j \in 2..i : packets[j] - packets[j - 1] > Day - Period
Young(f, last) == \A i \in 1..last : Fresh(content[f], f, i)
PeriodInv ==
    /\ kind = "hf" => \A f \in Stamps : Len(content[f]) <= 1
    /\ kind \in {"fg", "sc", "hskp"} => \A f \in Stamps : Ended(f, Len(content[f]) - 1)
    /\ kind \in {"fg", "sc", "hskp"} /\ dt.state = 2 /\ Running => Ended(dt.path, Len(content[dt.path]))
    /\ kind = "cases" => \A f \in Stamps : Young(f, Len(content[f]) - 1)
    /\ kind = "cases" /\ dt.state = 2 /\ Running => Young(dt.path, Len(content[dt.path]))

\* What became of a file whose SaveFileThread has its answer.
Waits(id) == Hung /\ InQueue(id)
Accounted(id) == Pending(id) \/ id \in logged \/ Waits(id) \/ id \in late
Handled(f) == flash[f] = "whole" \/ \E k \in {1, 2} : Accounted(<<f, k>>)
StoreInv ==
    /\ \A id \in Ids : saver[id] = "copied" => id \in tmp
    /\ \A id \in Ids : InQueue(id) => saver[id] \in {"ok", "done"}
    /\ job # NoJob => Taken
    /\ job \in Jobs => saver[job.id] \in {"ok", "done"}
    /\ job \in Jobs /\ job.pc = "delete" => flash[job.id[1]] = "whole" \/ job.id \in logged
    /\ \A id \in Ids : saver[id] \in {"ok", "done"} => Handled(id[1])

USE FilesAssumption

LEMMA SizesFact == 0 \in Sizes /\ Sizes \subseteq Nat
BY DEF Sizes

LEMMA TypeInit == StoreInit => FileTypeOK /\ HfTypeOK /\ StoreTypeOK
<1> SUFFICES ASSUME StoreInit PROVE FileTypeOK /\ HfTypeOK /\ StoreTypeOK
  OBVIOUS
<1>1. FileTypeOK
  BY SizesFact DEF StoreInit, Init, FileTypeOK, DataThreads, SaverPcs, Stamps, None
<1>2. HfTypeOK
  BY DEF StoreInit, HfInit, HfTypeOK, HfPcs
<1>3. StoreTypeOK
  BY DEF StoreInit, StoreTypeOK, Jobs, NoJob, Stamps, Ids
<1> QED
  BY <1>1, <1>2, <1>3

-----------------------------------------------------------------------------
(* What a packet time can do, whichever instrument it is *)

Nothing == UNCHANGED <<dt, content, disk, compress, saver>>
DtBecomes(state, path, prev) ==
    dt' \in DataThreads /\ dt'.pc = dt.pc /\ dt'.state = state /\ dt'.path = path /\ dt'.prev = prev
Opened(t) ==
    /\ DtBecomes(2, t, t)
    /\ content' = [content EXCEPT ![t] = <<t>>]
    /\ disk' = disk \union {t}
    /\ UNCHANGED <<compress, saver>>
NotOpened(t) ==
    /\ DtBecomes(dt.state, t, dt.prev)
    /\ UNCHANGED <<content, disk, compress, saver>>
Written(t) ==
    /\ content' = [content EXCEPT ![dt.path] = Append(@, t)]
    /\ kind \in {"fg", "sc"} => t <= dt.prev + 1
KeptOpen(t) ==
    /\ Written(t)
    /\ kind # "cases" => ~EndOfPeriod(t)
    /\ kind = "cases" => ~TooOld(t - dt.path)
    /\ DtBecomes(2, dt.path, t)
    /\ UNCHANGED <<compress, saver, disk>>
Closed(t) ==
    /\ Written(t) \/ UNCHANGED content
    /\ DtBecomes(1, None, t) \/ DtBecomes(1, dt.path, t)
    /\ compress' \in [Stamps -> BOOLEAN]
    /\ saver' = [saver EXCEPT ![<<dt.path, 1>>] = "call"]
    /\ UNCHANGED disk
Packet(t) ==
    /\ dt.pc = "run"
    /\ \/ dt.state = 1 /\ (Opened(t) \/ NotOpened(t))
       \/ dt.state = 2 /\ (KeptOpen(t) \/ Closed(t))

LEMMA OpenOutcome ==
    ASSUME FileTypeOK, NEW t \in Stamps, NEW opened \in BOOLEAN, NEW size \in Sizes, OpenFile(t, opened, size)
    PROVE Opened(t) \/ NotOpened(t)
<1>1. CASE opened
  BY <1>1 DEF OpenFile, Opened, FileTypeOK, DataThreads, DtBecomes
<1>2. CASE ~opened
  BY <1>2 DEF OpenFile, NotOpened, FileTypeOK, DataThreads, DtBecomes
<1> QED
  BY <1>1, <1>2

LEMMA ClosedOutcome ==
    ASSUME FileTypeOK, dt.pc = "run", dt.state = 2, NEW t \in Stamps, NEW path \in {None, dt.path},
           dt' = [dt EXCEPT !.prev = t, !.state = 1, !.path = path, !.size = 0],
           Written(t) \/ UNCHANGED content, compress' \in [Stamps -> BOOLEAN],
           saver' = [saver EXCEPT ![<<dt.path, 1>>] = "call"], UNCHANGED disk
    PROVE Packet(t)
<1>1. DtBecomes(1, path, t)
  BY SizesFact DEF FileTypeOK, DataThreads, DtBecomes
<1> QED
  BY <1>1 DEF Packet, Closed

LEMMA KeptOutcome ==
    ASSUME FileTypeOK, dt.pc = "run", dt.state = 2, NEW t \in Stamps, NEW size \in Sizes,
           Written(t), kind # "cases" => ~EndOfPeriod(t), kind = "cases" => ~TooOld(t - dt.path),
           dt' = [dt EXCEPT !.prev = t, !.size = size], UNCHANGED <<compress, saver, disk>>
    PROVE Packet(t)
<1>1. DtBecomes(2, dt.path, t)
  BY DEF FileTypeOK, DataThreads, DtBecomes
<1> QED
  BY <1>1 DEF Packet, KeptOpen

LEMMA CompressTyped ==
    ASSUME FileTypeOK, NEW f, NEW c \in BOOLEAN, compress' = [compress EXCEPT ![f] = c]
    PROVE compress' \in [Stamps -> BOOLEAN]
BY DEF FileTypeOK

\* The fluxgate and the search coil.
LEMMA GapOutcome ==
    ASSUME FileTypeOK, dt.pc = "run", dt.state = 2, NEW t \in Stamps, NEW path \in {None, dt.path}, kind # "cases",
           WriteAndClose(t, t > dt.prev + 1, t > dt.prev + 1 \/ EndOfPeriod(t), path, TRUE, 0)
    PROVE Packet(t)
<1>1. t \in Nat /\ dt.prev \in Nat
  BY DEF FileTypeOK, DataThreads, Stamps
<1>2. CASE t > dt.prev + 1
  <2>1. /\ dt' = [dt EXCEPT !.prev = t, !.state = 1, !.path = path, !.size = 0]
        /\ UNCHANGED content /\ compress' = [compress EXCEPT ![dt.path] = TRUE]
        /\ saver' = [saver EXCEPT ![<<dt.path, 1>>] = "call"] /\ UNCHANGED disk
    BY <1>2 DEF WriteAndClose
  <2> QED
    BY <2>1, CompressTyped, ClosedOutcome
<1>3. CASE ~(t > dt.prev + 1) /\ EndOfPeriod(t)
  <2>1. /\ dt' = [dt EXCEPT !.prev = t, !.state = 1, !.path = path, !.size = 0]
        /\ content' = [content EXCEPT ![dt.path] = Append(@, t)] /\ compress' = [compress EXCEPT ![dt.path] = TRUE]
        /\ saver' = [saver EXCEPT ![<<dt.path, 1>>] = "call"] /\ UNCHANGED disk
    BY <1>3 DEF WriteAndClose
  <2>2. Written(t)
    BY <1>1, <1>3, <2>1 DEF Written
  <2> QED
    BY <2>1, <2>2, CompressTyped, ClosedOutcome
<1>4. CASE ~(t > dt.prev + 1) /\ ~EndOfPeriod(t)
  <2>1. /\ dt' = [dt EXCEPT !.prev = t, !.size = 0]
        /\ content' = [content EXCEPT ![dt.path] = Append(@, t)]
        /\ UNCHANGED <<compress, saver, disk>>
    BY <1>4 DEF WriteAndClose
  <2>2. Written(t)
    BY <1>1, <1>4, <2>1 DEF Written
  <2> QED
    BY <2>1, <2>2, <1>4, SizesFact, KeptOutcome
<1> QED
  BY <1>2, <1>3, <1>4

\* The four rules are of one kind.
LEMMA TickOutcome ==
    ASSUME FileTypeOK, DataInv, Tick
    PROVE /\ kind # "hf" /\ Running /\ now' = now + 1 /\ now < MaxTime /\ kind' = kind
          /\ ready' \in BOOLEAN
          /\ Nothing \/ \E t \in {now, now + 1} : Packet(t)
<1>1. kind # "hf" /\ Running /\ now' = now + 1 /\ now < MaxTime /\ kind' = kind /\ now \in Nat
  BY DEF Tick, Running, FileTypeOK
<1>2. now \in Stamps /\ now + 1 \in Stamps
  BY <1>1 DEF Stamps
<1>3. dt.size \in Sizes /\ dt.state \in {1, 2} /\ ready \in BOOLEAN
  BY DEF FileTypeOK, DataThreads
<1>4. ASSUME NEW t \in {now, now + 1}, NEW opened \in BOOLEAN, kind = "fg", dt.pc = "run", FgPacket(t, opened)
      PROVE Packet(t)
  BY <1>2, <1>3, <1>4, OpenOutcome, SizesFact, GapOutcome DEF FgPacket, Packet
<1>5. ASSUME NEW t \in {now, now + 1}, NEW opened \in BOOLEAN, kind = "sc", dt.pc = "run", ScPacket(t, opened)
      PROVE Packet(t)
  BY <1>2, <1>3, <1>5, OpenOutcome, SizesFact, GapOutcome DEF ScPacket, Packet
<1>6. ASSUME NEW delay \in {0, 1}, NEW opened \in BOOLEAN, NEW jitter \in BOOLEAN, ScTick(delay, jitter, opened)
      PROVE (Packet(now + delay) \/ Nothing) /\ ready' \in BOOLEAN
  <2>1. now + delay \in {now, now + 1}
    BY <1>1
  <2>2. kind = "sc" /\ dt.pc = "run" /\ ready' \in BOOLEAN
    BY <1>6, <1>3 DEF ScTick
  <2>3. ScPacket(now + delay, opened) \/ Nothing
    BY <1>6 DEF ScTick, Nothing
  <2> QED
    BY <2>1, <2>2, <2>3, <1>5
<1>7. ASSUME NEW opened \in BOOLEAN, NEW size \in 1..(MaxSize - 1), CasesTick(opened, size)
      PROVE Packet(now) /\ ready' = ready
  <2>1. kind = "cases" /\ dt.pc = "run" /\ CasesPacket(now, opened, size) /\ ready' = ready /\ size \in Sizes
    BY <1>7 DEF CasesTick, Sizes
  <2>2. CASE dt.state = 1
    BY <2>1, <2>2, <1>2, OpenOutcome DEF CasesPacket, Packet
  <2>3. CASE dt.state = 2
    <3>2. content' = [content EXCEPT ![dt.path] = Append(@, now)] /\ UNCHANGED disk
      BY <2>1, <2>3 DEF CasesPacket, WriteAndClose
    <3>3. Written(now)
      BY <3>2, <2>1 DEF Written
    <3>4. CASE TooOld(now - dt.path) \/ dt.size + size >= MaxSize
      <4>1. /\ dt' = [dt EXCEPT !.prev = now, !.state = 1, !.path = None, !.size = 0]
            /\ saver' = [saver EXCEPT ![<<dt.path, 1>>] = "call"]
        BY <2>1, <2>3, <3>4 DEF CasesPacket, WriteAndClose
      <4>2. \/ compress' = [compress EXCEPT ![dt.path] = TRUE]
            \/ compress' = [compress EXCEPT ![dt.path] = FALSE]
        BY <2>1, <2>3, <3>4 DEF CasesPacket, WriteAndClose
      <4>3. compress' \in [Stamps -> BOOLEAN]
        BY <4>2, CompressTyped
      <4> QED
        BY <4>1, <4>3, <3>2, <3>3, <2>1, <2>3, <1>2, ClosedOutcome
    <3>5. CASE ~(TooOld(now - dt.path) \/ dt.size + size >= MaxSize)
      <4>1. dt' = [dt EXCEPT !.prev = now, !.size = dt.size + size] /\ UNCHANGED <<compress, saver>>
        BY <2>1, <2>3, <3>5 DEF CasesPacket, WriteAndClose
      <4>2. dt.size + size \in Sizes
        BY <2>1, <3>5, <1>3 DEF Sizes
      <4> QED
        BY <4>1, <4>2, <3>2, <3>3, <3>5, <2>1, <2>3, <1>2, KeptOutcome
    <3> QED
      BY <3>4, <3>5
  <2> QED
    BY <2>1, <2>2, <2>3, <1>3
<1>8. ASSUME NEW opened \in BOOLEAN, HskpTick(opened)
      PROVE Packet(now) /\ ready' = ready
  <2>1. kind = "hskp" /\ dt.pc = "run" /\ HskpRecord(now, opened) /\ ready' = ready
    BY <1>8 DEF HskpTick
  <2>2. CASE dt.state = 1
    BY <2>1, <2>2, <1>2, OpenOutcome, SizesFact DEF HskpRecord, Packet
  <2>3. CASE dt.state = 2 /\ EndOfPeriod(now)
    <3>1. /\ dt' = [dt EXCEPT !.prev = now, !.state = 1, !.path = None, !.size = 0]
          /\ content' = [content EXCEPT ![dt.path] = Append(@, now)] /\ compress' = [compress EXCEPT ![dt.path] = TRUE]
          /\ saver' = [saver EXCEPT ![<<dt.path, 1>>] = "call"] /\ UNCHANGED disk
      BY <2>1, <2>3 DEF HskpRecord, WriteAndClose
    <3>2. Written(now)
      BY <3>1, <2>1 DEF Written
    <3> QED
      BY <3>1, <3>2, <2>1, <2>3, <1>2, CompressTyped, ClosedOutcome
  <2>4. CASE dt.state = 2 /\ ~EndOfPeriod(now)
    <3>1. /\ dt' = [dt EXCEPT !.prev = now, !.size = 0]
          /\ content' = [content EXCEPT ![dt.path] = Append(@, now)]
          /\ UNCHANGED <<compress, saver, disk>>
      BY <2>1, <2>4 DEF HskpRecord, WriteAndClose
    <3>2. Written(now)
      BY <3>1, <2>1 DEF Written
    <3> QED
      BY <3>1, <3>2, <2>1, <2>4, <1>2, SizesFact, KeptOutcome
  <2> QED
    BY <2>1, <2>2, <2>3, <2>4, <1>3
<1>9. ASSUME NEW delay \in {0, 1}, NEW opened \in BOOLEAN, FgTick(delay, opened)
      PROVE Packet(now + delay) /\ ready' = ready
  <2>1. now + delay \in {now, now + 1}
    BY <1>1
  <2> QED
    BY <2>1, <1>9, <1>4 DEF FgTick
<1>10. CASE UNCHANGED <<dt, content, disk, compress, saver, ready>>
  BY <1>10, <1>1, <1>3 DEF Nothing
<1>11. \A delay \in {0, 1} : now + delay \in {now, now + 1}
  BY <1>1
<1> QED
  BY <1>1, <1>3, <1>6, <1>7, <1>8, <1>9, <1>10, <1>11 DEF Tick

-----------------------------------------------------------------------------
(* The files *)

FileInv == DiskInv /\ DataInv /\ HfFilesInv /\ PeriodInv /\ NoGapInFile

LEMMA IdsFact ==
    /\ \A f \in Stamps, k \in {1, 2} : <<f, k>> \in Ids
    /\ \A id \in Ids : id[1] \in Stamps /\ id[2] \in {1, 2} /\ id = <<id[1], id[2]>>
BY DEF Ids

LEMMA StampsFact == Stamps \subseteq Nat /\ None \notin Stamps /\ None \in Nat /\ Stamps = 0..MaxTime
BY DEF Stamps, None

LEMMA FileInvInit == StoreInit => FileInv
<1> SUFFICES ASSUME StoreInit PROVE FileInv
  OBVIOUS
<1>1. \A f \in Stamps : content[f] = <<>>
  BY DEF StoreInit, Init
<1>2. \A f \in Stamps : saver[<<f, 1>>] = "none" /\ saver[<<f, 2>>] = "none"
  BY IdsFact DEF StoreInit, Init
<1>3. disk = {} /\ dt.state = 1 /\ dt.path = None /\ (kind = "hf" => dt.pc = "run")
  BY DEF StoreInit, Init
<1>10. \A f \in Stamps : ~Begun(f)
  BY <1>1, <1>2 DEF Begun
<1>11. \A f \in Stamps : Len(content[f]) = 0
  <2>1. Len(<<>>) = 0
    OBVIOUS
  <2> QED
    BY <2>1, <1>1, Zenon
<1>4. hf.pc = "sync"
  BY DEF StoreInit, HfInit
<1>5. DiskInv
  BY <1>1, <1>3 DEF DiskInv
<1>6. DataInv
  <2>1. dt.state = 1 /\ dt.state # 2
    BY <1>3
  <2>2. ClosedFiles
    BY <1>10 DEF ClosedFiles
  <2> QED
    BY <2>1, <2>2, <1>2, Zenon DEF DataInv
<1>7. HfFilesInv
  BY <1>2, <1>3, <1>4, <1>10 DEF HfFilesInv, PoweredOn
<1>8. PeriodInv
  BY <1>3, <1>11 DEF PeriodInv, Ended, Young
<1>9. NoGapInFile
  BY <1>11 DEF NoGapInFile
<1> QED
  BY <1>5, <1>6, <1>7, <1>8, <1>9 DEF FileInv

\* A packet written behind the others.
LEMMA WrittenFile ==
    ASSUME FileTypeOK, DiskInv, dt.state = 2, OpenFiles,
           NEW t \in Stamps, content' = [content EXCEPT ![dt.path] = Append(@, t)]
    PROVE LET n == Len(content[dt.path])
          IN  /\ content' \in [Stamps -> Seq(Stamps)]
              /\ dt.path \in Stamps /\ n \in Nat /\ n >= 1 /\ content[dt.path] \in Seq(Stamps)
              /\ Len(content'[dt.path]) = n + 1
              /\ \A i \in 1..n : content'[dt.path][i] = content[dt.path][i]
              /\ content'[dt.path][n + 1] = t /\ content[dt.path][n] = dt.prev
              /\ \A f \in Stamps : f # dt.path => content'[f] = content[f]
              /\ \A f \in Stamps : content'[f] # <<>> => content[f] # <<>>
              /\ \A f \in Stamps : content'[f] # <<>> => content'[f][1] = f
<1>1. dt.path \in Stamps /\ content[dt.path] \in Seq(Stamps) /\ content[dt.path] # <<>>
      /\ content[dt.path][1] = dt.path /\ content[dt.path][Len(content[dt.path])] = dt.prev
  BY DEF FileTypeOK, OpenFiles, DiskInv
<1>2. content'[dt.path] = Append(content[dt.path], t) /\ \A f \in Stamps : f # dt.path => content'[f] = content[f]
  BY <1>1 DEF FileTypeOK
<1>3. Append(content[dt.path], t) \in Seq(Stamps)
  BY <1>1
<1>4. content' \in [Stamps -> Seq(Stamps)]
  BY <1>1, <1>3 DEF FileTypeOK
<1>5. Len(content[dt.path]) \in Nat /\ Len(content[dt.path]) >= 1
  BY <1>1
<1>6. /\ Len(content'[dt.path]) = Len(content[dt.path]) + 1
      /\ \A i \in 1..Len(content[dt.path]) : content'[dt.path][i] = content[dt.path][i]
      /\ content'[dt.path][Len(content[dt.path]) + 1] = t
  BY <1>1, <1>2, <1>5
<1>7. \A f \in Stamps : content'[f] # <<>> => content'[f][1] = f
  BY <1>1, <1>2, <1>5, <1>6 DEF DiskInv
<1> QED
  BY <1>1, <1>2, <1>4, <1>5, <1>6, <1>7

\* An age that counts no days hides them only after a pause.
LEMMA FreshGrows ==
    ASSUME NEW c \in Seq(Stamps), NEW d \in Seq(Stamps), NEW f \in Stamps, NEW t \in Stamps, NEW n \in Nat,
           n >= 1, Len(c) = n, Len(d) = n + 1, \A i \in 1..n : d[i] = c[i], d[n + 1] = t, f <= t
    PROVE /\ \A i \in 1..n : Fresh(c, f, i) => Fresh(d, f, i)
          /\ Fresh(c, f, n) /\ ~TooOld(t - f) => Fresh(d, f, n + 1)
<1>1. \A i \in 1..n : Fresh(c, f, i) => Fresh(d, f, i)
  <2> SUFFICES ASSUME NEW i \in 1..n, Fresh(c, f, i) PROVE Fresh(d, f, i)
    OBVIOUS
  <2>1. CASE c[i] - f < Period
    BY <2>1 DEF Fresh
  <2>2. ASSUME NEW j \in 2..i, c[j] - c[j - 1] > Day - Period PROVE Fresh(d, f, i)
    <3>1. j \in 1..n /\ j - 1 \in 1..n
      OBVIOUS
    <3>2. d[j] - d[j - 1] > Day - Period
      BY <2>2, <3>1
    <3> QED
      BY <3>2 DEF Fresh
  <2> QED
    BY <2>1, <2>2 DEF Fresh
<1>2. ASSUME Fresh(c, f, n), ~TooOld(t - f) PROVE Fresh(d, f, n + 1)
  <2>1. n \in 1..n /\ n + 1 \in 2..(n + 1) /\ (n + 1) - 1 = n
    OBVIOUS
  <2>2. c[n] \in Nat /\ t \in Nat /\ f \in Nat /\ Day \in Nat /\ Period \in Nat /\ Day > Period /\ d[n] = c[n]
    <3>1. c[n] \in Stamps
      BY <2>1
    <3> QED
      BY <3>1, <2>1, StampsFact
  <2>3. CASE \E j \in 2..n : c[j] - c[j - 1] > Day - Period
    <3>1. PICK j \in 2..n : c[j] - c[j - 1] > Day - Period
      BY <2>3
    <3>2. j \in 1..n /\ j - 1 \in 1..n /\ j \in 2..(n + 1)
      OBVIOUS
    <3>3. d[j] - d[j - 1] > Day - Period
      BY <3>1, <3>2
    <3> QED
      BY <3>2, <3>3 DEF Fresh
  <2>4. CASE c[n] - f < Period
    <3> DEFINE age == t - f
    <3>1. age \in Nat /\ ~(age % Day >= Period)
      BY <1>2, <2>2 DEF TooOld
    <3>2. age < Day => age % Day = age
      BY <3>1, <2>2
    <3>3. CASE age < Period
      BY <3>3, <2>2 DEF Fresh
    <3>4. CASE ~(age < Period)
      <4>1. age >= Day
        <5> HIDE DEF age
        <5> QED
          BY <3>1, <3>2, <3>4, <2>2
      <4>2. d[n + 1] - d[(n + 1) - 1] > Day - Period
        BY <4>1, <2>1, <2>2, <2>4
      <4> QED
        BY <4>2, <2>1 DEF Fresh
    <3> QED
      BY <3>3, <3>4
  <2> QED
    BY <1>2, <2>3, <2>4 DEF Fresh
<1> QED
  BY <1>1, <1>2

LEMMA WrittenRules ==
    ASSUME FileTypeOK, DiskInv, dt.state = 2, OpenFiles, Running, PeriodInv, NoGapInFile, kind # "hf",
           NEW t \in Stamps, content' = [content EXCEPT ![dt.path] = Append(@, t)],
           t >= now, kind \in {"fg", "sc"} => t <= dt.prev + 1, kind' = kind
    PROVE /\ NoGapInFile'
          /\ kind \in {"fg", "sc", "hskp"} =>
               /\ \A f \in Stamps : \A i \in 2..(Len(content'[f]) - 1) : ~EndOfPeriod(content'[f][i])
               /\ ~EndOfPeriod(t) => \A i \in 2..Len(content'[dt.path]) : ~EndOfPeriod(content'[dt.path][i])
          /\ kind = "cases" =>
               /\ \A f \in Stamps : \A i \in 1..(Len(content'[f]) - 1) : Fresh(content'[f], f, i)
               /\ ~TooOld(t - dt.path) => \A i \in 1..Len(content'[dt.path]) : Fresh(content'[dt.path], dt.path, i)
<1> DEFINE n == Len(content[dt.path])
<1>1. /\ content' \in [Stamps -> Seq(Stamps)]
      /\ dt.path \in Stamps /\ n \in Nat /\ n >= 1
      /\ Len(content'[dt.path]) = n + 1
      /\ \A i \in 1..n : content'[dt.path][i] = content[dt.path][i]
      /\ content'[dt.path][n + 1] = t /\ content[dt.path][n] = dt.prev
      /\ \A f \in Stamps : f # dt.path => content'[f] = content[f]
  BY WrittenFile
<1>2. t \in Nat /\ dt.prev \in Nat /\ now \in Nat /\ dt.prev <= now
  BY StampsFact DEF FileTypeOK, DataThreads, OpenFiles
<1> HIDE DEF n
<1>3. NoGapInFile'
  <2> SUFFICES ASSUME kind \in {"fg", "sc"}, NEW f \in Stamps, NEW i \in 1..(Len(content'[f]) - 1)
               PROVE content'[f][i + 1] - content'[f][i] \in {0, 1}
    BY DEF NoGapInFile, Stamps
  <2>1. \A j \in 1..(Len(content[f]) - 1) : content[f][j + 1] - content[f][j] \in {0, 1}
    BY DEF NoGapInFile
  <2>2. CASE f # dt.path
    BY <1>1, <2>1, <2>2
  <2>3. CASE f = dt.path /\ i = n
    BY <1>1, <1>2, <2>3
  <2>4. CASE f = dt.path /\ i # n
    <3>1. i \in 1..(n - 1) /\ i \in 1..n /\ i + 1 \in 1..n
      BY <1>1, <2>4
    <3> QED
      BY <3>1, <1>1, <2>1, <2>4 DEF n
  <2> QED
    BY <2>2, <2>3, <2>4
<1>4. ASSUME kind \in {"fg", "sc", "hskp"}
      PROVE /\ \A f \in Stamps : \A i \in 2..(Len(content'[f]) - 1) : ~EndOfPeriod(content'[f][i])
            /\ ~EndOfPeriod(t) => \A i \in 2..Len(content'[dt.path]) : ~EndOfPeriod(content'[dt.path][i])
  <2>1. \A f \in Stamps : \A i \in 2..(Len(content[f]) - 1) : ~EndOfPeriod(content[f][i])
    BY <1>4 DEF PeriodInv, Ended
  <2>2. \A i \in 2..n : ~EndOfPeriod(content[dt.path][i])
    BY <1>4 DEF PeriodInv, Ended, n
  <2>3. \A i \in 2..n : ~EndOfPeriod(content'[dt.path][i])
    BY <1>1, <2>2
  <2> QED
    BY <1>1, <2>1, <2>3
<1>5. ASSUME kind = "cases"
      PROVE /\ \A f \in Stamps : \A i \in 1..(Len(content'[f]) - 1) : Fresh(content'[f], f, i)
            /\ ~TooOld(t - dt.path) => \A i \in 1..Len(content'[dt.path]) : Fresh(content'[dt.path], dt.path, i)
  <2>1. \A f \in Stamps : \A i \in 1..(Len(content[f]) - 1) : Fresh(content[f], f, i)
    BY <1>5 DEF PeriodInv, Young
  <2>2. \A i \in 1..n : Fresh(content[dt.path], dt.path, i)
    BY <1>5 DEF PeriodInv, Young, n
  <2>3. content[dt.path] \in Seq(Stamps) /\ content'[dt.path] \in Seq(Stamps) /\ n = Len(content[dt.path]) /\ dt.path <= t
    <3>1. dt.path \in Nat /\ dt.path <= now /\ now <= t
      BY <1>1, StampsFact DEF OpenFiles
    <3> QED
      BY <1>1, <1>2, <3>1 DEF FileTypeOK, n
  <2>4. /\ \A i \in 1..n : Fresh(content[dt.path], dt.path, i) => Fresh(content'[dt.path], dt.path, i)
        /\ Fresh(content[dt.path], dt.path, n) /\ ~TooOld(t - dt.path) => Fresh(content'[dt.path], dt.path, n + 1)
    <3> DEFINE c == content[dt.path]
               d == content'[dt.path]
    <3>1. /\ c \in Seq(Stamps) /\ d \in Seq(Stamps) /\ Len(c) = n /\ Len(d) = n + 1 /\ n \in Nat /\ n >= 1
          /\ \A i \in 1..n : d[i] = c[i]
          /\ d[n + 1] = t /\ dt.path \in Stamps /\ dt.path <= t
      BY <1>1, <2>3
    <3> HIDE DEF c, d
    <3>2. /\ \A i \in 1..n : Fresh(c, dt.path, i) => Fresh(d, dt.path, i)
          /\ Fresh(c, dt.path, n) /\ ~TooOld(t - dt.path) => Fresh(d, dt.path, n + 1)
      BY <3>1, FreshGrows
    <3> QED
      BY <3>2 DEF c, d
  <2>5. n \in 1..n /\ \A i \in 1..(n + 1) : i \in 1..n \/ i = n + 1
    BY <1>1
  <2>6. \A i \in 1..n : Fresh(content'[dt.path], dt.path, i)
    BY <2>2, <2>4
  <2>7. ~TooOld(t - dt.path) => \A i \in 1..Len(content'[dt.path]) : Fresh(content'[dt.path], dt.path, i)
    BY <1>1, <2>2, <2>4, <2>5, <2>6
  <2>8. \A f \in Stamps : \A i \in 1..(Len(content'[f]) - 1) : Fresh(content'[f], f, i)
    <3> SUFFICES ASSUME NEW f \in Stamps, NEW i \in 1..(Len(content'[f]) - 1) PROVE Fresh(content'[f], f, i)
      OBVIOUS
    <3>1. CASE f = dt.path
      <4>1. i \in 1..n
        BY <1>1, <3>1
      <4> QED
        BY <3>1, <4>1, <2>6
    <3>2. CASE f # dt.path
      <4>1. content'[f] = content[f]
        BY <1>1, <3>2
      <4> QED
        BY <2>1, <4>1
    <3> QED
      BY <3>1, <3>2
  <2> QED
    BY <2>7, <2>8
<1> QED
  BY <1>3, <1>4, <1>5

LEMMA OpenedKeeps ==
    ASSUME FileTypeOK, FileInv, kind # "hf", dt.pc = "run", dt.state = 1, now \in Nat, now' = now + 1, kind' = kind,
           NEW t \in Stamps, t \in {now, now + 1}, Opened(t)
    PROVE FileInv' /\ content' \in [Stamps -> Seq(Stamps)]
<1>1. dt'.pc = "run" /\ dt'.state = 2 /\ dt'.path = t /\ dt'.prev = t
  BY DEF Opened, DtBecomes
<1>2. saver' = saver /\ disk' = disk \union {t}
  BY DEF Opened
<1>3. \A f \in Stamps : Begun(f) => f < now
  BY DEF FileInv, DataInv, ClosedFiles, Running
<1>4. content[t] = <<>> /\ saver[<<t, 1>>] = "none"
  BY <1>3, StampsFact DEF Begun
<1>5. /\ content'[t] = <<t>> /\ \A f \in Stamps : f # t => content'[f] = content[f]
      /\ content' \in [Stamps -> Seq(Stamps)]
  BY DEF Opened, FileTypeOK
<1>6. Len(content'[t]) = 1 /\ content'[t][1] = t /\ content'[t] # <<>>
  BY <1>5
<1>7. DiskInv'
  <2>1. /\ \A f \in Stamps : content[f] # <<>> => content[f][1] = f
        /\ \A f \in disk : content[f] # <<>>
        /\ \A f \in Stamps : content[f] # <<>> /\ f \notin disk => saver[<<f, 1>>] = "done" \/ saver[<<f, 2>>] = "done"
    BY DEF FileInv, DiskInv
  <2>2. \A f \in Stamps : content'[f] # <<>> => content'[f][1] = f
    BY <2>1, <1>5, <1>6
  <2>3. \A f \in disk' : content'[f] # <<>>
    <3> SUFFICES ASSUME NEW f \in disk' PROVE content'[f] # <<>>
      OBVIOUS
    <3>1. CASE f = t
      BY <3>1, <1>6
    <3>2. CASE f # t
      <4>1. f \in disk /\ f \in Stamps
        BY <3>2, <1>2 DEF FileTypeOK
      <4> QED
        BY <4>1, <3>2, <2>1, <1>5
    <3> QED
      BY <3>1, <3>2
  <2>4. \A f \in Stamps : content'[f] # <<>> /\ f \notin disk' => saver'[<<f, 1>>] = "done" \/ saver'[<<f, 2>>] = "done"
    BY <2>1, <1>2, <1>5
  <2> QED
    BY <2>2, <2>3, <2>4 DEF DiskInv, Stamps
<1>8. DataInv'
  <2>1. \A f \in Stamps : saver'[<<f, 2>>] = "none"
    BY <1>2 DEF FileInv, DataInv, Running
  <2>2. \A f \in Stamps : Begun(f)' /\ f # t => f < now'
    <3>1. \A f \in Stamps : f # t => (Begun(f)' <=> Begun(f))
      BY <1>2, <1>5 DEF Begun
    <3>2. \A f \in Stamps : f < now => f < now'
      BY StampsFact
    <3> QED
      BY <3>1, <3>2, <1>3
  <2>3. OpenFiles'
    BY <1>1, <1>2, <1>4, <1>6, <2>2, StampsFact DEF OpenFiles, Stamps
  <2> QED
    BY <1>1, <2>1, <2>3 DEF DataInv, Stamps
<1>9. HfFilesInv'
  BY DEF HfFilesInv
<1>10. PeriodInv'
  <2>1. \A f \in Stamps : content'[f] = content[f] \/ (f = t /\ Len(content'[f]) = 1)
    BY <1>5, <1>6
  <2>2. ASSUME kind \in {"fg", "sc", "hskp"}
        PROVE /\ \A f \in Stamps : \A i \in 2..(Len(content'[f]) - 1) : ~EndOfPeriod(content'[f][i])
              /\ \A i \in 2..Len(content'[t]) : ~EndOfPeriod(content'[t][i])
    <3>1. \A f \in Stamps : \A i \in 2..(Len(content[f]) - 1) : ~EndOfPeriod(content[f][i])
      BY <2>2 DEF FileInv, PeriodInv, Ended
    <3>2. \A i \in 2..Len(content'[t]) : FALSE
      BY <1>6
    <3>3. \A f \in Stamps : f = t => Len(content'[f]) - 1 = 0
      BY <1>6
    <3>4. \A i \in 2..0 : FALSE
      OBVIOUS
    <3> QED
      BY <3>1, <3>2, <3>3, <3>4, <2>1
  <2>3. ASSUME kind = "cases"
        PROVE /\ \A f \in Stamps : \A i \in 1..(Len(content'[f]) - 1) : Fresh(content'[f], f, i)
              /\ \A i \in 1..Len(content'[t]) : Fresh(content'[t], t, i)
    <3>1. \A f \in Stamps : \A i \in 1..(Len(content[f]) - 1) : Fresh(content[f], f, i)
      BY <2>3 DEF FileInv, PeriodInv, Young
    <3>2. t \in Nat /\ t - t < Period
      BY StampsFact
    <3>3. Fresh(content'[t], t, 1)
      BY <1>6, <3>2 DEF Fresh
    <3>4. \A i \in 1..1 : i = 1
      OBVIOUS
    <3>5. \A i \in 1..(1 - 1) : FALSE
      OBVIOUS
    <3> QED
      BY <3>1, <2>1, <1>6, <3>3, <3>4, <3>5
  <2> QED
    BY <1>1, <2>2, <2>3 DEF PeriodInv, Ended, Young, Stamps, EndOfPeriod
<1>11. NoGapInFile'
  <2>1. \A f \in Stamps : content'[f] = content[f] \/ (f = t /\ Len(content'[f]) = 1)
    BY <1>5, <1>6
  <2>2. \A f \in Stamps : f = t => Len(content'[f]) - 1 = 0
    BY <1>6
  <2> SUFFICES ASSUME kind \in {"fg", "sc"}, NEW f \in Stamps, NEW i \in 1..(Len(content'[f]) - 1)
               PROVE content'[f][i + 1] - content'[f][i] \in {0, 1}
    BY DEF NoGapInFile, Stamps
  <2>3. content'[f] = content[f]
    <3>1. CASE f = t
      <4>1. i \in 1..0
        BY <3>1, <2>2
      <4> QED
        BY <4>1
    <3> QED
      BY <3>1, <2>1
  <2>4. \A j \in 1..(Len(content[f]) - 1) : content[f][j + 1] - content[f][j] \in {0, 1}
    BY DEF FileInv, NoGapInFile
  <2> QED
    BY <2>3, <2>4
<1> QED
  BY <1>5, <1>7, <1>8, <1>9, <1>10, <1>11 DEF FileInv

LEMMA NotOpenedKeeps ==
    ASSUME FileTypeOK, FileInv, kind # "hf", dt.pc = "run", dt.state = 1, now \in Nat, now' = now + 1, kind' = kind,
           NEW t \in Stamps, NotOpened(t)
    PROVE FileInv'
<1>1. dt'.pc = "run" /\ dt'.state = 1 /\ UNCHANGED <<content, disk, saver>>
  BY DEF NotOpened, DtBecomes
<1>2. DiskInv'
  BY <1>1 DEF FileInv, DiskInv, Stamps
<1>3. DataInv'
  <2>1. (\A f \in Stamps : saver[<<f, 2>>] = "none") /\ ClosedFiles
    BY DEF FileInv, DataInv, Running
  <2>2. ClosedFiles'
    BY <2>1, <1>1, StampsFact DEF ClosedFiles, Begun, Stamps
  <2> QED
    BY <1>1, <2>1, <2>2 DEF DataInv, Stamps
<1>4. HfFilesInv'
  BY DEF HfFilesInv
<1>5. PeriodInv'
  BY <1>1 DEF FileInv, PeriodInv, Ended, Young, Stamps, EndOfPeriod
<1>6. NoGapInFile'
  BY <1>1 DEF FileInv, NoGapInFile, Stamps
<1> QED
  BY <1>2, <1>3, <1>4, <1>5, <1>6 DEF FileInv

LEMMA KeptKeeps ==
    ASSUME FileTypeOK, FileInv, kind # "hf", dt.pc = "run", dt.state = 2, now \in Nat, now' = now + 1, kind' = kind,
           NEW t \in Stamps, t \in {now, now + 1}, KeptOpen(t)
    PROVE FileInv' /\ content' \in [Stamps -> Seq(Stamps)]
<1>1. dt'.pc = "run" /\ dt'.state = 2 /\ dt'.path = dt.path /\ dt'.prev = t /\ saver' = saver /\ disk' = disk
  BY DEF KeptOpen, DtBecomes
<1>2. OpenFiles /\ DiskInv /\ PeriodInv /\ NoGapInFile /\ Running /\ \A f \in Stamps : saver[<<f, 2>>] = "none"
  BY DEF FileInv, DataInv, Running
<1>3. /\ content' = [content EXCEPT ![dt.path] = Append(@, t)] /\ t >= now
      /\ kind \in {"fg", "sc"} => t <= dt.prev + 1
      /\ kind # "cases" => ~EndOfPeriod(t)
      /\ kind = "cases" => ~TooOld(t - dt.path)
  BY DEF KeptOpen, Written
<1>4. /\ content' \in [Stamps -> Seq(Stamps)]
      /\ dt.path \in Stamps /\ Len(content[dt.path]) \in Nat
      /\ Len(content'[dt.path]) = Len(content[dt.path]) + 1
      /\ content'[dt.path][Len(content[dt.path]) + 1] = t
      /\ \A f \in Stamps : f # dt.path => content'[f] = content[f]
      /\ \A f \in Stamps : content'[f] # <<>> => content[f] # <<>>
      /\ \A f \in Stamps : content'[f] # <<>> => content'[f][1] = f
  BY <1>2, <1>3, WrittenFile
<1>5. content'[dt.path] # <<>>
  BY <1>4
<1>6. DiskInv'
  <2>1. /\ \A f \in disk : content[f] # <<>> /\ f \in Stamps
        /\ \A f \in Stamps : content[f] # <<>> /\ f \notin disk => saver[<<f, 1>>] = "done" \/ saver[<<f, 2>>] = "done"
    BY <1>2 DEF DiskInv, FileTypeOK
  <2>2. \A f \in disk' : content'[f] # <<>>
    BY <2>1, <1>1, <1>4, <1>5
  <2>3. \A f \in Stamps : content'[f] # <<>> /\ f \notin disk' => saver'[<<f, 1>>] = "done" \/ saver'[<<f, 2>>] = "done"
    BY <2>1, <1>1, <1>4
  <2> QED
    BY <1>4, <2>2, <2>3 DEF DiskInv, Stamps
<1>7. DataInv'
  <2>1. \A f \in Stamps : f # dt.path => (Begun(f)' <=> Begun(f))
    BY <1>1, <1>4 DEF Begun
  <2>2. \A f \in Stamps : f < now => f < now'
    BY StampsFact
  <2>3. \A f \in Stamps : Begun(f)' /\ f # dt.path => f < now'
    BY <2>1, <2>2, <1>2 DEF OpenFiles
  <2>4. dt.path <= now' /\ t <= now' /\ dt.path \in disk /\ saver[<<dt.path, 1>>] = "none"
    <3>1. dt.path \in disk /\ dt.path <= now /\ saver[<<dt.path, 1>>] = "none"
      BY <1>2 DEF OpenFiles
    <3>2. dt.path \in Nat
      BY <1>4, StampsFact
    <3>3. t <= now'
      OBVIOUS
    <3> QED
      BY <3>1, <3>2, <3>3
  <2>5. OpenFiles'
    BY <1>1, <1>4, <2>3, <2>4 DEF OpenFiles, Stamps
  <2> QED
    BY <1>1, <1>2, <2>5 DEF DataInv, Stamps
<1>8. HfFilesInv'
  BY DEF HfFilesInv
<1>9. /\ NoGapInFile'
      /\ kind \in {"fg", "sc", "hskp"} =>
               /\ \A f \in Stamps : \A i \in 2..(Len(content'[f]) - 1) : ~EndOfPeriod(content'[f][i])
               /\ ~EndOfPeriod(t) => \A i \in 2..Len(content'[dt.path]) : ~EndOfPeriod(content'[dt.path][i])
      /\ kind = "cases" =>
               /\ \A f \in Stamps : \A i \in 1..(Len(content'[f]) - 1) : Fresh(content'[f], f, i)
               /\ ~TooOld(t - dt.path) => \A i \in 1..Len(content'[dt.path]) : Fresh(content'[dt.path], dt.path, i)
  BY <1>2, <1>3, WrittenRules
<1>10. PeriodInv'
  BY <1>1, <1>3, <1>9 DEF PeriodInv, Ended, Young, Stamps, EndOfPeriod
<1> QED
  BY <1>4, <1>6, <1>7, <1>8, <1>9, <1>10 DEF FileInv

LEMMA ClosedKeeps ==
    ASSUME FileTypeOK, FileInv, kind # "hf", dt.pc = "run", dt.state = 2, now \in Nat, now' = now + 1, kind' = kind,
           NEW t \in Stamps, t \in {now, now + 1}, Closed(t)
    PROVE FileInv' /\ content' \in [Stamps -> Seq(Stamps)] /\ saver' \in [Ids -> SaverPcs] /\ saver[<<dt.path, 1>>] = "none"
<1>1. dt'.pc = "run" /\ dt'.state = 1 /\ saver' = [saver EXCEPT ![<<dt.path, 1>>] = "call"] /\ disk' = disk
  BY DEF Closed, DtBecomes
<1>2. OpenFiles /\ DiskInv /\ PeriodInv /\ NoGapInFile /\ Running /\ \A f \in Stamps : saver[<<f, 2>>] = "none"
  BY DEF FileInv, DataInv, Running
<1>3. dt.path \in Stamps /\ dt.path \in disk /\ dt.path <= now /\ saver[<<dt.path, 1>>] = "none" /\ <<dt.path, 1>> \in Ids
  BY <1>2, IdsFact DEF OpenFiles, FileTypeOK
<1>4. /\ content' \in [Stamps -> Seq(Stamps)]
      /\ \A f \in Stamps : content'[f] # <<>> <=> content[f] # <<>>
      /\ \A f \in Stamps : content'[f] # <<>> => content'[f][1] = f
      /\ NoGapInFile'
      /\ kind \in {"fg", "sc", "hskp"} =>
               \A f \in Stamps : \A i \in 2..(Len(content'[f]) - 1) : ~EndOfPeriod(content'[f][i])
      /\ kind = "cases" =>
               \A f \in Stamps : \A i \in 1..(Len(content'[f]) - 1) : Fresh(content'[f], f, i)
  <2>1. CASE Written(t)
    <3>1. /\ content' = [content EXCEPT ![dt.path] = Append(@, t)] /\ t >= now
          /\ kind \in {"fg", "sc"} => t <= dt.prev + 1
      BY <2>1 DEF Written
    <3>2. /\ content' \in [Stamps -> Seq(Stamps)]
          /\ Len(content[dt.path]) \in Nat /\ Len(content'[dt.path]) = Len(content[dt.path]) + 1
          /\ \A f \in Stamps : f # dt.path => content'[f] = content[f]
          /\ \A f \in Stamps : content'[f] # <<>> => content[f] # <<>>
          /\ \A f \in Stamps : content'[f] # <<>> => content'[f][1] = f
      BY <1>2, <3>1, WrittenFile
    <3>3. content'[dt.path] # <<>>
      BY <3>2
    <3>4. /\ NoGapInFile'
          /\ kind \in {"fg", "sc", "hskp"} =>
               \A f \in Stamps : \A i \in 2..(Len(content'[f]) - 1) : ~EndOfPeriod(content'[f][i])
          /\ kind = "cases" =>
               \A f \in Stamps : \A i \in 1..(Len(content'[f]) - 1) : Fresh(content'[f], f, i)
      BY <1>2, <3>1, WrittenRules
    <3> QED
      BY <3>2, <3>3, <3>4
  <2>2. CASE UNCHANGED content
    <3>1. NoGapInFile'
      BY <2>2, <1>2 DEF NoGapInFile, Stamps
    <3>2. \A f \in Stamps : content'[f] # <<>> => content'[f][1] = f
      BY <2>2, <1>2 DEF DiskInv
    <3> QED
      BY <2>2, <1>2, <3>1, <3>2 DEF PeriodInv, Ended, Young, FileTypeOK
  <2> QED
    BY <2>1, <2>2 DEF Closed
<1>5. /\ \A f \in Stamps : f # dt.path => saver'[<<f, 1>>] = saver[<<f, 1>>]
      /\ \A f \in Stamps : saver'[<<f, 2>>] = "none"
      /\ saver' \in [Ids -> SaverPcs]
  <2>1. saver \in [Ids -> SaverPcs] /\ "call" \in SaverPcs
    BY DEF FileTypeOK, SaverPcs
  <2>2. \A id \in Ids : saver'[id] = IF id = <<dt.path, 1>> THEN "call" ELSE saver[id]
    BY <1>1, <2>1
  <2>3. \A f \in Stamps : <<f, 1>> \in Ids /\ <<f, 2>> \in Ids
    BY IdsFact
  <2>4. \A f \in Stamps : f # dt.path => saver'[<<f, 1>>] = saver[<<f, 1>>]
    BY <2>2, <2>3
  <2>5. \A f \in Stamps : saver'[<<f, 2>>] = "none"
    <3>1. \A f \in Stamps : <<f, 2>> # <<dt.path, 1>>
      OBVIOUS
    <3>2. \A f \in Stamps : saver[<<f, 2>>] = "none"
      BY <1>2
    <3> QED
      BY <3>1, <3>2, <2>2, <2>3, Zenon
  <2>6. saver' \in [Ids -> SaverPcs]
    BY <1>1, <2>1
  <2> QED
    BY <2>4, <2>5, <2>6
<1>6. DiskInv'
  <2>1. /\ \A f \in disk : content[f] # <<>> /\ f \in Stamps
        /\ \A f \in Stamps : content[f] # <<>> /\ f \notin disk => saver[<<f, 1>>] = "done" \/ saver[<<f, 2>>] = "done"
    BY <1>2 DEF DiskInv, FileTypeOK
  <2>2. \A f \in disk' : content'[f] # <<>>
    BY <2>1, <1>1, <1>4
  <2>3. \A f \in Stamps : content'[f] # <<>> /\ f \notin disk' => saver'[<<f, 1>>] = "done" \/ saver'[<<f, 2>>] = "done"
    BY <2>1, <1>1, <1>2, <1>3, <1>4, <1>5
  <2> QED
    BY <1>4, <2>2, <2>3 DEF DiskInv, Stamps
<1>7. DataInv'
  <2>1. \A f \in Stamps : f # dt.path => (Begun(f)' <=> Begun(f))
    BY <1>4, <1>5 DEF Begun
  <2>2. \A f \in Stamps : f <= now => f < now'
    BY StampsFact
  <2>3. \A f \in Stamps : Begun(f) => f <= now
    BY <1>2, StampsFact DEF OpenFiles
  <2>4. \A f \in Stamps : Begun(f)' => f < now'
    BY <1>3, <2>1, <2>2, <2>3
  <2> QED
    BY <1>1, <1>5, <2>4 DEF DataInv, ClosedFiles, Stamps
<1>8. HfFilesInv'
  BY DEF HfFilesInv
<1>9. PeriodInv'
  <2>1. dt'.state # 2
    BY <1>1
  <2>2. \A f \in Stamps : kind \in {"fg", "sc", "hskp"} => Ended(f, Len(content[f]) - 1)'
    BY <1>4 DEF Ended, EndOfPeriod
  <2>3. \A f \in Stamps : kind = "cases" => Young(f, Len(content[f]) - 1)'
    BY <1>4 DEF Young
  <2> QED
    BY <2>1, <2>2, <2>3 DEF PeriodInv, Stamps
<1> QED
  BY <1>3, <1>4, <1>5, <1>6, <1>7, <1>8, <1>9 DEF FileInv

\* Data threads only start SaveFileThreads.
SaversStarted == \A id \in Ids : saver'[id] = saver[id] \/ (saver[id] = "none" /\ saver'[id] = "call")

LEMMA SaverStarts ==
    ASSUME FileTypeOK, NEW id \in Ids, saver[id] = "none", saver' = [saver EXCEPT ![id] = "call"]
    PROVE SaversStarted /\ saver' \in [Ids -> SaverPcs]
BY DEF SaversStarted, FileTypeOK, SaverPcs

LEMMA DataStepKeeps ==
    ASSUME FileTypeOK, FileInv, DataStep
    PROVE FileTypeOK' /\ FileInv' /\ SaversStarted
<1>0. saver \in [Ids -> SaverPcs] /\ dt \in DataThreads
  BY DEF FileTypeOK
<1>1. CASE Tick
  <2>1. /\ kind # "hf" /\ Running /\ now' = now + 1 /\ now < MaxTime /\ kind' = kind
        /\ ready' \in BOOLEAN
        /\ Nothing \/ \E t \in {now, now + 1} : Packet(t)
    BY <1>1, TickOutcome DEF FileInv
  <2>2. now \in Nat /\ now' \in 0..MaxTime /\ now \in Stamps /\ now + 1 \in Stamps
    BY <2>1 DEF FileTypeOK, Stamps
  <2>3. CASE Nothing
    <3>1. FileTypeOK' /\ SaversStarted
      BY <2>1, <2>2, <2>3 DEF Nothing, FileTypeOK, SaversStarted, DataThreads, Stamps, Sizes, SaverPcs, None, Ids
    <3>2. DiskInv' /\ HfFilesInv' /\ PeriodInv' /\ NoGapInFile'
      BY <2>1, <2>3 DEF Nothing, FileInv, DiskInv, HfFilesInv, PeriodInv, Ended, Young, NoGapInFile, Stamps, EndOfPeriod, Running
    <3>3. DataInv'
      <4>1. \A f \in Stamps : f < now => f < now'
        BY <2>1, <2>2, StampsFact
      <4>2. (Running' <=> Running) /\ dt' = dt /\ saver' = saver /\ content' = content /\ disk' = disk
        BY <2>3 DEF Nothing, Running
      <4>3. ClosedFiles => ClosedFiles'
        BY <4>1, <4>2 DEF ClosedFiles, Begun, Stamps
      <4>4. OpenFiles => OpenFiles'
        <5> SUFFICES ASSUME OpenFiles PROVE OpenFiles'
          OBVIOUS
        <5>0. dt.path <= now /\ dt.prev <= now /\ now' = now + 1
          BY <2>1 DEF OpenFiles
        <5>2. dt.path \in Nat /\ dt.prev \in Nat
          BY <1>0, StampsFact DEF DataThreads
        <5>1. dt.path <= now' /\ dt.prev <= now'
          BY <5>0, <5>2, <2>2
        <5> QED
          BY <5>1, <4>1, <4>2 DEF OpenFiles, Begun, Stamps
      <4> QED
        BY <2>1, <4>2, <4>3, <4>4 DEF FileInv, DataInv, Stamps
    <3> QED
      BY <3>1, <3>2, <3>3 DEF FileInv
  <2>4. ASSUME NEW t \in {now, now + 1}, Packet(t)
        PROVE FileTypeOK' /\ FileInv' /\ SaversStarted
    <3>1. t \in Stamps /\ dt.pc = "run"
      BY <2>2, <2>4 DEF Packet
    <3>2. CASE dt.state = 1 /\ Opened(t)
      <4>1. FileInv' /\ content' \in [Stamps -> Seq(Stamps)]
        BY <2>1, <2>2, <3>1, <3>2, OpenedKeeps
      <4>2. disk' \subseteq Stamps /\ dt' \in DataThreads /\ UNCHANGED <<compress, saver>>
        BY <3>1, <3>2 DEF Opened, DtBecomes, FileTypeOK
      <4>3. FileTypeOK' /\ SaversStarted
        BY <2>1, <2>2, <4>1, <4>2 DEF FileTypeOK, SaversStarted, DataThreads, Stamps, None, Sizes, SaverPcs, Ids
      <4> QED
        BY <4>1, <4>3
    <3>3. CASE dt.state = 1 /\ NotOpened(t)
      <4>1. FileInv'
        BY <2>1, <2>2, <3>1, <3>3, NotOpenedKeeps
      <4>2. dt' \in DataThreads /\ UNCHANGED <<content, disk, compress, saver>>
        BY <3>3 DEF NotOpened, DtBecomes
      <4>3. FileTypeOK' /\ SaversStarted
        BY <2>1, <2>2, <4>2 DEF FileTypeOK, SaversStarted, DataThreads, Stamps, None, Sizes, SaverPcs, Ids
      <4> QED
        BY <4>1, <4>3
    <3>4. CASE dt.state = 2 /\ KeptOpen(t)
      <4>1. FileInv' /\ content' \in [Stamps -> Seq(Stamps)]
        BY <2>1, <2>2, <3>1, <3>4, KeptKeeps
      <4>2. dt' \in DataThreads /\ UNCHANGED <<disk, compress, saver>>
        BY <3>4 DEF KeptOpen, DtBecomes
      <4>3. FileTypeOK' /\ SaversStarted
        BY <2>1, <2>2, <4>1, <4>2 DEF FileTypeOK, SaversStarted, DataThreads, Stamps, None, Sizes, SaverPcs, Ids
      <4> QED
        BY <4>1, <4>3
    <3>5. CASE dt.state = 2 /\ Closed(t)
      <4>1. FileInv' /\ content' \in [Stamps -> Seq(Stamps)] /\ saver' \in [Ids -> SaverPcs] /\ saver[<<dt.path, 1>>] = "none"
        BY <2>1, <2>2, <3>1, <3>5, ClosedKeeps
      <4>2. dt' \in DataThreads /\ compress' \in [Stamps -> BOOLEAN] /\ disk' = disk
            /\ saver' = [saver EXCEPT ![<<dt.path, 1>>] = "call"]
        BY <3>5 DEF Closed, DtBecomes
      <4>3. SaversStarted
        <5>1. \A id \in Ids : saver'[id] = IF id = <<dt.path, 1>> THEN "call" ELSE saver[id]
          BY <4>2, <1>0
        <5> QED
          BY <5>1, <4>1 DEF SaversStarted
      <4>4. FileTypeOK'
        BY <2>1, <2>2, <4>1, <4>2 DEF FileTypeOK, DataThreads, Stamps, None, Sizes, SaverPcs, Ids
      <4> QED
        BY <4>1, <4>3, <4>4
    <3> QED
      BY <2>4, <3>2, <3>3, <3>4, <3>5 DEF Packet
  <2> QED
    BY <2>1, <2>3, <2>4
<1>2. CASE ClockIsSet
  <2>1. dt.pc = "sync" /\ dt' = [dt EXCEPT !.pc = "run"] /\ UNCHANGED <<kind, now, ready, content, disk, compress, saver>>
    BY <1>2 DEF ClockIsSet
  <2>2. dt'.pc = "run" /\ dt'.state = dt.state /\ dt'.path = dt.path /\ dt'.prev = dt.prev /\ dt' \in DataThreads
    BY <2>1, <1>0 DEF DataThreads
  <2>3. FileTypeOK' /\ SaversStarted
    BY <2>1, <2>2 DEF FileTypeOK, SaversStarted, DataThreads, Stamps, None, Sizes, SaverPcs, Ids
  <2>4. DiskInv' /\ PeriodInv' /\ NoGapInFile' /\ HfFilesInv'
    BY <2>1, <2>2 DEF FileInv, DiskInv, PeriodInv, Ended, Young, NoGapInFile, Stamps, EndOfPeriod, Running, HfFilesInv
  <2>5. DataInv'
    <3>1. Running
      BY <2>1 DEF Running
    <3>2. CASE kind # "hf"
      <4>1. dt.state = 1 /\ ClosedFiles /\ \A f \in Stamps : saver[<<f, 2>>] = "none"
        BY <2>1, <3>1, <3>2 DEF FileInv, DataInv
      <4>2. ClosedFiles'
        BY <2>1, <4>1 DEF ClosedFiles, Begun, Stamps
      <4> QED
        BY <2>1, <2>2, <4>1, <4>2 DEF DataInv, Stamps
    <3>3. CASE kind = "hf"
      BY <2>1, <3>3 DEF DataInv
    <3> QED
      BY <3>2, <3>3
  <2> QED
    BY <2>3, <2>4, <2>5 DEF FileInv
<1>3. CASE StopData \/ DataThreadEnds
  <2>1. kind # "hf" /\ UNCHANGED <<kind, now, ready, content, disk, compress>>
    BY <1>3 DEF StopData, DataThreadEnds
  <2>2. dt'.pc \in {"saving", "ended"} /\ dt' \in DataThreads
    BY <1>0, <1>3 DEF StopData, DataThreadEnds, DataThreads
  <2>3. SaversStarted /\ saver' \in [Ids -> SaverPcs] /\ \A id \in Ids : saver[id] = "done" => saver'[id] = "done"
    <3>1. CASE UNCHANGED saver
      BY <3>1, <1>0 DEF SaversStarted
    <3>2. ASSUME NEW id \in Ids, saver[id] = "none", saver' = [saver EXCEPT ![id] = "call"]
          PROVE SaversStarted /\ saver' \in [Ids -> SaverPcs] /\ \A d \in Ids : saver[d] = "done" => saver'[d] = "done"
      <4>1. SaversStarted /\ saver' \in [Ids -> SaverPcs]
        BY <3>2, SaverStarts
      <4> QED
        BY <4>1 DEF SaversStarted
    <3>3. CASE StopData /\ dt.path # None
      <4>1. Running /\ dt.path \in Stamps
        BY <3>3, <1>0 DEF StopData, Running, DataThreads
      <4>2. <<dt.path, 1>> \in Ids /\ <<dt.path, 2>> \in Ids /\ saver[<<dt.path, 2>>] = "none"
        BY <4>1, <2>1, IdsFact DEF FileInv, DataInv
      <4>3. CASE saver[<<dt.path, 1>>] = "none"
        <5>1. saver' = [saver EXCEPT ![<<dt.path, 1>>] = "call"]
          BY <3>3, <4>3 DEF StopData
        <5> QED
          BY <5>1, <4>2, <4>3, <3>2
      <4>4. CASE saver[<<dt.path, 1>>] # "none"
        <5>1. saver' = [saver EXCEPT ![<<dt.path, 2>>] = "call"]
          BY <3>3, <4>4 DEF StopData
        <5> QED
          BY <5>1, <4>2, <3>2
      <4> QED
        BY <4>3, <4>4
    <3> QED
      BY <1>3, <3>1, <3>3 DEF StopData, DataThreadEnds
  <2>4. FileTypeOK'
    BY <2>1, <2>2, <2>3 DEF FileTypeOK, DataThreads, Stamps, None, Sizes, SaverPcs, Ids
  <2>5. DiskInv'
    <3>1. \A f \in Stamps : <<f, 1>> \in Ids /\ <<f, 2>> \in Ids
      BY IdsFact
    <3> QED
      BY <2>1, <2>3, <3>1 DEF FileInv, DiskInv, Stamps
  <2>6. DataInv' /\ HfFilesInv'
    BY <2>1, <2>2 DEF DataInv, HfFilesInv, Running
  <2>7. PeriodInv' /\ NoGapInFile'
    BY <2>1, <2>2 DEF FileInv, PeriodInv, Ended, Young, NoGapInFile, Stamps, EndOfPeriod, Running
  <2> QED
    BY <2>3, <2>4, <2>5, <2>6, <2>7 DEF FileInv
<1> QED
  BY <1>1, <1>2, <1>3 DEF DataStep

-----------------------------------------------------------------------------
(* The HF transmitter's slot *)

\* How long ago the slot of station i began when the cycle is at t.
Offset(t, i) == IF t >= i * TxPeriod THEN t - i * TxPeriod ELSE t - i * TxPeriod + TestPeriod

\* Where the thread is and the seconds it still waits there bound the second of the
\* cycle: no wait lasts until the slot comes again.
SlotInv ==
    /\ kind # "hf" => mode = "receive"
    /\ hf.pc \in {"receive", "dead", "transmit", "sending"} => sysIndex \in Systems
    /\ mode = "transmit" => hf.pc \in {"transmit", "sending", "ended"}
    /\ hf.pc = "dead" => /\ hf.timer <= TxDeadTime
                         /\ TxDeadTime - hf.timer <= Offset(testTime, sysIndex)
                         /\ Offset(testTime, sysIndex) < TxPeriod + TxDeadTime - hf.timer
    /\ hf.pc = "transmit" => /\ hf.timer <= CallTime
                             /\ TxDeadTime <= Offset(testTime, sysIndex)
                             /\ Offset(testTime, sysIndex) < TxPeriod + TxDeadTime + CallTime - hf.timer
    /\ hf.pc = "sending" => /\ hf.timer <= TxTime
                            /\ TxDeadTime <= Offset(testTime, sysIndex)
                            /\ Offset(testTime, sysIndex) < TxPeriod + TxTime - hf.timer

LEMMA DivFact ==
    ASSUME NEW t \in Nat, NEW i \in Nat, NEW p \in Nat \ {0}
    PROVE t \div p = i <=> i * p <= t /\ t < i * p + p
OBVIOUS

LEMMA ModFact ==
    ASSUME NEW a \in Nat, NEW c \in Nat \ {0}, a < 2 * c
    PROVE a % c = IF a < c THEN a ELSE a - c
OBVIOUS

LEMMA SlotEnd ==
    ASSUME NEW i \in Nat, NEW n \in Nat, i < n, NEW p \in Nat
    PROVE i * p \in Nat /\ i * p + p <= n * p
OBVIOUS

LEMMA CycleFact ==
    /\ TestPeriod \in Nat /\ TxPeriod \in Nat \ {0} /\ TxDeadTime \in Nat /\ CallTime \in Nat /\ TxTime \in Nat
    /\ TxTime <= TxDeadTime /\ TxDeadTime <= TxPeriod /\ TxPeriod < TestPeriod
    /\ TxPeriod + TxDeadTime + CallTime < TestPeriod
    /\ \A i \in Systems : i \in Nat /\ i * TxPeriod \in Nat /\ i * TxPeriod + TxPeriod <= TestPeriod
<1>1. NumSystems \in Nat /\ TxPeriod \in Nat /\ TxDeadTime \in Nat /\ CallTime \in Nat /\ TxTime \in Nat
      /\ TxTime <= TxDeadTime /\ TxDeadTime <= TxPeriod /\ TxDeadTime + CallTime < TestPeriod - TxPeriod
  BY HfAssumption
<1>2. TestPeriod \in Nat
  BY <1>1, SlotEnd DEF TestPeriod
<1>3. TxPeriod # 0
  BY <1>1 DEF TestPeriod
<1>4. \A i \in Systems : i \in Nat /\ i * TxPeriod \in Nat /\ i * TxPeriod + TxPeriod <= TestPeriod
  BY <1>1, SlotEnd DEF Systems, TestPeriod
<1> QED
  BY <1>1, <1>2, <1>3, <1>4

\* In its own slot a station is less than a slot behind its beginning.
LEMMA WindowOffset ==
    ASSUME NEW t \in 0..(TestPeriod - 1), NEW i \in Systems, InTransmitWindow(i), testTime = t
    PROVE Offset(t, i) \in Nat /\ Offset(t, i) < TxPeriod
<1>1. t \in Nat /\ i \in Nat /\ TxPeriod \in Nat \ {0}
  BY CycleFact
<1>2. i * TxPeriod <= t /\ t < i * TxPeriod + TxPeriod
  BY <1>1, DivFact DEF InTransmitWindow
<1> QED
  BY <1>1, <1>2, CycleFact DEF Offset

\* A second later it is one second farther, unless the slot begins.
LEMMA OffsetGrows ==
    ASSUME NEW t \in 0..(TestPeriod - 1), NEW i \in Systems, Offset(t, i) + 1 < TestPeriod
    PROVE Offset((t + 1) % TestPeriod, i) = Offset(t, i) + 1
<1> DEFINE b == i * TxPeriod
<1>1. t \in Nat /\ b \in Nat /\ b + TxPeriod <= TestPeriod /\ TestPeriod \in Nat \ {0} /\ TxPeriod \in Nat \ {0}
  BY CycleFact
<1>2. (t + 1) % TestPeriod = IF t + 1 < TestPeriod THEN t + 1 ELSE (t + 1) - TestPeriod
  <2>1. t + 1 \in Nat /\ t + 1 < 2 * TestPeriod
    BY <1>1
  <2> QED
    BY <1>1, <2>1, ModFact
<1> DEFINE u == (t + 1) % TestPeriod
<1>3. Offset(t, i) = IF t >= b THEN t - b ELSE t - b + TestPeriod
  BY DEF Offset
<1>4. Offset(u, i) = IF u >= b THEN u - b ELSE u - b + TestPeriod
  BY DEF Offset
<1>5. u = (IF t + 1 < TestPeriod THEN t + 1 ELSE (t + 1) - TestPeriod) /\ t < TestPeriod
  BY <1>1, <1>2
<1> HIDE DEF b, u
<1>6. Offset(u, i) = Offset(t, i) + 1
  BY <1>1, <1>3, <1>4, <1>5
<1> QED
  BY <1>6 DEF u

LEMMA MovedSlot ==
    ASSUME NEW t \in 0..(TestPeriod - 1), NEW i \in Systems
    PROVE InMovedSlot(t, i) <=> TxDeadTime <= Offset(t, i) /\ Offset(t, i) < TxPeriod + TxDeadTime
<1> DEFINE b == i * TxPeriod
           a == t + (TestPeriod - TxDeadTime)
           u == IF a < TestPeriod THEN a ELSE a - TestPeriod
<1>1. t \in Nat /\ b \in Nat /\ b + TxPeriod <= TestPeriod /\ TestPeriod \in Nat \ {0} /\ TxPeriod \in Nat \ {0}
      /\ TxDeadTime \in Nat /\ TxDeadTime <= TxPeriod /\ TxPeriod + TxDeadTime < TestPeriod /\ i \in Nat /\ t < TestPeriod
  BY CycleFact
<1>2. a \in Nat /\ a < 2 * TestPeriod /\ u \in Nat
  BY <1>1
<1>3. a % TestPeriod = u
  BY <1>1, <1>2, ModFact
<1>4. u \div TxPeriod = i <=> b <= u /\ u < b + TxPeriod
  BY <1>1, <1>2, DivFact
<1>5. Offset(t, i) = IF t >= b THEN t - b ELSE t - b + TestPeriod
  BY DEF Offset
<1>6. InMovedSlot(t, i) <=> b <= u /\ u < b + TxPeriod
  BY <1>3, <1>4 DEF InMovedSlot
<1>7. (b <= u /\ u < b + TxPeriod) <=> TxDeadTime <= Offset(t, i) /\ Offset(t, i) < TxPeriod + TxDeadTime
  <2> HIDE DEF b
  <2> QED
    BY <1>1, <1>5
<1> QED
  BY <1>6, <1>7

LEMMA HfTypeKept ==
    ASSUME FileTypeOK, HfTypeOK, HfStep
    PROVE HfTypeOK' /\ kind = "hf"
<1>1. kind = "hf" /\ kind' = kind
  BY DEF HfStep, HfThread, BaudRateSet, Second, StopHf, HfEnds, Synchronized, InitModem, WindowOpens, EnterTransmitMode,
         SendTestMsg, TestMsgSent, LoopsEnd, ReceivingEnds, TransmittingEnds, Still, fileVars
<1>2. hf \in [pc : HfPcs, timer : Nat] /\ mode \in {"receive", "transmit"}
  BY DEF HfTypeOK
<1>3. TxDeadTime \in Nat /\ CallTime \in Nat /\ TxTime \in Nat /\ TestPeriod \in Nat \ {0}
  BY CycleFact
<1>4. CASE HfThread \/ BaudRateSet
  <2>1. hf' \in [pc : HfPcs, timer : Nat]
    BY <1>2, <1>3, <1>4
    DEF HfThread, BaudRateSet, Synchronized, InitModem, WindowOpens, EnterTransmitMode,
         SendTestMsg, TestMsgSent, LoopsEnd, ReceivingEnds, TransmittingEnds, PowerIsOff, LoopTop, Goto, HfPcs
  <2>2. mode' \in {"receive", "transmit"}
    BY <1>2, <1>4
    DEF HfThread, BaudRateSet, Synchronized, InitModem, WindowOpens, EnterTransmitMode,
         SendTestMsg, TestMsgSent, LoopsEnd, ReceivingEnds, TransmittingEnds
  <2>3. sysIndex' = sysIndex /\ testTime' = testTime
    BY <1>4
    DEF HfThread, BaudRateSet, Synchronized, InitModem, WindowOpens, EnterTransmitMode,
         SendTestMsg, TestMsgSent, LoopsEnd, ReceivingEnds, TransmittingEnds, Still
  <2> QED
    BY <1>1, <2>1, <2>2, <2>3 DEF HfTypeOK
<1>5. CASE Second
  <2>1. testTime' \in 0..(TestPeriod - 1)
    BY <1>3, <1>5 DEF Second, HfTypeOK
  <2>2. hf'.pc = hf.pc /\ hf' \in [pc : HfPcs, timer : Nat]
    BY <1>2, <1>5 DEF Second
  <2>3. sysIndex' = sysIndex /\ mode' = mode
    BY <1>5 DEF Second
  <2> QED
    BY <1>1, <2>1, <2>2, <2>3 DEF HfTypeOK
<1>6. CASE StopHf \/ HfEnds
  BY <1>1, <1>6 DEF StopHf, HfEnds, hfVars, HfTypeOK
<1> QED
  BY <1>1, <1>4, <1>5, <1>6 DEF HfStep

\* A step that leaves files and SaveFileThreads alone.
LEMMA HfNoFile ==
    ASSUME FileTypeOK, FileInv, kind = "hf", kind' = kind, UNCHANGED <<ready, content, disk, compress, saver>>,
           dt' \in DataThreads, dt'.state = dt.state, dt'.path = dt.path, dt'.pc # "sync",
           now' \in 0..MaxTime, now <= now', now' = now => (hf'.pc \in PoweredOn => hf.pc \in PoweredOn),
           dt'.pc = "ended" => hf'.pc \in {"ended", "crashed"}
    PROVE FileTypeOK' /\ FileInv' /\ SaversStarted
<1>1. FileTypeOK' /\ SaversStarted
  BY DEF FileTypeOK, SaversStarted, DataThreads, Stamps, None, Sizes, SaverPcs, Ids
<1>2. DiskInv' /\ NoGapInFile' /\ DataInv'
  BY DEF FileInv, DiskInv, NoGapInFile, DataInv, Stamps
<1>3. PeriodInv'
  BY DEF FileInv, PeriodInv, Stamps
<1>4. HfFilesInv'
  <2>1. /\ dt.state = 1 /\ dt.path = None
        /\ \A f \in Stamps : saver[<<f, 2>>] = "none"
        /\ \A f \in Stamps : Begun(f) => f <= now
        /\ hf.pc \in PoweredOn => ~Begun(now)
    BY DEF FileInv, HfFilesInv
  <2>2. now \in Nat /\ now' \in Nat /\ now' \in Stamps
    BY DEF FileTypeOK, Stamps
  <2>3. \A f : Begun(f)' <=> content[f] # <<>> \/ saver[<<f, 1>>] # "none"
    BY DEF Begun
  <2>4. \A f : Begun(f) <=> content[f] # <<>> \/ saver[<<f, 1>>] # "none"
    BY DEF Begun
  <2>5. \A f \in Stamps : Begun(f)' => f <= now'
    <3>1. \A f : Begun(f)' <=> Begun(f)
      BY <2>3, <2>4
    <3>2. \A f \in Stamps : f <= now => f <= now'
      BY <2>2, StampsFact
    <3> QED
      BY <2>1, <3>1, <3>2
  <2>6. hf'.pc \in PoweredOn => ~(content[now'] # <<>> \/ saver[<<now', 1>>] # "none")
    BY <2>1, <2>2, <2>4
  <2>7. (hf.pc \in PoweredOn => ~Begun(now))'
    BY <2>6 DEF Begun, PoweredOn
  <2> QED
    BY <2>1, <2>5, <2>7 DEF HfFilesInv, Stamps, None
<1> QED
  BY <1>1, <1>2, <1>3, <1>4 DEF FileInv

LEMMA HfStored ==
    ASSUME FileTypeOK, FileInv, kind = "hf", kind' = kind, UNCHANGED <<ready, now, dt>>,
           hf.pc \in PoweredOn, hf'.pc \in {"baud", "ended"}, dt.pc # "ended",
           NEW opened \in BOOLEAN, StoreRxBuf(opened)
    PROVE FileTypeOK' /\ FileInv' /\ SaversStarted
<1>1. CASE ~opened
  <2>1. UNCHANGED <<content, disk, compress, saver>>
    BY <1>1 DEF StoreRxBuf, NoFile
  <2>2. dt \in DataThreads /\ dt.pc # "sync" /\ now \in 0..MaxTime
    BY DEF FileInv, HfFilesInv, FileTypeOK
  <2> QED
    BY <2>1, <2>2, HfNoFile DEF PoweredOn
<1>2. CASE opened
  <2>1. /\ content' = [content EXCEPT ![now] = <<now>>]
        /\ disk' = disk \union {now}
        /\ compress' = [compress EXCEPT ![now] = TRUE]
        /\ saver' = [saver EXCEPT ![<<now, 1>>] = "call"]
    BY <1>2 DEF StoreRxBuf
  <2>2. /\ ~Begun(now) /\ \A f \in Stamps : saver[<<f, 2>>] = "none"
        /\ \A f \in Stamps : Begun(f) => f <= now
        /\ dt.state = 1 /\ dt.path = None /\ dt.pc # "sync"
    BY DEF FileInv, HfFilesInv
  <2>3. now \in Stamps /\ now \in Nat /\ <<now, 1>> \in Ids
    <3>1. now \in Stamps /\ now \in Nat
      BY DEF FileTypeOK, Stamps
    <3> QED
      BY <3>1, IdsFact
  <2>4. saver[<<now, 1>>] = "none"
    BY <2>2 DEF Begun
  <2>5. SaversStarted /\ saver' \in [Ids -> SaverPcs]
    BY <2>1, <2>3, <2>4, SaverStarts
  <2>6. content' \in [Stamps -> Seq(Stamps)] /\ content'[now] = <<now>> /\ \A f \in Stamps : f # now => content'[f] = content[f]
    BY <2>1, <2>3 DEF FileTypeOK
  <2>7. Len(content'[now]) = 1 /\ content'[now][1] = now /\ content'[now] # <<>>
    BY <2>6
  <2>8. compress' \in [Stamps -> BOOLEAN] /\ disk' \subseteq Stamps
    BY <2>1, <2>3 DEF FileTypeOK
  <2>9. FileTypeOK'
    BY <2>5, <2>6, <2>8 DEF FileTypeOK, DataThreads, Stamps, None, Sizes, SaverPcs, Ids
  <2>10. /\ \A f \in Stamps : f # now => saver'[<<f, 1>>] = saver[<<f, 1>>]
         /\ \A f \in Stamps : saver'[<<f, 2>>] = "none"
    <3>1. \A id \in Ids : saver'[id] = IF id = <<now, 1>> THEN "call" ELSE saver[id]
      BY <2>1 DEF FileTypeOK
    <3>2. \A f \in Stamps : <<f, 1>> \in Ids /\ <<f, 2>> \in Ids
      BY IdsFact
    <3>3. \A f \in Stamps : <<f, 2>> # <<now, 1>>
      OBVIOUS
    <3>4. \A f \in Stamps : saver'[<<f, 2>>] = "none"
      BY <3>1, <3>2, <3>3, <2>2, Zenon
    <3>5. \A f \in Stamps : f # now => saver'[<<f, 1>>] = saver[<<f, 1>>]
      BY <3>1, <3>2
    <3> QED
      BY <3>4, <3>5
  <2>11. DiskInv'
    <3>1. /\ \A f \in Stamps : content[f] # <<>> => content[f][1] = f
          /\ \A f \in disk : content[f] # <<>> /\ f \in Stamps
          /\ \A f \in Stamps : content[f] # <<>> /\ f \notin disk => saver[<<f, 1>>] = "done" \/ saver[<<f, 2>>] = "done"
      BY DEF FileInv, DiskInv, FileTypeOK
    <3>2. \A f \in Stamps : content'[f] # <<>> => content'[f][1] = f
      BY <3>1, <2>6, <2>7
    <3>3. \A f \in disk' : content'[f] # <<>>
      BY <3>1, <2>1, <2>6, <2>7
    <3>4. \A f \in Stamps : content'[f] # <<>> /\ f \notin disk' => saver'[<<f, 1>>] = "done" \/ saver'[<<f, 2>>] = "done"
      BY <3>1, <2>1, <2>2, <2>6, <2>10
    <3> QED
      BY <3>2, <3>3, <3>4 DEF DiskInv, Stamps
  <2>12. HfFilesInv'
    <3>1. \A f \in Stamps : f # now => (Begun(f)' <=> Begun(f))
      BY <2>6, <2>10 DEF Begun
    <3>2. \A f \in Stamps : Begun(f)' => f <= now'
      BY <2>2, <2>3, <3>1
    <3>3. hf'.pc \notin PoweredOn
      BY DEF PoweredOn
    <3> QED
      BY <2>2, <2>10, <3>2, <3>3 DEF HfFilesInv, Stamps, None, PoweredOn
  <2>13. PeriodInv'
    <3>1. \A f \in Stamps : Len(content'[f]) <= 1
      <4>1. \A f \in Stamps : Len(content[f]) <= 1
        BY DEF FileInv, PeriodInv
      <4>2. \A f \in Stamps : f = now \/ Len(content'[f]) = Len(content[f])
        BY <2>6
      <4>3. Len(content'[now]) <= 1
        BY <2>7
      <4> QED
        BY <4>1, <4>2, <4>3
    <3> QED
      BY <3>1 DEF PeriodInv, Stamps
  <2>14. NoGapInFile' /\ DataInv'
    BY DEF NoGapInFile, DataInv
  <2> QED
    BY <2>5, <2>9, <2>11, <2>12, <2>13, <2>14 DEF FileInv
<1> QED
  BY <1>1, <1>2

LEMMA HfStepKeeps ==
    ASSUME FileTypeOK, HfTypeOK, FileInv, HfStep
    PROVE FileTypeOK' /\ FileInv' /\ SaversStarted
<1>1. kind = "hf" /\ kind' = kind /\ hf \in [pc : HfPcs, timer : Nat]
  <2>1. kind = "hf"
    BY HfTypeKept
  <2>2. kind' = kind
    BY DEF HfStep, HfThread, BaudRateSet, Second, StopHf, HfEnds, Synchronized, InitModem, WindowOpens, EnterTransmitMode,
         SendTestMsg, TestMsgSent, LoopsEnd, ReceivingEnds, TransmittingEnds, Still, fileVars
  <2> QED
    BY <2>1, <2>2 DEF HfTypeOK
<1>2. dt \in DataThreads /\ dt.pc # "sync" /\ now \in 0..MaxTime
  BY <1>1 DEF FileInv, HfFilesInv, FileTypeOK
<1>3. dt.pc = "ended" => hf.pc \in {"ended", "crashed"}
  BY <1>1 DEF FileInv, HfFilesInv
<1>4. ASSUME NEW opened \in BOOLEAN, ReceivingEnds(opened) \/ TransmittingEnds(opened)
      PROVE FileTypeOK' /\ FileInv' /\ SaversStarted
  <2>1. hf.pc \in {"receive", "transmit"} /\ StoreRxBuf(opened) /\ hf'.pc \in {"baud", "ended"} /\ UNCHANGED <<ready, now, dt>>
    BY <1>4 DEF ReceivingEnds, TransmittingEnds, PowerIsOff, LoopTop, Still
  <2> QED
    BY <1>1, <1>3, <2>1, HfStored DEF PoweredOn
<1>5. CASE BaudRateSet
  <2>1. /\ UNCHANGED <<ready, content, disk, compress, saver, dt>> /\ now' = now + 1 /\ hf.pc = "baud" /\ now' \in 0..MaxTime
    BY <1>2, <1>5, HfAssumption DEF BaudRateSet, NoFile
  <2> QED
    BY <1>1, <1>2, <1>3, <2>1, HfNoFile
<1>6. CASE Synchronized \/ InitModem \/ WindowOpens \/ EnterTransmitMode \/ SendTestMsg \/ TestMsgSent \/ LoopsEnd
  <2>1. UNCHANGED <<ready, content, disk, compress, saver, dt, now>>
    BY <1>6 DEF Synchronized, InitModem, WindowOpens, EnterTransmitMode, SendTestMsg, TestMsgSent, LoopsEnd, NoFile, Still
  <2>2. (hf'.pc \in PoweredOn => hf.pc \in PoweredOn) /\ hf.pc \notin {"ended", "crashed"}
    BY <1>6 DEF Synchronized, InitModem, WindowOpens, EnterTransmitMode, SendTestMsg, TestMsgSent, LoopsEnd, LoopTop, Goto, PoweredOn
  <2> QED
    BY <1>1, <1>2, <1>3, <2>1, <2>2, HfNoFile
<1>7. CASE Second
  <2>1. UNCHANGED <<ready, content, disk, compress, saver, dt, now>> /\ hf'.pc = hf.pc
    BY <1>1, <1>7 DEF Second, fileVars
  <2> QED
    BY <1>1, <1>2, <1>3, <2>1, HfNoFile
<1>8. CASE StopHf \/ HfEnds
  <2>1. UNCHANGED <<ready, content, disk, compress, saver, now, hf>>
    BY <1>8 DEF StopHf, HfEnds, hfVars
  <2>2. /\ dt' \in DataThreads /\ dt'.state = dt.state /\ dt'.path = dt.path /\ dt'.pc # "sync"
        /\ dt'.pc = "ended" => hf.pc \in {"ended", "crashed"}
    BY <1>2, <1>8 DEF StopHf, HfEnds, DataThreads
  <2> QED
    BY <1>1, <1>2, <2>1, <2>2, HfNoFile
<1> QED
  BY <1>4, <1>5, <1>6, <1>7, <1>8 DEF HfStep, HfThread

LEMMA SlotKept ==
    ASSUME HfTypeOK, SlotInv, HfStep, kind = "hf"
    PROVE SlotInv' /\ (hf.pc # "ended" /\ hf'.pc = "ended" /\ mode' = "transmit" => hf.pc = "dead")
<1>1. /\ hf \in [pc : HfPcs, timer : Nat] /\ mode \in {"receive", "transmit"}
      /\ sysIndex \in 0..NumSystems /\ testTime \in 0..(TestPeriod - 1) /\ NumSystems \in Nat
  BY HfAssumption DEF HfTypeOK
<1>2. \A i \in Systems : Offset(testTime, i) \in Int
  BY <1>1, CycleFact DEF Offset
<1>3. /\ TestPeriod \in Nat /\ TxPeriod \in Nat \ {0} /\ TxDeadTime \in Nat /\ CallTime \in Nat /\ TxTime \in Nat
      /\ TxTime <= TxDeadTime /\ TxDeadTime <= TxPeriod /\ TxPeriod < TestPeriod
      /\ TxPeriod + TxDeadTime + CallTime < TestPeriod
  BY CycleFact
<1>4. mode = "transmit" => hf.pc \in {"transmit", "sending", "ended"}
  BY DEF SlotInv
<1>5. hf.pc \in {"receive", "dead", "transmit", "sending"} => sysIndex \in Systems
  BY DEF SlotInv
<1>6. CASE Synchronized \/ InitModem \/ LoopsEnd \/ BaudRateSet \/ \E opened \in BOOLEAN : ReceivingEnds(opened) \/ TransmittingEnds(opened)
  <2>1. hf'.pc \in {"baud", "init", "receive", "crashed", "ended"} /\ (hf'.pc = "ended" => mode' # "transmit" )
        /\ (hf'.pc = "receive" => sysIndex' \in Systems) /\ kind' = kind /\ mode' # "transmit"
    BY <1>1, <1>4, <1>5, <1>6
    DEF Synchronized, InitModem, LoopsEnd, BaudRateSet, ReceivingEnds, TransmittingEnds, PowerIsOff, LoopTop, Goto, Still, Systems
  <2> QED
    BY <2>1 DEF SlotInv
<1>7. CASE WindowOpens
  <2>1. /\ hf.pc = "receive" /\ InTransmitWindow(sysIndex) /\ hf'.pc = "dead" /\ hf'.timer = TxDeadTime
        /\ UNCHANGED <<kind, sysIndex, testTime, mode>>
    BY <1>7 DEF WindowOpens, Goto, Still
  <2>2. Offset(testTime, sysIndex) \in Nat /\ Offset(testTime, sysIndex) < TxPeriod
    BY <1>1, <1>5, <2>1, WindowOffset
  <2>3. Offset(testTime, sysIndex)' = Offset(testTime, sysIndex)
    BY <2>1 DEF Offset, TestPeriod
  <2> QED
    BY <1>3, <1>4, <1>5, <2>1, <2>2, <2>3 DEF SlotInv, Systems
<1>8. CASE EnterTransmitMode
  <2>1. /\ hf.pc = "dead" /\ hf.timer = 0 /\ hf'.pc \in {"transmit", "ended"} /\ hf'.timer = CallTime
        /\ UNCHANGED <<kind, sysIndex, testTime>>
    BY <1>8 DEF EnterTransmitMode, LoopTop, Still
  <2>2. TxDeadTime <= Offset(testTime, sysIndex) /\ Offset(testTime, sysIndex) < TxPeriod + TxDeadTime
    BY <1>2, <1>3, <1>5, <2>1 DEF SlotInv
  <2>3. Offset(testTime, sysIndex)' = Offset(testTime, sysIndex)
    BY <2>1 DEF Offset, TestPeriod
  <2> QED
    BY <1>2, <1>3, <1>5, <2>1, <2>2, <2>3 DEF SlotInv, Systems
<1>9. CASE SendTestMsg
  <2>1. hf.pc = "transmit" /\ UNCHANGED <<kind, sysIndex, testTime>>
    BY <1>9 DEF SendTestMsg, Still
  <2>2. CASE InTransmitWindow(sysIndex)
    <3>1. hf'.pc = "sending" /\ hf'.timer = TxTime /\ mode' = mode
      BY <1>9, <2>2 DEF SendTestMsg, Goto
    <3>2. Offset(testTime, sysIndex) \in Nat /\ Offset(testTime, sysIndex) < TxPeriod
      BY <1>1, <1>5, <2>1, <2>2, WindowOffset
    <3>3. TxDeadTime <= Offset(testTime, sysIndex)
      BY <2>1 DEF SlotInv
    <3>4. Offset(testTime, sysIndex)' = Offset(testTime, sysIndex)
      BY <2>1 DEF Offset, TestPeriod
    <3> QED
      BY <1>3, <1>4, <1>5, <2>1, <3>1, <3>2, <3>3, <3>4 DEF SlotInv, Systems
  <2>3. CASE ~InTransmitWindow(sysIndex)
    <3>1. hf'.pc \in {"receive", "ended"} /\ mode' = "receive"
      BY <1>9, <2>3 DEF SendTestMsg, LoopTop
    <3> QED
      BY <1>5, <2>1, <3>1 DEF SlotInv, Systems
  <2> QED
    BY <2>2, <2>3
<1>10. CASE TestMsgSent
  <2>1. /\ hf.pc = "sending" /\ hf.timer = 0 /\ hf'.timer = CallTime
        /\ UNCHANGED <<kind, sysIndex, testTime>>
        /\ (hf'.pc = "transmit" /\ mode' = mode) \/ (hf'.pc = "ended" /\ mode' = "receive")
    BY <1>10 DEF TestMsgSent, LoopTop, Still
  <2>2. TxDeadTime <= Offset(testTime, sysIndex) /\ Offset(testTime, sysIndex) < TxPeriod + TxTime
    BY <1>2, <1>3, <1>5, <2>1 DEF SlotInv
  <2>3. Offset(testTime, sysIndex)' = Offset(testTime, sysIndex)
    BY <2>1 DEF Offset, TestPeriod
  <2> QED
    BY <1>2, <1>3, <1>5, <2>1, <2>2, <2>3 DEF SlotInv, Systems
<1>11. CASE Second
  <2>1. /\ hf.pc \in {"dead", "transmit", "sending"} => hf.timer > 0
        /\ testTime' = (testTime + 1) % TestPeriod
        /\ hf'.pc = hf.pc /\ hf'.timer = IF hf.timer > 0 THEN hf.timer - 1 ELSE 0
        /\ UNCHANGED <<kind, sysIndex, mode>>
    BY <1>1, <1>11 DEF Second, fileVars
  <2>2. ASSUME hf.pc \in {"dead", "transmit", "sending"}
        PROVE SlotInv'
    <3> DEFINE o == Offset(testTime, sysIndex)
    <3>1. sysIndex \in Systems /\ o \in Int /\ hf.timer \in Nat /\ hf.timer > 0
      BY <1>1, <1>2, <1>5, <2>1, <2>2
    <3>2. /\ hf.pc = "dead" => hf.timer <= TxDeadTime /\ TxDeadTime - hf.timer <= o
                               /\ o < TxPeriod + TxDeadTime - hf.timer
          /\ hf.pc = "transmit" => hf.timer <= CallTime /\ TxDeadTime <= o
                                   /\ o < TxPeriod + TxDeadTime + CallTime - hf.timer
          /\ hf.pc = "sending" => hf.timer <= TxTime /\ TxDeadTime <= o
                                  /\ o < TxPeriod + TxTime - hf.timer
      BY DEF SlotInv
    <3>3. o' = Offset((testTime + 1) % TestPeriod, sysIndex)
      BY <2>1 DEF Offset, TestPeriod
    <3>4. o + 1 < TestPeriod => o' = o + 1
      BY <1>1, <3>1, <3>3, OffsetGrows
    <3> HIDE DEF o
    <3>5. o + 1 < TestPeriod
      BY <1>3, <2>2, <3>1, <3>2
    <3>6. o' = o + 1 /\ hf'.timer = hf.timer - 1
      BY <2>1, <3>1, <3>4, <3>5
    <3>7. /\ hf'.pc = "dead" => hf'.timer <= TxDeadTime /\ TxDeadTime - hf'.timer <= o'
                               /\ o' < TxPeriod + TxDeadTime - hf'.timer
          /\ hf'.pc = "transmit" => hf'.timer <= CallTime /\ TxDeadTime <= o'
                                   /\ o' < TxPeriod + TxDeadTime + CallTime - hf'.timer
          /\ hf'.pc = "sending" => hf'.timer <= TxTime /\ TxDeadTime <= o'
                                  /\ o' < TxPeriod + TxTime - hf'.timer
      BY <1>3, <2>1, <3>1, <3>2, <3>6
    <3> QED
      BY <1>4, <2>1, <3>1, <3>7 DEF SlotInv, Systems, o
  <2>3. ASSUME hf.pc \notin {"dead", "transmit", "sending"}
        PROVE SlotInv'
    BY <1>4, <1>5, <2>1, <2>3 DEF SlotInv, Systems
  <2> QED
    BY <2>1, <2>2, <2>3
<1>12. CASE StopHf \/ HfEnds
  <2>1. UNCHANGED <<kind, sysIndex, testTime, mode, hf>>
    BY <1>12 DEF StopHf, HfEnds, hfVars
  <2> QED
    BY <2>1 DEF SlotInv, Offset, TestPeriod, Systems
<1> QED
  BY <1>6, <1>7, <1>8, <1>9, <1>10, <1>11, <1>12 DEF HfStep, HfThread

-----------------------------------------------------------------------------
(* The way to the drive *)

\* A SaveFileThread goes on, and takes its file off the disk as its last step.
SaverMoves(id) ==
    /\ saver[id] \notin {"none", "done"}
    /\ \E pc \in SaverPcs \ {"none", "call"} :
         /\ saver' = [saver EXCEPT ![id] = pc]
         /\ disk' = disk \/ (disk' = disk \ {id[1]} /\ pc = "done")
    /\ UNCHANGED <<kind, now, dt, ready, content, compress, hfVars>>

LEMMA SaverOutcome ==
    ASSUME NEW id \in Ids, SaverStep(id)
    PROVE SaverMoves(id)
<1>1. saver[id] \notin {"none", "done"}
  BY DEF SaverStep, CallStoreFile, CopyToTemp, CreateStoreFileJob, DeleteDataFile
<1>2. UNCHANGED <<kind, now, dt, ready, content, compress, hfVars>>
  BY DEF SaverStep, CallStoreFile, CopyToTemp, CreateStoreFileJob, DeleteDataFile, SaverUnchanged
<1>3. \E pc \in SaverPcs \ {"none", "call"} :
         /\ saver' = [saver EXCEPT ![id] = pc]
         /\ disk' = disk \/ (disk' = disk \ {id[1]} /\ pc = "done")
  BY DEF SaverStep, CallStoreFile, CopyToTemp, CreateStoreFileJob, DeleteDataFile, GoTo, SaverPcs
<1> QED
  BY <1>1, <1>2, <1>3 DEF SaverMoves

LEMMA SaverKeeps ==
    ASSUME FileTypeOK, FileInv, NEW id \in Ids, SaverMoves(id)
    PROVE FileTypeOK' /\ FileInv'
<1>1. PICK pc \in SaverPcs \ {"none", "call"} :
         /\ saver' = [saver EXCEPT ![id] = pc]
         /\ disk' = disk \/ (disk' = disk \ {id[1]} /\ pc = "done")
  BY DEF SaverMoves
<1>2. saver[id] \notin {"none", "done"} /\ UNCHANGED <<kind, now, dt, ready, content, compress, hfVars>>
  BY DEF SaverMoves
<1>3. saver \in [Ids -> SaverPcs] /\ disk \subseteq Stamps
  BY DEF FileTypeOK
<1>4. id[1] \in Stamps /\ id[2] \in {1, 2} /\ id = <<id[1], id[2]>> /\ \A f \in Stamps, k \in {1, 2} : <<f, k>> \in Ids
  BY IdsFact
<1>5. saver' \in [Ids -> SaverPcs] /\ disk' \subseteq Stamps
  BY <1>1, <1>3
<1>6. FileTypeOK'
  BY <1>2, <1>5 DEF FileTypeOK, DataThreads, Stamps, None, Sizes, SaverPcs, Ids
<1>7. \A d \in Ids : saver'[d] = IF d = id THEN pc ELSE saver[d]
  BY <1>1, <1>3
<1>8. \A d \in Ids : saver'[d] = "none" <=> saver[d] = "none"
  BY <1>1, <1>2, <1>7
<1>9. \A f \in Stamps : Begun(f)' <=> Begun(f)
  BY <1>2, <1>4, <1>8 DEF Begun
<1>10. \A d \in Ids : saver[d] = "done" => saver'[d] = "done"
  BY <1>2, <1>7
<1>11. DiskInv'
  <2>1. /\ \A f \in Stamps : content[f] # <<>> => content[f][1] = f
        /\ \A f \in disk : content[f] # <<>>
        /\ \A f \in Stamps : content[f] # <<>> /\ f \notin disk => saver[<<f, 1>>] = "done" \/ saver[<<f, 2>>] = "done"
    BY DEF FileInv, DiskInv
  <2>2. ASSUME NEW f \in Stamps, content[f] # <<>>, f \notin disk'
        PROVE saver'[<<f, 1>>] = "done" \/ saver'[<<f, 2>>] = "done"
    <3>1. CASE f \notin disk
      BY <2>1, <2>2, <3>1, <1>4, <1>10
    <3>2. CASE f \in disk
      <4>1. f = id[1] /\ pc = "done"
        BY <1>1, <2>2, <3>2
      <4>2. saver'[id] = "done"
        BY <4>1, <1>7
      <4> QED
        BY <4>1, <4>2, <1>4
    <3> QED
      BY <3>1, <3>2
  <2>3. \A f \in disk' : content'[f] # <<>>
    BY <2>1, <1>1, <1>2
  <2> QED
    BY <2>1, <2>2, <2>3, <1>2 DEF DiskInv, Stamps
<1>12. DataInv'
  <2>1. SUFFICES ASSUME kind # "hf", Running PROVE DataInv'
    BY <1>2 DEF DataInv, Running
  <2>2. /\ \A f \in Stamps : saver[<<f, 2>>] = "none"
        /\ dt.pc = "sync" => dt.state = 1
        /\ dt.state = 1 => ClosedFiles
        /\ dt.state = 2 => OpenFiles
    BY <2>1 DEF FileInv, DataInv
  <2>3. \A f \in Stamps : saver'[<<f, 2>>] = "none"
    BY <2>2, <1>4, <1>8
  <2>4. ClosedFiles => ClosedFiles'
    BY <1>2, <1>9 DEF ClosedFiles, Stamps
  <2>5. OpenFiles => OpenFiles'
    <3> SUFFICES ASSUME OpenFiles PROVE OpenFiles'
      OBVIOUS
    <3>1. dt.path \in disk /\ dt.path \in Stamps /\ saver[<<dt.path, 1>>] = "none" /\ saver[<<dt.path, 2>>] = "none"
      BY <1>3, <2>2 DEF OpenFiles
    <3>2. id[1] # dt.path
      BY <3>1, <1>2, <1>4
    <3>3. dt.path \in disk'
      BY <3>1, <3>2, <1>1
    <3>4. saver'[<<dt.path, 1>>] = "none"
      BY <3>1, <1>4, <1>8
    <3>5. \A f \in Stamps : Begun(f)' /\ f # dt.path => f < now
      BY <1>9 DEF OpenFiles
    <3> QED
      BY <3>3, <3>4, <3>5, <1>2 DEF OpenFiles, Stamps
  <2> QED
    BY <2>2, <2>3, <2>4, <2>5, <1>2 DEF DataInv, Stamps
<1>13. HfFilesInv'
  <2>1. SUFFICES ASSUME kind = "hf" PROVE HfFilesInv'
    BY <1>2 DEF HfFilesInv
  <2>2. /\ dt.state = 1 /\ dt.path = None /\ dt.pc # "sync"
        /\ \A f \in Stamps : saver[<<f, 2>>] = "none"
        /\ \A f \in Stamps : Begun(f) => f <= now
        /\ hf.pc \in PoweredOn => ~Begun(now)
        /\ dt.pc = "ended" => hf.pc \in {"ended", "crashed"}
    BY <2>1 DEF FileInv, HfFilesInv
  <2>3. \A f \in Stamps : saver'[<<f, 2>>] = "none"
    BY <2>2, <1>4, <1>8
  <2>4. now \in Stamps /\ hf' = hf /\ now' = now /\ dt' = dt
    BY <1>2 DEF FileTypeOK, Stamps, hfVars
  <2>5. \A f \in Stamps : Begun(f)' => f <= now'
    BY <2>2, <2>4, <1>9
  <2>6. Begun(now)' <=> Begun(now)
    BY <2>4, <1>2, <1>4, <1>8 DEF Begun
  <2> QED
    BY <2>2, <2>3, <2>4, <2>5, <2>6 DEF HfFilesInv, Stamps, None, PoweredOn
<1>14. PeriodInv' /\ NoGapInFile'
  BY <1>2 DEF FileInv, PeriodInv, Ended, Young, NoGapInFile, Stamps, EndOfPeriod, Running
<1> QED
  BY <1>6, <1>11, <1>12, <1>13, <1>14 DEF FileInv

LEMMA QueueGrows ==
    ASSUME queue \in Seq(Ids), NEW id \in Ids, queue' = Append(queue, id)
    PROVE queue' \in Seq(Ids) /\ \A d : InQueue(d)' <=> InQueue(d) \/ d = id
<1>1. /\ queue' \in Seq(Ids) /\ Len(queue) \in Nat /\ Len(queue') = Len(queue) + 1
      /\ \A i \in 1..Len(queue) : queue'[i] = queue[i]
      /\ queue'[Len(queue) + 1] = id
  OBVIOUS
<1>2. \A d : InQueue(d)' <=> InQueue(d) \/ d = id
  <2> TAKE d
  <2>1. InQueue(d)' => InQueue(d) \/ d = id
    <3> SUFFICES ASSUME NEW i \in 1..Len(queue'), queue'[i] = d PROVE InQueue(d) \/ d = id
      BY DEF InQueue
    <3>1. CASE i \in 1..Len(queue)
      BY <1>1, <3>1 DEF InQueue
    <3>2. CASE i = Len(queue) + 1
      BY <1>1, <3>2
    <3> QED
      BY <1>1, <3>1, <3>2
  <2>2. InQueue(d) => InQueue(d)'
    <3> SUFFICES ASSUME NEW i \in 1..Len(queue), queue[i] = d PROVE InQueue(d)'
      BY DEF InQueue
    <3>1. i \in 1..Len(queue') /\ queue'[i] = d
      BY <1>1
    <3> QED
      BY <3>1 DEF InQueue
  <2>3. d = id => InQueue(d)'
    <3>1. Len(queue) + 1 \in 1..Len(queue') /\ queue'[Len(queue) + 1] = id
      BY <1>1
    <3> QED
      BY <3>1 DEF InQueue
  <2> QED
    BY <2>1, <2>2, <2>3
<1> QED
  BY <1>1, <1>2

LEMMA QueueShrinks ==
    ASSUME queue \in Seq(Ids), queue # <<>>, queue' = Tail(queue)
    PROVE /\ queue' \in Seq(Ids) /\ Head(queue) \in Ids /\ InQueue(Head(queue))
          /\ \A d : InQueue(d)' => InQueue(d)
          /\ \A d : InQueue(d) => InQueue(d)' \/ d = Head(queue)
<1>1. /\ queue' \in Seq(Ids) /\ Len(queue) \in Nat /\ Len(queue) >= 1 /\ Len(queue') = Len(queue) - 1
      /\ \A i \in 1..Len(queue') : queue'[i] = queue[i + 1]
      /\ Head(queue) = queue[1] /\ Head(queue) \in Ids
  OBVIOUS
<1>2. InQueue(Head(queue))
  <2>1. 1 \in 1..Len(queue)
    BY <1>1
  <2> QED
    BY <2>1, <1>1 DEF InQueue
<1>3. \A d : InQueue(d)' => InQueue(d)
  <2> TAKE d
  <2> SUFFICES ASSUME NEW i \in 1..Len(queue'), queue'[i] = d PROVE InQueue(d)
    BY DEF InQueue
  <2>1. i + 1 \in 1..Len(queue) /\ queue[i + 1] = d
    BY <1>1
  <2> QED
    BY <2>1 DEF InQueue
<1>4. \A d : InQueue(d) => InQueue(d)' \/ d = Head(queue)
  <2> TAKE d
  <2> SUFFICES ASSUME NEW i \in 1..Len(queue), queue[i] = d PROVE InQueue(d)' \/ d = Head(queue)
    BY DEF InQueue
  <2>1. CASE i = 1
    BY <2>1, <1>1
  <2>2. CASE i # 1
    <3>1. i - 1 \in 1..Len(queue') /\ queue'[i - 1] = d
      BY <1>1, <2>2
    <3> QED
      BY <3>1 DEF InQueue
  <2> QED
    BY <2>1, <2>2
<1> QED
  BY <1>1, <1>2, <1>3, <1>4

LEMMA JobFact ==
    ASSUME StoreTypeOK
    PROVE /\ job \in Jobs <=> job # NoJob
          /\ job \in Jobs => job.id \in Ids /\ job.pc \in {"mount", "compress", "copy", "delete", "hung"}
          /\ job.pc # "none" => job \in Jobs
<1>1. job \in Jobs \/ job = NoJob
  BY DEF StoreTypeOK
<1>2. NoJob.pc = "none"
  BY DEF NoJob
<1>3. job \in Jobs => job.id \in Ids /\ job.pc \in {"mount", "compress", "copy", "delete", "hung"}
  BY DEF Jobs
<1> QED
  BY <1>1, <1>2, <1>3

LEMMA HandledStays ==
    ASSUME NEW f \in Stamps, Handled(f), flash'[f] = flash[f] \/ flash'[f] = "whole",
           \A k \in {1, 2} : Accounted(<<f, k>>) => Accounted(<<f, k>>)' \/ flash'[f] = "whole"
    PROVE Handled(f)'
<1>1. CASE flash'[f] = "whole"
  BY <1>1 DEF Handled
<1>2. CASE flash'[f] # "whole"
  <2>1. PICK k \in {1, 2} : Accounted(<<f, k>>)
    BY <1>2 DEF Handled
  <2>2. Accounted(<<f, k>>)'
    BY <1>2, <2>1
  <2> QED
    BY <2>2 DEF Handled
<1> QED
  BY <1>1, <1>2

\* What a job's file may count on, with the states of job and dispatcher spelled out.
LEMMA AccountedFact ==
    /\ \A id : Accounted(id) <=> \/ id \in logged \/ id \in late
                                 \/ job.pc = "hung" /\ InQueue(id)
                                 \/ /\ id \in tmp /\ job.pc # "hung"
                                    /\ (Taken /\ InQueue(id)) \/ (job # NoJob /\ job.id = id)
    /\ \A id : Accounted(id)' <=> \/ id \in logged' \/ id \in late'
                                  \/ job'.pc = "hung" /\ InQueue(id)'
                                  \/ /\ id \in tmp' /\ job'.pc # "hung"
                                     /\ (Taken' /\ InQueue(id)') \/ (job' # NoJob /\ job'.id = id)
BY DEF Accounted, Pending, Waits, Hung, NoJob

\* Handled again, with the parameter a member of Ids.
LEMMA HandledFact ==
    \A id \in Ids : /\ flash'[id[1]] = "whole" => Handled(id[1])'
                    /\ Accounted(id)' => Handled(id[1])'
<1> TAKE id \in Ids
<1>1. id = <<id[1], id[2]>> /\ id[2] \in {1, 2}
  BY IdsFact
<1> QED
  BY <1>1 DEF Handled

LEMMA StoreStarts ==
    ASSUME FileTypeOK, StoreTypeOK, StoreInv, SaversStarted, UNCHANGED storeVars
    PROVE StoreTypeOK' /\ StoreInv'
<1>1. UNCHANGED <<serving, tmp, queue, disp, job, flash, logged, late, main>>
  BY DEF storeVars
<1>2. StoreTypeOK'
  BY <1>1 DEF StoreTypeOK, Jobs, NoJob, Ids, Stamps
<1>3. \A f : Handled(f)' <=> Handled(f)
  BY <1>1 DEF Handled, Accounted, Pending, Waits, Hung, Taken, InQueue, NoJob
<1>4. \A d : InQueue(d)' <=> InQueue(d)
  BY <1>1 DEF InQueue
<1>5. \A id \in Ids : saver[id] \in {"ok", "done"} <=> saver'[id] \in {"ok", "done"}
  BY DEF SaversStarted
<1>6. \A id \in Ids : saver'[id] = "copied" => saver[id] = "copied"
  BY DEF SaversStarted
<1>7. /\ \A id \in Ids : saver[id] = "copied" => id \in tmp
      /\ \A id \in Ids : InQueue(id) => saver[id] \in {"ok", "done"}
      /\ job # NoJob => Taken
      /\ job \in Jobs => saver[job.id] \in {"ok", "done"}
      /\ job \in Jobs /\ job.pc = "delete" => flash[job.id[1]] = "whole" \/ job.id \in logged
      /\ \A id \in Ids : saver[id] \in {"ok", "done"} => Handled(id[1])
  BY DEF StoreInv
<1>8. \A id \in Ids : saver'[id] = "copied" => id \in tmp'
  BY <1>1, <1>6, <1>7
<1>9. \A id \in Ids : InQueue(id)' => saver'[id] \in {"ok", "done"}
  BY <1>4, <1>5, <1>7
<1>10. job' \in Jobs => saver'[job'.id] \in {"ok", "done"}
  BY <1>1, <1>5, <1>7, JobFact
<1>11. \A id \in Ids : saver'[id] \in {"ok", "done"} => Handled(id[1])'
  BY <1>3, <1>5, <1>7
<1>12. job' \in Jobs /\ job'.pc = "delete" => flash'[job'.id[1]] = "whole" \/ job'.id \in logged'
  BY <1>1, <1>7
<1>13. job' # NoJob => Taken'
  BY <1>1, <1>7 DEF Taken
<1> QED
  BY <1>2, <1>8, <1>9, <1>10, <1>11, <1>12, <1>13 DEF StoreInv, Jobs, NoJob, Ids, Stamps

\* The assembling of StoreInv' from its parts.
LEMMA StoreInvNext ==
    ASSUME \A id \in Ids : saver'[id] = "copied" => id \in tmp',
           \A id \in Ids : InQueue(id)' => saver'[id] \in {"ok", "done"},
           job' \in Jobs => saver'[job'.id] \in {"ok", "done"},
           job' \in Jobs /\ job'.pc = "delete" => flash'[job'.id[1]] = "whole" \/ job'.id \in logged',
           job' # NoJob => Taken',
           \A id \in Ids : saver'[id] \in {"ok", "done"} => Handled(id[1])'
    PROVE StoreInv'
BY DEF StoreInv, Jobs, NoJob, Ids, Stamps

LEMMA SaverStores ==
    ASSUME FileTypeOK, StoreTypeOK, StoreInv, NEW id \in Ids, SaverStep(id)
    PROVE StoreTypeOK' /\ StoreInv'
<1>1. /\ \A d \in Ids : saver[d] = "copied" => d \in tmp
      /\ \A d \in Ids : InQueue(d) => saver[d] \in {"ok", "done"}
      /\ job # NoJob => Taken
      /\ job \in Jobs => saver[job.id] \in {"ok", "done"}
      /\ job \in Jobs /\ job.pc = "delete" => flash[job.id[1]] = "whole" \/ job.id \in logged
      /\ \A d \in Ids : saver[d] \in {"ok", "done"} => Handled(d[1])
  BY DEF StoreInv
<1>2. UNCHANGED <<serving, disp, job, flash, logged, main>>
  BY DEF SaverStep, CallStoreFile, CopyToTemp, CreateStoreFileJob, DeleteDataFile, storeVars
<1>3. saver \in [Ids -> SaverPcs] /\ queue \in Seq(Ids)
  BY DEF FileTypeOK, StoreTypeOK
<1>4. job \in Jobs => job.id \in Ids
  BY JobFact
<1>5. ASSUME NEW pc, saver' = [saver EXCEPT ![id] = pc], saver[id] \in {"ok", "done"} => pc \in {"ok", "done"},
             tmp \subseteq tmp', tmp' \subseteq Ids, pc = "copied" => id \in tmp',
             \/ /\ queue' = queue /\ late' = late /\ pc # "ok" /\ (pc = "done" => saver[id] = "ok")
             \/ /\ queue' = Append(queue, id) /\ late' = IF Taken THEN late ELSE late \union {id}
                /\ pc = "ok" /\ saver[id] = "copied"
      PROVE StoreTypeOK' /\ StoreInv'
  <2>1. \A d \in Ids : saver'[d] = IF d = id THEN pc ELSE saver[d]
    BY <1>3, <1>5
  <2>2. queue' \in Seq(Ids) /\ \A d : InQueue(d)' <=> InQueue(d) \/ (d = id /\ pc = "ok")
    <3>1. CASE queue' = queue /\ pc # "ok"
      BY <1>3, <3>1 DEF InQueue
    <3>2. CASE queue' = Append(queue, id) /\ pc = "ok"
      BY <1>3, <3>2, QueueGrows
    <3> QED
      BY <1>5, <3>1, <3>2
  <2>3. StoreTypeOK'
    <3>1. late \subseteq Ids
      BY DEF StoreTypeOK
    <3>2. late' \subseteq Ids
      BY <1>5, <3>1
    <3> QED
      BY <1>2, <1>5, <2>2, <3>2 DEF StoreTypeOK, Jobs, NoJob, Ids, Stamps
  <2>12. Taken' <=> Taken
    BY <1>2 DEF Taken
  <2>13. late \subseteq late'
    BY <1>5
  <2>4. \A d : Accounted(d) => Accounted(d)'
    BY <1>2, <1>5, <2>2, <2>12, <2>13, AccountedFact
  <2>5. \A f \in Stamps : Handled(f) => Handled(f)'
    BY <1>2, <2>4, HandledStays
  <2>6. \A d \in Ids : saver[d] \in {"ok", "done"} => saver'[d] \in {"ok", "done"}
    BY <1>5, <2>1
  <2>7. \A d \in Ids : saver'[d] = "copied" => d \in tmp'
    BY <1>1, <1>5, <2>1
  <2>8. \A d \in Ids : InQueue(d)' => saver'[d] \in {"ok", "done"}
    BY <1>1, <2>1, <2>2, <2>6
  <2>9. job' \in Jobs => saver'[job'.id] \in {"ok", "done"}
    BY <1>1, <1>2, <1>4, <2>6
  <2>10. job' \in Jobs /\ job'.pc = "delete" => flash'[job'.id[1]] = "whole" \/ job'.id \in logged'
    BY <1>1, <1>2
  <2>11. \A d \in Ids : saver'[d] \in {"ok", "done"} => Handled(d[1])'
    <3> TAKE d \in Ids
    <3>1. d[1] \in Stamps
      BY IdsFact
    <3>2. CASE saver[d] \in {"ok", "done"}
      BY <1>1, <2>5, <3>1, <3>2
    <3>3. CASE saver[d] \notin {"ok", "done"} /\ saver'[d] \in {"ok", "done"}
      <4>1. d = id /\ pc = "ok" /\ saver[id] = "copied" /\ late' = IF Taken THEN late ELSE late \union {id}
        BY <1>5, <2>1, <3>3
      <4>2. id \in tmp' /\ InQueue(id)'
        BY <4>1, <1>1, <1>5, <2>2
      <4>3. Accounted(id)'
        BY <2>12, <4>1, <4>2, AccountedFact
      <4> QED
        BY <4>1, <4>3, HandledFact
    <3> QED
      BY <3>2, <3>3
  <2>14. job' # NoJob => Taken'
    BY <1>1, <1>2, <2>12
  <2> QED
    BY <2>3, <2>7, <2>8, <2>9, <2>10, <2>11, <2>14, StoreInvNext
<1>6. tmp \subseteq Ids
  BY DEF StoreTypeOK
<1>7. CASE CallStoreFile(id)
  <2>1. saver' = [saver EXCEPT ![id] = IF serving THEN "copying" ELSE "left"] /\ saver[id] = "call" /\ UNCHANGED <<tmp, queue, late>>
    BY <1>7 DEF CallStoreFile, GoTo, storeVars
  <2> DEFINE p == IF serving THEN "copying" ELSE "left"
  <2>2. saver' = [saver EXCEPT ![id] = p] /\ p \notin {"ok", "done", "copied"}
    BY <2>1
  <2> HIDE DEF p
  <2> QED
    BY <1>5, <1>6, <2>1, <2>2
<1>8. CASE CopyToTemp(id)
  <2>1. saver[id] = "copying" /\ UNCHANGED <<queue, late>>
    BY <1>8 DEF CopyToTemp
  <2>2. CASE saver' = [saver EXCEPT ![id] = "copied"] /\ tmp' = tmp \union {id}
    BY <1>5, <1>6, <2>1, <2>2
  <2>3. CASE saver' = [saver EXCEPT ![id] = "left"] /\ tmp' = tmp
    BY <1>5, <1>6, <2>1, <2>3
  <2> QED
    BY <1>8, <2>2, <2>3 DEF CopyToTemp, GoTo
<1>9. CASE CreateStoreFileJob(id)
  <2>1. /\ saver[id] = "copied" /\ queue' = Append(queue, id) /\ saver' = [saver EXCEPT ![id] = "ok"] /\ tmp' = tmp
        /\ late' = IF Taken THEN late ELSE late \union {id}
    BY <1>9 DEF CreateStoreFileJob, GoTo
  <2> QED
    BY <1>5, <1>6, <2>1
<1>10. CASE DeleteDataFile(id)
  <2>1. saver[id] = "ok" /\ saver' = [saver EXCEPT ![id] = "done"] /\ UNCHANGED <<tmp, queue, late>>
    BY <1>10 DEF DeleteDataFile, GoTo, storeVars
  <2> QED
    BY <1>5, <1>6, <2>1
<1> QED
  BY <1>7, <1>8, <1>9, <1>10 DEF SaverStep

\* A job makes a step: it touches its own temporary file and the place of its file
\* on the drive; either the file is then whole there or the log says why not, or
\* the job goes on with its temporary file in place.
JobMoves ==
    /\ job \in Jobs /\ ~Hung /\ UNCHANGED <<queue, disp, serving, main, saver, late>>
    /\ job' = NoJob \/ (job' \in Jobs /\ job'.id = job.id)
    /\ tmp' \subseteq tmp /\ \A d \in tmp : d # job.id => d \in tmp'
    /\ logged \subseteq logged' /\ logged' \subseteq Ids
    /\ flash' \in [Stamps -> {"none", "partial", "whole"}]
    /\ \A f \in Stamps : f # job.id[1] => flash'[f] = flash[f]
Settled == flash'[job.id[1]] = "whole" \/ job.id \in logged'
GoesOn == flash' = flash /\ tmp' = tmp /\ job' \in Jobs /\ job'.pc \notin {"hung", "delete"}

LEMMA JobKeeps ==
    ASSUME StoreTypeOK, StoreInv, JobMoves, Settled \/ GoesOn
    PROVE StoreTypeOK' /\ StoreInv'
<1>1. /\ \A d \in Ids : saver[d] = "copied" => d \in tmp
      /\ \A d \in Ids : InQueue(d) => saver[d] \in {"ok", "done"}
      /\ saver[job.id] \in {"ok", "done"}
      /\ \A d \in Ids : saver[d] \in {"ok", "done"} => Handled(d[1])
      /\ job # NoJob => Taken
  BY DEF StoreInv, JobMoves
<1>2. job.id \in Ids /\ job.id[1] \in Stamps /\ job # NoJob /\ NoJob \notin Jobs
  BY JobFact, IdsFact DEF JobMoves, NoJob, Jobs
<1>3. UNCHANGED <<queue, disp, serving, main, late>> /\ saver' = saver
  BY DEF JobMoves
<1>4. StoreTypeOK'
  <2>1. tmp' \subseteq Ids /\ logged' \subseteq Ids /\ job' \in Jobs \union {NoJob}
        /\ flash' \in [Stamps -> {"none", "partial", "whole"}]
    BY DEF JobMoves, StoreTypeOK
  <2> QED
    BY <1>3, <2>1 DEF StoreTypeOK, Jobs, NoJob, Ids, Stamps
<1>5. \A d : InQueue(d)' <=> InQueue(d)
  BY <1>3 DEF InQueue
<1>6. \A d \in Ids : d # job.id /\ Accounted(d) => Accounted(d)'
  <2> SUFFICES ASSUME NEW d \in Ids, d # job.id, Accounted(d) PROVE Accounted(d)'
    OBVIOUS
  <2>1. job.pc # "hung" /\ logged \subseteq logged' /\ (d \in tmp => d \in tmp') /\ (Taken' <=> Taken)
    BY <1>3 DEF JobMoves, Hung, Taken
  <2>2. d \in logged \/ d \in late \/ (d \in tmp /\ Taken /\ InQueue(d))
    BY <2>1, AccountedFact
  <2> QED
    BY <1>3, <1>5, <2>1, <2>2, AccountedFact
<1>7. ASSUME NEW f \in Stamps, Handled(f), f # job.id[1] PROVE Handled(f)'
  <2>1. \A k \in {1, 2} : <<f, k>> \in Ids /\ <<f, k>> # job.id
    BY <1>7, IdsFact
  <2>2. \A k \in {1, 2} : Accounted(<<f, k>>) => Accounted(<<f, k>>)'
    BY <1>6, <2>1
  <2> QED
    BY <1>7, <2>2, HandledStays DEF JobMoves
<1>8. ASSUME NEW f \in Stamps, Handled(f), f = job.id[1] PROVE Handled(f)'
  <2>1. PICK id \in Ids : id = job.id
    BY <1>2
  <2>2. CASE Settled
    BY <1>8, <2>1, <2>2, HandledFact, AccountedFact DEF Settled
  <2>3. CASE GoesOn
    <3>1. job' # NoJob /\ job'.id = job.id /\ job'.pc # "hung"
      BY <2>3, <1>2 DEF GoesOn, JobMoves
    <3>2. job.pc # "hung" /\ logged \subseteq logged' /\ (Taken' <=> Taken) /\ tmp' = tmp
      BY <1>3, <2>3 DEF GoesOn, JobMoves, Hung, Taken
    <3>4. \A d : Accounted(d) => Accounted(d)'
      BY <1>3, <1>5, <3>1, <3>2, AccountedFact
    <3>3. flash' = flash
      BY <2>3 DEF GoesOn
    <3> QED
      BY <1>8, <3>3, <3>4, HandledStays
  <2> QED
    BY <2>2, <2>3
<1>9. \A d \in Ids : saver'[d] \in {"ok", "done"} => Handled(d[1])'
  <2> TAKE d \in Ids
  <2>1. d[1] \in Stamps /\ (saver[d] \in {"ok", "done"} => Handled(d[1]))
    BY <1>1, IdsFact
  <2> QED
    BY <2>1, <1>3, <1>7, <1>8
<1>10. \A d \in Ids : saver'[d] = "copied" => d \in tmp'
  BY <1>1, <1>3 DEF JobMoves
<1>11. \A d \in Ids : InQueue(d)' => saver'[d] \in {"ok", "done"}
  BY <1>1, <1>3, <1>5
<1>12. job' \in Jobs => saver'[job'.id] \in {"ok", "done"}
  BY <1>1, <1>2, <1>3 DEF JobMoves
<1>13. job' \in Jobs /\ job'.pc = "delete" => flash'[job'.id[1]] = "whole" \/ job'.id \in logged'
  BY <1>2 DEF JobMoves, Settled, GoesOn
<1>14. job' # NoJob => Taken'
  BY <1>1, <1>2, <1>3 DEF Taken
<1> QED
  BY <1>4, <1>9, <1>10, <1>11, <1>12, <1>13, <1>14, StoreInvNext

LEMMA JobPc ==
    ASSUME job \in Jobs, NEW pc \in {"mount", "compress", "copy", "delete", "hung"}, job' = [job EXCEPT !.pc = pc]
    PROVE job' \in Jobs /\ job'.id = job.id /\ job'.pc = pc
BY DEF Jobs

LEMMA DispatcherStores ==
    ASSUME FileTypeOK, StoreTypeOK, StoreInv, DispatcherStep \/ StopServer \/ MainEnds
    PROVE StoreTypeOK' /\ StoreInv' /\ UNCHANGED <<fileVars, hfVars>>
<1>1. /\ \A d \in Ids : saver[d] = "copied" => d \in tmp
      /\ \A d \in Ids : InQueue(d) => saver[d] \in {"ok", "done"}
      /\ job # NoJob => Taken
      /\ job \in Jobs => saver[job.id] \in {"ok", "done"}
      /\ job \in Jobs /\ job.pc = "delete" => flash[job.id[1]] = "whole" \/ job.id \in logged
      /\ \A d \in Ids : saver[d] \in {"ok", "done"} => Handled(d[1])
  BY DEF StoreInv
<1>2. UNCHANGED <<fileVars, hfVars>>
  BY DEF DispatcherStep, StopServer, MainEnds, TakeJob, MountDrive, CompressFile, CopyToFlash, DeleteTemp,
         LeaveLoop, Drained, DispatcherEnds, JobUnchanged
<1> SUFFICES StoreTypeOK' /\ StoreInv'
  BY <1>2
<1>3. saver' = saver
  BY <1>2 DEF fileVars
<1>4. /\ serving \in BOOLEAN /\ tmp \subseteq Ids /\ queue \in Seq(Ids) /\ logged \subseteq Ids /\ late \subseteq Ids
      /\ disp \in {"loop", "drain", "wait", "ended"} /\ main \in {"run", "dispatcher", "ended"}
      /\ flash \in [Stamps -> {"none", "partial", "whole"}]
      /\ job \in Jobs \union {NoJob}
  BY DEF StoreTypeOK
<1>5. /\ job \in Jobs <=> job # NoJob
      /\ job \in Jobs => job.id \in Ids /\ job.pc \in {"mount", "compress", "copy", "delete", "hung"}
      /\ job.pc # "none" => job \in Jobs
  BY JobFact
<1>6. CASE TakeJob
  <2>1. /\ job = NoJob /\ queue # <<>> /\ queue' = Tail(queue) /\ job' = [pc |-> "mount", id |-> Head(queue)]
        /\ UNCHANGED <<tmp, disp, flash, logged, serving, late, main>> /\ Taken /\ Taken'
    BY <1>6 DEF TakeJob, JobUnchanged, Taken
  <2>2. /\ queue' \in Seq(Ids) /\ Head(queue) \in Ids /\ InQueue(Head(queue))
        /\ \A d : InQueue(d)' => InQueue(d)
        /\ \A d : InQueue(d) => InQueue(d)' \/ d = Head(queue)
    BY <1>4, <2>1, QueueShrinks
  <2>3. job' \in Jobs /\ job'.pc = "mount" /\ job'.id = Head(queue) /\ job' # NoJob
    BY <2>1, <2>2 DEF Jobs, NoJob
  <2>4. StoreTypeOK'
    BY <1>4, <2>1, <2>2, <2>3 DEF StoreTypeOK, Jobs, NoJob, Ids, Stamps
  <2>5. \A d : Accounted(d) => Accounted(d)'
    <3>1. job.pc # "hung" /\ job'.pc # "hung"
      BY <2>1, <2>3 DEF NoJob
    <3> QED
      BY <2>1, <2>2, <2>3, <3>1, AccountedFact
  <2>6. \A f \in Stamps : Handled(f) => Handled(f)'
    BY <2>1, <2>5, HandledStays
  <2>7. \A d \in Ids : saver'[d] \in {"ok", "done"} => Handled(d[1])'
    BY <1>1, <1>3, <2>6, IdsFact
  <2>8. \A d \in Ids : saver'[d] = "copied" => d \in tmp'
    BY <1>1, <1>3, <2>1
  <2>9. \A d \in Ids : InQueue(d)' => saver'[d] \in {"ok", "done"}
    BY <1>1, <1>3, <2>2
  <2>10. job' \in Jobs => saver'[job'.id] \in {"ok", "done"}
    BY <1>1, <1>3, <2>2, <2>3
  <2>11. job' \in Jobs /\ job'.pc = "delete" => flash'[job'.id[1]] = "whole" \/ job'.id \in logged'
    BY <2>3
  <2>12. job' # NoJob => Taken'
    BY <2>1
  <2> QED
    BY <2>4, <2>7, <2>8, <2>9, <2>10, <2>11, <2>12, StoreInvNext
<1>7. ASSUME job \in Jobs, job.pc # "hung", UNCHANGED <<queue, disp, serving, main, late, flash>>,
             job' = NoJob \/ (job' \in Jobs /\ job'.id = job.id),
             tmp' = tmp \ {job.id}, logged' = logged \union {job.id}
      PROVE StoreTypeOK' /\ StoreInv'
  <2>1. JobMoves
    BY <1>3, <1>4, <1>5, <1>7 DEF JobMoves, Hung
  <2>2. Settled
    BY <1>7 DEF Settled
  <2> QED
    BY <2>1, <2>2, JobKeeps
<1>8. ASSUME job \in Jobs, job.pc # "hung", UNCHANGED <<queue, disp, serving, main, late, flash, tmp, logged>>,
             NEW pc \in {"compress", "copy"}, job' = [job EXCEPT !.pc = pc]
      PROVE StoreTypeOK' /\ StoreInv'
  <2>1. job' \in Jobs /\ job'.id = job.id /\ job'.pc = pc
    BY <1>8, JobPc
  <2>2. JobMoves
    BY <1>3, <1>4, <1>8, <2>1 DEF JobMoves, Hung
  <2>3. GoesOn
    BY <1>8, <2>1 DEF GoesOn
  <2> QED
    BY <2>2, <2>3, JobKeeps
<1>9. CASE MountDrive
  <2>1. job \in Jobs /\ job.pc # "hung" /\ UNCHANGED <<queue, disp, flash, serving, late, main>>
    BY <1>5, <1>9 DEF MountDrive, JobUnchanged
  <2>2. CASE job' = NoJob /\ tmp' = tmp \ {job.id} /\ logged' = logged \union {job.id}
    BY <1>7, <2>1, <2>2
  <2>3. ASSUME NEW pc \in {"compress", "copy"}, job' = [job EXCEPT !.pc = pc], UNCHANGED <<tmp, logged>>
        PROVE StoreTypeOK' /\ StoreInv'
    BY <1>8, <2>1, <2>3
  <2> QED
    BY <1>9, <2>2, <2>3 DEF MountDrive
<1>10. CASE CompressFile
  <2>1. job \in Jobs /\ job.pc # "hung" /\ UNCHANGED <<queue, disp, flash, serving, late, main>>
    BY <1>5, <1>10 DEF CompressFile, JobUnchanged
  <2>2. CASE job' = [job EXCEPT !.pc = "copy"] /\ UNCHANGED <<tmp, logged>>
    BY <1>8, <2>1, <2>2
  <2>3. CASE job' = [job EXCEPT !.pc = "hung"] /\ tmp' = tmp \ {job.id} /\ logged' = logged \union {job.id}
    <3>1. job' \in Jobs /\ job'.id = job.id
      BY <2>1, <2>3, JobPc
    <3> QED
      BY <1>7, <2>1, <2>3, <3>1
  <2> QED
    BY <1>10, <2>2, <2>3 DEF CompressFile
<1>11. CASE CopyToFlash
  <2>1. job \in Jobs /\ ~Hung /\ UNCHANGED <<queue, disp, tmp, serving, late, main>> /\ job' = [job EXCEPT !.pc = "delete"]
    BY <1>5, <1>11 DEF CopyToFlash, JobUnchanged, Hung
  <2>2. job' \in Jobs /\ job'.id = job.id /\ job.id \in Ids /\ job.id[1] \in Stamps
    BY <1>5, <2>1, IdsFact, JobPc
  <2>3. ASSUME NEW s \in {"partial", "whole"}, flash' = [flash EXCEPT ![job.id[1]] = s]
        PROVE /\ flash' \in [Stamps -> {"none", "partial", "whole"}] /\ flash'[job.id[1]] = s
              /\ \A f \in Stamps : f # job.id[1] => flash'[f] = flash[f]
    BY <1>4, <2>2, <2>3
  <2>4. CASE flash' = [flash EXCEPT ![job.id[1]] = "whole"] /\ UNCHANGED logged
    <3>1. /\ flash' \in [Stamps -> {"none", "partial", "whole"}] /\ flash'[job.id[1]] = "whole"
          /\ \A f \in Stamps : f # job.id[1] => flash'[f] = flash[f]
      BY <2>3, <2>4
    <3>2. JobMoves /\ Settled
      BY <1>3, <1>4, <2>1, <2>2, <2>4, <3>1 DEF JobMoves, Settled
    <3> QED
      BY <3>2, JobKeeps
  <2>5. CASE flash' = [flash EXCEPT ![job.id[1]] = "partial"] /\ logged' = logged \union {job.id}
    <3>1. /\ flash' \in [Stamps -> {"none", "partial", "whole"}]
          /\ \A f \in Stamps : f # job.id[1] => flash'[f] = flash[f]
      BY <2>3, <2>5
    <3>2. JobMoves /\ Settled
      BY <1>3, <1>4, <2>1, <2>2, <2>5, <3>1 DEF JobMoves, Settled
    <3> QED
      BY <3>2, JobKeeps
  <2> QED
    BY <1>11, <2>4, <2>5 DEF CopyToFlash
<1>12. CASE DeleteTemp
  <2>1. job \in Jobs /\ job.pc = "delete" /\ UNCHANGED <<queue, disp, flash, logged, serving, late, main>> /\ job' = NoJob /\ tmp' = tmp \ {job.id}
    BY <1>5, <1>12 DEF DeleteTemp, JobUnchanged
  <2>2. Settled
    BY <1>1, <2>1 DEF Settled
  <2>3. JobMoves
    BY <1>3, <1>4, <2>1 DEF JobMoves, Hung
  <2> QED
    BY <2>2, <2>3, JobKeeps
<1>13. CASE LeaveLoop \/ Drained \/ DispatcherEnds \/ StopServer \/ MainEnds
  <2>1. UNCHANGED <<tmp, job, flash, logged, late>> /\ queue' \in {queue, <<>>}
    BY <1>13 DEF LeaveLoop, Drained, DispatcherEnds, StopServer, MainEnds, JobUnchanged
  <2>2. disp' \in {"loop", "drain", "wait", "ended"} /\ main' \in {"run", "dispatcher", "ended"} /\ serving' \in BOOLEAN
    BY <1>4, <1>13 DEF LeaveLoop, Drained, DispatcherEnds, StopServer, MainEnds, JobUnchanged
  <2>3. StoreTypeOK'
    <3>1. <<>> \in Seq(Ids)
      OBVIOUS
    <3>2. queue' \in Seq(Ids)
      BY <1>4, <2>1, <3>1, Zenon
    <3> QED
      BY <1>4, <2>1, <2>2, <3>2 DEF StoreTypeOK, Jobs, NoJob, Ids, Stamps
  <2>4. \A d : InQueue(d)' => InQueue(d)
    <3>1. CASE queue' = queue
      BY <3>1 DEF InQueue
    <3>2. CASE queue' = <<>>
      <4>1. Len(<<>>) = 0 /\ \A i \in 1..0 : FALSE
        OBVIOUS
      <4>2. Len(queue') = 0
        BY <3>2, <4>1
      <4> QED
        BY <4>1, <4>2 DEF InQueue
    <3> QED
      BY <2>1, <3>1, <3>2
  <2>5. \A d : Accounted(d) => Accounted(d)'
    <3>1. CASE (Taken' <=> Taken) /\ queue' = queue
      <4>1. \A d : InQueue(d)' <=> InQueue(d)
        BY <3>1 DEF InQueue
      <4> QED
        BY <2>1, <3>1, <4>1, AccountedFact
    <3>2. CASE job = NoJob /\ \A d : ~(Taken /\ InQueue(d))
      <4>1. job.pc # "hung" /\ job' = NoJob
        BY <2>1, <3>2 DEF NoJob
      <4> QED
        BY <2>1, <3>2, <4>1, AccountedFact
    <3>3. CASE LeaveLoop \/ DispatcherEnds \/ StopServer
      BY <3>1, <3>3 DEF LeaveLoop, DispatcherEnds, StopServer, JobUnchanged, Taken
    <3>4. CASE Drained
      <4>1. job = NoJob /\ Len(queue) = 0 /\ \A i \in 1..0 : FALSE
        BY <3>4 DEF Drained
      <4> QED
        BY <3>2, <4>1 DEF InQueue
    <3>5. CASE MainEnds
      <4>1. ~Taken
        BY <3>5 DEF MainEnds, Taken
      <4> QED
        BY <1>1, <3>2, <4>1
    <3> QED
      BY <1>13, <3>3, <3>4, <3>5
  <2>6. \A f \in Stamps : Handled(f) => Handled(f)'
    BY <2>1, <2>5, HandledStays
  <2>7. \A d \in Ids : saver'[d] \in {"ok", "done"} => Handled(d[1])'
    BY <1>1, <1>3, <2>6, IdsFact
  <2>8. job' # NoJob => Taken'
    BY <1>1, <1>13, <2>1 DEF LeaveLoop, Drained, DispatcherEnds, StopServer, MainEnds, JobUnchanged, Taken
  <2>9. /\ \A d \in Ids : saver'[d] = "copied" => d \in tmp'
        /\ \A d \in Ids : InQueue(d)' => saver'[d] \in {"ok", "done"}
    BY <1>1, <1>3, <2>1, <2>4
  <2>10. /\ job' \in Jobs => saver'[job'.id] \in {"ok", "done"}
         /\ job' \in Jobs /\ job'.pc = "delete" => flash'[job'.id[1]] = "whole" \/ job'.id \in logged'
    BY <1>1, <1>3, <2>1
  <2> QED
    BY <2>3, <2>7, <2>8, <2>9, <2>10, StoreInvNext
<1> QED
  BY <1>6, <1>9, <1>10, <1>11, <1>12, <1>13 DEF DispatcherStep

-----------------------------------------------------------------------------
(* The inductive invariant and the theorems *)

IInv == FileTypeOK /\ HfTypeOK /\ StoreTypeOK /\ FileInv /\ SlotInv /\ StoreInv

LEMMA IInvInit == StoreInit => IInv
<1> SUFFICES ASSUME StoreInit PROVE IInv
  OBVIOUS
<1>1. FileTypeOK /\ HfTypeOK /\ StoreTypeOK /\ FileInv
  BY TypeInit, FileInvInit
<1>2. SlotInv
  BY DEF StoreInit, HfInit, SlotInv
<1>3. StoreInv
  <2>1. \A id \in Ids : saver[id] = "none"
    BY DEF StoreInit, Init
  <2>2. \A id : ~InQueue(id)
    <3>1. Len(<<>>) = 0
      OBVIOUS
    <3>2. Len(queue) = 0
      BY <3>1 DEF StoreInit
    <3> QED
      BY <3>2 DEF InQueue
  <2>3. job \notin Jobs /\ job = NoJob
    BY DEF StoreInit, NoJob, Jobs
  <2> QED
    BY <2>1, <2>2, <2>3 DEF StoreInv
<1> QED
  BY <1>1, <1>2, <1>3 DEF IInv

LEMMA IInvStep == IInv /\ [Next]_vars => IInv'
<1> SUFFICES ASSUME IInv, [Next]_vars PROVE IInv'
  OBVIOUS
<1>0. FileTypeOK /\ HfTypeOK /\ StoreTypeOK /\ FileInv /\ SlotInv /\ StoreInv
  BY DEF IInv
<1>1. ASSUME UNCHANGED <<hfVars, kind>> PROVE HfTypeOK' /\ SlotInv'
  <2>1. UNCHANGED <<kind, sysIndex, testTime, mode, hf>>
    BY <1>1 DEF hfVars
  <2> QED
    BY <1>0, <2>1 DEF HfTypeOK, SlotInv, Offset, TestPeriod, Systems, HfPcs
<1>2. CASE DataStep /\ UNCHANGED <<hfVars, storeVars>>
  <2>1. FileTypeOK' /\ FileInv' /\ SaversStarted
    BY <1>0, <1>2, DataStepKeeps
  <2>2. kind' = kind
    BY <1>2 DEF DataStep, Tick, ClockIsSet, StopData, DataThreadEnds
  <2> QED
    BY <1>0, <1>1, <1>2, <2>1, <2>2, StoreStarts DEF IInv
<1>3. CASE HfStep /\ UNCHANGED storeVars
  <2>1. FileTypeOK' /\ FileInv' /\ SaversStarted
    BY <1>0, <1>3, HfStepKeeps
  <2>2. HfTypeOK' /\ kind = "hf"
    BY <1>0, <1>3, HfTypeKept
  <2>3. SlotInv'
    BY <1>0, <1>3, <2>2, SlotKept
  <2> QED
    BY <1>0, <1>3, <2>1, <2>2, <2>3, StoreStarts DEF IInv
<1>4. ASSUME NEW id \in Ids, SaverStep(id) PROVE IInv'
  <2>1. SaverMoves(id)
    BY <1>4, SaverOutcome
  <2>2. FileTypeOK' /\ FileInv'
    BY <1>0, <2>1, SaverKeeps
  <2>3. StoreTypeOK' /\ StoreInv'
    BY <1>0, <1>4, SaverStores
  <2> QED
    BY <1>1, <2>1, <2>2, <2>3 DEF IInv, SaverMoves
<1>5. ASSUME UNCHANGED fileVars PROVE FileTypeOK'
  BY <1>0, <1>5 DEF fileVars, FileTypeOK, DataThreads, Stamps, None, Sizes, SaverPcs, Ids
<1>6. ASSUME UNCHANGED <<fileVars, hfVars>> PROVE FileInv'
  <2>1. UNCHANGED <<kind, now, dt, ready, content, disk, compress, saver, hf>>
    BY <1>6 DEF fileVars, hfVars
  <2> QED
    BY <1>0, <2>1 DEF FileInv, DiskInv, DataInv, Running, ClosedFiles, OpenFiles, Begun, HfFilesInv, PoweredOn,
        PeriodInv, Ended, Young, EndOfPeriod, NoGapInFile, Stamps, None
<1>7. CASE DispatcherStep \/ StopServer \/ MainEnds
  <2>1. StoreTypeOK' /\ StoreInv' /\ UNCHANGED <<fileVars, hfVars>>
    BY <1>0, <1>7, DispatcherStores
  <2> QED
    BY <1>1, <1>5, <1>6, <2>1 DEF IInv, fileVars
<1>8. CASE UNCHANGED vars
  <2>1. UNCHANGED <<fileVars, hfVars, storeVars>>
    BY <1>8 DEF vars
  <2>2. SaversStarted
    BY <2>1 DEF SaversStarted, fileVars
  <2>3. StoreTypeOK' /\ StoreInv'
    BY <1>0, <2>1, <2>2, StoreStarts
  <2> QED
    BY <1>1, <1>5, <1>6, <2>1, <2>3 DEF IInv, fileVars
<1> QED
  BY <1>2, <1>3, <1>4, <1>7, <1>8 DEF Next

LEMMA Invariance == Spec => []IInv
BY IInvInit, IInvStep, PTL DEF Spec

\* Every variable keeps its type, and the file that a data thread appends to is on
\* the disk.
THEOREM TypeCorrect == Spec => []TypeOK
<1>1. IInv => TypeOK
  <2> SUFFICES ASSUME IInv PROVE TypeOK
    OBVIOUS
  <2>1. FileTypeOK /\ HfTypeOK /\ StoreTypeOK /\ DataInv /\ HfFilesInv
    BY DEF IInv, FileInv
  <2>2. dt.state = 2 /\ dt.pc = "run" => dt.path \in disk
    BY <2>1 DEF DataInv, OpenFiles, HfFilesInv, Running
  <2>3. job = NoJob \/ (job.pc \in {"mount", "compress", "copy", "delete", "hung"} /\ job.id \in Ids)
    BY <2>1, JobFact
  <2> QED
    BY <2>1, <2>2, <2>3 DEF TypeOK, FileTypeOK, HfTypeOK, StoreTypeOK, DataThreads, Sizes, SaverPcs, HfPcs
<1> QED
  BY <1>1, Invariance, PTL

\* However the managers, usb_mgr's handlers and its Dispatcher interleave, and
\* whichever of their steps fail, a data file that is gone from its temp_dir is on
\* the drive, in a temporary copy whose job is going to be run, or in the log; the
\* others wait behind a job that hung the Dispatcher, or were queued when a stopping
\* Dispatcher had looked at its queue for the last time (SaveFileThread in
\* fg_mgr.py:52-60, usb_mgr.py:58-90, 168-217, 315-332).
THEOREM NothingIsLost == Spec => []NothingLostSilently
<1>1. IInv => NothingLostSilently
  <2> SUFFICES ASSUME IInv, NEW f \in Stamps, content[f] # <<>>, f \notin disk PROVE Handled(f)
    BY DEF NothingLostSilently, Handled, Accounted, Waits
  <2>1. saver[<<f, 1>>] = "done" \/ saver[<<f, 2>>] = "done"
    BY DEF IInv, FileInv, DiskInv
  <2>2. \A k \in {1, 2} : <<f, k>> \in Ids /\ <<f, k>>[1] = f
    BY IdsFact
  <2> QED
    BY <2>1, <2>2 DEF IInv, StoreInv
<1> QED
  BY <1>1, Invariance, PTL

\* No fluxgate or search coil file has a hole, with any number of lost or late
\* packets, files that could not be opened and any length of the period
\* (fg_mgr.py:193-207, sc_mgr.py).
THEOREM FilesWithoutGaps == Spec => []NoGapInFile
<1>1. IInv => NoGapInFile
  BY DEF IInv, FileInv
<1> QED
  BY <1>1, Invariance, PTL

\* No file crosses the end of a period, but for the exceptions that ClosedInTime
\* names, and a CASES file is written to when it is a period old only if a pause of
\* about a day lies between its packets: every other age shows in the seconds that
\* cases_mgr.py:285-289 compares with the period.
THEOREM FilesClosedInTime == Spec => []ClosedInTime
<1>1. IInv => ClosedInTime
  <2> SUFFICES ASSUME IInv, NEW f \in Stamps, NEW i \in 1..(Len(content[f]) - 1)
               PROVE IF kind = "cases" THEN Fresh(content[f], f, i)
                     ELSE \A e \in Stamps : /\ EndOfPeriod(e)
                                            /\ content[f][i] <= e
                                            /\ e < content[f][i + 1]
                                            => f = e \/ (kind = "hskp" /\ content[f][i] # e)
    BY DEF ClosedInTime, Fresh
  <2>1. FileTypeOK /\ DiskInv /\ PeriodInv /\ NoGapInFile
    BY DEF IInv, FileInv
  <2>2. CASE kind = "cases"
    BY <2>1, <2>2 DEF PeriodInv, Young
  <2>3. CASE kind = "hf"
    <3>1. content[f] \in Seq(Stamps) /\ Len(content[f]) <= 1
      BY <2>1, <2>3 DEF FileTypeOK, PeriodInv
    <3>2. Len(content[f]) \in Nat
      BY <3>1
    <3>3. i \in 1..(Len(content[f]) - 1)
      OBVIOUS
    <3>4. FALSE
      BY <3>1, <3>2, <3>3
    <3> QED
      BY <3>4
  <2>4. CASE kind \in {"fg", "sc", "hskp"}
    <3> SUFFICES ASSUME NEW e \in Stamps, EndOfPeriod(e), content[f][i] <= e, e < content[f][i + 1],
                        kind = "hskp" => content[f][i] = e
                 PROVE f = e
      BY <2>4
    <3>1. content[f] \in Seq(Stamps) /\ i \in 1..Len(content[f]) /\ i + 1 \in 1..Len(content[f])
      <4>1. content[f] \in Seq(Stamps)
        BY <2>1 DEF FileTypeOK
      <4>2. Len(content[f]) \in Nat
        BY <4>1
      <4>3. i \in 1..Len(content[f]) /\ i + 1 \in 1..Len(content[f])
        BY <4>2
      <4> QED
        BY <4>1, <4>3
    <3>2. content[f][i] \in Nat /\ content[f][i + 1] \in Nat /\ e \in Nat
      <4>1. content[f][i] \in Stamps /\ content[f][i + 1] \in Stamps /\ e \in Stamps
        BY <3>1
      <4> QED
        BY <4>1, StampsFact
    <3>3. content[f][i] = e
      <4>1. CASE kind = "hskp"
        BY <4>1
      <4>2. CASE kind # "hskp"
        <5>1. content[f][i + 1] - content[f][i] \in {0, 1}
          BY <2>1, <2>4, <4>2 DEF NoGapInFile
        <5> QED
          BY <5>1, <3>2
      <4> QED
        BY <4>1, <4>2
    <3>4. i = 1
      <4>1. \A j \in 2..(Len(content[f]) - 1) : ~EndOfPeriod(content[f][j])
        BY <2>1, <2>4 DEF PeriodInv, Ended
      <4> QED
        BY <3>3, <4>1
    <3>5. content[f] # <<>>
      BY <3>1
    <3> QED
      BY <2>1, <3>3, <3>4, <3>5 DEF DiskInv
  <2> QED
    BY <2>1, <2>2, <2>3, <2>4, FilesAssumption DEF FileTypeOK
<1> QED
  BY <1>1, Invariance, PTL

\* A station is on the air only in its slot, moved by the dead time, for any number
\* of stations, any slot, dead time and message length that hf_mgr_config.py may
\* be given within HfAssumption (hf_mgr.py:142-167, 228-239).
THEOREM OnAirInSlot == Spec => []AirInSlot
<1>1. IInv => AirInSlot
  <2> SUFFICES ASSUME IInv, hf.pc = "sending" PROVE InMovedSlot(testTime, sysIndex)
    BY DEF AirInSlot
  <2>1. SlotInv /\ HfTypeOK
    BY DEF IInv
  <2>2. sysIndex \in Systems /\ testTime \in 0..(TestPeriod - 1) /\ hf.timer \in Nat
    BY <2>1 DEF SlotInv, HfTypeOK
  <2>3. TxDeadTime <= Offset(testTime, sysIndex) /\ Offset(testTime, sysIndex) < TxPeriod + TxTime - hf.timer
    BY <2>1 DEF SlotInv
  <2>4. Offset(testTime, sysIndex) \in Int
    BY <2>2, CycleFact DEF Offset
  <2>5. Offset(testTime, sysIndex) < TxPeriod + TxDeadTime
    BY <2>2, <2>3, <2>4, CycleFact
  <2> QED
    BY <2>2, <2>3, <2>5, MovedSlot
<1> QED
  BY <1>1, Invariance, PTL

\* The manager's thread leaves the modem in transmit mode only if it is stopped in
\* the dead time (hf_mgr.py:115-125, 142-146, 168).
THEOREM KeyedOnlyByStop == Spec => NotLeftKeyed
<1>1. IInv /\ [Next]_vars
      => [hf.pc # "ended" /\ hf'.pc = "ended" /\ mode' = "transmit" => hf.pc = "dead"]_<<fileVars, hfVars>>
  <2> SUFFICES ASSUME IInv, [Next]_vars, hf.pc # "ended", hf'.pc = "ended", mode' = "transmit" PROVE hf.pc = "dead"
    OBVIOUS
  <2>1. hf' # hf
    OBVIOUS
  <2>2. HfStep
    <3>1. ASSUME NEW id \in Ids, SaverStep(id) PROVE hf' = hf
      BY <3>1, SaverOutcome DEF SaverMoves, hfVars
    <3>2. ASSUME DispatcherStep \/ StopServer \/ MainEnds PROVE hf' = hf
      BY <3>2, DispatcherStores DEF IInv, hfVars
    <3> QED
      BY <2>1, <3>1, <3>2 DEF Next, vars, hfVars
  <2> QED
    BY <2>2, HfTypeKept, SlotKept DEF IInv
<1> QED
  BY <1>1, Invariance, PTL DEF Spec, NotLeftKeyed
=============================================================================
