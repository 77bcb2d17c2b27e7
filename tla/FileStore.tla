------------------------------ MODULE FileStore ------------------------------
(***************************************************************************)
(* The way of a data file to the USB flash drive: the SaveFileThread of    *)
(* the instrument's manager, the request handlers of usb_mgr, which copy   *)
(* the file to a temporary one and queue a job, and usb_mgr's Dispatcher,  *)
(* which runs the jobs one by one, each in a StoreFileJob thread.  usb_mgr *)
(* may be stopped at any time, its handlers go on until they are done.     *)
(* What a job could not do is written to the log and to nothing else.      *)
(***************************************************************************)
EXTENDS HfMgr

VARIABLES serving,   \* usb_mgr's XML-RPC server accepts requests
          tmp,       \* the whole copies in usb_mgr's temp_dir
          queue,     \* Dispatcher._job_queue
          disp,      \* where the Dispatcher is
          job,       \* the job it runs
          flash,     \* what the drive has under the name of each file
          logged,    \* the jobs of which the log says that they failed
          late,      \* the jobs queued when the Dispatcher looks no more (history)
          main       \* usb_mgr's main thread, "ended" with its process

storeVars == <<serving, tmp, queue, disp, job, flash, logged, late, main>>
vars == <<fileVars, hfVars, storeVars>>

NoJob == [pc |-> "none"]

StoreInit ==
    /\ Init /\ HfInit
    /\ serving = TRUE
    /\ tmp = {}
    /\ queue = <<>>
    /\ disp = "loop"
    /\ job = NoJob
    /\ flash = [f \in Stamps |-> "none"]
    /\ logged = {} /\ late = {}
    /\ main = "run"

-----------------------------------------------------------------------------
(* SaveFileThread and the handler of its request *)

GoTo(id, pc) == saver' = [saver EXCEPT ![id] = pc]

SaverUnchanged == UNCHANGED <<kind, now, dt, ready, content, compress, hfVars>>

\* The request is accepted, or fails because usb_mgr has stopped its server.
CallStoreFile(id) ==
    /\ saver[id] = "call"
    /\ GoTo(id, IF serving THEN "copying" ELSE "left")
    /\ SaverUnchanged /\ UNCHANGED <<disk, storeVars>>

\* copy_file returns True or raises, of a file that is not there in any case.
CopyToTemp(id) ==
    /\ saver[id] = "copying"
    /\ \/ id[1] \in disk /\ GoTo(id, "copied") /\ tmp' = tmp \union {id}
       \/ GoTo(id, "left") /\ UNCHANGED tmp
    /\ SaverUnchanged /\ UNCHANGED <<disk, serving, queue, disp, job, flash, logged, late, main>>

\* The Dispatcher goes on taking jobs.
Taken == disp \in {"loop", "drain"}

CreateStoreFileJob(id) ==
    /\ saver[id] = "copied"
    /\ queue' = Append(queue, id)
    /\ late' = IF Taken THEN late ELSE late \union {id}
    /\ GoTo(id, "ok")
    /\ SaverUnchanged /\ UNCHANGED <<disk, serving, tmp, disp, job, flash, logged, main>>

DeleteDataFileAnyway(id) ==
    /\ saver[id] \in {"ok", "left"}
    /\ disk' = disk \ {id[1]}
    /\ GoTo(id, "done")
    /\ SaverUnchanged /\ UNCHANGED storeVars
\* After the answer, and after the answer only, the data file is deleted.
DeleteDataFile(id) ==
    /\ saver[id] = "ok"
    /\ disk' = disk \ {id[1]}
    /\ GoTo(id, "done")
    /\ SaverUnchanged /\ UNCHANGED storeVars

SaverStep(id) == CallStoreFile(id) \/ CopyToTemp(id) \/ CreateStoreFileJob(id) \/ DeleteDataFile(id)

-----------------------------------------------------------------------------
(* Dispatcher and StoreFileJob *)

JobUnchanged == UNCHANGED <<fileVars, hfVars, serving, late, main>>

TakeJobInLoopOnly ==
    /\ disp = "loop" /\ job = NoJob /\ queue # <<>>
    /\ job' = [pc |-> "mount", id |-> Head(queue)]
    /\ queue' = Tail(queue)
    /\ JobUnchanged /\ UNCHANGED <<tmp, disp, flash, logged>>
\* The loop takes jobs until it is told to stop, the second loop takes the rest.
TakeJob ==
    /\ disp \in {"loop", "drain"} /\ job = NoJob /\ queue # <<>>
    /\ job' = [pc |-> "mount", id |-> Head(queue)]
    /\ queue' = Tail(queue)
    /\ JobUnchanged /\ UNCHANGED <<tmp, disp, flash, logged>>

\* No drive: the temporary file is deleted, the job forgotten.
MountDrive ==
    /\ job.pc = "mount"
    /\ \/ /\ job' = [job EXCEPT !.pc = IF compress[job.id[1]] THEN "compress" ELSE "copy"]
          /\ UNCHANGED <<tmp, logged>>
       \/ /\ job' = NoJob
          /\ tmp' = tmp \ {job.id}
          /\ logged' = logged \union {job.id}
    /\ JobUnchanged /\ UNCHANGED <<queue, disp, flash>>

\* If it fails the thread returns with _running still set: is_running() says so for ever.
CompressFile ==
    /\ job.pc = "compress"
    /\ \/ job' = [job EXCEPT !.pc = "copy"] /\ UNCHANGED <<tmp, logged>>
       \/ /\ job' = [job EXCEPT !.pc = "hung"]
          /\ tmp' = tmp \ {job.id}
          /\ logged' = logged \union {job.id}
    /\ JobUnchanged /\ UNCHANGED <<queue, disp, flash>>

\* The destination is truncated first; a failure is logged, and the job goes on.
CopyToFlash ==
    /\ job.pc = "copy"
    /\ job' = [job EXCEPT !.pc = "delete"]
    /\ \/ flash' = [flash EXCEPT ![job.id[1]] = "whole"] /\ UNCHANGED logged
       \/ /\ flash' = [flash EXCEPT ![job.id[1]] = "partial"]
          /\ logged' = logged \union {job.id}
    /\ JobUnchanged /\ UNCHANGED <<tmp, queue, disp>>

DeleteTemp ==
    /\ job.pc = "delete"
    /\ job' = NoJob
    /\ tmp' = tmp \ {job.id}
    /\ JobUnchanged /\ UNCHANGED <<queue, disp, flash, logged>>

\* dispatcher.stop(): what is queued is still executed.
LeaveLoop ==
    /\ disp = "loop" /\ main = "dispatcher" /\ job = NoJob
    /\ disp' = "drain"
    /\ JobUnchanged /\ UNCHANGED <<tmp, queue, job, flash, logged>>

\* The queue was empty for half a second; five seconds later the thread ends,
\* whatever came in between.
Drained ==
    /\ disp = "drain" /\ job = NoJob /\ queue = <<>>
    /\ disp' = "wait"
    /\ JobUnchanged /\ UNCHANGED <<tmp, queue, job, flash, logged>>

DispatcherEnds ==
    /\ disp = "wait"
    /\ disp' = "ended"
    /\ JobUnchanged /\ UNCHANGED <<tmp, queue, job, flash, logged>>

DispatcherStep ==
    \/ TakeJob \/ MountDrive \/ CompressFile \/ CopyToFlash \/ DeleteTemp
    \/ LeaveLoop \/ Drained \/ DispatcherEnds

\* _run_mgr: SIGINT stops the server, then the dispatcher, which is waited for.
StopServer ==
    /\ main = "run"
    /\ serving' = FALSE
    /\ main' = "dispatcher"
    /\ UNCHANGED <<fileVars, hfVars, tmp, queue, disp, job, flash, logged, late>>

\* The process ends with the last of its threads, the handlers among them, and the
\* queue with the process.
MainEnds ==
    /\ main = "dispatcher" /\ disp = "ended"
    /\ \A id \in Ids : saver[id] \notin {"copying", "copied"}
    /\ main' = "ended"
    /\ queue' = <<>>
    /\ UNCHANGED <<fileVars, hfVars, serving, tmp, disp, job, flash, logged, late>>

Next ==
    \/ DataStep /\ UNCHANGED <<hfVars, storeVars>>
    \/ HfStep /\ UNCHANGED storeVars
    \/ \E id \in Ids : SaverStep(id)
    \/ DispatcherStep
    \/ StopServer \/ MainEnds

\* Threads that can go on do; nothing makes packet times pass, instruments send, the
\* power of the HF modem change or usb_mgr stop. The seconds that the HF manager waits pass.
\* One condition stands for all SaveFileThreads, each of which has four steps.
Fairness == /\ WF_vars(\E id \in Ids : SaverStep(id))
            /\ WF_vars(DispatcherStep) /\ WF_vars(MainEnds)
            /\ WF_vars(((DataThreadEnds /\ UNCHANGED hfVars) \/ HfEnds) /\ UNCHANGED storeVars)
            /\ WF_vars(kind = "hf" /\ HfThread /\ UNCHANGED storeVars)
            /\ WF_vars(Second /\ UNCHANGED storeVars)

Spec == StoreInit /\ [][Next]_vars /\ Fairness

-----------------------------------------------------------------------------
(* Properties *)

\* One type invariant.
TypeOK ==
    /\ kind \in Kinds /\ now \in 0..MaxTime /\ ready \in BOOLEAN
    /\ dt \in [pc : {"sync", "run", "saving", "ended"}, state : {1, 2}, path : Stamps \union {None},
               prev : Stamps, size : 0..(MaxSize - 1)]
    /\ dt.state = 2 /\ dt.pc = "run" => dt.path \in disk
    /\ sysIndex \in 0..NumSystems /\ testTime \in 0..(TestPeriod - 1) /\ mode \in {"receive", "transmit"}
    /\ hf \in [pc : {"sync", "baud", "init", "receive", "dead", "transmit", "sending", "ended", "crashed"},
               timer : Nat]
    /\ content \in [Stamps -> Seq(Stamps)] /\ disk \subseteq Stamps
    /\ compress \in [Stamps -> BOOLEAN]
    /\ saver \in [Ids -> {"none", "call", "copying", "copied", "ok", "left", "done"}]
    /\ serving \in BOOLEAN /\ tmp \subseteq Ids /\ queue \in Seq(Ids) /\ {logged, late} \subseteq SUBSET Ids
    /\ disp \in {"loop", "drain", "wait", "ended"} /\ main \in {"run", "dispatcher", "ended"}
    /\ flash \in [Stamps -> {"none", "partial", "whole"}]
    /\ job = NoJob \/ (job.pc \in {"mount", "compress", "copy", "delete", "hung"} /\ job.id \in Ids)

Hung == job.pc = "hung"

InQueue(id) == \E i \in 1..Len(queue) : queue[i] = id

\* The job is run, or is going to be.
Pending(id) == id \in tmp /\ ~Hung /\ ((Taken /\ InQueue(id)) \/ (job # NoJob /\ job.id = id))

\* A data file whose original has been deleted is whole on the drive, or waits in
\* a temporary copy for a job that is going to be run, or the log has an error about
\* it, with two exceptions: the job waits behind one that hung the dispatcher, or was
\* queued after the last look that a stopping dispatcher takes at its queue, and ends
\* with the process. The file passes through four threads of two processes, each of
\* which deletes something (SaveFileThread in fg_mgr.py:52-60, usb_mgr.py:58-90,
\* 168-217, 315-332).
NothingLostSilently ==
    \A f \in Stamps : content[f] # <<>> /\ f \notin disk =>
        \/ flash[f] = "whole"
        \/ \E k \in {1, 2} : \/ Pending(<<f, k>>)
                             \/ <<f, k>> \in logged
                             \/ Hung /\ InQueue(<<f, k>>)
                             \/ <<f, k>> \in late

\* The dispatcher gets through its queue, so that by NothingLostSilently every job
\* ends with its file whole on the drive or an error in the log, unless a job has
\* hung it, or comes after the last look that a stopping dispatcher takes at its
\* queue (usb_mgr.py:58-69).
QueueIsHandled ==
    (queue # <<>>) ~> (queue = <<>> \/ Hung \/ disp \in {"wait", "ended"})

\* Every process that is told to stop does: the instrument's manager because its
\* last SaveFileThread ends in any case, usb_mgr unless a job hangs
\* (fg_mgr.py:123-130, usb_mgr.py:135-139).
BothStop ==
    /\ (dt.pc = "saving") ~> (dt.pc = "ended")
    /\ (main = "dispatcher") ~> (main = "ended" \/ Hung)
=============================================================================
