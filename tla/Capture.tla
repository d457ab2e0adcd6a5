------------------------------- MODULE Capture -------------------------------
(***************************************************************************)
(* A capture session of class CDV (DShow.cpp): three threads around one    *)
(* frame queue.                                                            *)
(*                                                                         *)
(*   streaming thread  CInputPin::Receive -> CDV::HandleFrame -> Put       *)
(*   worker            CDV::CapturingThread                                *)
(*   UI thread         BuildCapturing, StartCapturing, StopCapturing,      *)
(*                     FinalizeCapturing and Destroy, called by the        *)
(*                     handlers OnCapture, OnEndCapture, OnClose and by    *)
(*                     InitVideo (DVToolsDlg.cpp)                          *)
(*                                                                         *)
(* m_state is a plain enum that the UI thread and the worker both test and *)
(* write without a lock, so every test and every write of it is a step of  *)
(* its own.  The queue is the bounded FIFO that DVQueue is proved to       *)
(* implement, at the grain its users can see: the worker's test for empty  *)
(* and its test of m_end are two steps, so are the producer's test of      *)
(* m_end and its store; a waiting thread wakes when there is something to  *)
(* do (lost wake-ups are DVQueue's business).                              *)
(*                                                                         *)
(* A definition marked "Fault:" is a faulty variant of the one after it,   *)
(* used to show that the properties tell the two apart.                    *)
(***************************************************************************)
EXTENDS Integers, Sequences, SequencesExt

CONSTANTS
  Capacity,       \* the queue's size: 100 in BuildCapturing
  Times,          \* what GetDVRecordingTime may return: NoTime and positive times
  MaxAVIFrames,   \* m_maxAVIFrames
  Threshold,      \* m_discontinuityTreshold, 0 = never split on the time
  EveryNth,       \* m_everyNth (1 in this build)
  Limits,         \* captureTime arguments of the first StartCapturing, 0 = none
  AutoStop,       \* m_autoStopTimeout > 0
  SHA256,         \* m_enableSHA256
  SourceEnds,     \* the source may deliver end of stream by itself
  BuildFails,     \* building the DirectShow graphs may throw
  MaxFrames,      \* bound: frames the device delivers
  MaxOps          \* bound: commands the user gives

ASSUME CaptureAssumption ==
  /\ Capacity \in Nat \ {0} /\ EveryNth \in Nat \ {0}
  /\ MaxAVIFrames \in Nat /\ Threshold \in Nat
  /\ Limits \subseteq Nat /\ 0 \in Limits
  /\ {AutoStop, SHA256, SourceEnds, BuildFails} \subseteq BOOLEAN
  /\ MaxFrames \in Nat /\ MaxOps \in Nat

NoTime == -1                    \* GetDVRecordingTime: no recording date in the frame
ASSUME TimesAssumption == Times \subseteq (Nat \ {0}) \cup {NoTime}

None == [none |-> TRUE]         \* no frame, no writer

States == {"Idle", "CapturePaused", "Capturing", "CaptureFinalizing", "Finished"}

(* What CheckAVIIntegrity may find in a closed file: all well, defective
   frames but an index, no usable index. *)
Verdicts == {"good", "defects", "noindex"}

VARIABLES
  state, captureTime, phase,      \* m_state, m_captureTime, m_finalizePhase
  qUp, buf, end,                  \* m_queue # NULL, its frames, its m_end
  src, sPc, sFrame, nFrames,      \* m_dvInput's graph; the streaming thread
  wPc, wFrame, wFile,             \* the worker
  dvTime, oldTime, time,          \* dvTime, oldDVTime, m_time (= m_counter frames)
  writer, finalized,              \* m_aviWriter, m_finalizedFiles
  lastCheck, session,             \* m_lastCheckResult; sessions built so far
  uPc, uNext, nOps,               \* the UI thread
  owed                            \* history: frames queued when End Capture began

ctl  == <<state, captureTime, phase>>
que  == <<qUp, buf, end>>
srcv == <<src, sPc, sFrame, nFrames>>
wrk  == <<wPc, wFrame, wFile>>
out  == <<dvTime, oldTime, time, writer, finalized>>
chk  == <<lastCheck, session>>
ui   == <<uPc, uNext, nOps>>
vars == <<ctl, que, srcv, wrk, out, chk, ui, owed>>

(* The dialog opens with InitVideo.  m_state has no initial value in CDV::CDV. *)
Init ==
  /\ state \in States /\ captureTime = 0 /\ phase = "None"
  /\ qUp = FALSE /\ buf = <<>> /\ end = FALSE
  /\ src = "none" /\ sPc = "idle" /\ sFrame = None /\ nFrames = 0
  /\ wPc = "none" /\ wFrame = None /\ wFile = 0
  /\ dvTime = 0 /\ oldTime = 0 /\ time = -1
  /\ writer = None /\ finalized = <<>>
  /\ lastCheck = [session |-> 0, result |-> "noindex"] /\ session = 0
  /\ uPc = "setIdle" /\ uNext = "build" /\ nOps = 0
  /\ owed = {}

-----------------------------------------------------------------------------
(* The streaming thread. *)

SStep(from, to) == sPc = from /\ sPc' = to

Room == Len(buf) < Capacity

(* Fault: end of stream does not wake a blocked Put. *)
PutWakesOnRoom == Room

PutWakes == Room \/ end

(* Receive: a frame arrives and Put is called with it. *)
SFrame ==
  /\ src = "running"
  /\ nFrames < MaxFrames
  /\ SStep("idle", "test")
  /\ nFrames' = nFrames + 1
  /\ \E t \in Times : sFrame' = [id |-> nFrames', time |-> t]
  /\ UNCHANGED <<ctl, que, src, wrk, out, chk, ui, owed>>

STestEnd ==
  /\ \/ end /\ SStep("test", "idle") /\ sFrame' = None
     \/ ~end /\ SStep("test", "lock") /\ UNCHANGED sFrame
  /\ UNCHANGED <<ctl, que, src, nFrames, wrk, out, chk, ui, owed>>

SStore ==
  /\ Room
  /\ SStep("lock", "idle")
  /\ buf' = Append(buf, sFrame)
  /\ sFrame' = None
  /\ UNCHANGED <<ctl, qUp, end, src, nFrames, wrk, out, chk, ui, owed>>

SFull ==
  /\ ~Room
  /\ SStep("lock", "wait")
  /\ UNCHANGED <<ctl, que, src, sFrame, nFrames, wrk, out, chk, ui, owed>>

SWake ==
  /\ PutWakes
  /\ SStep("wait", "test")
  /\ UNCHANGED <<ctl, que, src, sFrame, nFrames, wrk, out, chk, ui, owed>>

(* CInputPin::EndOfStream. *)
SEnd ==
  /\ SourceEnds
  /\ src = "running"
  /\ sPc = "idle"
  /\ ~end
  /\ end' = TRUE
  /\ UNCHANGED <<ctl, qUp, buf, srcv, wrk, out, chk, ui, owed>>

InPut == STestEnd \/ SStore \/ SFull \/ SWake

-----------------------------------------------------------------------------
(* The worker: CapturingThread. *)

WStep(from, to) == wPc = from /\ wPc' = to

Stays == UNCHANGED <<qUp, end, srcv, chk, ui, owed>>

WStart ==
  /\ WStep("start", "top")
  /\ time' = 0 /\ dvTime' = 0 /\ oldTime' = 0
  /\ UNCHANGED <<ctl, buf, wFrame, wFile, writer, finalized>> /\ Stays

(* while (m_state) *)
WTop ==
  /\ \/ state = "Idle" /\ WStep("top", "tail")
     \/ state # "Idle" /\ WStep("top", "get")
  /\ UNCHANGED <<ctl, buf, wFrame, wFile, out>> /\ Stays

LaterFrames == Tail(buf)

(* Get / GetWithTimeout: the locked block, the unlocked test of m_end, the wait. *)
WTake ==
  /\ buf # <<>>
  /\ WStep("get", "frame")
  /\ wFrame' = Head(buf)
  /\ buf' = LaterFrames
  /\ UNCHANGED <<ctl, wFile, out>> /\ Stays

WEmpty ==
  /\ buf = <<>>
  /\ WStep("get", "empty")
  /\ UNCHANGED <<ctl, buf, wFrame, wFile, out>> /\ Stays

WTestEnd ==
  /\ \/ end /\ WStep("empty", "false")
     \/ ~end /\ WStep("empty", "wait")
  /\ UNCHANGED <<ctl, buf, wFrame, wFile, out>> /\ Stays

WWake ==
  /\ buf # <<>> \/ end
  /\ WStep("wait", "get")
  /\ UNCHANGED <<ctl, buf, wFrame, wFile, out>> /\ Stays

WTimeout ==
  /\ AutoStop
  /\ buf = <<>> /\ ~end
  /\ WStep("wait", "false")
  /\ UNCHANGED <<ctl, buf, wFrame, wFile, out>> /\ Stays

(* Get returned false: the first if tests m_end and then m_state, the second
   tests m_end again and then m_state. *)
WAfterFalse ==
  /\ \/ end /\ WStep("false", "eos")
     \/ ~end /\ WStep("false", "late")
  /\ UNCHANGED <<ctl, buf, wFrame, wFile, out>> /\ Stays

WEos ==
  /\ \/ state # "Idle" /\ WStep("eos", "setFinished")
     \/ state = "Idle" /\ WStep("eos", "tail")
  /\ UNCHANGED <<ctl, buf, wFrame, wFile, out>> /\ Stays

WSignalLost ==
  /\ \/ ~end /\ state = "Capturing" /\ WStep("late", "setFinished")
     \/ (end \/ state # "Capturing") /\ WStep("late", "top")
  /\ UNCHANGED <<ctl, buf, wFrame, wFile, out>> /\ Stays

WSetFinished ==
  /\ WStep("setFinished", "tail")
  /\ state' = "Finished"
  /\ UNCHANGED <<captureTime, phase, buf, wFrame, wFile, out>> /\ Stays

(* The recording time of the frame in hand against the last known one. *)
Delta ==
  LET t == wFrame.time
  IN  IF t = dvTime \/ t <= 0 \/ oldTime <= 0 THEN 0
      ELSE IF t > oldTime THEN t - oldTime ELSE oldTime - t

(* Fault: a frame without a recording time erases the last known one. *)
NoteAnyTime == dvTime' = wFrame.time /\ oldTime' = wFrame.time

NoteTime ==
  /\ dvTime' = wFrame.time
  /\ oldTime' = IF wFrame.time > 0 THEN wFrame.time ELSE oldTime

(* CloseAVIWriter: the finished file joins the list, and a progress display
   that is on shows the mux. *)
CloseAVIWriter ==
  /\ finalized' = Append(finalized,
        [frames |-> writer.frames, dvtime |-> writer.dvtime, verdict |-> "unchecked"])
  /\ phase' = IF phase = "None" THEN "None" ELSE "Mux"

KeepFiles == UNCHANGED <<finalized, phase>>

(* Fault: an open file is left open. *)
LeaveOpenWriter == KeepFiles /\ UNCHANGED writer

CloseOpenWriter ==
  /\ IF writer # None THEN CloseAVIWriter ELSE KeepFiles
  /\ writer' = None

(* Fault: one frame too many in a file. *)
MustSplitLate ==
  \/ Len(writer.frames) > MaxAVIFrames
  \/ Threshold > 0 /\ Delta > Threshold

MustSplit ==
  \/ Len(writer.frames) >= MaxAVIFrames
  \/ Threshold > 0 /\ Delta > Threshold

(* The writer w after the frame in hand: decimation, then the backfill of a
   recording time that was 0 when the file was opened. *)
Written(w) ==
  [w EXCEPT !.frames = IF w.count % EveryNth = 0 THEN Append(@, wFrame) ELSE @,
            !.count  = @ + 1,
            !.dvtime = IF @ = 0 THEN wFrame.time ELSE @]

NewWriter == [frames |-> <<>>, count |-> 0, dvtime |-> wFrame.time]

(* if (m_state == Capturing || m_state == CaptureFinalizing) *)
WTest ==
  /\ WStep("frame", IF state \in {"Capturing", "CaptureFinalizing"} THEN "write" ELSE "close")
  /\ UNCHANGED <<ctl, buf, wFrame, wFile, out>> /\ Stays

(* Split, open, write, count. *)
WWrite ==
  /\ WStep("write", "limit")
  /\ NoteTime
  /\ \/ writer # None /\ MustSplit /\ CloseAVIWriter /\ writer' = Written(NewWriter)
     \/ writer # None /\ ~MustSplit /\ KeepFiles /\ writer' = Written(writer)
     \/ writer = None /\ KeepFiles /\ writer' = Written(NewWriter)
  /\ time' = time + 1
  /\ wFrame' = None
  /\ UNCHANGED <<state, captureTime, buf, wFile>> /\ Stays

(* The optional time limit: m_captureTime is read twice, unlocked, and End
   Capture may clear it in between; then m_state is written. *)
WLimit ==
  /\ WStep("limit", IF captureTime # 0 THEN "reached" ELSE "top")
  /\ UNCHANGED <<ctl, buf, wFrame, wFile, out>> /\ Stays

WReached ==
  /\ \/ time >= captureTime /\ captureTime' = 0 /\ WStep("reached", "timed")
     \/ time < captureTime /\ UNCHANGED captureTime /\ WStep("reached", "top")
  /\ UNCHANGED <<state, phase, buf, wFrame, wFile, out>> /\ Stays

WTimed ==
  /\ WStep("timed", "top")
  /\ state' = "Finished"
  /\ UNCHANGED <<captureTime, phase, buf, wFrame, wFile, out>> /\ Stays

(* A frame in any other state: an open writer is closed ... *)
WPaused ==
  /\ WStep("close", "paused")
  /\ NoteTime
  /\ CloseOpenWriter
  /\ wFrame' = None
  /\ UNCHANGED <<state, captureTime, buf, wFile, time>> /\ Stays

(* ... and the counters restart, except after the end. *)
WResetCounters ==
  /\ WStep("paused", "top")
  /\ time' = IF state = "Finished" THEN time ELSE 0
  /\ UNCHANGED <<ctl, buf, wFrame, wFile, dvTime, oldTime, writer, finalized>> /\ Stays

(* After the loop: close the writer; verify, hash and log what was finalized. *)
WTailClose ==
  /\ WStep("tail", "check")
  /\ CloseOpenWriter
  /\ UNCHANGED <<state, captureTime, buf, wFrame, wFile, dvTime, oldTime, time>>
  /\ Stays

WTailCheck ==
  /\ \/ finalized = <<>> /\ WStep("check", "exit") /\ UNCHANGED <<phase, wFile>>
     \/ /\ finalized # <<>> /\ WStep("check", "verify")
        /\ phase' = IF phase = "None" THEN "None" ELSE "Verify"
        /\ wFile' = 1
  /\ UNCHANGED <<state, captureTime, buf, wFrame, out>> /\ Stays

(* Fault: the verification is announced again for every file. *)
AnnounceEachFile == "Verify"

PhaseWhileVerifying == phase

(* CheckAVIIntegrity of the next file.  m_lastCheckResult keeps the first
   result that is not good, else the last one. *)
WVerify ==
  /\ wFile <= Len(finalized)
  /\ WStep("verify", IF SHA256 THEN "hash" ELSE "verify")
  /\ wFile' = IF SHA256 THEN wFile ELSE wFile + 1
  /\ \E v \in Verdicts :
       /\ finalized' = [finalized EXCEPT ![wFile].verdict = v]
       /\ lastCheck' = IF \E i \in 1 .. wFile - 1 : finalized[i].verdict # "good"
                       THEN lastCheck ELSE [session |-> session, result |-> v]
  /\ phase' = PhaseWhileVerifying
  /\ UNCHANGED <<state, captureTime, que, srcv, wFrame, dvTime, oldTime, time, writer,
                 session, ui, owed>>

WHash ==
  /\ WStep("hash", "verify")
  /\ phase' = "Hash"
  /\ wFile' = wFile + 1
  /\ UNCHANGED <<state, captureTime, buf, wFrame, out>> /\ Stays

WTailDone ==
  /\ wFile > Len(finalized)
  /\ WStep("verify", "exit")
  /\ phase' = "Done"
  /\ UNCHANGED <<state, captureTime, buf, wFrame, wFile, out>> /\ Stays

Worker ==
  \/ WStart \/ WTop \/ WTake \/ WEmpty \/ WTestEnd \/ WWake
  \/ WAfterFalse \/ WEos \/ WSignalLost \/ WSetFinished
  \/ WTest \/ WWrite \/ WLimit \/ WReached \/ WTimed \/ WPaused \/ WResetCounters
  \/ WTailClose \/ WTailCheck \/ WVerify \/ WHash \/ WTailDone

-----------------------------------------------------------------------------
(* The UI thread.  It is in its event loop ("ready") or inside one of the
   operations of CDV, which runs to its end before the next message. *)

UStep(from, to) == uPc = from /\ uPc' = to

Command(to) == nOps < MaxOps /\ nOps' = nOps + 1 /\ UStep("ready", to)

(* OnCapture: start, pause, or start over, by the state it reads. *)
OnCapture ==
  /\ \/ state = "CapturePaused" /\ Command("startTest") /\ UNCHANGED uNext
     \/ state = "Capturing" /\ Command("stopTest") /\ UNCHANGED uNext
     \/ /\ state \notin {"CapturePaused", "Capturing"}
        /\ Command("setIdle") /\ uNext' = "build"
  /\ UNCHANGED <<ctl, que, srcv, wrk, out, chk, owed>>

(* OnEndCapture (and OnCancel): finalize a capture, else start over. *)
OnEndCapture ==
  /\ \/ state \in {"Capturing", "CapturePaused"} /\ Command("finalizeTest") /\ UNCHANGED uNext
     \/ /\ state \notin {"Capturing", "CapturePaused"}
        /\ Command("setIdle") /\ uNext' = "build"
  /\ UNCHANGED <<ctl, que, srcv, wrk, out, chk, owed>>

(* InitVideo from another device or tab; OnClose, also by OnTimer's auto-exit. *)
OnReinitOrClose ==
  /\ Command("setIdle")
  /\ uNext' \in {"build", "ready", "closed"}
  /\ UNCHANGED <<ctl, que, srcv, wrk, out, chk, owed>>

(* StartCapturing: the test, then the assignments.  A time limit is given on
   the command line only, that is with the first command. *)
UStartTest ==
  /\ UStep("startTest", IF state = "CapturePaused" THEN "start" ELSE "ready")
  /\ UNCHANGED <<ctl, que, srcv, wrk, out, chk, uNext, nOps, owed>>

UStart ==
  /\ UStep("start", "ready")
  /\ captureTime' \in IF nOps = 1 THEN Limits ELSE {0}
  /\ state' = "Capturing"
  /\ UNCHANGED <<phase, que, srcv, wrk, out, chk, uNext, nOps, owed>>

(* StopCapturing: the test, then the assignment. *)
UStopTest ==
  /\ UStep("stopTest", IF state = "Capturing" THEN "stop" ELSE "ready")
  /\ UNCHANGED <<ctl, que, srcv, wrk, out, chk, uNext, nOps, owed>>

UStop ==
  /\ UStep("stop", "ready")
  /\ state' = "CapturePaused"
  /\ UNCHANGED <<captureTime, phase, que, srcv, wrk, out, chk, uNext, nOps, owed>>

(* FinalizeCapturing: early return; then writeQueuedFrames is read and the
   time limit and the progress are reset; then m_state is written. *)
UFinalizeTest ==
  /\ UStep("finalizeTest",
           IF state \in {"Capturing", "CapturePaused"} THEN "finalize" ELSE "report")
  /\ UNCHANGED <<ctl, que, srcv, wrk, out, chk, uNext, nOps, owed>>

UFinalize ==
  /\ UStep("finalize", IF state = "Capturing" THEN "setFinalizing" ELSE "setDiscarding")
  /\ captureTime' = 0
  /\ phase' = "Draining"
  /\ UNCHANGED <<state, que, srcv, wrk, out, chk, uNext, nOps, owed>>

UFinalizeState ==
  /\ \/ /\ UStep("setFinalizing", "finalizeStop")
        /\ state' = "CaptureFinalizing"
        /\ owed' = {buf[i].id : i \in DOMAIN buf}
     \/ /\ UStep("setDiscarding", "finalizeStop")
        /\ state' = "Finished"
        /\ owed' = {}
  /\ UNCHANGED <<captureTime, phase, que, srcv, wrk, out, chk, uNext, nOps>>

(* m_dvInput->Stop(): no new frame is delivered, and Stop returns when the
   streaming thread is out of Receive.  FinalizeCapturing stops the source and
   then signals end of stream, Destroy the other way round. *)
UStopSource ==
  /\ uPc \in {"finalizeStop", "destroyStop"}
  /\ src = "running"
  /\ src' = "stopping"
  /\ UNCHANGED <<ctl, que, sPc, sFrame, nFrames, wrk, out, chk, ui, owed>>


(* Fault: Stop does not wait for Receive. *)
DoNotWait == TRUE

StreamingThreadIsOut == sPc = "idle"

USourceStopped ==
  /\ \/ UStep("finalizeStop", "finalizeEos")
     \/ UStep("destroyStop", "destroyJoin")
  /\ src \in {"none", "stopped", "stopping"}
  /\ StreamingThreadIsOut
  /\ src' = IF src = "none" THEN "none" ELSE "stopped"
  /\ UNCHANGED <<ctl, que, sPc, sFrame, nFrames, wrk, out, chk, uNext, nOps, owed>>

(* m_queue->Put(-1, NULL, 0) *)
UEos ==
  /\ \/ UStep("finalizeEos", "finalizeJoin")
     \/ UStep("destroyEos", "destroyStop")
  /\ end' = (end \/ qUp)
  /\ UNCHANGED <<ctl, qUp, buf, srcv, wrk, out, chk, uNext, nOps, owed>>

(* Fault: the wait for the worker is missing. *)
WorkerNotAwaited == TRUE

WorkerIsOut == wPc \in {"none", "exit"}

(* Wait for the worker to exit and delete m_thread. *)
UJoin ==
  /\ \/ UStep("finalizeJoin", "finalizeDone")
     \/ UStep("destroyJoin", "destroy")
  /\ WorkerIsOut
  /\ wPc' = "none"
  /\ UNCHANGED <<ctl, que, srcv, wFrame, wFile, out, chk, uNext, nOps, owed>>

UFinalizeDone ==
  /\ UStep("finalizeDone", "report")
  /\ phase' = "Done"
  /\ state' = "Finished"
  /\ UNCHANGED <<captureTime, que, srcv, wrk, out, chk, uNext, nOps, owed>>

(* OnEndCapture reads GetLastCheckResult for its message and calls InitVideo. *)
UReport ==
  /\ UStep("report", "setIdle")
  /\ uNext' = "build"
  /\ UNCHANGED <<ctl, que, srcv, wrk, out, chk, nOps, owed>>

-----------------------------------------------------------------------------
(* Destroy, and BuildCapturing, which begins with it. *)

USetIdle ==
  /\ UStep("setIdle", "destroyEos")
  /\ state' = "Idle"
  /\ UNCHANGED <<captureTime, phase, que, srcv, wrk, out, chk, uNext, nOps, owed>>

(* Delete what is left and reset the counters. *)
UDestroy ==
  /\ UStep("destroy", uNext)
  /\ src' = "none" /\ qUp' = FALSE /\ buf' = <<>>
  /\ CloseOpenWriter
  /\ captureTime' = 0 /\ time' = -1
  /\ UNCHANGED <<state, end, sPc, sFrame, nFrames, wrk, dvTime, oldTime, chk,
                 uNext, nOps, owed>>

(* BuildCapturing after Destroy: new CDVInput (may throw) ... *)
UBuildInput ==
  /\ finalized' = <<>> /\ phase' = "None" /\ session' = session + 1 /\ owed' = {}
  /\ \/ UStep("build", "buildQueue") /\ src' = "stopped"
     \/ BuildFails /\ UStep("build", "ready") /\ UNCHANGED src
  /\ UNCHANGED <<state, captureTime, que, sPc, sFrame, nFrames, wrk, dvTime, oldTime,
                 time, writer, lastCheck, uNext, nOps>>

(* ... the monitor (may throw), then the queue ... *)
UBuildQueue ==
  /\ \/ UStep("buildQueue", "buildRun") /\ qUp' = TRUE /\ end' = FALSE
     \/ BuildFails /\ UStep("buildQueue", "ready") /\ UNCHANGED <<qUp, end>>
  /\ UNCHANGED <<ctl, buf, srcv, wrk, out, chk, uNext, nOps, owed>>

(* ... Run (may throw): from here on frames arrive ... *)
UBuildRun ==
  /\ \/ UStep("buildRun", "setPaused") /\ src' = "running"
     \/ BuildFails /\ UStep("buildRun", "ready") /\ UNCHANGED src
  /\ UNCHANGED <<ctl, que, sPc, sFrame, nFrames, wrk, out, chk, uNext, nOps, owed>>

(* ... m_state, and last the worker. *)
USetPaused ==
  /\ UStep("setPaused", "startThread")
  /\ state' = "CapturePaused"
  /\ UNCHANGED <<captureTime, phase, que, srcv, wrk, out, chk, uNext, nOps, owed>>

UStartThread ==
  /\ UStep("startThread", "ready")
  /\ wPc' = "start"
  /\ UNCHANGED <<ctl, que, srcv, wFrame, wFile, out, chk, uNext, nOps, owed>>

Commands == OnCapture \/ OnEndCapture \/ OnReinitOrClose

InCommand ==
  \/ UStartTest \/ UStart \/ UStopTest \/ UStop
  \/ UFinalizeTest \/ UFinalize \/ UFinalizeState \/ UFinalizeDone \/ UReport
  \/ UStopSource \/ USourceStopped \/ UEos \/ UJoin
  \/ USetIdle \/ UDestroy
  \/ UBuildInput \/ UBuildQueue \/ UBuildRun \/ USetPaused \/ UStartThread

Next == SFrame \/ SEnd \/ InPut \/ Worker \/ WTimeout \/ Commands \/ InCommand

Spec == Init /\ [][Next]_vars

(* Every thread that is inside a call is scheduled.  The device need not
   deliver, nor the user command, anything; the timeout need not expire. *)
FairSpec == Spec /\ WF_vars(InPut) /\ WF_vars(Worker) /\ WF_vars(InCommand)

-----------------------------------------------------------------------------
(* Correctness. *)

WorkerRuns == wPc \notin {"none", "exit"}

(* Destroy deletes the queue and the source only when no thread can touch them
   any more: not the streaming thread inside Put, not the worker. *)
NoUseAfterFree ==
  /\ sPc # "idle" => qUp
  /\ WorkerRuns => qUp /\ src # "none"

(* m_aviWriter and the list of finished files belong to the worker until it is
   joined: while its tail checks the list no writer is open, and Destroy never
   finds a writer left to close. *)
WriterBelongsToWorker ==
  writer # None => WorkerRuns /\ wPc \notin {"check", "verify", "hash"}

(* Why: what exists at each point of a command, and which threads may run
   there.  Inductive, see CaptureProofs. *)
TeardownInv ==
  /\ uNext \in {"ready", "closed", "build"}
  /\ uPc = "buildQueue" => src # "none"
  /\ uPc \in {"buildRun", "setPaused", "startThread"} => qUp /\ src # "none"
  /\ sPc # "idle" \/ src \in {"running", "stopping"} =>
       qUp /\ uPc \notin {"destroyJoin", "destroy", "build", "buildQueue"}
  /\ WorkerRuns =>
       /\ qUp /\ src # "none"
       /\ uPc \notin {"destroy", "build", "buildQueue", "buildRun", "setPaused", "startThread"}
  /\ WriterBelongsToWorker

(* All the files of the session, finished or open, in the order of writing. *)
Files == [i \in DOMAIN finalized |-> finalized[i].frames]
           \o (IF writer = None THEN <<>> ELSE <<writer.frames>>)

(* A file holds every EveryNth-th frame (here: every one) from its first to its
   last: pausing, resuming, stopping or ending at any moment may end a file but
   never cuts a piece out of it. *)
FilesHaveNoHoles ==
  \A n \in DOMAIN Files : \A i \in 1 .. Len(Files[n]) - 1 :
    Files[n][i + 1].id = Files[n][i].id + EveryNth

(* Splitting: a file holds at least one frame and at most the configured number. *)
FileLengthBounded ==
  \A n \in DOMAIN Files :
    /\ Files[n] # <<>>
    /\ Len(Files[n]) <= MaxAVIFrames \/ Len(Files[n]) = 1

(* Frame j of a file is the next one with a recording time after frame i. *)
NextKnown(f, i, j) ==
  /\ i < j /\ f[i].time > 0 /\ f[j].time > 0
  /\ \A k \in i + 1 .. j - 1 : f[k].time <= 0

(* Splitting: a recording time and the next known one in the same file, with
   any number of frames without a time between them, differ by no more than the
   threshold. *)
DiscontinuityStartsNewFile ==
  Threshold > 0 /\ EveryNth = 1 =>
    \A n \in DOMAIN Files : \A i, j \in DOMAIN Files[n] :
      NextKnown(Files[n], i, j) =>
        /\ Files[n][j].time <= Files[n][i].time + Threshold
        /\ Files[n][i].time <= Files[n][j].time + Threshold

(* When OnEndCapture reads the verification result every file of the session
   has been closed and checked, and the worker is gone. *)
ReportAfterVerification ==
  uPc = "report" =>
    /\ ~WorkerRuns /\ writer = None
    /\ \A i \in DOMAIN finalized : finalized[i].verdict # "unchecked"

(* The progress of End Capture runs forward through draining, mux, verify,
   hash and done; only a new End Capture or a new session starts it again. *)
PhaseRank == [None |-> 0, Draining |-> 1, Mux |-> 2, Verify |-> 3, Hash |-> 4, Done |-> 5]
ProgressRunsForward ==
  [][phase' \in {"None", "Draining"} \/ PhaseRank[phase'] >= PhaseRank[phase]]_vars

(* From the moment End Capture decided to keep the queued frames, no frame the
   device still delivers is dropped by Put: the source is stopped before end of
   stream is signalled. *)
NoFrameDroppedWhileFinalizing ==
  [][state = "CaptureFinalizing" => ~(sFrame # None /\ sFrame' = None /\ buf' = buf)]_vars

(* Every command of the user comes to an end: Destroy, whatever the worker was
   doing, and End Capture get the streaming thread out of a full queue and the
   worker out of its wait.  The one exception is End Capture waiting for the
   source to stop after the worker stopped by itself. *)
CommandsReturn ==
  uPc # "ready" ~> uPc \in {"ready", "closed"} \/ (uPc = "finalizeStop" /\ ~WorkerRuns)

-----------------------------------------------------------------------------
(* What comments of the source say and the code does not do: each is checked,
   and found violated, by a run of its own. *)

(* DShow.cpp:2242: "let CapturingThread drain every frame that was already
   accepted": the frames in the queue when End Capture was pressed during a
   capture are in the files when it reports. *)
QueuedFramesAreWritten ==
  uPc = "report" =>
    owed \subseteq UNION {{f[i].id : i \in DOMAIN f} : f \in {Files[n] : n \in DOMAIN Files}}

(* DVToolsDlg.cpp:1302: the status "Capture safely finalized. AVI/OpenDML index
   verified" is about the capture that just ended and, DShow.cpp:2599, about
   every file of it: each has an index. *)
SuccessIsOfEveryFile ==
  uPc = "report" /\ lastCheck.result # "noindex" =>
    /\ lastCheck.session = session
    /\ \A i \in DOMAIN finalized : finalized[i].verdict \in {"good", "defects"}
=============================================================================
