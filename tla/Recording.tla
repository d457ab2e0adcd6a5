------------------------------ MODULE Recording ------------------------------
(***************************************************************************)
(* A record session of class CDV: AVI files are played, one after the      *)
(* other, through the frame queue to the DV device (DShow.cpp).            *)
(*                                                                         *)
(*   streaming thread  CInputPin -> CAVIJoiner::HandleFrame -> Put         *)
(*   joiner            CAVIJoiner::JoinerThread, opens the next file       *)
(*   worker            CDV::RecordingThread                                *)
(*   UI thread         BuildRecording, StartRecording, StopRecording and   *)
(*                     Destroy, called by OnRecord, InitVideo and OnClose  *)
(*                     (DVToolsDlg.cpp)                                    *)
(*                                                                         *)
(* m_state, m_stopping and m_end are read and written without a lock: each *)
(* access is a step.  m_ev is an auto-reset event.  The queue is the FIFO  *)
(* that DVQueue implements, seen as in module Capture.                     *)
(*                                                                         *)
(* A definition marked "Fault:" is a faulty variant of the one after it.   *)
(***************************************************************************)
EXTENDS Integers, Sequences, SequencesExt

CONSTANTS
  Capacity,      \* the queue's size: 100 in BuildRecording
  FileLengths,   \* the number of frames of each file, in playing order
  BuildFails,    \* building the DirectShow graphs may throw
  MaxOps         \* bound: commands the user gives

ASSUME RecordingAssumption ==
  /\ Capacity \in Nat \ {0}
  /\ FileLengths \in Seq(Nat) /\ FileLengths # <<>>
  /\ BuildFails \in BOOLEAN /\ MaxOps \in Nat

(* A frame is its file and its place there. *)
NoFrame == <<0, 0>>
Frames  == FlattenSeq([f \in DOMAIN FileLengths |->
                         [i \in 1 .. FileLengths[f] |-> <<f, i>>]])

States == {"Idle", "RecordPaused", "Recording", "Finished"}

VARIABLES
  state,                  \* m_state
  qUp, buf, end,          \* m_queue # NULL, its frames, its m_end
  jUp, cur, stopping, ev, \* m_aviJoiner # NULL, its m_current, m_stopping, m_ev
  jPc,                    \* JoinerThread
  file, pos, running,     \* m_reader: its file (0: none), frames read, graph runs
  sPc, sFrame,            \* the streaming thread of the reader
  wPc, frame,             \* RecordingThread and the frame behind its buffer
  sent,                   \* history: frames given to m_dvOutput, repeats left out
  pausedAt,               \* history: Len(sent) when RecordPaused was written
  uPc, uNext, nOps        \* the UI thread

que  == <<qUp, buf, end>>
join == <<jUp, cur, stopping, ev, jPc>>
read == <<file, pos, running>>
strm == <<sPc, sFrame>>
wrk  == <<wPc, frame, sent>>
ui   == <<uPc, uNext, nOps>>
vars == <<state, que, join, read, strm, wrk, pausedAt, ui>>

Init ==
  /\ state = "Idle"
  /\ qUp = FALSE /\ buf = <<>> /\ end = FALSE
  /\ jUp = FALSE /\ cur = 0 /\ stopping = FALSE /\ ev = FALSE /\ jPc = "none"
  /\ file = 0 /\ pos = 0 /\ running = FALSE
  /\ sPc = "idle" /\ sFrame = NoFrame
  /\ wPc = "none" /\ frame = NoFrame /\ sent = <<>>
  /\ pausedAt = 0
  /\ uPc = "ready" /\ uNext = "ready" /\ nOps = 0

-----------------------------------------------------------------------------
(* The streaming thread: frames of the open file, then its end of stream. *)

SStep(from, to) == sPc = from /\ sPc' = to

SFrame ==
  /\ running /\ pos < FileLengths[file]
  /\ SStep("idle", "handle")
  /\ pos' = pos + 1
  /\ sFrame' = <<file, pos'>>
  /\ UNCHANGED <<state, que, join, file, running, wrk, pausedAt, ui>>

(* CAVIJoiner::HandleFrame with a frame: dropped when stopping. *)
SHandle ==
  /\ \/ stopping /\ SStep("handle", "idle") /\ sFrame' = NoFrame
     \/ ~stopping /\ SStep("handle", "test") /\ UNCHANGED sFrame
  /\ UNCHANGED <<state, que, join, read, wrk, pausedAt, ui>>

STestEnd ==
  /\ \/ end /\ SStep("test", "idle") /\ sFrame' = NoFrame
     \/ ~end /\ SStep("test", "lock") /\ UNCHANGED sFrame
  /\ UNCHANGED <<state, que, join, read, wrk, pausedAt, ui>>

Room == Len(buf) < Capacity

SStore ==
  /\ Room
  /\ SStep("lock", "idle")
  /\ buf' = Append(buf, sFrame)
  /\ sFrame' = NoFrame
  /\ UNCHANGED <<state, qUp, end, join, read, wrk, pausedAt, ui>>

SFull ==
  /\ ~Room
  /\ SStep("lock", "wait")
  /\ UNCHANGED <<state, que, join, read, sFrame, wrk, pausedAt, ui>>

(* Fault: end of stream does not wake a blocked Put. *)
PutWakesOnRoom == Room

PutWakes == Room \/ end

SWake ==
  /\ PutWakes
  /\ SStep("wait", "test")
  /\ UNCHANGED <<state, que, join, read, sFrame, wrk, pausedAt, ui>>

(* HandleFrame with the end of the file: it counts as one more read. *)
SFileEnd ==
  /\ running /\ pos = FileLengths[file]
  /\ SStep("idle", "fileEnd")
  /\ pos' = pos + 1
  /\ UNCHANGED <<state, que, join, file, running, sFrame, wrk, pausedAt, ui>>

(* Fault: the joiner is not told. *)
ForgetJoiner == UNCHANGED ev

WakeJoiner == ev' = TRUE

SFileEndHandle ==
  /\ SStep("fileEnd", IF stopping THEN "idle" ELSE "signal")
  /\ UNCHANGED <<state, que, join, read, sFrame, wrk, pausedAt, ui>>

SFileEndSignal ==
  /\ SStep("signal", "idle")
  /\ WakeJoiner
  /\ UNCHANGED <<state, que, jUp, cur, stopping, jPc, read, sFrame, wrk, pausedAt, ui>>

Streaming == SFrame \/ SHandle \/ STestEnd \/ SStore \/ SFull \/ SWake
               \/ SFileEnd \/ SFileEndHandle \/ SFileEndSignal

-----------------------------------------------------------------------------
(* JoinerThread. *)

JStep(from, to) == jPc = from /\ jPc' = to

JWake ==
  /\ ev
  /\ JStep("wait", "test")
  /\ ev' = FALSE
  /\ UNCHANGED <<state, que, jUp, cur, stopping, read, strm, wrk, pausedAt, ui>>

(* Fault: the last file is forgotten. *)
MoreFilesButOne == cur < Len(FileLengths) - 1

MoreFiles == cur < Len(FileLengths)

JTest ==
  /\ JStep("test", IF stopping THEN "exit" ELSE IF MoreFiles THEN "delete" ELSE "end")
  /\ UNCHANGED <<state, que, jUp, cur, stopping, ev, read, strm, wrk, pausedAt, ui>>

(* delete m_reader: its destructor stops the graph, and Stop returns when the
   streaming thread is out of Receive and EndOfStream. *)
JDelete ==
  /\ JStep("delete", "open")
  /\ running' = FALSE
  /\ UNCHANGED <<state, que, jUp, cur, stopping, ev, file, pos, strm, wrk, pausedAt, ui>>

(* Fault: m_current is not advanced. *)
SameCurrent == cur

NextCurrent == cur + 1

(* A new reader for the next file, and Run. *)
JOpen ==
  /\ JStep("open", "wait")
  /\ sPc = "idle"
  /\ file' = cur + 1 /\ pos' = 0 /\ running' = TRUE
  /\ cur' = NextCurrent
  /\ UNCHANGED <<state, que, jUp, stopping, ev, strm, wrk, pausedAt, ui>>

(* All files played: end of stream to the queue. *)
JEnd ==
  /\ JStep("end", "exit")
  /\ end' = TRUE
  /\ UNCHANGED <<state, qUp, buf, jUp, cur, stopping, ev, read, strm, wrk, pausedAt, ui>>

Joiner == JWake \/ JTest \/ JDelete \/ JOpen \/ JEnd

-----------------------------------------------------------------------------
(* RecordingThread.  The frame behind buffer is sent again and again until the
   state is Recording and Get returned another one. *)

WStep(from, to) == wPc = from /\ wPc' = to

WOthers == UNCHANGED <<qUp, end, join, read, strm, pausedAt, ui>>

WTake ==
  /\ buf # <<>>
  /\ WStep("get", "top")
  /\ frame' = Head(buf)
  /\ buf' = Tail(buf)
  /\ UNCHANGED <<state, sent>> /\ WOthers

WEmpty ==
  /\ buf = <<>>
  /\ WStep("get", "empty")
  /\ UNCHANGED <<state, buf, frame, sent>> /\ WOthers

(* Get returns false: the thread ends if that was the first Get. *)
WTestEnd ==
  /\ \/ ~end /\ WStep("empty", "wait")
     \/ end /\ WStep("empty", IF frame = NoFrame THEN "exit" ELSE "false")
  /\ UNCHANGED <<state, buf, frame, sent>> /\ WOthers

WWake ==
  /\ buf # <<>> \/ end
  /\ WStep("wait", "get")
  /\ UNCHANGED <<state, buf, frame, sent>> /\ WOthers

(* if (m_state) m_state = Finished: a test and a write. *)
WFalse ==
  /\ WStep("false", IF state # "Idle" THEN "setFinished" ELSE "top")
  /\ UNCHANGED <<state, buf, frame, sent>> /\ WOthers

WSetFinished ==
  /\ WStep("setFinished", "top")
  /\ state' = "Finished"
  /\ UNCHANGED <<buf, frame, sent>> /\ WOthers

(* while (m_state) *)
WTop ==
  /\ WStep("top", IF state # "Idle" THEN "send" ELSE "exit")
  /\ UNCHANGED <<state, buf, frame, sent>> /\ WOthers

(* m_dvOutput->HandleFrame *)
WSend ==
  /\ WStep("send", "test")
  /\ sent' = IF sent # <<>> /\ Last(sent) = frame THEN sent ELSE Append(sent, frame)
  /\ UNCHANGED <<state, buf, frame>> /\ WOthers

(* Fault: the next frame is fetched while paused too. *)
WTestNothing ==
  /\ WStep("test", "get")
  /\ UNCHANGED <<state, buf, frame, sent>> /\ WOthers

(* if (m_state == Recording) *)
WTest ==
  /\ WStep("test", IF state = "Recording" THEN "get" ELSE "top")
  /\ UNCHANGED <<state, buf, frame, sent>> /\ WOthers

Worker == WTake \/ WEmpty \/ WTestEnd \/ WWake \/ WFalse \/ WSetFinished
            \/ WTop \/ WSend \/ WTest

-----------------------------------------------------------------------------
(* The UI thread: commands, which run to their end one at a time. *)

UStep(from, to) == uPc = from /\ uPc' = to

Command(to) == nOps < MaxOps /\ nOps' = nOps + 1 /\ UStep("ready", to)

OnRecord ==
  /\ \/ state = "RecordPaused" /\ Command("startTest") /\ UNCHANGED uNext
     \/ state = "Recording" /\ Command("stopTest") /\ UNCHANGED uNext
     \/ /\ state \notin {"RecordPaused", "Recording"}
        /\ Command("setIdle") /\ uNext' = "build"
  /\ UNCHANGED <<state, que, join, read, strm, wrk, pausedAt>>

(* InitVideo (Cancel, another tab or device) and OnClose. *)
OnReinitOrClose ==
  /\ Command("setIdle")
  /\ uNext' \in {"ready", "closed"}
  /\ UNCHANGED <<state, que, join, read, strm, wrk, pausedAt>>

UStartTest ==
  /\ UStep("startTest", IF state = "RecordPaused" THEN "start" ELSE "ready")
  /\ UNCHANGED <<state, que, join, read, strm, wrk, pausedAt, uNext, nOps>>

UStart ==
  /\ UStep("start", "ready")
  /\ state' = "Recording"
  /\ UNCHANGED <<que, join, read, strm, wrk, pausedAt, uNext, nOps>>

UStopTest ==
  /\ UStep("stopTest", IF state = "Recording" THEN "stop" ELSE "ready")
  /\ UNCHANGED <<state, que, join, read, strm, wrk, pausedAt, uNext, nOps>>

UStop ==
  /\ UStep("stop", "ready")
  /\ state' = "RecordPaused"
  /\ pausedAt' = Len(sent)
  /\ UNCHANGED <<que, join, read, strm, wrk, uNext, nOps>>

(* Destroy: Idle, end of stream, then CAVIJoiner::Stop if there is a joiner ... *)
USetIdle ==
  /\ UStep("setIdle", "eos")
  /\ state' = "Idle"
  /\ UNCHANGED <<que, join, read, strm, wrk, pausedAt, uNext, nOps>>

UEos ==
  /\ UStep("eos", IF jUp THEN "stopFlag" ELSE "join")
  /\ end' = (end \/ qUp)
  /\ UNCHANGED <<state, qUp, buf, join, read, strm, wrk, pausedAt, uNext, nOps>>

UStopFlag ==
  /\ UStep("stopFlag", IF jPc = "none" THEN "stopReader" ELSE "stopSignal")
  /\ stopping' = TRUE
  /\ UNCHANGED <<state, que, jUp, cur, ev, jPc, read, strm, wrk, pausedAt, uNext, nOps>>

UStopSignal ==
  /\ UStep("stopSignal", "stopJoin")
  /\ ev' = TRUE
  /\ UNCHANGED <<state, que, jUp, cur, stopping, jPc, read, strm, wrk, pausedAt, uNext, nOps>>

(* Fault: Stop does not wait for JoinerThread. *)
JoinerNotAwaited == TRUE

JoinerIsOut == jPc = "exit"

UStopJoin ==
  /\ UStep("stopJoin", "stopReader")
  /\ JoinerIsOut
  /\ jPc' = IF jPc = "exit" THEN "none" ELSE jPc
  /\ UNCHANGED <<state, que, jUp, cur, stopping, ev, read, strm, wrk, pausedAt, uNext, nOps>>

(* ... whose delete m_reader waits for the streaming thread ... *)
UStopReader ==
  /\ UStep("stopReader", "readerStopping")
  /\ running' = FALSE
  /\ UNCHANGED <<state, que, join, file, pos, strm, wrk, pausedAt, uNext, nOps>>

UReaderStopped ==
  /\ UStep("readerStopping", "join")
  /\ sPc = "idle"
  /\ file' = 0 /\ pos' = 0
  /\ stopping' = FALSE
  /\ UNCHANGED <<state, que, jUp, cur, ev, jPc, running, strm, wrk, pausedAt, uNext, nOps>>

(* ... then wait for the worker and delete it ... *)
UJoin ==
  /\ UStep("join", "destroy")
  /\ wPc \in {"none", "exit"}
  /\ wPc' = "none"
  /\ UNCHANGED <<state, que, join, read, strm, frame, sent, pausedAt, uNext, nOps>>

(* ... and everything else. *)
UDestroy ==
  /\ UStep("destroy", uNext)
  /\ jUp' = FALSE /\ ev' = FALSE
  /\ qUp' = FALSE /\ buf' = <<>> /\ end' = FALSE
  /\ UNCHANGED <<state, cur, stopping, jPc, read, strm, wrk, pausedAt, uNext, nOps>>

(* BuildRecording after Destroy.  An exception makes OnRecord call InitVideo. *)
Throws(from) == BuildFails /\ UStep(from, "setIdle") /\ uNext' = "ready"

(* new CAVIJoiner, which opens the first file ... *)
UBuildJoiner ==
  /\ \/ /\ UStep("build", "buildQueue") /\ UNCHANGED uNext
        /\ jUp' = TRUE /\ cur' = 1 /\ file' = 1
     \/ Throws("build") /\ UNCHANGED <<jUp, cur, file>>
  /\ frame' = NoFrame /\ sent' = <<>>
  /\ UNCHANGED <<state, que, stopping, ev, jPc, pos, running, strm, wPc, pausedAt, nOps>>

(* ... monitor, output and queue ... *)
UBuildQueue ==
  /\ \/ UStep("buildQueue", "buildJoiner") /\ UNCHANGED uNext /\ qUp' = TRUE
     \/ Throws("buildQueue") /\ UNCHANGED qUp
  /\ UNCHANGED <<state, buf, end, join, read, strm, wrk, pausedAt, nOps>>

(* ... CAVIJoiner::Run: the thread, then the first reader ... *)
UBuildThread ==
  /\ UStep("buildJoiner", "buildRun")
  /\ jPc' = "wait"
  /\ UNCHANGED <<state, que, jUp, cur, stopping, ev, read, strm, wrk, pausedAt, uNext, nOps>>

UBuildRun ==
  /\ \/ UStep("buildRun", "setPaused") /\ UNCHANGED uNext /\ running' = TRUE
     \/ Throws("buildRun") /\ UNCHANGED running
  /\ UNCHANGED <<state, que, join, file, pos, strm, wrk, pausedAt, nOps>>

(* ... m_state, and last the worker. *)
USetPaused ==
  /\ UStep("setPaused", "startThread")
  /\ state' = "RecordPaused"
  /\ pausedAt' = 0
  /\ UNCHANGED <<que, join, read, strm, wrk, uNext, nOps>>

UStartThread ==
  /\ UStep("startThread", "ready")
  /\ wPc' = "get"
  /\ UNCHANGED <<state, que, join, read, strm, frame, sent, pausedAt, uNext, nOps>>

InCommand ==
  \/ UStartTest \/ UStart \/ UStopTest \/ UStop
  \/ USetIdle \/ UEos \/ UStopFlag \/ UStopSignal \/ UStopJoin
  \/ UStopReader \/ UReaderStopped \/ UJoin \/ UDestroy
  \/ UBuildJoiner \/ UBuildQueue \/ UBuildThread \/ UBuildRun
  \/ USetPaused \/ UStartThread

Next == Streaming \/ Joiner \/ Worker \/ OnRecord \/ OnReinitOrClose \/ InCommand

Spec == Init /\ [][Next]_vars

(* Every thread runs; a file, unlike a camcorder, always yields its frames.
   The user need not do anything. *)
FairSpec ==
  Spec /\ WF_vars(Streaming) /\ WF_vars(Joiner) /\ WF_vars(Worker) /\ WF_vars(InCommand)

-----------------------------------------------------------------------------
(* Correctness. *)

FrameSet == {Frames[i] : i \in DOMAIN Frames}
DestroyPcs == {"eos", "stopFlag", "stopSignal", "stopJoin", "stopReader",
               "readerStopping", "join", "destroy"}

(* The device gets the frames of all files in order, across every change of
   file, none left out and none twice (but for a still picture), whatever the
   user pauses and resumes. *)
SentInOrder == IsPrefix(sent, Frames)

(* The queue is told of the end of the stream by the joiner only after the last
   file, when all its frames have been put: the end of an earlier file stays
   between reader and joiner. *)
EndIsAfterLastFile ==
  qUp /\ end /\ uPc \notin DestroyPcs =>
    file = Len(FileLengths) /\ pos > FileLengths[file] /\ sPc = "idle"

(* Destroy deletes joiner, queue and output only when no thread can touch them:
   not the streaming thread, the joiner's, or the worker.  Only one of the
   joiner's thread and Stop touches m_reader at a time. *)
NoUseAfterFree ==
  /\ sPc # "idle" => qUp /\ jUp /\ file # 0
  /\ jPc \notin {"none", "exit"} =>
       qUp /\ jUp /\ uPc \notin {"stopReader", "readerStopping", "join", "destroy"}
  /\ wPc \notin {"none", "exit"} => qUp

(* Why: what the UI thread has built and not yet deleted at each point of a
   command, and which threads may run there.  Inductive, see RecordingProofs. *)
Unbuilt  == {"build", "buildQueue", "buildJoiner"}
Building == {"buildJoiner", "buildRun", "setPaused", "startThread"}
TeardownInv ==
  /\ cur \in Nat /\ uNext \in {"ready", "closed", "build"}
  /\ uPc = "buildQueue" => jUp /\ file # 0
  /\ uPc \in Building => qUp /\ jUp /\ file # 0
  /\ running => uPc # "readerStopping"
  /\ sPc # "idle" \/ running =>
       qUp /\ jUp /\ file # 0 /\ uPc \notin Unbuilt \cup {"join", "destroy"}
  /\ jPc \notin {"none", "exit"} =>
       /\ qUp /\ jUp
       /\ uPc \notin Unbuilt \cup {"stopReader", "readerStopping", "join", "destroy"}
  /\ wPc \notin {"none", "exit"} =>
       qUp /\ uPc \notin Unbuilt \cup Building \cup {"destroy"}

(* After Record was pressed to pause, at most one more frame reaches the device
   before the picture stands still: the one RecordingThread was fetching. *)
PauseHolds == state = "RecordPaused" => Len(sent) <= pausedAt + 1

(* A recording comes to its end by itself: file ends are never missed, and the
   reader and the worker never wait for each other. *)
RecordingEnds == state = "Recording" ~> state # "Recording"

(* Destroy comes to an end whatever the three other threads were doing; the one
   exception is a worker that overwrote Idle with Finished. *)
DestroyReturns ==
  uPc = "setIdle" ~> \/ uPc \in {"build", "ready", "closed"}
                     \/ uPc = "join" /\ state = "Finished"

-----------------------------------------------------------------------------
(* What a comment says and the code does not do; found violated by a run. *)

(* DShow.cpp:2117: Destroy "is safe to call in any state": called, it returns. *)
DestroyAlwaysReturns == uPc = "setIdle" ~> uPc \in {"build", "ready", "closed"}
=============================================================================
