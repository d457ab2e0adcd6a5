------------------------------ MODULE Outputs ------------------------------
(***************************************************************************)
(* The two outputs of a record session under RecordingThread and Destroy   *)
(* (DShow.cpp): each frame is offered to the preview, which may miss it,   *)
(* and given to the DV output, which blocks when its samples are in use;   *)
(* Destroy waits for the thread, destroys the DV output and then the       *)
(* preview.  Where the frames come from is module Recording's subject.     *)
(*                                                                         *)
(* A definition marked "Fault:" is a faulty variant of the one after it.   *)
(***************************************************************************)
EXTENDS OutputGraph, Monitor

CONSTANT MaxFrames     \* bound: frames the thread sends

ASSUME OutputsAssumption ==
  MaxFrames \in Nat /\ Frames = 1 .. MaxFrames /\ MonFrames = 1 .. MaxFrames

VARIABLES
  wPc, frame,   \* RecordingThread: where, and its frame
  uPc           \* Destroy

vars == <<outVars, monVars, wPc, frame, uPc>>

Init ==
  /\ OutInit /\ MonInit
  /\ wPc = "top" /\ frame = 0
  /\ uPc = "up"

WStep(from, to) == wPc = from /\ wPc' = to
UStep(from, to) == uPc = from /\ uPc' = to

(* The loop: while (m_state), a frame, preview or not ... *)
WFrame ==
  /\ uPc = "up" /\ frame < MaxFrames
  /\ frame' = frame + 1
  /\ \/ WStep("top", "preview") /\ MonCall(frame')
     \/ WStep("top", "output") /\ UNCHANGED monVars
  /\ UNCHANGED <<outVars, uPc>>

(* ... and the DV output. *)
WOutput ==
  /\ hPc = "idle"
  /\ WStep("preview", "output")
  /\ UNCHANGED <<outVars, monVars, frame, uPc>>

WSend ==
  /\ OutCall(frame)
  /\ WStep("output", "sending")
  /\ UNCHANGED <<monVars, frame, uPc>>

WSent ==
  /\ cPc = "idle"
  /\ WStep("sending", "top")
  /\ UNCHANGED <<outVars, monVars, frame, uPc>>

WExit ==
  /\ uPc # "up"
  /\ WStep("top", "exit")
  /\ UNCHANGED <<outVars, monVars, frame, uPc>>

Worker == WFrame \/ WOutput \/ WSend \/ WSent \/ WExit

UDestroy ==
  /\ UStep("up", "join")
  /\ UNCHANGED <<outVars, monVars, wPc, frame>>

WorkerJoined == wPc = "exit"

UDeleteOutput ==
  /\ WorkerJoined
  /\ UStep("join", "output")
  /\ OutClose
  /\ UNCHANGED <<monVars, wPc, frame>>

UDeleteMonitor ==
  /\ cPc = "closed"
  /\ UStep("output", "monitor")
  /\ MonClose
  /\ UNCHANGED <<outVars, wPc, frame>>

Destroy == UDeleteOutput \/ UDeleteMonitor

Output  == (OutClient \/ OutDelivery \/ DeviceGivesBack) /\ UNCHANGED <<monVars, wPc, frame, uPc>>
Preview == /\ \/ MonHandle \/ MonThread \/ MonDestroy
              \/ RenderGivesBack \/ GraphStops \/ GraphRestarts
           /\ UNCHANGED <<outVars, wPc, frame, uPc>>

Next == Worker \/ UDestroy \/ Destroy \/ Output \/ Preview

Spec == Init /\ [][Next]_vars

Fairness == OutFairness /\ MonFairness /\ WF_vars(Worker) /\ WF_vars(Destroy)

FairSpec == Spec /\ Fairness

-----------------------------------------------------------------------------
(* The queued frames are played, unless the device fails or the output is stopped
   (the thread sends no more than MaxFrames). *)
QueuedIsPlayed ==
  Len(played) < Len(accepted)
    ~> Len(played) = Len(accepted) \/ ~running \/ hr # "ok"

(* Destroy comes to an end wherever the threads are. *)
OutputsClose == uPc = "join" ~> dPc = "closed"
=============================================================================
