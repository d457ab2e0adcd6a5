------------------------------- MODULE Dialog -------------------------------
(***************************************************************************)
(* The status display of the dialog (class CDVToolsDlg, DVToolsDlg.cpp)    *)
(* over a capture session: what the user reads, against what is the case.  *)
(*                                                                         *)
(* Four sources write the status line m_status: the commands of the user,  *)
(* the 200 ms timer, the messages that the capture thread posts, and the   *)
(* progress that FinalizeCapturing sends.  The dialog handles one message  *)
(* at a time, as Windows orders them: posted messages first, then input,   *)
(* then the timer.  The capture thread runs meanwhile.                     *)
(*                                                                         *)
(* The session is module Capture's, reduced to what the display depends    *)
(* on: m_state, whether a file was written, and the thread's messages.     *)
(* The other tab (record) appears only as the place where there is no      *)
(* capture session.                                                        *)
(*                                                                         *)
(* A definition marked "Fault:" is a faulty variant of the one after it.   *)
(***************************************************************************)
EXTENDS Integers, Sequences

CONSTANTS
  AutoStop,     \* m_autoStopTimeout > 0
  SourceEnds,   \* the source may deliver end of stream by itself
  BuildFails,   \* BuildCapturing may throw
  MaxFrames,    \* bound: frames of a session
  MaxOps        \* bound: commands of the user

ASSUME DialogAssumption ==
  {AutoStop, SourceEnds, BuildFails} \subseteq BOOLEAN /\ MaxFrames \in Nat /\ MaxOps \in Nat

VARIABLES
  state, limit, end,          \* m_state, m_captureTime > 0, the queue's m_end
  session, files, check,      \* sessions built, m_finalizedFiles # {}, m_lastCheckResult
  wPc, nFrames,               \* CapturingThread
  posted,                     \* the dialog's message queue
  label, date, sticky,        \* m_status, m_status2, m_captureFinalizedStatusSticky
  timer, exitOnFinish, tab,   \* timer 1 is set, m_exitOnFinish, the tab: 0 = capture
  uPc, uNext, uGoal,   \* the UI thread; what follows Destroy and InitVideo
  uText,              \* OnTimer's txt
  nOps

ses    == <<state, limit, end, session, files, check>>
wrk    == <<wPc, nFrames>>
disp   == <<label, date, sticky>>
dlg    == <<timer, exitOnFinish, tab>>
ui     == <<uPc, uNext, uGoal, uText, nOps>>
vars   == <<ses, wrk, posted, disp, dlg, ui>>

States == {"Idle", "CapturePaused", "Capturing", "CaptureFinalizing", "Finished"}

Text(t)   == [text |-> t]
Shown(s)  == [text |-> "state", state |-> s]
(* Success or problem (module Capture); "at", the number of commands given when
   it was written, is not displayed. *)
Report == [text |-> "report", at |-> nOps]

(* OnInitDialog: InitVideo for the tab, then the "capture" command line, if any. *)
Init ==
  /\ state \in States /\ limit = FALSE /\ end = FALSE
  /\ session = 0 /\ files = FALSE /\ check = [session |-> 0, ok |-> FALSE]
  /\ wPc = "none" /\ nFrames = 0
  /\ posted = <<>>
  /\ label = Text("init") /\ date = 0 /\ sticky = FALSE
  /\ timer = FALSE /\ exitOnFinish = FALSE
  /\ uPc = "setIdle" /\ uText = "Idle" /\ nOps = 0
  /\ \/ tab = 0 /\ uNext = "build" /\ uGoal \in {"ready", "cli"}
     \/ tab = 1 /\ uNext = "select" /\ uGoal = "ready"

-----------------------------------------------------------------------------
(* The capture thread. *)

WStep(from, to) == wPc = from /\ wPc' = to
Post(kind, arg) == posted' = Append(posted, [kind |-> kind, arg |-> arg])

(* while (m_state) *)
WTop ==
  /\ WStep("top", IF state = "Idle" THEN "tail" ELSE "get")
  /\ UNCHANGED <<ses, nFrames, posted, disp, dlg, ui>>

(* A frame, with another recording time or not. *)
WGet ==
  /\ nFrames < MaxFrames
  /\ WStep("get", "frame")
  /\ nFrames' = nFrames + 1
  /\ Post("time", 1) \/ UNCHANGED posted
  /\ UNCHANGED <<ses, disp, dlg, ui>>

WEnd ==
  /\ end
  /\ WStep("get", IF state = "Idle" THEN "tail" ELSE "setFinished")
  /\ UNCHANGED <<ses, nFrames, posted, disp, dlg, ui>>

(* CInputPin::EndOfStream. *)
SEnd ==
  /\ SourceEnds /\ ~end /\ wPc \notin {"none", "exit"}
  /\ end' = TRUE
  /\ UNCHANGED <<state, limit, session, files, check, wrk, posted, disp, dlg, ui>>

(* No frame in time: the message is posted before the state is set. *)
WLost ==
  /\ AutoStop /\ ~end /\ state = "Capturing"
  /\ WStep("get", "setFinished")
  /\ Post("lost", 0)
  /\ UNCHANGED <<ses, nFrames, disp, dlg, ui>>

WSetFinished ==
  /\ WStep("setFinished", "tail")
  /\ state' = "Finished"
  /\ UNCHANGED <<limit, end, session, files, check, nFrames, posted, disp, dlg, ui>>

(* The frame is written or not, and may reach the time limit ... *)
WFrame ==
  /\ \/ /\ state \in {"Capturing", "CaptureFinalizing"}
        /\ files' = TRUE
        /\ \/ limit /\ limit' = FALSE /\ WStep("frame", "setTimed")
           \/ UNCHANGED limit /\ WStep("frame", "disk")
     \/ /\ state \notin {"Capturing", "CaptureFinalizing"}
        /\ WStep("frame", "top") /\ UNCHANGED <<files, limit>>
  /\ UNCHANGED <<state, end, session, check, nFrames, posted, disp, dlg, ui>>

WTimed ==
  /\ WStep("setTimed", "disk")
  /\ state' = "Finished"
  /\ UNCHANGED <<limit, end, session, files, check, nFrames, posted, disp, dlg, ui>>

(* ... and may be the one at which the disk is found full. *)
WDisk ==
  /\ WStep("disk", "top")
  /\ Post("lowdisk", 0) \/ UNCHANGED posted
  /\ UNCHANGED <<ses, nFrames, disp, dlg, ui>>

(* After the loop: verify what was finalized and say so ... *)
WTail ==
  /\ WStep("tail", "bye")
  /\ \/ files /\ \E ok \in BOOLEAN : /\ check' = [session |-> session, ok |-> ok]
                                     /\ Post("check", check')
     \/ ~files /\ UNCHANGED <<check, posted>>
  /\ UNCHANGED <<state, limit, end, session, files, nFrames, disp, dlg, ui>>

(* ... and clear the date. *)
WBye ==
  /\ WStep("bye", "exit")
  /\ Post("time", 0)
  /\ UNCHANGED <<ses, nFrames, disp, dlg, ui>>

Worker == WTop \/ WEnd \/ WSetFinished \/ WFrame \/ WTimed \/ WDisk \/ WTail \/ WBye

-----------------------------------------------------------------------------
(* The handlers of the posted messages. *)

Handle(kind) ==
  /\ uPc = "ready" /\ posted # <<>>
  /\ Head(posted).kind = kind
  /\ posted' = Tail(posted)
  /\ UNCHANGED <<ses, wrk, sticky, dlg, ui>>

OnDVTimeChange == Handle("time") /\ date' = Head(posted).arg /\ UNCHANGED label

OnDVLowDiskSpace == Handle("lowdisk") /\ label' = Text("lowdisk") /\ UNCHANGED date

OnDVSignalLost == Handle("lost") /\ label' = Text("lost") /\ UNCHANGED date

(* Fault: the result is shown over the report of End Capture. *)
ShowAlways == label' = Text("check")

ShowUnlessSticky == label' = IF sticky THEN label ELSE Text("check")

OnDVCheckComplete == Handle("check") /\ ShowUnlessSticky /\ UNCHANGED date

Handlers == OnDVTimeChange \/ OnDVLowDiskSpace \/ OnDVSignalLost \/ OnDVCheckComplete

-----------------------------------------------------------------------------
(* The timer: auto-exit; the text for the state; the state is read again when
   the text is shown. *)

UStep(from, to) == uPc = from /\ uPc' = to

OnTimer ==
  /\ posted = <<>> /\ timer
  /\ \/ /\ state = "Finished" /\ exitOnFinish
        /\ UStep("ready", "setIdle") /\ uNext' = "closed"
     \/ ~(state = "Finished" /\ exitOnFinish) /\ UStep("ready", "text") /\ UNCHANGED uNext
  /\ UNCHANGED <<ses, wrk, posted, disp, dlg, uGoal, uText, nOps>>

TText ==
  /\ UStep("text", "show")
  /\ uText' = state
  /\ UNCHANGED <<ses, wrk, posted, disp, dlg, uNext, uGoal, nOps>>

TShow ==
  /\ UStep("show", "ready")
  /\ label' = IF sticky /\ state = "CapturePaused" THEN label ELSE Shown(uText)
  /\ uText' = "Idle"
  /\ UNCHANGED <<ses, wrk, posted, date, sticky, dlg, uNext, uGoal, nOps>>

Ticking == OnTimer \/ TText \/ TShow

-----------------------------------------------------------------------------
(* The commands of the user. *)

Command == uPc = "ready" /\ posted = <<>> /\ nOps < MaxOps /\ nOps' = nOps + 1

(* InitVideo up to its call of Destroy; goal is what its caller does next. *)
InitVideo(goal) ==
  /\ exitOnFinish' = FALSE /\ sticky' = FALSE /\ timer' = FALSE
  /\ label' = Text("init") /\ date' = 0
  /\ uPc' = "setIdle" /\ uGoal' = goal
  /\ uNext' = IF tab' = 0 THEN "build" ELSE "select"

(* Fault: the report stays protected when a capture begins. *)
StayProtected == UNCHANGED sticky

Unprotect == sticky' = FALSE

(* OnCapture: StartCapturing, StopCapturing, or start over.  A time limit is
   the command line's privilege. *)
OnCapture ==
  /\ tab = 0 /\ Command
  /\ \/ /\ state \in {"CapturePaused", "Capturing"}
        /\ Unprotect
        /\ uPc' = IF state = "Capturing" THEN "stop" ELSE "start"
        /\ UNCHANGED <<label, date, dlg, uNext, uGoal>>
     \/ /\ state \notin {"CapturePaused", "Capturing"}
        /\ UNCHANGED tab /\ InitVideo("ready")
  /\ UNCHANGED <<ses, wrk, posted, uText>>

UStart ==
  /\ UStep("start", "ready")
  /\ IF state = "CapturePaused" THEN state' = "Capturing" /\ limit' = FALSE
                                ELSE UNCHANGED <<state, limit>>
  /\ UNCHANGED <<end, session, files, check, wrk, posted, disp, dlg, uNext, uGoal, uText, nOps>>

UStop ==
  /\ UStep("stop", "ready")
  /\ state' = IF state = "Capturing" THEN "CapturePaused" ELSE state
  /\ UNCHANGED <<limit, end, session, files, check, wrk, posted, disp, dlg, uNext, uGoal,
                 uText, nOps>>

(* OnEndCapture, and OnCancel during a capture: no timer until InitVideo. *)
OnEndCapture ==
  /\ tab = 0 /\ Command
  /\ \/ /\ state \in {"CapturePaused", "Capturing"}
        /\ timer' = FALSE /\ sticky' = FALSE /\ label' = Text("ending")
        /\ uPc' = "finalize"
        /\ UNCHANGED <<date, exitOnFinish, tab, uNext, uGoal>>
     \/ /\ state \notin {"CapturePaused", "Capturing"}
        /\ UNCHANGED tab /\ InitVideo("ready")
  /\ UNCHANGED <<ses, wrk, posted, uText>>

(* A new tab, a new device, OnCancel without a capture. *)
OnReinit ==
  /\ Command
  /\ tab' \in {0, 1}
  /\ InitVideo("ready")
  /\ UNCHANGED <<ses, wrk, posted, uText>>

OnClose ==
  /\ Command
  /\ uPc' = "setIdle" /\ uNext' = "closed"
  /\ UNCHANGED <<ses, wrk, posted, disp, dlg, uGoal, uText>>

Commands == OnCapture \/ OnEndCapture \/ OnReinit \/ OnClose

(* FinalizeCapturing: tests of m_state, its write, end of stream, the wait. *)
UFinalize ==
  /\ uPc = "finalize"
  /\ \/ state = "Capturing" /\ uPc' = "finalizing" /\ limit' = FALSE
     \/ state = "CapturePaused" /\ uPc' = "discarding" /\ limit' = FALSE
     \/ state \notin {"CapturePaused", "Capturing"} /\ uPc' = "report" /\ UNCHANGED limit
  /\ UNCHANGED <<state, end, session, files, check, wrk, posted, disp, dlg, uNext, uGoal,
                 uText, nOps>>

UFinalizeState ==
  /\ \/ UStep("finalizing", "eos") /\ state' = "CaptureFinalizing"
     \/ UStep("discarding", "eos") /\ state' = "Finished"
  /\ UNCHANGED <<limit, end, session, files, check, wrk, posted, disp, dlg, uNext, uGoal,
                 uText, nOps>>

UEos ==
  /\ UStep("eos", "finalized")
  /\ end' = TRUE
  /\ UNCHANGED <<state, limit, session, files, check, wrk, posted, disp, dlg, uNext, uGoal,
                 uText, nOps>>

WorkerIsOut == wPc \in {"none", "exit"}

(* The progress is sent, not posted: OnDVFinalizeProgress runs in the wait. *)
UFinalized ==
  /\ WorkerIsOut
  /\ UStep("finalized", "report")
  /\ wPc' = "none"
  /\ label' = Text("progress")
  /\ state' = "Finished"
  /\ UNCHANGED <<limit, end, session, files, check, nFrames, posted, date, sticky, dlg,
                 uNext, uGoal, uText, nOps>>

(* OnEndCapture reads the result, for its text, and calls InitVideo. *)
UReport ==
  /\ uPc = "report"
  /\ UNCHANGED tab /\ InitVideo("report")
  /\ UNCHANGED <<ses, wrk, posted, uText, nOps>>

(* Destroy: state, end of stream, the wait for the thread, the rest. *)
USetIdle ==
  /\ UStep("setIdle", "join")
  /\ state' = "Idle" /\ end' = TRUE
  /\ UNCHANGED <<limit, session, files, check, wrk, posted, disp, dlg, uNext, uGoal, uText,
                 nOps>>

UJoin ==
  /\ WorkerIsOut
  /\ UStep("join", uNext)
  /\ wPc' = "none" /\ limit' = FALSE
  /\ UNCHANGED <<state, end, session, files, check, nFrames, posted, disp, dlg, uNext, uGoal,
                 uText, nOps>>

(* Fault: a new session starts with a blank result. *)
BlankResult == check' = [session |-> 0, ok |-> FALSE]

KeepResult == UNCHANGED check

(* BuildCapturing after Destroy; InitVideo sets the timer, the command line later. *)
UBuild ==
  /\ UStep("build", "goal")
  /\ state' = "CapturePaused" /\ end' = FALSE
  /\ session' = session + 1 /\ files' = FALSE /\ KeepResult
  /\ wPc' = "top" /\ nFrames' = 0
  /\ timer' = (timer \/ uGoal # "start")
  /\ UNCHANGED <<limit, posted, disp, exitOnFinish, tab, uNext, uGoal, uText, nOps>>

UBuildFails ==
  /\ BuildFails /\ uPc = "build"
  /\ session' = session + 1 /\ files' = FALSE /\ KeepResult
  /\ UNCHANGED tab
  /\ \/ uGoal = "start" /\ InitVideo("error")
     \/ /\ uGoal # "start" /\ label' = Text("error") /\ uPc' = "goal"
        /\ UNCHANGED <<date, sticky, timer, exitOnFinish, uNext, uGoal>>
  /\ UNCHANGED <<state, limit, end, wrk, posted, uText, nOps>>

USelect ==
  /\ UStep("select", "goal")
  /\ label' = Text("select")
  /\ UNCHANGED <<ses, wrk, posted, date, sticky, dlg, uNext, uGoal, uText, nOps>>

(* What the caller of InitVideo, or the command line after BuildCapturing, does. *)
GDone ==
  /\ uGoal = "ready" /\ UStep("goal", "ready")
  /\ UNCHANGED <<ses, wrk, posted, disp, dlg, uNext, uGoal, uText, nOps>>

GReport ==
  /\ uGoal = "report" /\ UStep("goal", "ready")
  /\ sticky' = TRUE
  /\ label' = Report
  /\ uGoal' = "ready"
  /\ UNCHANGED <<ses, wrk, posted, date, dlg, uNext, uText, nOps>>

GError ==
  /\ uGoal = "error" /\ UStep("goal", "ready")
  /\ label' = Text("error")
  /\ uGoal' = "ready"
  /\ UNCHANGED <<ses, wrk, posted, date, sticky, dlg, uNext, uText, nOps>>

GCommandLine ==
  /\ uGoal = "cli" /\ UStep("goal", "setIdle")
  /\ uNext' = "build" /\ uGoal' = "start"
  /\ exitOnFinish' \in BOOLEAN
  /\ UNCHANGED <<ses, wrk, posted, disp, timer, tab, uText, nOps>>

(* Fault: the timer runs only if InitVideo set it. *)
NoTimer == UNCHANGED timer

SetTimer == timer' = TRUE

GStart ==
  /\ uGoal = "start" /\ UStep("goal", "ready")
  /\ state' = IF state = "CapturePaused" THEN "Capturing" ELSE state
  /\ limit' = (state = "CapturePaused")
  /\ SetTimer
  /\ uGoal' = "ready"
  /\ UNCHANGED <<end, session, files, check, wrk, posted, disp, exitOnFinish, tab, uNext,
                 uText, nOps>>

Goal == GDone \/ GReport \/ GError \/ GCommandLine \/ GStart

InCommand ==
  \/ UStart \/ UStop
  \/ UFinalize \/ UFinalizeState \/ UEos \/ UFinalized \/ UReport
  \/ USetIdle \/ UJoin \/ UBuild \/ UBuildFails \/ USelect \/ Goal

Next == SEnd \/ Worker \/ WGet \/ WLost \/ Handlers \/ Ticking \/ Commands \/ InCommand

Spec == Init /\ [][Next]_vars

(* The thread runs, the dialog handles its messages, the timer ticks; the
   device and the user need not do anything, the signal need not be lost. *)
FairSpec ==
  Spec /\ WF_vars(Worker) /\ WF_vars(Handlers) /\ WF_vars(Ticking) /\ WF_vars(InCommand)

-----------------------------------------------------------------------------
(* Correctness. *)

(* Neither the timer, which would say "Paused", nor the result that the thread
   posted before End Capture reported it replaces the report.  A warning may, the
   end of the next session by itself does, and so does a command of the user. *)
ReportKept ==
  [][label.text = "report" /\ label' # label
       => nOps' > label.at \/ state = "Finished" \/ label'.text \in {"lowdisk", "lost"}]_vars

(* OnDVCheckComplete reads m_lastCheckResult long after the thread posted its
   message: until it is handled that is still the result which was posted,
   whatever the user did with the session in between. *)
CheckCompleteMatches ==
  \A i \in DOMAIN posted : posted[i].kind = "check" => posted[i].arg = check

(* The display catches up with the session, where there is one: a state that
   lasts is shown, but for what m_captureFinalizedStatusSticky protects: the
   report of the last capture, or the warning that took its place. *)
DisplayCatchesUp ==
  \A s \in {"CapturePaused", "Capturing", "Finished"} :
    uPc = "ready" /\ state = s /\ wPc # "none"
      ~> \/ state # s \/ label = Shown(s)
         \/ s = "CapturePaused" /\ label.text \in {"report", "lowdisk", "lost"}

(* With -exit the dialog closes by itself when the capture is over, unless the
   user took over. *)
AutoExit ==
  exitOnFinish /\ uPc = "ready" /\ state = "Finished" ~> uPc = "closed" \/ ~exitOnFinish

=============================================================================
