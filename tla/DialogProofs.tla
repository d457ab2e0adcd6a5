---------------------------- MODULE DialogProofs ----------------------------
(***************************************************************************)
(* Proofs about the status display, for every number of frames and         *)
(* commands.                                                               *)
(*                                                                         *)
(* CheckInv: a result of the verification that was posted to the dialog is *)
(* still the session's result when it is handled.  A new session can be    *)
(* built over an unhandled result, and its thread could post another; but  *)
(* it has nothing to verify before a command starts it, and the dialog     *)
(* gives no command while a message is in its queue.                       *)
(*                                                                         *)
(* KeptInv: while the report of End Capture is on display and no command   *)
(* was given since, it is protected, and the timer does not run unless the *)
(* session is paused or over.                                              *)
(***************************************************************************)
EXTENDS Dialog, TLAPS

Results  == [session : Int, ok : BOOLEAN]
Messages == [kind : {"time", "lost", "lowdisk", "check"}, arg : {0, 1} \cup Results]

NoCheck(p) == \A i \in DOMAIN p : p[i].kind # "check"
AllAre(p, c) == \A i \in DOMAIN p : p[i].kind = "check" => p[i].arg = c

TypeInv == posted \in Seq(Messages) /\ session \in Int /\ check \in Results

(* The thread has posted what it has to. *)
Over == wPc \in {"bye", "exit", "none"}

Rolling == state \in {"Capturing", "CaptureFinalizing"}

(* A session that has no file, and no command that would give it one. *)
Dormant ==
  ~files /\ ~Rolling /\ uPc \notin {"start", "finalizing"} /\ uGoal \notin {"cli", "start"}

(* OnInitDialog has not started the capture of the command line yet. *)
Opening ==
  /\ uPc \in {"setIdle", "join", "build", "goal"} /\ uNext = "build"
  /\ ~files /\ NoCheck(posted)
  /\ wPc = "none" \/ ~Rolling

CheckInv ==
  /\ TypeInv
  /\ AllAre(posted, check)
  /\ NoCheck(posted) \/ Over \/ Dormant
  /\ uGoal \in {"cli", "start"} => Opening

-----------------------------------------------------------------------------
(* The message queue. *)

LEMMA PostOther ==
  ASSUME NEW p \in Seq(Messages), NEW m \in Messages, m.kind # "check", NEW c
  PROVE  /\ Append(p, m) \in Seq(Messages)
         /\ NoCheck(p) => NoCheck(Append(p, m))
         /\ AllAre(p, c) => AllAre(Append(p, m), c)
<1> DEFINE q == Append(p, m)
<1>1. /\ q \in Seq(Messages) /\ DOMAIN q = 1 .. Len(p) + 1
      /\ \A i \in DOMAIN q : (i \in DOMAIN p /\ q[i] = p[i]) \/ q[i] = m
  OBVIOUS
<1> HIDE DEF q
<1>2. NoCheck(p) => NoCheck(q)
  BY <1>1 DEF NoCheck
<1>3. AllAre(p, c) => AllAre(q, c)
  BY <1>1 DEF AllAre
<1> QED
  BY <1>1, <1>2, <1>3 DEF q

LEMMA PostCheck ==
  ASSUME NEW p \in Seq(Messages), NEW m \in Messages, NoCheck(p)
  PROVE  Append(p, m) \in Seq(Messages) /\ AllAre(Append(p, m), m.arg)
<1> DEFINE q == Append(p, m)
<1>1. /\ q \in Seq(Messages)
      /\ \A i \in DOMAIN q : (i \in DOMAIN p /\ q[i] = p[i]) \/ q[i] = m
  OBVIOUS
<1> HIDE DEF q
<1>2. AllAre(q, m.arg)
  BY <1>1 DEF NoCheck, AllAre
<1> QED
  BY <1>1, <1>2 DEF q

LEMMA HandleFirst ==
  ASSUME NEW p \in Seq(Messages), p # <<>>, NEW c
  PROVE  /\ Tail(p) \in Seq(Messages)
         /\ NoCheck(p) => NoCheck(Tail(p))
         /\ AllAre(p, c) => AllAre(Tail(p), c)
<1> DEFINE q == Tail(p)
<1>1. q \in Seq(Messages) /\ \A i \in DOMAIN q : i + 1 \in DOMAIN p /\ q[i] = p[i + 1]
  OBVIOUS
<1> HIDE DEF q
<1>2. NoCheck(p) => NoCheck(q)
  BY <1>1 DEF NoCheck
<1>3. AllAre(p, c) => AllAre(q, c)
  BY <1>1 DEF AllAre
<1> QED
  BY <1>1, <1>2, <1>3 DEF q

LEMMA InitCheck == Init => CheckInv
<1> SUFFICES ASSUME Init PROVE CheckInv
  OBVIOUS
<1>1. posted = <<>> /\ session = 0 /\ check = [session |-> 0, ok |-> FALSE]
  BY DEF Init
<1>2. TypeInv
  BY <1>1 DEF TypeInv, Results
<1>3. NoCheck(posted) /\ AllAre(posted, check)
  BY <1>1 DEF NoCheck, AllAre
<1>4. uGoal \in {"cli", "start"} => Opening
  BY <1>3 DEF Init, Opening
<1> QED
  BY <1>2, <1>3, <1>4 DEF CheckInv

-----------------------------------------------------------------------------
(* The capture thread. *)

LEMMA WorkerKeeps ==
  ASSUME CheckInv, Worker \/ WGet \/ WLost \/ SEnd
  PROVE  CheckInv'
<1> USE DEF CheckInv, TypeInv
<1>1. CASE WTop \/ WEnd \/ WSetFinished \/ WTimed \/ SEnd
  <2>1. posted' = posted /\ check' = check /\ session' = session /\ files' = files
        /\ uPc' = uPc /\ uGoal' = uGoal /\ uNext' = uNext
    BY <1>1 DEF WTop, WEnd, WSetFinished, WTimed, SEnd, ses, disp, dlg, ui, wrk
  <2>2. (Over => Over') /\ (wPc = "none" => wPc' = "none") /\ (~Rolling => ~Rolling')
    BY <1>1 DEF WTop, WEnd, WSetFinished, WTimed, SEnd, ses, wrk, WStep, Over, Rolling
  <2> QED
    BY <2>1, <2>2 DEF Dormant, Opening
<1>2. CASE WFrame
  <2>1. posted' = posted /\ check' = check /\ session' = session /\ state' = state
        /\ uPc' = uPc /\ uGoal' = uGoal /\ uNext' = uNext /\ ~Over
    BY <1>2 DEF WFrame, WStep, Over, ui
  <2>2. wPc # "none" /\ (~Rolling => files' = files)
    BY <1>2 DEF WFrame, WStep, Rolling
  <2> QED
    BY <2>1, <2>2 DEF Dormant, Opening, Rolling
<1>3. CASE WGet \/ WLost \/ WDisk \/ WBye
  <2>1. /\ check' = check /\ session' = session /\ files' = files /\ state' = state
        /\ uPc' = uPc /\ uGoal' = uGoal /\ uNext' = uNext
        /\ Over => Over'
        /\ wPc # "none"
    BY <1>3 DEF WGet, WLost, WDisk, WBye, WStep, Over, ses, ui
  <2>2. \/ posted' = posted
        \/ \E m \in Messages : m.kind # "check" /\ posted' = Append(posted, m)
    BY <1>3 DEF WGet, WLost, WDisk, WBye, Post, Messages
  <2>3. /\ posted' \in Seq(Messages)
        /\ NoCheck(posted) => NoCheck(posted')
        /\ AllAre(posted', check)
    BY <2>2, PostOther
  <2> QED
    BY <2>1, <2>3 DEF Dormant, Opening, Rolling
<1>4. CASE WTail
  <2>1. wPc = "tail" /\ ~Over /\ wPc # "none" /\ Over' /\ session' = session
        /\ files' = files /\ state' = state
        /\ uPc' = uPc /\ uGoal' = uGoal /\ uNext' = uNext
    BY <1>4 DEF WTail, WStep, Over, ui
  <2>2. CASE ~files
    <3>1. posted' = posted /\ check' = check
      BY <1>4, <2>2 DEF WTail
    <3> QED
      BY <2>1, <3>1 DEF Opening, Rolling
  <2>3. CASE files
    <3>1. NoCheck(posted) /\ uGoal \notin {"cli", "start"}
      BY <2>1, <2>3 DEF Dormant, Opening
    <3>2. PICK ok \in BOOLEAN : /\ check' = [session |-> session, ok |-> ok]
                                /\ posted' = Append(posted, [kind |-> "check", arg |-> check'])
      BY <1>4, <2>3 DEF WTail, Post
    <3>3. check' \in Results
      BY <3>2 DEF Results
    <3> DEFINE m == [kind |-> "check", arg |-> check']
    <3>4. m \in Messages /\ m.arg = check'
      BY <3>3 DEF Messages
    <3> HIDE DEF m
    <3>5. posted' = Append(posted, m)
      BY <3>2 DEF m
    <3>6. posted' \in Seq(Messages) /\ AllAre(posted', check')
      BY <3>1, <3>4, <3>5, PostCheck
    <3> QED
      BY <2>1, <3>1, <3>3, <3>6
  <2> QED
    BY <2>2, <2>3
<1> QED
  BY <1>1, <1>2, <1>3, <1>4 DEF Worker

-----------------------------------------------------------------------------
(* The dialog: its messages, its timer and its user. *)

LEMMA DialogKeeps ==
  ASSUME CheckInv, Handlers \/ Ticking \/ Commands
  PROVE  CheckInv'
<1> USE DEF CheckInv, TypeInv
<1>1. CASE Handlers
  <2>1. /\ posted # <<>> /\ posted' = Tail(posted)
        /\ UNCHANGED <<state, files, check, session, wPc, uPc, uGoal, uNext>>
    BY <1>1 DEF Handlers, OnDVTimeChange, OnDVLowDiskSpace, OnDVSignalLost, OnDVCheckComplete,
       Handle, ses, wrk, ui
  <2>2. /\ posted' \in Seq(Messages)
        /\ NoCheck(posted) => NoCheck(posted')
        /\ AllAre(posted', check)
    BY <2>1, HandleFirst
  <2> QED
    BY <2>1, <2>2 DEF Over, Dormant, Opening, Rolling
<1>2. CASE Ticking
  <2>1. /\ UNCHANGED <<state, files, check, session, wPc, posted, uGoal>>
        /\ uPc \in {"ready", "text", "show"} /\ uPc' \notin {"start", "finalizing"}
    BY <1>2 DEF Ticking, OnTimer, TText, TShow, UStep, ses, wrk
  <2> QED
    BY <2>1 DEF Over, Dormant, Opening, Rolling
<1>3. CASE Commands
  <2>1. /\ posted = <<>> /\ uPc = "ready"
        /\ UNCHANGED <<state, files, check, session, wPc, posted>>
        /\ uGoal' \in {uGoal, "ready"}
    BY <1>3 DEF Commands, OnCapture, OnEndCapture, OnReinit, OnClose, Command, InitVideo, ses, wrk
  <2>2. NoCheck(posted)
    BY <2>1 DEF NoCheck
  <2>3. uGoal \notin {"cli", "start"}
    BY <2>1 DEF Opening
  <2> QED
    BY <2>1, <2>2, <2>3
<1> QED
  BY <1>1, <1>2, <1>3

(* What follows a command: FinalizeCapturing and Destroy. *)
LEMMA FinalizeKeeps ==
  ASSUME CheckInv, \/ UStart \/ UStop \/ UFinalize \/ UFinalizeState \/ UEos \/ UFinalized
                   \/ UReport \/ USetIdle \/ UJoin
  PROVE  CheckInv'
<1> USE DEF CheckInv, TypeInv
<1>1. UNCHANGED <<posted, check, session, files>>
  BY DEF UStart, UStop, UFinalize, UFinalizeState, UEos, UFinalized, UReport, USetIdle, UJoin, ses
<1>2. (Over => Over') /\ (wPc = "none" => wPc' = "none")
  BY DEF UStart, UStop, UFinalize, UFinalizeState, UEos, UFinalized, UReport, USetIdle, UJoin,
     wrk, Over
<1>3. CASE UStart \/ UStop \/ UFinalizeState \/ UEos \/ UFinalized
  <2>1. uPc \notin {"setIdle", "join", "build", "goal"} /\ uGoal' = uGoal
    BY <1>3 DEF UStart, UStop, UFinalizeState, UEos, UFinalized, UStep
  <2>2. Dormant => Dormant'
    BY <1>1, <1>3, <2>1 DEF UStart, UStop, UFinalizeState, UEos, UFinalized, UStep, Dormant, Rolling
  <2> QED
    BY <1>1, <1>2, <2>1, <2>2 DEF Opening
<1>4. CASE UFinalize \/ UReport
  <2>1. uPc \notin {"setIdle", "join", "build", "goal"} /\ state' = state
        /\ uGoal' \in {uGoal, "report"}
    BY <1>4 DEF UFinalize, UReport, InitVideo, ses
  <2>2. Dormant => Dormant'
    BY <1>1, <1>4, <2>1 DEF UFinalize, UReport, InitVideo, Dormant, Rolling
  <2> QED
    BY <1>1, <1>2, <2>1, <2>2 DEF Opening
<1>5. CASE USetIdle
  <2>1. uPc' = "join" /\ state' = "Idle" /\ uGoal' = uGoal /\ uNext' = uNext
    BY <1>5 DEF USetIdle, UStep
  <2> QED
    BY <1>1, <1>2, <2>1 DEF Dormant, Opening, Rolling
<1>6. CASE UJoin
  <2>1. uPc' = uNext /\ wPc' = "none" /\ uGoal' = uGoal /\ uNext' = uNext
    BY <1>6 DEF UJoin, UStep
  <2> QED
    BY <1>1, <2>1 DEF Over, Opening
<1> QED
  BY <1>3, <1>4, <1>5, <1>6

(* BuildCapturing, and what the caller of InitVideo does. *)
LEMMA BuildKeeps ==
  ASSUME CheckInv, UBuild \/ UBuildFails \/ USelect \/ Goal
  PROVE  CheckInv'
<1> USE DEF CheckInv, TypeInv
<1>1. CASE UBuild
  <2>1. /\ posted' = posted /\ check' = check /\ session' = session + 1 /\ ~files'
        /\ state' = "CapturePaused" /\ uPc' = "goal" /\ uGoal' = uGoal /\ uNext' = uNext
    BY <1>1 DEF UBuild, UStep, KeepResult
  <2>2. ~Rolling'
    BY <2>1 DEF Rolling
  <2>3. CASE uGoal \in {"cli", "start"}
    BY <2>1, <2>2, <2>3 DEF Opening
  <2>4. CASE uGoal \notin {"cli", "start"}
    BY <2>1, <2>2, <2>4 DEF Dormant
  <2> QED
    BY <2>3, <2>4
<1>2. CASE UBuildFails
  <2>1. /\ posted' = posted /\ check' = check /\ session' = session + 1 /\ ~files'
        /\ state' = state /\ wPc' = wPc /\ uPc = "build" /\ uPc' \in {"setIdle", "goal"}
        /\ uGoal' \in {uGoal, "error"} /\ (uGoal' = uGoal => uNext' = uNext \/ uGoal = "start")
        /\ (uGoal = "start" => uGoal' = "error")
    BY <1>2 DEF UBuildFails, KeepResult, InitVideo, wrk
  <2> QED
    BY <2>1 DEF Over, Dormant, Opening, Rolling
<1>3. CASE USelect
  <2>1. /\ UNCHANGED <<posted, check, session, files, state, wPc, uGoal>>
        /\ uPc = "select" /\ uPc' = "goal"
    BY <1>3 DEF USelect, UStep, ses, wrk
  <2> QED
    BY <2>1 DEF Over, Dormant, Opening, Rolling
<1>4. CASE GDone \/ GReport \/ GError
  <2>1. /\ UNCHANGED <<posted, check, session, files, state, wPc>>
        /\ uGoal' = "ready" /\ uPc' = "ready"
    BY <1>4 DEF GDone, GReport, GError, UStep, ses, wrk
  <2> QED
    BY <2>1 DEF Over, Dormant, Rolling
<1>5. CASE GCommandLine
  <2>1. /\ UNCHANGED <<posted, check, session, files, state, wPc>>
        /\ uGoal = "cli" /\ uGoal' = "start" /\ uPc' = "setIdle" /\ uNext' = "build"
    BY <1>5 DEF GCommandLine, UStep, ses, wrk
  <2> QED
    BY <2>1 DEF Opening, Rolling
<1>6. CASE GStart
  <2>1. UNCHANGED <<posted, check, session>> /\ uGoal = "start" /\ uGoal' = "ready"
    BY <1>6 DEF GStart
  <2> QED
    BY <2>1 DEF Opening
<1> QED
  BY <1>1, <1>2, <1>3, <1>4, <1>5, <1>6 DEF Goal

LEMMA CheckStep == CheckInv /\ [Next]_vars => CheckInv'
<1> SUFFICES ASSUME CheckInv, [Next]_vars PROVE CheckInv'
  OBVIOUS
<1>1. CASE UNCHANGED vars
  BY <1>1 DEF vars, ses, wrk, ui, CheckInv, TypeInv, Over, Dormant, Opening, Rolling
<1> QED
  BY <1>1, WorkerKeeps, DialogKeeps, FinalizeKeeps, BuildKeeps DEF Next, InCommand

(* Whatever the user did with the session since the thread posted its result,
   m_lastCheckResult is that result when OnDVCheckComplete reads it
   (DVToolsDlg.cpp:1618). *)
THEOREM CheckCompleteMatchesSafe == Spec => []CheckCompleteMatches
<1>1. CheckInv => CheckCompleteMatches
  BY DEF CheckInv, AllAre, CheckCompleteMatches
<1> QED
  BY <1>1, InitCheck, CheckStep, PTL DEF Spec

-----------------------------------------------------------------------------
(* The report of End Capture. *)

Cleared == state \in {"CapturePaused", "Finished"}

(* InitVideo runs, and the report will be shown after it: no timer before the
   new session is paused. *)
ReportPending ==
  /\ ~exitOnFinish
  /\ uPc \in {"setIdle", "join", "build", "select", "goal"} /\ uNext \in {"build", "select"}
  /\ timer => uPc = "goal" /\ Cleared

(* No command was given since the report was shown. *)
Fresh ==
  /\ sticky /\ ~exitOnFinish /\ uGoal = "ready" /\ uPc \in {"ready", "text", "show"}
  /\ uPc # "ready" => timer
  /\ timer => Cleared

LabelInv == label.text = "report" =>
  label.at \in Nat /\ label.at <= nOps /\ (label.at = nOps => Fresh)

KeptInv == nOps \in Nat /\ (uGoal = "report" => ReportPending) /\ LabelInv

(* A step that shows no report keeps the invariant, if a fresh report stays so. *)
LEMMA LabelStays ==
  ASSUME KeptInv, nOps' = nOps, label' = label \/ label'.text # "report",
         uGoal' = "report" => ReportPending', Fresh => Fresh'
  PROVE  KeptInv'
<1>1. LabelInv'
  BY DEF KeptInv, LabelInv
<1> QED
  BY <1>1 DEF KeptInv

(* While the dialog is in a command, the report on display is an old one. *)
LEMMA OldReport ==
  ASSUME KeptInv, label.text = "report", uPc \notin {"ready", "text", "show"}
  PROVE  nOps > label.at
BY DEF KeptInv, LabelInv, Fresh

(* The capture thread can end the session, and no more. *)
LEMMA ThreadKeepsReport ==
  ASSUME KeptInv, Worker \/ WGet \/ WLost \/ SEnd
  PROVE  KeptInv' /\ label' = label
<1>1. UNCHANGED <<disp, dlg, ui>>
  BY DEF Worker, WTop, WEnd, WSetFinished, WFrame, WTimed, WDisk, WTail, WBye, WGet, WLost, SEnd
<1>2. state' = state \/ state' = "Finished"
  BY DEF Worker, WTop, WEnd, WSetFinished, WFrame, WTimed, WDisk, WTail, WBye, WGet, WLost, SEnd,
     ses
<1>3. UNCHANGED <<label, sticky, timer, exitOnFinish, uPc, uNext, uGoal, nOps>>
  BY <1>1 DEF disp, dlg, ui
<1>4. Cleared => Cleared'
  BY <1>2 DEF Cleared
<1>5. (Fresh => Fresh') /\ (ReportPending => ReportPending')
  BY <1>3, <1>4 DEF Fresh, ReportPending
<1> QED
  BY <1>3, <1>5, LabelStays DEF KeptInv

LEMMA MessagesKeepReport ==
  ASSUME KeptInv, Handlers
  PROVE  /\ KeptInv'
         /\ label.text = "report" /\ label' # label =>
              label.at < nOps' \/ label'.text \in {"lowdisk", "lost"}
<1>1. UNCHANGED <<state, sticky, timer, exitOnFinish, uPc, uNext, uGoal, nOps>>
  BY DEF Handlers, OnDVTimeChange, OnDVLowDiskSpace, OnDVSignalLost, OnDVCheckComplete, Handle,
     ses, dlg, ui
<1>2. \/ label' = label \/ label'.text \in {"lowdisk", "lost"}
      \/ ~sticky /\ label'.text = "check"
  BY DEF Handlers, OnDVTimeChange, OnDVLowDiskSpace, OnDVSignalLost, OnDVCheckComplete,
     ShowUnlessSticky, Text
<1>3. (Fresh => Fresh') /\ (ReportPending => ReportPending')
  BY <1>1 DEF Fresh, ReportPending, Cleared
<1>4. KeptInv'
  BY <1>1, <1>2, <1>3, LabelStays DEF KeptInv
<1>5. label.text = "report" /\ ~sticky => label.at < nOps
  BY DEF KeptInv, LabelInv, Fresh
<1> QED
  BY <1>1, <1>2, <1>4, <1>5

(* The timer runs in a fresh report only when the session is paused or over. *)
LEMMA TimerKeepsReport ==
  ASSUME KeptInv, Ticking
  PROVE  /\ KeptInv'
         /\ label.text = "report" /\ label' # label => label.at < nOps' \/ state = "Finished"
<1>1. /\ UNCHANGED <<state, sticky, timer, exitOnFinish, uGoal, nOps>>
      /\ uPc \in {"ready", "text", "show"}
  BY DEF Ticking, OnTimer, TText, TShow, UStep, ses, disp, dlg
<1>2. uGoal # "report"
  BY <1>1 DEF KeptInv, ReportPending
<1>3. \/ label' = label
      \/ label'.text = "state" /\ uPc = "show" /\ ~(sticky /\ state = "CapturePaused")
  BY DEF Ticking, OnTimer, TText, TShow, UStep, disp, Shown
<1>4. Fresh => Fresh'
  <2>1. ASSUME Fresh PROVE timer /\ uPc' \in {"ready", "text", "show"}
    BY <2>1 DEF Ticking, OnTimer, TText, TShow, UStep, Fresh
  <2> QED
    BY <1>1, <2>1 DEF Fresh, Cleared
<1>5. KeptInv'
  BY <1>1, <1>2, <1>3, <1>4, LabelStays
<1>6. label.text = "report" => label.at < nOps \/ (Fresh /\ label.at = nOps /\ nOps \in Nat)
  BY DEF KeptInv, LabelInv
<1>7. Fresh /\ label' # label => state = "Finished"
  BY <1>3 DEF Fresh, Cleared
<1> QED
  BY <1>1, <1>5, <1>6, <1>7

LEMMA CommandsKeepReport ==
  ASSUME KeptInv, Commands
  PROVE  KeptInv' /\ (label.text = "report" => label.at < nOps')
<1>1. uPc = "ready" /\ nOps' = nOps + 1 /\ uGoal' \in {uGoal, "ready"}
  BY DEF Commands, OnCapture, OnEndCapture, OnReinit, OnClose, Command, InitVideo
<1>2. label' = label \/ label'.text # "report"
  BY DEF Commands, OnCapture, OnEndCapture, OnReinit, OnClose, InitVideo, Text, disp
<1>3. uGoal' # "report"
  BY <1>1 DEF KeptInv, ReportPending
<1>4. nOps \in Nat /\ (label.text = "report" => label.at \in Nat /\ label.at < nOps')
  BY <1>1 DEF KeptInv, LabelInv
<1>5. LabelInv'
  <2>1. ASSUME label'.text = "report"
        PROVE  label'.at \in Nat /\ label'.at < nOps'
    BY <1>2, <1>4, <2>1
  <2>2. nOps' \in Nat
    BY <1>1, <1>4
  <2> QED
    BY <2>1, <2>2 DEF LabelInv
<1> QED
  BY <1>1, <1>3, <1>4, <1>5 DEF KeptInv

(* What follows a command. *)
LEMMA AfterCommandKeepsReport ==
  ASSUME KeptInv, InCommand
  PROVE  KeptInv' /\ (label.text = "report" => label.at < nOps')
<1>1. nOps' = nOps /\ uPc \notin {"ready", "text", "show"}
  BY DEF InCommand, UStart, UStop, UFinalize, UFinalizeState, UEos, UFinalized, UReport, USetIdle,
     UJoin, UBuild, UBuildFails, USelect, Goal, GDone, GReport, GError, GCommandLine, GStart,
     UStep, ui
<1>2. label.text = "report" => label.at < nOps'
  BY <1>1, OldReport
<1>3. ~Fresh
  BY <1>1 DEF Fresh
<1>4. CASE GReport
  <2>1. uGoal = "report" /\ UNCHANGED <<state, timer, exitOnFinish>>
    BY <1>4 DEF GReport, ses, dlg
  <2>2. ~exitOnFinish /\ (timer => Cleared) /\ nOps \in Nat
    BY <2>1 DEF KeptInv, ReportPending
  <2>3. sticky' /\ uPc' = "ready" /\ uGoal' = "ready" /\ label'.at = nOps
    BY <1>4 DEF GReport, UStep, Report
  <2>4. Fresh'
    BY <2>1, <2>2, <2>3 DEF Fresh, Cleared
  <2>5. LabelInv'
    BY <1>1, <2>2, <2>3, <2>4 DEF LabelInv
  <2> QED
    BY <1>1, <1>2, <2>2, <2>3, <2>5 DEF KeptInv
<1>5. CASE ~GReport
  <2>1. label' = label \/ label'.text # "report"
    BY <1>5 DEF InCommand, UStart, UStop, UFinalize, UFinalizeState, UEos, UFinalized, UReport,
       USetIdle, UJoin, UBuild, UBuildFails, USelect, Goal, GDone, GError, GCommandLine, GStart,
       InitVideo, Text, disp
  <2>2. ASSUME uGoal' = "report" PROVE ReportPending'
    <3>1. CASE UReport
      BY <3>1 DEF UReport, InitVideo, ReportPending
    <3>2. CASE ~UReport
      <4>1. uGoal = "report"
        BY <1>5, <2>2, <3>2 DEF InCommand, UStart, UStop, UFinalize, UFinalizeState, UEos,
           UFinalized, USetIdle, UJoin, UBuild, UBuildFails, USelect, Goal, GDone, GError,
           GCommandLine, GStart, InitVideo
      <4>2. ReportPending
        BY <4>1 DEF KeptInv
      <4>3. USetIdle \/ UJoin \/ UBuild \/ UBuildFails \/ USelect
        BY <1>5, <3>2, <4>1, <4>2 DEF InCommand, UStart, UStop, UFinalize, UFinalizeState, UEos,
           UFinalized, Goal, GDone, GError, GCommandLine, GStart, UStep, ReportPending
      <4>4. CASE USetIdle \/ UJoin \/ USelect
        BY <4>2, <4>4 DEF USetIdle, UJoin, USelect, UStep, ReportPending, dlg
      <4>5. CASE UBuild
        BY <4>2, <4>5 DEF UBuild, UStep, ReportPending, Cleared
      <4>6. CASE UBuildFails
        BY <4>1, <4>2, <4>6 DEF UBuildFails, InitVideo, ReportPending
      <4> QED
        BY <4>3, <4>4, <4>5, <4>6
    <3> QED
      BY <3>1, <3>2
  <2> QED
    BY <1>1, <1>2, <1>3, <2>1, <2>2, LabelStays
<1> QED
  BY <1>4, <1>5

LEMMA InitKept == Init => KeptInv
BY DEF Init, KeptInv, LabelInv, Text

(* What a step may do to the report (ReportKept), and that it keeps KeptInv. *)
LEMMA KeptStep ==
  ASSUME KeptInv, [Next]_vars
  PROVE  /\ KeptInv'
         /\ label.text = "report" /\ label' # label
              => nOps' > label.at \/ state = "Finished" \/ label'.text \in {"lowdisk", "lost"}
<1>1. CASE UNCHANGED vars
  <2>1. UNCHANGED <<state, label, sticky, timer, exitOnFinish, uPc, uNext, uGoal, nOps>>
    BY <1>1 DEF vars, ses, disp, dlg, ui
  <2> QED
    BY <2>1 DEF KeptInv, LabelInv, Fresh, ReportPending, Cleared
<1>2. label.text = "report" => label.at \in Nat
  BY DEF KeptInv, LabelInv
<1>3. CASE Worker \/ WGet \/ WLost \/ SEnd
  BY <1>3, ThreadKeepsReport
<1>4. CASE Handlers
  BY <1>4, MessagesKeepReport
<1>5. CASE Ticking
  BY <1>5, TimerKeepsReport
<1>6. CASE Commands
  BY <1>6, CommandsKeepReport
<1>7. CASE InCommand
  BY <1>7, AfterCommandKeepsReport
<1> QED
  BY <1>1, <1>3, <1>4, <1>5, <1>6, <1>7 DEF Next

(* The report of End Capture stays on display until a command, the end of the
   next session by itself, or a warning: neither the timer's "Paused" nor the
   result that the thread posted replaces it (DVToolsDlg.cpp:1618, OnTimer). *)
THEOREM ReportKeptSafe == Spec => ReportKept
<1>1. KeptInv /\ [Next]_vars =>
        [label.text = "report" /\ label' # label
           => nOps' > label.at \/ state = "Finished" \/ label'.text \in {"lowdisk", "lost"}]_vars
  BY KeptStep
<1>2. KeptInv /\ [Next]_vars => KeptInv'
  BY KeptStep
<1> QED
  BY <1>1, <1>2, InitKept, PTL DEF Spec, ReportKept
=============================================================================
