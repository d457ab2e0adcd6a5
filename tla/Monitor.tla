------------------------------ MODULE Monitor ------------------------------
(***************************************************************************)
(* The preview: class CMonitor (DShow.cpp).  HandleFrame, called by the    *)
(* worker of a session, fills a sample that MonitoringThread exposes in    *)
(* m_sample, without a lock: m_sample, the auto-reset event m_ev and m_VW  *)
(* are all they share.  The UI thread runs ~CMonitor.                      *)
(*                                                                         *)
(* The renderer, and the filter graph manager that stops and restarts the  *)
(* graph (a change of the display mode), are not in the repository.        *)
(*                                                                         *)
(* A definition marked "Fault:" is a faulty variant of the one after it.   *)
(***************************************************************************)
EXTENDS Integers, SamplePool

CONSTANTS
  MonFrames,        \* the contents of frames, numbers in the order they arrive
  MonPoolSize,      \* samples of the preview graph's pool
  MonBadFrames,     \* frames for which GetPointer of the sample fails
  MaxStops          \* bound: stops of the preview graph

ASSUME MonitorAssumption ==
  /\ MonFrames \subseteq Nat \ {0} /\ MonPoolSize \in Nat \ {0}
  /\ MonBadFrames \subseteq MonFrames /\ MaxStops \in Nat

Unwritten == 0
HalfCopied == -1

VARIABLES
  mPool, mContent,   \* the allocator; the bytes behind each sample
  mSample, mEv, mVW, \* m_sample, m_ev, m_VW # NULL
  mPc, mHeld,        \* MonitoringThread and its pSample
  hPc, hFrame,       \* HandleFrame
  dPc,               \* ~CMonitor
  rend, shown,       \* samples the renderer keeps; history: the last it showed
  nStops,            \* history: stops of the graph
  missed             \* history: GetPointer has failed

monShared == <<mSample, mEv, mVW>>
monCall   == <<hPc, hFrame>>
monHist   == <<nStops, missed>>
monVars   == <<mPool, mContent, monShared, mPc, mHeld, monCall, dPc, rend, shown, monHist>>

MonInit ==
  /\ mPool = NewPool(MonPoolSize) /\ mContent = [s \in Samples(MonPoolSize) |-> Unwritten]
  /\ mSample = NoSample /\ mEv = FALSE /\ mVW = TRUE
  /\ mPc = "get" /\ mHeld = NoSample
  /\ hPc = "idle" /\ hFrame = Unwritten
  /\ dPc = "up"
  /\ rend = {} /\ shown = Unwritten
  /\ nStops = 0 /\ missed = FALSE

MStep(from, to) == mPc = from /\ mPc' = to
HStep(from, to) == hPc = from /\ hPc' = to
DStep(from, to) == dPc = from /\ dPc' = to

-----------------------------------------------------------------------------
(* HandleFrame: dropped when no sample is exposed. *)

MonCall(f) ==
  /\ \/ mSample = NoSample /\ HStep("idle", "idle") /\ UNCHANGED hFrame
     \/ mSample # NoSample /\ HStep("idle", "fill") /\ hFrame' = f
  /\ UNCHANGED <<mPool, mContent, monShared, mPc, mHeld, dPc, rend, shown, monHist>>

HFill ==
  /\ hFrame \notin MonBadFrames
  /\ HStep("fill", "copying")
  /\ mContent' = [mContent EXCEPT ![mSample] = HalfCopied]
  /\ UNCHANGED <<mPool, monShared, mPc, mHeld, hFrame, dPc, rend, shown, monHist>>

(* GetPointer fails: the sample is no longer exposed and nobody is told. *)
HNoPointer ==
  /\ hFrame \in MonBadFrames
  /\ HStep("fill", "idle")
  /\ mSample' = NoSample /\ missed' = TRUE /\ hFrame' = Unwritten
  /\ UNCHANGED <<mPool, mContent, mEv, mVW, mPc, mHeld, dPc, rend, shown, nStops>>

HFilled ==
  /\ HStep("copying", "clear")
  /\ mContent' = [mContent EXCEPT ![mSample] = hFrame]
  /\ hFrame' = Unwritten
  /\ UNCHANGED <<mPool, monShared, mPc, mHeld, dPc, rend, shown, monHist>>

(* Fault: the event first, so that the next buffer may be hidden. *)
ClearLate  == hPc = "signal" /\ hPc' = "idle" /\ mSample' = NoSample
SignalFirst == hPc = "clear" /\ hPc' = "signal" /\ mEv' = TRUE

(* m_sample = NULL, and only then the event. *)
Clear  == HStep("clear", "signal") /\ mSample' = NoSample /\ UNCHANGED mEv
Signal == HStep("signal", "idle") /\ mEv' = TRUE /\ UNCHANGED mSample

(* Fault: both, the wrong way round. *)
HandOverSwapped == (SignalFirst /\ UNCHANGED mSample) \/ (ClearLate /\ UNCHANGED mEv)

HandOver == Clear \/ Signal

HHandOver ==
  /\ HandOver
  /\ UNCHANGED <<mPool, mContent, mVW, mPc, mHeld, hFrame, dPc, rend, shown, monHist>>

MonHandle == HFill \/ HNoPointer \/ HFilled \/ HHandOver

-----------------------------------------------------------------------------
(* MonitoringThread. *)

MGetBuffer ==
  /\ \/ /\ CanTake(mPool) /\ MStep("get", "expose")
        /\ mPool' = Take(mPool) /\ mHeld' = Head(mPool.free)
     \/ /\ MustWait(mPool) /\ MStep("get", "blocked")
        /\ mPool' = SetWaiting(mPool) /\ UNCHANGED mHeld
     \/ /\ ~mPool.committed /\ MStep("get", "backoff")
        /\ UNCHANGED <<mPool, mHeld>>
  /\ UNCHANGED <<mContent, monShared, monCall, dPc, rend, shown, monHist>>

MWoken ==
  /\ mPool.sem > 0
  /\ MStep("blocked", "get")
  /\ mPool' = Woken(mPool)
  /\ UNCHANGED <<mContent, monShared, mHeld, monCall, dPc, rend, shown, monHist>>

(* Sleep(100), and another try: m_VW is not looked at. *)
MBackOff ==
  /\ MStep("backoff", "get")
  /\ UNCHANGED <<mPool, mContent, monShared, mHeld, monCall, dPc, rend, shown, monHist>>

MExpose ==
  /\ MStep("expose", "wait")
  /\ mSample' = mHeld
  /\ UNCHANGED <<mPool, mContent, mEv, mVW, mHeld, monCall, dPc, rend, shown, monHist>>

(* Fault: the wait has an end. *)
MWakesAnyhow == TRUE

MWakes == mEv

MWake ==
  /\ MWakes
  /\ MStep("wait", "test")
  /\ mEv' = FALSE
  /\ UNCHANGED <<mPool, mContent, mSample, mVW, mHeld, monCall, dPc, rend, shown, monHist>>

MTest ==
  /\ \/ mVW /\ MStep("test", "deliver") /\ UNCHANGED <<mPool, mHeld>>
     \/ /\ ~mVW /\ MStep("test", "exit")
        /\ mPool' = Release(mPool, mHeld) /\ mHeld' = NoSample
  /\ UNCHANGED <<mContent, monShared, monCall, dPc, rend, shown, monHist>>

(* Deliver: the renderer keeps the sample until it is shown, or, with the graph
   stopped, refuses it. *)
MDeliver ==
  /\ MStep("deliver", "release")
  /\ \/ mPool.committed /\ mPool' = AddRef(mPool, mHeld) /\ rend' = rend \cup {mHeld}
     \/ ~mPool.committed /\ UNCHANGED <<mPool, rend>>
  /\ UNCHANGED <<mContent, monShared, mHeld, monCall, dPc, shown, monHist>>

MRelease ==
  /\ MStep("release", "get")
  /\ mPool' = Release(mPool, mHeld) /\ mHeld' = NoSample
  /\ UNCHANGED <<mContent, monShared, monCall, dPc, rend, shown, monHist>>

MonThread == MGetBuffer \/ MWoken \/ MBackOff \/ MExpose \/ MWake \/ MTest
               \/ MDeliver \/ MRelease

-----------------------------------------------------------------------------
(* The renderer shows the oldest sample and gives it back; the graph stops, and
   what it holds is given back unseen, and starts again. *)

RenderGivesBack ==
  /\ \E s \in rend :
       /\ \A t \in rend : mContent[s] <= mContent[t]
       /\ shown' = IF mPool.committed THEN mContent[s] ELSE shown
       /\ rend' = rend \ {s}
       /\ mPool' = Release(mPool, s)
  /\ UNCHANGED <<mContent, monShared, mPc, mHeld, monCall, dPc, monHist>>

GraphStops ==
  /\ mPool.committed /\ nStops < MaxStops /\ dPc # "closed"
  /\ nStops' = nStops + 1
  /\ mPool' = Decommit(mPool)
  /\ UNCHANGED <<mContent, monShared, mPc, mHeld, monCall, dPc, rend, shown, missed>>

GraphRestarts ==
  /\ ~mPool.committed /\ dPc # "closed"
  /\ mPool' = Commit(mPool)
  /\ UNCHANGED <<mContent, monShared, mPc, mHeld, monCall, dPc, rend, shown, monHist>>

-----------------------------------------------------------------------------
(* ~CMonitor: m_VW = NULL, the event, and the end of the thread; then the graph
   is stopped for good. *)

MonClose ==
  /\ DStep("up", "signal")
  /\ mVW' = FALSE
  /\ UNCHANGED <<mPool, mContent, mSample, mEv, mPc, mHeld, monCall, rend, shown, monHist>>

(* Fault: the thread is not told. *)
NoWord == UNCHANGED mEv

ShutdownSignal == mEv' = TRUE

DSignal ==
  /\ DStep("signal", "join")
  /\ ShutdownSignal
  /\ UNCHANGED <<mPool, mContent, mSample, mVW, mPc, mHeld, monCall, rend, shown, monHist>>

DJoin ==
  /\ mPc = "exit"
  /\ DStep("join", "closed")
  /\ mPool' = Decommit(mPool)
  /\ UNCHANGED <<mContent, monShared, mPc, mHeld, monCall, rend, shown, monHist>>

MonDestroy == DSignal \/ DJoin

MonNext ==
  \/ \E f \in MonFrames : (\A s \in Samples(MonPoolSize) : f > mContent[s]) /\ MonCall(f)
  \/ MonHandle \/ MonThread \/ RenderGivesBack \/ GraphStops \/ GraphRestarts
  \/ hPc = "idle" /\ MonClose
  \/ MonDestroy

MonSpec == MonInit /\ [][MonNext]_monVars

(* The threads are scheduled, the renderer shows what it keeps, and the filter
   graph manager restarts a graph it stopped. *)
MonFairness ==
  /\ WF_monVars(MonHandle) /\ WF_monVars(MonThread) /\ WF_monVars(MonDestroy)
  /\ WF_monVars(RenderGivesBack) /\ WF_monVars(GraphRestarts)

-----------------------------------------------------------------------------
(* The preview shows whole frames and never goes back to an earlier one. *)
PreviewMovesForward == [][shown' > shown]_shown

(* A waiting preview thread has a sample exposed or its event is on the way: the
   two cannot miss each other (unless a sample had no memory). *)
PreviewIsAwake ==
  mPc = "wait" => mSample = mHeld \/ mEv \/ hPc = "signal" \/ missed
=============================================================================
