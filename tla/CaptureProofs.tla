---------------------------- MODULE CaptureProofs ----------------------------
(***************************************************************************)
(* Proofs about a capture session for every capacity, set of recording     *)
(* times, limits and number of frames and commands: Destroy frees nothing  *)
(* that a thread still uses, the AVI writer is the worker's alone, no file *)
(* has a hole or a jump in time, or more frames than it may, the progress  *)
(* runs forward, Put drops no frame that End Capture waits for, and the    *)
(* report comes last.                                                      *)
(*                                                                         *)
(* The inductive invariants are, each one resting on those before it,      *)
(*   TeardownInv  what is built and which threads run, see Capture         *)
(*   FilesInv     the frames from the writer's last to the last delivered  *)
(*   TimesInv     the recording times in the files                         *)
(*   PhaseInv     how far the progress is at each point of the worker      *)
(*   CheckInv     which files are checked at each point of the worker      *)
(*   DrainInv     m_end and the source while a capture ends, for a source  *)
(*                that does not end by itself                              *)
(*   QuietInv     that the worker stays in its loop, when nothing but the  *)
(*                user ends the capture                                    *)
(***************************************************************************)
EXTENDS Capture, SequenceTheorems, TLAPS

(* At first there is no worker, no writer and no source. *)
LEMMA InitTeardownInv == Init => TeardownInv
BY DEF Init, TeardownInv, WorkerRuns, WriterBelongsToWorker

(* A step of the streaming thread: Put begins only while the source runs. *)
LEMMA StreamingTeardown == TeardownInv /\ (SFrame \/ SEnd \/ InPut) => TeardownInv'
<1> SUFFICES ASSUME TeardownInv, SFrame \/ SEnd \/ InPut
             PROVE  TeardownInv'
  OBVIOUS
<1> USE DEF TeardownInv, WorkerRuns, WriterBelongsToWorker,
            ctl, que, srcv, wrk, out, chk, ui, SStep
<1>1. CASE SFrame
  BY <1>1 DEF SFrame
<1>2. CASE SEnd
  BY <1>2 DEF SEnd
<1>3. CASE STestEnd \/ SStore
  BY <1>3 DEF STestEnd, SStore
<1>4. CASE SFull \/ SWake
  BY <1>4 DEF SFull, SWake
<1> QED
  BY <1>1, <1>2, <1>3, <1>4 DEF InPut

(* A step of the worker: queue, source and UI thread stay as they are, and the
   worker leaves its loop and its tail without an open writer. *)
LEMMA WorkerTeardown == TeardownInv /\ (Worker \/ WTimeout) => TeardownInv'
<1> SUFFICES ASSUME TeardownInv, Worker \/ WTimeout
             PROVE  TeardownInv'
  OBVIOUS
<1> USE DEF WStep, Stays
<1>1. /\ UNCHANGED <<qUp, src, sPc, uPc, uNext>>
      /\ wPc \notin {"none", "exit"}
  BY DEF Worker, WStart, WTop, WTake, WEmpty, WTestEnd, WWake, WTimeout, WAfterFalse,
         WEos, WSignalLost, WSetFinished, WTest, WWrite, WLimit, WReached, WTimed,
         WPaused, WResetCounters, WTailClose, WTailCheck, WVerify, WHash, WTailDone,
         que, srcv, ui
<1>2. WriterBelongsToWorker'
  <2> USE DEF TeardownInv, WorkerRuns, WriterBelongsToWorker
  <2>1. CASE WStart \/ WTop \/ WTake \/ WEmpty \/ WTestEnd \/ WWake \/ WTimeout
    BY <2>1 DEF WStart, WTop, WTake, WEmpty, WTestEnd, WWake, WTimeout, out
  <2>2. CASE WAfterFalse \/ WEos \/ WSignalLost \/ WSetFinished \/ WTest
    BY <2>2 DEF WAfterFalse, WEos, WSignalLost, WSetFinished, WTest, out
  <2>3. CASE WWrite
    BY <2>3 DEF WWrite
  <2>4. CASE WLimit \/ WReached \/ WTimed \/ WResetCounters
    BY <2>4 DEF WLimit, WReached, WTimed, WResetCounters, out
  <2>5. CASE WPaused \/ WTailClose
    BY <2>5 DEF WPaused, WTailClose, CloseOpenWriter
  <2>6. CASE WTailCheck \/ WVerify \/ WHash \/ WTailDone
    BY <2>6 DEF WTailCheck, WVerify, WHash, WTailDone, out
  <2> QED
    BY <2>1, <2>2, <2>3, <2>4, <2>5, <2>6 DEF Worker
<1> QED
  BY <1>1, <1>2 DEF TeardownInv, WorkerRuns

(* A step of the UI thread. *)
LEMMA CommandTeardown == TeardownInv /\ (Commands \/ InCommand) => TeardownInv'
<1> SUFFICES ASSUME TeardownInv, Commands \/ InCommand
             PROVE  TeardownInv'
  OBVIOUS
<1> USE DEF TeardownInv, WorkerRuns, WriterBelongsToWorker,
            ctl, que, srcv, wrk, out, chk, ui, UStep
<1>1. CASE Commands
  BY <1>1 DEF Commands, OnCapture, OnEndCapture, OnReinitOrClose, Command
<1>2. CASE UStartTest \/ UStart \/ UStopTest \/ UStop
  BY <1>2 DEF UStartTest, UStart, UStopTest, UStop
<1>3. CASE UFinalizeTest \/ UFinalize \/ UFinalizeState
  BY <1>3 DEF UFinalizeTest, UFinalize, UFinalizeState
<1>4. CASE UFinalizeDone \/ UReport
  BY <1>4 DEF UFinalizeDone, UReport
<1>5. CASE UStopSource
  BY <1>5 DEF UStopSource
<1>6. CASE USourceStopped
  BY <1>6 DEF USourceStopped, StreamingThreadIsOut
<1>7. CASE UEos \/ USetIdle
  BY <1>7 DEF UEos, USetIdle
<1>8. CASE UJoin
  BY <1>8 DEF UJoin, WorkerIsOut
<1>9. CASE UDestroy
  BY <1>9 DEF UDestroy, CloseOpenWriter
<1>10. CASE UBuildInput
  BY <1>10 DEF UBuildInput
<1>11. CASE UBuildQueue
  BY <1>11 DEF UBuildQueue
<1>12. CASE UBuildRun
  BY <1>12 DEF UBuildRun
<1>13. CASE USetPaused \/ UStartThread
  BY <1>13 DEF USetPaused, UStartThread
<1> QED
  BY <1>1, <1>2, <1>3, <1>4, <1>5, <1>6, <1>7, <1>8, <1>9, <1>10, <1>11, <1>12,
     <1>13 DEF InCommand

(* TeardownInv holds in every state. *)
LEMMA TeardownInvariant == Spec => []TeardownInv
<1>1. TeardownInv /\ UNCHANGED vars => TeardownInv'
  BY DEF TeardownInv, WorkerRuns, WriterBelongsToWorker,
         vars, ctl, que, srcv, wrk, out, chk, ui
<1>2. TeardownInv /\ [Next]_vars => TeardownInv'
  BY <1>1, StreamingTeardown, WorkerTeardown, CommandTeardown DEF Next
<1> QED
  BY InitTeardownInv, <1>2, PTL DEF Spec

(* Destroy deletes the queue and the source only when the streaming thread is
   out of Put and the worker has ended. *)
THEOREM NoUseAfterFreeSafe == Spec => []NoUseAfterFree
<1>1. TeardownInv => NoUseAfterFree
  BY DEF TeardownInv, NoUseAfterFree
<1> QED
  BY TeardownInvariant, <1>1, PTL

(* m_aviWriter is open only while the worker runs and before its tail reads the
   list of finished files: Destroy never closes a writer. *)
THEOREM WriterBelongsToWorkerSafe == Spec => []WriterBelongsToWorker
<1>1. TeardownInv => WriterBelongsToWorker
  BY DEF TeardownInv
<1> QED
  BY TeardownInvariant, <1>1, PTL
-----------------------------------------------------------------------------
(* A multiple with a positive factor is at least the divisor. *)
LEMMA Mult ==
  ASSUME NEW e \in Nat \ {0}, NEW d \in Int
  PROVE  d >= 1 => e * d >= e
OBVIOUS

(* A multiple with a negative factor is at most minus the divisor. *)
LEMMA Mult2 ==
  ASSUME NEW e \in Nat \ {0}, NEW d \in Int
  PROVE  d <= -1 => e * d <= -e
OBVIOUS

(* The rest of a division is the only number below the divisor that
   differs by a multiple of it. *)
LEMMA Rest ==
  ASSUME NEW e \in Nat \ {0}, NEW q \in Int, NEW r \in 0 .. e - 1, NEW c \in Int, c = e * q + r
  PROVE  c % e = r
<1> DEFINE p == c \div e
           s == c % e
<1>1. p \in Int /\ s \in 0 .. e - 1 /\ c = e * p + s
  BY SMT
<1>2. s - r = e * q - e * p
  BY <1>1
<1>3. e * q - e * p = e * (q - p)
  BY <1>1
<1> HIDE DEF p, s
<1>4. q - p <= 0
  <2>1. q - p >= 1 => e * (q - p) >= e
    BY <1>1, Mult
  <2> QED
    BY <1>1, <1>2, <1>3, <2>1
<1>5. q - p >= 0
  <2>1. q - p <= -1 => e * (q - p) <= -e
    BY <1>1, Mult2
  <2> QED
    BY <1>1, <1>2, <1>3, <2>1
<1>6. q = p
  BY <1>1, <1>4, <1>5
<1>7. s = r
  BY <1>1, <1>6
<1> QED
  BY <1>7 DEF s

(* The counter of skipped frames: one more frame moves the rest on by one,
   and the rest is 0 again after EveryNth frames. *)
LEMMA ModStep ==
  ASSUME NEW e \in Nat \ {0}, NEW c \in Nat
  PROVE  /\ c % e \in 0 .. e - 1
         /\ (c + 1) % e = IF c % e = e - 1 THEN 0 ELSE (c % e) + 1
<1> DEFINE q == c \div e
           r == c % e
<1>1. q \in Int /\ r \in 0 .. e - 1 /\ c = e * q + r
  BY SMT
<1>2. CASE r = e - 1
  <2>1. c + 1 = e * (q + 1) + 0
    BY <1>1, <1>2
  <2>2. (c + 1) % e = 0
    <3> HIDE DEF q, r
    <3> QED
    BY <1>1, <2>1, Rest
  <2> QED
    BY <1>1, <1>2, <2>2
<1>3. CASE r # e - 1
  <2>1. c + 1 = e * q + (r + 1) /\ r + 1 \in 0 .. e - 1
    BY <1>1, <1>3
  <2>2. (c + 1) % e = r + 1
    <3> HIDE DEF q, r
    <3> QED
    BY <1>1, <2>1, Rest
  <2> QED
    BY <1>1, <1>3, <2>2
<1> QED
  BY <1>2, <1>3, <1>1

-----------------------------------------------------------------------------
(* A captured frame, an open writer and a finished file, with their fields. *)
FrameRec  == [id : Nat, time : Int]
WriterRec == [frames : Seq(FrameRec), count : Nat \ {0}, dvtime : Int]
FileRec   == [frames : Seq(FrameRec), dvtime : Int, verdict : Verdicts \cup {"unchecked"}]

(* The worker has a frame in hand that it has not yet dealt with. *)
InWork == wPc \in {"frame", "write", "close"}
One(b) == IF b THEN 1 ELSE 0

(* Frames in hand and in the queue. *)
HandInv ==
  /\ nFrames \in Nat
  /\ sPc # "idle" => sFrame \in FrameRec /\ sFrame.id = nFrames
  /\ InWork => wFrame \in FrameRec
  /\ buf \in Seq(FrameRec)
  /\ uPc \in {"build", "buildQueue"} => buf = <<>>

(* Put still stores frames: m_end is not set, or was not when it was tested. *)
Live == ~end \/ sPc = "lock"

(* Frame a is the next one the worker writes: it has it in hand, or will take it
   from the queue.  The writer ends in front of it, and no frame is missing from
   there to the last one delivered. *)
Follows(a) ==
  /\ InWork => wFrame.id = a
  /\ \A i \in 1 .. Len(buf) : buf[i].id = a + (i - 1) + One(InWork)
  /\ writer # None =>
       writer.frames[Len(writer.frames)].id + ((writer.count - 1) % EveryNth) + 1 = a
  /\ Live => a + Len(buf) + One(InWork) + One(sPc # "idle") = nFrames + 1

(* The frames of a file: as many as fit, each EveryNth frames behind the one
   before it. *)
FileOK(fs) ==
  /\ fs # <<>>
  /\ Len(fs) <= MaxAVIFrames \/ Len(fs) = 1
  /\ \A i \in 1 .. Len(fs) - 1 : fs[i + 1].id = fs[i].id + EveryNth

(* The open writer holds such frames. *)
OpenOK == writer # None => writer \in WriterRec /\ FileOK(writer.frames) /\ wPc # "start"

(* So does every finished file. *)
ClosedOK ==
  /\ finalized \in Seq(FileRec)
  /\ \A i \in 1 .. Len(finalized) : FileOK(finalized[i].frames)

(* A capture writes what it was given: no frame is missing between the writer and
   the last one delivered. *)
FilesInv == HandInv /\ (\E a \in Int : Follows(a)) /\ OpenOK /\ ClosedOK

(* Nothing has been captured at first: the next frame is the first. *)
LEMMA InitFilesInv == Init => FilesInv
<1> SUFFICES ASSUME Init
             PROVE  FilesInv
  OBVIOUS
<1>1. HandInv /\ OpenOK /\ ClosedOK
  BY DEF Init, HandInv, OpenOK, ClosedOK, InWork
<1>2. Follows(1)
  BY DEF Init, Follows, InWork, Live, One
<1> QED
  BY <1>1, <1>2 DEF FilesInv

(* Put delivers the frame behind the last one, or drops it when the capture
   ends: then no frame follows. *)
LEMMA FilesStreaming == TeardownInv /\ FilesInv /\ (SFrame \/ SEnd \/ InPut) => FilesInv'
<1> SUFFICES ASSUME TeardownInv, FilesInv, SFrame \/ SEnd \/ InPut
             PROVE  FilesInv'
  OBVIOUS
<1>1. PICK a \in Int : Follows(a)
  BY DEF FilesInv
<1>0. HandInv
  BY DEF FilesInv
<1>2. UNCHANGED <<wPc, wFrame, writer, finalized, uPc>> /\ (InWork <=> InWork')
  BY DEF SFrame, SEnd, InPut, STestEnd, SStore, SFull, SWake, wrk, out, ui, InWork
<1>3. OpenOK' /\ ClosedOK'
  BY <1>2 DEF FilesInv, OpenOK, ClosedOK
<1> SUFFICES HandInv' /\ Follows(a)'
  BY <1>1, <1>3 DEF FilesInv
<1> USE DEF SStep
<1>4. CASE SFrame
  <2>1. /\ sPc = "idle" /\ sPc' = "test" /\ nFrames' = nFrames + 1
        /\ \E t \in Times : sFrame' = [id |-> nFrames', time |-> t]
        /\ UNCHANGED <<buf, end>>
    BY <1>4 DEF SFrame, que
  <2>2. HandInv'
    BY <1>0, <1>2, <2>1, TimesAssumption DEF HandInv, FrameRec, NoTime
  <2>3. Follows(a)'
    BY <1>0, <1>1, <1>2, <2>1 DEF Follows, Live, One, HandInv
  <2> QED
    BY <2>2, <2>3
<1>5. CASE SStore
  <2> DEFINE n == Len(buf)
             b == buf'
  <2>1. /\ sPc = "lock" /\ sPc' = "idle" /\ b = Append(buf, sFrame)
        /\ UNCHANGED <<nFrames, end>>
    BY <1>5 DEF SStore
  <2>2. sFrame \in FrameRec /\ sFrame.id = nFrames /\ buf \in Seq(FrameRec) /\ nFrames \in Nat
    BY <1>0, <2>1 DEF HandInv
  <2>3. /\ b \in Seq(FrameRec) /\ Len(b) = n + 1 /\ b[n + 1] = sFrame
        /\ \A i \in 1 .. n : b[i] = buf[i]
        /\ n \in Nat
    BY <2>1, <2>2, AppendProperties
  <2>4. a + n + One(InWork) + 1 = nFrames + 1
    BY <1>1, <2>1 DEF Follows, Live, One
  <2>5. \A i \in 1 .. n : buf[i].id = a + (i - 1) + One(InWork)
    BY <1>1 DEF Follows
  <2>6. uPc \notin {"build", "buildQueue"}
    BY <2>1 DEF TeardownInv
  <2>7. HandInv'
    BY <1>0, <1>2, <2>1, <2>2, <2>3, <2>6 DEF HandInv
  <2>8. One(InWork) \in Int
    BY DEF One
  <2>9. \A i \in 1 .. n + 1 : b[i].id = a + (i - 1) + One(InWork)
    <3> HIDE DEF n, b
    <3> SUFFICES ASSUME NEW i \in 1 .. n + 1
                 PROVE  b[i].id = a + (i - 1) + One(InWork)
      OBVIOUS
    <3>1. CASE i \in 1 .. n
      BY <2>3, <2>5, <3>1
    <3>2. CASE i = n + 1
      BY <2>2, <2>3, <2>4, <2>8, <3>2
    <3> QED
      BY <2>3, <3>1, <3>2
  <2>10. a + (n + 1) + One(InWork) + 0 = nFrames + 1
    BY <2>3, <2>4, <2>8
  <2>11. Follows(a)'
    <3>1. \A i \in 1 .. Len(buf') : buf'[i].id = a + (i - 1) + One(InWork)'
      BY <1>2, <2>3, <2>9 DEF One
    <3>2. a + Len(buf') + One(InWork)' + One(sPc # "idle")' = nFrames' + 1
      BY <1>2, <2>1, <2>3, <2>10 DEF One
    <3> HIDE DEF b, n
    <3> QED
      BY <1>1, <1>2, <3>1, <3>2 DEF Follows
  <2> QED
    BY <2>7, <2>11
<1>6. CASE STestEnd \/ SFull \/ SWake
  <2>1. /\ UNCHANGED <<buf, nFrames, end>> /\ sPc # "idle"
        /\ sPc' # "idle" => UNCHANGED sFrame
        /\ sPc' = "idle" => end
        /\ sPc' = "lock" => ~end
    BY <1>6 DEF STestEnd, SFull, SWake, que
  <2>2. HandInv'
    BY <1>0, <1>2, <2>1 DEF HandInv
  <2>3. Follows(a)'
    BY <1>1, <1>2, <2>1 DEF Follows, Live, One
  <2> QED
    BY <2>2, <2>3
<1>7. CASE SEnd
  <2>1. UNCHANGED <<buf, sPc, sFrame, nFrames>> /\ end' /\ sPc = "idle"
    BY <1>7 DEF SEnd, srcv
  <2>2. HandInv' /\ Follows(a)'
    BY <1>0, <1>1, <1>2, <2>1 DEF HandInv, Follows, Live
  <2> QED
    BY <2>2
<1> QED
  BY <1>4, <1>5, <1>6, <1>7 DEF InPut

(* What the writer is after a frame. *)
LEMMA WrittenIs ==
  ASSUME NEW f \in Seq(FrameRec), NEW c \in Nat, NEW t \in Int, wFrame \in FrameRec
  PROVE  LET w == Written([frames |-> f, count |-> c, dvtime |-> t])
         IN  /\ w \in WriterRec
             /\ w.count = c + 1
             /\ w.frames = IF c % EveryNth = 0 THEN Append(f, wFrame) ELSE f
<1> DEFINE w0 == [frames |-> f, count |-> c, dvtime |-> t]
           g == IF c % EveryNth = 0 THEN Append(f, wFrame) ELSE f
           d == IF t = 0 THEN wFrame.time ELSE t
<1>1. Written(w0) = [frames |-> g, count |-> c + 1, dvtime |-> d]
  <2>1. /\ w0.frames = f /\ w0.count = c /\ w0.dvtime = t
        /\ DOMAIN w0 = {"frames", "count", "dvtime"}
    OBVIOUS
  <2>2. Written(w0) = [[[w0 EXCEPT !.frames = g] EXCEPT !.count = c + 1] EXCEPT !.dvtime = d]
    BY <2>1 DEF Written
  <2> HIDE DEF g, d
  <2> QED
    BY <2>2
<1>2. g \in Seq(FrameRec) /\ d \in Int /\ c + 1 \in Nat \ {0}
  <2>1. Append(f, wFrame) \in Seq(FrameRec)
    BY AppendProperties
  <2>2. wFrame.time \in Int
    BY DEF FrameRec
  <2> QED
    BY <2>1, <2>2
<1> HIDE DEF g, d, w0
<1>3. Written(w0) \in WriterRec /\ Written(w0).count = c + 1 /\ Written(w0).frames = g
  BY <1>1, <1>2 DEF WriterRec
<1> QED
  BY <1>3 DEF g, w0

(* A frame is written behind the EveryNth-th one before it. *)
LEMMA WriterGrows ==
  ASSUME NEW a \in Int, writer \in WriterRec, FileOK(writer.frames),
         wFrame \in FrameRec, wFrame.id = a, ~MustSplit,
         writer.frames[Len(writer.frames)].id + ((writer.count - 1) % EveryNth) + 1 = a
  PROVE  LET w == Written(writer)
         IN  /\ w \in WriterRec /\ FileOK(w.frames)
             /\ w.frames[Len(w.frames)].id + ((w.count - 1) % EveryNth) + 1 = a + 1
<1> DEFINE f == writer.frames
           c == writer.count
           w == Written(writer)
           n == Len(f)
<1>1. /\ f \in Seq(FrameRec) /\ c \in Nat \ {0} /\ writer.dvtime \in Int
      /\ writer = [frames |-> f, count |-> c, dvtime |-> writer.dvtime]
  BY DEF WriterRec
<1>2. /\ w \in WriterRec /\ w.count = c + 1
      /\ w.frames = IF c % EveryNth = 0 THEN Append(f, wFrame) ELSE f
  <2> DEFINE t == writer.dvtime
  <2>1. c \in Nat /\ t \in Int /\ writer = [frames |-> f, count |-> c, dvtime |-> t]
    BY <1>1
  <2> HIDE DEF f, c, t
  <2> QED
    BY <1>1, <2>1, WrittenIs
<1>3. n \in Nat /\ n >= 1 /\ n < MaxAVIFrames /\ MaxAVIFrames \in Nat
  BY <1>1, CaptureAssumption DEF FileOK, MustSplit
<1>4. /\ (c - 1) % EveryNth \in 0 .. EveryNth - 1
      /\ c % EveryNth = IF (c - 1) % EveryNth = EveryNth - 1 THEN 0 ELSE ((c - 1) % EveryNth) + 1
  <2>1. c - 1 \in Nat /\ (c - 1) + 1 = c
    BY <1>1
  <2> QED
    BY <2>1, ModStep, CaptureAssumption
<1>5. (w.count - 1) % EveryNth = c % EveryNth
  BY <1>1, <1>2
<1>6. \A i \in 1 .. n : f[i].id \in Nat
  <2>1. \A i \in 1 .. n : f[i] \in FrameRec
    BY <1>1
  <2> QED
    BY <2>1 DEF FrameRec
<1>7. \A i \in 1 .. n - 1 : f[i + 1].id = f[i].id + EveryNth
  BY DEF FileOK
<1>8. f[n].id + ((c - 1) % EveryNth) + 1 = a
  OBVIOUS
<1>9. EveryNth \in Nat
  BY CaptureAssumption
<1> DEFINE g == w.frames
           r == (c - 1) % EveryNth
<1>10. CASE c % EveryNth = 0
  <2>1. g = Append(f, wFrame)
    BY <1>2, <1>10
  <2>2. /\ g \in Seq(FrameRec) /\ Len(g) = n + 1 /\ g[n + 1] = wFrame
        /\ \A i \in 1 .. n : g[i] = f[i]
    BY <1>1, <2>1, AppendProperties
  <2>3. r = EveryNth - 1
    <3> HIDE DEF f, n, w
    <3> QED
      BY <1>4, <1>10
  <2>4. a = f[n].id + EveryNth
    <3>1. f[n].id \in Nat
      BY <1>3, <1>6
    <3> HIDE DEF f, n, w
    <3> QED
      BY <1>8, <1>9, <2>3, <3>1
  <2> HIDE DEF f, n, w, g
  <2>5. \A i \in 1 .. Len(g) - 1 : g[i + 1].id = g[i].id + EveryNth
    <3> SUFFICES ASSUME NEW i \in 1 .. n
                 PROVE  g[i + 1].id = g[i].id + EveryNth
      BY <1>3, <2>2
    <3>1. CASE i = n
      BY <1>3, <2>2, <2>4, <3>1
    <3>2. CASE i # n
      <4>1. i \in 1 .. n - 1 /\ i + 1 \in 1 .. n
        BY <1>3, <3>2
      <4> QED
        BY <1>7, <2>2, <4>1
    <3> QED
      BY <3>1, <3>2
  <2>6. g # <<>> /\ Len(g) <= MaxAVIFrames
    BY <1>3, <2>2
  <2>7. g[Len(g)].id + ((w.count - 1) % EveryNth) + 1 = a + 1
    BY <1>5, <1>10, <2>2
  <2> QED
    BY <1>2, <2>5, <2>6, <2>7 DEF FileOK, g, w
<1>11. CASE c % EveryNth # 0
  <2>1. g = f
    BY <1>2, <1>11
  <2>2. (w.count - 1) % EveryNth = r + 1 /\ r \in Int
    <3> HIDE DEF f, n, w
    <3> QED
      BY <1>4, <1>5, <1>9, <1>11
  <2>3. f[n].id \in Nat
    BY <1>3, <1>6
  <2>4. g[Len(g)].id + ((w.count - 1) % EveryNth) + 1 = a + 1
    <3>1. g[Len(g)] = f[n]
      BY <2>1
    <3> HIDE DEF f, n, w, g, r
    <3> QED
      BY <1>8, <2>2, <2>3, <3>1 DEF r
  <2>5. FileOK(g)
    BY <2>1
  <2> QED
    BY <1>2, <2>4, <2>5
<1> QED
  BY <1>10, <1>11

(* The first frame of a file. *)
LEMMA WriterOpens ==
  ASSUME NEW a \in Int, wFrame \in FrameRec, wFrame.id = a
  PROVE  LET w == Written(NewWriter)
         IN  /\ w \in WriterRec /\ FileOK(w.frames)
             /\ w.frames[Len(w.frames)].id + ((w.count - 1) % EveryNth) + 1 = a + 1
<1> DEFINE w == Written(NewWriter)
<1>1. EveryNth \in Nat \ {0} /\ 0 % EveryNth = 0
  BY CaptureAssumption
<1>2. <<>> \in Seq(FrameRec) /\ wFrame.time \in Int
  BY DEF FrameRec
<1>3. w \in WriterRec /\ w.count = 0 + 1 /\ w.frames = Append(<<>>, wFrame)
  BY <1>1, <1>2, WrittenIs DEF NewWriter
<1>4. w.frames = <<wFrame>> /\ Len(w.frames) = 1 /\ w.frames[1] = wFrame
  BY <1>3
<1> HIDE DEF w
<1>5. FileOK(w.frames)
  BY <1>4 DEF FileOK
<1>6. (w.count - 1) % EveryNth = 0
  BY <1>1, <1>3
<1> QED
  BY <1>3, <1>4, <1>5, <1>6 DEF w

(* A file that is closed joins the finished ones as it is. *)
LEMMA CloseKeeps ==
  ASSUME ClosedOK, OpenOK, writer # None, CloseAVIWriter
  PROVE  ClosedOK'
<1> DEFINE r == [frames |-> writer.frames, dvtime |-> writer.dvtime, verdict |-> "unchecked"]
           n == Len(finalized)
           g == finalized'
<1>1. r \in FileRec /\ r.frames = writer.frames /\ FileOK(writer.frames)
  <2>1. writer \in WriterRec /\ FileOK(writer.frames)
    BY DEF OpenOK
  <2>2. writer.frames \in Seq(FrameRec) /\ writer.dvtime \in Int
    BY <2>1 DEF WriterRec
  <2>3. r \in FileRec
    BY <2>2 DEF FileRec
  <2> QED
    BY <2>1, <2>3
<1>2. finalized \in Seq(FileRec) /\ g = Append(finalized, r)
      /\ \A i \in 1 .. n : FileOK(finalized[i].frames)
  BY DEF ClosedOK, CloseAVIWriter
<1> HIDE DEF r, n, g
<1>3. /\ g \in Seq(FileRec) /\ Len(g) = n + 1 /\ g[n + 1] = r /\ n \in Nat
      /\ \A i \in 1 .. n : g[i] = finalized[i]
  BY <1>1, <1>2, AppendProperties DEF n
<1>4. \A i \in 1 .. n + 1 : i \in 1 .. n \/ i = n + 1
  BY <1>3
<1>5. \A i \in 1 .. n + 1 : FileOK(g[i].frames)
  BY <1>1, <1>2, <1>3, <1>4
<1> QED
  BY <1>3, <1>5 DEF ClosedOK, g

(* A verdict changes nothing else of a finished file. *)
LEMMA VerdictKeepsFrames ==
  ASSUME finalized \in Seq(FileRec),
         \E v \in Verdicts : finalized' = [finalized EXCEPT ![wFile].verdict = v]
  PROVE  /\ finalized' \in Seq(FileRec) /\ Len(finalized') = Len(finalized)
         /\ \A i \in 1 .. Len(finalized) : finalized'[i].frames = finalized[i].frames
<1> DEFINE n == Len(finalized)
           g == finalized'
<1>1. PICK v \in Verdicts : g = [finalized EXCEPT ![wFile].verdict = v]
  OBVIOUS
<1>2. \A r \in FileRec : /\ [r EXCEPT !.verdict = v] \in FileRec
                         /\ [r EXCEPT !.verdict = v].frames = r.frames
  BY DEF FileRec
<1>3. finalized \in [1 .. n -> FileRec] /\ n \in Nat
  OBVIOUS
<1> HIDE DEF n
<1>4. g \in [1 .. n -> FileRec] /\ \A i \in 1 .. n : g[i].frames = finalized[i].frames
  BY <1>1, <1>2, <1>3
<1> HIDE DEF g
<1>5. g \in Seq(FileRec) /\ Len(g) = n
  BY <1>3, <1>4
<1> QED
  BY <1>4, <1>5 DEF g, n

(* The steps of the worker that leave frames and files as they are. *)
WorkerIdles ==
  \/ WStart \/ WTop \/ WEmpty \/ WTestEnd \/ WWake \/ WTimeout
  \/ WAfterFalse \/ WEos \/ WSignalLost \/ WSetFinished
  \/ WTest \/ WLimit \/ WReached \/ WTimed \/ WResetCounters
  \/ WTailCheck \/ WHash \/ WTailDone

(* Every other step of the worker is one of these. *)
LEMMA WorkerCases ==
  /\ Worker \/ WTimeout <=>
       WorkerIdles \/ WTake \/ WWrite \/ WPaused \/ WTailClose \/ WVerify
  /\ WorkerIdles => /\ UNCHANGED <<buf, wFrame, writer, finalized>>
                    /\ (InWork <=> InWork') /\ wPc' # "start"
  /\ Worker \/ WTimeout => UNCHANGED <<qUp, end, srcv, uPc>>
<1>1. Worker \/ WTimeout <=>
        WorkerIdles \/ WTake \/ WWrite \/ WPaused \/ WTailClose \/ WVerify
  BY DEF Worker, WorkerIdles
<1>2. WorkerIdles => /\ UNCHANGED <<buf, wFrame, writer, finalized>>
                     /\ (InWork <=> InWork') /\ wPc' # "start"
  BY DEF WorkerIdles, InWork, WStart, WTop, WEmpty, WTestEnd, WWake, WTimeout, WAfterFalse, WEos,
     WSignalLost, WSetFinished, WTest, WLimit, WReached, WTimed, WResetCounters, WTailCheck,
     WHash, WTailDone, WStep, out
<1>3. WorkerIdles \/ WTake \/ WWrite \/ WPaused \/ WTailClose \/ WVerify =>
        UNCHANGED <<qUp, end, srcv, uPc>>
  BY DEF WorkerIdles, WStart, WTop, WTake, WEmpty, WTestEnd, WWake, WTimeout, WAfterFalse, WEos,
     WSignalLost, WSetFinished, WTest, WWrite, WLimit, WReached, WTimed, WPaused, WResetCounters,
     WTailClose, WTailCheck, WVerify, WHash, WTailDone, Stays, que, ui
<1> QED
  BY <1>1, <1>2, <1>3

(* The worker takes the next frame and writes, skips or drops it. *)
LEMMA FilesWorker == TeardownInv /\ FilesInv /\ (Worker \/ WTimeout) => FilesInv'
<1> SUFFICES ASSUME TeardownInv, FilesInv, Worker \/ WTimeout
             PROVE  FilesInv'
  OBVIOUS
<1>0. HandInv /\ OpenOK /\ ClosedOK /\ nFrames \in Nat /\ Len(buf) \in Nat
  BY DEF FilesInv, HandInv
<1>1. PICK a \in Int : Follows(a)
  BY DEF FilesInv
<1>2. UNCHANGED <<end, sPc, sFrame, nFrames, uPc>> /\ (Live <=> Live')
  BY WorkerCases DEF srcv, Live
<1>3. One(InWork) \in Int /\ One(sPc # "idle") \in Int
  BY DEF One
<1>4. CASE WorkerIdles
  <2>1. HandInv' /\ OpenOK' /\ ClosedOK' /\ Follows(a)'
    BY <1>0, <1>1, <1>2, <1>4, WorkerCases DEF HandInv, OpenOK, ClosedOK, Follows, One
  <2> QED
    BY <2>1 DEF FilesInv
<1>5. CASE WTake
  <2> DEFINE b == buf'
             n == Len(buf)
  <2>1. /\ wPc = "get" /\ wPc' = "frame" /\ buf # <<>> /\ wFrame' = Head(buf)
        /\ b = Tail(buf) /\ UNCHANGED <<writer, finalized>>
    BY <1>5 DEF WTake, WStep, LaterFrames, out
  <2>2. buf \in Seq(FrameRec) /\ \A i \in 1 .. n : buf[i].id = a + (i - 1)
    BY <1>0, <1>1, <1>3, <2>1 DEF HandInv, Follows, One, InWork
  <2>3. /\ n >= 1 /\ wFrame' = buf[1] /\ b \in Seq(FrameRec) /\ Len(b) = n - 1
        /\ \A i \in 1 .. n - 1 : b[i] = buf[i + 1]
    BY <2>1, <2>2, HeadTailProperties
  <2>4. ~InWork /\ InWork'
    BY <2>1 DEF InWork
  <2>5. Live => a + n + 0 + One(sPc # "idle") = nFrames + 1
    BY <1>1, <2>4 DEF Follows, One
  <2>6. wFrame' \in FrameRec /\ wFrame'.id = a
    BY <2>2, <2>3
  <2>7. \A i \in 1 .. n - 1 : b[i].id = a + (i - 1) + 1
    <3> HIDE DEF b, n
    <3> SUFFICES ASSUME NEW i \in 1 .. n - 1
                 PROVE  b[i].id = a + (i - 1) + 1
      OBVIOUS
    <3>1. i + 1 \in 1 .. n
      BY <1>0, <2>3 DEF n
    <3> QED
      BY <2>2, <2>3, <3>1
  <2>8. HandInv' /\ OpenOK' /\ ClosedOK'
    BY <1>0, <1>2, <2>1, <2>3, <2>6 DEF HandInv, OpenOK, ClosedOK
  <2>9. Live' => a + Len(b) + One(InWork)' + One(sPc # "idle")' = nFrames' + 1
    <3> HIDE DEF b
    <3> QED
      BY <1>0, <1>2, <1>3, <2>3, <2>4, <2>5 DEF One
  <2>10. Follows(a)'
    <3>1. writer' # None =>
            writer'.frames[Len(writer'.frames)].id + ((writer'.count - 1) % EveryNth) + 1 = a
      BY <1>1, <2>1 DEF Follows
    <3>2. \A i \in 1 .. Len(b) : b[i].id = a + (i - 1) + One(InWork)'
      BY <2>3, <2>4, <2>7 DEF One
    <3> HIDE DEF b, n
    <3> QED
      BY <2>6, <2>9, <3>1, <3>2 DEF Follows, b
  <2> QED
    BY <2>8, <2>10 DEF FilesInv
<1>6. ASSUME wPc \in {"write", "close"}, buf' = buf, ~InWork', wPc' # "start", OpenOK', ClosedOK',
             writer' # None =>
               writer'.frames[Len(writer'.frames)].id + ((writer'.count - 1) % EveryNth) + 1 = a + 1
      PROVE  FilesInv'
  <2>1. InWork
    BY <1>6 DEF InWork
  <2>2. HandInv'
    BY <1>0, <1>2, <1>6 DEF HandInv
  <2>3. Follows(a + 1)'
    <3>1. \A i \in 1 .. Len(buf') : buf'[i].id = (a + 1) + (i - 1) + One(InWork)'
      BY <1>1, <1>6, <2>1 DEF Follows, One
    <3>2. Live' => (a + 1) + Len(buf') + One(InWork)' + One(sPc # "idle")' = nFrames' + 1
      BY <1>0, <1>1, <1>2, <1>3, <1>6, <2>1 DEF Follows, One
    <3> QED
      BY <1>6, <3>1, <3>2 DEF Follows
  <2>4. a + 1 \in Int
    OBVIOUS
  <2> QED
    BY <1>6, <2>2, <2>3, <2>4 DEF FilesInv
<1>7. CASE WWrite
  <2>1. wPc = "write" /\ wPc' = "limit" /\ buf' = buf /\ ~InWork'
    BY <1>7 DEF WWrite, WStep, InWork
  <2>2. wFrame \in FrameRec /\ wFrame.id = a
    BY <1>0, <1>1, <2>1 DEF HandInv, Follows, InWork
  <2> DEFINE Reached(w) == w.frames[Len(w.frames)].id + ((w.count - 1) % EveryNth) + 1
             Grown(w) == w \in WriterRec /\ FileOK(w.frames) /\ Reached(w) = a + 1
  <2>3. Grown(Written(NewWriter))
    BY <2>2, WriterOpens
  <2>4. writer # None /\ ~MustSplit => Grown(Written(writer))
    BY <1>0, <1>1, <2>2, WriterGrows DEF OpenOK, Follows
  <2>5. \/ writer # None /\ CloseAVIWriter /\ writer' = Written(NewWriter)
        \/ writer # None /\ ~MustSplit /\ KeepFiles /\ writer' = Written(writer)
        \/ writer = None /\ KeepFiles /\ writer' = Written(NewWriter)
    BY <1>7 DEF WWrite
  <2>6. ClosedOK'
    BY <1>0, <2>5, CloseKeeps DEF KeepFiles, ClosedOK
  <2>7. Grown(writer')
    <3> HIDE DEF Grown
    <3> QED
      BY <2>3, <2>4, <2>5
  <2>8. OpenOK' /\ Reached(writer') = a + 1
    BY <2>1, <2>7 DEF OpenOK
  <2> QED
    BY <1>6, <2>1, <2>6, <2>8
<1>8. CASE WPaused
  <2>1. /\ wPc = "close" /\ wPc' = "paused" /\ buf' = buf /\ ~InWork' /\ writer' = None
        /\ \/ writer # None /\ CloseAVIWriter
           \/ KeepFiles
    BY <1>8 DEF WPaused, WStep, InWork, CloseOpenWriter
  <2>2. ClosedOK' /\ OpenOK'
    BY <1>0, <2>1, CloseKeeps DEF KeepFiles, ClosedOK, OpenOK
  <2> QED
    BY <1>6, <2>1, <2>2
<1>9. CASE WTailClose
  <2>1. /\ wPc = "tail" /\ wPc' = "check" /\ UNCHANGED <<buf, wFrame>> /\ writer' = None
        /\ \/ writer # None /\ CloseAVIWriter
           \/ KeepFiles
    BY <1>9 DEF WTailClose, WStep, CloseOpenWriter
  <2>2. ClosedOK' /\ OpenOK'
    BY <1>0, <2>1, CloseKeeps DEF KeepFiles, ClosedOK, OpenOK
  <2>3. ~InWork /\ ~InWork'
    BY <2>1 DEF InWork
  <2>4. HandInv' /\ Follows(a)'
    BY <1>0, <1>1, <1>2, <2>1, <2>3 DEF HandInv, Follows, One
  <2> QED
    BY <2>2, <2>4 DEF FilesInv
<1>10. CASE WVerify
  <2>1. /\ wPc = "verify" /\ wPc' \in {"verify", "hash"} /\ UNCHANGED <<buf, wFrame, writer>>
        /\ \E v \in Verdicts : finalized' = [finalized EXCEPT ![wFile].verdict = v]
    BY <1>10 DEF WVerify, WStep, que
  <2>2. ~InWork /\ ~InWork' /\ wPc' # "start"
    BY <2>1 DEF InWork
  <2>3. HandInv' /\ Follows(a)' /\ OpenOK'
    BY <1>0, <1>1, <1>2, <2>1, <2>2 DEF HandInv, Follows, One, OpenOK
  <2>4. ClosedOK'
    BY <1>0, <2>1, VerdictKeepsFrames DEF ClosedOK
  <2> QED
    BY <2>3, <2>4 DEF FilesInv
<1> QED
  BY <1>4, <1>5, <1>7, <1>8, <1>9, <1>10, WorkerCases

(* A command drops the writer only together with what it would follow. *)
LEMMA FilesCommand == TeardownInv /\ FilesInv /\ (Commands \/ InCommand) => FilesInv'
<1> SUFFICES ASSUME TeardownInv, FilesInv, Commands \/ InCommand
             PROVE  FilesInv'
  OBVIOUS
<1>0. HandInv /\ OpenOK /\ ClosedOK /\ nFrames \in Nat
  BY DEF FilesInv, HandInv
<1>1. PICK a \in Int : Follows(a)
  BY DEF FilesInv
<1>2. ASSUME UNCHANGED <<sPc, sFrame, nFrames, buf, wFrame, writer, finalized>>,
             wPc' = wPc \/ (~InWork /\ wPc' = "none"), Live' => Live,
             uPc' \in {"build", "buildQueue"} => uPc \in {"build", "buildQueue"}
      PROVE  FilesInv'
  <2>1. InWork' <=> InWork
    BY <1>2 DEF InWork
  <2>2. HandInv' /\ Follows(a)'
    BY <1>0, <1>1, <1>2, <2>1 DEF HandInv, Follows, One
  <2>3. OpenOK' /\ ClosedOK'
    BY <1>0, <1>2 DEF OpenOK, ClosedOK
  <2> QED
    BY <2>2, <2>3 DEF FilesInv
<1> USE DEF UStep, que, srcv, wrk, out, ui, Live
<1>3. CASE Commands
  BY <1>2, <1>3 DEF Commands, OnCapture, OnEndCapture, OnReinitOrClose, Command
<1>4. CASE UStartTest \/ UStart \/ UStopTest \/ UStop \/ UFinalizeTest \/ UFinalize \/ UFinalizeState
  BY <1>2, <1>4 DEF UStartTest, UStart, UStopTest, UStop, UFinalizeTest, UFinalize, UFinalizeState
<1>5. CASE UFinalizeDone \/ UReport \/ UStopSource \/ USourceStopped \/ UEos \/ USetIdle
  BY <1>2, <1>5 DEF UFinalizeDone, UReport, UStopSource, USourceStopped, UEos, USetIdle
<1>6. CASE UJoin
  BY <1>2, <1>6 DEF UJoin, WorkerIsOut, InWork
<1>7. ASSUME wPc' = wPc, ~WorkerRuns, sPc = "idle", sPc' = "idle", buf' = <<>>, nFrames' = nFrames,
             writer = None, writer' = None, finalized' = finalized \/ finalized' = <<>>
      PROVE  FilesInv'
  <2>1. ~InWork'
    BY <1>7 DEF InWork, WorkerRuns
  <2>2. HandInv' /\ OpenOK'
    BY <1>0, <1>7, <2>1 DEF HandInv, OpenOK
  <2>5. ClosedOK'
    <3>1. CASE finalized' = finalized
      BY <1>0, <3>1 DEF ClosedOK
    <3>2. CASE finalized' = <<>>
      BY <3>2 DEF ClosedOK
    <3> QED
      BY <1>7, <3>1, <3>2
  <2>3. PICK c \in Int : c = nFrames + 1
    BY <1>0
  <2>4. Follows(c)'
    BY <1>0, <1>7, <2>1, <2>3 DEF Follows, One
  <2> QED
    BY <2>2, <2>4, <2>5 DEF FilesInv
<1>8. CASE UDestroy
  <2>1. ~WorkerRuns /\ sPc = "idle" /\ writer = None
    BY <1>8 DEF UDestroy, TeardownInv, WriterBelongsToWorker
  <2> QED
    BY <1>7, <1>8, <2>1 DEF UDestroy, CloseOpenWriter, KeepFiles
<1>9. CASE UBuildInput
  <2>1. ~WorkerRuns /\ sPc = "idle" /\ writer = None /\ buf = <<>>
    BY <1>0, <1>9 DEF UBuildInput, TeardownInv, WriterBelongsToWorker, HandInv
  <2> QED
    BY <1>7, <1>9, <2>1 DEF UBuildInput
<1>10. CASE UBuildQueue
  <2>1. ~WorkerRuns /\ sPc = "idle" /\ writer = None /\ buf = <<>>
    BY <1>0, <1>10 DEF UBuildQueue, TeardownInv, WriterBelongsToWorker, HandInv
  <2> QED
    BY <1>7, <1>10, <2>1 DEF UBuildQueue
<1>11. CASE UBuildRun \/ USetPaused
  BY <1>2, <1>11 DEF UBuildRun, USetPaused
<1>12. CASE UStartThread
  <2>1. ~WorkerRuns /\ writer = None
    BY <1>12 DEF UStartThread, TeardownInv, WriterBelongsToWorker
  <2>2. ~InWork /\ ~InWork'
    BY <1>12, <2>1 DEF UStartThread, InWork, WorkerRuns
  <2>3. HandInv' /\ OpenOK' /\ ClosedOK' /\ Follows(a)'
    BY <1>0, <1>1, <1>12, <2>1, <2>2 DEF UStartThread, HandInv, OpenOK, ClosedOK, Follows, One
  <2> QED
    BY <2>3 DEF FilesInv
<1> QED
  BY <1>3, <1>4, <1>5, <1>6, <1>8, <1>9, <1>10, <1>11, <1>12 DEF InCommand

(* FilesInv holds in every state. *)
LEMMA FilesInvariant == Spec => []FilesInv
<1>1. FilesInv /\ UNCHANGED vars => FilesInv'
  BY DEF FilesInv, HandInv, Follows, OpenOK, ClosedOK, InWork, Live,
         vars, ctl, que, srcv, wrk, out, ui
<1>2. TeardownInv /\ FilesInv /\ [Next]_vars => FilesInv'
  BY <1>1, FilesStreaming, FilesWorker, FilesCommand DEF Next
<1> QED
  BY InitFilesInv, TeardownInvariant, <1>2, PTL DEF Spec

-----------------------------------------------------------------------------
(* The recording times in the files. *)

(* In one file recording times that follow each other are near. *)
NearTimes(fs) ==
  \A i, j \in 1 .. Len(fs) : NextKnown(fs, i, j) =>
    /\ fs[j].time <= fs[i].time + Threshold
    /\ fs[i].time <= fs[j].time + Threshold

(* The last known time in a file is t. *)
LastKnown(fs, t) ==
  \A i \in 1 .. Len(fs) :
    fs[i].time > 0 /\ (\A k \in i + 1 .. Len(fs) : fs[k].time <= 0) => fs[i].time = t

(* oldTime is the last known time of the open file, and no file holds a jump. *)
TimesInv ==
  /\ dvTime \in Int /\ oldTime \in Int
  /\ dvTime > 0 => oldTime = dvTime
  /\ Threshold > 0 /\ EveryNth = 1 =>
       /\ \A i \in 1 .. Len(finalized) : NearTimes(finalized[i].frames)
       /\ writer # None => NearTimes(writer.frames) /\ LastKnown(writer.frames, oldTime)

(* A frame that does not split the file is near the last known time. *)
LEMMA NearGrows ==
  ASSUME NEW f \in Seq(FrameRec), wFrame \in FrameRec, Threshold > 0,
         dvTime \in Int, oldTime \in Int, dvTime > 0 => oldTime = dvTime,
         NearTimes(f), LastKnown(f, oldTime), ~ (Delta > Threshold)
  PROVE  /\ NearTimes(Append(f, wFrame))
         /\ LastKnown(Append(f, wFrame), IF wFrame.time > 0 THEN wFrame.time ELSE oldTime)
<1> DEFINE n == Len(f)
           g == Append(f, wFrame)
           t == wFrame.time
           o == IF t > 0 THEN t ELSE oldTime
<1>1. /\ Len(g) = n + 1 /\ g[n + 1] = wFrame /\ n \in Nat
      /\ \A i \in 1 .. n : g[i] = f[i]
  BY AppendProperties
<1>2. t \in Int /\ Threshold \in Nat
  BY CaptureAssumption DEF FrameRec
<1>3. \A i \in 1 .. n : f[i].time \in Int
  <2>1. \A i \in 1 .. n : f[i] \in FrameRec
    OBVIOUS
  <2> QED
    BY <2>1 DEF FrameRec
<1>4. t > 0 /\ oldTime > 0 => t <= oldTime + Threshold /\ oldTime <= t + Threshold
  BY <1>2 DEF Delta
<1> HIDE DEF n, g
<1>5. NearTimes(g)
  <2> SUFFICES ASSUME NEW i \in 1 .. n + 1, NEW j \in 1 .. n + 1, NextKnown(g, i, j)
               PROVE  /\ g[j].time <= g[i].time + Threshold
                      /\ g[i].time <= g[j].time + Threshold
    BY <1>1 DEF NearTimes
  <2>0. /\ i < j /\ g[i].time > 0 /\ g[j].time > 0
        /\ \A k \in i + 1 .. j - 1 : g[k].time <= 0
    BY DEF NextKnown
  <2>1. i \in 1 .. n /\ g[i] = f[i]
    BY <1>1, <2>0
  <2>2. CASE j # n + 1
    <3>1. j \in 1 .. n /\ g[j] = f[j]
      BY <1>1, <2>2
    <3>2. \A k \in i + 1 .. j - 1 : k \in 1 .. n /\ g[k] = f[k]
      BY <1>1, <2>1, <3>1
    <3>3. NextKnown(f, i, j)
      BY <2>0, <2>1, <3>1, <3>2 DEF NextKnown
    <3> QED
      BY <2>1, <3>1, <3>3 DEF NearTimes, n
  <2>3. CASE j = n + 1
    <3>1. \A k \in i + 1 .. n : f[k].time <= 0
      BY <1>1, <2>0, <2>1, <2>3
    <3>2. f[i].time = oldTime
      BY <2>0, <2>1, <3>1 DEF LastKnown, n
    <3> QED
      BY <1>1, <1>4, <2>0, <2>1, <2>3, <3>2
  <2> QED
    BY <2>2, <2>3
<1>6. LastKnown(g, o)
  <2> SUFFICES ASSUME NEW i \in 1 .. n + 1, g[i].time > 0,
                      \A k \in i + 1 .. n + 1 : g[k].time <= 0
               PROVE  g[i].time = o
    BY <1>1 DEF LastKnown
  <2>1. CASE i = n + 1
    BY <1>1, <2>1
  <2>2. CASE i # n + 1
    <3>1. i \in 1 .. n /\ g[i] = f[i] /\ n + 1 \in i + 1 .. n + 1
      BY <1>1, <2>2
    <3>2. ~ (t > 0)
      BY <1>1, <1>2, <3>1
    <3>3. \A k \in i + 1 .. n : f[k].time <= 0
      BY <1>1, <3>1
    <3>4. f[i].time = oldTime
      BY <3>1, <3>3 DEF LastKnown, n
    <3> QED
      BY <3>1, <3>2, <3>4
  <2> QED
    BY <2>1, <2>2
<1> QED
  BY <1>5, <1>6 DEF g

(* Any file may begin with any frame. *)
LEMMA NearOpens ==
  ASSUME wFrame \in FrameRec
  PROVE  /\ NearTimes(<<wFrame>>)
         /\ LastKnown(<<wFrame>>, IF wFrame.time > 0 THEN wFrame.time ELSE oldTime)
<1> DEFINE g == <<wFrame>>
<1>1. Len(g) = 1 /\ g[1] = wFrame
  OBVIOUS
<1> HIDE DEF g
<1>2. \A i \in 1 .. Len(g) : i = 1
  BY <1>1
<1>3. NearTimes(g)
  BY <1>1, <1>2 DEF NearTimes, NextKnown
<1>4. LastKnown(g, IF wFrame.time > 0 THEN wFrame.time ELSE oldTime)
  BY <1>1, <1>2 DEF LastKnown
<1> QED
  BY <1>3, <1>4 DEF g

(* The frames of a writer after a frame, when every frame is written. *)
LEMMA EveryFrameWritten ==
  ASSUME EveryNth = 1, wFrame \in FrameRec
  PROVE  /\ Written(NewWriter).frames = <<wFrame>>
         /\ writer \in WriterRec => Written(writer).frames = Append(writer.frames, wFrame)
<1>1. \A c \in Nat : c % EveryNth = 0
  OBVIOUS
<1>2. Written(NewWriter).frames = <<wFrame>>
  <2>1. <<>> \in Seq(FrameRec) /\ wFrame.time \in Int /\ 0 % EveryNth = 0
    BY <1>1 DEF FrameRec
  <2>2. Written(NewWriter).frames = Append(<<>>, wFrame)
    BY <2>1, WrittenIs DEF NewWriter
  <2> QED
    BY <2>2
<1>3. ASSUME writer \in WriterRec
      PROVE  Written(writer).frames = Append(writer.frames, wFrame)
  <2> DEFINE f == writer.frames
             c == writer.count
             t == writer.dvtime
  <2>1. /\ f \in Seq(FrameRec) /\ c \in Nat /\ t \in Int
        /\ writer = [frames |-> f, count |-> c, dvtime |-> t]
    BY <1>3 DEF WriterRec
  <2>2. c % EveryNth = 0
    BY <1>1, <2>1
  <2> HIDE DEF f, c, t
  <2>3. Written(writer).frames = Append(f, wFrame)
    BY <2>1, <2>2, WrittenIs
  <2> QED
    BY <2>3 DEF f
<1> QED
  BY <1>2, <1>3

(* The worker closes a file as it is, and remembers the last known time. *)
LEMMA TimesWorker == FilesInv /\ TimesInv /\ (Worker \/ WTimeout) => TimesInv'
<1> SUFFICES ASSUME FilesInv, TimesInv, Worker \/ WTimeout
             PROVE  TimesInv'
  OBVIOUS
<1>0. HandInv /\ OpenOK /\ ClosedOK
  BY DEF FilesInv
<1> DEFINE near == \A i \in 1 .. Len(finalized) : NearTimes(finalized[i].frames)
<1>1. ASSUME NEW fs \in Seq(FrameRec), writer # None, writer.frames = fs, near, NearTimes(fs),
             CloseAVIWriter
      PROVE  near'
  <2> DEFINE r == [frames |-> writer.frames, dvtime |-> writer.dvtime, verdict |-> "unchecked"]
             n == Len(finalized)
             g == finalized'
  <2>1. finalized \in Seq(FileRec) /\ g = Append(finalized, r) /\ r.frames = fs
    BY <1>0, <1>1 DEF ClosedOK, CloseAVIWriter
  <2>2. r \in FileRec
    <3>1. writer.frames \in Seq(FrameRec) /\ writer.dvtime \in Int
      BY <1>0, <1>1 DEF OpenOK, WriterRec
    <3> QED
      BY <3>1 DEF FileRec
  <2> HIDE DEF r
  <2>3. Len(g) = n + 1 /\ g[n + 1] = r /\ n \in Nat /\ \A i \in 1 .. n : g[i] = finalized[i]
    BY <2>1, <2>2, AppendProperties
  <2>4. \A i \in 1 .. n + 1 : i \in 1 .. n \/ i = n + 1
    BY <2>3
  <2> HIDE DEF g
  <2>5. \A i \in 1 .. n + 1 : NearTimes(g[i].frames)
    BY <1>1, <2>1, <2>3, <2>4
  <2> QED
    BY <2>3, <2>5 DEF g
<1>2. writer # None /\ CloseAVIWriter /\ Threshold > 0 /\ EveryNth = 1 => near'
  <2> SUFFICES ASSUME writer # None, CloseAVIWriter, Threshold > 0, EveryNth = 1
               PROVE  near'
    OBVIOUS
  <2>1. near /\ NearTimes(writer.frames)
    BY DEF TimesInv
  <2>2. writer.frames \in Seq(FrameRec)
    BY <1>0 DEF OpenOK, WriterRec
  <2> QED
    BY <1>1, <2>1, <2>2
<1>3. KeepFiles /\ Threshold > 0 /\ EveryNth = 1 => near'
  BY DEF KeepFiles, TimesInv
<1>4. ASSUME NoteTime, InWork
      PROVE  /\ dvTime' \in Int /\ oldTime' \in Int /\ (dvTime' > 0 => oldTime' = dvTime')
             /\ oldTime' = IF wFrame.time > 0 THEN wFrame.time ELSE oldTime
             /\ wFrame \in FrameRec
  <2>1. wFrame \in FrameRec /\ wFrame.time \in Int
    BY <1>0, <1>4 DEF HandInv, FrameRec
  <2> QED
    BY <1>4, <2>1 DEF NoteTime, TimesInv
<1>5. CASE WorkerIdles \/ WTake
  <2>1. CASE WStart
    <3>1. dvTime' = 0 /\ oldTime' = 0 /\ finalized' = finalized /\ writer' = None
      BY <1>0, <2>1 DEF WStart, WStep, OpenOK
    <3> QED
      BY <3>1 DEF TimesInv
  <2>2. CASE ~WStart
    <3>1. UNCHANGED <<dvTime, oldTime, writer, finalized>>
      BY <1>5, <2>2 DEF WorkerIdles, WTop, WTake, WEmpty, WTestEnd, WWake, WTimeout, WAfterFalse,
         WEos, WSignalLost, WSetFinished, WTest, WLimit, WReached, WTimed, WResetCounters,
         WTailCheck, WHash, WTailDone, out
    <3> QED
      BY <3>1 DEF TimesInv
  <2> QED
    BY <2>1, <2>2
<1>6. CASE WWrite
  <2>1. NoteTime /\ InWork
    BY <1>6 DEF WWrite, WStep, InWork
  <2>2. \/ writer # None /\ CloseAVIWriter /\ writer' = Written(NewWriter)
        \/ writer # None /\ ~MustSplit /\ KeepFiles /\ writer' = Written(writer)
        \/ writer = None /\ KeepFiles /\ writer' = Written(NewWriter)
    BY <1>6 DEF WWrite
  <2>3. ASSUME Threshold > 0, EveryNth = 1
        PROVE  /\ near'
               /\ NearTimes(writer'.frames) /\ LastKnown(writer'.frames, oldTime')
    <3>1. near'
      BY <1>2, <1>3, <2>2, <2>3
    <3>2. CASE writer' = Written(NewWriter)
      <4>1. writer'.frames = <<wFrame>>
        BY <1>4, <2>1, <2>3, <3>2, EveryFrameWritten
      <4> QED
        BY <1>4, <2>1, <3>1, <4>1, NearOpens
    <3>3. CASE writer # None /\ ~MustSplit /\ writer' = Written(writer)
      <4> DEFINE f == writer.frames
      <4>1. writer \in WriterRec /\ f \in Seq(FrameRec)
        BY <1>0, <3>3 DEF OpenOK, WriterRec
      <4>2. writer'.frames = Append(f, wFrame)
        BY <1>4, <2>1, <2>3, <3>3, <4>1, EveryFrameWritten
      <4>3. NearTimes(f) /\ LastKnown(f, oldTime) /\ ~ (Delta > Threshold)
            /\ dvTime \in Int /\ oldTime \in Int /\ (dvTime > 0 => oldTime = dvTime)
        BY <2>3, <3>3 DEF TimesInv, MustSplit
      <4> HIDE DEF f
      <4>4. /\ NearTimes(Append(f, wFrame))
            /\ LastKnown(Append(f, wFrame), IF wFrame.time > 0 THEN wFrame.time ELSE oldTime)
        BY <1>4, <2>1, <2>3, <4>1, <4>3, NearGrows
      <4> QED
        BY <1>4, <2>1, <3>1, <4>2, <4>4
    <3> QED
      BY <2>2, <3>2, <3>3
  <2> QED
    BY <1>4, <2>1, <2>3 DEF TimesInv
<1>7. CASE WPaused
  <2>1. NoteTime /\ InWork /\ writer' = None /\ ((writer # None /\ CloseAVIWriter) \/ KeepFiles)
    BY <1>7 DEF WPaused, WStep, InWork, CloseOpenWriter
  <2> QED
    BY <1>2, <1>3, <1>4, <2>1 DEF TimesInv
<1>8. CASE WTailClose
  <2>1. UNCHANGED <<dvTime, oldTime>> /\ writer' = None
        /\ ((writer # None /\ CloseAVIWriter) \/ KeepFiles)
    BY <1>8 DEF WTailClose, CloseOpenWriter
  <2> QED
    BY <1>2, <1>3, <2>1 DEF TimesInv
<1>9. CASE WVerify
  <2>1. UNCHANGED <<dvTime, oldTime, writer>>
        /\ \E v \in Verdicts : finalized' = [finalized EXCEPT ![wFile].verdict = v]
    BY <1>9 DEF WVerify
  <2>2. Len(finalized') = Len(finalized)
        /\ \A i \in 1 .. Len(finalized) : finalized'[i].frames = finalized[i].frames
    BY <1>0, <2>1, VerdictKeepsFrames
  <2> QED
    BY <2>1, <2>2 DEF TimesInv
<1> QED
  BY <1>5, <1>6, <1>7, <1>8, <1>9, WorkerCases

(* No other thread reads or writes recording times of a file. *)
LEMMA TimesOthers ==
  TeardownInv /\ TimesInv /\ (SFrame \/ SEnd \/ InPut \/ Commands \/ InCommand) => TimesInv'
<1> SUFFICES ASSUME TeardownInv, TimesInv, SFrame \/ SEnd \/ InPut \/ Commands \/ InCommand
             PROVE  TimesInv'
  OBVIOUS
<1>1. CASE UNCHANGED <<dvTime, oldTime, writer, finalized>>
  BY <1>1 DEF TimesInv
<1> USE DEF out
<1>2. CASE SFrame \/ SEnd \/ InPut
  BY <1>1, <1>2 DEF SFrame, SEnd, InPut, STestEnd, SStore, SFull, SWake
<1>3. CASE Commands
  BY <1>1, <1>3 DEF Commands, OnCapture, OnEndCapture, OnReinitOrClose
<1>4. CASE \/ UStartTest \/ UStart \/ UStopTest \/ UStop
           \/ UFinalizeTest \/ UFinalize \/ UFinalizeState \/ UFinalizeDone \/ UReport
           \/ UStopSource \/ USourceStopped \/ UEos \/ UJoin
           \/ USetIdle \/ UBuildQueue \/ UBuildRun \/ USetPaused \/ UStartThread
  BY <1>1, <1>4 DEF UStartTest, UStart, UStopTest, UStop, UFinalizeTest, UFinalize,
     UFinalizeState, UFinalizeDone, UReport, UStopSource, USourceStopped, UEos, UJoin,
     USetIdle, UBuildQueue, UBuildRun, USetPaused, UStartThread
<1>5. CASE UDestroy
  <2>1. writer = None
    BY <1>5 DEF UDestroy, UStep, TeardownInv, WriterBelongsToWorker, WorkerRuns
  <2> QED
    BY <1>1, <1>5, <2>1 DEF UDestroy, CloseOpenWriter, KeepFiles
<1>6. CASE UBuildInput
  <2>1. UNCHANGED <<dvTime, oldTime>> /\ writer' = writer /\ writer = None /\ finalized' = <<>>
    BY <1>6 DEF UBuildInput, UStep, TeardownInv, WriterBelongsToWorker, WorkerRuns
  <2> QED
    BY <2>1 DEF TimesInv
<1> QED
  BY <1>2, <1>3, <1>4, <1>5, <1>6 DEF InCommand

(* TimesInv holds in every state. *)
LEMMA TimesInvariant == Spec => []TimesInv
<1>1. Init => TimesInv
  BY DEF Init, TimesInv
<1>2. TimesInv /\ UNCHANGED vars => TimesInv'
  BY DEF TimesInv, vars, out
<1>3. TeardownInv /\ FilesInv /\ TimesInv /\ [Next]_vars => TimesInv'
  BY <1>2, TimesWorker, TimesOthers DEF Next
<1> QED
  BY <1>1, <1>3, TeardownInvariant, FilesInvariant, PTL DEF Spec

-----------------------------------------------------------------------------
(* What follows for the files of a session. *)

(* A file is a finished one or the open one. *)
LEMMA FilesAre ==
  ASSUME FilesInv, NEW n \in DOMAIN Files
  PROVE  \/ \E i \in 1 .. Len(finalized) : Files[n] = finalized[i].frames
         \/ writer # None /\ Files[n] = writer.frames
<1> DEFINE k == Len(finalized)
           closed == [i \in DOMAIN finalized |-> finalized[i].frames]
           open == IF writer = None THEN <<>> ELSE <<writer.frames>>
<1>1. finalized \in Seq(FileRec) /\ (writer # None => writer.frames \in Seq(FrameRec))
  BY DEF FilesInv, ClosedOK, OpenOK, WriterRec
<1>2. k \in Nat /\ DOMAIN finalized = 1 .. k
      /\ \A i \in 1 .. k : finalized[i].frames \in Seq(FrameRec)
  <2>1. \A i \in 1 .. k : finalized[i] \in FileRec
    BY <1>1
  <2> QED
    BY <1>1, <2>1 DEF FileRec
<1>3. closed \in Seq(Seq(FrameRec)) /\ Len(closed) = k
      /\ \A i \in 1 .. k : closed[i] = finalized[i].frames
  <2>1. closed \in [1 .. k -> Seq(FrameRec)]
    BY <1>2
  <2> HIDE DEF k
  <2> QED
    BY <1>2, <2>1
<1>4. open \in Seq(Seq(FrameRec))
      /\ (writer = None => Len(open) = 0)
      /\ (writer # None => Len(open) = 1 /\ open[1] = writer.frames)
  BY <1>1
<1> HIDE DEF closed, open, k
<1>5. /\ Len(closed \o open) = k + Len(open)
      /\ \A i \in 1 .. k + Len(open) :
           (closed \o open)[i] = IF i <= k THEN closed[i] ELSE open[i - k]
      /\ closed \o open \in Seq(Seq(FrameRec))
  BY <1>3, <1>4, ConcatProperties
<1>6. Files = closed \o open
  BY DEF Files, closed, open
<1>7. n \in 1 .. k + Len(open)
  BY <1>5, <1>6
<1>8. CASE n <= k
  <2>1. n \in 1 .. k /\ Files[n] = closed[n]
    BY <1>2, <1>5, <1>6, <1>7, <1>8
  <2> QED
    BY <1>3, <2>1 DEF k
<1>9. CASE ~ (n <= k)
  <2>1. Len(open) = 1 /\ writer # None
    BY <1>2, <1>4, <1>7, <1>9
  <2>2. n = k + 1 /\ n - k = 1
    BY <1>2, <1>7, <1>9, <2>1
  <2> QED
    BY <1>4, <1>5, <1>6, <1>7, <1>9, <2>1, <2>2
<1> QED
  BY <1>8, <1>9

(* What holds of the open writer and of the finished files holds of all files. *)
LEMMA FilesOK ==
  ASSUME FilesInv, NEW n \in DOMAIN Files
  PROVE  FileOK(Files[n])
BY FilesAre DEF FilesInv, ClosedOK, OpenOK

(* Every file holds each EveryNth-th frame from its first to its last, wherever
   the user paused, resumed, ended or closed, and the queue was full. *)
THEOREM FilesHaveNoHolesSafe == Spec => []FilesHaveNoHoles
<1>1. FilesInv => FilesHaveNoHoles
  BY FilesOK DEF FilesHaveNoHoles, FileOK
<1> QED
  BY FilesInvariant, <1>1, PTL

(* A file has a frame, and no more than m_maxAVIFrames unless it is one. *)
THEOREM FileLengthBoundedSafe == Spec => []FileLengthBounded
<1>1. FilesInv => FileLengthBounded
  BY FilesOK DEF FileLengthBounded, FileOK
<1> QED
  BY FilesInvariant, <1>1, PTL

(* Two recording times that follow each other in a file, with any number of
   undated frames between them, differ by the threshold at most. *)
THEOREM DiscontinuityStartsNewFileSafe == Spec => []DiscontinuityStartsNewFile
<1>1. ASSUME FilesInv, TimesInv
      PROVE  DiscontinuityStartsNewFile
  <2> SUFFICES ASSUME Threshold > 0, EveryNth = 1, NEW n \in DOMAIN Files
               PROVE  NearTimes(Files[n])
    <3>1. \A n \in DOMAIN Files : Files[n] \in Seq(FrameRec)
      <4>1. ASSUME NEW n \in DOMAIN Files
            PROVE  Files[n] \in Seq(FrameRec)
        <5>1. \A i \in 1 .. Len(finalized) : finalized[i] \in FileRec
          BY <1>1 DEF FilesInv, ClosedOK
        <5>2. \A i \in 1 .. Len(finalized) : finalized[i].frames \in Seq(FrameRec)
          BY <5>1 DEF FileRec
        <5>3. writer # None => writer.frames \in Seq(FrameRec)
          BY <1>1 DEF FilesInv, OpenOK, WriterRec
        <5> QED
          BY <1>1, <5>2, <5>3, FilesAre
      <4> QED
        BY <4>1
    <3>2. \A n \in DOMAIN Files : DOMAIN Files[n] = 1 .. Len(Files[n])
      BY <3>1
    <3> QED
      BY <3>2 DEF DiscontinuityStartsNewFile, NearTimes
  <2>1. \/ \E i \in 1 .. Len(finalized) : Files[n] = finalized[i].frames
        \/ writer # None /\ Files[n] = writer.frames
    BY <1>1, FilesAre
  <2> QED
    BY <1>1, <2>1 DEF TimesInv
<1> QED
  BY FilesInvariant, TimesInvariant, <1>1, PTL

-----------------------------------------------------------------------------
(* Progress and result. *)

(* How far the progress may be at each point of the worker. *)
PhaseInv ==
  /\ phase \in {"None", "Draining", "Mux", "Verify", "Hash", "Done"}
  /\ wPc \in {"verify", "hash"} => phase # "Done"
  /\ wPc \notin {"none", "exit", "verify", "hash"} => phase \in {"None", "Draining", "Mux"}
  /\ uPc \in {"buildQueue", "buildRun", "setPaused", "startThread"} => phase = "None"
  /\ uPc = "finalizeDone" => ~WorkerRuns

(* The progress runs forward in this step. *)
RunsForward == phase' \in {"None", "Draining"} \/ PhaseRank[phase'] >= PhaseRank[phase]

(* The UI thread resets the progress or moves it on. *)
LEMMA PhaseOthers ==
  TeardownInv /\ PhaseInv /\ (SFrame \/ SEnd \/ InPut \/ Commands \/ InCommand)
    => PhaseInv' /\ RunsForward
<1> SUFFICES ASSUME TeardownInv, PhaseInv, SFrame \/ SEnd \/ InPut \/ Commands \/ InCommand
             PROVE  PhaseInv' /\ RunsForward
  OBVIOUS
<1>0. phase' = phase => RunsForward
  BY DEF PhaseInv, RunsForward, PhaseRank
<1>1. CASE /\ UNCHANGED <<phase, wPc>>
           /\ \/ uPc' = uPc
              \/ uPc' \notin {"buildQueue", "buildRun", "setPaused", "startThread", "finalizeDone"}
  BY <1>0, <1>1 DEF PhaseInv, WorkerRuns
<1> USE DEF ctl, wrk, ui, UStep
<1>2. CASE SFrame \/ SEnd \/ InPut
  BY <1>1, <1>2 DEF SFrame, SEnd, InPut, STestEnd, SStore, SFull, SWake
<1>3. CASE Commands
  BY <1>1, <1>3 DEF Commands, OnCapture, OnEndCapture, OnReinitOrClose, Command
<1>4. CASE \/ UStartTest \/ UStart \/ UStopTest \/ UStop \/ UFinalizeTest
           \/ UFinalizeState \/ UReport \/ UStopSource \/ USourceStopped \/ UEos \/ USetIdle
  BY <1>1, <1>4 DEF UStartTest, UStart, UStopTest, UStop, UFinalizeTest, UFinalizeState, UReport,
     UStopSource, USourceStopped, UEos, USetIdle
<1>5. CASE UFinalize
  BY <1>5 DEF UFinalize, PhaseInv, RunsForward, WorkerRuns
<1>6. CASE UJoin
  <2>1. phase' = phase /\ wPc' = "none" /\ uPc' \in {"finalizeDone", "destroy"}
    BY <1>6 DEF UJoin
  <2> QED
    BY <1>0, <2>1 DEF PhaseInv, WorkerRuns
<1>7. CASE UFinalizeDone
  <2>1. phase' = "Done" /\ wPc' = wPc /\ ~WorkerRuns /\ uPc' = "report"
    BY <1>7 DEF UFinalizeDone, PhaseInv
  <2> QED
    BY <2>1 DEF PhaseInv, RunsForward, PhaseRank, WorkerRuns
<1>8. CASE UDestroy
  <2>1. writer = None /\ uNext \in {"ready", "closed", "build"}
    BY <1>8 DEF UDestroy, TeardownInv, WriterBelongsToWorker, WorkerRuns
  <2> QED
    BY <1>1, <1>8, <2>1 DEF UDestroy, CloseOpenWriter, KeepFiles
<1>9. CASE UBuildInput
  <2>1. phase' = "None" /\ wPc' = wPc /\ uPc' \in {"buildQueue", "ready"}
    BY <1>9 DEF UBuildInput
  <2> QED
    BY <2>1 DEF PhaseInv, RunsForward, WorkerRuns
<1>10. CASE UBuildQueue \/ UBuildRun \/ USetPaused
  <2>1. phase' = phase /\ wPc' = wPc /\ phase = "None" /\ uPc' # "finalizeDone"
    BY <1>10 DEF UBuildQueue, UBuildRun, USetPaused, PhaseInv
  <2> QED
    BY <1>0, <2>1 DEF PhaseInv, WorkerRuns
<1>11. CASE UStartThread
  <2>1. phase' = phase /\ wPc' = "start" /\ phase = "None" /\ uPc' = "ready"
    BY <1>11 DEF UStartThread, PhaseInv
  <2> QED
    BY <1>0, <2>1 DEF PhaseInv
<1> QED
  BY <1>2, <1>3, <1>4, <1>5, <1>6, <1>7, <1>8, <1>9, <1>10, <1>11 DEF InCommand

(* The worker moves the progress on through its tail. *)
LEMMA PhaseWorker == TeardownInv /\ PhaseInv /\ (Worker \/ WTimeout) => PhaseInv' /\ RunsForward
<1> SUFFICES ASSUME TeardownInv, PhaseInv, Worker \/ WTimeout
             PROVE  PhaseInv' /\ RunsForward
  OBVIOUS
<1>0. uPc' = uPc /\ wPc \notin {"none", "exit"}
      /\ uPc \notin {"buildQueue", "buildRun", "setPaused", "startThread", "finalizeDone"}
  <2>1. uPc' = uPc
    BY WorkerCases
  <2>2. wPc \notin {"none", "exit"}
    BY DEF Worker, WStart, WTop, WTake, WEmpty, WTestEnd, WWake, WTimeout, WAfterFalse, WEos,
       WSignalLost, WSetFinished, WTest, WWrite, WLimit, WReached, WTimed, WPaused,
       WResetCounters, WTailClose, WTailCheck, WVerify, WHash, WTailDone, WStep
  <2> QED
    BY <2>1, <2>2 DEF TeardownInv, PhaseInv, WorkerRuns
<1>1. /\ PhaseRank["None"] = 0 /\ PhaseRank["Draining"] = 1 /\ PhaseRank["Mux"] = 2
      /\ PhaseRank["Verify"] = 3 /\ PhaseRank["Hash"] = 4 /\ PhaseRank["Done"] = 5
  BY DEF PhaseRank
<1>2. phase' = phase => RunsForward
  BY <1>1 DEF PhaseInv, RunsForward
<1> USE DEF WStep, ctl
<1>3. CASE \/ WStart \/ WTop \/ WTake \/ WEmpty \/ WTestEnd \/ WWake \/ WTimeout
           \/ WAfterFalse \/ WEos \/ WSignalLost \/ WSetFinished
           \/ WTest \/ WLimit \/ WReached \/ WTimed \/ WResetCounters
  <2>1. phase' = phase /\ wPc' \notin {"none", "exit", "verify", "hash"}
        /\ wPc \notin {"none", "exit", "verify", "hash"}
    BY <1>3 DEF WStart, WTop, WTake, WEmpty, WTestEnd, WWake, WTimeout, WAfterFalse, WEos,
       WSignalLost, WSetFinished, WTest, WLimit, WReached, WTimed, WResetCounters
  <2> QED
    BY <1>0, <1>2, <2>1 DEF PhaseInv
<1>4. CASE WWrite \/ WPaused \/ WTailClose
  <2>1. /\ wPc' \notin {"none", "exit", "verify", "hash"}
        /\ wPc \notin {"none", "exit", "verify", "hash"}
        /\ phase' \in {phase, IF phase = "None" THEN "None" ELSE "Mux"}
    BY <1>4 DEF WWrite, WPaused, WTailClose, CloseOpenWriter, CloseAVIWriter, KeepFiles
  <2> QED
    BY <1>0, <1>1, <2>1 DEF PhaseInv, RunsForward
<1>5. CASE WTailCheck
  <2>1. /\ wPc = "check" /\ wPc' \in {"exit", "verify"}
        /\ phase' \in {phase, IF phase = "None" THEN "None" ELSE "Verify"}
    BY <1>5 DEF WTailCheck
  <2> QED
    BY <1>0, <1>1, <2>1 DEF PhaseInv, RunsForward
<1>6. CASE WVerify \/ WHash
  <2>1. /\ wPc \in {"verify", "hash"} /\ wPc' \in {"verify", "hash"}
        /\ phase' \in {phase, "Hash"}
    BY <1>6 DEF WVerify, WHash, PhaseWhileVerifying
  <2> QED
    BY <1>0, <1>1, <2>1 DEF PhaseInv, RunsForward
<1>7. CASE WTailDone
  <2>1. wPc = "verify" /\ wPc' = "exit" /\ phase' = "Done"
    BY <1>7 DEF WTailDone
  <2> QED
    BY <1>0, <1>1, <2>1 DEF PhaseInv, RunsForward
<1> QED
  BY <1>3, <1>4, <1>5, <1>6, <1>7 DEF Worker

(* The progress of End Capture never goes back: whatever the worker does while
   the UI thread begins, ends or abandons a capture. *)
THEOREM ProgressRunsForwardSafe == Spec => ProgressRunsForward
<1>1. Init => PhaseInv
  BY DEF Init, PhaseInv, WorkerRuns
<1>2. PhaseInv /\ UNCHANGED vars => PhaseInv'
  BY DEF PhaseInv, WorkerRuns, vars, ctl, wrk, ui
<1>3. TeardownInv /\ PhaseInv /\ [Next]_vars => PhaseInv' /\ [RunsForward]_vars
  BY <1>2, PhaseOthers, PhaseWorker DEF Next
<1>4. ProgressRunsForward <=> [][RunsForward]_vars
  BY DEF ProgressRunsForward, RunsForward
<1> QED
  BY <1>1, <1>3, <1>4, TeardownInvariant, PTL DEF Spec

(* Which files have been checked at each point of the worker. *)
CheckedBelow(k) == \A i \in 1 .. Len(finalized) : i < k => finalized[i].verdict # "unchecked"

(* A file is unchecked until the worker has passed it. *)
CheckInv ==
  /\ wFile \in Nat
  /\ wPc \in {"none", "exit"} => CheckedBelow(Len(finalized) + 1)
  /\ wPc \in {"verify", "hash"} => wFile >= 1 /\ CheckedBelow(wFile)
  /\ wPc = "hash" => wFile <= Len(finalized) /\ finalized[wFile].verdict # "unchecked"

(* The worker checks the files in the order of the list. *)
LEMMA CheckWorker == FilesInv /\ CheckInv /\ (Worker \/ WTimeout) => CheckInv'
<1> SUFFICES ASSUME FilesInv, CheckInv, Worker \/ WTimeout
             PROVE  CheckInv'
  OBVIOUS
<1> USE DEF WStep
<1>0. finalized \in Seq(FileRec) /\ Len(finalized) \in Nat /\ wFile \in Nat
  BY DEF FilesInv, ClosedOK, CheckInv
<1>1. CASE \/ WStart \/ WTop \/ WTake \/ WEmpty \/ WTestEnd \/ WWake \/ WTimeout
           \/ WAfterFalse \/ WEos \/ WSignalLost \/ WSetFinished
           \/ WTest \/ WWrite \/ WLimit \/ WReached \/ WTimed \/ WPaused \/ WResetCounters
           \/ WTailClose
  <2>1. wPc' \notin {"none", "exit", "verify", "hash"} /\ wFile' = wFile
    BY <1>1 DEF WStart, WTop, WTake, WEmpty, WTestEnd, WWake, WTimeout, WAfterFalse, WEos,
       WSignalLost, WSetFinished, WTest, WWrite, WLimit, WReached, WTimed, WPaused,
       WResetCounters, WTailClose
  <2> QED
    BY <2>1 DEF CheckInv
<1>2. CASE WTailCheck
  <2>1. finalized' = finalized /\ wFile' \in Nat
        /\ \/ finalized = <<>> /\ wPc' = "exit"
           \/ wPc' = "verify" /\ wFile' = 1
    BY <1>0, <1>2 DEF WTailCheck, out
  <2> QED
    BY <1>0, <2>1 DEF CheckInv, CheckedBelow
<1>3. CASE WVerify
  <2>1. PICK v \in Verdicts : finalized' = [finalized EXCEPT ![wFile].verdict = v]
    BY <1>3 DEF WVerify
  <2>2. /\ wPc = "verify" /\ wFile <= Len(finalized)
        /\ \/ wPc' = "hash" /\ wFile' = wFile
           \/ wPc' = "verify" /\ wFile' = wFile + 1
    BY <1>3 DEF WVerify
  <2>3. Len(finalized') = Len(finalized)
    BY <1>0, <2>1, VerdictKeepsFrames
  <2>4. wFile \in 1 .. Len(finalized) /\ CheckedBelow(wFile)
    BY <1>0, <2>2 DEF CheckInv
  <2>5. \A r \in FileRec : [r EXCEPT !.verdict = v].verdict = v
    BY DEF FileRec
  <2>6. finalized'[wFile].verdict = v
    BY <1>0, <2>1, <2>4, <2>5
  <2>7. \A i \in 1 .. Len(finalized) : i # wFile => finalized'[i] = finalized[i]
    BY <1>0, <2>1
  <2>8. v # "unchecked"
    BY DEF Verdicts
  <2>9. \A i \in 1 .. Len(finalized) : i < wFile + 1 => finalized'[i].verdict # "unchecked"
    BY <1>0, <2>4, <2>6, <2>7, <2>8 DEF CheckedBelow
  <2>10. wPc' = "hash" => wFile' = wFile /\ finalized'[wFile'].verdict # "unchecked"
    BY <2>2, <2>6, <2>8
  <2> QED
    BY <1>0, <2>2, <2>3, <2>4, <2>9, <2>10 DEF CheckInv, CheckedBelow
<1>4. CASE WHash
  <2>1. wPc = "hash" /\ wPc' = "verify" /\ wFile' = wFile + 1 /\ finalized' = finalized
    BY <1>4 DEF WHash, out
  <2> QED
    BY <1>0, <2>1 DEF CheckInv, CheckedBelow
<1>5. CASE WTailDone
  <2>1. wPc = "verify" /\ wPc' = "exit" /\ wFile' = wFile /\ finalized' = finalized
        /\ wFile > Len(finalized)
    BY <1>5 DEF WTailDone, out
  <2> QED
    BY <1>0, <2>1 DEF CheckInv, CheckedBelow
<1> QED
  BY <1>1, <1>2, <1>3, <1>4, <1>5 DEF Worker

(* The list of finished files is dropped only when the worker is gone. *)
LEMMA CheckOthers ==
  TeardownInv /\ CheckInv /\ (SFrame \/ SEnd \/ InPut \/ Commands \/ InCommand) => CheckInv'
<1> SUFFICES ASSUME TeardownInv, CheckInv, SFrame \/ SEnd \/ InPut \/ Commands \/ InCommand
             PROVE  CheckInv'
  OBVIOUS
<1>1. CASE UNCHANGED <<wPc, wFile, finalized>>
  BY <1>1 DEF CheckInv, CheckedBelow
<1> USE DEF out, wrk, UStep
<1>2. CASE SFrame \/ SEnd \/ InPut
  BY <1>1, <1>2 DEF SFrame, SEnd, InPut, STestEnd, SStore, SFull, SWake
<1>3. CASE Commands
  BY <1>1, <1>3 DEF Commands, OnCapture, OnEndCapture, OnReinitOrClose
<1>4. CASE \/ UStartTest \/ UStart \/ UStopTest \/ UStop
           \/ UFinalizeTest \/ UFinalize \/ UFinalizeState \/ UFinalizeDone \/ UReport
           \/ UStopSource \/ USourceStopped \/ UEos
           \/ USetIdle \/ UBuildQueue \/ UBuildRun \/ USetPaused
  BY <1>1, <1>4 DEF UStartTest, UStart, UStopTest, UStop, UFinalizeTest, UFinalize,
     UFinalizeState, UFinalizeDone, UReport, UStopSource, USourceStopped, UEos,
     USetIdle, UBuildQueue, UBuildRun, USetPaused
<1>5. CASE UJoin
  <2>1. wPc \in {"none", "exit"} /\ wPc' = "none" /\ UNCHANGED <<wFile, finalized>>
    BY <1>5 DEF UJoin, WorkerIsOut
  <2> QED
    BY <2>1 DEF CheckInv, CheckedBelow
<1>6. CASE UDestroy
  <2>1. writer = None
    BY <1>6 DEF UDestroy, TeardownInv, WriterBelongsToWorker, WorkerRuns
  <2> QED
    BY <1>1, <1>6, <2>1 DEF UDestroy, CloseOpenWriter, KeepFiles
<1>7. CASE UBuildInput
  <2>1. ~WorkerRuns /\ UNCHANGED <<wPc, wFile>> /\ finalized' = <<>>
    BY <1>7 DEF UBuildInput, TeardownInv
  <2> QED
    BY <2>1 DEF CheckInv, CheckedBelow, WorkerRuns
<1>8. CASE UStartThread
  BY <1>8 DEF UStartThread, CheckInv
<1> QED
  BY <1>2, <1>3, <1>4, <1>5, <1>6, <1>7, <1>8 DEF InCommand

(* CheckInv holds in every state. *)
LEMMA CheckInvariant == Spec => []CheckInv
<1>1. Init => CheckInv
  BY DEF Init, CheckInv, CheckedBelow
<1>2. CheckInv /\ UNCHANGED vars => CheckInv'
  BY DEF CheckInv, CheckedBelow, vars, wrk, out
<1>3. TeardownInv /\ FilesInv /\ CheckInv /\ [Next]_vars => CheckInv'
  BY <1>2, CheckWorker, CheckOthers DEF Next
<1> QED
  BY <1>1, <1>3, TeardownInvariant, FilesInvariant, PTL DEF Spec

-----------------------------------------------------------------------------
(* The end of the stream, when no source ends by itself. *)

(* StartCapturing, StopCapturing or FinalizeCapturing has not yet left the state. *)
InCapture == uPc \in {"startTest", "start", "stopTest", "stop", "finalizeTest", "finalize",
                      "setFinalizing", "setDiscarding"}

(* m_end is set by End Capture behind the stop of the source, and by Destroy. *)
DrainInv ==
  /\ InCapture \/ uPc \in {"finalizeStop", "finalizeEos", "buildRun", "setPaused", "startThread"} =>
       ~end
  /\ uPc = "ready" /\ state \in {"CapturePaused", "Capturing"} => ~end
  /\ state = "CaptureFinalizing" /\ end => sPc = "idle" /\ src # "running"
  /\ uPc \in {"finalizeEos", "finalizeJoin", "finalizeDone"} => sPc = "idle" /\ src # "running"
  /\ uPc \in {"destroyEos", "destroyStop", "destroyJoin", "destroy",
              "build", "buildQueue", "buildRun", "setPaused"} => state \in {"Idle", "Finished"}

(* The streaming thread sets no flag. *)
LEMMA DrainStreaming == ~SourceEnds /\ DrainInv /\ (SFrame \/ SEnd \/ InPut) => DrainInv'
<1> SUFFICES ASSUME ~SourceEnds, DrainInv, SFrame \/ SEnd \/ InPut
             PROVE  DrainInv'
  OBVIOUS
<1> USE DEF DrainInv, InCapture, ctl, que, ui, SStep
<1>1. CASE SFrame
  BY <1>1 DEF SFrame
<1>2. CASE STestEnd \/ SStore
  BY <1>2 DEF STestEnd, SStore
<1>3. CASE SFull \/ SWake
  BY <1>3 DEF SFull, SWake
<1> QED
  BY <1>1, <1>2, <1>3 DEF InPut, SEnd

(* The worker writes no other state than Finished. *)
LEMMA WorkerWritesFinished == Worker \/ WTimeout => state' = state \/ state' = "Finished"
BY DEF Worker, WStart, WTop, WTake, WEmpty, WTestEnd, WWake, WTimeout, WAfterFalse, WEos,
   WSignalLost, WSetFinished, WTest, WWrite, WLimit, WReached, WTimed, WPaused,
   WResetCounters, WTailClose, WTailCheck, WVerify, WHash, WTailDone, ctl

(* The worker moves neither the source nor the UI thread. *)
LEMMA DrainWorker == DrainInv /\ (Worker \/ WTimeout) => DrainInv'
BY WorkerCases, WorkerWritesFinished DEF DrainInv, InCapture, srcv

(* End Capture sets m_end behind the stop of the source. *)
LEMMA DrainCommand == TeardownInv /\ DrainInv /\ (Commands \/ InCommand) => DrainInv'
<1> SUFFICES ASSUME TeardownInv, DrainInv, Commands \/ InCommand
             PROVE  DrainInv'
  OBVIOUS
<1> USE DEF DrainInv, InCapture, ctl, que, srcv, ui, UStep
<1>1. CASE Commands
  BY <1>1 DEF Commands, OnCapture, OnEndCapture, OnReinitOrClose, Command
<1>2. CASE UStartTest \/ UStart \/ UStopTest \/ UStop
  BY <1>2 DEF UStartTest, UStart, UStopTest, UStop
<1>3. CASE UFinalizeTest \/ UFinalize \/ UFinalizeState
  BY <1>3 DEF UFinalizeTest, UFinalize, UFinalizeState
<1>4. CASE UFinalizeDone \/ UReport \/ USetIdle
  BY <1>4 DEF UFinalizeDone, UReport, USetIdle
<1>5. CASE UStopSource \/ USourceStopped
  BY <1>5 DEF UStopSource, USourceStopped, StreamingThreadIsOut
<1>6. CASE UEos
  BY <1>6 DEF UEos
<1>7. CASE UJoin
  BY <1>7 DEF UJoin
<1>8. CASE UDestroy
  BY <1>8 DEF UDestroy, TeardownInv
<1>9. CASE UBuildInput
  BY <1>9 DEF UBuildInput
<1>10. CASE UBuildQueue
  BY <1>10 DEF UBuildQueue
<1>11. CASE UBuildRun
  BY <1>11 DEF UBuildRun
<1>12. CASE USetPaused \/ UStartThread
  BY <1>12 DEF USetPaused, UStartThread
<1> QED
  BY <1>1, <1>2, <1>3, <1>4, <1>5, <1>6, <1>7, <1>8, <1>9, <1>10, <1>11, <1>12 DEF InCommand

(* DrainInv holds in every state when the source does not end by itself. *)
LEMMA DrainInvariant ==
  ASSUME ~SourceEnds
  PROVE  Spec => []DrainInv
<1>1. Init => DrainInv
  BY DEF Init, DrainInv, InCapture
<1>2. DrainInv /\ UNCHANGED vars => DrainInv'
  BY DEF DrainInv, InCapture, vars, ctl, que, srcv, ui
<1>3. TeardownInv /\ DrainInv /\ [Next]_vars => DrainInv'
  BY <1>2, DrainStreaming, DrainWorker, DrainCommand DEF Next
<1> QED
  BY <1>1, <1>3, TeardownInvariant, PTL DEF Spec

(* A source that does not end by itself loses no frame in Put from the moment
   End Capture decided to keep what is queued: it is stopped first. *)
THEOREM NoFrameDroppedSafe ==
  ASSUME ~SourceEnds
  PROVE  Spec => NoFrameDroppedWhileFinalizing
<1> DEFINE Kept == state = "CaptureFinalizing" => ~ (sFrame # None /\ sFrame' = None /\ buf' = buf)
<1>1. ASSUME FilesInv, DrainInv, [Next]_vars
      PROVE  [Kept]_vars
  <2> SUFFICES ASSUME Next, state = "CaptureFinalizing", sFrame' = None, buf' = buf
               PROVE  sFrame = None
    BY <1>1
  <2>1. CASE STestEnd
    <3>1. sPc = "test" /\ (end \/ sFrame' = sFrame)
      BY <2>1 DEF STestEnd, SStep
    <3> QED
      BY <1>1, <3>1 DEF DrainInv
  <2>2. CASE SStore
    <3>1. buf' = Append(buf, sFrame) /\ sPc = "lock"
      BY <2>2 DEF SStore, SStep
    <3>2. buf \in Seq(FrameRec) /\ sFrame \in FrameRec
      BY <1>1, <3>1 DEF FilesInv, HandInv
    <3>3. Len(buf') = Len(buf) + 1 /\ Len(buf) \in Nat
      BY <3>1, <3>2, AppendProperties
    <3> QED
      BY <3>3
  <2>3. CASE SFrame
    <3>1. \E t \in Times : sFrame' = [id |-> nFrames', time |-> t]
      BY <2>3 DEF SFrame
    <3> QED
      BY <3>1 DEF None
  <2>4. CASE SEnd \/ SFull \/ SWake
    BY <2>4 DEF SEnd, SFull, SWake, srcv
  <2>5. CASE Worker \/ WTimeout
    BY <2>5, WorkerCases DEF srcv
  <2>6. CASE Commands \/ InCommand
    BY <2>6 DEF Commands, OnCapture, OnEndCapture, OnReinitOrClose, InCommand, UStartTest, UStart,
       UStopTest, UStop, UFinalizeTest, UFinalize, UFinalizeState, UFinalizeDone, UReport,
       UStopSource, USourceStopped, UEos, UJoin, USetIdle, UDestroy, UBuildInput, UBuildQueue,
       UBuildRun, USetPaused, UStartThread, srcv
  <2> QED
    BY <2>1, <2>2, <2>3, <2>4, <2>5, <2>6 DEF Next, InPut
<1>2. NoFrameDroppedWhileFinalizing <=> [][Kept]_vars
  BY DEF NoFrameDroppedWhileFinalizing
<1> QED
  BY <1>1, <1>2, FilesInvariant, DrainInvariant, PTL DEF Spec

(* Without a time limit, a timeout or a source that ends by itself the worker
   does not leave Capturing, so that End Capture, once begun, waits for it. *)
QuietInv ==
  /\ captureTime = 0 /\ wPc \notin {"reached", "timed", "late"}
  /\ wPc \in {"false", "eos", "setFinished"} => end
  /\ InCapture => state \in {"CapturePaused", "Capturing"}
  /\ uPc \in {"finalizeDone", "report"} => wPc = "none"

(* The worker leaves its loop only when the UI thread has ended the queue. *)
LEMMA QuietWorker ==
  ~AutoStop /\ TeardownInv /\ DrainInv /\ QuietInv /\ (Worker \/ WTimeout) => QuietInv'
<1> SUFFICES ASSUME ~AutoStop, TeardownInv, DrainInv, QuietInv, Worker \/ WTimeout
             PROVE  QuietInv'
  OBVIOUS
<1>1. UNCHANGED <<end, uPc>>
  BY WorkerCases
<1>2. wPc \notin {"none", "exit"}
  BY DEF Worker, WStart, WTop, WTake, WEmpty, WTestEnd, WWake, WTimeout, WAfterFalse, WEos,
     WSignalLost, WSetFinished, WTest, WWrite, WLimit, WReached, WTimed, WPaused,
     WResetCounters, WTailClose, WTailCheck, WVerify, WHash, WTailDone, WStep
<1>3. wPc' \notin {"reached", "timed", "late"} /\ captureTime' = 0
  BY DEF Worker, WStart, WTop, WTake, WEmpty, WTestEnd, WWake, WTimeout, WAfterFalse, WEos,
     WSignalLost, WSetFinished, WTest, WWrite, WLimit, WReached, WTimed, WPaused,
     WResetCounters, WTailClose, WTailCheck, WVerify, WHash, WTailDone, WStep, QuietInv, ctl
<1>4. wPc' \in {"false", "eos", "setFinished"} => end
  BY DEF Worker, WStart, WTop, WTake, WEmpty, WTestEnd, WWake, WTimeout, WAfterFalse, WEos,
     WSignalLost, WSetFinished, WTest, WWrite, WLimit, WReached, WTimed, WPaused,
     WResetCounters, WTailClose, WTailCheck, WVerify, WHash, WTailDone, WStep, QuietInv
<1>5. state' = state \/ end
  BY DEF Worker, WStart, WTop, WTake, WEmpty, WTestEnd, WWake, WTimeout, WAfterFalse, WEos,
     WSignalLost, WSetFinished, WTest, WWrite, WLimit, WReached, WTimed, WPaused,
     WResetCounters, WTailClose, WTailCheck, WVerify, WHash, WTailDone, WStep, QuietInv, ctl
<1> QED
  BY <1>1, <1>2, <1>3, <1>4, <1>5 DEF QuietInv, DrainInv, InCapture

(* The UI thread reports only after it joined the worker. *)
LEMMA QuietOthers ==
  Limits = {0} /\ ~SourceEnds /\ TeardownInv /\ QuietInv
    /\ (SFrame \/ SEnd \/ InPut \/ Commands \/ InCommand) => QuietInv'
<1> SUFFICES ASSUME Limits = {0}, ~SourceEnds, TeardownInv, QuietInv,
                    SFrame \/ SEnd \/ InPut \/ Commands \/ InCommand
             PROVE  QuietInv'
  OBVIOUS
<1> USE DEF QuietInv, InCapture, ctl, que, wrk, ui, UStep
<1>1. CASE SFrame \/ SEnd \/ InPut
  BY <1>1 DEF SFrame, SEnd, InPut, STestEnd, SStore, SFull, SWake
<1>2. CASE Commands
  BY <1>2 DEF Commands, OnCapture, OnEndCapture, OnReinitOrClose, Command
<1>3. CASE UStartTest \/ UStart \/ UStopTest \/ UStop
  BY <1>3 DEF UStartTest, UStart, UStopTest, UStop
<1>4. CASE UFinalizeTest \/ UFinalize \/ UFinalizeState
  BY <1>4 DEF UFinalizeTest, UFinalize, UFinalizeState
<1>5. CASE UFinalizeDone \/ UReport \/ USetIdle \/ UStopSource \/ USourceStopped \/ UEos
  BY <1>5 DEF UFinalizeDone, UReport, USetIdle, UStopSource, USourceStopped, UEos
<1>6. CASE UJoin \/ UDestroy
  BY <1>6 DEF UJoin, WorkerIsOut, UDestroy, TeardownInv
<1>7. CASE UBuildInput
  BY <1>7 DEF UBuildInput
<1>8. CASE UBuildQueue
  BY <1>8 DEF UBuildQueue, TeardownInv, WorkerRuns
<1>9. CASE UBuildRun \/ USetPaused \/ UStartThread
  BY <1>9 DEF UBuildRun, USetPaused, UStartThread
<1> QED
  BY <1>1, <1>2, <1>3, <1>4, <1>5, <1>6, <1>7, <1>8, <1>9 DEF InCommand

(* In a capture that nothing but the user ends, the verification result that
   End Capture reports is read when every file was closed and checked, and the
   worker is gone. *)
THEOREM ReportAfterVerificationSafe ==
  ASSUME Limits = {0}, ~AutoStop, ~SourceEnds
  PROVE  Spec => []ReportAfterVerification
<1>1. Init => QuietInv
  BY DEF Init, QuietInv, InCapture
<1>2. QuietInv /\ UNCHANGED vars => QuietInv'
  BY DEF QuietInv, InCapture, vars, ctl, que, wrk, ui
<1>3. TeardownInv /\ DrainInv /\ QuietInv /\ [Next]_vars => QuietInv'
  BY <1>2, QuietWorker, QuietOthers DEF Next
<1>4. TeardownInv /\ FilesInv /\ CheckInv /\ QuietInv => ReportAfterVerification
  <2> SUFFICES ASSUME TeardownInv, FilesInv, CheckInv, QuietInv, uPc = "report"
               PROVE  /\ ~WorkerRuns /\ writer = None
                      /\ \A i \in DOMAIN finalized : finalized[i].verdict # "unchecked"
    BY DEF ReportAfterVerification
  <2>1. wPc = "none" /\ ~WorkerRuns /\ writer = None
    BY DEF QuietInv, WorkerRuns, TeardownInv, WriterBelongsToWorker
  <2>2. DOMAIN finalized = 1 .. Len(finalized) /\ Len(finalized) \in Nat
    BY DEF FilesInv, ClosedOK
  <2> QED
    BY <2>1, <2>2 DEF CheckInv, CheckedBelow
<1>5. Spec => []DrainInv
  BY DrainInvariant
<1> QED
  BY <1>1, <1>3, <1>4, <1>5, TeardownInvariant, FilesInvariant, CheckInvariant, PTL DEF Spec
=============================================================================
