--------------------------- MODULE RecordingProofs ---------------------------
(***************************************************************************)
(* Proofs about a record session for every capacity, list of files and     *)
(* number of commands: Destroy frees nothing that a thread still uses, the *)
(* frames of all files reach the device in order, the end of the stream is *)
(* behind the last of them, and a pause holds.                             *)
(*                                                                         *)
(* RecordInv is the inductive invariant; its parts are                     *)
(*   TeardownInv  what is built and which threads run, see Recording       *)
(*   ReaderInv    how far the open file has been read                      *)
(*   JoinerInv    when the joiner is woken, and what it then finds         *)
(*   SentInv      the frame behind the worker's buffer and those sent      *)
(*   QueueInv     the frames between that one and the last one read        *)
(*   PauseInv     what may still be sent while paused                      *)
(***************************************************************************)
EXTENDS Recording, InductionFacts

(* At first nothing is built and no thread runs. *)
LEMMA InitTeardownInv == Init => TeardownInv
BY DEF Init, TeardownInv, Building, Unbuilt

(* A step of the streaming thread: it leaves idle only while the graph runs. *)
LEMMA StreamingTeardown == TeardownInv /\ Streaming => TeardownInv'
<1> SUFFICES ASSUME TeardownInv, Streaming
             PROVE  TeardownInv'
  OBVIOUS
<1> USE DEF TeardownInv, que, join, read, strm, wrk, ui, SStep
<1>1. CASE SFrame
  BY <1>1 DEF SFrame
<1>2. CASE SHandle \/ STestEnd
  BY <1>2 DEF SHandle, STestEnd
<1>3. CASE SStore \/ SFull
  BY <1>3 DEF SStore, SFull
<1>4. CASE SWake
  BY <1>4 DEF SWake
<1>5. CASE SFileEnd
  BY <1>5 DEF SFileEnd
<1>6. CASE SFileEndHandle \/ SFileEndSignal
  BY <1>6 DEF SFileEndHandle, SFileEndSignal, WakeJoiner
<1> QED
  BY <1>1, <1>2, <1>3, <1>4, <1>5, <1>6 DEF Streaming

(* A step of JoinerThread: while it is not out, Stop is not past its wait. *)
LEMMA JoinerTeardown == TeardownInv /\ Joiner => TeardownInv'
<1> SUFFICES ASSUME TeardownInv, Joiner
             PROVE  TeardownInv'
  OBVIOUS
<1> USE DEF TeardownInv, que, join, read, strm, wrk, ui, JStep
<1>1. CASE JWake \/ JTest
  BY <1>1 DEF JWake, JTest
<1>2. CASE JDelete
  BY <1>2 DEF JDelete
<1>3. CASE JOpen
  BY <1>3 DEF JOpen, NextCurrent
<1>4. CASE JEnd
  BY <1>4 DEF JEnd
<1> QED
  BY <1>1, <1>2, <1>3, <1>4 DEF Joiner

(* A step of RecordingThread: it changes nothing that is built or deleted. *)
LEMMA WorkerTeardown == TeardownInv /\ Worker => TeardownInv'
<1> SUFFICES ASSUME TeardownInv, Worker
             PROVE  TeardownInv'
  OBVIOUS
<1>1. /\ UNCHANGED <<qUp, jUp, cur, jPc, file, running, sPc, uPc, uNext>>
      /\ wPc \notin {"none", "exit"}
  BY DEF Worker, WTake, WEmpty, WTestEnd, WWake, WFalse, WSetFinished, WTop,
         WSend, WTest, WStep, WOthers, join, read, strm, ui
<1> QED
  BY <1>1 DEF TeardownInv

(* A step of the UI thread. *)
LEMMA CommandTeardown ==
  TeardownInv /\ (OnRecord \/ OnReinitOrClose \/ InCommand) => TeardownInv'
<1> SUFFICES ASSUME TeardownInv, OnRecord \/ OnReinitOrClose \/ InCommand
             PROVE  TeardownInv'
  OBVIOUS
<1> USE DEF TeardownInv, Building, Unbuilt, que, join, read, strm, wrk, ui, UStep
<1>1. CASE OnRecord \/ OnReinitOrClose
  BY <1>1 DEF OnRecord, OnReinitOrClose, Command
<1>2. CASE UStartTest \/ UStart \/ UStopTest \/ UStop
  BY <1>2 DEF UStartTest, UStart, UStopTest, UStop
<1>3. CASE USetIdle \/ UEos
  BY <1>3 DEF USetIdle, UEos
<1>4. CASE UStopFlag \/ UStopSignal
  BY <1>4 DEF UStopFlag, UStopSignal
<1>5. CASE UStopJoin
  BY <1>5 DEF UStopJoin, JoinerIsOut
<1>6. CASE UStopReader
  BY <1>6 DEF UStopReader
<1>7. CASE UReaderStopped
  BY <1>7 DEF UReaderStopped
<1>8. CASE UJoin
  BY <1>8 DEF UJoin
<1>9. CASE UDestroy
  BY <1>9 DEF UDestroy
<1>10. CASE UBuildJoiner
  BY <1>10 DEF UBuildJoiner, Throws
<1>11. CASE UBuildQueue
  BY <1>11 DEF UBuildQueue, Throws
<1>12. CASE UBuildThread
  BY <1>12 DEF UBuildThread
<1>13. CASE UBuildRun
  BY <1>13 DEF UBuildRun, Throws
<1>14. CASE USetPaused \/ UStartThread
  BY <1>14 DEF USetPaused, UStartThread
<1> QED
  BY <1>1, <1>2, <1>3, <1>4, <1>5, <1>6, <1>7, <1>8, <1>9, <1>10, <1>11,
     <1>12, <1>13, <1>14 DEF InCommand

-----------------------------------------------------------------------------
(* Frames, which FlattenSeq puts one file behind the other. *)

NFiles == Len(FileLengths)

(* A frame of some file, and how many frames the files before a file have. *)
IsFrame(fr) == \E f \in 1 .. NFiles : \E i \in 1 .. FileLengths[f] : fr = <<f, i>>

Before[f \in 1 .. NFiles + 1] ==
  IF f = 1 THEN 0 ELSE Before[f - 1] + FileLengths[f - 1]

(* The place of a frame among all of them. *)
Number(fr) == IF fr = NoFrame THEN 0 ELSE Before[fr[1]] + fr[2]

(* The frames of every file. *)
FilesOfFrames == [f \in DOMAIN FileLengths |-> [i \in 1 .. FileLengths[f] |-> <<f, i>>]]

(* There is a first file, and every file has a number of frames. *)
LEMMA LengthsFacts ==
  /\ NFiles \in Nat /\ NFiles >= 1 /\ DOMAIN FileLengths = 1 .. NFiles
  /\ \A f \in 1 .. NFiles : FileLengths[f] \in Nat
BY RecordingAssumption DEF NFiles

(* The frames of every file as a sequence of their own, and Frames as what
   FlattenSeq makes of them. *)
LEMMA FilesFacts ==
  /\ NFiles \in Nat /\ NFiles >= 1
  /\ \A f \in 1 .. NFiles : FileLengths[f] \in Nat
  /\ Frames = FlattenSeq(FilesOfFrames)
  /\ FilesOfFrames \in Seq(Seq(Nat \X Nat)) /\ Len(FilesOfFrames) = NFiles
  /\ FilesOfFrames # <<>>
  /\ \A f \in 1 .. NFiles :
       /\ FilesOfFrames[f] \in Seq(Nat \X Nat) /\ Len(FilesOfFrames[f]) = FileLengths[f]
       /\ \A i \in 1 .. FileLengths[f] : FilesOfFrames[f][i] = <<f, i>>
<1>1. FileLengths \in Seq(Nat) /\ FileLengths # <<>>
  BY RecordingAssumption
<1>2. /\ NFiles \in Nat /\ NFiles >= 1 /\ DOMAIN FileLengths = 1 .. NFiles
      /\ \A f \in 1 .. NFiles : FileLengths[f] \in Nat
  BY <1>1 DEF NFiles
<1>3. ASSUME NEW f \in 1 .. NFiles
      PROVE  /\ FilesOfFrames[f] \in Seq(Nat \X Nat)
             /\ Len(FilesOfFrames[f]) = FileLengths[f]
             /\ \A i \in 1 .. FileLengths[f] : FilesOfFrames[f][i] = <<f, i>>
  <2>1. FilesOfFrames[f] = [i \in 1 .. FileLengths[f] |-> <<f, i>>]
    BY <1>2 DEF FilesOfFrames
  <2>2. f \in Nat /\ FileLengths[f] \in Nat
    BY <1>2
  <2>3. [i \in 1 .. FileLengths[f] |-> <<f, i>>] \in [1 .. FileLengths[f] -> Nat \X Nat]
    BY <2>2
  <2> QED
    BY <2>1, <2>2, <2>3
<1>4. FilesOfFrames \in [1 .. NFiles -> Seq(Nat \X Nat)]
  <2>1. FilesOfFrames = [f \in 1 .. NFiles |-> FilesOfFrames[f]]
    BY <1>2 DEF FilesOfFrames
  <2> QED
    BY <1>3, <2>1
<1>5. FilesOfFrames \in Seq(Seq(Nat \X Nat)) /\ Len(FilesOfFrames) = NFiles
  BY <1>2, <1>4
<1>6. Frames = FlattenSeq(FilesOfFrames)
  BY DEF Frames, FilesOfFrames
<1> QED
  BY <1>2, <1>3, <1>5, <1>6

(* The first k files, flat[k]: frame <<f, i>> is i places behind the files
   before f. *)
Start(flat, f) == IF f = 1 THEN 0 ELSE Len(flat[f - 1])

Holds(flat, k, f, i) ==
  /\ Start(flat, f) + i \in 1 .. Len(flat[k])
  /\ flat[k][Start(flat, f) + i] = <<f, i>>

HoldsAll(flat, k) ==
  /\ flat[k] \in Seq(Nat \X Nat)
  /\ \A f \in 1 .. k : \A i \in 1 .. FileLengths[f] : Holds(flat, k, f, i)

(* Where the elements of both parts of a concatenation are. *)
LEMMA ConcatAt ==
  ASSUME NEW A, NEW s \in Seq(A), NEW t \in Seq(A)
  PROVE  /\ s \o t \in Seq(A) /\ Len(s \o t) = Len(s) + Len(t)
         /\ \A n \in 1 .. Len(s) : n \in 1 .. Len(s \o t) /\ (s \o t)[n] = s[n]
         /\ \A i \in 1 .. Len(t) : Len(s) + i \in 1 .. Len(s \o t) /\ (s \o t)[Len(s) + i] = t[i]
<1> DEFINE m == Len(s)
           k == Len(t)
           u == s \o t
<1>1. m \in Nat /\ k \in Nat
  OBVIOUS
<1>2. /\ u \in Seq(A) /\ Len(u) = m + k
      /\ \A i \in 1 .. m + k : u[i] = IF i <= m THEN s[i] ELSE t[i - m]
  BY ConcatProperties
<1> HIDE DEF m, k, u
<1>3. \A i \in 1 .. m : i \in 1 .. m + k /\ u[i] = s[i]
  BY <1>1, <1>2
<1>4. \A i \in 1 .. k : m + i \in 1 .. m + k /\ u[m + i] = t[i]
  BY <1>1, <1>2
<1> QED
  BY <1>2, <1>3, <1>4 DEF m, k, u

(* The first k files, one behind the other, hold every frame of each of them. *)
LEMMA PartsHoldFrames ==
  ASSUME NEW flat, Flattens(flat, FilesOfFrames)
  PROVE  \A k \in 1 .. NFiles : HoldsAll(flat, k)
<1> DEFINE S == {k \in Nat : k \in 1 .. NFiles => HoldsAll(flat, k)}
<1>1. \A k \in 1 .. NFiles :
        flat[k] = IF k = 1 THEN FilesOfFrames[k] ELSE flat[k - 1] \o FilesOfFrames[k]
  <2>1. flat = [k \in 1 .. NFiles |->
                  IF k = 1 THEN FilesOfFrames[k] ELSE flat[k - 1] \o FilesOfFrames[k]]
    BY FilesFacts DEF Flattens
  <2> QED
    BY <2>1
<1>2. ASSUME NEW k \in Nat, k \in S, k + 1 \in 1 .. NFiles
      PROVE  HoldsAll(flat, k + 1)
  <2> DEFINE new == FilesOfFrames[k + 1]
             both == flat[k + 1]
  <2>1. /\ new \in Seq(Nat \X Nat) /\ Len(new) = FileLengths[k + 1]
        /\ \A i \in 1 .. FileLengths[k + 1] : new[i] = <<k + 1, i>>
        /\ FileLengths[k + 1] \in Nat
    BY <1>2, FilesFacts
  <2>2. CASE k = 0
    <3>1. flat[1] = FilesOfFrames[1] /\ Start(flat, 1) = 0
      BY <1>1, <1>2, <2>2 DEF Start
    <3>2. \A i \in 1 .. FileLengths[1] : Holds(flat, 1, 1, i)
      BY <2>1, <2>2, <3>1 DEF Holds
    <3>3. 1 .. 1 = {1}
      OBVIOUS
    <3> QED
      BY <2>1, <2>2, <3>1, <3>2, <3>3 DEF HoldsAll
  <2>3. CASE k # 0
    <3> DEFINE old == flat[k]
    <3>1. k \in 1 .. NFiles /\ k + 1 # 1 /\ (k + 1) - 1 = k
      BY <1>2, <2>3, FilesFacts
    <3>2. HoldsAll(flat, k)
      BY <1>2, <3>1
    <3>3. both = old \o new
      BY <1>1, <1>2, <3>1
    <3>4. old \in Seq(Nat \X Nat)
      BY <3>2 DEF HoldsAll
    <3>5. Start(flat, k + 1) = Len(old)
      BY <3>1 DEF Start
    <3> HIDE DEF new, old, both
    <3>6. /\ both \in Seq(Nat \X Nat)
          /\ \A n \in 1 .. Len(old) : n \in 1 .. Len(both) /\ both[n] = old[n]
          /\ \A i \in 1 .. Len(new) :
               Len(old) + i \in 1 .. Len(both) /\ both[Len(old) + i] = new[i]
      BY <2>1, <3>3, <3>4, ConcatAt
    <3>7. ASSUME NEW f \in 1 .. k, NEW i \in 1 .. FileLengths[f]
          PROVE  Holds(flat, k + 1, f, i)
      <4>1. Start(flat, f) + i \in 1 .. Len(old) /\ old[Start(flat, f) + i] = <<f, i>>
        BY <3>2 DEF HoldsAll, Holds, old
      <4> QED
        BY <3>6, <4>1 DEF Holds, both
    <3>8. ASSUME NEW i \in 1 .. FileLengths[k + 1]
          PROVE  Holds(flat, k + 1, k + 1, i)
      BY <2>1, <3>5, <3>6 DEF Holds, both
    <3>9. \A f \in 1 .. k + 1 : f \in 1 .. k \/ f = k + 1
      BY <1>2
    <3> QED
      BY <3>6, <3>7, <3>8, <3>9 DEF HoldsAll, both
  <2> QED
    BY <2>2, <2>3
<1>3. 0 \in S
  OBVIOUS
<1>4. Nat \subseteq S
  <2>1. \A k \in Nat : k \in S => k + 1 \in S
    BY <1>2
  <2> HIDE DEF S
  <2> QED
    BY <1>3, <2>1, SetInduction
<1> QED
  BY <1>4, FilesFacts

(* Where every frame is in Frames. *)
LEMMA FramesAt ==
  /\ Frames \in Seq(Nat \X Nat)
  /\ Before[1] = 0
  /\ \A f \in 1 .. NFiles + 1 : Before[f] \in Nat
  /\ \A f \in 1 .. NFiles : Before[f + 1] = Before[f] + FileLengths[f]
  /\ \A fr : IsFrame(fr) => Number(fr) \in 1 .. Len(Frames) /\ Frames[Number(fr)] = fr
<1>1. PICK flat : Flattens(flat, FilesOfFrames) /\ Frames = flat[NFiles]
  BY FilesFacts, FlattenSeqIs
<1>2. \A k \in 1 .. NFiles : HoldsAll(flat, k)
  BY <1>1, PartsHoldFrames
<1>0. NFiles \in 1 .. NFiles /\ HoldsAll(flat, NFiles)
  BY <1>2, FilesFacts
<1>3. \A k \in 1 .. NFiles : Len(flat[k]) = Start(flat, k) + FileLengths[k]
  <2> SUFFICES ASSUME NEW k \in 1 .. NFiles
               PROVE  Len(flat[k]) = Start(flat, k) + FileLengths[k]
    OBVIOUS
  <2>1. flat[k] = IF k = 1 THEN FilesOfFrames[k] ELSE flat[k - 1] \o FilesOfFrames[k]
    <3>1. flat = [n \in 1 .. NFiles |->
                    IF n = 1 THEN FilesOfFrames[n] ELSE flat[n - 1] \o FilesOfFrames[n]]
      BY <1>1, FilesFacts DEF Flattens
    <3> QED
      BY <3>1
  <2>2. CASE k = 1
    BY <2>1, <2>2, FilesFacts DEF Start
  <2>3. CASE k # 1
    <3>1. k - 1 \in 1 .. NFiles
      BY <2>3, FilesFacts
    <3> DEFINE old == flat[k - 1]
               new == FilesOfFrames[k]
    <3>2. old \in Seq(Nat \X Nat)
      BY <1>2, <3>1 DEF HoldsAll
    <3>3. new \in Seq(Nat \X Nat) /\ Len(new) = FileLengths[k]
      BY FilesFacts
    <3>4. flat[k] = old \o new /\ Start(flat, k) = Len(old)
      BY <2>1, <2>3 DEF Start
    <3> HIDE DEF old, new
    <3>5. Len(old \o new) = Len(old) + Len(new)
      BY <3>2, <3>3, ConcatProperties
    <3> QED
      BY <3>3, <3>4, <3>5
  <2> QED
    BY <2>2, <2>3
<1> DEFINE before == [f \in 1 .. NFiles + 1 |-> Start(flat, f)]
<1>4. \A f \in 1 .. NFiles + 1 : Start(flat, f) \in Nat
  <2> SUFFICES ASSUME NEW f \in 1 .. NFiles + 1, f # 1
               PROVE  Len(flat[f - 1]) \in Nat
    BY DEF Start
  <2>1. f - 1 \in 1 .. NFiles
    BY FilesFacts
  <2> QED
    BY <1>2, <2>1 DEF HoldsAll
<1>5. \A f \in 1 .. NFiles : Start(flat, f + 1) = Start(flat, f) + FileLengths[f]
  <2> SUFFICES ASSUME NEW f \in 1 .. NFiles
               PROVE  Start(flat, f + 1) = Start(flat, f) + FileLengths[f]
    OBVIOUS
  <2>1. f + 1 # 1 /\ (f + 1) - 1 = f
    BY FilesFacts
  <2>2. Start(flat, f + 1) = Len(flat[f])
    BY <2>1 DEF Start
  <2> QED
    BY <1>3, <2>2
<1>6. Start(flat, 1) = 0
  BY DEF Start
<1>7. before = [f \in 1 .. NFiles + 1 |->
                  IF f = 1 THEN 0 ELSE before[f - 1] + FileLengths[f - 1]]
  <2> SUFFICES ASSUME NEW f \in 1 .. NFiles + 1, f # 1
               PROVE  Start(flat, f) = before[f - 1] + FileLengths[f - 1]
    BY <1>6
  <2>1. f - 1 \in 1 .. NFiles /\ f - 1 \in 1 .. NFiles + 1 /\ (f - 1) + 1 = f
    BY FilesFacts
  <2> QED
    BY <1>5, <2>1
<1>8. Before = [f \in 1 .. NFiles + 1 |->
                  IF f = 1 THEN 0 ELSE Before[f - 1] + FileLengths[f - 1]]
  <2> HIDE DEF before
  <2> QED
    BY <1>7 DEF Before
<1>9. /\ Before[1] = 0
      /\ \A f \in 1 .. NFiles : Before[f + 1] = Before[f] + FileLengths[f]
  <2>1. 1 \in 1 .. NFiles + 1
    BY FilesFacts
  <2>2. \A f \in 1 .. NFiles : f + 1 \in 1 .. NFiles + 1 /\ f + 1 # 1 /\ (f + 1) - 1 = f
    BY FilesFacts
  <2> QED
    BY <1>8, <2>1, <2>2
<1>10. \A f \in 1 .. NFiles + 1 : Before[f] = Start(flat, f)
  <2> DEFINE S == {f \in Nat : f + 1 \in 1 .. NFiles + 1 => Before[f + 1] = Start(flat, f + 1)}
  <2>1. 0 \in S
    BY <1>6, <1>9
  <2>2. ASSUME NEW f \in Nat, f \in S, f + 2 \in 1 .. NFiles + 1
        PROVE  Before[f + 2] = Start(flat, f + 2)
    <3>1. f + 1 \in 1 .. NFiles /\ f + 1 \in 1 .. NFiles + 1 /\ (f + 1) + 1 = f + 2
      BY <2>2, FilesFacts
    <3> QED
      BY <1>5, <1>9, <2>2, <3>1
  <2>3. \A f \in Nat : f \in S => f + 1 \in S
    <3>1. \A f \in Nat : (f + 1) + 1 = f + 2
      OBVIOUS
    <3> QED
      BY <2>2, <3>1
  <2>4. Nat \subseteq S
    <3> HIDE DEF S
    <3> QED
      BY <2>1, <2>3, SetInduction
  <2> SUFFICES ASSUME NEW f \in 1 .. NFiles + 1
               PROVE  Before[f] = Start(flat, f)
    OBVIOUS
  <2>5. f - 1 \in Nat /\ (f - 1) + 1 = f
    BY FilesFacts
  <2>6. f - 1 \in S
    BY <2>4, <2>5
  <2> QED
    BY <2>5, <2>6
<1>11. ASSUME NEW fr, IsFrame(fr)
       PROVE  Number(fr) \in 1 .. Len(Frames) /\ Frames[Number(fr)] = fr
  <2>1. PICK f \in 1 .. NFiles : \E i \in 1 .. FileLengths[f] : fr = <<f, i>>
    BY <1>11 DEF IsFrame
  <2>2. PICK i \in 1 .. FileLengths[f] : fr = <<f, i>>
    BY <2>1
  <2>3. fr # NoFrame /\ f \in 1 .. NFiles + 1
    BY <2>2, FilesFacts DEF NoFrame
  <2>4. Number(fr) = Start(flat, f) + i
    BY <1>10, <2>2, <2>3 DEF Number
  <2>5. Holds(flat, NFiles, f, i)
    BY <1>0 DEF HoldsAll
  <2> QED
    BY <1>1, <2>2, <2>4, <2>5 DEF Holds
<1>12. Frames \in Seq(Nat \X Nat)
  BY <1>0, <1>1 DEF HoldsAll
<1> QED
  BY <1>4, <1>9, <1>10, <1>11, <1>12

-----------------------------------------------------------------------------
(* Reader and joiner. *)

(* A frame is between the reader and the queue. *)
InHand == sPc \in {"handle", "test", "lock", "wait"}

(* The open file was read to its end, and nothing of it is on its way. *)
FileDone == sPc = "idle" /\ file # 0 /\ pos > FileLengths[file]

(* The open file is the current one; its first pos frames were read. *)
ReaderInv ==
  /\ pos \in Nat
  /\ file # 0 => file = cur /\ cur \in 1 .. NFiles /\ pos <= FileLengths[file] + 1
  /\ sPc \in {"fileEnd", "signal"} => pos > FileLengths[file]
  /\ InHand => pos \in 1 .. FileLengths[file] /\ sFrame = <<file, pos>>
  /\ ~jUp \/ uPc \in {"join", "destroy", "build"} => file = 0 /\ pos = 0

(* The joiner's event is set, and its thread past the wait, only at the end of
   a file or in CAVIJoiner::Stop; the stream ends behind the last file. *)
JoinerInv ==
  /\ stopping <=> uPc \in {"stopSignal", "stopJoin", "stopReader", "readerStopping"}
  /\ jPc \in {"delete", "open", "end"} => FileDone
  /\ jPc \in {"delete", "open"} => cur < NFiles
  /\ jPc = "end" => cur = NFiles
  /\ jPc = "test" => stopping \/ FileDone
  /\ ev => \/ stopping \/ uPc \in {"join", "destroy"}
           \/ FileDone /\ jPc \notin {"test", "delete", "open", "end"}
  /\ end => \/ uPc \in DestroyPcs
            \/ FileDone /\ cur = NFiles /\ jPc \notin {"wait", "test", "delete", "open", "end"}
  /\ uPc \in Unbuilt => ~ev /\ ~end

(* The reader counts the frames it hands on, and the end of the file as one. *)
LEMMA ReaderStreaming ==
  TeardownInv /\ ReaderInv /\ Streaming => ReaderInv'
<1> SUFFICES ASSUME TeardownInv, ReaderInv, Streaming
             PROVE  ReaderInv'
  OBVIOUS
<1> USE DEF ReaderInv, InHand, que, join, read, strm, wrk, ui, SStep
<1>0. /\ file # 0 => FileLengths[file] \in Nat
      /\ sPc # "idle" \/ running =>
           file # 0 /\ jUp /\ uPc \notin {"join", "destroy", "build"}
  BY LengthsFacts DEF TeardownInv, Unbuilt
<1>1. CASE SFrame
  BY <1>0, <1>1 DEF SFrame
<1>2. CASE SHandle \/ STestEnd
  BY <1>0, <1>2 DEF SHandle, STestEnd
<1>3. CASE SStore \/ SFull
  BY <1>0, <1>3 DEF SStore, SFull
<1>4. CASE SWake
  BY <1>0, <1>4 DEF SWake
<1>5. CASE SFileEnd
  BY <1>0, <1>5 DEF SFileEnd
<1>6. CASE SFileEndHandle \/ SFileEndSignal
  BY <1>0, <1>6 DEF SFileEndHandle, SFileEndSignal
<1> QED
  BY <1>1, <1>2, <1>3, <1>4, <1>5, <1>6 DEF Streaming

(* The joiner opens the file behind the one just read. *)
LEMMA ReaderJoiner ==
  TeardownInv /\ ReaderInv /\ JoinerInv /\ Joiner => ReaderInv'
<1> SUFFICES ASSUME TeardownInv, ReaderInv, JoinerInv, Joiner
             PROVE  ReaderInv'
  OBVIOUS
<1> USE DEF ReaderInv, InHand, que, join, read, strm, wrk, ui, JStep
<1>1. CASE JWake \/ JTest \/ JDelete \/ JEnd
  BY <1>1 DEF JWake, JTest, JDelete, JEnd
<1>2. CASE JOpen
  <2>1. /\ cur < NFiles /\ file = cur /\ cur \in 1 .. NFiles /\ sPc = "idle"
        /\ jUp /\ uPc \notin {"join", "destroy", "build"}
    BY <1>2 DEF JOpen, JoinerInv, FileDone, TeardownInv, Unbuilt
  <2>2. cur + 1 \in 1 .. NFiles /\ cur + 1 # 0 /\ FileLengths[cur + 1] \in Nat
    BY <2>1, LengthsFacts
  <2>3. /\ file' = cur + 1 /\ pos' = 0 /\ cur' = cur + 1 /\ sPc' = "idle" /\ jUp'
        /\ uPc' = uPc
    BY <1>2, <2>1 DEF JOpen, NextCurrent
  <2> QED
    BY <2>1, <2>2, <2>3
<1> QED
  BY <1>1, <1>2 DEF Joiner

(* RecordingThread has no part in the reading. *)
LEMMA ReaderWorker == ReaderInv /\ Worker => ReaderInv'
<1>1. Worker => UNCHANGED <<jUp, cur, read, strm, uPc>>
  BY DEF Worker, WTake, WEmpty, WTestEnd, WWake, WFalse, WSetFinished, WTop, WSend,
         WTest, WOthers, join, ui
<1> QED
  BY <1>1 DEF ReaderInv, InHand, read, strm

(* BuildRecording opens the first file, CAVIJoiner::Stop closes the last one. *)
LEMMA ReaderCommand ==
  TeardownInv /\ ReaderInv /\ (OnRecord \/ OnReinitOrClose \/ InCommand) => ReaderInv'
<1> SUFFICES ASSUME TeardownInv, ReaderInv, OnRecord \/ OnReinitOrClose \/ InCommand
             PROVE  ReaderInv'
  OBVIOUS
<1> USE DEF ReaderInv, InHand, que, join, read, strm, wrk, ui, UStep
<1>1. CASE OnRecord \/ OnReinitOrClose
  BY <1>1 DEF OnRecord, OnReinitOrClose, Command
<1>2. CASE UStartTest \/ UStart \/ UStopTest \/ UStop \/ USetIdle
  BY <1>2 DEF UStartTest, UStart, UStopTest, UStop, USetIdle
<1>3. CASE UEos
  BY <1>3 DEF UEos
<1>4. CASE UStopFlag \/ UStopSignal \/ UStopJoin \/ UStopReader
  BY <1>4 DEF UStopFlag, UStopSignal, UStopJoin, UStopReader
<1>5. CASE UReaderStopped
  BY <1>5 DEF UReaderStopped
<1>6. CASE UJoin \/ UDestroy
  BY <1>6 DEF UJoin, UDestroy, TeardownInv
<1>7. CASE UBuildJoiner
  <2>1. sPc = "idle" /\ pos = 0
    BY <1>7 DEF UBuildJoiner, Throws, TeardownInv, Unbuilt
  <2>2. 1 \in 1 .. NFiles /\ FileLengths[1] \in Nat
    BY LengthsFacts
  <2> QED
    BY <1>7, <2>1, <2>2 DEF UBuildJoiner, Throws
<1>8. CASE UBuildQueue \/ UBuildThread \/ UBuildRun \/ USetPaused \/ UStartThread
  BY <1>8 DEF UBuildQueue, UBuildThread, UBuildRun, USetPaused, UStartThread, Throws
<1> QED
  BY <1>1, <1>2, <1>3, <1>4, <1>5, <1>6, <1>7, <1>8 DEF InCommand

(* The joiner is woken for the end of a file when all of it was put. *)
LEMMA JoinerStreaming ==
  TeardownInv /\ ReaderInv /\ JoinerInv /\ Streaming => JoinerInv'
<1> SUFFICES ASSUME TeardownInv, ReaderInv, JoinerInv, Streaming
             PROVE  JoinerInv'
  OBVIOUS
<1> USE DEF JoinerInv, FileDone, que, join, read, strm, wrk, ui, SStep
<1>0. /\ file # 0 => FileLengths[file] \in Nat
      /\ pos \in Nat
      /\ sPc # "idle" \/ running => file # 0 /\ uPc \notin Unbuilt
      /\ sPc \in {"fileEnd", "signal"} => pos > FileLengths[file]
  BY LengthsFacts DEF TeardownInv, ReaderInv
<1>1. CASE SFrame
  BY <1>0, <1>1 DEF SFrame
<1>2. CASE SHandle \/ STestEnd
  BY <1>0, <1>2 DEF SHandle, STestEnd
<1>3. CASE SStore \/ SFull
  BY <1>0, <1>3 DEF SStore, SFull
<1>4. CASE SWake
  BY <1>0, <1>4 DEF SWake
<1>5. CASE SFileEnd
  BY <1>0, <1>5 DEF SFileEnd
<1>6. CASE SFileEndHandle
  BY <1>0, <1>6 DEF SFileEndHandle
<1>7. CASE SFileEndSignal
  BY <1>0, <1>7 DEF SFileEndSignal, WakeJoiner
<1> QED
  BY <1>1, <1>2, <1>3, <1>4, <1>5, <1>6, <1>7 DEF Streaming

(* JoinerThread goes on to the next file, or ends after the last one. *)
LEMMA JoinerJoiner ==
  TeardownInv /\ ReaderInv /\ JoinerInv /\ Joiner => JoinerInv'
<1> SUFFICES ASSUME TeardownInv, ReaderInv, JoinerInv, Joiner
             PROVE  JoinerInv'
  OBVIOUS
<1> USE DEF JoinerInv, FileDone, que, join, read, strm, wrk, ui, JStep
<1>0. jPc \notin {"none", "exit"} => uPc \notin Unbuilt \cup {"join", "destroy"}
  BY DEF TeardownInv
<1>1. CASE JWake
  BY <1>0, <1>1 DEF JWake
<1>2. CASE JTest
  <2>1. FileDone => cur \in 1 .. NFiles
    BY DEF ReaderInv
  <2> QED
    BY <1>0, <1>2, <2>1, LengthsFacts DEF JTest, MoreFiles, NFiles
<1>3. CASE JDelete
  BY <1>0, <1>3 DEF JDelete
<1>4. CASE JOpen
  BY <1>0, <1>4 DEF JOpen
<1>5. CASE JEnd
  BY <1>0, <1>5 DEF JEnd
<1> QED
  BY <1>1, <1>2, <1>3, <1>4, <1>5 DEF Joiner

(* RecordingThread has no part in the change of file. *)
LEMMA JoinerWorker == JoinerInv /\ Worker => JoinerInv'
<1>1. Worker => UNCHANGED <<end, join, read, strm, uPc>>
  BY DEF Worker, WTake, WEmpty, WTestEnd, WWake, WFalse, WSetFinished, WTop, WSend,
         WTest, WOthers, join, ui
<1> QED
  BY <1>1 DEF JoinerInv, FileDone, join, read, strm

(* Destroy is the only other one that ends the stream or wakes the joiner. *)
LEMMA JoinerCommand ==
  TeardownInv /\ ReaderInv /\ JoinerInv /\ (OnRecord \/ OnReinitOrClose \/ InCommand) => JoinerInv'
<1> SUFFICES ASSUME TeardownInv, ReaderInv, JoinerInv, OnRecord \/ OnReinitOrClose \/ InCommand
             PROVE  JoinerInv'
  OBVIOUS
<1> USE DEF JoinerInv, FileDone, DestroyPcs, Unbuilt, que, join, read, strm, wrk, ui, UStep
<1>0. /\ jPc \notin {"none", "exit"} =>
           uPc \notin Unbuilt \cup {"stopReader", "readerStopping", "join", "destroy"}
      /\ uNext \in {"ready", "closed", "build"}
  BY DEF TeardownInv
<1>1. CASE OnRecord \/ OnReinitOrClose
  BY <1>1 DEF OnRecord, OnReinitOrClose, Command
<1>2. CASE UStartTest \/ UStart \/ UStopTest \/ UStop
  BY <1>2 DEF UStartTest, UStart, UStopTest, UStop
<1>3. CASE USetIdle \/ UEos
  BY <1>3 DEF USetIdle, UEos
<1>4. CASE UStopFlag \/ UStopSignal
  BY <1>4 DEF UStopFlag, UStopSignal
<1>5. CASE UStopJoin \/ UStopReader
  BY <1>5 DEF UStopJoin, UStopReader
<1>6. CASE UReaderStopped
  BY <1>0, <1>6 DEF UReaderStopped
<1>7. CASE UJoin
  BY <1>0, <1>7 DEF UJoin
<1>8. CASE UDestroy
  BY <1>0, <1>8 DEF UDestroy
<1>9. CASE UBuildJoiner
  BY <1>0, <1>9 DEF UBuildJoiner, Throws
<1>10. CASE UBuildQueue
  BY <1>0, <1>10 DEF UBuildQueue, Throws
<1>11. CASE UBuildThread
  BY <1>0, <1>11 DEF UBuildThread
<1>12. CASE UBuildRun \/ USetPaused \/ UStartThread
  BY <1>12 DEF UBuildRun, USetPaused, UStartThread, Throws
<1> QED
  BY <1>1, <1>2, <1>3, <1>4, <1>5, <1>6, <1>7, <1>8, <1>9, <1>10, <1>11, <1>12 DEF InCommand

-----------------------------------------------------------------------------
(* The order of the frames. *)

(* Number counts the frames from 1, file by file. *)
LEMMA NumberFacts ==
  /\ Number(NoFrame) = 0
  /\ \A fr : IsFrame(fr) => Number(fr) \in Nat /\ Number(fr) >= 1 /\ fr # NoFrame
                              /\ fr \in Nat \X Nat
  /\ \A f \in 1 .. NFiles : \A i \in 1 .. FileLengths[f] :
       IsFrame(<<f, i>>) /\ Number(<<f, i>>) = Before[f] + i
<1>1. Number(NoFrame) = 0
  BY DEF Number
<1>2. ASSUME NEW fr, IsFrame(fr)
      PROVE  fr # NoFrame /\ fr \in Nat \X Nat
  BY <1>2, LengthsFacts DEF IsFrame, NoFrame
<1>3. ASSUME NEW fr, IsFrame(fr)
      PROVE  Number(fr) \in Nat /\ Number(fr) >= 1
  <2>1. Number(fr) \in 1 .. Len(Frames) /\ Len(Frames) \in Nat
    BY <1>3, FramesAt
  <2> QED
    BY <2>1
<1>4. ASSUME NEW f \in 1 .. NFiles, NEW i \in 1 .. FileLengths[f]
      PROVE  IsFrame(<<f, i>>) /\ Number(<<f, i>>) = Before[f] + i
  <2>1. IsFrame(<<f, i>>)
    BY DEF IsFrame
  <2> QED
    BY <1>2, <2>1 DEF Number
<1> QED
  BY <1>1, <1>2, <1>3, <1>4

(* The worker's frame is the last one sent or the next one. *)
SentInv ==
  /\ sent \in Seq(Nat \X Nat)
  /\ frame = NoFrame \/ IsFrame(frame)
  /\ \A i \in 1 .. Len(sent) : IsFrame(sent[i]) /\ Number(sent[i]) = i
  /\ \/ Number(frame) = Len(sent) /\ (sent # <<>> => sent[Len(sent)] = frame)
     \/ Number(frame) = Len(sent) + 1 /\ wPc \notin {"test", "get", "empty", "wait"}
  /\ wPc \in {"top", "send", "test", "false", "setFinished"} => frame # NoFrame
  /\ uPc \in Building \cup {"buildQueue"} => sent = <<>> /\ frame = NoFrame

(* Number of the last frame read so far, if all files up to here are counted. *)
Read == Before[file] + (IF pos <= FileLengths[file] THEN pos ELSE FileLengths[file])

(* Put drops frames once the end of stream was signalled, but not one for which
   it tested before. *)
NoneDropped == jUp /\ file # 0 /\ (~end \/ sPc = "lock")

(* The queue holds the frames behind the worker's one, up to the last one read. *)
QueueInv ==
  /\ buf \in Seq(Nat \X Nat)
  /\ \A i \in 1 .. Len(buf) : IsFrame(buf[i]) /\ Number(buf[i]) = Number(frame) + i
  /\ uPc \in Unbuilt => buf = <<>>
  /\ qUp /\ uPc \in DestroyPcs \ {"eos"} => end
  /\ NoneDropped => Number(frame) + Len(buf) + (IF InHand THEN 1 ELSE 0) = Read

(* RecordingThread takes the frame behind the one it sent last. *)
LEMMA SentWorker == TeardownInv /\ SentInv /\ QueueInv /\ Worker => SentInv'
<1> SUFFICES ASSUME TeardownInv, SentInv, QueueInv, Worker
             PROVE  SentInv'
  OBVIOUS
<1>0. wPc \notin {"none", "exit"} /\ uPc' = uPc /\ uPc \notin Building \cup {"buildQueue"}
  BY DEF Worker, WTake, WEmpty, WTestEnd, WWake, WFalse, WSetFinished, WTop, WSend,
         WTest, WOthers, WStep, ui, TeardownInv, Unbuilt
<1>1. CASE WTake
  <2>1. /\ buf # <<>> /\ wPc = "get" /\ wPc' = "top" /\ frame' = Head(buf)
        /\ sent' = sent
    BY <1>1 DEF WTake, WStep
  <2>2. Len(buf) \in Nat /\ Len(buf) >= 1 /\ Head(buf) = buf[1]
    BY <2>1 DEF QueueInv
  <2>3. IsFrame(frame') /\ Number(frame') = Number(frame) + 1 /\ frame' # NoFrame
    BY <2>1, <2>2, NumberFacts DEF QueueInv
  <2>4. Number(frame) = Len(sent)
    BY <2>1 DEF SentInv
  <2> QED
    BY <1>0, <2>1, <2>3, <2>4 DEF SentInv
<1>2. CASE WSend
  <2>1. /\ wPc = "send" /\ wPc' = "test" /\ frame' = frame
        /\ sent' = IF sent # <<>> /\ sent[Len(sent)] = frame THEN sent ELSE Append(sent, frame)
    BY <1>2 DEF WSend, WStep, Last
  <2>2. IsFrame(frame) /\ frame \in Nat \X Nat
    BY <2>1, NumberFacts DEF SentInv
  <2>3. Len(sent) \in Nat /\ (sent # <<>> => Len(sent) >= 1)
    BY DEF SentInv
  <2>4. CASE sent # <<>> /\ sent[Len(sent)] = frame
    <3>1. Number(frame) = Len(sent)
      BY <2>3, <2>4 DEF SentInv
    <3> QED
      BY <1>0, <2>1, <2>4, <3>1 DEF SentInv
  <2>5. CASE ~ (sent # <<>> /\ sent[Len(sent)] = frame)
    <3> DEFINE n == Len(sent)
               s == sent'
    <3>1. n \in Nat /\ s = Append(sent, frame) /\ sent \in Seq(Nat \X Nat)
      BY <2>1, <2>3, <2>5 DEF SentInv
    <3>2. Number(frame) = n + 1
      <4>1. CASE sent = <<>>
        <5>1. Number(frame) >= 1 /\ Number(frame) \in Nat /\ n = 0
          BY <2>2, <4>1, NumberFacts
        <5> QED
          BY <5>1 DEF SentInv
      <4>2. CASE sent # <<>>
        BY <2>5, <4>2 DEF SentInv
      <4> QED
        BY <4>1, <4>2
    <3>3. /\ s \in Seq(Nat \X Nat) /\ Len(s) = n + 1 /\ s[n + 1] = frame
          /\ \A i \in 1 .. n : s[i] = sent[i]
      BY <2>2, <3>1, AppendProperties
    <3>4. \A i \in 1 .. n : IsFrame(sent[i]) /\ Number(sent[i]) = i
      BY DEF SentInv
    <3>5. s # <<>>
      BY <3>1, <3>3
    <3> HIDE DEF n, s
    <3>6. \A i \in 1 .. n + 1 : IsFrame(s[i]) /\ Number(s[i]) = i
      BY <2>2, <3>1, <3>2, <3>3, <3>4
    <3> QED
      BY <1>0, <2>1, <2>2, <3>2, <3>3, <3>5, <3>6 DEF SentInv, s
  <2> QED
    BY <2>4, <2>5
<1>3. CASE WEmpty \/ WTestEnd \/ WWake \/ WFalse \/ WSetFinished \/ WTop \/ WTest
  <2>1. sent' = sent /\ frame' = frame
    BY <1>3 DEF WEmpty, WTestEnd, WWake, WFalse, WSetFinished, WTop, WTest
  <2>2. /\ wPc' \in {"test", "get", "empty", "wait"} => wPc \in {"test", "get", "empty", "wait"}
        /\ wPc' \in {"top", "send", "test", "false", "setFinished"} =>
             wPc \in {"top", "send", "test", "false", "setFinished"} \/ frame # NoFrame
    BY <1>3 DEF WEmpty, WTestEnd, WWake, WFalse, WSetFinished, WTop, WTest, WStep
  <2> QED
    BY <1>0, <2>1, <2>2 DEF SentInv
<1> QED
  BY <1>1, <1>2, <1>3 DEF Worker

(* Nobody else changes what was sent or is to be sent; BuildRecording resets it. *)
LEMMA SentOthers ==
  TeardownInv /\ SentInv /\ (Streaming \/ Joiner \/ OnRecord \/ OnReinitOrClose \/ InCommand)
    => SentInv'
<1> SUFFICES ASSUME TeardownInv, SentInv,
                    Streaming \/ Joiner \/ OnRecord \/ OnReinitOrClose \/ InCommand
             PROVE  SentInv'
  OBVIOUS
<1>1. CASE UNCHANGED wrk /\ (uPc' \in Building \cup {"buildQueue"} =>
                               uPc \in Building \cup {"buildQueue"})
  BY <1>1 DEF SentInv, wrk
<1>2. CASE Streaming
  BY <1>1, <1>2 DEF Streaming, SFrame, SHandle, STestEnd, SStore, SFull, SWake, SFileEnd,
     SFileEndHandle, SFileEndSignal, ui
<1>3. CASE Joiner
  BY <1>1, <1>3 DEF Joiner, JWake, JTest, JDelete, JOpen, JEnd, ui
<1>4. CASE OnRecord \/ OnReinitOrClose
  BY <1>1, <1>4 DEF OnRecord, OnReinitOrClose, Command, UStep, Building
<1>5. CASE \/ UStartTest \/ UStart \/ UStopTest \/ UStop
           \/ USetIdle \/ UEos \/ UStopFlag \/ UStopSignal \/ UStopJoin
           \/ UStopReader \/ UReaderStopped
  BY <1>1, <1>5 DEF UStartTest, UStart, UStopTest, UStop, USetIdle, UEos, UStopFlag,
     UStopSignal, UStopJoin, UStopReader, UReaderStopped, UStep, Building
<1>6. CASE UJoin
  BY <1>6 DEF UJoin, UStep, SentInv, Building
<1>7. CASE UDestroy
  BY <1>1, <1>7 DEF UDestroy, UStep, TeardownInv, Building
<1>8. CASE UBuildJoiner
  <2>1. wPc \in {"none", "exit"} /\ wPc' = wPc /\ frame' = NoFrame /\ sent' = <<>>
    BY <1>8 DEF UBuildJoiner, Throws, UStep, TeardownInv, Unbuilt
  <2> QED
    BY <2>1, NumberFacts DEF SentInv
<1>9. CASE UBuildQueue \/ UBuildThread \/ UBuildRun \/ USetPaused
  BY <1>1, <1>9 DEF UBuildQueue, UBuildThread, UBuildRun, USetPaused, Throws, UStep, Building
<1>10. CASE UStartThread
  <2>1. frame = NoFrame /\ sent = <<>> /\ frame' = NoFrame /\ sent' = <<>> /\ wPc' = "get"
    BY <1>10 DEF UStartThread, UStep, SentInv, Building
  <2> QED
    BY <2>1, NumberFacts DEF SentInv
<1> QED
  BY <1>2, <1>3, <1>4, <1>5, <1>6, <1>7, <1>8, <1>9, <1>10 DEF InCommand

(* Put stores the frame behind the last one in the queue. *)
LEMMA QueueStreaming ==
  TeardownInv /\ ReaderInv /\ JoinerInv /\ SentInv /\ QueueInv /\ Streaming => QueueInv'
<1> SUFFICES ASSUME TeardownInv, ReaderInv, JoinerInv, SentInv, QueueInv, Streaming
             PROVE  QueueInv'
  OBVIOUS
<1> USE DEF SStep
<1> DEFINE k == Len(buf)
           n == Number(frame)
<1>0. k \in Nat /\ n \in Nat
  <2>1. k \in Nat
    BY DEF QueueInv
  <2> QED
    BY <2>1, NumberFacts DEF SentInv
<1>1. /\ UNCHANGED <<frame, qUp, end, jUp, file, uPc>>
      /\ n' = n
  BY DEF Streaming, SFrame, SHandle, STestEnd, SStore, SFull, SWake, SFileEnd,
     SFileEndHandle, SFileEndSignal, que, join, read, wrk, ui
<1>2. sPc # "idle" \/ running => jUp /\ qUp /\ file # 0 /\ uPc \notin Unbuilt
  BY DEF TeardownInv
<1>3. file # 0 => /\ file \in 1 .. NFiles /\ FileLengths[file] \in Nat
                  /\ Before[file] \in Nat /\ pos \in Nat
  BY LengthsFacts, FramesAt DEF ReaderInv
<1>4. ASSUME buf' = buf, NoneDropped' =>
               n + k + (IF InHand THEN 1 ELSE 0)' = Read'
      PROVE  QueueInv'
  BY <1>1, <1>4 DEF QueueInv
<1>5. CASE SFrame
  <2>1. /\ pos < FileLengths[file] /\ sPc = "idle" /\ sPc' = "handle" /\ pos' = pos + 1
        /\ buf' = buf /\ running
    BY <1>5 DEF SFrame, que
  <2>2. NoneDropped' => NoneDropped
    BY <1>1, <2>1 DEF NoneDropped
  <2>3. Read' = Read + 1 /\ Read \in Nat
    BY <1>1, <1>2, <1>3, <2>1 DEF Read
  <2> QED
    BY <1>0, <1>4, <2>1, <2>2, <2>3 DEF InHand, QueueInv
<1>6. CASE SHandle \/ STestEnd \/ SFull \/ SWake
  <2>1. buf' = buf /\ pos' = pos /\ Read' = Read
    BY <1>1, <1>6 DEF SHandle, STestEnd, SFull, SWake, que, read, Read
  <2>2. stopping /\ qUp => end
    BY DEF QueueInv, JoinerInv, DestroyPcs
  <2>3. NoneDropped' => NoneDropped /\ InHand /\ InHand'
    BY <1>1, <1>2, <1>6, <2>2 DEF SHandle, STestEnd, SFull, SWake, NoneDropped, InHand
  <2> QED
    BY <1>4, <2>1, <2>3 DEF QueueInv
<1>7. CASE SStore
  <2> DEFINE b == buf'
  <2>1. sPc = "lock" /\ sPc' = "idle" /\ b = Append(buf, sFrame) /\ pos' = pos
    BY <1>7 DEF SStore, read
  <2>2. /\ sFrame = <<file, pos>> /\ pos \in 1 .. FileLengths[file] /\ NoneDropped
        /\ file \in 1 .. NFiles /\ uPc \notin Unbuilt
    BY <1>2, <1>3, <2>1 DEF ReaderInv, InHand, NoneDropped
  <2>3. IsFrame(sFrame) /\ Number(sFrame) = Before[file] + pos /\ sFrame \in Nat \X Nat
    BY <2>2, NumberFacts
  <2>4. Read = Before[file] + pos
    BY <1>3, <2>2 DEF Read
  <2>5. Number(sFrame) = n + k + 1
    BY <2>1, <2>2, <2>3, <2>4 DEF QueueInv, InHand
  <2>6. buf \in Seq(Nat \X Nat) /\ \A i \in 1 .. k : IsFrame(buf[i]) /\ Number(buf[i]) = n + i
    BY DEF QueueInv
  <2>7. /\ b \in Seq(Nat \X Nat) /\ Len(b) = k + 1 /\ b[k + 1] = sFrame
        /\ \A i \in 1 .. k : b[i] = buf[i]
    BY <2>1, <2>3, <2>6, AppendProperties
  <2>8. Read' = Read
    BY <1>1, <2>1 DEF Read
  <2>9. NoneDropped' => Number(frame) + (k + 1) + 0 = Read
    BY <1>0, <2>3, <2>4, <2>5
  <2> HIDE DEF k, n, b
  <2>10. \A i \in 1 .. k + 1 : IsFrame(b[i]) /\ Number(b[i]) = n + i
    <3> SUFFICES ASSUME NEW i \in 1 .. k + 1
                 PROVE  IsFrame(b[i]) /\ Number(b[i]) = n + i
      OBVIOUS
    <3>1. i \in 1 .. k \/ i = k + 1
      BY <1>0
    <3> QED
      BY <1>0, <2>3, <2>5, <2>6, <2>7, <3>1
  <2> QED
    BY <1>1, <2>1, <2>2, <2>7, <2>8, <2>9, <2>10 DEF QueueInv, InHand, b, n
<1>8. CASE SFileEnd
  <2>1. pos = FileLengths[file] /\ sPc = "idle" /\ sPc' = "fileEnd" /\ pos' = pos + 1
        /\ buf' = buf /\ running
    BY <1>8 DEF SFileEnd, que
  <2>2. NoneDropped' => NoneDropped
    BY <1>1, <2>1 DEF NoneDropped
  <2>3. Read' = Read
    BY <1>1, <1>2, <1>3, <2>1 DEF Read
  <2> QED
    BY <1>0, <1>4, <2>1, <2>2, <2>3 DEF InHand, QueueInv
<1>9. CASE SFileEndHandle \/ SFileEndSignal
  <2>1. buf' = buf /\ pos' = pos /\ Read' = Read
    BY <1>1, <1>9 DEF SFileEndHandle, SFileEndSignal, que, read, Read
  <2>2. NoneDropped' => NoneDropped
    BY <1>1, <1>9 DEF SFileEndHandle, SFileEndSignal, NoneDropped
  <2>3. ~InHand /\ ~InHand'
    BY <1>9 DEF SFileEndHandle, SFileEndSignal, InHand
  <2> QED
    BY <1>4, <2>1, <2>2, <2>3 DEF QueueInv
<1> QED
  BY <1>5, <1>6, <1>7, <1>8, <1>9 DEF Streaming

(* A change of file leaves no frame out: the next file starts at the number at
   which the last one ended. *)
LEMMA QueueJoiner ==
  TeardownInv /\ ReaderInv /\ JoinerInv /\ QueueInv /\ Joiner => QueueInv'
<1> SUFFICES ASSUME TeardownInv, ReaderInv, JoinerInv, QueueInv, Joiner
             PROVE  QueueInv'
  OBVIOUS
<1>1. CASE JWake \/ JTest \/ JDelete
  BY <1>1 DEF JWake, JTest, JDelete, QueueInv, NoneDropped, Read, InHand, que, join, read, strm,
     wrk, ui
<1>2. CASE JOpen
  <2>1. /\ file # 0 /\ pos > FileLengths[file] /\ cur < NFiles /\ file = cur
        /\ cur \in 1 .. NFiles /\ sPc = "idle" /\ pos \in Nat
    BY <1>2 DEF JOpen, JStep, JoinerInv, FileDone, ReaderInv
  <2>2. /\ file' = cur + 1 /\ pos' = 0
        /\ UNCHANGED <<buf, frame, qUp, end, jUp, sPc, uPc>>
    BY <1>2 DEF JOpen, NextCurrent, que, strm, wrk, ui
  <2>3. /\ FileLengths[cur] \in Nat /\ FileLengths[cur + 1] \in Nat
        /\ Before[cur] \in Nat /\ Before[cur + 1] = Before[cur] + FileLengths[cur]
    BY <2>1, LengthsFacts, FramesAt
  <2>4. Read' = Read
    BY <2>1, <2>2, <2>3 DEF Read
  <2>5. NoneDropped' => NoneDropped
    BY <2>1, <2>2 DEF NoneDropped
  <2> QED
    BY <2>2, <2>4, <2>5 DEF QueueInv, InHand
<1>3. CASE JEnd
  <2>1. sPc = "idle" /\ sPc' = sPc /\ end' /\ UNCHANGED <<buf, frame, qUp, uPc>>
    BY <1>3 DEF JEnd, JStep, JoinerInv, FileDone, strm, wrk, ui
  <2>2. ~NoneDropped'
    BY <2>1 DEF NoneDropped
  <2> QED
    BY <2>1, <2>2 DEF QueueInv
<1> QED
  BY <1>1, <1>2, <1>3 DEF Joiner

(* Get takes the first frame of the queue and moves the others up. *)
LEMMA QueueWorker == TeardownInv /\ SentInv /\ QueueInv /\ Worker => QueueInv'
<1> SUFFICES ASSUME TeardownInv, SentInv, QueueInv, Worker
             PROVE  QueueInv'
  OBVIOUS
<1>0. UNCHANGED <<qUp, end, jUp, file, pos, sPc, uPc>> /\ (NoneDropped <=> NoneDropped')
      /\ Read' = Read /\ (InHand <=> InHand')
  <2>1. UNCHANGED <<qUp, end, jUp, file, pos, sPc, uPc>>
    BY DEF Worker, WTake, WEmpty, WTestEnd, WWake, WFalse, WSetFinished, WTop, WSend,
           WTest, WOthers, join, read, strm, ui
  <2> QED
    BY <2>1 DEF NoneDropped, Read, InHand
<1>1. CASE WTake
  <2> DEFINE k == Len(buf)
             n == Number(frame)
             b == buf'
  <2>1. buf # <<>> /\ frame' = Head(buf) /\ b = Tail(buf)
    BY <1>1 DEF WTake
  <2>2. buf \in Seq(Nat \X Nat) /\ \A i \in 1 .. k : IsFrame(buf[i]) /\ Number(buf[i]) = n + i
    BY DEF QueueInv
  <2>3. k \in Nat /\ k >= 1 /\ n \in Nat
    BY <2>1, <2>2, NumberFacts DEF SentInv
  <2>4. /\ frame' = buf[1] /\ b \in Seq(Nat \X Nat) /\ Len(b) = k - 1
        /\ \A i \in 1 .. k - 1 : b[i] = buf[i + 1]
    BY <2>1, <2>2, HeadTailProperties
  <2>5. Number(frame') = n + 1
    BY <2>2, <2>3, <2>4
  <2>6. Number(frame') + Len(b) = n + k
    <3> HIDE DEF n, k, b
    <3> QED
      BY <2>3, <2>4, <2>5
  <2>7. \A i \in 1 .. k - 1 : IsFrame(b[i]) /\ Number(b[i]) = (n + 1) + i
    <3> HIDE DEF n, k, b
    <3> SUFFICES ASSUME NEW i \in 1 .. k - 1
                 PROVE  IsFrame(b[i]) /\ Number(b[i]) = (n + 1) + i
      OBVIOUS
    <3>1. i + 1 \in 1 .. k /\ b[i] = buf[i + 1]
      BY <2>3, <2>4
    <3> QED
      BY <2>2, <2>3, <3>1
  <2>8. buf # <<>> /\ uPc' \notin Unbuilt
    BY <1>0, <2>1 DEF QueueInv
  <2>9. n + k = Number(frame) + Len(buf)
    OBVIOUS
  <2> HIDE DEF n, k
  <2> QED
    BY <1>0, <2>4, <2>5, <2>6, <2>7, <2>8, <2>9 DEF QueueInv
<1>2. CASE WEmpty \/ WTestEnd \/ WWake \/ WFalse \/ WSetFinished \/ WTop \/ WSend \/ WTest
  <2>1. buf' = buf /\ frame' = frame
    BY <1>2 DEF WEmpty, WTestEnd, WWake, WFalse, WSetFinished, WTop, WSend, WTest
  <2> QED
    BY <1>0, <2>1 DEF QueueInv
<1> QED
  BY <1>1, <1>2 DEF Worker

(* Commands build an empty queue and leave it alone until Destroy ends the stream. *)
LEMMA QueueCommand ==
  TeardownInv /\ ReaderInv /\ JoinerInv /\ QueueInv /\ (OnRecord \/ OnReinitOrClose \/ InCommand)
    => QueueInv'
<1> SUFFICES ASSUME TeardownInv, ReaderInv, JoinerInv, QueueInv,
                    OnRecord \/ OnReinitOrClose \/ InCommand
             PROVE  QueueInv'
  OBVIOUS
<1>1. CASE /\ UNCHANGED <<qUp, buf, end, jUp, file, pos, sPc, frame>>
           /\ uPc' \in Unbuilt => uPc \in Unbuilt
           /\ qUp /\ uPc' \in DestroyPcs \ {"eos"} => uPc \in DestroyPcs \ {"eos"}
  BY <1>1 DEF QueueInv, NoneDropped, Read, InHand
<1> USE DEF UStep, Unbuilt, DestroyPcs, que, join, read, strm, wrk, ui
<1>2. CASE OnRecord \/ OnReinitOrClose
  BY <1>1, <1>2 DEF OnRecord, OnReinitOrClose, Command
<1>3. CASE UStartTest \/ UStart \/ UStopTest \/ UStop \/ USetIdle
  BY <1>1, <1>3 DEF UStartTest, UStart, UStopTest, UStop, USetIdle
<1>4. CASE UEos
  BY <1>4 DEF UEos, QueueInv, NoneDropped, Read, InHand
<1>5. CASE UStopFlag \/ UStopSignal \/ UStopJoin \/ UStopReader \/ UJoin
  BY <1>1, <1>5 DEF UStopFlag, UStopSignal, UStopJoin, UStopReader, UJoin
<1>6. CASE UReaderStopped
  BY <1>6 DEF UReaderStopped, QueueInv, NoneDropped
<1>7. CASE UDestroy
  <2>1. buf' = <<>> /\ ~jUp' /\ ~qUp'
    BY <1>7 DEF UDestroy
  <2> QED
    BY <2>1 DEF QueueInv, NoneDropped
<1>8. CASE UBuildJoiner
  <2>1. /\ uPc = "build" /\ buf = <<>> /\ buf' = <<>> /\ frame' = NoFrame /\ ~end /\ ~end'
        /\ file = 0 /\ pos = 0 /\ pos' = 0 /\ sPc = "idle" /\ sPc' = "idle"
        /\ file' \in {0, 1} /\ uPc' \in {"buildQueue", "setIdle"}
    BY <1>8 DEF UBuildJoiner, Throws, QueueInv, JoinerInv, ReaderInv, TeardownInv
  <2>2. 1 \in 1 .. NFiles /\ FileLengths[1] \in Nat /\ Before[1] = 0
    BY LengthsFacts, FramesAt
  <2>3. NoneDropped' => Read' = 0
    BY <2>1, <2>2 DEF NoneDropped, Read
  <2> QED
    BY <2>1, <2>3, NumberFacts DEF QueueInv, InHand
<1>9. CASE UBuildQueue
  BY <1>9 DEF UBuildQueue, Throws, QueueInv, NoneDropped, Read, InHand
<1>10. CASE UBuildThread \/ UBuildRun \/ USetPaused \/ UStartThread
  BY <1>1, <1>10 DEF UBuildThread, UBuildRun, USetPaused, UStartThread, Throws
<1> QED
  BY <1>2, <1>3, <1>4, <1>5, <1>6, <1>7, <1>8, <1>9, <1>10 DEF InCommand

-----------------------------------------------------------------------------
(* From the writing of RecordPaused on, only the frame that the worker already
   had, or was fetching, is new to the device. *)
PauseInv ==
  /\ pausedAt \in Nat
  /\ uPc \in (DestroyPcs \cup Unbuilt \cup Building) \ {"startThread"} => state # "RecordPaused"
  /\ state = "RecordPaused" =>
       /\ Len(sent) <= pausedAt + 1
       /\ Number(frame) # Len(sent) \/ wPc \in {"get", "empty", "wait"} => Len(sent) <= pausedAt

(* One frame may be sent that was fetched before the pause, and no other is
   fetched. *)
LEMMA PauseWorker == SentInv /\ QueueInv /\ PauseInv /\ Worker => PauseInv'
<1> SUFFICES ASSUME SentInv, QueueInv, PauseInv, Worker
             PROVE  PauseInv'
  OBVIOUS
<1> USE DEF WStep
<1>0. UNCHANGED <<pausedAt, uPc>> /\ Len(sent) \in Nat /\ pausedAt \in Nat
  BY DEF Worker, WTake, WEmpty, WTestEnd, WWake, WFalse, WSetFinished, WTop, WSend,
         WTest, WOthers, ui, SentInv, PauseInv
<1>1. CASE WTake
  <2>1. wPc = "get" /\ wPc' = "top" /\ UNCHANGED <<state, sent>>
    BY <1>1 DEF WTake
  <2> QED
    BY <1>0, <2>1 DEF PauseInv
<1>2. CASE WSend
  <2>1. /\ wPc = "send" /\ wPc' = "test" /\ UNCHANGED <<state, frame>>
        /\ sent' = IF sent # <<>> /\ sent[Len(sent)] = frame THEN sent ELSE Append(sent, frame)
    BY <1>2 DEF WSend, Last
  <2>2. CASE sent' = sent
    BY <1>0, <2>1, <2>2 DEF PauseInv
  <2>3. CASE sent' # sent
    <3>1. sent' = Append(sent, frame) /\ Len(sent') = Len(sent) + 1
      BY <2>1, <2>3, NumberFacts DEF SentInv
    <3>2. Number(frame) = Len(sent) + 1
      <4>1. CASE sent = <<>>
        <5>1. IsFrame(frame)
          BY <2>1 DEF SentInv
        <5>2. Number(frame) # 0 /\ Len(sent) = 0
          BY <4>1, <5>1, NumberFacts
        <5> QED
          BY <5>2 DEF SentInv
      <4>2. CASE sent # <<>>
        BY <2>1, <2>3, <4>2 DEF SentInv
      <4> QED
        BY <4>1, <4>2
    <3> QED
      BY <1>0, <2>1, <3>1, <3>2 DEF PauseInv
  <2> QED
    BY <2>2, <2>3
<1>3. CASE WTest
  BY <1>0, <1>3 DEF WTest, PauseInv
<1>4. CASE WEmpty \/ WTestEnd \/ WWake
  BY <1>0, <1>4 DEF WEmpty, WTestEnd, WWake, PauseInv
<1>5. CASE WFalse \/ WSetFinished \/ WTop
  BY <1>0, <1>5 DEF WFalse, WSetFinished, WTop, PauseInv
<1> QED
  BY <1>1, <1>2, <1>3, <1>4, <1>5 DEF Worker

(* Only StopRecording and BuildRecording write RecordPaused. *)
LEMMA PauseOthers ==
  SentInv /\ PauseInv /\ (Streaming \/ Joiner \/ OnRecord \/ OnReinitOrClose \/ InCommand)
    => PauseInv'
<1> SUFFICES ASSUME SentInv, PauseInv,
                    Streaming \/ Joiner \/ OnRecord \/ OnReinitOrClose \/ InCommand
             PROVE  PauseInv'
  OBVIOUS
<1> USE DEF PauseInv, wrk, ui
<1>1. CASE Streaming
  BY <1>1 DEF Streaming, SFrame, SHandle, STestEnd, SStore, SFull, SWake, SFileEnd,
     SFileEndHandle, SFileEndSignal
<1>2. CASE Joiner
  BY <1>2 DEF Joiner, JWake, JTest, JDelete, JOpen, JEnd
<1> USE DEF UStep, Unbuilt, Building, DestroyPcs
<1>3. CASE OnRecord \/ OnReinitOrClose
  BY <1>3 DEF OnRecord, OnReinitOrClose, Command
<1>4. CASE UStartTest \/ UStart \/ UStopTest
  BY <1>4 DEF UStartTest, UStart, UStopTest
<1>5. CASE UStop
  BY <1>5 DEF UStop, SentInv
<1>6. CASE USetIdle \/ UEos \/ UStopFlag \/ UStopSignal \/ UStopJoin \/ UStopReader
  BY <1>6 DEF USetIdle, UEos, UStopFlag, UStopSignal, UStopJoin, UStopReader
<1>7. CASE UReaderStopped
  BY <1>7 DEF UReaderStopped
<1>8. CASE UJoin
  BY <1>8 DEF UJoin
<1>9. CASE UDestroy
  BY <1>9 DEF UDestroy
<1>10. CASE UBuildJoiner
  BY <1>10 DEF UBuildJoiner, Throws
<1>11. CASE UBuildQueue \/ UBuildThread \/ UBuildRun
  BY <1>11 DEF UBuildQueue, UBuildThread, UBuildRun, Throws
<1>12. CASE USetPaused
  <2>1. sent = <<>> /\ Len(sent) = 0 /\ pausedAt' = 0 /\ UNCHANGED <<sent, frame, wPc>>
        /\ uPc' = "startThread"
    BY <1>12 DEF USetPaused, SentInv
  <2> QED
    BY <2>1
<1>13. CASE UStartThread
  <2>1. sent = <<>> /\ Len(sent) = 0 /\ UNCHANGED <<state, sent, frame, pausedAt>>
        /\ uPc' = "ready"
    BY <1>13 DEF UStartThread, SentInv
  <2> QED
    BY <2>1
<1> QED
  BY <1>1, <1>2, <1>3, <1>4, <1>5, <1>6, <1>7, <1>8, <1>9, <1>10, <1>11, <1>12, <1>13
  DEF InCommand

-----------------------------------------------------------------------------
(* The invariant of a record session, and what follows from it. *)

RecordInv ==
  TeardownInv /\ ReaderInv /\ JoinerInv /\ SentInv /\ QueueInv /\ PauseInv

(* At first nothing was read, sent or signalled. *)
LEMMA InitRecordInv == Init => RecordInv
<1> SUFFICES ASSUME Init
             PROVE  RecordInv
  OBVIOUS
<1>1. TeardownInv
  BY InitTeardownInv
<1>2. ReaderInv /\ JoinerInv
  BY DEF Init, ReaderInv, JoinerInv, InHand, DestroyPcs, Unbuilt
<1>3. SentInv /\ QueueInv
  BY NumberFacts DEF Init, SentInv, QueueInv, Building, Unbuilt, DestroyPcs, NoneDropped
<1>4. PauseInv
  BY DEF Init, PauseInv, DestroyPcs, Unbuilt, Building
<1> QED
  BY <1>1, <1>2, <1>3, <1>4 DEF RecordInv

(* Every reachable state of a record session satisfies RecordInv. *)
LEMMA RecordInvariant == Spec => []RecordInv
<1>1. RecordInv /\ [Next]_vars => RecordInv'
  <2> SUFFICES ASSUME RecordInv, [Next]_vars
               PROVE  RecordInv'
    OBVIOUS
  <2> USE DEF RecordInv
  <2>1. CASE UNCHANGED vars
    <3> USE <2>1 DEF vars, que, join, read, strm, wrk, ui
    <3>1. TeardownInv'
      BY DEF TeardownInv
    <3>2. ReaderInv' /\ JoinerInv'
      BY DEF ReaderInv, JoinerInv, InHand, FileDone
    <3>3. SentInv' /\ PauseInv'
      BY DEF SentInv, PauseInv
    <3>4. QueueInv'
      BY DEF QueueInv, NoneDropped, Read, InHand
    <3> QED
      BY <3>1, <3>2, <3>3, <3>4
  <2>2. CASE Streaming
    BY <2>2, StreamingTeardown, ReaderStreaming, JoinerStreaming, QueueStreaming, SentOthers,
       PauseOthers
  <2>3. CASE Joiner
    BY <2>3, JoinerTeardown, ReaderJoiner, JoinerJoiner, QueueJoiner, SentOthers, PauseOthers
  <2>4. CASE Worker
    BY <2>4, WorkerTeardown, ReaderWorker, JoinerWorker, QueueWorker, SentWorker, PauseWorker
  <2>5. CASE OnRecord \/ OnReinitOrClose \/ InCommand
    BY <2>5, CommandTeardown, ReaderCommand, JoinerCommand, QueueCommand, SentOthers,
       PauseOthers
  <2> QED
    BY <2>1, <2>2, <2>3, <2>4, <2>5 DEF Next
<1> QED
  BY InitRecordInv, <1>1, PTL DEF Spec

(* Destroy deletes joiner, queue and output only when the streaming thread, the
   joiner's thread and the worker are out of them, and only one of JoinerThread
   and CAVIJoiner::Stop touches m_reader at a time. *)
THEOREM NoUseAfterFreeSafe == Spec => []NoUseAfterFree
<1>1. RecordInv => NoUseAfterFree
  BY DEF RecordInv, TeardownInv, NoUseAfterFree
<1> QED
  BY RecordInvariant, <1>1, PTL

(* The DV device gets the frames of all files in order, none left out and none
   twice, for any number and length of files, any queue and any commands. *)
THEOREM SentInOrderSafe == Spec => []SentInOrder
<1>1. ASSUME RecordInv
      PROVE  SentInOrder
  <2> DEFINE n == Len(sent)
             m == Len(Frames)
  <2>1. /\ sent \in Seq(Nat \X Nat) /\ Frames \in Seq(Nat \X Nat)
        /\ \A i \in 1 .. n : IsFrame(sent[i]) /\ Number(sent[i]) = i
    BY <1>1, FramesAt DEF RecordInv, SentInv
  <2>2. n \in Nat /\ m \in Nat
    BY <2>1
  <2>3. \A i \in 1 .. n : i \in 1 .. m /\ Frames[i] = sent[i]
    <3> HIDE DEF n, m
    <3> SUFFICES ASSUME NEW i \in 1 .. n
                 PROVE  i \in 1 .. m /\ Frames[i] = sent[i]
      OBVIOUS
    <3> QED
      BY <2>1, FramesAt DEF m
  <2>4. n <= m
    <3> HIDE DEF n, m
    <3>1. n # 0 => n \in 1 .. n
      BY <2>2
    <3> QED
      BY <2>2, <2>3, <3>1
  <2>5. SubSeq(sent, 1, n) = SubSeq(Frames, 1, n)
    <3>1. SubSeq(sent, 1, n) = [i \in 1 .. n |-> sent[i]]
      BY <2>1, <2>2
    <3>2. SubSeq(Frames, 1, n) = [i \in 1 .. n |-> Frames[i]]
      BY <2>1, <2>2
    <3> QED
      BY <2>3, <3>1, <3>2
  <2> QED
    BY <2>4, <2>5 DEF SentInOrder, IsPrefix
<1> QED
  BY RecordInvariant, <1>1, PTL

(* As long as no Destroy is under way, the queue is told of the end of the
   stream only when the last file was read to its end and all of it was put. *)
THEOREM EndIsAfterLastFileSafe == Spec => []EndIsAfterLastFile
<1>1. ASSUME RecordInv
      PROVE  EndIsAfterLastFile
  <2> SUFFICES ASSUME end, uPc \notin DestroyPcs
               PROVE  file = Len(FileLengths) /\ pos > FileLengths[file] /\ sPc = "idle"
    BY DEF EndIsAfterLastFile
  <2>1. FileDone /\ cur = NFiles
    BY <1>1 DEF RecordInv, JoinerInv
  <2>2. file = cur
    BY <1>1, <2>1 DEF RecordInv, ReaderInv, FileDone
  <2> QED
    BY <2>1, <2>2 DEF FileDone, NFiles
<1> QED
  BY RecordInvariant, <1>1, PTL

(* After the user paused, at most one more frame reaches the DV device before
   the picture stands still, wherever RecordingThread was. *)
THEOREM PauseHoldsSafe == Spec => []PauseHolds
<1>1. RecordInv => PauseHolds
  BY DEF RecordInv, PauseInv, PauseHolds
<1> QED
  BY RecordInvariant, <1>1, PTL

=============================================================================
