---------------------------- MODULE OutputGraph ----------------------------
(***************************************************************************)
(* The output side of a record session: COutputGraph::HandleFrame with an  *)
(* output queue (CDVOutput, DShow.cpp; COutputQueue, baseclasses/          *)
(* outputq.cpp) from the running graph to the end of ~CDVOutput.           *)
(*                                                                         *)
(*   client    RecordingThread in HandleFrame, later the UI thread in      *)
(*             ~CDVOutput                                                  *)
(*   delivery  COutputQueue::ThreadProc                                    *)
(*   device    the DV device's filter: not in the repository               *)
(*                                                                         *)
(* Frames are copied into samples of the pin's pool.  COutputPin::Active   *)
(* makes the queue with batches of one sample, not exact, so that the      *)
(* batch is sent as soon as it holds a sample.  BeginFlush, NewSegment and *)
(* SendAnyway are called by nobody.  A critical section of COutputQueue is *)
(* one action; m_hr is also read outside of it, in a step of its own.      *)
(*                                                                         *)
(* A definition marked "Fault:" is a faulty variant of the one after it.   *)
(***************************************************************************)
EXTENDS Integers, Sequences, SequencesExt, SamplePool

CONSTANTS
  Frames,       \* the contents of frames; a call of HandleFrame has its own
  PoolSize,     \* samples of the pool: 10, or as many as the device asks for
  DeviceDepth,  \* samples the device holds before its Receive blocks
  DeviceFails,  \* Receive may fail
  BadFrames     \* frames for which GetPointer of the sample fails

ASSUME OutputAssumption ==
  /\ Frames \subseteq Nat \ {0} /\ BadFrames \subseteq Frames
  /\ PoolSize \in Nat \ {0} /\ DeviceDepth \in Nat \ {0}
  /\ DeviceFails \in BOOLEAN

Torn      == 0      \* what is behind a sample that is being copied into
EosPacket == -1     \* EOS_PACKET, in the list of samples but not one

VARIABLES
  pool, content,          \* the allocator; the bytes behind each sample
  list, hr, term,         \* m_List, m_hr, m_bTerminate
  lWaiting, sem,          \* m_lWaiting, m_hSem
  tPc, tSample, tHr,      \* ThreadProc: where, its batch, the result of Receive
  cPc, cSample, cFrame,   \* the client: where, its sample, its frame
  running, held, devEnd,  \* the device: started, samples it keeps, end of stream
  accepted, played        \* history: frames put into the queue, frames played

outQueue  == <<list, hr, term, lWaiting, sem>>
outThread == <<tPc, tSample, tHr>>
outClient == <<cPc, cSample, cFrame>>
outDevice == <<running, held, devEnd>>
outVars   == <<pool, content, outQueue, outThread, outClient, outDevice, accepted, played>>

(* CDVOutput is constructed: the graph runs. *)
OutInit ==
  /\ pool = NewPool(PoolSize) /\ content = [s \in Samples(PoolSize) |-> Torn]
  /\ list = <<>> /\ hr = "ok" /\ term = FALSE /\ lWaiting = 0 /\ sem = 0
  /\ tPc = "lock" /\ tSample = NoSample /\ tHr = "ok"
  /\ cPc = "idle" /\ cSample = NoSample /\ cFrame = Torn
  /\ running = TRUE /\ held = <<>> /\ devEnd = FALSE
  /\ accepted = <<>> /\ played = <<>>

CStep(from, to) == cPc = from /\ cPc' = to
TStep(from, to) == tPc = from /\ tPc' = to

-----------------------------------------------------------------------------
(* HandleFrame: a sample of the pool ... *)

OutCall(f) ==
  /\ CStep("idle", "getBuffer")
  /\ cFrame' = f
  /\ UNCHANGED <<pool, content, outQueue, outThread, cSample, outDevice, accepted, played>>

CGetBuffer ==
  /\ \/ /\ CanTake(pool) /\ CStep("getBuffer", "copy")
        /\ pool' = Take(pool) /\ cSample' = Head(pool.free)
     \/ /\ MustWait(pool) /\ CStep("getBuffer", "blocked")
        /\ pool' = SetWaiting(pool) /\ UNCHANGED cSample
  /\ UNCHANGED <<content, outQueue, outThread, cFrame, outDevice, accepted, played>>

CWoken ==
  /\ pool.sem > 0
  /\ CStep("blocked", "getBuffer")
  /\ pool' = Woken(pool)
  /\ UNCHANGED <<content, outQueue, outThread, cSample, cFrame, outDevice, accepted, played>>

(* ... the copy, which takes its time ... *)
CCopy ==
  /\ \/ /\ cFrame \notin BadFrames /\ CStep("copy", "copying")
        /\ content' = [content EXCEPT ![cSample] = Torn]
     \/ cFrame \in BadFrames /\ CStep("copy", "release") /\ UNCHANGED content
  /\ UNCHANGED <<pool, outQueue, outThread, cSample, cFrame, outDevice, accepted, played>>

CCopied ==
  /\ CStep("copying", "deliver")
  /\ content' = [content EXCEPT ![cSample] = cFrame]
  /\ UNCHANGED <<pool, outQueue, outThread, cSample, cFrame, outDevice, accepted, played>>

(* Fault: the delivery thread is not woken. *)
NotifyNobody == UNCHANGED <<lWaiting, sem>>

NotifyThread == sem' = sem + lWaiting /\ lWaiting' = 0

(* ... COutputPin::Deliver: into the list, with a reference of its own, unless an
   earlier sample was refused ... *)
CDeliver ==
  /\ CStep("deliver", "release")
  /\ \/ /\ hr = "ok"
        /\ pool' = AddRef(pool, cSample)
        /\ list' = Append(list, cSample) /\ accepted' = Append(accepted, cFrame)
        /\ NotifyThread
     \/ hr # "ok" /\ UNCHANGED <<pool, list, accepted, lWaiting, sem>>
  /\ UNCHANGED <<content, hr, term, outThread, cSample, cFrame, outDevice, played>>

CRelease ==
  /\ CStep("release", "idle")
  /\ pool' = Release(pool, cSample)
  /\ cSample' = NoSample
  /\ UNCHANGED <<content, outQueue, outThread, cFrame, outDevice, accepted, played>>

-----------------------------------------------------------------------------
(* ~CDVOutput, and the destructors of its base classes: end of stream ... *)

(* Fault: the device is told at once. *)
EndAtOnce ==
  /\ CStep("idle", "complete")
  /\ devEnd' = TRUE
  /\ UNCHANGED <<pool, content, outQueue, outThread, cSample, cFrame, running, held, accepted, played>>

OutClose ==
  /\ CStep("idle", "complete")
  /\ \/ hr = "ok" /\ list' = Append(list, EosPacket) /\ NotifyThread
     \/ hr # "ok" /\ UNCHANGED <<list, lWaiting, sem>>
  /\ UNCHANGED <<pool, content, hr, term, outThread, cSample, cFrame, outDevice, accepted, played>>

(* ... WaitForCompletion(5000), which may time out ... *)
CComplete ==
  /\ CStep("complete", "stop")
  /\ UNCHANGED <<pool, content, outQueue, outThread, cSample, cFrame, outDevice, accepted, played>>

(* ... Stop of the graph: first the device, which gives back its samples ... *)
CStop ==
  /\ CStep("stop", "terminate")
  /\ running' = FALSE
  /\ UNCHANGED <<pool, content, outQueue, outThread, cSample, cFrame, held, devEnd, accepted, played>>

(* ... then COutputPin::Inactive: ~COutputQueue, joined, and the allocator. *)
CTerminate ==
  /\ CStep("terminate", "join")
  /\ term' = TRUE /\ hr' = "stopped"
  /\ NotifyThread
  /\ UNCHANGED <<pool, content, list, outThread, cSample, cFrame, outDevice, accepted, played>>

CJoin ==
  /\ tPc = "exit"
  /\ CStep("join", "closed")
  /\ pool' = Decommit(pool)
  /\ UNCHANGED <<content, outQueue, outThread, cSample, cFrame, outDevice, accepted, played>>

OutClient == CGetBuffer \/ CWoken \/ CCopy \/ CCopied \/ CDeliver \/ CRelease
               \/ CComplete \/ CStop \/ CTerminate \/ CJoin

-----------------------------------------------------------------------------
(* ThreadProc.  One critical section: terminate (a step for each sample of
   FreeSamples, since nobody else looks at the list then), wait, or take a packet. *)

TFreeSample ==
  /\ term /\ list # <<>>
  /\ TStep("lock", "lock")
  /\ pool' = IF Head(list) = EosPacket THEN pool ELSE Release(pool, Head(list))
  /\ list' = Tail(list)
  /\ UNCHANGED <<content, hr, term, lWaiting, sem, tSample, tHr, outClient, outDevice, accepted, played>>

TTerminate ==
  /\ term /\ list = <<>>
  /\ TStep("lock", "exit")
  /\ UNCHANGED <<pool, content, outQueue, tSample, tHr, outClient, outDevice, accepted, played>>

TIdle ==
  /\ ~term /\ list = <<>>
  /\ TStep("lock", "wait")
  /\ lWaiting' = lWaiting + 1
  /\ UNCHANGED <<pool, content, list, hr, term, sem, tSample, tHr, outClient, outDevice, accepted, played>>

TWoken ==
  /\ sem > 0
  /\ TStep("wait", "lock")
  /\ sem' = sem - 1
  /\ UNCHANGED <<pool, content, list, hr, term, lWaiting, tSample, tHr, outClient, outDevice, accepted, played>>

TTake ==
  /\ ~term /\ list # <<>>
  /\ \/ Head(list) = EosPacket /\ TStep("lock", "end") /\ UNCHANGED tSample
     \/ Head(list) # EosPacket /\ TStep("lock", "send") /\ tSample' = Head(list)
  /\ list' = Tail(list)
  /\ UNCHANGED <<pool, content, hr, term, lWaiting, sem, tHr, outClient, outDevice, accepted, played>>

(* Fault: an earlier failure is not looked at. *)
TSendAnyway ==
  /\ TStep("send", "receive")
  /\ UNCHANGED <<pool, content, outQueue, tSample, tHr, outClient, outDevice, accepted, played>>

TSend ==
  /\ TStep("send", IF hr = "ok" THEN "receive" ELSE "release")
  /\ UNCHANGED <<pool, content, outQueue, tSample, tHr, outClient, outDevice, accepted, played>>

(* The device's Receive: the sample is kept, or refused, or the device is full
   and the call blocks. *)
TReceive ==
  /\ TStep("receive", "store")
  /\ \/ /\ running /\ Len(held) < DeviceDepth
        /\ pool' = AddRef(pool, tSample) /\ held' = Append(held, tSample) /\ tHr' = "ok"
     \/ /\ ~running \/ DeviceFails
        /\ tHr' = "failed" /\ UNCHANGED <<pool, held>>
  /\ UNCHANGED <<content, outQueue, tSample, outClient, running, devEnd, accepted, played>>

StickyResult == IF hr = "ok" THEN tHr ELSE hr

TStore ==
  /\ TStep("store", "release")
  /\ hr' = StickyResult /\ tHr' = "ok"
  /\ UNCHANGED <<pool, content, list, term, lWaiting, sem, tSample, outClient, outDevice, accepted, played>>

TRelease ==
  /\ TStep("release", "lock")
  /\ pool' = Release(pool, tSample)
  /\ tSample' = NoSample
  /\ UNCHANGED <<content, outQueue, tHr, outClient, outDevice, accepted, played>>

TEnd ==
  /\ TStep("end", "lock")
  /\ devEnd' = (devEnd \/ hr = "ok")
  /\ UNCHANGED <<pool, content, outQueue, tSample, tHr, outClient, running, held, accepted, played>>

OutDelivery == TFreeSample \/ TTerminate \/ TIdle \/ TWoken \/ TTake \/ TSend \/ TReceive
                 \/ TStore \/ TRelease \/ TEnd

(* The device transmits the oldest sample and gives it back; a stopped device
   gives back all. *)
DeviceGivesBack ==
  /\ held # <<>>
  /\ played' = IF running THEN Append(played, content[Head(held)]) ELSE played
  /\ held' = Tail(held)
  /\ pool' = Release(pool, Head(held))
  /\ UNCHANGED <<content, outQueue, outThread, outClient, running, devEnd, accepted>>

OutNext == OutClient \/ OutDelivery \/ DeviceGivesBack \/ OutClose \/ \E f \in Frames : OutCall(f)

OutSpec == OutInit /\ [][OutNext]_outVars

(* The threads are scheduled and the device transmits; RecordingThread need not
   have another frame, nor Destroy be called. *)
OutFairness == WF_outVars(OutClient) /\ WF_outVars(OutDelivery) /\ WF_outVars(DeviceGivesBack)

-----------------------------------------------------------------------------
(* The samples of the record pool are in the hands that their counts say, and a
   free one in nobody's: nothing is written over while it is queued or with the
   device. *)
CountOf(b) == IF b THEN 1 ELSE 0

Holders(s) ==
  CountOf(cSample = s) + CountOf(tSample = s)
    + CountOf(s \in ToSet(list)) + CountOf(s \in ToSet(held))

SamplesOwned ==
  \A s \in Samples(PoolSize) :
    /\ pool.ref[s] = Holders(s)
    /\ s \in ToSet(pool.free) <=> pool.ref[s] = 0

(* The device plays the frames in the order they were queued, each once and
   whole, as far as it got. *)
PlayedInOrder == IsPrefix(played, accepted)

(* Until the device refuses a frame it has every frame that left the queue, and
   the end of the stream comes after the last of them. *)
EndAfterLastFrame ==
  running /\ devEnd => Len(played) + Len(held) = Len(accepted)

(* The lazy signalling of both queues, which amfilter.h:1411 and outputq.cpp:260
   promise of every moment outside their locks: nobody waits while there is
   something for him, and each one who waits will be woken. *)
LazySignalling ==
  /\ pool.waiting + pool.sem = CountOf(cPc = "blocked")
  /\ pool.waiting > 0 => pool.free = <<>>
  /\ lWaiting + sem = CountOf(tPc = "wait")
  /\ lWaiting > 0 => list = <<>> /\ ~term
=============================================================================
