------------------------------- MODULE DVQueue -------------------------------
(***************************************************************************)
(* CDVQueue of DShow.h/DShow.cpp: the ring of DV frames between the thread *)
(* that produces them (the DirectShow streaming thread, or JoinerThread)   *)
(* and the worker that consumes them (CapturingThread, RecordingThread).   *)
(*                                                                         *)
(* Grain.  What happens between CAutoLock lock(&m_cs) and its release is   *)
(* one step; m_end is read and written outside the lock, so each access to *)
(* it is a step of its own, and so are the three statements of Put(NULL).  *)
(* m_evGet and m_evPut are CEvent objects built with the default           *)
(* constructor: auto-reset, so the wait that succeeds resets the event.    *)
(*                                                                         *)
(* A frame is the number of the Put call that brought it: 1, 2, 3, ...     *)
(***************************************************************************)
EXTENDS Integers, Sequences

CONSTANTS
  QueueSize,   \* the ctor's queueSize argument: 100 in BuildCapturing/BuildRecording
  MaxFrames,   \* bound on the frames the source offers (finite instances only)
  Closers,     \* the threads, other than the producer, that call Put(NULL)
  Timed        \* TRUE: the consumer calls GetWithTimeout, FALSE: Get

ASSUME QueueSizeAssumption == QueueSize \in Nat \ {0}
ASSUME MaxFramesAssumption == MaxFrames \in Nat
ASSUME TimedAssumption     == Timed \in BOOLEAN

Slots  == QueueSize + 1            \* m_queueSize
SlotIx == 0 .. Slots - 1
NoSlot == -1

VARIABLES
  head, tail, load,   \* m_head, m_tail, m_load
  slot,               \* the frame whose bytes each m_queue[i] holds
  end,                \* m_end
  evGet, evPut,       \* the two auto-reset events
  pPc,                \* where the producer is in Put
  nPut,               \* the number of frames Put was called with
  accepted,           \* the number of frames Put stored (history)
  cPc,                \* where the consumer is in Get and in its loop around it
  held,               \* the slot the consumer's *data pointer refers to
  delivered,          \* the number of frames Get returned (history)
  clPc                \* where each closer is in Put(NULL)

ring == <<head, tail, load, slot>>
prod == <<pPc, nPut, accepted>>
cons == <<cPc, held, delivered>>
vars == <<ring, end, evGet, evPut, prod, cons, clPc>>

ProducerPcs == {"idle", "test", "lock", "wait", "eosGet", "eosPut"}
ConsumerPcs == {"lock", "empty", "wait", "eos", "timeout", "done"}
CloserPcs   == {"idle", "eosGet", "eosPut", "done"}

Init ==
  /\ head = 0 /\ tail = 0 /\ load = 0
  /\ slot = [i \in SlotIx |-> 0]
  /\ end = FALSE
  /\ evGet = FALSE /\ evPut = FALSE
  /\ pPc = "idle" /\ nPut = 0 /\ accepted = 0
  /\ cPc = "lock" /\ held = NoSlot /\ delivered = 0
  /\ clPc = [c \in Closers |-> "idle"]

-----------------------------------------------------------------------------
(* The arithmetic of the ring.  Beside some definitions here stands a faulty
   variant, marked "Fault:"; the properties below tell the two apart. *)

(* Fault: the spare slot is used too. *)
RoomInEverySlot == load < Slots

HasRoom == load < Slots - 1

NextSlot(i) == (i + 1) % Slots

(* Fault: the frame is copied after m_tail was advanced. *)
StoredAfterAdvance == [slot EXCEPT ![NextSlot(tail)] = nPut]

Stored == [slot EXCEPT ![tail] = nPut]

(* Fault: Put stores without m_evGet.SetEvent(). *)
ForgetConsumer == UNCHANGED evGet

WakeConsumer == evGet' = TRUE

(* Fault: Get frees a slot without m_evPut.SetEvent(). *)
ForgetProducer == UNCHANGED evPut

WakeProducer == evPut' = TRUE

-----------------------------------------------------------------------------
(* The producer: CDVQueue::Put with a frame. *)

PutCall ==
  /\ pPc = "idle"
  /\ nPut < MaxFrames
  /\ nPut' = nPut + 1
  /\ pPc' = "test"
  /\ UNCHANGED <<ring, end, evGet, evPut, accepted, cons, clPc>>

(* while(!m_end): after end of stream the frame is dropped without a word. *)
PutTest ==
  /\ pPc = "test"
  /\ pPc' = IF end THEN "idle" ELSE "lock"
  /\ UNCHANGED <<ring, end, evGet, evPut, nPut, accepted, cons, clPc>>

(* The locked block with room: copy the frame, advance, wake the consumer. *)
PutStore ==
  /\ pPc = "lock"
  /\ HasRoom
  /\ slot' = Stored
  /\ tail' = NextSlot(tail)
  /\ load' = load + 1
  /\ WakeConsumer
  /\ accepted' = accepted + 1
  /\ pPc' = "idle"
  /\ UNCHANGED <<head, end, evPut, nPut, cons, clPc>>

(* Fault: a frame that finds the ring full is given up. *)
PutFullGivesUp ==
  /\ pPc = "lock"
  /\ ~HasRoom
  /\ pPc' = "idle"
  /\ UNCHANGED <<ring, end, evGet, evPut, nPut, accepted, cons, clPc>>

(* The locked block without room. *)
PutFull ==
  /\ pPc = "lock"
  /\ ~HasRoom
  /\ pPc' = "wait"
  /\ UNCHANGED <<ring, end, evGet, evPut, nPut, accepted, cons, clPc>>

(* CSingleLock lck(&m_evPut); lck.Lock() returns and resets the event. *)
PutWake ==
  /\ pPc = "wait"
  /\ evPut
  /\ evPut' = FALSE
  /\ pPc' = "test"
  /\ UNCHANGED <<ring, end, evGet, nPut, accepted, cons, clPc>>

(* The producer's own end of stream: CInputPin::EndOfStream or the joiner
   calls HandleFrame with data == NULL. *)
PutEndFlag ==
  /\ pPc = "idle"
  /\ end' = TRUE
  /\ pPc' = "eosGet"
  /\ UNCHANGED <<ring, evGet, evPut, nPut, accepted, cons, clPc>>

PutEndGet ==
  /\ pPc = "eosGet"
  /\ evGet' = TRUE
  /\ pPc' = "eosPut"
  /\ UNCHANGED <<ring, end, evPut, nPut, accepted, cons, clPc>>

PutEndPut ==
  /\ pPc = "eosPut"
  /\ evPut' = TRUE
  /\ pPc' = "idle"
  /\ UNCHANGED <<ring, end, evGet, nPut, accepted, cons, clPc>>

-----------------------------------------------------------------------------
(* A closer: Put(-1, NULL, 0) from Destroy or FinalizeCapturing. *)

CloseFlag(c) ==
  /\ clPc[c] = "idle"
  /\ end' = TRUE
  /\ clPc' = [clPc EXCEPT ![c] = "eosGet"]
  /\ UNCHANGED <<ring, evGet, evPut, prod, cons>>

CloseGet(c) ==
  /\ clPc[c] = "eosGet"
  /\ evGet' = TRUE
  /\ clPc' = [clPc EXCEPT ![c] = "eosPut"]
  /\ UNCHANGED <<ring, end, evPut, prod, cons>>

ClosePut(c) ==
  /\ clPc[c] = "eosPut"
  /\ evPut' = TRUE
  /\ clPc' = [clPc EXCEPT ![c] = "done"]
  /\ UNCHANGED <<ring, end, evGet, prod, cons>>

-----------------------------------------------------------------------------
(* The consumer: Get or GetWithTimeout, called again and again. *)

(* The locked block with a frame: hand out a pointer into the head slot. *)
GetTake ==
  /\ cPc = "lock"
  /\ load > 0
  /\ held' = head
  /\ head' = NextSlot(head)
  /\ load' = load - 1
  /\ WakeProducer
  /\ delivered' = delivered + 1
  /\ UNCHANGED <<tail, slot, end, evGet, prod, cPc, clPc>>

(* The locked block without a frame; the lock is released here. *)
GetEmpty ==
  /\ cPc = "lock"
  /\ load = 0
  /\ cPc' = "empty"
  /\ UNCHANGED <<ring, end, evGet, evPut, prod, held, delivered, clPc>>

(* Fault: an empty ring is waited for without looking at m_end. *)
GetNoTest ==
  /\ cPc = "empty"
  /\ cPc' = "wait"
  /\ UNCHANGED <<ring, end, evGet, evPut, prod, held, delivered, clPc>>

(* if (m_end) return false: tested after the lock was released. *)
GetTestEnd ==
  /\ cPc = "empty"
  /\ cPc' = IF end THEN "eos" ELSE "wait"
  /\ UNCHANGED <<ring, end, evGet, evPut, prod, held, delivered, clPc>>

GetWake ==
  /\ cPc = "wait"
  /\ evGet
  /\ evGet' = FALSE
  /\ cPc' = "lock"
  /\ UNCHANGED <<ring, end, evPut, prod, held, delivered, clPc>>

(* WaitForSingleObject returns WAIT_TIMEOUT. *)
GetTimeout ==
  /\ Timed
  /\ cPc = "wait"
  /\ ~evGet
  /\ cPc' = "timeout"
  /\ UNCHANGED <<ring, end, evGet, evPut, prod, held, delivered, clPc>>

(* The caller after Get returned false.  Plain Get: end of stream.  With a
   timeout CapturingThread reads m_end again to tell the two apart: it stops
   at end of stream, and without it stops if capturing (signal lost) and
   calls GetWithTimeout again if not. *)
CallerStops ==
  /\ \/ cPc = "eos"
     \/ cPc = "timeout"
  /\ cPc' = "done"
  /\ UNCHANGED <<ring, end, evGet, evPut, prod, held, delivered, clPc>>

CallerRetries ==
  /\ cPc = "timeout"
  /\ ~end
  /\ cPc' = "lock"
  /\ UNCHANGED <<ring, end, evGet, evPut, prod, held, delivered, clPc>>

-----------------------------------------------------------------------------
InPut == PutTest \/ PutStore \/ PutFull \/ PutWake \/ PutEndGet \/ PutEndPut

InGet == GetTake \/ GetEmpty \/ GetTestEnd \/ GetWake \/ CallerStops \/ CallerRetries

InClose(c) == CloseGet(c) \/ ClosePut(c)

Next ==
  \/ PutCall
  \/ PutEndFlag
  \/ InPut
  \/ InGet
  \/ GetTimeout
  \/ \E c \in Closers : CloseFlag(c) \/ InClose(c)

Spec == Init /\ [][Next]_vars

(* Fairness: a thread inside a call is scheduled.  None is assumed of the
   source (PutCall, PutEndFlag), of the user (CloseFlag) or of the timeout,
   which may be long and must not stand in for a lost wake-up. *)
FairSpec ==
  /\ Spec
  /\ WF_vars(InPut)
  /\ WF_vars(InGet)
  /\ \A c \in Closers : WF_vars(InClose(c))

-----------------------------------------------------------------------------
(* The ring in terms of its contents. *)

(* The slot i places after the head, for i in 0..Slots. *)
SlotAt(i) == IF head + i < Slots THEN head + i ELSE head + i - Slots

(* Every variable has its type. *)
TypeOK ==
  /\ head \in SlotIx /\ tail \in SlotIx
  /\ load \in 0 .. QueueSize
  /\ slot \in [SlotIx -> Nat]
  /\ end \in BOOLEAN /\ evGet \in BOOLEAN /\ evPut \in BOOLEAN
  /\ pPc \in ProducerPcs /\ nPut \in Nat /\ accepted \in Nat
  /\ cPc \in ConsumerPcs /\ held \in SlotIx \cup {NoSlot} /\ delivered \in Nat
  /\ clPc \in [Closers -> CloserPcs]

(* The bytes behind the pointer Get returned last are still those of the frame
   it returned, and that frame is the one after the frame returned before: the
   consumer works on *data outside the lock while Put goes on filling slots. *)
HeldFrameIntact == held # NoSlot => slot[held] = delivered

(* The occupied slots hold, from head to tail, exactly the accepted frames not
   yet delivered, in the order of their Put calls: no frame is lost, repeated
   or overtaken inside the ring. *)
RingHoldsFramesInOrder ==
  /\ accepted = delivered + load
  /\ tail = SlotAt(load)
  /\ \A i \in 0 .. load - 1 : slot[SlotAt(i)] = delivered + 1 + i

(* A Put that returned before end of stream stored its frame; after it frames
   are dropped from some point on, so that the accepted ones are the first. *)
AcceptedIsAPrefix ==
  /\ (~end /\ pPc = "idle") => accepted = nPut
  /\ pPc \in {"lock", "wait"} => accepted = nPut - 1
  /\ accepted <= nPut

(* A frame in hand before end of stream is the only one not accepted yet. *)
FrameInHand ==
  /\ (~end /\ pPc = "test") => accepted = nPut - 1
  /\ pPc \in {"eosGet", "eosPut"} => end

(* The slot handed out last is the one just behind the head: the extra slot
   keeps m_tail from reaching it. *)
HeldIsBehindHead == held # NoSlot => held = SlotAt(Slots - 1)

(* The inductive invariant: what each of the parts above needs of the others. *)
RingInv ==
  /\ TypeOK
  /\ HeldIsBehindHead
  /\ HeldFrameIntact
  /\ RingHoldsFramesInOrder
  /\ AcceptedIsAPrefix
  /\ FrameInHand

(* A producer blocked on a full ring gets out: the consumer makes room or end
   of stream wakes it.  The one exception is a consumer that stopped by itself,
   on a timeout, while no end of stream came. *)
BlockedPutReturns == pPc = "wait" ~> pPc = "idle" \/ (cPc = "done" /\ ~end)

(* End of stream reaches the consumer, wherever in Get it is. *)
EndStopsConsumer == end ~> cPc = "done"

(* A frame that was accepted is delivered, unless end of stream or the
   consumer's own timeout comes first. *)
AcceptedIsDelivered ==
  \A k \in 1 .. MaxFrames :
    accepted >= k ~> (delivered >= k \/ end \/ cPc = "done")

-----------------------------------------------------------------------------
(* The ring implements the bounded FIFO of FrameFIFO. *)

(* The frames in the ring, oldest first. *)
Contents == [i \in 1 .. load |-> slot[SlotAt(i - 1)]]

(* The frame the consumer's pointer refers to, 0 before the first Get. *)
HeldFrame == IF held = NoSlot THEN 0 ELSE slot[held]

FIFO == INSTANCE FrameFIFO WITH
  Capacity <- QueueSize,
  buf      <- Contents,
  newest   <- accepted,
  held     <- HeldFrame,
  closed   <- end

(* Every step of the ring is a step of the FIFO or leaves it unchanged. *)
ImplementsFIFO == FIFO!Spec
=============================================================================
