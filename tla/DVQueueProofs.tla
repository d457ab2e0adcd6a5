---------------------------- MODULE DVQueueProofs ----------------------------
(***************************************************************************)
(* Proofs about CDVQueue for every QueueSize, every number of frames and   *)
(* every set of closers: the ring keeps the accepted frames in order, and  *)
(* the slot a consumer is still reading is never written.                  *)
(***************************************************************************)
EXTENDS DVQueue, SequenceTheorems, TLAPS

(* (m_tail+1) % m_queueSize without the modulo. *)
LEMMA NextIndex ==
  ASSUME NEW i \in SlotIx
  PROVE  /\ NextSlot(i) \in SlotIx
         /\ NextSlot(i) = IF i + 1 = Slots THEN 0 ELSE i + 1
<1> USE QueueSizeAssumption DEF SlotIx, Slots, NextSlot
<1>1. CASE i + 1 = Slots
  BY <1>1
<1>2. CASE i + 1 # Slots
  <2>1. i + 1 \in 0 .. Slots - 1
    BY <1>2
  <2> QED
    BY <1>2, <2>1
<1> QED
  BY <1>1, <1>2

(* The initial state satisfies the inductive invariant. *)
LEMMA InitRingInv == Init => RingInv
<1> SUFFICES ASSUME Init
             PROVE  RingInv
  OBVIOUS
<1>1. TypeOK
  <2>1. 0 \in SlotIx /\ 0 \in 0 .. QueueSize /\ slot \in [SlotIx -> Nat]
    BY QueueSizeAssumption DEF Init, Slots, SlotIx
  <2>2. /\ pPc \in ProducerPcs /\ cPc \in ConsumerPcs
        /\ clPc \in [Closers -> CloserPcs]
    BY DEF Init, ProducerPcs, ConsumerPcs, CloserPcs
  <2>3. nPut \in Nat /\ accepted \in Nat /\ delivered \in Nat
    BY DEF Init
  <2> QED
    BY <2>1, <2>2, <2>3 DEF Init, TypeOK
<1>2. HeldIsBehindHead /\ HeldFrameIntact
  BY DEF Init, HeldIsBehindHead, HeldFrameIntact
<1>3. RingHoldsFramesInOrder
  BY QueueSizeAssumption DEF Init, RingHoldsFramesInOrder, SlotAt, Slots
<1>4. AcceptedIsAPrefix /\ FrameInHand
  BY DEF Init, AcceptedIsAPrefix, FrameInHand
<1> QED
  BY <1>1, <1>2, <1>3, <1>4 DEF RingInv

(* Put's locked block keeps the invariant: the tail slot is neither occupied
   nor the one the consumer holds. *)
LEMMA PutStoreKeepsRingInv == RingInv /\ PutStore => RingInv'
<1> SUFFICES ASSUME RingInv, PutStore
             PROVE  RingInv'
  OBVIOUS
<1> USE QueueSizeAssumption DEF HasRoom, Stored, WakeConsumer, WakeProducer
<1>n. /\ tail' \in SlotIx
      /\ tail' = IF tail + 1 = Slots THEN 0 ELSE tail + 1
  BY NextIndex DEF RingInv, TypeOK, PutStore
<1>1. TypeOK'
  BY <1>n DEF RingInv, TypeOK, PutStore, cons, ProducerPcs, Slots, SlotIx
<1>2. HeldIsBehindHead'
  BY DEF RingInv, HeldIsBehindHead, PutStore, cons, SlotAt
<1>3. HeldFrameIntact'
  <2>1. held # NoSlot => held # tail
    BY DEF RingInv, TypeOK, HeldIsBehindHead, RingHoldsFramesInOrder, PutStore,
           SlotAt, Slots, SlotIx
  <2> QED
    BY <2>1 DEF RingInv, TypeOK, HeldFrameIntact, PutStore, cons, NoSlot
<1>4. RingHoldsFramesInOrder'
  <2>a. accepted' = delivered' + load'
    <3>1. accepted = delivered + load /\ delivered \in Nat /\ load \in Nat
      BY DEF RingInv, TypeOK, RingHoldsFramesInOrder
    <3> QED
      BY <3>1 DEF PutStore, cons
  <2>t. tail' = SlotAt(load)'
    <3>1. tail = SlotAt(load) /\ head \in SlotIx /\ load \in 0 .. QueueSize - 1
      BY DEF RingInv, TypeOK, RingHoldsFramesInOrder, PutStore, Slots
    <3>2. head' = head /\ load' = load + 1
      BY DEF PutStore
    <3> QED
      BY <1>n, <3>1, <3>2 DEF SlotAt, Slots, SlotIx
  <2>2. ASSUME NEW i \in 0 .. load
        PROVE  slot'[SlotAt(i)] = delivered + 1 + i
    <3>1. CASE i = load
      BY <3>1 DEF RingInv, TypeOK, RingHoldsFramesInOrder, AcceptedIsAPrefix, PutStore
    <3>2. CASE i # load
      <4>1. i \in 0 .. load - 1 /\ SlotAt(i) # tail /\ SlotAt(i) \in SlotIx
        BY <3>2 DEF RingInv, TypeOK, RingHoldsFramesInOrder, PutStore, SlotAt,
                    Slots, SlotIx
      <4> QED
        BY <4>1 DEF RingInv, TypeOK, RingHoldsFramesInOrder, PutStore
    <3> QED
      BY <3>1, <3>2
  <2> QED
    BY <2>a, <2>t, <2>2 DEF RingInv, TypeOK, RingHoldsFramesInOrder, PutStore, cons, SlotAt
<1>5. AcceptedIsAPrefix' /\ FrameInHand'
  BY DEF RingInv, TypeOK, AcceptedIsAPrefix, FrameInHand, PutStore
<1> QED
  BY <1>1, <1>2, <1>3, <1>4, <1>5 DEF RingInv

(* Get's locked block keeps the invariant: the slot handed out becomes the one
   behind the head, and the rest of the ring is renumbered. *)
LEMMA GetTakeKeepsRingInv == RingInv /\ GetTake => RingInv'
<1> SUFFICES ASSUME RingInv, GetTake
             PROVE  RingInv'
  OBVIOUS
<1> USE QueueSizeAssumption DEF HasRoom, Stored, WakeConsumer, WakeProducer
<1>n. /\ head' \in SlotIx
      /\ head' = IF head + 1 = Slots THEN 0 ELSE head + 1
  BY NextIndex DEF RingInv, TypeOK, GetTake
<1>h. slot[head] = delivered + 1
  BY DEF RingInv, TypeOK, RingHoldsFramesInOrder, GetTake, SlotAt, Slots, SlotIx
<1>1. TypeOK'
  BY <1>n DEF RingInv, TypeOK, GetTake, prod, Slots, SlotIx
<1>2. HeldIsBehindHead'
  BY <1>n DEF RingInv, TypeOK, GetTake, HeldIsBehindHead, SlotAt, Slots, SlotIx
<1>3. HeldFrameIntact'
  BY <1>h DEF RingInv, TypeOK, GetTake, HeldFrameIntact
<1>4. RingHoldsFramesInOrder'
  <2>1. ASSUME NEW i \in 0 .. load
        PROVE  i + 1 <= load => SlotAt(i)' = SlotAt(i + 1)
    BY <1>n DEF RingInv, TypeOK, GetTake, SlotAt, Slots, SlotIx
  <2>2. accepted' = delivered' + load' /\ tail' = SlotAt(load)'
    <3>1. /\ accepted = delivered + load /\ tail = SlotAt(load)
          /\ delivered \in Nat /\ load \in Nat \ {0}
      BY DEF RingInv, TypeOK, RingHoldsFramesInOrder, GetTake
    <3>2. accepted' = delivered' + load'
      BY <3>1 DEF GetTake, prod
    <3>3. tail' = tail
      BY DEF GetTake
    <3>4. /\ head \in SlotIx /\ load \in 1 .. QueueSize
          /\ load' = load - 1
      BY DEF RingInv, TypeOK, GetTake
    <3>5. tail' = SlotAt(load)'
      BY <1>n, <3>1, <3>3, <3>4 DEF SlotAt, Slots, SlotIx
    <3> QED
      BY <3>2, <3>5
  <2>3. ASSUME NEW i \in 0 .. load' - 1
        PROVE  slot'[SlotAt(i)'] = delivered' + 1 + i
    <3>1. i + 1 \in 0 .. load - 1 /\ SlotAt(i)' = SlotAt(i + 1)
      BY <2>1 DEF RingInv, TypeOK, GetTake
    <3>2. slot[SlotAt(i + 1)] = delivered + 1 + (i + 1)
      BY <3>1 DEF RingInv, RingHoldsFramesInOrder
    <3> QED
      BY <3>1, <3>2 DEF RingInv, TypeOK, GetTake
  <2> QED
    BY <2>2, <2>3 DEF RingHoldsFramesInOrder
<1>5. AcceptedIsAPrefix' /\ FrameInHand'
  BY DEF RingInv, AcceptedIsAPrefix, FrameInHand, GetTake, prod
<1> QED
  BY <1>1, <1>2, <1>3, <1>4, <1>5 DEF RingInv

(* The other steps leave the ring alone. *)
LEMMA OtherStepsKeepRingInv ==
  ASSUME RingInv,
         \/ PutCall \/ PutTest \/ PutFull \/ PutWake
         \/ PutEndFlag \/ PutEndGet \/ PutEndPut
         \/ GetEmpty \/ GetTestEnd \/ GetWake \/ GetTimeout
         \/ CallerStops \/ CallerRetries
         \/ \E c \in Closers : CloseFlag(c) \/ CloseGet(c) \/ ClosePut(c)
         \/ UNCHANGED vars
  PROVE  RingInv'
<1>r. /\ UNCHANGED ring
      /\ UNCHANGED <<accepted, delivered, held>>
  BY DEF PutCall, PutTest, PutFull, PutWake, PutEndFlag, PutEndGet, PutEndPut,
         GetEmpty, GetTestEnd, GetWake, GetTimeout, CallerStops, CallerRetries,
         CloseFlag, CloseGet, ClosePut, vars, prod, cons
<1>1. TypeOK'
  <2>1. end' \in BOOLEAN /\ evGet' \in BOOLEAN /\ evPut' \in BOOLEAN
    BY DEF RingInv, TypeOK, PutCall, PutTest, PutFull, PutWake, PutEndFlag,
           PutEndGet, PutEndPut, GetEmpty, GetTestEnd, GetWake, GetTimeout,
           CallerStops, CallerRetries, CloseFlag, CloseGet, ClosePut, vars
  <2>2. pPc' \in ProducerPcs /\ nPut' \in Nat
    BY DEF RingInv, TypeOK, ProducerPcs, PutCall, PutTest, PutFull, PutWake,
           PutEndFlag, PutEndGet, PutEndPut, GetEmpty, GetTestEnd, GetWake,
           GetTimeout, CallerStops, CallerRetries, CloseFlag, CloseGet, ClosePut,
           vars, prod
  <2>3. cPc' \in ConsumerPcs
    BY DEF RingInv, TypeOK, ConsumerPcs, PutCall, PutTest, PutFull, PutWake,
           PutEndFlag, PutEndGet, PutEndPut, GetEmpty, GetTestEnd, GetWake,
           GetTimeout, CallerStops, CallerRetries, CloseFlag, CloseGet, ClosePut,
           vars, cons
  <2>4. clPc' \in [Closers -> CloserPcs]
    BY DEF RingInv, TypeOK, CloserPcs, PutCall, PutTest, PutFull, PutWake,
           PutEndFlag, PutEndGet, PutEndPut, GetEmpty, GetTestEnd, GetWake,
           GetTimeout, CallerStops, CallerRetries, CloseFlag, CloseGet, ClosePut,
           vars
  <2> QED
    BY <1>r, <2>1, <2>2, <2>3, <2>4 DEF RingInv, TypeOK, ring
<1>2. HeldIsBehindHead' /\ HeldFrameIntact'
  BY <1>r DEF RingInv, HeldIsBehindHead, HeldFrameIntact, SlotAt, ring
<1>3. RingHoldsFramesInOrder'
  BY <1>r DEF RingInv, RingHoldsFramesInOrder, SlotAt, ring
<1>4. AcceptedIsAPrefix' /\ FrameInHand'
  <2>1. CASE PutCall \/ PutTest \/ PutFull \/ PutWake
    BY <2>1 DEF RingInv, TypeOK, AcceptedIsAPrefix, FrameInHand, PutCall, PutTest, PutFull, PutWake
  <2>2. CASE PutEndFlag \/ PutEndGet \/ PutEndPut
    BY <2>2 DEF RingInv, TypeOK, AcceptedIsAPrefix, FrameInHand, PutEndFlag, PutEndGet, PutEndPut
  <2>3. CASE \/ GetEmpty \/ GetTestEnd \/ GetWake \/ GetTimeout
             \/ CallerStops \/ CallerRetries \/ UNCHANGED vars
    BY <2>3 DEF RingInv, AcceptedIsAPrefix, FrameInHand, GetEmpty, GetTestEnd, GetWake,
                GetTimeout, CallerStops, CallerRetries, vars, prod
  <2>4. CASE \E c \in Closers : CloseFlag(c) \/ CloseGet(c) \/ ClosePut(c)
    BY <2>4 DEF RingInv, AcceptedIsAPrefix, FrameInHand, CloseFlag, CloseGet, ClosePut, prod
  <2> QED
    BY <2>1, <2>2, <2>3, <2>4
<1> QED
  BY <1>1, <1>2, <1>3, <1>4 DEF RingInv

(* RingInv is an invariant of CDVQueue. *)
THEOREM RingInvariant == Spec => []RingInv
<1>1. Init => RingInv
  BY InitRingInv
<1>2. RingInv /\ [Next]_vars => RingInv'
  BY PutStoreKeepsRingInv, GetTakeKeepsRingInv, OtherStepsKeepRingInv
     DEF Next, InPut, InGet, InClose
<1> QED
  BY <1>1, <1>2, PTL DEF Spec

(* Every variable of the queue keeps its type; in particular m_load stays
   within 0..queueSize and the indices within the ring. *)
THEOREM TypeCorrect == Spec => []TypeOK
BY RingInvariant, PTL DEF RingInv

(* The frame a consumer is working on is not overwritten before its next Get,
   and it is the next one in order. *)
THEOREM HeldFrameSafe == Spec => []HeldFrameIntact
BY RingInvariant, PTL DEF RingInv

(* The ring neither loses, repeats nor reorders an accepted frame. *)
THEOREM RingOrderSafe == Spec => []RingHoldsFramesInOrder
BY RingInvariant, PTL DEF RingInv

(* Before end of stream no frame is dropped; afterwards only the newest are. *)
THEOREM PrefixSafe == Spec => []AcceptedIsAPrefix
BY RingInvariant, PTL DEF RingInv

-----------------------------------------------------------------------------
(* The ring read as a sequence: its length is m_load and its i-th element the
   i-th frame after those delivered. *)
ContentsOrdered ==
  /\ Contents \in Seq(Nat)
  /\ Len(Contents) = load
  /\ \A i \in 1 .. load : Contents[i] = delivered + i

(* The ring holds the frames after those delivered, in order. *)
LEMMA ContentsInOrder == RingInv => ContentsOrdered
<1> SUFFICES ASSUME RingInv
             PROVE  ContentsOrdered
  OBVIOUS
<1>1. load \in Nat /\ delivered \in Nat
  BY DEF RingInv, TypeOK
<1>2. ASSUME NEW i \in 1 .. load
      PROVE  slot[SlotAt(i - 1)] = delivered + i
  <2>1. i - 1 \in 0 .. load - 1
    BY <1>1
  <2>2. slot[SlotAt(i - 1)] = delivered + 1 + (i - 1)
    BY <2>1 DEF RingInv, RingHoldsFramesInOrder
  <2> QED
    BY <1>1, <2>2
<1>3. Contents \in [1 .. load -> Nat]
  BY <1>1, <1>2 DEF Contents
<1>4. Contents \in Seq(Nat) /\ Len(Contents) = load
  BY <1>1, <1>3
<1> QED
  BY <1>2, <1>4 DEF ContentsOrdered, Contents

(* A stored frame is one more at the tail of the sequence. *)
LEMMA PutStoreAccepts == RingInv /\ RingInv' /\ PutStore => FIFO!Accept
<1> SUFFICES ASSUME RingInv, RingInv', PutStore
             PROVE  FIFO!Accept
  OBVIOUS
<1>1. /\ load' = load + 1 /\ delivered' = delivered /\ accepted' = accepted + 1
      /\ held' = held /\ end' = end /\ load < QueueSize
      /\ load \in Nat /\ delivered \in Nat /\ accepted \in Nat
  BY QueueSizeAssumption DEF PutStore, HasRoom, cons, RingInv, TypeOK, Slots
<1>2. /\ Contents \in Seq(Nat) /\ Len(Contents) = load
      /\ \A i \in 1 .. load : Contents[i] = delivered + i
  BY ContentsInOrder DEF ContentsOrdered
<1>p. ContentsOrdered'
  BY ContentsInOrder, PTL
<1>3. /\ Contents' \in Seq(Nat) /\ Len(Contents') = load'
      /\ \A i \in 1 .. load' : Contents'[i] = delivered' + i
  BY <1>p DEF ContentsOrdered
<1>4. accepted' = delivered + load + 1
  BY <1>1 DEF RingInv, RingHoldsFramesInOrder
<1>5. Contents' = Append(Contents, accepted')
  <2> DEFINE appended == Append(Contents, accepted')
  <2>1. /\ appended \in Seq(Nat)
        /\ Len(appended) = load + 1
        /\ \A i \in 1 .. load + 1 :
             appended[i] = IF i = load + 1 THEN accepted' ELSE Contents[i]
    BY <1>1, <1>2
  <2>2. \A i \in 1 .. load + 1 : Contents'[i] = appended[i]
    BY <1>1, <1>2, <1>3, <1>4, <2>1
  <2> HIDE DEF appended
  <2> QED
    BY <1>1, <1>3, <2>1, <2>2, SeqEqual DEF appended
<1>6. HeldFrame' = HeldFrame
  BY <1>1 DEF HeldFrame, RingInv, HeldFrameIntact
<1> QED
  BY <1>1, <1>2, <1>5, <1>6 DEF FIFO!Accept

(* A frame taken is the head of the sequence. *)
LEMMA GetTakeDelivers == RingInv /\ RingInv' /\ GetTake => FIFO!Deliver
<1> SUFFICES ASSUME RingInv, RingInv', GetTake
             PROVE  FIFO!Deliver
  OBVIOUS
<1>1. /\ load' = load - 1 /\ delivered' = delivered + 1 /\ accepted' = accepted
      /\ held' = head /\ head \in Nat /\ end' = end /\ load > 0
      /\ load \in Nat /\ delivered \in Nat
  BY DEF GetTake, prod, RingInv, TypeOK, SlotIx
<1>2. /\ Contents \in Seq(Nat) /\ Len(Contents) = load
      /\ \A i \in 1 .. load : Contents[i] = delivered + i
  BY ContentsInOrder DEF ContentsOrdered
<1>p. ContentsOrdered'
  BY ContentsInOrder, PTL
<1>3. /\ Contents' \in Seq(Nat) /\ Len(Contents') = load'
      /\ \A i \in 1 .. load' : Contents'[i] = delivered' + i
  BY <1>p DEF ContentsOrdered
<1>4. Contents # <<>> /\ Head(Contents) = delivered + 1
  BY <1>1, <1>2
<1>5. Contents' = Tail(Contents)
  <2> DEFINE rest == Tail(Contents)
  <2>1. /\ rest \in Seq(Nat)
        /\ Len(rest) = load - 1
        /\ \A i \in 1 .. load - 1 : rest[i] = Contents[i + 1]
    BY <1>1, <1>2, <1>4, HeadTailProperties
  <2>2. \A i \in 1 .. load - 1 : Contents'[i] = rest[i]
    BY <1>1, <1>2, <1>3, <2>1
  <2> HIDE DEF rest
  <2> QED
    BY <1>1, <1>3, <2>1, <2>2, SeqEqual DEF rest
<1>6. HeldFrame' = Head(Contents)
  BY <1>1, <1>4 DEF HeldFrame, NoSlot, RingInv, HeldFrameIntact
<1> QED
  BY <1>1, <1>4, <1>5, <1>6 DEF FIFO!Deliver

(* Setting m_end closes the FIFO; everything else is invisible to it. *)
LEMMA OtherStepsCloseOrStutter ==
  ASSUME \/ PutCall \/ PutTest \/ PutFull \/ PutWake
         \/ PutEndFlag \/ PutEndGet \/ PutEndPut
         \/ GetEmpty \/ GetTestEnd \/ GetWake \/ GetTimeout
         \/ CallerStops \/ CallerRetries
         \/ \E c \in Closers : CloseFlag(c) \/ CloseGet(c) \/ ClosePut(c)
         \/ UNCHANGED vars,
         end \in BOOLEAN
  PROVE  FIFO!Close \/ UNCHANGED FIFO!vars
<1>1. UNCHANGED <<ring, accepted, held>> /\ (end' = end \/ end' = TRUE)
  BY DEF PutCall, PutTest, PutFull, PutWake, PutEndFlag, PutEndGet, PutEndPut,
         GetEmpty, GetTestEnd, GetWake, GetTimeout, CallerStops, CallerRetries,
         CloseFlag, CloseGet, ClosePut, vars, prod, cons
<1>2. Contents' = Contents /\ HeldFrame' = HeldFrame /\ accepted' = accepted
  BY <1>1 DEF Contents, HeldFrame, SlotAt, ring
<1>3. CASE end' = end
  BY <1>2, <1>3 DEF FIFO!vars
<1>4. CASE end' # end
  BY <1>1, <1>2, <1>4 DEF FIFO!Close
<1> QED
  BY <1>3, <1>4

(* CDVQueue implements the bounded FIFO: whatever the interleaving of Put, Get
   and Put(NULL), frames come out in the order they went in, at most QueueSize
   of them are inside, and end of stream is final. *)
THEOREM Refinement == Spec => ImplementsFIFO
<1>1. Init => FIFO!Init
  BY DEF Init, FIFO!Init, Contents, HeldFrame
<1>2. RingInv /\ RingInv' /\ [Next]_vars => [FIFO!Next]_FIFO!vars
  <2> SUFFICES ASSUME RingInv, RingInv', [Next]_vars
               PROVE  FIFO!Next \/ UNCHANGED FIFO!vars
    OBVIOUS
  <2>1. CASE PutStore
    BY <2>1, PutStoreAccepts DEF FIFO!Next
  <2>2. CASE GetTake
    BY <2>2, GetTakeDelivers DEF FIFO!Next
  <2>3. CASE ~PutStore /\ ~GetTake
    BY <2>3, OtherStepsCloseOrStutter
       DEF Next, InPut, InGet, InClose, FIFO!Next, RingInv, TypeOK
  <2> QED
    BY <2>1, <2>2, <2>3
<1> QED
  BY <1>1, <1>2, RingInvariant, PTL DEF Spec, ImplementsFIFO, FIFO!Spec
=============================================================================
