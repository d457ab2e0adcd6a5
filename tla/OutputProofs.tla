---------------------------- MODULE OutputProofs ----------------------------
(***************************************************************************)
(* Proofs about the two outputs of a record session for every number of    *)
(* samples, every device and every stream of frames: no wake-up of the DV  *)
(* output is lost, every sample is in the hands that its count says, the   *)
(* device plays the frames in order and the end of the stream last, and    *)
(* the preview neither sleeps forever nor goes back to an earlier frame.   *)
(*                                                                         *)
(* The inductive invariants, each one resting on those before it, are      *)
(*   SignalInv    who waits, in the allocator and in the output queue      *)
(*   OwnInv       who holds which sample of the DV output                  *)
(*   OrderInv     the frames between HandleFrame and the device            *)
(*   FrameInv     the frame in RecordingThread's hand                      *)
(*   PreviewInv   who holds which sample of the preview, whose turn it is  *)
(*                at the exposed one, and how old its frames are           *)
(***************************************************************************)
EXTENDS Outputs, SequenceTheorems, TLAPS

(* What an operator of SamplePool needs to know of a pool. *)
IsPool(p) ==
  /\ DOMAIN p = {"committed", "free", "ref", "waiting", "sem"}
  /\ p.waiting \in Nat /\ p.sem \in Nat

(* Nobody waits for a sample while there is one. *)
PoolSignals(p) == p.waiting > 0 => p.free = <<>>

(* LazySignalling is inductive as soon as the counters are numbers. *)
SignalInv ==
  /\ IsPool(pool) /\ lWaiting \in Nat /\ sem \in Nat
  /\ LazySignalling

-----------------------------------------------------------------------------
(* What the operators of SamplePool do to the counters. *)

(* NotifySample turns every wait into a word. *)
LEMMA NotifyMovesAll ==
  ASSUME NEW p, IsPool(p)
  PROVE  /\ IsPool(NotifySample(p)) /\ PoolSignals(NotifySample(p))
         /\ NotifySample(p).waiting + NotifySample(p).sem = p.waiting + p.sem
BY DEF IsPool, PoolSignals, NotifySample

(* A sample that is free again is told to whoever waits. *)
LEMMA ReleaseSignals ==
  ASSUME NEW p, NEW s, IsPool(p), PoolSignals(p)
  PROVE  /\ IsPool(Release(p, s)) /\ PoolSignals(Release(p, s))
         /\ Release(p, s).waiting + Release(p, s).sem = p.waiting + p.sem
<1> DEFINE q == [p EXCEPT !.ref[s] = 0, !.free = <<s>> \o @]
<1>1. CASE p.ref[s] > 1
  BY <1>1 DEF Release, IsPool, PoolSignals
<1>2. CASE ~(p.ref[s] > 1)
  <2>1. IsPool(q) /\ q.waiting = p.waiting /\ q.sem = p.sem
    BY DEF IsPool
  <2>2. Release(p, s) = NotifySample(q)
    BY <1>2 DEF Release
  <2> HIDE DEF q
  <2> QED
    BY <2>1, <2>2, NotifyMovesAll
<1> QED
  BY <1>1, <1>2

(* A reference more is nothing to wait for. *)
LEMMA AddRefSignals ==
  ASSUME NEW p, NEW s, IsPool(p), PoolSignals(p)
  PROVE  /\ IsPool(AddRef(p, s)) /\ PoolSignals(AddRef(p, s))
         /\ AddRef(p, s).waiting + AddRef(p, s).sem = p.waiting + p.sem
BY DEF AddRef, IsPool, PoolSignals

(* The end of the allocator is told as well. *)
LEMMA DecommitSignals ==
  ASSUME NEW p, IsPool(p)
  PROVE  /\ IsPool(Decommit(p)) /\ PoolSignals(Decommit(p))
         /\ Decommit(p).waiting + Decommit(p).sem = p.waiting + p.sem
<1> DEFINE q == [p EXCEPT !.committed = FALSE]
<1>1. IsPool(q) /\ q.waiting = p.waiting /\ q.sem = p.sem
  BY DEF IsPool
<1>2. Decommit(p) = NotifySample(q)
  BY DEF Decommit
<1> HIDE DEF q
<1> QED
  BY <1>1, <1>2, NotifyMovesAll

-----------------------------------------------------------------------------
(* The two halves of LazySignalling. *)

ClientSignals == IsPool(pool) /\ PoolSignals(pool)
                   /\ pool.waiting + pool.sem = CountOf(cPc = "blocked")
ThreadSignals == /\ lWaiting \in Nat /\ sem \in Nat
                 /\ lWaiting + sem = CountOf(tPc = "wait")
                 /\ lWaiting > 0 => list = <<>> /\ ~term

(* Together they are the invariant. *)
LEMMA Halves == SignalInv <=> ClientSignals /\ ThreadSignals
BY DEF SignalInv, LazySignalling, ClientSignals, ThreadSignals, PoolSignals

(* At first nobody waits. *)
LEMMA InitSignals == OutInit => SignalInv
<1> SUFFICES ASSUME OutInit PROVE SignalInv
  OBVIOUS
<1>1. ClientSignals
  BY DEF OutInit, NewPool, ClientSignals, IsPool, PoolSignals, CountOf
<1>2. ThreadSignals
  BY DEF OutInit, ThreadSignals, CountOf
<1> QED
  BY <1>1, <1>2, Halves

(* The allocator's half.  Whoever neither waits nor is woken only has to give
   samples back and take references by way of the pool's operators. *)
LEMMA ClientKeeps ==
  ASSUME ClientSignals, [OutNext]_outVars
  PROVE  ClientSignals'
<1>1. CASE /\ (cPc = "blocked") <=> (cPc' = "blocked")
           /\ \/ pool' = pool
              \/ \E s : pool' = Release(pool, s)
              \/ \E s : pool' = AddRef(pool, s)
              \/ pool' = Decommit(pool)
  <2>1. IsPool(pool') /\ PoolSignals(pool') /\ pool'.waiting + pool'.sem = pool.waiting + pool.sem
    BY <1>1, ReleaseSignals, AddRefSignals, DecommitSignals DEF ClientSignals
  <2>2. CountOf(cPc = "blocked")' = CountOf(cPc = "blocked")
    BY <1>1 DEF CountOf
  <2> QED
    BY <2>1, <2>2 DEF ClientSignals
<1>2. CASE CGetBuffer
  <2>1. CASE CanTake(pool) /\ pool' = Take(pool) /\ cPc = "getBuffer" /\ cPc' = "copy"
    <3>1. IsPool(pool') /\ pool'.waiting = pool.waiting /\ pool'.sem = pool.sem
      BY <2>1 DEF ClientSignals, IsPool, Take
    <3>2. pool.waiting = 0
      BY <2>1 DEF ClientSignals, IsPool, PoolSignals, CanTake
    <3> QED
      BY <2>1, <3>1, <3>2 DEF ClientSignals, PoolSignals, CountOf
  <2>2. CASE MustWait(pool) /\ pool' = SetWaiting(pool) /\ cPc = "getBuffer" /\ cPc' = "blocked"
    <3>1. IsPool(pool') /\ pool'.waiting = pool.waiting + 1 /\ pool'.sem = pool.sem
          /\ pool'.free = pool.free
      BY <2>2 DEF ClientSignals, IsPool, SetWaiting
    <3>2. pool.waiting + pool.sem = 0 /\ pool.free = <<>>
      BY <2>2 DEF ClientSignals, MustWait, CountOf
    <3> QED
      BY <2>2, <3>1, <3>2 DEF ClientSignals, PoolSignals, CountOf, IsPool
  <2> QED
    BY <1>2, <2>1, <2>2 DEF CGetBuffer, CStep
<1>3. CASE CWoken
  <2>1. pool.sem > 0 /\ pool' = Woken(pool) /\ cPc = "blocked" /\ cPc' = "getBuffer"
    BY <1>3 DEF CWoken, CStep
  <2>2. pool.waiting = 0 /\ pool.sem = 1
    BY <2>1 DEF ClientSignals, IsPool, CountOf
  <2>3. IsPool(pool') /\ pool'.waiting = 0 /\ pool'.sem = 0
    BY <2>1, <2>2 DEF ClientSignals, IsPool, Woken
  <2> QED
    BY <2>1, <2>3 DEF ClientSignals, PoolSignals, CountOf
<1>4. CASE CCopy \/ CCopied \/ CComplete \/ CStop \/ CTerminate \/ OutClose
             \/ \E f \in Frames : OutCall(f)
  BY <1>4, <1>1 DEF CCopy, CCopied, CComplete, CStop, CTerminate, OutClose, OutCall, CStep
<1>5. CASE CDeliver \/ CRelease \/ CJoin
  BY <1>5, <1>1 DEF CDeliver, CRelease, CJoin, CStep
<1>6. CASE OutDelivery
  BY <1>6, <1>1 DEF OutDelivery, TFreeSample, TTerminate, TIdle, TWoken, TTake, TSend,
     TReceive, TStore, TRelease, TEnd, outClient
<1>7. CASE DeviceGivesBack
  BY <1>7, <1>1 DEF DeviceGivesBack, outClient
<1>8. CASE UNCHANGED outVars
  BY <1>8, <1>1 DEF outVars, outClient
<1> QED
  BY <1>2, <1>3, <1>4, <1>5, <1>6, <1>7, <1>8 DEF OutNext, OutClient

(* The queue's half. *)
LEMMA ThreadKeeps ==
  ASSUME ThreadSignals, [OutNext]_outVars
  PROVE  ThreadSignals'
<1>1. CASE /\ (tPc = "wait") <=> (tPc' = "wait")
           /\ \/ UNCHANGED <<lWaiting, sem>> /\ term' = term /\ (list' = list \/ list # <<>>)
              \/ NotifyThread
  <2>1. CountOf(tPc = "wait")' = CountOf(tPc = "wait")
    BY <1>1 DEF CountOf
  <2> QED
    BY <1>1, <2>1 DEF ThreadSignals, NotifyThread
<1>2. CASE TIdle
  BY <1>2 DEF TIdle, TStep, ThreadSignals, CountOf
<1>3. CASE TWoken
  BY <1>3 DEF TWoken, TStep, ThreadSignals, CountOf
<1>4. CASE TFreeSample \/ TTerminate \/ TTake \/ TSend \/ TReceive \/ TStore
             \/ TRelease \/ TEnd
  BY <1>4, <1>1 DEF TFreeSample, TTerminate, TTake, TSend, TReceive, TStore, TRelease, TEnd,
     TStep, outQueue
<1>5. CASE CDeliver \/ OutClose \/ CTerminate
  BY <1>5, <1>1 DEF CDeliver, OutClose, CTerminate, outThread
<1>6. CASE \/ CGetBuffer \/ CWoken \/ CCopy \/ CCopied \/ CRelease \/ CComplete \/ CStop
           \/ CJoin \/ DeviceGivesBack \/ (\E f \in Frames : OutCall(f))
  BY <1>6, <1>1 DEF CGetBuffer, CWoken, CCopy, CCopied, CRelease, CComplete, CStop, CJoin,
     DeviceGivesBack, OutCall, outQueue, outThread
<1>7. CASE UNCHANGED outVars
  BY <1>7, <1>1 DEF outVars, outQueue, outThread
<1> QED
  BY <1>2, <1>3, <1>4, <1>5, <1>6, <1>7 DEF OutNext, OutClient, OutDelivery

(* In the DV output on its own nobody waits in vain. *)
LEMMA OutputSignals == OutSpec => []LazySignalling
<1>1. SignalInv /\ [OutNext]_outVars => SignalInv'
  <2> SUFFICES ASSUME SignalInv, [OutNext]_outVars PROVE SignalInv'
    OBVIOUS
  <2>1. ClientSignals /\ ThreadSignals
    BY Halves
  <2>2. ClientSignals' /\ ThreadSignals'
    BY <2>1, ClientKeeps, ThreadKeeps
  <2> QED
    BY <2>2 DEF SignalInv, LazySignalling, ClientSignals, ThreadSignals, PoolSignals
<1>2. SignalInv => LazySignalling
  BY DEF SignalInv
<1> QED
  BY <1>1, <1>2, InitSignals, PTL DEF OutSpec

-----------------------------------------------------------------------------
(* Lists that hold nothing twice. *)

Once(q) == \A i, j \in 1 .. Len(q) : q[i] = q[j] => i = j

(* What a list holds. *)
LEMMA Holds ==
  ASSUME NEW S, NEW q \in Seq(S)
  PROVE  /\ Len(q) \in Nat /\ DOMAIN q = 1 .. Len(q)
         /\ \A i \in 1 .. Len(q) : q[i] \in S /\ q[i] \in ToSet(q)
         /\ \A x \in ToSet(q) : x \in S /\ \E i \in 1 .. Len(q) : x = q[i]
         /\ q = <<>> <=> ToSet(q) = {}
         /\ q = <<>> <=> Len(q) = 0
<1>1. Len(q) \in Nat /\ DOMAIN q = 1 .. Len(q) /\ \A i \in 1 .. Len(q) : q[i] \in S
  OBVIOUS
<1>2. q = <<>> <=> Len(q) = 0
  OBVIOUS
<1>3. ToSet(q) = {q[i] : i \in 1 .. Len(q)}
  BY <1>1 DEF ToSet
<1> DEFINE n == Len(q)
           T == ToSet(q)
<1> HIDE DEF n, T
<1>4. T = {q[i] : i \in 1 .. n} /\ n \in Nat /\ (\A i \in 1 .. n : q[i] \in S)
      /\ (q = <<>> <=> n = 0)
  BY <1>1, <1>2, <1>3 DEF n, T
<1>5. /\ \A i \in 1 .. n : q[i] \in T
      /\ \A x \in T : x \in S /\ \E i \in 1 .. n : x = q[i]
  BY <1>4
<1>6. q = <<>> <=> T = {}
  <2>1. n # 0 => T # {}
    <3>1. n # 0 => 1 \in 1 .. n
      BY <1>4
    <3> QED
      BY <1>5, <3>1
  <2>2. n = 0 => T = {}
    <3>1. n = 0 => \A i \in 1 .. n : FALSE
      BY <1>4
    <3> QED
      BY <1>5, <3>1
  <2> QED
    BY <1>4, <2>1, <2>2
<1> QED
  BY <1>1, <1>2, <1>4, <1>5, <1>6 DEF n, T

(* Behind it comes what it does not yet hold. *)
LEMMA OnceAppend ==
  ASSUME NEW S, NEW q \in Seq(S), NEW x \in S, x \notin ToSet(q), Once(q)
  PROVE  /\ Append(q, x) \in Seq(S) /\ Once(Append(q, x))
         /\ ToSet(Append(q, x)) = ToSet(q) \cup {x}
         /\ Len(Append(q, x)) = Len(q) + 1
         /\ \A i \in 1 .. Len(q) : Append(q, x)[i] = q[i]
         /\ Append(q, x)[Len(q) + 1] = x
<1> DEFINE a == Append(q, x)
           n == Len(q)
<1>1. a \in Seq(S) /\ Len(a) = n + 1 /\ (\A i \in 1 .. n : a[i] = q[i]) /\ a[n + 1] = x
  BY AppendProperties
<1>2. n \in Nat /\ \A i \in 1 .. n : q[i] \in ToSet(q)
  BY Holds
<1>3. ToSet(q) = {q[i] : i \in 1 .. n} /\ ToSet(a) = {a[i] : i \in 1 .. n + 1}
  BY <1>1, Holds DEF ToSet
<1> HIDE DEF a, n
<1>4. ToSet(a) = ToSet(q) \cup {x}
  BY <1>1, <1>2, <1>3
<1>5. Once(a)
  <2> SUFFICES ASSUME NEW i \in 1 .. n + 1, NEW j \in 1 .. n + 1, a[i] = a[j]
               PROVE  i = j
    BY <1>1 DEF Once
  <2>1. CASE i \in 1 .. n /\ j \in 1 .. n
    BY <1>1, <2>1 DEF Once, n
  <2>2. CASE i = n + 1 \/ j = n + 1
    BY <1>1, <1>2, <2>2
  <2> QED
    BY <1>2, <2>1, <2>2
<1> QED
  BY <1>1, <1>4, <1>5 DEF a, n

(* Its first element is taken out of it. *)
LEMMA OnceTail ==
  ASSUME NEW S, NEW q \in Seq(S), q # <<>>, Once(q)
  PROVE  /\ Head(q) \in S /\ Head(q) \in ToSet(q) /\ Head(q) = q[1]
         /\ Tail(q) \in Seq(S) /\ Once(Tail(q))
         /\ ToSet(Tail(q)) = ToSet(q) \ {Head(q)}
         /\ Len(Tail(q)) = Len(q) - 1
         /\ \A i \in 1 .. Len(q) - 1 : Tail(q)[i] = q[i + 1]
<1> DEFINE t == Tail(q)
           n == Len(q)
           h == Head(q)
<1>1. t \in Seq(S) /\ Len(t) = n - 1 /\ h = q[1] /\ n \in Nat /\ n # 0
      /\ \A i \in 1 .. n - 1 : t[i] = q[i + 1]
  BY HeadTailProperties
<1>0. DOMAIN q = 1 .. n /\ DOMAIN t = 1 .. n - 1
  BY <1>1
<1>2. ToSet(q) = {q[i] : i \in 1 .. n} /\ ToSet(t) = {t[i] : i \in 1 .. n - 1}
  BY <1>0 DEF ToSet
<1>3. h \in S /\ h \in ToSet(q)
  BY <1>1, Holds
<1>4. \A i, j \in 1 .. n : q[i] = q[j] => i = j
  BY DEF Once
<1> HIDE DEF t, n, h
<1>5. Once(t)
  BY <1>1, <1>4 DEF Once
<1>6. ToSet(t) = ToSet(q) \ {h}
  <2>1. \A x \in ToSet(t) : x \in ToSet(q) /\ x # h
    BY <1>1, <1>2, <1>4
  <2>2. ASSUME NEW x \in ToSet(q), x # h
        PROVE  x \in ToSet(t)
    <3>1. PICK i \in 1 .. n : x = q[i]
      BY <1>2
    <3>2. i - 1 \in 1 .. n - 1 /\ t[i - 1] = q[(i - 1) + 1] /\ (i - 1) + 1 = i
      BY <1>1, <2>2, <3>1
    <3> QED
      BY <1>2, <3>1, <3>2
  <2> QED
    BY <2>1, <2>2
<1> QED
  BY <1>1, <1>3, <1>5, <1>6 DEF t, n, h

(* The free list of the allocator, to which a sample is put back in front. *)
LEMMA OncePush ==
  ASSUME NEW S, NEW q \in Seq(S), NEW x \in S, x \notin ToSet(q), Once(q)
  PROVE  /\ <<x>> \o q \in Seq(S) /\ Once(<<x>> \o q)
         /\ ToSet(<<x>> \o q) = ToSet(q) \cup {x}
<1> DEFINE a == <<x>> \o q
           n == Len(q)
<1>1. a \in Seq(S) /\ Len(a) = n + 1 /\ a[1] = x /\ n \in Nat
      /\ \A i \in 1 .. n : a[i + 1] = q[i]
  <2>1. <<x>> \in Seq(S) /\ Len(<<x>>) = 1 /\ <<x>>[1] = x
    OBVIOUS
  <2>2. Len(a) = 1 + n /\ n \in Nat
        /\ \A i \in 1 .. 1 + n : a[i] = IF i <= 1 THEN <<x>>[i] ELSE q[i - 1]
    BY <2>1, ConcatProperties
  <2>3. a \in Seq(S)
    BY <2>1, ConcatProperties
  <2> HIDE DEF a, n
  <2> QED
    BY <2>1, <2>2, <2>3
<1>2. \A i \in 1 .. n : q[i] \in ToSet(q)
  BY Holds
<1>3. ToSet(q) = {q[i] : i \in 1 .. n} /\ ToSet(a) = {a[i] : i \in 1 .. n + 1}
  BY <1>1, Holds DEF ToSet
<1>4. \A i, j \in 1 .. n : q[i] = q[j] => i = j
  BY DEF Once
<1> HIDE DEF a, n
<1>5. \A i \in 1 .. n + 1 : i = 1 \/ (i - 1 \in 1 .. n /\ a[i] = q[i - 1])
  <2> TAKE i \in 1 .. n + 1
  <2>1. CASE i # 1
    <3>1. i - 1 \in 1 .. n /\ (i - 1) + 1 = i
      BY <1>1, <2>1
    <3> QED
      BY <1>1, <3>1
  <2> QED
    BY <2>1
<1>6. Once(a)
  <2> SUFFICES ASSUME NEW i \in 1 .. n + 1, NEW j \in 1 .. n + 1, a[i] = a[j]
               PROVE  i = j
    BY <1>1 DEF Once
  <2>1. CASE i = 1 /\ j # 1
    <3>1. a[j] \in ToSet(q) /\ a[i] = x
      BY <1>1, <1>2, <1>5, <2>1
    <3> QED
      BY <3>1
  <2>2. CASE i # 1 /\ j = 1
    <3>1. a[i] \in ToSet(q) /\ a[j] = x
      BY <1>1, <1>2, <1>5, <2>2
    <3> QED
      BY <3>1
  <2>3. CASE i # 1 /\ j # 1
    <3>1. i - 1 = j - 1
      BY <1>4, <1>5, <2>3
    <3> QED
      BY <1>1, <3>1
  <2> QED
    BY <2>1, <2>2, <2>3
<1>7. ToSet(a) = ToSet(q) \cup {x}
  <2>1. \A y \in ToSet(a) : y \in ToSet(q) \cup {x}
    <3> SUFFICES ASSUME NEW i \in 1 .. n + 1
                 PROVE  a[i] \in ToSet(q) \cup {x}
      BY <1>3
    <3> QED
      BY <1>1, <1>2, <1>5
  <2>2. x \in ToSet(a) /\ \A y \in ToSet(q) : y \in ToSet(a)
    <3>1. 1 \in 1 .. n + 1 /\ \A i \in 1 .. n : i + 1 \in 1 .. n + 1
      BY <1>1
    <3> QED
      BY <1>1, <1>3, <3>1
  <2> QED
    BY <2>1, <2>2
<1> QED
  BY <1>1, <1>6, <1>7 DEF a

-----------------------------------------------------------------------------
(* The allocator of n samples counts: a sample is free when nobody holds it. *)
PoolOK(p, n) ==
  /\ p \in Pools(n) /\ Once(p.free)
  /\ \A s \in Samples(n) : s \in ToSet(p.free) <=> p.ref[s] = 0

(* The fields of a pool, and a pool of such fields. *)
LEMMA PoolFields ==
  ASSUME NEW n, NEW p \in Pools(n)
  PROVE  /\ p.committed \in BOOLEAN /\ p.free \in Seq(Samples(n))
         /\ p.ref \in [Samples(n) -> Nat] /\ p.waiting \in Nat /\ p.sem \in Nat
BY DEF Pools

(* A pool of these samples, with these counts. *)
IsLike(q, n, f, r, c) == q \in Pools(n) /\ q.free = f /\ q.ref = r /\ q.committed = c

(* What becomes of the fields when some of them are written: the counts alone, *)
LEMMA WithRef ==
  ASSUME NEW n, NEW p \in Pools(n), NEW r \in [Samples(n) -> Nat]
  PROVE  IsLike([p EXCEPT !.ref = r], n, p.free, r, p.committed)
BY PoolFields DEF IsLike, Pools

(* a sample that is taken, *)
LEMMA WithFreeRef ==
  ASSUME NEW n, NEW p \in Pools(n), NEW f \in Seq(Samples(n)), NEW r \in [Samples(n) -> Nat]
  PROVE  IsLike([p EXCEPT !.free = f, !.ref = r], n, f, r, p.committed)
BY PoolFields DEF IsLike, Pools

(* a sample that is given back, *)
LEMMA WithRefFree ==
  ASSUME NEW n, NEW p \in Pools(n), NEW f \in Seq(Samples(n)), NEW r \in [Samples(n) -> Nat]
  PROVE  IsLike([p EXCEPT !.ref = r, !.free = f], n, f, r, p.committed)
BY PoolFields DEF IsLike, Pools

(* a wait that begins, *)
LEMMA WithWaiting ==
  ASSUME NEW n, NEW p \in Pools(n), NEW w \in Nat
  PROVE  IsLike([p EXCEPT !.waiting = w], n, p.free, p.ref, p.committed)
BY PoolFields DEF IsLike, Pools

(* a wait that ends, *)
LEMMA WithSem ==
  ASSUME NEW n, NEW p \in Pools(n), NEW m \in Nat
  PROVE  IsLike([p EXCEPT !.sem = m], n, p.free, p.ref, p.committed)
BY PoolFields DEF IsLike, Pools

(* the words to all who wait, *)
LEMMA WithWaits ==
  ASSUME NEW n, NEW p \in Pools(n), NEW w \in Nat, NEW m \in Nat
  PROVE  IsLike([p EXCEPT !.sem = m, !.waiting = w], n, p.free, p.ref, p.committed)
BY PoolFields DEF IsLike, Pools

(* and the commands of the graph. *)
LEMMA WithCommitted ==
  ASSUME NEW n, NEW p \in Pools(n), NEW c \in BOOLEAN
  PROVE  IsLike([p EXCEPT !.committed = c], n, p.free, p.ref, c)
BY PoolFields DEF IsLike, Pools

(* What the counts say depends on samples and counts alone. *)
LEMMA LikeOK ==
  ASSUME NEW n, NEW f, NEW r, NEW q, NEW c, IsLike(q, n, f, r, c), Once(f),
         \A s \in Samples(n) : s \in ToSet(f) <=> r[s] = 0
  PROVE  PoolOK(q, n)
BY DEF IsLike, PoolOK

(* At first every sample is free. *)
LEMMA NewPoolOK ==
  ASSUME NEW n \in Nat
  PROVE  PoolOK(NewPool(n), n) /\ \A s \in Samples(n) : NewPool(n).ref[s] = 0
<1> DEFINE f == [s \in Samples(n) |-> s]
<1>1. f \in Seq(Samples(n)) /\ Len(f) = n /\ \A i \in 1 .. n : f[i] = i
  BY DEF Samples
<1>2. ToSet(f) = Samples(n)
  BY <1>1 DEF ToSet, Samples
<1>3. NewPool(n) \in Pools(n) /\ NewPool(n).free = f
      /\ \A s \in Samples(n) : NewPool(n).ref[s] = 0
  BY <1>1 DEF NewPool, Pools
<1>4. Once(f)
  BY <1>1 DEF Once
<1> HIDE DEF f
<1> QED
  BY <1>2, <1>3, <1>4 DEF PoolOK

(* GetBuffer takes a sample that nobody holds. *)
LEMMA TakeOK ==
  ASSUME NEW n \in Nat, NEW p, PoolOK(p, n), p.free # <<>>
  PROVE  /\ PoolOK(Take(p), n)
         /\ Head(p.free) \in Samples(n) /\ p.ref[Head(p.free)] = 0
         /\ Take(p).ref[Head(p.free)] = 1 /\ Take(p).committed = p.committed
         /\ \A s \in Samples(n) : s # Head(p.free) => Take(p).ref[s] = p.ref[s]
<1> DEFINE h == Head(p.free)
           t == Tail(p.free)
           r == [p.ref EXCEPT ![h] = 1]
<1>1. p \in Pools(n) /\ p.free \in Seq(Samples(n)) /\ p.ref \in [Samples(n) -> Nat]
  BY PoolFields DEF PoolOK
<1>2. h \in Samples(n) /\ h \in ToSet(p.free) /\ t \in Seq(Samples(n)) /\ Once(t)
      /\ ToSet(t) = ToSet(p.free) \ {h}
  BY <1>1, OnceTail DEF PoolOK
<1>3. Take(p) = [p EXCEPT !.free = t, !.ref = r]
  BY DEF Take
<1> HIDE DEF h, t
<1>4. r \in [Samples(n) -> Nat] /\ r[h] = 1 /\ \A s \in Samples(n) : s # h => r[s] = p.ref[s]
  BY <1>1, <1>2
<1> HIDE DEF r
<1>5. IsLike(Take(p), n, t, r, p.committed)
  <2>1. IsLike([p EXCEPT !.free = t, !.ref = r], n, t, r, p.committed)
    BY <1>1, <1>2, <1>4, WithFreeRef
  <2> QED
    BY <1>3, <2>1
<1>6. \A s \in Samples(n) : s \in ToSet(t) <=> r[s] = 0
  BY <1>2, <1>4 DEF PoolOK
<1>7. p.ref[h] = 0
  BY <1>2 DEF PoolOK
<1> QED
  BY <1>2, <1>4, <1>5, <1>6, <1>7, LikeOK DEF IsLike, h

(* Whoever holds a sample may pass it on. *)
LEMMA AddRefOK ==
  ASSUME NEW n \in Nat, NEW p, PoolOK(p, n), NEW x \in Samples(n), p.ref[x] > 0
  PROVE  /\ PoolOK(AddRef(p, x), n)
         /\ AddRef(p, x).ref[x] = p.ref[x] + 1 /\ AddRef(p, x).committed = p.committed
         /\ \A s \in Samples(n) : s # x => AddRef(p, x).ref[s] = p.ref[s]
<1> DEFINE r == [p.ref EXCEPT ![x] = p.ref[x] + 1]
<1>1. p \in Pools(n) /\ p.free \in Seq(Samples(n)) /\ p.ref \in [Samples(n) -> Nat]
      /\ Once(p.free) /\ \A s \in Samples(n) : s \in ToSet(p.free) <=> p.ref[s] = 0
  BY PoolFields DEF PoolOK
<1>2. AddRef(p, x) = [p EXCEPT !.ref = r]
  BY DEF AddRef
<1>3. r \in [Samples(n) -> Nat] /\ r[x] = p.ref[x] + 1
      /\ \A s \in Samples(n) : s # x => r[s] = p.ref[s]
  BY <1>1
<1> HIDE DEF r
<1>4. IsLike(AddRef(p, x), n, p.free, r, p.committed)
  BY <1>1, <1>2, <1>3, WithRef
<1>5. p.ref[x] \in Nat /\ p.ref[x] + 1 # 0 /\ p.ref[x] # 0
  BY <1>1
<1>6. \A s \in Samples(n) : s \in ToSet(p.free) <=> r[s] = 0
  BY <1>1, <1>3, <1>5
<1> QED
  BY <1>1, <1>3, <1>4, <1>6, LikeOK DEF IsLike

(* The words to those who wait change no sample. *)
LEMMA NotifyOK ==
  ASSUME NEW n \in Nat, NEW p, PoolOK(p, n)
  PROVE  /\ PoolOK(NotifySample(p), n) /\ NotifySample(p).ref = p.ref
         /\ NotifySample(p).committed = p.committed
<1>1. p \in Pools(n) /\ p.free \in Seq(Samples(n)) /\ p.ref \in [Samples(n) -> Nat]
      /\ p.sem + p.waiting \in Nat
  BY PoolFields DEF PoolOK
<1>2. NotifySample(p) = [p EXCEPT !.sem = p.sem + p.waiting, !.waiting = 0]
  BY DEF NotifySample
<1>3. IsLike(NotifySample(p), n, p.free, p.ref, p.committed)
  <2>1. IsLike([p EXCEPT !.sem = p.sem + p.waiting, !.waiting = 0], n, p.free, p.ref, p.committed)
    BY <1>1, WithWaits
  <2> QED
    BY <1>2, <2>1
<1> QED
  BY <1>3 DEF PoolOK, IsLike

(* A sample that is given back is free again when nobody else holds it. *)
LEMMA ReleaseOK ==
  ASSUME NEW n \in Nat, NEW p, PoolOK(p, n), NEW x \in Samples(n), p.ref[x] > 0
  PROVE  /\ PoolOK(Release(p, x), n)
         /\ Release(p, x).ref[x] = p.ref[x] - 1 /\ Release(p, x).committed = p.committed
         /\ \A s \in Samples(n) : s # x => Release(p, x).ref[s] = p.ref[s]
<1>1. p \in Pools(n) /\ p.free \in Seq(Samples(n)) /\ p.ref \in [Samples(n) -> Nat]
      /\ Once(p.free) /\ \A s \in Samples(n) : s \in ToSet(p.free) <=> p.ref[s] = 0
  BY PoolFields DEF PoolOK
<1>2. CASE p.ref[x] > 1
  <2> DEFINE r == [p.ref EXCEPT ![x] = p.ref[x] - 1]
  <2>1. Release(p, x) = [p EXCEPT !.ref = r]
    BY <1>2 DEF Release
  <2>2. r \in [Samples(n) -> Nat] /\ r[x] = p.ref[x] - 1
        /\ \A s \in Samples(n) : s # x => r[s] = p.ref[s]
    BY <1>1, <1>2
  <2> HIDE DEF r
  <2>3. IsLike(Release(p, x), n, p.free, r, p.committed)
    BY <1>1, <2>1, <2>2, WithRef
  <2>4. p.ref[x] \in Nat /\ p.ref[x] - 1 # 0 /\ p.ref[x] # 0
    BY <1>1, <1>2
  <2>5. \A s \in Samples(n) : s \in ToSet(p.free) <=> r[s] = 0
    BY <1>1, <2>2, <2>4
  <2> QED
    BY <1>1, <2>2, <2>3, <2>5, LikeOK DEF IsLike
<1>3. CASE p.ref[x] = 1
  <2> DEFINE f == <<x>> \o p.free
             r == [p.ref EXCEPT ![x] = 0]
             q == [p EXCEPT !.ref = r, !.free = f]
  <2>1. f \in Seq(Samples(n)) /\ Once(f) /\ ToSet(f) = ToSet(p.free) \cup {x}
    BY <1>1, <1>3, OncePush
  <2>2. Release(p, x) = NotifySample(q)
    BY <1>3 DEF Release
  <2> HIDE DEF f
  <2>3. r \in [Samples(n) -> Nat] /\ r[x] = 0 /\ \A s \in Samples(n) : s # x => r[s] = p.ref[s]
    BY <1>1
  <2> HIDE DEF r
  <2>4. IsLike(q, n, f, r, p.committed)
    BY <1>1, <2>1, <2>3, WithRefFree
  <2> HIDE DEF q
  <2>5. \A s \in Samples(n) : s \in ToSet(f) <=> r[s] = 0
    BY <1>1, <2>1, <2>3
  <2>6. PoolOK(q, n)
    BY <2>1, <2>4, <2>5, LikeOK
  <2>7. q.ref = r /\ q.committed = p.committed
    BY <2>4 DEF IsLike
  <2> QED
    BY <1>3, <2>2, <2>3, <2>6, <2>7, NotifyOK
<1> QED
  BY <1>1, <1>2, <1>3

(* The waits, and the commands of the graph, change no sample. *)
LEMMA WaitsOK ==
  ASSUME NEW n \in Nat, NEW p, PoolOK(p, n)
  PROVE  /\ PoolOK(SetWaiting(p), n) /\ SetWaiting(p).ref = p.ref
         /\ p.sem > 0 => PoolOK(Woken(p), n) /\ Woken(p).ref = p.ref
         /\ PoolOK(Commit(p), n) /\ Commit(p).ref = p.ref
         /\ PoolOK(Decommit(p), n) /\ Decommit(p).ref = p.ref
<1>1. p \in Pools(n) /\ p.free \in Seq(Samples(n)) /\ p.ref \in [Samples(n) -> Nat]
      /\ p.waiting + 1 \in Nat /\ p.sem \in Nat
  BY PoolFields DEF PoolOK
<1>2. SetWaiting(p) = [p EXCEPT !.waiting = p.waiting + 1]
  BY DEF SetWaiting
<1>3. IsLike(SetWaiting(p), n, p.free, p.ref, p.committed)
  BY <1>1, <1>2, WithWaiting
<1>4. Woken(p) = [p EXCEPT !.sem = p.sem - 1]
  BY DEF Woken
<1>5. p.sem > 0 => p.sem - 1 \in Nat
  BY <1>1
<1>6. p.sem > 0 => IsLike(Woken(p), n, p.free, p.ref, p.committed)
  BY <1>1, <1>4, <1>5, WithSem
<1>7. IsLike([p EXCEPT !.committed = TRUE], n, p.free, p.ref, TRUE)
  BY <1>1, WithCommitted
<1>8. IsLike(Commit(p), n, p.free, p.ref, TRUE)
  BY <1>7 DEF Commit
<1> DEFINE q == [p EXCEPT !.committed = FALSE]
<1>9. IsLike(q, n, p.free, p.ref, FALSE) /\ Decommit(p) = NotifySample(q)
  BY <1>1, WithCommitted DEF Decommit
<1> HIDE DEF q
<1>10. PoolOK(q, n) /\ q.ref = p.ref
  BY <1>9 DEF PoolOK, IsLike
<1> QED
  BY <1>3, <1>6, <1>8, <1>9, <1>10, NotifyOK DEF PoolOK, IsLike

-----------------------------------------------------------------------------
(* The hands of the DV output: the client's, the delivery thread's, the list's
   and the device's. *)

Fresh   == cPc \in {"copy", "copying", "deliver"}
Sending == tPc \in {"send", "receive"}
Past    == cPc \in {"complete", "stop", "terminate", "join", "closed"}

(* One sample has one place, except that the client and the delivery thread keep
   their own reference to what they passed on. *)
HandsInv ==
  /\ cSample \in Samples(PoolSize) \cup {NoSample}
  /\ cSample # NoSample <=> cPc \in {"copy", "copying", "deliver", "release"}
  /\ tSample \in Samples(PoolSize) \cup {NoSample}
  /\ tSample # NoSample <=> tPc \in {"send", "receive", "store", "release"}
  /\ list \in Seq(Samples(PoolSize) \cup {EosPacket}) /\ Once(list)
  /\ held \in Seq(Samples(PoolSize)) /\ Once(held)
  /\ \A s \in Samples(PoolSize) :
       /\ cSample = s /\ Fresh => s \notin ToSet(list) /\ s \notin ToSet(held) /\ s # tSample
       /\ tSample = s => s \notin ToSet(list)
       /\ tSample = s /\ Sending => s \notin ToSet(held)
       /\ s \in ToSet(list) => s \notin ToSet(held)

(* The end of the stream is the last packet of the list, and nothing follows it. *)
EndInv ==
  /\ EosPacket \in ToSet(list) => Past /\ list[Len(list)] = EosPacket
  /\ tPc = "end" \/ devEnd => list = <<>> /\ ~Sending /\ Past

(* The count of a sample is the number of hands it is in. *)
CountsInv ==
  PoolOK(pool, PoolSize) /\ \A s \in Samples(PoolSize) : pool.ref[s] = Holders(s)

(* The DV output's samples, their counts and the end of its stream. *)
OwnInv == HandsInv /\ EndInv /\ CountsInv

(* A sample is in somebody's hands when its count says so. *)
LEMMA InHands ==
  ASSUME OwnInv
  PROVE  /\ PoolSize \in Nat
         /\ EosPacket \notin Samples(PoolSize) /\ NoSample \notin Samples(PoolSize)
         /\ pool.free \in Seq(Samples(PoolSize))
         /\ \A s \in Samples(PoolSize) :
              /\ pool.ref[s] \in Nat
              /\ pool.ref[s] = 0 <=> /\ cSample # s /\ tSample # s
                                     /\ s \notin ToSet(list) /\ s \notin ToSet(held)
<1>1. PoolSize \in Nat /\ EosPacket \notin Samples(PoolSize) /\ NoSample \notin Samples(PoolSize)
  BY OutputAssumption DEF Samples, EosPacket, NoSample
<1>2. pool \in Pools(PoolSize)
  BY DEF OwnInv, CountsInv, PoolOK
<1>3. pool.free \in Seq(Samples(PoolSize)) /\ pool.ref \in [Samples(PoolSize) -> Nat]
  BY <1>2, PoolFields
<1>4. ASSUME NEW s \in Samples(PoolSize)
      PROVE  /\ pool.ref[s] \in Nat
             /\ pool.ref[s] = 0 <=> /\ cSample # s /\ tSample # s
                                    /\ s \notin ToSet(list) /\ s \notin ToSet(held)
  <2>1. pool.ref[s] = CountOf(cSample = s) + CountOf(tSample = s)
                        + CountOf(s \in ToSet(list)) + CountOf(s \in ToSet(held))
    BY DEF OwnInv, CountsInv, Holders
  <2> QED
    BY <1>3, <2>1 DEF CountOf
<1> QED
  BY <1>1, <1>3, <1>4

(* At first every sample is free. *)
LEMMA InitOwn == OutInit => OwnInv
<1> SUFFICES ASSUME OutInit PROVE OwnInv
  OBVIOUS
<1>1. PoolSize \in Nat
  BY OutputAssumption
<1>2. ToSet(<<>>) = {} /\ Once(<<>>)
  BY DEF ToSet, Once
<1>3. NoSample \notin Samples(PoolSize)
  BY DEF Samples, NoSample
<1>4. HandsInv
  BY <1>2 DEF OutInit, HandsInv, Fresh, Sending
<1>5. EndInv
  BY <1>2 DEF OutInit, EndInv
<1>6. CountsInv
  BY <1>1, <1>2, <1>3, NewPoolOK DEF OutInit, CountsInv, Holders, CountOf
<1> QED
  BY <1>4, <1>5, <1>6 DEF OwnInv

(* Steps that leave the samples where they are. *)
LEMMA OwnStays ==
  ASSUME OwnInv,
         \/ pool' = pool \/ pool' = SetWaiting(pool) \/ pool' = Decommit(pool)
         \/ pool.sem > 0 /\ pool' = Woken(pool),
         UNCHANGED <<cSample, tSample, list, held, devEnd>>,
         Fresh' => Fresh, Sending' => Sending, Past => Past', tPc' = "end" => tPc = "end",
         (cPc \in {"copy", "copying", "deliver", "release"})' <=>
           cPc \in {"copy", "copying", "deliver", "release"},
         (tPc \in {"send", "receive", "store", "release"})' <=>
           tPc \in {"send", "receive", "store", "release"}
  PROVE  OwnInv'
<1>1. HandsInv'
  BY DEF OwnInv, HandsInv
<1>2. EndInv'
  BY DEF OwnInv, EndInv
<1>3. CountsInv'
  <2>1. PoolOK(pool', PoolSize) /\ pool'.ref = pool.ref
    BY InHands, WaitsOK DEF OwnInv, CountsInv
  <2> QED
    BY <2>1 DEF OwnInv, CountsInv, Holders
<1> QED
  BY <1>1, <1>2, <1>3 DEF OwnInv

(* RecordingThread takes a sample, passes it on and gives it back. *)
LEMMA OwnClient ==
  ASSUME OwnInv, OutClient \/ OutClose \/ (\E f \in Frames : OutCall(f))
  PROVE  OwnInv'
<1> USE DEF CStep, outThread, outQueue, outDevice
<1>1. CASE \/ CWoken \/ CCopy \/ CCopied \/ CComplete \/ CStop \/ CTerminate \/ CJoin
           \/ (\E f \in Frames : OutCall(f))
  BY <1>1, OwnStays DEF CWoken, CCopy, CCopied, CComplete, CStop, CTerminate, CJoin, OutCall,
     Fresh, Sending, Past
<1>2. CASE CGetBuffer
  <2>1. CASE MustWait(pool) /\ CStep("getBuffer", "blocked") /\ pool' = SetWaiting(pool)
             /\ UNCHANGED cSample
    BY <1>2, <2>1, OwnStays DEF CGetBuffer, Fresh, Sending, Past
  <2>2. CASE CanTake(pool) /\ CStep("getBuffer", "copy") /\ pool' = Take(pool)
             /\ cSample' = Head(pool.free)
    <3> DEFINE h == Head(pool.free)
    <3>1. /\ PoolOK(pool', PoolSize) /\ h \in Samples(PoolSize)
          /\ pool.ref[h] = 0 /\ pool'.ref[h] = 1
          /\ \A s \in Samples(PoolSize) : s # h => pool'.ref[s] = pool.ref[s]
      BY <2>2, InHands, TakeOK DEF CanTake, OwnInv, CountsInv
    <3>2. /\ cSample' = h /\ cSample = NoSample /\ cPc = "getBuffer" /\ cPc' = "copy"
          /\ UNCHANGED <<list, tPc, tSample, held, devEnd>>
      BY <1>2, <2>2 DEF CGetBuffer, OwnInv, HandsInv
    <3> HIDE DEF h
    <3>3. h # tSample /\ h \notin ToSet(list) /\ h \notin ToSet(held) /\ h # NoSample
      BY <3>1, InHands
    <3>4. HandsInv'
      BY <3>1, <3>2, <3>3 DEF OwnInv, HandsInv, Fresh, Sending
    <3>5. EndInv'
      BY <3>2 DEF OwnInv, EndInv, Sending, Past
    <3>6. CountsInv'
      BY <3>1, <3>2, <3>3, InHands DEF OwnInv, CountsInv, Holders, CountOf
    <3> QED
      BY <3>4, <3>5, <3>6 DEF OwnInv
  <2> QED
    BY <1>2, <2>1, <2>2 DEF CGetBuffer
<1>3. CASE CDeliver
  <2>1. CASE hr # "ok" /\ UNCHANGED <<pool, list, accepted, lWaiting, sem>>
    BY <1>3, <2>1, OwnStays DEF CDeliver, Fresh, Sending, Past
  <2>2. CASE hr = "ok" /\ pool' = AddRef(pool, cSample) /\ list' = Append(list, cSample)
    <3>1. /\ cPc = "deliver" /\ cPc' = "release"
          /\ UNCHANGED <<cSample, tPc, tSample, held, devEnd>>
      BY <1>3 DEF CDeliver
    <3>2. cSample \in Samples(PoolSize) /\ cSample \notin ToSet(list)
          /\ cSample \notin ToSet(held) /\ cSample # tSample
      BY <3>1 DEF OwnInv, HandsInv, Fresh
    <3>3. /\ PoolOK(pool', PoolSize) /\ pool'.ref[cSample] = pool.ref[cSample] + 1
          /\ \A s \in Samples(PoolSize) : s # cSample => pool'.ref[s] = pool.ref[s]
      BY <2>2, <3>2, InHands, AddRefOK DEF OwnInv, CountsInv
    <3>4. list \in Seq(Samples(PoolSize) \cup {EosPacket}) /\ Once(list)
      BY DEF OwnInv, HandsInv
    <3>5. /\ list' \in Seq(Samples(PoolSize) \cup {EosPacket}) /\ Once(list')
          /\ ToSet(list') = ToSet(list) \cup {cSample}
      BY <2>2, <3>2, <3>4, OnceAppend
    <3>6. HandsInv'
      BY <3>1, <3>2, <3>5 DEF OwnInv, HandsInv, Fresh, Sending
    <3>7. EndInv'
      BY <3>1, <3>2, <3>5, InHands DEF OwnInv, EndInv, Sending, Past
    <3>8. CountsInv'
      BY <3>1, <3>2, <3>3, <3>5, InHands DEF OwnInv, CountsInv, Holders, CountOf
    <3> QED
      BY <3>6, <3>7, <3>8 DEF OwnInv
  <2> QED
    BY <1>3, <2>1, <2>2 DEF CDeliver
<1>4. CASE CRelease
  <2>1. /\ cPc = "release" /\ cPc' = "idle" /\ pool' = Release(pool, cSample)
        /\ cSample' = NoSample /\ UNCHANGED <<list, tPc, tSample, held, devEnd>>
    BY <1>4 DEF CRelease
  <2>2. cSample \in Samples(PoolSize)
    BY <2>1 DEF OwnInv, HandsInv
  <2>3. pool.ref[cSample] > 0
    BY <2>2, InHands
  <2>4. /\ PoolOK(pool', PoolSize) /\ pool'.ref[cSample] = pool.ref[cSample] - 1
        /\ \A s \in Samples(PoolSize) : s # cSample => pool'.ref[s] = pool.ref[s]
    BY <2>1, <2>2, <2>3, InHands, ReleaseOK DEF OwnInv, CountsInv
  <2>5. HandsInv'
    BY <2>1 DEF OwnInv, HandsInv, Fresh, Sending
  <2>6. EndInv'
    BY <2>1 DEF OwnInv, EndInv, Sending, Past
  <2>7. CountsInv'
    BY <2>1, <2>2, <2>4, InHands DEF OwnInv, CountsInv, Holders, CountOf
  <2> QED
    BY <2>5, <2>6, <2>7 DEF OwnInv
<1>5. CASE OutClose
  <2>1. CASE hr # "ok" /\ UNCHANGED <<list, lWaiting, sem>>
    BY <1>5, <2>1, OwnStays DEF OutClose, Fresh, Sending, Past
  <2>2. CASE hr = "ok" /\ list' = Append(list, EosPacket)
    <3>1. /\ cPc = "idle" /\ cPc' = "complete"
          /\ UNCHANGED <<pool, cSample, tPc, tSample, held, devEnd>>
      BY <1>5 DEF OutClose
    <3>2. EosPacket \notin ToSet(list) /\ tPc # "end" /\ ~devEnd
      BY <3>1 DEF OwnInv, EndInv, Past
    <3>3. list \in Seq(Samples(PoolSize) \cup {EosPacket}) /\ Once(list)
      BY DEF OwnInv, HandsInv
    <3>4. /\ list' \in Seq(Samples(PoolSize) \cup {EosPacket}) /\ Once(list')
          /\ ToSet(list') = ToSet(list) \cup {EosPacket}
          /\ Len(list') = Len(list) + 1 /\ list'[Len(list) + 1] = EosPacket
      BY <2>2, <3>2, <3>3, OnceAppend
    <3>5. HandsInv'
      BY <3>1, <3>4, InHands DEF OwnInv, HandsInv, Fresh, Sending
    <3>6. EndInv'
      BY <3>1, <3>2, <3>4 DEF EndInv, Past
    <3>7. CountsInv'
      BY <3>1, <3>4, InHands DEF OwnInv, CountsInv, Holders, CountOf
    <3> QED
      BY <3>5, <3>6, <3>7 DEF OwnInv
  <2> QED
    BY <1>5, <2>1, <2>2 DEF OutClose
<1> QED
  BY <1>1, <1>2, <1>3, <1>4, <1>5 DEF OutClient

(* The delivery thread takes a packet out of the list. *)
LEMMA OwnTaken ==
  ASSUME OwnInv, list # <<>>, list' = Tail(list)
  PROVE  /\ list' \in Seq(Samples(PoolSize) \cup {EosPacket}) /\ Once(list')
         /\ ToSet(list') = ToSet(list) \ {Head(list)} /\ Head(list) \in ToSet(list)
         /\ Head(list) \in Samples(PoolSize) \cup {EosPacket}
         /\ EosPacket \in ToSet(list') => list'[Len(list')] = EosPacket
         /\ Head(list) = EosPacket => list' = <<>>
<1> DEFINE n == Len(list)
<1>1. list \in Seq(Samples(PoolSize) \cup {EosPacket}) /\ Once(list)
  BY DEF OwnInv, HandsInv
<1>2. /\ list' \in Seq(Samples(PoolSize) \cup {EosPacket}) /\ Once(list')
      /\ ToSet(list') = ToSet(list) \ {Head(list)} /\ Head(list) \in ToSet(list)
      /\ Head(list) \in Samples(PoolSize) \cup {EosPacket} /\ Head(list) = list[1]
      /\ Len(list') = n - 1 /\ \A i \in 1 .. n - 1 : list'[i] = list[i + 1]
  BY <1>1, OnceTail
<1>3. n \in Nat /\ n # 0 /\ (list' = <<>> <=> Len(list') = 0)
  <2>1. n \in Nat /\ n # 0
    BY <1>1
  <2>2. list' = <<>> <=> Len(list') = 0
    <3> DEFINE t == list'
    <3>1. t \in Seq(Samples(PoolSize) \cup {EosPacket})
      BY <1>2
    <3> HIDE DEF t
    <3>2. t = <<>> <=> Len(t) = 0
      BY <3>1
    <3> QED
      BY <3>2 DEF t
  <2> QED
    BY <2>1, <2>2
<1>4. EosPacket \in ToSet(list) => list[n] = EosPacket
  BY DEF OwnInv, EndInv
<1>5. \A i, j \in 1 .. n : list[i] = list[j] => i = j
  BY <1>1 DEF Once
<1> HIDE DEF n
<1>6. ASSUME EosPacket \in ToSet(list')
      PROVE  list'[Len(list')] = EosPacket
  <2>1. n # 1
    BY <1>2, <1>3, <1>6, Holds
  <2>2. n - 1 \in 1 .. n - 1 /\ (n - 1) + 1 = n
    BY <1>3, <2>1
  <2> QED
    BY <1>2, <1>4, <1>6, <2>2
<1>7. Head(list) = EosPacket => list' = <<>>
  <2>1. 1 \in 1 .. n /\ n \in 1 .. n
    BY <1>3
  <2>2. Head(list) = EosPacket => n = 1
    BY <1>2, <1>4, <1>5, <2>1
  <2> QED
    BY <1>2, <1>3, <2>2
<1> QED
  BY <1>2, <1>6, <1>7

(* The delivery thread takes a sample over from the list, and passes it on. *)
LEMMA OwnDelivery == OwnInv /\ OutDelivery => OwnInv'
<1> SUFFICES ASSUME OwnInv, OutDelivery PROVE OwnInv'
  OBVIOUS
<1> USE DEF TStep, outClient, outQueue, outDevice
<1>1. CASE TTerminate \/ TIdle \/ TWoken \/ TStore
  BY <1>1, OwnStays DEF TTerminate, TIdle, TWoken, TStore, Fresh, Sending, Past
<1>2. CASE TSend
  BY <1>2, OwnStays DEF TSend, Fresh, Sending, Past
<1>3. CASE TFreeSample
  <2> DEFINE h == Head(list)
  <2>1. /\ list # <<>> /\ list' = Tail(list)
        /\ UNCHANGED <<cPc, cSample, tPc, tSample, held, devEnd>>
        /\ pool' = IF h = EosPacket THEN pool ELSE Release(pool, h)
    BY <1>3 DEF TFreeSample
  <2>2. /\ list' \in Seq(Samples(PoolSize) \cup {EosPacket}) /\ Once(list')
        /\ ToSet(list') = ToSet(list) \ {h} /\ h \in ToSet(list)
        /\ h \in Samples(PoolSize) \cup {EosPacket}
        /\ EosPacket \in ToSet(list') => list'[Len(list')] = EosPacket
    BY <2>1, OwnTaken
  <2> HIDE DEF h
  <2>3. HandsInv'
    BY <2>1, <2>2 DEF OwnInv, HandsInv, Fresh, Sending
  <2>4. EndInv'
    BY <2>1, <2>2 DEF OwnInv, EndInv, Sending, Past
  <2>5. CASE h = EosPacket
    <3>1. CountsInv'
      BY <2>1, <2>2, <2>5, InHands DEF OwnInv, CountsInv, Holders, CountOf
    <3> QED
      BY <2>3, <2>4, <3>1 DEF OwnInv
  <2>6. CASE h \in Samples(PoolSize)
    <3>1. /\ PoolOK(pool', PoolSize) /\ pool'.ref[h] = pool.ref[h] - 1
          /\ \A s \in Samples(PoolSize) : s # h => pool'.ref[s] = pool.ref[s]
      <4>1. pool.ref[h] > 0 /\ h # EosPacket
        BY <2>2, <2>6, InHands
      <4> QED
        BY <2>1, <2>6, <4>1, InHands, ReleaseOK DEF OwnInv, CountsInv
    <3>2. CountsInv'
      BY <2>1, <2>2, <2>6, <3>1, InHands DEF OwnInv, CountsInv, Holders, CountOf
    <3> QED
      BY <2>3, <2>4, <3>2 DEF OwnInv
  <2> QED
    BY <2>2, <2>5, <2>6
<1>4. CASE TTake
  <2> DEFINE h == Head(list)
  <2>1. /\ list # <<>> /\ list' = Tail(list) /\ tPc = "lock"
        /\ UNCHANGED <<pool, cPc, cSample, held, devEnd>>
        /\ \/ h = EosPacket /\ tPc' = "end" /\ tSample' = tSample
           \/ h # EosPacket /\ tPc' = "send" /\ tSample' = h
    BY <1>4 DEF TTake
  <2>2. /\ list' \in Seq(Samples(PoolSize) \cup {EosPacket}) /\ Once(list')
        /\ ToSet(list') = ToSet(list) \ {h} /\ h \in ToSet(list)
        /\ h \in Samples(PoolSize) \cup {EosPacket}
        /\ EosPacket \in ToSet(list') => list'[Len(list')] = EosPacket
        /\ h = EosPacket => list' = <<>>
    BY <2>1, OwnTaken
  <2> HIDE DEF h
  <2>3. tSample = NoSample /\ ~devEnd
    <3>1. tSample = NoSample
      BY <2>1 DEF OwnInv, HandsInv
    <3>2. devEnd => list = <<>>
      BY DEF OwnInv, EndInv
    <3> QED
      BY <2>1, <3>1, <3>2
  <2>4. EosPacket \in ToSet(list) => Past
    BY DEF OwnInv, EndInv
  <2>5. EndInv'
    BY <2>1, <2>2, <2>3, <2>4 DEF EndInv, Sending, Past
  <2>6. HandsInv'
    BY <2>1, <2>2, <2>3, InHands DEF OwnInv, HandsInv, Fresh, Sending
  <2>7. CountsInv'
    BY <2>1, <2>2, <2>3, InHands DEF OwnInv, CountsInv, HandsInv, Holders, CountOf
  <2> QED
    BY <2>5, <2>6, <2>7 DEF OwnInv
<1>5. CASE TReceive
  <2>1. CASE tHr' = "failed" /\ UNCHANGED <<pool, held>>
    BY <1>5, <2>1, OwnStays DEF TReceive, Fresh, Sending, Past
  <2>2. CASE pool' = AddRef(pool, tSample) /\ held' = Append(held, tSample)
    <3>1. /\ tPc = "receive" /\ tPc' = "store"
          /\ UNCHANGED <<cPc, cSample, tSample, list, devEnd>>
      BY <1>5 DEF TReceive
    <3>2. tSample \in Samples(PoolSize) /\ tSample \notin ToSet(list)
          /\ tSample \notin ToSet(held) /\ (Fresh => cSample # tSample)
      BY <3>1 DEF OwnInv, HandsInv, Sending
    <3>3. /\ PoolOK(pool', PoolSize) /\ pool'.ref[tSample] = pool.ref[tSample] + 1
          /\ \A s \in Samples(PoolSize) : s # tSample => pool'.ref[s] = pool.ref[s]
      BY <2>2, <3>2, InHands, AddRefOK DEF OwnInv, CountsInv
    <3>4. held \in Seq(Samples(PoolSize)) /\ Once(held)
      BY DEF OwnInv, HandsInv
    <3>5. /\ held' \in Seq(Samples(PoolSize)) /\ Once(held')
          /\ ToSet(held') = ToSet(held) \cup {tSample}
      BY <2>2, <3>2, <3>4, OnceAppend
    <3>6. HandsInv'
      BY <3>1, <3>2, <3>5 DEF OwnInv, HandsInv, Fresh, Sending
    <3>7. EndInv'
      BY <3>1 DEF OwnInv, EndInv, Sending, Past
    <3>8. ASSUME NEW s \in Samples(PoolSize)
          PROVE  pool'.ref[s] = Holders(s)'
      <4>1. pool.ref[s] = CountOf(cSample = s) + CountOf(tSample = s)
                            + CountOf(s \in ToSet(list)) + CountOf(s \in ToSet(held))
        BY DEF OwnInv, CountsInv, Holders
      <4>2. Holders(s)' = CountOf(cSample = s) + CountOf(tSample = s)
                            + CountOf(s \in ToSet(list)) + CountOf(s \in ToSet(held'))
        BY <3>1 DEF Holders
      <4>3. s = tSample => s \notin ToSet(held) /\ s \in ToSet(held')
        BY <3>2, <3>5
      <4>4. s # tSample => (s \in ToSet(held') <=> s \in ToSet(held))
        BY <3>5
      <4> QED
        BY <3>2, <3>3, <4>1, <4>2, <4>3, <4>4 DEF CountOf
    <3>9. CountsInv'
      BY <3>3, <3>8 DEF CountsInv
    <3> QED
      BY <3>6, <3>7, <3>9 DEF OwnInv
  <2> QED
    BY <1>5, <2>1, <2>2 DEF TReceive
<1>6. CASE TRelease
  <2>1. /\ tPc = "release" /\ tPc' = "lock" /\ pool' = Release(pool, tSample)
        /\ tSample' = NoSample /\ UNCHANGED <<list, cPc, cSample, held, devEnd>>
    BY <1>6 DEF TRelease
  <2>2. tSample \in Samples(PoolSize)
    BY <2>1 DEF OwnInv, HandsInv
  <2>3. pool.ref[tSample] > 0
    BY <2>2, InHands
  <2>4. /\ PoolOK(pool', PoolSize) /\ pool'.ref[tSample] = pool.ref[tSample] - 1
        /\ \A s \in Samples(PoolSize) : s # tSample => pool'.ref[s] = pool.ref[s]
    BY <2>1, <2>2, <2>3, InHands, ReleaseOK DEF OwnInv, CountsInv
  <2>5. HandsInv'
    BY <2>1, InHands DEF OwnInv, HandsInv, Fresh, Sending
  <2>6. EndInv'
    BY <2>1 DEF OwnInv, EndInv, Sending, Past
  <2>7. CountsInv'
    BY <2>1, <2>2, <2>4, InHands DEF OwnInv, CountsInv, Holders, CountOf
  <2> QED
    BY <2>5, <2>6, <2>7 DEF OwnInv
<1>7. CASE TEnd
  <2>1. /\ tPc = "end" /\ tPc' = "lock"
        /\ UNCHANGED <<pool, list, cPc, cSample, tSample, held>>
    BY <1>7 DEF TEnd
  <2>2. HandsInv'
    BY <2>1 DEF OwnInv, HandsInv, Fresh, Sending
  <2>3. EndInv'
    BY <2>1 DEF OwnInv, EndInv, Sending, Past
  <2>4. CountsInv'
    BY <2>1 DEF OwnInv, CountsInv, Holders
  <2> QED
    BY <2>2, <2>3, <2>4 DEF OwnInv
<1> QED
  BY <1>1, <1>2, <1>3, <1>4, <1>5, <1>6, <1>7 DEF OutDelivery

(* The device gives its oldest sample back. *)
LEMMA OwnDevice == OwnInv /\ DeviceGivesBack => OwnInv'
<1> SUFFICES ASSUME OwnInv, DeviceGivesBack PROVE OwnInv'
  OBVIOUS
<1> DEFINE h == Head(held)
<1>1. /\ held # <<>> /\ held' = Tail(held) /\ pool' = Release(pool, h)
      /\ UNCHANGED <<list, cPc, cSample, tPc, tSample, devEnd>>
  BY DEF DeviceGivesBack, outQueue, outThread, outClient
<1>2. held \in Seq(Samples(PoolSize)) /\ Once(held)
  BY DEF OwnInv, HandsInv
<1>3. /\ held' \in Seq(Samples(PoolSize)) /\ Once(held')
      /\ ToSet(held') = ToSet(held) \ {h} /\ h \in ToSet(held) /\ h \in Samples(PoolSize)
  BY <1>1, <1>2, OnceTail
<1> HIDE DEF h
<1>4. pool.ref[h] > 0
  BY <1>3, InHands
<1>5. /\ PoolOK(pool', PoolSize) /\ pool'.ref[h] = pool.ref[h] - 1
      /\ \A s \in Samples(PoolSize) : s # h => pool'.ref[s] = pool.ref[s]
  BY <1>1, <1>3, <1>4, InHands, ReleaseOK DEF OwnInv, CountsInv
<1>6. HandsInv'
  BY <1>1, <1>3 DEF OwnInv, HandsInv, Fresh, Sending
<1>7. EndInv'
  BY <1>1 DEF OwnInv, EndInv, Sending, Past
<1>8. ASSUME NEW s \in Samples(PoolSize)
      PROVE  pool'.ref[s] = Holders(s)'
  <2>1. pool.ref[s] = CountOf(cSample = s) + CountOf(tSample = s)
                        + CountOf(s \in ToSet(list)) + CountOf(s \in ToSet(held))
    BY DEF OwnInv, CountsInv, Holders
  <2>2. Holders(s)' = CountOf(cSample = s) + CountOf(tSample = s)
                        + CountOf(s \in ToSet(list)) + CountOf(s \in ToSet(held'))
    BY <1>1 DEF Holders
  <2>3. s \in ToSet(held') <=> s \in ToSet(held) /\ s # h
    BY <1>3
  <2> QED
    BY <1>3, <1>5, <2>1, <2>2, <2>3 DEF CountOf
<1>9. CountsInv'
  BY <1>5, <1>8 DEF CountsInv
<1> QED
  BY <1>6, <1>7, <1>9 DEF OwnInv

(* Every step of the DV output keeps the samples in the hands they belong to. *)
LEMMA OwnKeeps == OwnInv /\ [OutNext]_outVars => OwnInv'
<1>1. OwnInv /\ UNCHANGED outVars => OwnInv'
  BY DEF OwnInv, HandsInv, EndInv, CountsInv, Holders, Fresh, Sending, Past, outVars,
     outQueue, outThread, outClient, outDevice
<1> QED
  BY <1>1, OwnClient, OwnDelivery, OwnDevice DEF OutNext

(* A free sample is in nobody's hands, and a sample that is not free in as many
   as its count says: nothing is written over while it is queued, sent or with
   the device (amfilter.cpp, CBaseAllocator and CMediaSample). *)
LEMMA OutputOwned == OutSpec => []OwnInv
BY InitOwn, OwnKeeps, PTL DEF OutSpec

-----------------------------------------------------------------------------
(* The frames on their way to the device. *)

(* The client copies into a sample of its own; the results say who failed. *)
CopyInv ==
  /\ content \in [Samples(PoolSize) -> Nat] /\ cFrame \in Nat
  /\ accepted \in Seq(Nat) /\ played \in Seq(Nat)
  /\ cPc = "deliver" => content[cSample] = cFrame

(* While the device runs, only a refusal can make a call fail. *)
ResultInv ==
  /\ running <=> cPc \notin {"terminate", "join", "closed"}
  /\ term => ~running
  /\ tPc # "store" => tHr = "ok"
  /\ running /\ tPc = "receive" => hr = "ok"

(* The frames that are played are the first that were queued. *)
PlayedInv ==
  /\ Len(played) <= Len(accepted)
  /\ \A i \in 1 .. Len(played) : played[i] = accepted[i]

(* So do the ones that the device still has. *)
HeldInv ==
  running =>
    /\ Len(played) + Len(held) <= Len(accepted)
    /\ \A i \in 1 .. Len(held) : content[held[i]] = accepted[Len(played) + i]

(* Up to the first failure nothing is missing: the frame that is being sent comes
   next, and then the frames of the list. *)
Sent == Len(played) + Len(held) + CountOf(Sending)

ListInv ==
  running /\ hr = "ok" /\ tHr = "ok" =>
    /\ Len(accepted) = Sent + Len(list) - CountOf(EosPacket \in ToSet(list))
    /\ Sending => content[tSample] = accepted[Sent]
    /\ \A i \in 1 .. Len(list) : list[i] # EosPacket => content[list[i]] = accepted[Sent + i]

OrderInv == CopyInv /\ ResultInv /\ PlayedInv /\ HeldInv /\ ListInv /\ EndAfterLastFrame

(* At first no frame is on its way. *)
LEMMA InitOrder == OutInit => OrderInv
<1> SUFFICES ASSUME OutInit PROVE OrderInv
  OBVIOUS
<1>1. CopyInv
  BY DEF OutInit, CopyInv, Torn
<1>2. ResultInv /\ PlayedInv /\ HeldInv /\ EndAfterLastFrame
  BY DEF OutInit, ResultInv, PlayedInv, HeldInv, EndAfterLastFrame
<1>3. ListInv
  BY DEF OutInit, ListInv, Sent, CountOf, Sending, ToSet
<1> QED
  BY <1>1, <1>2, <1>3 DEF OrderInv

(* The types that the lengths and numbers below need. *)
LEMMA OrderTypes ==
  ASSUME OwnInv, OrderInv
  PROVE  /\ accepted \in Seq(Nat) /\ played \in Seq(Nat) /\ Len(accepted) \in Nat
         /\ Len(played) \in Nat /\ Len(held) \in Nat /\ Len(list) \in Nat
         /\ held \in Seq(Samples(PoolSize)) /\ list \in Seq(Samples(PoolSize) \cup {EosPacket})
         /\ Sent \in Nat /\ CountOf(EosPacket \in ToSet(list)) \in {0, 1}
<1>1. held \in Seq(Samples(PoolSize)) /\ list \in Seq(Samples(PoolSize) \cup {EosPacket})
  BY DEF OwnInv, HandsInv
<1>2. accepted \in Seq(Nat) /\ played \in Seq(Nat)
  BY DEF OrderInv, CopyInv
<1>3. Len(accepted) \in Nat /\ Len(played) \in Nat /\ Len(held) \in Nat /\ Len(list) \in Nat
  BY <1>1, <1>2
<1>4. Sent \in Nat /\ CountOf(EosPacket \in ToSet(list)) \in {0, 1}
  BY <1>3 DEF Sent, CountOf
<1> QED
  BY <1>1, <1>2, <1>3, <1>4

(* What Append does. *)
LEMMA AppendIs ==
  ASSUME NEW S, NEW q \in Seq(S), NEW x \in S
  PROVE  /\ Append(q, x) \in Seq(S) /\ Len(Append(q, x)) = Len(q) + 1
         /\ \A i \in 1 .. Len(q) : Append(q, x)[i] = q[i]
         /\ Append(q, x)[Len(q) + 1] = x
BY AppendProperties

(* Steps that only move the client on, or the delivery thread past a point where
   it has nothing in hand. *)
LEMMA OrderStays ==
  ASSUME OrderInv,
         UNCHANGED <<content, list, hr, term, tSample, tHr, running, held, devEnd,
                     accepted, played>>,
         \/ tPc' = tPc
         \/ tPc \notin {"send", "receive", "store"} /\ tPc' \notin {"send", "receive", "store"},
         cPc' # "deliver", cFrame' \in Nat,
         cPc' \in {"terminate", "join", "closed"} <=> cPc \in {"terminate", "join", "closed"}
  PROVE  OrderInv'
<1>1. CopyInv' /\ PlayedInv' /\ HeldInv' /\ EndAfterLastFrame'
  BY DEF OrderInv, CopyInv, PlayedInv, HeldInv, EndAfterLastFrame
<1>2. ResultInv'
  BY DEF OrderInv, ResultInv
<1>3. Sending' = Sending
  BY DEF Sending
<1>4. ListInv'
  BY <1>3 DEF OrderInv, ListInv, Sent
<1> QED
  BY <1>1, <1>2, <1>4 DEF OrderInv

(* Bytes are written only into a sample that nobody else has. *)
LEMMA OrderCopies ==
  ASSUME OwnInv, OrderInv, CCopy \/ CCopied
  PROVE  OrderInv'
<1> USE DEF CStep, outThread, outQueue, outDevice
<1>1. CASE cFrame \in BadFrames /\ cPc = "copy" /\ cPc' = "release" /\ content' = content /\ CCopy
  BY <1>1, OrderStays DEF CCopy, OrderInv, CopyInv
<1>2. CASE \/ CCopy /\ content' = [content EXCEPT ![cSample] = Torn] /\ cPc' = "copying"
           \/ CCopied
  <2>1. /\ Fresh /\ cPc' \in {"copying", "deliver"}
        /\ UNCHANGED <<list, hr, term, tPc, tSample, tHr, cSample, cFrame, running, held,
                       devEnd,
                       accepted, played>>
    BY <1>2 DEF CCopy, CCopied, Fresh
  <2>2. PICK b \in Nat : content' = [content EXCEPT ![cSample] = b] /\ (cPc' = "deliver" => b = cFrame)
    BY <1>2 DEF CCopy, CCopied, Torn, OrderInv, CopyInv
  <2>3. cSample \in Samples(PoolSize) /\ content \in [Samples(PoolSize) -> Nat]
    BY <2>1 DEF OwnInv, HandsInv, Fresh, OrderInv, CopyInv
  <2>4. /\ content' \in [Samples(PoolSize) -> Nat] /\ content'[cSample] = b
        /\ \A s \in Samples(PoolSize) : s # cSample => content'[s] = content[s]
    BY <2>2, <2>3
  <2>5. CopyInv'
    BY <2>1, <2>2, <2>3, <2>4 DEF OrderInv, CopyInv
  <2>6. ResultInv' /\ PlayedInv' /\ EndAfterLastFrame' /\ Sending' = Sending
    BY <2>1 DEF OrderInv, ResultInv, PlayedInv, EndAfterLastFrame, Fresh, Sending
  <2>7. \A i \in 1 .. Len(held) : content'[held[i]] = content[held[i]]
    BY <2>1, <2>3, <2>4, Holds DEF OwnInv, HandsInv
  <2>8. \A i \in 1 .. Len(list) : list[i] # EosPacket => content'[list[i]] = content[list[i]]
    BY <2>1, <2>3, <2>4, Holds DEF OwnInv, HandsInv
  <2>9. Sending => content'[tSample] = content[tSample]
    <3>1. Sending => tSample \in Samples(PoolSize)
      BY DEF OwnInv, HandsInv, Sending
    <3> QED
      BY <2>1, <2>3, <2>4, <3>1 DEF OwnInv, HandsInv
  <2>10. HeldInv'
    BY <2>1, <2>7 DEF OrderInv, HeldInv
  <2>11. ListInv'
    BY <2>1, <2>6, <2>8, <2>9 DEF OrderInv, ListInv, Sent
  <2> QED
    BY <2>5, <2>6, <2>10, <2>11 DEF OrderInv
<1> QED
  BY <1>1, <1>2 DEF CCopy

(* The client puts a frame into the queue. *)
LEMMA OrderDelivers ==
  ASSUME OwnInv, OrderInv, CDeliver
  PROVE  OrderInv'
<1> USE DEF CStep, outThread, outQueue, outDevice
<1>1. CASE hr # "ok" /\ UNCHANGED <<pool, list, accepted, lWaiting, sem>>
  BY <1>1, OrderStays DEF CDeliver, OrderInv, CopyInv
<1>2. CASE hr = "ok" /\ list' = Append(list, cSample) /\ accepted' = Append(accepted, cFrame)
  <2>1. /\ cPc = "deliver" /\ cPc' = "release"
        /\ UNCHANGED <<content, hr, term, tPc, tSample, tHr, cSample, cFrame, running,
                       held, devEnd, played>>
    BY <1>2 DEF CDeliver
  <2>2. cSample \in Samples(PoolSize) /\ cSample # EosPacket /\ cFrame \in Nat
        /\ content[cSample] = cFrame
    <3>1. cSample \in Samples(PoolSize)
      BY <2>1 DEF OwnInv, HandsInv
    <3> QED
      BY <2>1, <3>1, InHands DEF OrderInv, CopyInv
  <2>3. /\ accepted' \in Seq(Nat) /\ Len(accepted') = Len(accepted) + 1
        /\ \A i \in 1 .. Len(accepted) : accepted'[i] = accepted[i]
        /\ accepted'[Len(accepted) + 1] = cFrame
    BY <1>2, <2>2, OrderTypes, AppendIs
  <2>4. /\ Len(list') = Len(list) + 1
        /\ \A i \in 1 .. Len(list) : list'[i] = list[i]
        /\ list'[Len(list) + 1] = cSample
    BY <1>2, <2>2, OrderTypes, AppendIs
  <2>5. ~devEnd /\ EosPacket \notin ToSet(list)
    BY <2>1 DEF OwnInv, EndInv, Past
  <2>6. EosPacket \notin ToSet(list')
    BY <1>2, <2>1, <2>2, <2>5, OnceAppend DEF OwnInv, HandsInv, Fresh
  <2>7. CopyInv' /\ ResultInv' /\ EndAfterLastFrame'
    BY <2>1, <2>3, <2>5 DEF OrderInv, CopyInv, ResultInv, EndAfterLastFrame
  <2> DEFINE p == Len(played)
             h == Len(held)
             a == Len(accepted)
  <2>0. p \in Nat /\ h \in Nat /\ a \in Nat
    BY OrderTypes
  <2>8. PlayedInv'
    <3>1. p <= a /\ (\A i \in 1 .. p : played[i] = accepted[i])
          /\ Len(accepted') = a + 1 /\ \A i \in 1 .. a : accepted'[i] = accepted[i]
      BY <2>3 DEF OrderInv, PlayedInv
    <3> HIDE DEF p, a
    <3>2. p <= a + 1 /\ \A i \in 1 .. p : played[i] = accepted'[i]
      BY <2>0, <3>1
    <3> QED
      BY <2>1, <3>1, <3>2 DEF PlayedInv, p
  <2>9. HeldInv'
    <3> SUFFICES ASSUME running
                 PROVE  p + h <= Len(accepted') /\ \A i \in 1 .. h : content[held[i]] = accepted'[p + i]
      BY <2>1 DEF HeldInv
    <3>1. p + h <= a /\ (\A i \in 1 .. h : content[held[i]] = accepted[p + i])
          /\ Len(accepted') = a + 1 /\ \A i \in 1 .. a : accepted'[i] = accepted[i]
      BY <2>3 DEF OrderInv, HeldInv
    <3> HIDE DEF p, h, a
    <3> QED
      BY <2>0, <3>1
  <2>10. ListInv'
    <3> SUFFICES ASSUME running, tHr = "ok"
                 PROVE  /\ Len(accepted') = Sent + Len(list')
                        /\ Sending => content[tSample] = accepted'[Sent]
                        /\ \A i \in 1 .. Len(list') :
                             list'[i] # EosPacket => content[list'[i]] = accepted'[Sent + i]
      BY <2>1, <2>3, <2>4, <2>6, OrderTypes DEF ListInv, Sent, Sending, CountOf
    <3>1. /\ Len(accepted) = Sent + Len(list)
          /\ Sending => content[tSample] = accepted[Sent]
          /\ \A i \in 1 .. Len(list) : list[i] # EosPacket => content[list[i]] = accepted[Sent + i]
      BY <1>2, <2>5, OrderTypes DEF OrderInv, ListInv, CountOf
    <3>2. Sending => Sent >= 1
      BY OrderTypes DEF Sent, CountOf
    <3>3. Sending => content[tSample] = accepted'[Sent]
      BY <2>3, <3>1, <3>2, OrderTypes
    <3>4. ASSUME NEW i \in 1 .. Len(list'), list'[i] # EosPacket
          PROVE  content[list'[i]] = accepted'[Sent + i]
      <4>1. CASE i \in 1 .. Len(list)
        <5>1. list'[i] = list[i] /\ content[list[i]] = accepted[Sent + i]
          BY <2>4, <3>1, <3>4, <4>1
        <5>2. Sent + i \in 1 .. Len(accepted)
          BY <3>1, <4>1, OrderTypes
        <5> QED
          BY <2>3, <5>1, <5>2
      <4>2. CASE i = Len(list) + 1
        BY <2>2, <2>3, <2>4, <3>1, <4>2, OrderTypes
      <4> QED
        BY <2>4, <4>1, <4>2, OrderTypes
    <3> QED
      BY <2>3, <2>4, <3>1, <3>3, <3>4, OrderTypes
  <2> QED
    BY <2>7, <2>8, <2>9, <2>10 DEF OrderInv
<1> QED
  BY <1>1, <1>2 DEF CDeliver

(* The end of the stream is no frame. *)
LEMMA OrderCloses ==
  ASSUME OwnInv, OrderInv, OutClose
  PROVE  OrderInv'
<1> USE DEF CStep, outThread, outQueue, outDevice
<1>1. CASE hr # "ok" /\ UNCHANGED <<list, lWaiting, sem>>
  BY <1>1, OrderStays DEF OutClose, OrderInv, CopyInv
<1>2. CASE hr = "ok" /\ list' = Append(list, EosPacket)
  <2>1. /\ cPc = "idle" /\ cPc' = "complete"
        /\ UNCHANGED <<content, hr, term, tPc, tSample, tHr, cFrame, running, held,
                       devEnd, accepted, played>>
    BY <1>2 DEF OutClose
  <2>2. EosPacket \notin ToSet(list)
    BY <2>1 DEF OwnInv, EndInv, Past
  <2>3. /\ Len(list') = Len(list) + 1 /\ EosPacket \in ToSet(list')
        /\ \A i \in 1 .. Len(list) : list'[i] = list[i]
        /\ list'[Len(list) + 1] = EosPacket
    BY <1>2, <2>2, OnceAppend DEF OwnInv, HandsInv
  <2>4. CopyInv' /\ ResultInv' /\ PlayedInv' /\ HeldInv' /\ EndAfterLastFrame'
    BY <2>1 DEF OrderInv, CopyInv, ResultInv, PlayedInv, HeldInv, EndAfterLastFrame
  <2>5. Sent' = Sent /\ Sending' = Sending
    BY <2>1 DEF Sent, Sending
  <2>6. ListInv'
    <3> SUFFICES ASSUME running, tHr = "ok"
                 PROVE  /\ Len(accepted) = Sent + Len(list') - 1
                        /\ Sending => content[tSample] = accepted[Sent]
                        /\ \A i \in 1 .. Len(list') :
                             list'[i] # EosPacket => content[list'[i]] = accepted[Sent + i]
      BY <2>1, <2>3, <2>5 DEF ListInv, CountOf
    <3>1. /\ Len(accepted) = Sent + Len(list)
          /\ Sending => content[tSample] = accepted[Sent]
          /\ \A i \in 1 .. Len(list) : list[i] # EosPacket => content[list[i]] = accepted[Sent + i]
      BY <1>2, <2>2, OrderTypes DEF OrderInv, ListInv, CountOf
    <3>2. \A i \in 1 .. Len(list') : i \in 1 .. Len(list) \/ i = Len(list) + 1
      BY <2>3, OrderTypes
    <3>3. Len(accepted) = Sent + Len(list') - 1
      BY <2>3, <3>1, OrderTypes
    <3> QED
      BY <2>3, <3>1, <3>2, <3>3
  <2> QED
    BY <2>4, <2>6 DEF OrderInv
<1> QED
  BY <1>1, <1>2 DEF OutClose

(* The device stops, and then the queue is told to stop. *)
LEMMA OrderStops ==
  ASSUME OwnInv, OrderInv, CStop \/ CTerminate
  PROVE  OrderInv'
<1>1. /\ ~running' /\ cPc \in {"stop", "terminate"} /\ cPc' \in {"terminate", "join"}
      /\ UNCHANGED <<content, tPc, tHr, cFrame, accepted, played>>
  BY DEF CStop, CTerminate, CStep, outThread, outQueue, outDevice, OrderInv, ResultInv
<1>2. CopyInv' /\ PlayedInv' /\ HeldInv' /\ ListInv' /\ EndAfterLastFrame'
  BY <1>1 DEF OrderInv, CopyInv, PlayedInv, HeldInv, ListInv, EndAfterLastFrame
<1>3. ResultInv'
  BY <1>1 DEF OrderInv, ResultInv
<1> QED
  BY <1>2, <1>3 DEF OrderInv

(* A step of the client. *)
LEMMA OrderClient ==
  ASSUME OwnInv, OrderInv, OutClient \/ OutClose \/ (\E f \in Frames : OutCall(f))
  PROVE  OrderInv'
<1>1. CASE CGetBuffer \/ CWoken \/ CRelease \/ CComplete \/ CJoin
  <2>1. /\ UNCHANGED <<content, list, hr, term, tPc, tSample, tHr, cFrame, running, held,
                       devEnd, accepted, played>>
        /\ cPc' # "deliver"
        /\ cPc' \in {"terminate", "join", "closed"} <=> cPc \in {"terminate", "join", "closed"}
    BY <1>1 DEF CGetBuffer, CWoken, CRelease, CComplete, CJoin, CStep, outQueue, outThread, outDevice
  <2> QED
    BY <2>1, OrderStays DEF OrderInv, CopyInv
<1>2. CASE \E f \in Frames : OutCall(f)
  <2>1. PICK f \in Frames : OutCall(f)
    BY <1>2
  <2>2. f \in Nat
    BY OutputAssumption
  <2> QED
    BY <2>1, <2>2, OrderStays DEF OutCall, CStep, outQueue, outThread, outDevice
<1> QED
  BY <1>1, <1>2, OrderCopies, OrderDelivers, OrderCloses, OrderStops DEF OutClient

(* The delivery thread takes the first packet. *)
LEMMA OrderTakes ==
  ASSUME OwnInv, OrderInv, TTake
  PROVE  OrderInv'
<1> DEFINE h == Head(list)
           n == Len(list)
<1>1. /\ list # <<>> /\ list' = Tail(list) /\ tPc = "lock"
      /\ UNCHANGED <<content, cPc, cSample, cFrame, hr, term, tHr, running, held, devEnd,
                     accepted, played>>
      /\ \/ h = EosPacket /\ tPc' = "end" /\ tSample' = tSample
         \/ h # EosPacket /\ tPc' = "send" /\ tSample' = h
  BY DEF TTake, TStep, outClient, outDevice
<1>2. /\ h = list[1] /\ Len(list') = n - 1 /\ n \in Nat /\ n # 0
      /\ \A i \in 1 .. n - 1 : list'[i] = list[i + 1]
      /\ ToSet(list') = ToSet(list) \ {h} /\ h \in ToSet(list)
  <2>1. list \in Seq(Samples(PoolSize) \cup {EosPacket}) /\ Once(list)
    BY DEF OwnInv, HandsInv
  <2>2. n \in Nat /\ n # 0
    BY <1>1, <2>1
  <2> QED
    BY <1>1, <2>1, <2>2, OnceTail
<1> HIDE DEF h, n
<1>3. CopyInv' /\ PlayedInv' /\ HeldInv' /\ EndAfterLastFrame'
  BY <1>1 DEF OrderInv, CopyInv, PlayedInv, HeldInv, EndAfterLastFrame
<1>4. ResultInv'
  BY <1>1 DEF OrderInv, ResultInv
<1>5. ListInv'
  <2> SUFFICES ASSUME running, hr = "ok", tHr = "ok"
               PROVE  /\ Len(accepted) = Sent' + (n - 1) - CountOf(EosPacket \in ToSet(list'))
                      /\ Sending' => content[tSample'] = accepted[Sent']
                      /\ \A i \in 1 .. n - 1 :
                           list'[i] # EosPacket => content[list'[i]] = accepted[Sent' + i]
    BY <1>1, <1>2 DEF ListInv
  <2> DEFINE e == CountOf(EosPacket \in ToSet(list))
             m == Sent
             k == Len(accepted)
  <2>1. /\ k = m + n - e /\ m \in Nat /\ e \in {0, 1}
        /\ \A i \in 1 .. n : list[i] # EosPacket => content[list[i]] = accepted[m + i]
    BY OrderTypes DEF OrderInv, ListInv, n
  <2>2. CASE h = EosPacket
    <3>1. ~Sending' /\ Sent' = m
      BY <1>1, <2>2 DEF Sending, Sent
    <3>2. CountOf(EosPacket \in ToSet(list')) = 0 /\ e = 1
      BY <1>2, <2>2 DEF CountOf
    <3>3. n = 1
      <4>1. list' = <<>>
        BY <1>1, <2>2, OwnTaken DEF h
      <4> QED
        BY <1>2, <4>1
    <3> HIDE DEF e, m, k
    <3> QED
      BY <1>2, <2>1, <3>1, <3>2, <3>3 DEF k
  <2>3. CASE h # EosPacket
    <3>1. Sending' /\ tSample' = h /\ Sent' = m + 1
      <4>1. Sending' /\ ~Sending /\ tSample' = h
        BY <1>1, <2>3 DEF Sending
      <4>2. Len(played) \in Nat /\ Len(held) \in Nat
        BY OrderTypes
      <4> QED
        BY <1>1, <4>1, <4>2 DEF Sent, CountOf
    <3>2. CountOf(EosPacket \in ToSet(list')) = e
      BY <1>2, <2>3 DEF CountOf
    <3>3. content[h] = accepted[m + 1]
      BY <1>2, <2>1, <2>3
    <3> HIDE DEF e, m
    <3>4. \A i \in 1 .. n - 1 : i + 1 \in 1 .. n /\ (m + 1) + i = m + (i + 1)
      BY <1>2, <2>1
    <3>5. \A i \in 1 .. n - 1 :
            list'[i] # EosPacket => content[list'[i]] = accepted[(m + 1) + i]
      BY <1>2, <2>1, <3>4
    <3>6. k = (m + 1) + (n - 1) - e
      BY <1>2, <2>1
    <3> QED
      BY <3>1, <3>2, <3>3, <3>5, <3>6 DEF k
  <2> QED
    BY <2>2, <2>3
<1> QED
  BY <1>3, <1>4, <1>5 DEF OrderInv

(* The device keeps the frame that is sent, or the call fails. *)
LEMMA OrderReceives ==
  ASSUME OwnInv, OrderInv, TReceive
  PROVE  OrderInv'
<1>1. /\ tPc = "receive" /\ tPc' = "store"
      /\ UNCHANGED <<content, cPc, cSample, cFrame, list, hr, term, tSample, running,
                     devEnd, accepted, played>>
      /\ \/ running /\ held' = Append(held, tSample) /\ tHr' = "ok"
         \/ held' = held /\ tHr' = "failed"
  BY DEF TReceive, TStep, outClient, outQueue
<1>2. Sending /\ ~Sending' /\ ~devEnd /\ tSample \in Samples(PoolSize) /\ tHr = "ok"
  BY <1>1 DEF Sending, OwnInv, EndInv, HandsInv, OrderInv, ResultInv, Samples, NoSample
<1>3. CopyInv' /\ PlayedInv' /\ EndAfterLastFrame'
  BY <1>1, <1>2 DEF OrderInv, CopyInv, PlayedInv, EndAfterLastFrame
<1>4. ResultInv'
  BY <1>1 DEF OrderInv, ResultInv
<1>5. CASE held' = held /\ tHr' = "failed"
  <2>1. HeldInv' /\ ListInv'
    BY <1>1, <1>5 DEF OrderInv, HeldInv, ListInv
  <2> QED
    BY <1>3, <1>4, <2>1 DEF OrderInv
<1>6. CASE running /\ held' = Append(held, tSample) /\ tHr' = "ok"
  <2> DEFINE p == Len(played)
             h == Len(held)
             a == Len(accepted)
             n == Len(list)
             e == CountOf(EosPacket \in ToSet(list))
  <2>1. p \in Nat /\ h \in Nat /\ a \in Nat /\ n \in Nat /\ e \in {0, 1}
    BY OrderTypes
  <2>2. /\ Len(held') = h + 1 /\ held'[h + 1] = tSample
        /\ \A i \in 1 .. h : held'[i] = held[i]
    BY <1>2, <1>6, OrderTypes, AppendIs
  <2>3. Sent = p + h + 1 /\ Sent' = p + h + 1
    BY <1>1, <1>2, <2>1, <2>2 DEF Sent, CountOf
  <2>4. hr = "ok"
    BY <1>1, <1>6 DEF OrderInv, ResultInv
  <2>5. /\ a = (p + h + 1) + n - e /\ content[tSample] = accepted[p + h + 1]
        /\ \A i \in 1 .. n : list[i] # EosPacket => content[list[i]] = accepted[(p + h + 1) + i]
    BY <1>2, <1>6, <2>3, <2>4 DEF OrderInv, ListInv
  <2>6. e = 1 => n >= 1
    <3>1. e = 1 => ToSet(list) # {}
      BY DEF CountOf
    <3> QED
      BY <2>1, <3>1, OrderTypes, Holds
  <2>7. \A i \in 1 .. h : content[held[i]] = accepted[p + i]
    BY <1>6 DEF OrderInv, HeldInv
  <2>8. HeldInv'
    <3> SUFFICES /\ p + (h + 1) <= a
                 /\ \A i \in 1 .. h + 1 : content[held'[i]] = accepted[p + i]
      BY <1>1, <2>2 DEF HeldInv
    <3> HIDE DEF p, h, a, n, e
    <3>1. p + (h + 1) = p + h + 1 /\ p + (h + 1) <= a
      BY <2>1, <2>5, <2>6
    <3>2. \A i \in 1 .. h + 1 : i \in 1 .. h \/ i = h + 1
      BY <2>1
    <3> QED
      BY <2>2, <2>5, <2>7, <3>1, <3>2
  <2>9. ListInv'
    BY <1>1, <1>2, <2>3, <2>5 DEF ListInv
  <2> QED
    BY <1>3, <1>4, <2>8, <2>9 DEF OrderInv
<1> QED
  BY <1>1, <1>5, <1>6

(* A step of the delivery thread. *)
LEMMA OrderDelivery ==
  ASSUME OwnInv, OrderInv, OutDelivery
  PROVE  OrderInv'
<1> USE DEF TStep, outClient, outQueue, outDevice
<1>0. CASE /\ cPc' = cPc
           /\ UNCHANGED <<content, cSample, cFrame, list, hr, term, tSample, tHr,
                          running, held, devEnd, accepted, played>>
           /\ tPc \notin {"send", "receive", "store"} /\ tPc' \notin {"send", "receive", "store"}
  <2>1. CopyInv' /\ PlayedInv' /\ HeldInv' /\ EndAfterLastFrame' /\ ResultInv'
    BY <1>0 DEF OrderInv, CopyInv, PlayedInv, HeldInv, EndAfterLastFrame, ResultInv
  <2>2. Sending' = Sending
    BY <1>0 DEF Sending
  <2>3. ListInv'
    BY <1>0, <2>2 DEF OrderInv, ListInv, Sent
  <2> QED
    BY <2>1, <2>3 DEF OrderInv
<1>1. CASE TTerminate \/ TIdle \/ TWoken
  BY <1>0, <1>1 DEF TTerminate, TIdle, TWoken
<1>2. CASE TFreeSample
  <2>1. /\ ~running /\ tPc' = tPc
        /\ UNCHANGED <<content, cPc, cSample, cFrame, hr, term, tHr, running, accepted, played>>
    BY <1>2 DEF TFreeSample, OrderInv, ResultInv
  <2>2. CopyInv' /\ PlayedInv' /\ HeldInv' /\ EndAfterLastFrame' /\ ResultInv' /\ ListInv'
    BY <2>1 DEF OrderInv, CopyInv, PlayedInv, HeldInv, EndAfterLastFrame, ResultInv, ListInv
  <2> QED
    BY <2>2 DEF OrderInv
<1>3. CASE TSend
  <2>1. /\ tPc = "send" /\ tPc' = IF hr = "ok" THEN "receive" ELSE "release"
        /\ UNCHANGED <<content, cPc, cSample, cFrame, list, hr, term, tSample, tHr,
                       running, held, devEnd, accepted, played>>
    BY <1>3 DEF TSend
  <2>2. CopyInv' /\ PlayedInv' /\ HeldInv' /\ EndAfterLastFrame' /\ ResultInv'
    BY <2>1 DEF OrderInv, CopyInv, PlayedInv, HeldInv, EndAfterLastFrame, ResultInv
  <2>3. hr = "ok" => Sending' = Sending
    BY <2>1 DEF Sending
  <2>4. ListInv'
    BY <2>1, <2>3 DEF OrderInv, ListInv, Sent
  <2> QED
    BY <2>2, <2>4 DEF OrderInv
<1>4. CASE TStore
  <2>1. /\ tPc = "store" /\ tPc' = "release" /\ hr' = StickyResult /\ tHr' = "ok"
        /\ UNCHANGED <<content, cPc, cSample, cFrame, list, term, tSample, running, held,
                       devEnd, accepted, played>>
    BY <1>4 DEF TStore
  <2>2. CopyInv' /\ PlayedInv' /\ HeldInv' /\ EndAfterLastFrame' /\ ResultInv'
    BY <2>1 DEF OrderInv, CopyInv, PlayedInv, HeldInv, EndAfterLastFrame, ResultInv
  <2>3. Sending' = Sending /\ (hr' = "ok" => hr = "ok" /\ tHr = "ok")
    BY <2>1 DEF Sending, StickyResult
  <2>4. ListInv'
    BY <2>1, <2>3 DEF OrderInv, ListInv, Sent
  <2> QED
    BY <2>2, <2>4 DEF OrderInv
<1>5. CASE TRelease
  <2>1. /\ tPc = "release" /\ tPc' = "lock"
        /\ UNCHANGED <<content, cPc, cSample, cFrame, list, hr, term, tHr, running, held,
                       devEnd, accepted, played>>
    BY <1>5 DEF TRelease
  <2>2. CopyInv' /\ PlayedInv' /\ HeldInv' /\ EndAfterLastFrame' /\ ResultInv'
    BY <2>1 DEF OrderInv, CopyInv, PlayedInv, HeldInv, EndAfterLastFrame, ResultInv
  <2>3. ~Sending /\ ~Sending'
    BY <2>1 DEF Sending
  <2>4. Sent' = Sent
    BY <2>1, <2>3 DEF Sent, CountOf
  <2>5. ListInv'
    BY <2>1, <2>3, <2>4 DEF OrderInv, ListInv
  <2> QED
    BY <2>2, <2>5 DEF OrderInv
<1>6. CASE TEnd
  <2>1. /\ tPc = "end" /\ tPc' = "lock" /\ devEnd' = (devEnd \/ hr = "ok")
        /\ UNCHANGED <<content, cPc, cSample, cFrame, list, hr, term, tSample, tHr,
                       running, held, accepted, played>>
    BY <1>6 DEF TEnd
  <2>2. CopyInv' /\ PlayedInv' /\ HeldInv' /\ ResultInv' /\ Sending' = Sending
    BY <2>1 DEF OrderInv, CopyInv, PlayedInv, HeldInv, ResultInv, Sending
  <2>3. ListInv'
    BY <2>1, <2>2 DEF OrderInv, ListInv, Sent
  <2>4. list = <<>> /\ ~Sending
    BY <2>1 DEF OwnInv, EndInv
  <2>5. running /\ hr = "ok" => Len(played) + Len(held) = Len(accepted)
    <3>1. tHr = "ok" /\ Len(list) = 0 /\ EosPacket \notin ToSet(list)
      BY <2>1, <2>4 DEF OrderInv, ResultInv, ToSet
    <3> QED
      BY <2>4, <3>1, OrderTypes DEF OrderInv, ListInv, Sent, CountOf
  <2>6. EndAfterLastFrame'
    BY <2>1, <2>5 DEF OrderInv, EndAfterLastFrame
  <2> QED
    BY <2>2, <2>3, <2>6 DEF OrderInv
<1> QED
  BY <1>1, <1>2, <1>3, <1>4, <1>5, <1>6, OrderTakes, OrderReceives DEF OutDelivery

(* The device plays the frame it has had longest. *)
LEMMA OrderPlays ==
  ASSUME OwnInv, OrderInv, DeviceGivesBack
  PROVE  OrderInv'
<1> DEFINE p == Len(played)
           h == Len(held)
           a == Len(accepted)
<1>0. p \in Nat /\ h \in Nat /\ a \in Nat
  BY OrderTypes
<1>1. /\ held # <<>> /\ held' = Tail(held)
      /\ played' = IF running THEN Append(played, content[Head(held)]) ELSE played
      /\ UNCHANGED <<content, cPc, cSample, cFrame, list, hr, term, tPc, tSample, tHr,
                     running, devEnd, accepted>>
  BY DEF DeviceGivesBack, outQueue, outThread, outClient
<1>2. CASE ~running
  <2>1. CopyInv' /\ PlayedInv' /\ HeldInv' /\ EndAfterLastFrame' /\ ResultInv' /\ ListInv'
    BY <1>1, <1>2 DEF OrderInv, CopyInv, PlayedInv, HeldInv, EndAfterLastFrame, ResultInv, ListInv
  <2> QED
    BY <2>1 DEF OrderInv
<1>3. CASE running
  <2>1. /\ Len(held') = h - 1 /\ h # 0 /\ Head(held) = held[1] /\ held[1] \in Samples(PoolSize)
        /\ \A i \in 1 .. h - 1 : held'[i] = held[i + 1]
    <3>1. held \in Seq(Samples(PoolSize)) /\ Once(held)
      BY DEF OwnInv, HandsInv
    <3>2. h # 0
      BY <1>1, <3>1
    <3> QED
      BY <1>1, <3>1, <3>2, OnceTail
  <2> DEFINE x == content[held[1]]
  <2>2. x \in Nat
    BY <2>1 DEF OrderInv, CopyInv
  <2>3. /\ played' \in Seq(Nat) /\ Len(played') = p + 1 /\ played'[p + 1] = x
        /\ \A i \in 1 .. p : played'[i] = played[i]
    BY <1>1, <1>3, <2>1, <2>2, OrderTypes, AppendIs
  <2>4. /\ p + h <= a /\ \A i \in 1 .. h : content[held[i]] = accepted[p + i]
    BY <1>3 DEF OrderInv, HeldInv
  <2>5. x = accepted[p + 1]
    <3>1. 1 \in 1 .. h
      BY <1>0, <2>1
    <3> QED
      BY <2>4, <3>1
  <2>6. \A i \in 1 .. p : played[i] = accepted[i]
    BY DEF OrderInv, PlayedInv
  <2> HIDE DEF x
  <2>7. PlayedInv'
    <3> SUFFICES p + 1 <= a /\ \A i \in 1 .. p + 1 : played'[i] = accepted[i]
      BY <1>1, <2>3 DEF PlayedInv
    <3> HIDE DEF p, h, a
    <3>1. p + 1 <= a
      BY <1>0, <2>1, <2>4
    <3>2. \A i \in 1 .. p + 1 : i \in 1 .. p \/ i = p + 1
      BY <1>0
    <3> QED
      BY <2>3, <2>5, <2>6, <3>1, <3>2
  <2>8. HeldInv'
    <3> SUFFICES /\ (p + 1) + (h - 1) <= a
                 /\ \A i \in 1 .. h - 1 : content[held'[i]] = accepted[(p + 1) + i]
      BY <1>1, <2>1, <2>3 DEF HeldInv
    <3> HIDE DEF p, h, a
    <3>1. (p + 1) + (h - 1) <= a
      BY <1>0, <2>4
    <3>2. ASSUME NEW i \in 1 .. h - 1
          PROVE  content[held'[i]] = accepted[(p + 1) + i]
      <4>1. i + 1 \in 1 .. h /\ (p + 1) + i = p + (i + 1)
        BY <1>0
      <4>2. content[held[i + 1]] = accepted[p + (i + 1)]
        BY <2>4, <4>1
      <4> QED
        BY <2>1, <4>1, <4>2
    <3> QED
      BY <3>1, <3>2
  <2>9. Sent' = Sent /\ Sending' = Sending /\ Len(played') + Len(held') = p + h
    BY <1>0, <1>1, <2>1, <2>3 DEF Sent, Sending
  <2>10. ListInv' /\ EndAfterLastFrame'
    BY <1>1, <2>9 DEF OrderInv, ListInv, EndAfterLastFrame
  <2>11. CopyInv' /\ ResultInv'
    BY <1>1, <2>3 DEF OrderInv, CopyInv, ResultInv
  <2> QED
    BY <2>7, <2>8, <2>10, <2>11 DEF OrderInv
<1> QED
  BY <1>2, <1>3

(* OrderInv holds in every state of the DV output. *)
LEMMA OutputOrdered == OutSpec => []OrderInv
<1>1. OrderInv /\ UNCHANGED outVars => OrderInv'
  <2> SUFFICES ASSUME OrderInv, UNCHANGED outVars PROVE OrderInv'
    OBVIOUS
  <2> QED
    BY DEF outVars, outQueue, outThread, outClient, outDevice, OrderInv, CopyInv, ResultInv,
       PlayedInv, HeldInv, ListInv, Sent, Sending, EndAfterLastFrame
<1>2. OwnInv /\ OrderInv /\ [OutNext]_outVars => OrderInv'
  BY <1>1, OrderClient, OrderDelivery, OrderPlays DEF OutNext
<1> QED
  BY <1>2, InitOrder, OutputOwned, PTL DEF OutSpec

(* The played frames are the first of those that were queued. *)
LEMMA PlayedPrefix == OrderInv => PlayedInOrder
<1> SUFFICES ASSUME OrderInv PROVE IsPrefix(played, accepted)
  BY DEF PlayedInOrder
<1>1. accepted \in Seq(Nat) /\ played \in Seq(Nat) /\ Len(played) <= Len(accepted)
      /\ \A i \in 1 .. Len(played) : played[i] = accepted[i]
  BY DEF OrderInv, CopyInv, PlayedInv
<1> QED
  BY <1>1 DEF IsPrefix

-----------------------------------------------------------------------------
(* The record session uses its DV output as module OutputGraph has it. *)

(* The frame that RecordingThread gives to both outputs. *)
FrameInv ==
  /\ frame \in 0 .. MaxFrames
  /\ wPc \in {"preview", "output"} => frame # 0

(* Every step keeps the frames in RecordingThread's hand in range. *)
LEMMA FrameKeeps == FrameInv /\ [Next]_vars => FrameInv'
<1> SUFFICES ASSUME FrameInv, [Next]_vars PROVE FrameInv'
  OBVIOUS
<1>1. CASE WFrame
  <2>1. frame < MaxFrames /\ frame' = frame + 1 /\ frame \in 0 .. MaxFrames /\ MaxFrames \in Nat
    BY <1>1, OutputsAssumption DEF WFrame, FrameInv
  <2> QED
    BY <2>1 DEF FrameInv
<1>2. CASE WOutput
  BY <1>2 DEF WOutput, WStep, FrameInv
<1>3. CASE WSend \/ WSent \/ WExit
  BY <1>3 DEF WSend, WSent, WExit, WStep, FrameInv
<1>4. CASE UDestroy \/ UDeleteOutput \/ UDeleteMonitor \/ Output \/ Preview \/ UNCHANGED vars
  BY <1>4 DEF UDestroy, UDeleteOutput, UDeleteMonitor, Output, Preview, vars, FrameInv
<1> QED
  BY <1>1, <1>2, <1>3, <1>4 DEF Next, Worker, Destroy

-----------------------------------------------------------------------------
(* The preview's samples: MonitoringThread has one from GetBuffer to its Release,
   the renderer those that it was given. *)

HasSample == mPc \in {"expose", "wait", "test", "deliver", "release"}

(* The counts agree with that. *)
PreviewCounts ==
  /\ PoolOK(mPool, MonPoolSize)
  /\ mHeld \in Samples(MonPoolSize) \cup {NoSample}
  /\ mHeld # NoSample <=> HasSample
  /\ rend \subseteq Samples(MonPoolSize)
  /\ HasSample /\ mPc # "release" => mHeld \notin rend
  /\ \A s \in Samples(MonPoolSize) : mPool.ref[s] = CountOf(mHeld = s) + CountOf(s \in rend)

(* Whose turn it is: the sample is exposed, being filled, or handed over by the
   event, and never two of these at a time, until ~CMonitor has begun. *)
Handshake ==
  /\ hPc \in {"idle", "fill", "copying", "clear", "signal"}
  /\ hPc # "idle" => wPc = "preview" /\ mVW
  /\ uPc # "monitor" => mVW /\ dPc = "up"
  /\ uPc \in {"output", "monitor"} => wPc = "exit"
  /\ dPc # "up" => ~mVW
  /\ mVW /\ mSample # NoSample => mPc = "wait" /\ mSample = mHeld /\ ~mEv
  /\ mVW /\ mEv => mPc = "wait" /\ hPc = "idle"
  /\ hPc \in {"fill", "copying", "clear"} => mSample # NoSample
  /\ hPc = "signal" => mPc = "wait" /\ mSample = NoSample

(* The sample of MonitoringThread holds a whole frame that it has not delivered. *)
Ready ==
  \/ hPc \in {"clear", "signal"}
  \/ mPc = "deliver"
  \/ mVW /\ (mPc = "test" \/ mEv)

(* It is newer than all the renderer has, and these are newer than the one shown. *)
NewerInv ==
  /\ shown \in Int /\ frame \in Nat /\ mContent \in [Samples(MonPoolSize) -> Int]
  /\ shown <= frame /\ \A s \in Samples(MonPoolSize) : mContent[s] <= frame
  /\ hPc \in {"fill", "copying"} =>
       /\ hFrame = frame /\ shown < frame
       /\ \A s \in Samples(MonPoolSize) : mContent[s] < frame
  /\ \A s \in rend : mContent[s] > shown
  /\ \A s, t \in rend : mContent[s] = mContent[t] => s = t
  /\ Ready => mContent[mHeld] > shown /\ \A t \in rend : mContent[mHeld] > mContent[t]

PreviewInv == PreviewCounts /\ Handshake /\ NewerInv

(* The types of what is compared. *)
LEMMA PreviewTypes ==
  ASSUME PreviewInv
  PROVE  /\ MonPoolSize \in Nat /\ NoSample \notin Samples(MonPoolSize)
         /\ mPool.free \in Seq(Samples(MonPoolSize))
         /\ \A s \in Samples(MonPoolSize) :
              mPool.ref[s] \in Nat /\ (mPool.ref[s] = 0 <=> mHeld # s /\ s \notin rend)
<1>1. MonPoolSize \in Nat /\ NoSample \notin Samples(MonPoolSize)
  BY MonitorAssumption DEF Samples, NoSample
<1>2. mPool.free \in Seq(Samples(MonPoolSize)) /\ mPool.ref \in [Samples(MonPoolSize) -> Nat]
  BY PoolFields DEF PreviewInv, PreviewCounts, PoolOK
<1>3. ASSUME NEW s \in Samples(MonPoolSize)
      PROVE  mPool.ref[s] \in Nat /\ (mPool.ref[s] = 0 <=> mHeld # s /\ s \notin rend)
  BY <1>2 DEF PreviewInv, PreviewCounts, CountOf
<1> QED
  BY <1>1, <1>2, <1>3

(* At first every sample of the preview is free and nothing was shown. *)
LEMMA InitPreview == Init => PreviewInv
<1> SUFFICES ASSUME Init PROVE PreviewInv
  OBVIOUS
<1>1. MonPoolSize \in Nat /\ NoSample \notin Samples(MonPoolSize)
  BY MonitorAssumption DEF Samples, NoSample
<1>2. PreviewCounts
  BY <1>1, NewPoolOK DEF Init, MonInit, PreviewCounts, HasSample, CountOf
<1>3. Handshake
  BY DEF Init, MonInit, Handshake
<1>4. NewerInv
  BY DEF Init, MonInit, NewerInv, Ready, Unwritten
<1> QED
  BY <1>2, <1>3, <1>4 DEF PreviewInv

(* Steps that leave the samples in the hands they are in. *)
LEMMA CountsStay ==
  ASSUME PreviewInv,
         \/ mPool' = mPool \/ mPool' = SetWaiting(mPool)
         \/ mPool' = Decommit(mPool) \/ mPool' = Commit(mPool)
         \/ mPool.sem > 0 /\ mPool' = Woken(mPool),
         UNCHANGED <<mHeld, rend>>, HasSample' <=> HasSample,
         mPc = "release" => mPc' = "release"
  PROVE  PreviewCounts'
<1>1. PoolOK(mPool', MonPoolSize) /\ mPool'.ref = mPool.ref
  <2>1. MonPoolSize \in Nat /\ PoolOK(mPool, MonPoolSize)
    BY PreviewTypes DEF PreviewInv, PreviewCounts
  <2>2. /\ PoolOK(SetWaiting(mPool), MonPoolSize) /\ SetWaiting(mPool).ref = mPool.ref
        /\ PoolOK(Commit(mPool), MonPoolSize) /\ Commit(mPool).ref = mPool.ref
        /\ PoolOK(Decommit(mPool), MonPoolSize) /\ Decommit(mPool).ref = mPool.ref
    BY <2>1, WaitsOK
  <2>3. mPool.sem > 0 => PoolOK(Woken(mPool), MonPoolSize) /\ Woken(mPool).ref = mPool.ref
    BY <2>1, WaitsOK
  <2> QED
    BY <2>1, <2>2, <2>3
<1> QED
  BY <1>1 DEF PreviewInv, PreviewCounts, HasSample

(* Steps that show nothing and write nothing into a sample. *)
LEMMA NewerStays ==
  ASSUME PreviewInv, UNCHANGED <<mContent, shown, frame, rend>>,
         hPc' \in {"fill", "copying"} => hPc = hPc' /\ hFrame' = hFrame,
         Ready' => Ready /\ mHeld' = mHeld
  PROVE  NewerInv'
BY DEF PreviewInv, NewerInv

(* RecordingThread and Destroy. *)
LEMMA PreviewSession ==
  ASSUME PreviewInv, FrameInv, \/ Worker \/ UDestroy \/ Destroy \/ Output \/ UNCHANGED vars
  PROVE  PreviewInv'
<1> USE DEF WStep, UStep, monVars, monShared, monCall
<1>1. CASE /\ UNCHANGED monVars /\ wPc' = wPc /\ uPc' = uPc /\ frame' = frame
  BY <1>1 DEF PreviewInv, PreviewCounts, Handshake, NewerInv, Ready, HasSample
<1>2. CASE /\ UNCHANGED monVars /\ frame' = frame
           /\ hPc # "idle" => wPc' = wPc
           /\ wPc = "exit" => wPc' = "exit"
           /\ uPc' # "monitor" /\ uPc # "monitor"
           /\ uPc' = "output" => wPc' = "exit"
  <2>1. PreviewCounts' /\ NewerInv'
    BY <1>2 DEF PreviewInv, PreviewCounts, HasSample, NewerInv, Ready
  <2>2. Handshake'
    BY <1>2 DEF PreviewInv, Handshake
  <2> QED
    BY <2>1, <2>2 DEF PreviewInv
<1>3. CASE WOutput \/ WSend \/ WSent \/ WExit
  <2>1. /\ UNCHANGED monVars /\ frame' = frame /\ uPc' = uPc
        /\ wPc \notin {"exit"} /\ (wPc = "preview" => hPc = "idle")
    BY <1>3 DEF WOutput, WSend, WSent, WExit
  <2>2. uPc \notin {"output", "monitor"} /\ (hPc # "idle" => wPc = "preview")
    BY <2>1 DEF PreviewInv, Handshake
  <2> QED
    BY <1>2, <2>1, <2>2
<1>4. CASE UDestroy \/ UDeleteOutput
  BY <1>2, <1>4 DEF UDestroy, UDeleteOutput, WorkerJoined
<1>5. CASE Output \/ UNCHANGED vars
  BY <1>1, <1>5 DEF Output, vars
<1>6. CASE UDeleteMonitor
  <2>1. /\ uPc = "output" /\ uPc' = "monitor" /\ mVW' = FALSE /\ dPc' = "signal"
        /\ UNCHANGED <<mPool, mContent, mSample, mEv, mPc, mHeld, hPc, hFrame, rend,
                       shown, wPc, frame>>
    BY <1>6 DEF UDeleteMonitor, MonClose, DStep
  <2>2. wPc = "exit" /\ hPc = "idle"
    BY <2>1 DEF PreviewInv, Handshake
  <2>3. PreviewCounts'
    BY <2>1, CountsStay DEF HasSample
  <2>4. Handshake'
    BY <2>1, <2>2 DEF Handshake
  <2>5. NewerInv'
    BY <2>1, <2>2, NewerStays DEF Ready
  <2> QED
    BY <2>3, <2>4, <2>5 DEF PreviewInv
<1>7. CASE WFrame
  <2>1. /\ uPc = "up" /\ uPc' = "up" /\ wPc = "top" /\ frame' = frame + 1
        /\ hPc = "idle" /\ mVW
        /\ UNCHANGED <<mPool, mContent, mSample, mEv, mVW, mPc, mHeld, dPc, rend, shown>>
        /\ \/ hPc' = "idle"
           \/ hPc' = "fill" /\ mSample # NoSample /\ wPc' = "preview" /\ hFrame' = frame'
    BY <1>7 DEF WFrame, MonCall, HStep, PreviewInv, Handshake
  <2>2. PreviewCounts'
    BY <2>1, CountsStay DEF HasSample
  <2>3. Handshake'
    BY <2>1 DEF PreviewInv, Handshake
  <2>4. shown <= frame /\ shown \in Int /\ frame \in Nat
        /\ (\A s \in Samples(MonPoolSize) : mContent[s] <= frame /\ mContent[s] \in Int)
    BY DEF PreviewInv, NewerInv
  <2>5. /\ shown < frame' /\ frame' \in Nat
        /\ \A s \in Samples(MonPoolSize) : mContent[s] < frame'
    BY <2>1, <2>4
  <2>6. Ready' => Ready
    BY <2>1 DEF Ready
  <2>7. NewerInv'
    BY <2>1, <2>4, <2>5, <2>6 DEF PreviewInv, NewerInv
  <2> QED
    BY <2>2, <2>3, <2>7 DEF PreviewInv
<1> QED
  BY <1>3, <1>4, <1>5, <1>6, <1>7 DEF Worker, Destroy

(* HandleFrame of the preview. *)
LEMMA PreviewHandle ==
  ASSUME PreviewInv, MonHandle, UNCHANGED <<wPc, frame, uPc>>
  PROVE  PreviewInv'
<1> USE DEF HStep, monShared, monHist, monCall
<1>1. CASE HFill \/ HFilled
  <2>1. /\ hPc \in {"fill", "copying"} /\ hPc' \in {"copying", "clear"}
        /\ hFrame = frame /\ frame \in Nat
        /\ UNCHANGED <<mPool, mSample, mEv, mVW, mPc, mHeld, dPc, rend, shown>>
    BY <1>1 DEF HFill, HFilled, PreviewInv, NewerInv
  <2>2. mVW /\ mPc = "wait" /\ mSample = mHeld /\ ~mEv /\ mHeld \in Samples(MonPoolSize)
        /\ mHeld \notin rend
    BY <2>1 DEF PreviewInv, Handshake, PreviewCounts, HasSample
  <2>3. PICK b \in Int : /\ mContent' = [mContent EXCEPT ![mHeld] = b]
                         /\ \/ hPc' = "copying" /\ hFrame' = hFrame /\ b < frame
                            \/ hPc' = "clear" /\ b = frame
    <3>1. CASE HFill
      <4>1. HalfCopied \in Int /\ HalfCopied < frame
        BY <2>1 DEF HalfCopied
      <4> QED
        BY <2>2, <3>1, <4>1 DEF HFill
    <3>2. CASE HFilled
      <4>1. mContent' = [mContent EXCEPT ![mHeld] = frame] /\ hPc' = "clear" /\ frame \in Int
        BY <2>1, <2>2, <3>2 DEF HFilled
      <4> QED
        BY <4>1
    <3> QED
      BY <1>1, <3>1, <3>2
  <2>4. /\ mContent \in [Samples(MonPoolSize) -> Int] /\ shown < frame /\ shown \in Int
        /\ \A s \in Samples(MonPoolSize) : mContent[s] < frame
        /\ \A s \in rend : s \in Samples(MonPoolSize) /\ mContent[s] > shown
        /\ \A s, t \in rend : mContent[s] = mContent[t] => s = t
    BY <2>1 DEF PreviewInv, NewerInv, PreviewCounts
  <2>5. /\ mContent' \in [Samples(MonPoolSize) -> Int] /\ mContent'[mHeld] = b
        /\ \A s \in Samples(MonPoolSize) : s # mHeld => mContent'[s] = mContent[s]
    BY <2>2, <2>3, <2>4
  <2>6. \A s \in rend : mContent'[s] = mContent[s] /\ mContent[s] < frame
    BY <2>2, <2>4, <2>5
  <2>7. \A s \in Samples(MonPoolSize) :
          mContent'[s] <= frame /\ (hPc' = "copying" => mContent'[s] < frame)
    BY <2>1, <2>3, <2>4, <2>5
  <2>8. Ready' => b = frame
    BY <2>1, <2>2, <2>3 DEF Ready
  <2>9. NewerInv'
    BY <2>1, <2>3, <2>4, <2>5, <2>6, <2>7, <2>8 DEF NewerInv
  <2>10. PreviewCounts'
    BY <2>1, CountsStay DEF HasSample
  <2>11. Handshake'
    BY <2>1 DEF PreviewInv, Handshake
  <2> QED
    BY <2>9, <2>10, <2>11 DEF PreviewInv
<1>2. CASE HNoPointer \/ HHandOver
  <2>1. /\ UNCHANGED <<mPool, mContent, mVW, mPc, mHeld, dPc, rend, shown>>
        /\ mSample' = NoSample
        /\ \/ hPc = "fill" /\ hPc' = "idle" /\ mEv' = mEv
           \/ hPc = "clear" /\ hPc' = "signal" /\ mEv' = mEv
           \/ hPc = "signal" /\ hPc' = "idle" /\ mEv'
    BY <1>2 DEF HNoPointer, HHandOver, HandOver, Clear, Signal, PreviewInv, Handshake
  <2>2. mVW /\ mPc = "wait" /\ ~mEv
    BY <2>1 DEF PreviewInv, Handshake
  <2>3. Ready' => Ready
    BY <2>1, <2>2 DEF Ready
  <2>4. NewerInv'
    BY <2>1, <2>3, NewerStays
  <2>5. PreviewCounts'
    BY <2>1, CountsStay DEF HasSample
  <2>6. Handshake'
    BY <2>1, <2>2 DEF PreviewInv, Handshake
  <2> QED
    BY <2>4, <2>5, <2>6 DEF PreviewInv
<1> QED
  BY <1>1, <1>2 DEF MonHandle

(* MonitoringThread. *)
LEMMA PreviewThread ==
  ASSUME PreviewInv, MonThread, UNCHANGED <<wPc, frame, uPc>>
  PROVE  PreviewInv'
<1> USE DEF MStep, monShared, monHist, monCall
<1>2. CASE MGetBuffer
  <2>1. /\ mPc = "get" /\ mPc' \in {"expose", "blocked", "backoff"}
        /\ UNCHANGED <<mContent, mSample, mEv, mVW, hPc, hFrame, dPc, rend, shown>>
    BY <1>2 DEF MGetBuffer
  <2>2. hPc = "idle" /\ (mVW => mSample = NoSample /\ ~mEv)
    BY <2>1 DEF PreviewInv, Handshake
  <2>3. NewerInv'
    BY <2>1, <2>2, NewerStays DEF Ready
  <2>4. Handshake'
    BY <2>1, <2>2 DEF PreviewInv, Handshake
  <2>5. PreviewCounts'
    <3>1. CASE CanTake(mPool) /\ mPc' = "expose" /\ mPool' = Take(mPool) /\ mHeld' = Head(mPool.free)
      <4> DEFINE h == Head(mPool.free)
      <4>1. /\ PoolOK(mPool', MonPoolSize) /\ h \in Samples(MonPoolSize)
            /\ mPool.ref[h] = 0 /\ mPool'.ref[h] = 1
            /\ \A s \in Samples(MonPoolSize) : s # h => mPool'.ref[s] = mPool.ref[s]
        BY <3>1, PreviewTypes, TakeOK DEF CanTake, PreviewInv, PreviewCounts
      <4>2. mHeld' = h /\ mHeld = NoSample
        BY <2>1, <3>1 DEF PreviewInv, PreviewCounts, HasSample
      <4> HIDE DEF h
      <4>3. h # NoSample /\ h \notin rend
        BY <4>1, PreviewTypes
      <4>4. \A s \in Samples(MonPoolSize) : mPool'.ref[s] = CountOf(mHeld' = s) + CountOf(s \in rend)
        BY <4>1, <4>2, <4>3, PreviewTypes DEF PreviewInv, PreviewCounts, CountOf
      <4> QED
        BY <2>1, <3>1, <4>1, <4>2, <4>3, <4>4 DEF PreviewInv, PreviewCounts, HasSample
    <3>2. CASE mPc' \in {"blocked", "backoff"} /\ mHeld' = mHeld
               /\ (mPool' = mPool \/ mPool' = SetWaiting(mPool))
      BY <2>1, <3>2, CountsStay DEF HasSample
    <3> QED
      BY <1>2, <3>1, <3>2 DEF MGetBuffer
  <2> QED
    BY <2>3, <2>4, <2>5 DEF PreviewInv
<1>3. CASE MWoken \/ MBackOff
  <2>1. /\ mPc \in {"blocked", "backoff"} /\ mPc' = "get"
        /\ UNCHANGED <<mContent, mSample, mEv, mVW, mHeld, hPc, hFrame, dPc, rend, shown>>
        /\ mPool' = mPool \/ (mPool.sem > 0 /\ mPool' = Woken(mPool))
    BY <1>3 DEF MWoken, MBackOff
  <2>2. hPc = "idle" /\ (mVW => mSample = NoSample /\ ~mEv)
    BY <2>1 DEF PreviewInv, Handshake
  <2>3. NewerInv'
    BY <2>1, <2>2, NewerStays DEF Ready
  <2>4. Handshake'
    BY <2>1, <2>2 DEF PreviewInv, Handshake
  <2>5. PreviewCounts'
    BY <2>1, CountsStay DEF HasSample
  <2> QED
    BY <2>3, <2>4, <2>5 DEF PreviewInv
<1>4. CASE MExpose
  <2>1. /\ mPc = "expose" /\ mPc' = "wait" /\ mSample' = mHeld
        /\ UNCHANGED <<mPool, mContent, mEv, mVW, mHeld, hPc, hFrame, dPc, rend, shown>>
    BY <1>4 DEF MExpose
  <2>2. hPc = "idle" /\ (mVW => mSample = NoSample /\ ~mEv)
    BY <2>1 DEF PreviewInv, Handshake
  <2>3. NewerInv'
    BY <2>1, <2>2, NewerStays DEF Ready
  <2>4. Handshake'
    BY <2>1, <2>2 DEF PreviewInv, Handshake
  <2>5. PreviewCounts'
    BY <2>1, CountsStay DEF HasSample
  <2> QED
    BY <2>3, <2>4, <2>5 DEF PreviewInv
<1>5. CASE MWake
  <2>1. /\ mPc = "wait" /\ mPc' = "test" /\ mEv /\ ~mEv'
        /\ UNCHANGED <<mPool, mContent, mSample, mVW, mHeld, hPc, hFrame, dPc, rend, shown>>
    BY <1>5 DEF MWake, MWakes
  <2>2. hPc = "idle" /\ (mVW => mSample = NoSample)
    BY <2>1 DEF PreviewInv, Handshake
  <2>3. NewerInv'
    BY <2>1, <2>2, NewerStays DEF Ready
  <2>4. Handshake'
    BY <2>1, <2>2 DEF PreviewInv, Handshake
  <2>5. PreviewCounts'
    BY <2>1, CountsStay DEF HasSample
  <2> QED
    BY <2>3, <2>4, <2>5 DEF PreviewInv
<1>6. CASE MTest /\ mVW
  <2>1. /\ mPc = "test" /\ mPc' = "deliver"
        /\ UNCHANGED <<mPool, mContent, mSample, mEv, mVW, mHeld, hPc, hFrame, dPc, rend,
                       shown>>
    BY <1>6 DEF MTest
  <2>2. hPc = "idle" /\ mSample = NoSample /\ ~mEv
    BY <1>6, <2>1 DEF PreviewInv, Handshake
  <2>3. NewerInv'
    BY <1>6, <2>1, <2>2, NewerStays DEF Ready
  <2>4. Handshake'
    BY <2>1, <2>2 DEF PreviewInv, Handshake
  <2>5. PreviewCounts'
    BY <2>1, CountsStay DEF HasSample
  <2> QED
    BY <2>3, <2>4, <2>5 DEF PreviewInv
<1>7. CASE MRelease \/ (MTest /\ ~mVW)
  <2>1. /\ mPc \in {"release", "test"} /\ mPc' \in {"get", "exit"} /\ (mPc = "test" => ~mVW)
        /\ mPool' = Release(mPool, mHeld) /\ mHeld' = NoSample
        /\ UNCHANGED <<mContent, mSample, mEv, mVW, hPc, hFrame, dPc, rend, shown>>
    BY <1>7 DEF MRelease, MTest
  <2>2. hPc = "idle" /\ (mVW => mSample = NoSample /\ ~mEv)
    BY <2>1 DEF PreviewInv, Handshake
  <2>3. NewerInv'
    BY <2>1, <2>2, NewerStays DEF Ready
  <2>4. Handshake'
    BY <2>1, <2>2 DEF PreviewInv, Handshake
  <2>5. PreviewCounts'
    <3>1. mHeld \in Samples(MonPoolSize)
      BY <2>1 DEF PreviewInv, PreviewCounts, HasSample
    <3>2. mPool.ref[mHeld] > 0
      BY <3>1, PreviewTypes
    <3>3. /\ PoolOK(mPool', MonPoolSize) /\ mPool'.ref[mHeld] = mPool.ref[mHeld] - 1
          /\ \A s \in Samples(MonPoolSize) : s # mHeld => mPool'.ref[s] = mPool.ref[s]
      BY <2>1, <3>1, <3>2, PreviewTypes, ReleaseOK DEF PreviewInv, PreviewCounts
    <3>4. \A s \in Samples(MonPoolSize) : mPool'.ref[s] = CountOf(mHeld' = s) + CountOf(s \in rend)
      BY <2>1, <3>1, <3>3, PreviewTypes DEF PreviewInv, PreviewCounts, CountOf
    <3> QED
      BY <2>1, <3>3, <3>4 DEF PreviewInv, PreviewCounts, HasSample
  <2> QED
    BY <2>3, <2>4, <2>5 DEF PreviewInv
<1>8. CASE MDeliver
  <2>1. /\ mPc = "deliver" /\ mPc' = "release"
        /\ UNCHANGED <<mContent, mSample, mEv, mVW, mHeld, hPc, hFrame, dPc, shown>>
        /\ \/ mPool' = AddRef(mPool, mHeld) /\ rend' = rend \cup {mHeld}
           \/ mPool' = mPool /\ rend' = rend
    BY <1>8 DEF MDeliver
  <2>2. hPc = "idle" /\ (mVW => mSample = NoSample /\ ~mEv)
    BY <2>1 DEF PreviewInv, Handshake
  <2>3. mHeld \in Samples(MonPoolSize) /\ mHeld \notin rend /\ rend \subseteq Samples(MonPoolSize)
    BY <2>1 DEF PreviewInv, PreviewCounts, HasSample
  <2>4. Handshake'
    BY <2>1, <2>2 DEF PreviewInv, Handshake
  <2>5. CASE mPool' = mPool /\ rend' = rend
    <3>1. NewerInv'
      BY <2>1, <2>2, <2>5, NewerStays DEF Ready
    <3>2. PreviewCounts'
      BY <2>1, <2>5 DEF PreviewInv, PreviewCounts, HasSample
    <3> QED
      BY <2>4, <3>1, <3>2 DEF PreviewInv
  <2>6. CASE mPool' = AddRef(mPool, mHeld) /\ rend' = rend \cup {mHeld}
    <3>1. mContent[mHeld] > shown /\ (\A t \in rend : mContent[mHeld] > mContent[t])
          /\ \A s \in Samples(MonPoolSize) : mContent[s] \in Int
      BY <2>1 DEF PreviewInv, NewerInv, Ready
    <3>2. ~Ready'
      BY <2>1, <2>2 DEF Ready
    <3>3. \A s, t \in rend' : mContent[s] = mContent[t] => s = t
      <4>1. \A s, t \in rend : mContent[s] = mContent[t] => s = t
        BY DEF PreviewInv, NewerInv
      <4> QED
        BY <2>3, <2>6, <3>1, <4>1
    <3>4. NewerInv'
      BY <2>1, <2>2, <2>6, <3>1, <3>2, <3>3 DEF PreviewInv, NewerInv
    <3>5. mPool.ref[mHeld] > 0
      BY <2>3, PreviewTypes
    <3>6. /\ PoolOK(mPool', MonPoolSize) /\ mPool'.ref[mHeld] = mPool.ref[mHeld] + 1
          /\ \A s \in Samples(MonPoolSize) : s # mHeld => mPool'.ref[s] = mPool.ref[s]
      BY <2>3, <2>6, <3>5, PreviewTypes, AddRefOK DEF PreviewInv, PreviewCounts
    <3>7. \A s \in Samples(MonPoolSize) : mPool'.ref[s] = CountOf(mHeld' = s) + CountOf(s \in rend')
      BY <2>1, <2>3, <2>6, <3>6, PreviewTypes DEF PreviewInv, PreviewCounts, CountOf
    <3>8. PreviewCounts'
      BY <2>1, <2>3, <2>6, <3>6, <3>7 DEF PreviewInv, PreviewCounts, HasSample
    <3> QED
      BY <2>4, <3>4, <3>8 DEF PreviewInv
  <2> QED
    BY <2>1, <2>5, <2>6
<1> QED
  BY <1>2, <1>3, <1>4, <1>5, <1>6, <1>7, <1>8 DEF MonThread

(* The renderer shows the oldest it has: it is newer than the one before. *)
LEMMA PreviewRender ==
  ASSUME PreviewInv, RenderGivesBack, UNCHANGED <<wPc, frame, uPc>>
  PROVE  PreviewInv' /\ (shown' # shown => shown' > shown)
<1>1. PICK s \in rend : /\ \A t \in rend : mContent[s] <= mContent[t]
                        /\ shown' = IF mPool.committed THEN mContent[s] ELSE shown
                        /\ rend' = rend \ {s}
                        /\ mPool' = Release(mPool, s)
  BY DEF RenderGivesBack
<1>2. UNCHANGED <<mContent, mSample, mEv, mVW, mPc, mHeld, hPc, hFrame, dPc>>
  BY DEF RenderGivesBack, monShared, monCall
<1>3. s \in Samples(MonPoolSize) /\ rend \subseteq Samples(MonPoolSize)
  BY DEF PreviewInv, PreviewCounts
<1>4. /\ shown \in Int /\ mContent[s] > shown
      /\ \A t \in Samples(MonPoolSize) : mContent[t] \in Int
  BY <1>3 DEF PreviewInv, NewerInv
<1>5. shown' \in {shown, mContent[s]} /\ (shown' # shown => shown' > shown)
  BY <1>1, <1>4
<1>6. \A t \in rend' : mContent[t] > shown'
  <2> TAKE t \in rend'
  <2>1. t \in rend /\ t # s /\ mContent[s] <= mContent[t] /\ mContent[s] # mContent[t]
        /\ mContent[t] > shown
    BY <1>1 DEF PreviewInv, NewerInv
  <2> QED
    BY <1>3, <1>4, <1>5, <2>1
<1>7. Ready' => Ready /\ mContent[mHeld] > shown'
  BY <1>2, <1>5 DEF PreviewInv, NewerInv, Ready
<1>8. shown' <= frame /\ (hPc \in {"fill", "copying"} => shown' < frame) /\ shown' \in Int
  BY <1>3, <1>4, <1>5 DEF PreviewInv, NewerInv
<1>9. NewerInv'
  BY <1>1, <1>2, <1>6, <1>7, <1>8 DEF PreviewInv, NewerInv
<1>10. Handshake'
  BY <1>2 DEF PreviewInv, Handshake
<1>11. PreviewCounts'
  <2>1. mPool.ref[s] > 0
    BY <1>3, PreviewTypes
  <2>2. /\ PoolOK(mPool', MonPoolSize) /\ mPool'.ref[s] = mPool.ref[s] - 1
        /\ \A t \in Samples(MonPoolSize) : t # s => mPool'.ref[t] = mPool.ref[t]
    BY <1>1, <1>3, <2>1, PreviewTypes, ReleaseOK DEF PreviewInv, PreviewCounts
  <2>3. \A t \in Samples(MonPoolSize) : mPool'.ref[t] = CountOf(mHeld' = t) + CountOf(t \in rend')
    BY <1>1, <1>2, <1>3, <2>2, PreviewTypes DEF PreviewInv, PreviewCounts, CountOf
  <2> QED
    BY <1>1, <1>2, <2>2, <2>3 DEF PreviewInv, PreviewCounts, HasSample
<1> QED
  BY <1>5, <1>9, <1>10, <1>11 DEF PreviewInv

(* The graph stops and restarts, and ~CMonitor. *)
LEMMA PreviewGraph ==
  ASSUME PreviewInv, GraphStops \/ GraphRestarts \/ MonDestroy, UNCHANGED <<wPc, frame, uPc>>
  PROVE  PreviewInv'
<1>1. /\ UNCHANGED <<mContent, mSample, mVW, mPc, mHeld, hPc, hFrame, rend, shown>>
      /\ mPool' = mPool \/ mPool' = Decommit(mPool) \/ mPool' = Commit(mPool)
      /\ \/ UNCHANGED <<mEv, dPc>>
         \/ dPc = "signal" /\ dPc' = "join" /\ mEv'
         \/ dPc = "join" /\ dPc' = "closed" /\ mEv' = mEv
  BY DEF GraphStops, GraphRestarts, MonDestroy, DSignal, DJoin, DStep, ShutdownSignal,
     monShared, monCall
<1>2. dPc # "up" => ~mVW
  BY DEF PreviewInv, Handshake
<1>3. PreviewCounts'
  BY <1>1, CountsStay DEF HasSample
<1>4. Handshake'
  BY <1>1, <1>2 DEF PreviewInv, Handshake
<1>5. NewerInv'
  BY <1>1, <1>2, NewerStays DEF Ready
<1> QED
  BY <1>3, <1>4, <1>5 DEF PreviewInv

(* Every step of a session keeps PreviewInv, and shows a newer frame or none. *)
LEMMA PreviewKeeps ==
  PreviewInv /\ FrameInv /\ [Next]_vars => PreviewInv' /\ (shown' # shown => shown' > shown)
<1> SUFFICES ASSUME PreviewInv, FrameInv, [Next]_vars
             PROVE  PreviewInv' /\ (shown' # shown => shown' > shown)
  OBVIOUS
<1>1. CASE Worker \/ UDestroy \/ Destroy \/ Output \/ UNCHANGED vars
  <2>1. shown' = shown
    BY <1>1 DEF Worker, WFrame, WOutput, WSend, WSent, WExit, UDestroy, Destroy, UDeleteOutput,
       UDeleteMonitor, Output, vars, monVars, MonCall, MonClose
  <2> QED
    BY <1>1, <2>1, PreviewSession
<1>2. CASE Preview
  <2>1. UNCHANGED <<wPc, frame, uPc>>
    BY <1>2 DEF Preview
  <2>2. CASE RenderGivesBack
    BY <2>1, <2>2, PreviewRender
  <2>3. CASE MonHandle \/ MonThread \/ GraphStops \/ GraphRestarts \/ MonDestroy
    <3>1. shown' = shown
      BY <2>3 DEF MonHandle, HFill, HNoPointer, HFilled, HHandOver, MonThread, MGetBuffer, MWoken,
         MBackOff, MExpose, MWake, MTest, MDeliver, MRelease, GraphStops, GraphRestarts,
         MonDestroy, DSignal, DJoin
    <3> QED
      BY <2>1, <2>3, <3>1, PreviewHandle, PreviewThread, PreviewGraph
  <2> QED
    BY <1>2, <2>2, <2>3 DEF Preview
<1> QED
  BY <1>1, <1>2 DEF Next

(* Every behaviour of the session is one of its DV output: the thread, Destroy
   and the preview do nothing to it that OutputGraph does not allow. *)
THEOREM SessionImplementsOutput == Spec => OutSpec
<1>1. Init => OutInit /\ FrameInv
  BY OutputsAssumption DEF Init, FrameInv
<1>2. FrameInv /\ [Next]_vars => [OutNext]_outVars
  <2> SUFFICES ASSUME FrameInv, [Next]_vars PROVE [OutNext]_outVars
    OBVIOUS
  <2>1. CASE WSend
    <3>1. frame \in Frames
      BY <2>1, OutputsAssumption DEF WSend, WStep, FrameInv
    <3> QED
      BY <2>1, <3>1 DEF WSend, OutNext
  <2>2. CASE UDeleteOutput
    BY <2>2 DEF UDeleteOutput, OutNext
  <2>3. CASE Output
    BY <2>3 DEF Output, OutNext
  <2>4. CASE WFrame \/ WOutput \/ WSent \/ WExit \/ UDestroy \/ UDeleteMonitor \/ Preview
               \/ UNCHANGED vars
    BY <2>4 DEF WFrame, WOutput, WSent, WExit, UDestroy, UDeleteMonitor, Preview, vars
  <2> QED
    BY <2>1, <2>2, <2>3, <2>4 DEF Next, Worker, Destroy
<1> QED
  BY <1>1, <1>2, FrameKeeps, PTL DEF Spec, OutSpec

(* Nobody in the DV output of a record session waits while there is something
   for him, and each one who waits will be woken, however many samples the
   pool has and however the device behaves (amfilter.h:1411, outputq.cpp:260). *)
THEOREM LazySignallingSafe == Spec => []LazySignalling
BY OutputSignals, SessionImplementsOutput

(* The samples of the DV output are in the hands that their counts say, and a
   free one in nobody's, for every number of samples: no frame is copied over
   one that is queued, being sent or with the device (amfilter.cpp:3361,
   CMediaSample::Release, and the copy in COutputGraph::HandleFrame). *)
THEOREM SamplesOwnedSafe == Spec => []SamplesOwned
<1>1. OwnInv => SamplesOwned
  BY DEF OwnInv, CountsInv, PoolOK, SamplesOwned
<1> QED
  BY <1>1, OutputOwned, SessionImplementsOutput, PTL

(* The device plays the frames in the order HandleFrame queued them, each once
   and whole, as far as it got, also when it refuses one or is stopped. *)
THEOREM PlayedInOrderSafe == Spec => []PlayedInOrder
BY PlayedPrefix, OutputOrdered, SessionImplementsOutput, PTL

(* The device is told of the end of the stream when it has every frame that was
   queued before: EndOfStream takes the same way as the samples. *)
THEOREM EndAfterLastFrameSafe == Spec => []EndAfterLastFrame
<1>1. OrderInv => EndAfterLastFrame
  BY DEF OrderInv
<1> QED
  BY <1>1, OutputOrdered, SessionImplementsOutput, PTL

(* PreviewInv holds in every state of a session. *)
LEMMA PreviewInvariant == Spec => [](PreviewInv /\ FrameInv)
<1>1. Init => FrameInv
  BY OutputsAssumption DEF Init, FrameInv
<1> QED
  BY <1>1, InitPreview, PreviewKeeps, FrameKeeps, PTL DEF Spec

(* Every behaviour of the session is one of its preview: frames come in the order
   of their numbers, and the destructor is called when HandleFrame is out. *)
THEOREM SessionImplementsPreview == Spec => MonSpec
<1>1. Init => MonInit
  BY DEF Init
<1>2. PreviewInv /\ FrameInv /\ [Next]_vars => [MonNext]_monVars
  <2> SUFFICES ASSUME PreviewInv, FrameInv, [Next]_vars PROVE [MonNext]_monVars
    OBVIOUS
  <2>1. CASE WFrame
    <3>1. frame' \in MonFrames /\ frame' = frame + 1 /\ frame \in Nat
      BY <2>1, OutputsAssumption DEF WFrame, FrameInv
    <3>2. \A s \in Samples(MonPoolSize) : mContent[s] \in Int /\ mContent[s] <= frame
      BY DEF PreviewInv, NewerInv
    <3>3. \A s \in Samples(MonPoolSize) : frame' > mContent[s]
      BY <3>1, <3>2
    <3> QED
      BY <2>1, <3>1, <3>3 DEF WFrame, MonNext
  <2>2. CASE UDeleteMonitor
    <3>1. hPc = "idle"
      BY <2>2 DEF UDeleteMonitor, UStep, PreviewInv, Handshake
    <3> QED
      BY <2>2, <3>1 DEF UDeleteMonitor, MonNext
  <2>3. CASE Preview
    BY <2>3 DEF Preview, MonNext
  <2>4. CASE WOutput \/ WSend \/ WSent \/ WExit \/ UDestroy \/ UDeleteOutput \/ Output
               \/ UNCHANGED vars
    BY <2>4 DEF WOutput, WSend, WSent, WExit, UDestroy, UDeleteOutput, Output, vars
  <2> QED
    BY <2>1, <2>2, <2>3, <2>4 DEF Next, Worker, Destroy
<1> QED
  BY <1>1, <1>2, PreviewInvariant, PTL DEF Spec, MonSpec

(* The preview never goes back to an earlier frame, although HandleFrame and
   MonitoringThread share a sample without a lock, and however often the graph
   is stopped: a frame is shown when it is whole and newer than the last. *)
THEOREM PreviewMovesForwardSafe == Spec => PreviewMovesForward
<1>1. PreviewInv /\ FrameInv /\ [Next]_vars => [shown' > shown]_shown
  BY PreviewKeeps
<1> QED
  BY <1>1, PreviewInvariant, PTL DEF Spec, PreviewMovesForward

(* MonitoringThread never sleeps forever on an event that nobody will set: while
   it waits, its sample is exposed or the event is on its way, unless a sample
   had no memory (DShow.cpp, CMonitor::HandleFrame and MonitoringThread). *)
THEOREM PreviewIsAwakeSafe == Spec => []PreviewIsAwake
<1>1. MonInit => PreviewIsAwake
  BY DEF MonInit, PreviewIsAwake
<1>2. PreviewIsAwake /\ [MonNext]_monVars => PreviewIsAwake'
  <2> SUFFICES ASSUME PreviewIsAwake, [MonNext]_monVars PROVE PreviewIsAwake'
    OBVIOUS
  <2> USE DEF PreviewIsAwake, MStep, HStep, DStep, monShared, monCall, monHist
  <2>1. CASE MonHandle
    BY <2>1 DEF MonHandle, HFill, HNoPointer, HFilled, HHandOver, HandOver, Clear, Signal
  <2>2. CASE MonThread
    BY <2>2 DEF MonThread, MGetBuffer, MWoken, MBackOff, MExpose, MWake, MTest, MDeliver, MRelease
  <2>3. CASE (\E f \in MonFrames : MonCall(f)) \/ MonClose \/ MonDestroy
    BY <2>3 DEF MonCall, MonClose, MonDestroy, DSignal, DJoin, ShutdownSignal
  <2>4. CASE RenderGivesBack \/ GraphStops \/ GraphRestarts \/ UNCHANGED monVars
    BY <2>4 DEF RenderGivesBack, GraphStops, GraphRestarts, monVars
  <2> QED
    BY <2>1, <2>2, <2>3, <2>4 DEF MonNext
<1> QED
  BY <1>1, <1>2, SessionImplementsPreview, PTL DEF MonSpec
=============================================================================
