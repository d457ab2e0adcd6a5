----------------------------- MODULE SamplePool -----------------------------
(***************************************************************************)
(* The allocator of an output pin, CBaseAllocator, with the reference      *)
(* counts of its samples, CMediaSample (baseclasses/amfilter.cpp).  A pool *)
(* is a record, an operator here is one critical section of the allocator. *)
(* The last Release of a sample and the ReleaseBuffer it calls are one     *)
(* step: nobody can name a sample whose count is zero.                     *)
(*                                                                         *)
(* A definition marked "Fault:" is a faulty variant of the one after it.   *)
(***************************************************************************)
EXTENDS Integers, Sequences

Samples(n) == 1 .. n
NoSample   == 0          \* a null pointer

(* m_bCommitted, m_lFree, m_cRef of each sample, m_lWaiting and m_hSem. *)
Pools(n) == [committed : BOOLEAN, free : Seq(Samples(n)), ref : [Samples(n) -> Nat],
             waiting : Nat, sem : Nat]

NewPool(n) == [committed |-> TRUE, free |-> [s \in Samples(n) |-> s],
               ref |-> [s \in Samples(n) |-> 0], waiting |-> 0, sem |-> 0]

(* Fault: GetBuffer is not woken. *)
NobodyNotified(p) == p

NotifySample(p) == [p EXCEPT !.sem = @ + p.waiting, !.waiting = 0]

Commit(p)   == [p EXCEPT !.committed = TRUE]
Decommit(p) == NotifySample([p EXCEPT !.committed = FALSE])

(* GetBuffer: a sample, or a wait for the semaphore and another try. *)
CanTake(p)    == p.committed /\ p.free # <<>>
MustWait(p)   == p.committed /\ p.free = <<>>
Take(p)       == [p EXCEPT !.free = Tail(@), !.ref[Head(p.free)] = 1]
SetWaiting(p) == [p EXCEPT !.waiting = @ + 1]
Woken(p)      == [p EXCEPT !.sem = @ - 1]

(* Fault: a client that keeps a sample takes no reference to it. *)
NoRef(p, s)  == p

AddRef(p, s) == [p EXCEPT !.ref[s] = @ + 1]

(* The last reference: back to the free list, where the next GetBuffer looks. *)
Release(p, s) ==
  IF p.ref[s] > 1
  THEN [p EXCEPT !.ref[s] = @ - 1]
  ELSE NotifySample([p EXCEPT !.ref[s] = 0, !.free = <<s>> \o @])
=============================================================================
