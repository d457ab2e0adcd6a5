------------------------------ MODULE FrameFIFO ------------------------------
(***************************************************************************)
(* What CDVQueue promises its two users, with no ring, lock or event: a    *)
(* bounded first-in first-out buffer of DV frames with an end-of-stream    *)
(* mark.  Frames are numbered in the order in which Put is called.         *)
(*                                                                         *)
(* Two things about end of stream are weaker than one would guess, and     *)
(* both are what DShow.cpp does: a Put that tested m_end before it was set *)
(* may still add its frame (Accept does not require ~closed), and a reader *)
(* may be told "end of stream" while frames are left (Finish does not      *)
(* require buf = <<>>).                                                    *)
(***************************************************************************)
EXTENDS Naturals, Sequences

CONSTANT Capacity   \* the queueSize argument of CDVQueue::CDVQueue

VARIABLES
  buf,        \* the frames in the queue, oldest first
  newest,     \* the number of the last frame accepted
  held,       \* the frame the reader was given last, 0 before the first
  closed      \* end of stream was signalled (m_end)

vars == <<buf, newest, held, closed>>

Init ==
  /\ buf = <<>>
  /\ newest = 0
  /\ held = 0
  /\ closed = FALSE

(* A frame enters: the next one in order, and only while there is room. *)
Accept ==
  /\ Len(buf) < Capacity
  /\ newest' = newest + 1
  /\ buf' = Append(buf, newest')
  /\ UNCHANGED <<held, closed>>

(* The reader gets the oldest frame. *)
Deliver ==
  /\ buf # <<>>
  /\ held' = Head(buf)
  /\ buf' = Tail(buf)
  /\ UNCHANGED <<newest, closed>>

(* End of stream is signalled, and is never taken back. *)
Close ==
  /\ ~closed
  /\ closed' = TRUE
  /\ UNCHANGED <<buf, newest, held>>

Next == Accept \/ Deliver \/ Close

Spec == Init /\ [][Next]_vars
=============================================================================
