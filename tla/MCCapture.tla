------------------------------ MODULE MCCapture ------------------------------
(***************************************************************************)
(* Capture for TLC: the sets of recording times the runs use.              *)
(***************************************************************************)
EXTENDS Capture

OneTime   == {1}                  \* every frame dated alike: no splits on the time
JumpTimes == {NoTime, 1, 2, 5}    \* undated frames, steps of one and jumps
=============================================================================
