----------------------------- MODULE MCRecording -----------------------------
(***************************************************************************)
(* Recording for TLC: play lists.                                          *)
(***************************************************************************)
EXTENDS Recording

ThreeFiles == <<2, 2, 1>>   \* a queue of one is full within the first file
TwoFiles   == <<1, 1>>
=============================================================================
