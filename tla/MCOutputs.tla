----------------------------- MODULE MCOutputs -----------------------------
EXTENDS Outputs

(* The frames by the order in which they are read. *)
ThreeFrames == 1 .. 3
=============================================================================
