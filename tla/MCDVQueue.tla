------------------------------ MODULE MCDVQueue ------------------------------
(***************************************************************************)
(* DVQueue for TLC.  A ring of two usable slots (three in all) is full,    *)
(* empty and wrapped within four frames; two closers stand for a Destroy   *)
(* that meets the producer's own end of stream or a FinalizeCapturing.     *)
(***************************************************************************)
EXTENDS DVQueue

CONSTANTS c1, c2

BothClosers == {c1, c2}
=============================================================================
