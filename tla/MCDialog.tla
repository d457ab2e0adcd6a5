------------------------------ MODULE MCDialog ------------------------------
(* Model checking Dialog: the bounds are in the configurations. *)
EXTENDS Dialog
=============================================================================
