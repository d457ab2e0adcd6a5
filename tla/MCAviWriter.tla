----------------------------- MODULE MCAviWriter -----------------------------
(***************************************************************************)
(* AviWriter for TLC.                                                      *)
(***************************************************************************)
EXTENDS AviWriter

Name(tmp, width, num) == [tmp |-> tmp, time |-> 1, width |-> width, num |-> num]

(* A final name that a capture will want, one that is wider, and a "~" name. *)
SomeNames == {Name(FALSE, 1, 1), Name(FALSE, 2, 2), Name(TRUE, 0, 0)}
=============================================================================
