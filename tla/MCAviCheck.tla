----------------------------- MODULE MCAviCheck -----------------------------
EXTENDS AviCheck

(* Empty, too small for a type, a type alone, a type and a chunk, odd,     *)
(* an avih, and the sizes where the rounding wraps and where it does not.  *)
SomeSizes == {0, 4, 20, 33, W - 8, W - 1}

(* Too short for the first header, one byte short of two lists and an index  *)
(* with one entry, and longer than that.                                     *)
SomeFiles == {11, 51, 60}
=============================================================================
