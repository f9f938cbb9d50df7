--------------------------- MODULE MCLocalBuffer ---------------------------
(* TLC instances of LocalBuffer. *)
EXTENDS LocalBuffer, TLC

FlusherSymmetry == Permutations(Flushers)
=============================================================================
