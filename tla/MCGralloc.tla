------------------------------ MODULE MCGralloc -------------------------------
(* Small instances of Gralloc. *)
EXTENDS Gralloc, TLC

Symmetry == Permutations(Thread) \cup Permutations(Handle)
===============================================================================
