----------------------------- MODULE MCController -----------------------------
(* Small instances of Controller. *)
EXTENDS Controller, TLC

Symmetry == Permutations(Pid) \cup Permutations(Ctl)
===============================================================================
