--------------------------- MODULE MCControlSockets ---------------------------
(* Small instances of ControlSockets. *)
EXTENDS ControlSockets, TLC

\* Two of the three: what one socket does to the others shows with two.
MCNames == <<"installd", "zygote">>
Symmetry == Permutations(Ctl)
===============================================================================
