--------------------------- MODULE MCGrallocBuffers ---------------------------
(* Small instances of GrallocBuffers. *)
EXTENDS GrallocBuffers, TLC

CONSTANTS sf, app

Symmetry == Permutations(Buffer) \cup Permutations(Handle)
===============================================================================
