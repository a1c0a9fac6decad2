---------------------------- MODULE MCPropertiesd -----------------------------
(* Small instances of Propertiesd. *)
EXTENDS Propertiesd, TLC

CONSTANTS c1, c2, k1, k2, v1, v2

MCDefault == k1 :> v1

Sets(k, V) == [op : {"set"}, key : {k}, value : V]
Gets(K) == [op : {"get"}, key : K, value : {Empty}]

\* One process writes and reads, with keys of every kind; the other only reads.
MCAsks ==
  c1 :> Sets(k1, {Empty, v2}) \cup Sets(k2, {v1}) \cup Sets(EmptyKey, {v1}) \cup Gets({k2, DotsKey})
    @@ c2 :> Gets({k1})
===============================================================================
