---------------------------- MODULE PropertyStore -----------------------------
(***************************************************************************)
(* What the property daemon promises to the processes that use it: a       *)
(* register per key.  Each call takes effect at one moment between its     *)
(* start and its return, a get reports the value of that moment, and a     *)
(* call fails only when the daemon went away, which for the calling        *)
(* process is for ever.  No value changes but by a request that a process  *)
(* made, and when a daemon starts.                                         *)
(*                                                                         *)
(* Values outlive the daemon.  But unless a key without a group is stored, *)
(* each start puts the defaults in the place of what clients have set.     *)
(*                                                                         *)
(* A wild client, one that lost its place in the stream of replies, may be *)
(* told anything and have requests overlooked, and that is all: what it    *)
(* does to the values are requests of its own.                             *)
(***************************************************************************)
EXTENDS Sequences

CONSTANTS
  Client,   \* processes that read and write properties
  Key,      \* the keys that can be stored
  Plain,    \* the keys without a group
  Value,    \* the values
  Empty,    \* the empty value
  Unset,    \* stored for a key that was never set
  Default,  \* the defaults, of some keys
  Request,  \* what a client may ask: records with op, key and value
  Nothing,  \* no answer
  NotFound, \* the result of a get of a key that is empty
  Done,     \* the result of a set
  Failed    \* the result of a call that did not reach the daemon

VARIABLES
  up,      \* a daemon runs
  store,   \* the values
  present, \* clients that run
  cut,     \* those of them that have no daemon and never will
  asked,   \* asked[c]: the requests of c that have not taken effect
  answer,  \* answer[c]: the result on its way to c
  result,  \* result[c]: what the last call of c returned
  wild     \* clients that are out of step

vars == <<up, store, present, cut, asked, answer, result, wild>>

Init ==
  /\ up = FALSE
  /\ store = [k \in Key |-> Unset]
  /\ present = {} /\ cut = {} /\ wild = {}
  /\ asked = [c \in Client |-> <<>>]
  /\ answer = [c \in Client |-> Nothing]
  /\ result = [c \in Client |-> Nothing]

-------------------------------------------------------------------------------
(* The daemon *)

Start ==
  /\ ~up
  /\ up' = TRUE
  /\ store' = IF \E k \in Plain : store[k] # Unset THEN store
              ELSE [k \in Key |-> IF k \in DOMAIN Default THEN Default[k] ELSE store[k]]
  /\ UNCHANGED <<present, cut, asked, answer, result, wild>>

\* The daemon goes: what it has not read is lost, and whoever runs is cut off.
Stop ==
  /\ up
  /\ up' = FALSE
  /\ asked' = [c \in Client |-> <<>>]
  /\ cut' = present
  /\ wild' = wild \cap present
  /\ UNCHANGED <<store, present, answer, result>>

After(s, r) ==
  IF r.op = "set" /\ r.key \in Key THEN [s EXCEPT ![r.key] = r.value] ELSE s

Answer(s, r) ==
  CASE r.op = "set" -> Done
    [] r.op = "get" /\ r.key \in Key /\ s[r.key] \notin {Unset, Empty} -> s[r.key]
    [] OTHER -> NotFound

\* The first request of c takes effect and is answered, if c still runs.
Serve(c) ==
  /\ up /\ c \notin wild /\ asked[c] # <<>>
  /\ store' = After(store, Head(asked[c]))
  /\ asked' = [asked EXCEPT ![c] = Tail(@)]
  /\ answer' = IF c \in present
               THEN [answer EXCEPT ![c] = Answer(store, Head(asked[c]))] ELSE answer
  /\ UNCHANGED <<up, present, cut, result, wild>>

\* The answer to a set is spoilt, and c out of step from here on.
Spoil(c) ==
  /\ up /\ c \in present \ wild
  /\ asked[c] # <<>> /\ Head(asked[c]).op = "set"
  /\ store' = After(store, Head(asked[c]))
  /\ asked' = [asked EXCEPT ![c] = Tail(@)]
  /\ wild' = wild \cup {c}
  /\ UNCHANGED <<up, present, cut, answer, result>>

\* Of a wild client requests take effect too, and others are overlooked.
ServeWild(c) ==
  /\ up /\ c \in wild
  /\ \/ asked[c] # <<>> /\ store' = After(store, Head(asked[c]))
     \/ UNCHANGED store
  /\ \/ asked[c] # <<>> /\ asked' = [asked EXCEPT ![c] = Tail(@)]
     \/ asked' = [asked EXCEPT ![c] = <<>>]
  /\ UNCHANGED <<up, present, cut, answer, result, wild>>

\* Nothing is kept of a client that is gone.
Forget(c) ==
  /\ c \notin present
  /\ c \in wild \/ asked[c] = <<>>
  /\ asked' = [asked EXCEPT ![c] = <<>>]
  /\ wild' = wild \ {c}
  /\ UNCHANGED <<up, store, present, cut, answer, result>>

-------------------------------------------------------------------------------
(* The clients *)

\* A process, or a new one in its place, uses properties for the first time.
Join(c) ==
  /\ c \notin present \cup wild /\ asked[c] = <<>>
  /\ present' = present \cup {c}
  /\ cut' = IF up THEN cut ELSE cut \cup {c}
  /\ UNCHANGED <<up, store, asked, answer, result, wild>>

\* A process ends; a request that it sent may still take effect.
Leave(c) ==
  /\ c \in present
  /\ present' = present \ {c}
  /\ cut' = cut \ {c}
  /\ wild' = IF c \in cut THEN wild \ {c} ELSE wild
  /\ answer' = [answer EXCEPT ![c] = Nothing]
  /\ UNCHANGED <<up, store, asked, result>>

Quiet(c) == asked[c] = <<>> /\ answer[c] = Nothing

Ask(c) ==
  /\ c \in present \ cut
  /\ Quiet(c) \/ c \in wild
  /\ \E r \in Request : asked' = [asked EXCEPT ![c] = Append(@, r)]
  /\ UNCHANGED <<up, store, present, cut, answer, result, wild>>

Return(c) ==
  /\ answer[c] # Nothing
  /\ result' = [result EXCEPT ![c] = answer[c]]
  /\ answer' = [answer EXCEPT ![c] = Nothing]
  /\ UNCHANGED <<up, store, present, cut, asked, wild>>

Fail(c) ==
  /\ c \in cut /\ Quiet(c)
  /\ result' = [result EXCEPT ![c] = Failed]
  /\ UNCHANGED <<up, store, present, cut, asked, answer, wild>>

\* A wild client takes anything for a result.
Stray(c) ==
  /\ c \in wild
  /\ \A d \in Client \ {c} : result'[d] = result[d]
  /\ DOMAIN result' = Client
  /\ UNCHANGED <<up, store, present, cut, asked, answer, wild>>

-------------------------------------------------------------------------------
Next ==
  \/ Start \/ Stop
  \/ \E c \in Client :
       \/ Serve(c) \/ Spoil(c) \/ ServeWild(c) \/ Forget(c)
       \/ Join(c) \/ Leave(c) \/ Ask(c) \/ Return(c) \/ Fail(c) \/ Stray(c)

Spec == Init /\ [][Next]_vars
===============================================================================
