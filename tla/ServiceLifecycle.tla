--------------------------- MODULE ServiceLifecycle ---------------------------
(***************************************************************************)
(* What a controller promises of the services it shows, whatever happens   *)
(* to the processes: as long as it runs, a service it started stays shown  *)
(* until its process has ended, and is started again only after that end   *)
(* was noticed.                                                            *)
(***************************************************************************)
CONSTANTS Ctl, Service

VARIABLES
  up,   \* up[c]: controller c runs
  life  \* life[c][s]: the service s in the eyes of controller c

vars == <<up, life>>

\* "off": not shown as running.  "own": started by c, running.  "lost": shown, but
\* what c started has ended or never came up.  "adopted": found when c was started,
\* shown for as long as c lives.
Stage == {"off", "own", "lost", "adopted"}

Off == [s \in Service |-> "off"]

Init ==
  /\ up = [c \in Ctl |-> FALSE]
  /\ life = [c \in Ctl |-> Off]

Start(c, s) ==
  /\ up[c]
  /\ life[c][s] = "off"
  /\ \E stage \in {"own", "lost"} : life' = [life EXCEPT ![c][s] = stage]
  /\ UNCHANGED up

Die(c, s) ==
  /\ life[c][s] = "own"
  /\ life' = [life EXCEPT ![c][s] = "lost"]
  /\ UNCHANGED up

Notice(c, s) ==
  /\ up[c]
  /\ life[c][s] = "lost"
  /\ life' = [life EXCEPT ![c][s] = "off"]
  /\ UNCHANGED up

\* A controller comes up; nothing it shows is its own.
Adopt(c) ==
  /\ ~up[c]
  /\ up' = [up EXCEPT ![c] = TRUE]
  /\ life[c] = Off
  /\ \E stages \in [Service -> {"off", "adopted"}] : life' = [life EXCEPT ![c] = stages]

\* A controller ends and shows nothing any more.
Vanish(c) ==
  /\ up[c]
  /\ up' = [up EXCEPT ![c] = FALSE]
  /\ life' = [life EXCEPT ![c] = Off]

Next == \E c \in Ctl :
  \/ \E s \in Service : Start(c, s) \/ Die(c, s) \/ Notice(c, s)
  \/ Adopt(c) \/ Vanish(c)

Spec == Init /\ [][Next]_vars
===============================================================================
