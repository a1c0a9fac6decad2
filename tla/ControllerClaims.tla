--------------------------- MODULE ControllerClaims ---------------------------
(* What the texts of the controller say of it and its code does not do.  Each *)
(* statement is refuted by a run of its own.                                  *)
EXTENDS MCController

\* main.cpp on --restart: "Stop and start all services (equivalent to running
\* shashlik-controller first with --stop and then with --start)".  When its calls
\* are done, no service it counts as running is one that is being stopped.
RestartReplaces ==
  [][\A c \in Ctl :
       (/\ mode[c] = "restart" /\ mode'[c] = "restart"
        /\ todo[c] # <<>> /\ Head(todo[c]) \in Service /\ todo'[c] = <<>>)
         => \A s \in Service : tracker'[c][s] # NoTracker
                                 => tracker'[c][s].pid \notin termed']_vars

\* "Zygote has exited - if zygote exits, everything should be killed!"
\* (Controller::processExited).  After the stop() that follows, what this controller
\* started with a tracker, the applications of runApk() too, has got SIGTERM.
EverythingKilled ==
  [][\A c \in Ctl :
       StopCall(c) /\ mode[c] = "gui" /\ todo[c] = <<"stop", "quit">>
         => \A p \in Live : child[c][p] \in Service \cup {"apk"} => p \in termed']_vars

\* main.cpp on --stop: "Stop everything needed to launch applications".  Nothing is
\* needed more than the zygote.
StopStopsZygote ==
  [][\A c \in Ctl : StopCall(c) /\ mode[c] = "stop" =>
       \A p \in Live : what[p] = "zygote" => p \in termed']_vars
===============================================================================
