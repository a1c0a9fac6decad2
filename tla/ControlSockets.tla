---------------------------- MODULE ControlSockets ----------------------------
(***************************************************************************)
(* The control sockets that main() of the controller makes for the         *)
(* services before it starts any (src/src/controller/main.cpp, from line   *)
(* 130, and create_socket() in init_util.c).                               *)
(*                                                                         *)
(* main() looks for a file ANDROID_SOCKET_installd in the directory of the *)
(* sockets, where nothing ever makes one, so every controller but one with *)
(* --stop makes all of them anew: it removes the file, whoever bound it,   *)
(* and binds a socket of its own, whose descriptor its services inherit.   *)
(* Services outlive the controller that started them.  Which of them a      *)
(* controller tracks is in Controller; here it may start any, for it does  *)
(* not see what others have started since it looked for processes.         *)
(***************************************************************************)
EXTENDS Naturals, Sequences, FiniteSets

CONSTANTS
  Ctl,     \* controllers that may run at once
  Names,   \* the names of the sockets, in the order main() makes them
  Sockets, \* bound: the sockets that there are at once
  None,    \* no socket
  NoCtl    \* no controller

Name == {Names[k] : k \in DOMAIN Names}

ASSUME NamesAssumption ==
  Names \in Seq(Name) /\ Names # <<>> /\ Cardinality(Name) = Len(Names)
ASSUME CtlAssumption == IsFiniteSet(Ctl) /\ NoCtl \notin Ctl
ASSUME NoneAssumption == None \notin Sockets

VARIABLES
  file,    \* file[n]: the socket that is bound to the path of n
  fd,      \* fd[c][n]: the socket that controller c names in ANDROID_SOCKET_n
  service, \* service[n]: the sockets that the processes that run n inherited
  pc,      \* pc[c]: what controller c does
  k,       \* k[c]: which of the sockets it makes
  last,    \* history: the controller that began last to make sockets
  alone    \* history: no other controller has made sockets since it began

vars == <<file, fd, service, pc, k, last, alone>>

TypeOK ==
  /\ file \in [Name -> Sockets \cup {None}]
  /\ fd \in [Ctl -> [Name -> Sockets \cup {None}]]
  /\ service \in [Name -> SUBSET Sockets]
  /\ pc \in [Ctl -> {"off", "unlink", "bind", "ready", "stop"}]
  /\ k \in [Ctl -> 1 .. Len(Names)]
  /\ last \in Ctl \cup {NoCtl}
  /\ alone \in BOOLEAN

Init ==
  /\ file = [n \in Name |-> None]
  /\ fd = [c \in Ctl |-> [n \in Name |-> None]]
  /\ service = [n \in Name |-> {}]
  /\ pc = [c \in Ctl |-> "off"]
  /\ k = [c \in Ctl |-> 1]
  /\ last = NoCtl
  /\ alone = TRUE

Making(c) == pc[c] \in {"unlink", "bind"}

\* The sockets that nobody has.
Free ==
  Sockets \ ({file[n] : n \in Name} \cup {fd[c][n] : c \in Ctl, n \in Name}
               \cup UNION {service[n] : n \in Name})

NewSocket == CHOOSE s \in Free : TRUE

-------------------------------------------------------------------------------
(* main() *)

Run(c) ==
  /\ pc[c] = "off"
  /\ \/ /\ pc' = [pc EXCEPT ![c] = "unlink"]
        /\ last' = c
        /\ alone' = \A d \in Ctl : ~Making(d)
     \/ /\ pc' = [pc EXCEPT ![c] = "stop"]
        /\ UNCHANGED <<last, alone>>
  /\ UNCHANGED <<file, fd, service, k>>

\* The controller ends, and its descriptors with it; main() returns when a socket
\* cannot be made, or the user is done.
Gone(c) ==
  /\ pc' = [pc EXCEPT ![c] = "off"]
  /\ fd' = [fd EXCEPT ![c] = [n \in Name |-> None]]
  /\ k' = [k EXCEPT ![c] = 1]

Remove(n) == file' = [file EXCEPT ![n] = None]

\* socket() or unlink() fails; the file stays.
UnlinkFails(c) ==
  /\ pc[c] = "unlink"
  /\ Gone(c)
  /\ UNCHANGED <<file, service, last, alone>>

\* Slip: main() was extended by a copy with the name of the first socket.
UnlinkSlip(c) ==
  /\ pc[c] = "unlink"
  /\ Remove(Names[1])
  /\ pc' = [pc EXCEPT ![c] = "bind"]
  /\ UNCHANGED <<fd, service, k, last, alone>>

Unlink(c) ==
  /\ pc[c] = "unlink"
  /\ Remove(Names[k[c]])
  /\ pc' = [pc EXCEPT ![c] = "bind"]
  /\ UNCHANGED <<fd, service, k, last, alone>>

\* Slip: a socket that cannot be made is passed over.
BindFailsSlip(c) ==
  /\ pc[c] = "bind"
  /\ Remove(Names[k[c]])
  /\ IF k[c] < Len(Names)
     THEN pc' = [pc EXCEPT ![c] = "unlink"] /\ k' = [k EXCEPT ![c] = @ + 1]
     ELSE pc' = [pc EXCEPT ![c] = "ready"] /\ UNCHANGED k
  /\ UNCHANGED <<fd, service, last, alone>>

\* bind() fails, always if another controller has bound the path meanwhile, and the
\* path is unlinked, whoever bound it.
BindFails(c) ==
  /\ pc[c] = "bind"
  /\ Remove(Names[k[c]])
  /\ Gone(c)
  /\ UNCHANGED <<service, last, alone>>

\* Slip: the environment variable of the first socket is set again.
BindSlip(c) ==
  /\ pc[c] = "bind"
  /\ LET n == Names[k[c]] IN
       /\ file[n] = None /\ Free # {}
       /\ file' = [file EXCEPT ![n] = NewSocket]
       /\ fd' = [fd EXCEPT ![c][Names[1]] = NewSocket]
  /\ IF k[c] < Len(Names)
     THEN pc' = [pc EXCEPT ![c] = "unlink"] /\ k' = [k EXCEPT ![c] = @ + 1]
     ELSE pc' = [pc EXCEPT ![c] = "ready"] /\ UNCHANGED k
  /\ UNCHANGED <<service, last, alone>>

\* Slip: there is no last socket.
BindBeyondSlip(c) ==
  /\ pc[c] = "bind"
  /\ LET n == Names[k[c]] IN
       /\ file[n] = None /\ Free # {}
       /\ file' = [file EXCEPT ![n] = NewSocket]
       /\ fd' = [fd EXCEPT ![c][n] = NewSocket]
  /\ pc' = [pc EXCEPT ![c] = "unlink"] /\ k' = [k EXCEPT ![c] = @ + 1]
  /\ UNCHANGED <<service, last, alone>>

Bind(c) ==
  /\ pc[c] = "bind"
  /\ LET n == Names[k[c]] IN
       /\ file[n] = None /\ Free # {}
       /\ file' = [file EXCEPT ![n] = NewSocket]
       /\ fd' = [fd EXCEPT ![c][n] = NewSocket]
  /\ IF k[c] < Len(Names)
     THEN pc' = [pc EXCEPT ![c] = "unlink"] /\ k' = [k EXCEPT ![c] = @ + 1]
     ELSE pc' = [pc EXCEPT ![c] = "ready"] /\ UNCHANGED k
  /\ UNCHANGED <<service, last, alone>>

\* Slip: the sockets are tidied up.
QuitSlip(c) ==
  /\ pc[c] # "off"
  /\ file' = [n \in Name |-> IF file[n] = fd[c][n] THEN None ELSE file[n]]
  /\ Gone(c)
  /\ UNCHANGED <<service, last, alone>>

Quit(c) ==
  /\ pc[c] # "off"
  /\ Gone(c)
  /\ UNCHANGED <<file, service, last, alone>>

-------------------------------------------------------------------------------
(* Services *)

\* startInstalld() and its like, of a service that the controller does not track, which
\* may run nevertheless.
StartService(c, n) ==
  /\ pc[c] = "ready"
  /\ service' = [service EXCEPT ![n] = @ \cup {fd[c][n]}]
  /\ UNCHANGED <<file, fd, pc, k, last, alone>>

ServiceEnds(n) ==
  /\ \E s \in service[n] : service' = [service EXCEPT ![n] = @ \ {s}]
  /\ UNCHANGED <<file, fd, pc, k, last, alone>>

-------------------------------------------------------------------------------
Next ==
  \/ \E c \in Ctl : Run(c) \/ UnlinkFails(c) \/ Unlink(c) \/ BindFails(c) \/ Bind(c)
                      \/ Quit(c) \/ \E n \in Name : StartService(c, n)
  \/ \E n \in Name : ServiceEnds(n)

Spec == Init /\ [][Next]_vars

-------------------------------------------------------------------------------
(* Properties *)

\* What a controller hands to its services is bound to their paths, if nobody else
\* made sockets while or after it did, whatever earlier controllers left behind and
\* wherever they failed.
LatestIsBound ==
  last # NoCtl /\ pc[last] = "ready" /\ alone => fd[last] = file

\* A controller that has come as far as to start services has a descriptor for each,
\* and no two share one: it stops at the first socket that cannot be made.
AllDescriptors ==
  \A c \in Ctl : pc[c] = "ready" =>
    \A m, n \in Name : fd[c][m] # None /\ (m # n => fd[c][m] # fd[c][n])

\* A service hears what is meant for it and nothing else: its socket is at no path
\* but its own.
OwnPath == \A m, n \in Name : file[n] \in service[m] => m = n

\* A service is cut off by nothing but another controller that makes sockets: an end
\* of its own controller, a second process of it, or --stop, leaves it reachable.
CutOffByMain ==
  [][\A n \in Name :
       file[n] \in service[n] \cap service'[n] /\ file'[n] # file[n]
         => \E c \in Ctl : Making(c) /\ Names[k[c]] = n /\ fd[c][n] = None]_vars

\* main.cpp:131, "If the socket file already exists, assume it was created for us,
\* and just needs to be opened": the socket of a running service stays where it is.
SocketKept ==
  [][\A n \in Name : file[n] \in service[n] \cap service'[n] => file'[n] = file[n]]_vars
===============================================================================
