------------------------------ MODULE Controller ------------------------------
(***************************************************************************)
(* shashlik-controller: the process that starts, watches and stops the     *)
(* Android services (src/src/controller).                                  *)
(*                                                                         *)
(* A controller is a single-threaded Qt program.  Between two visits to    *)
(* its event loop it runs a list of calls, todo[c]; a call is one step, so *)
(* processes, and other controllers, move between the calls of one         *)
(* handler.  An error message is a modal box in a graphical mode: the      *)
(* handler that reported it waits underneath, in boxes[c], while a nested  *)
(* event loop goes on delivering timers and process notifications.         *)
(*                                                                         *)
(* Processes are found again through /proc and are signalled by pid.  They *)
(* outlive the controller that started them: main() returns from exec()    *)
(* without deleting the controller, so no destructor terminates them.      *)
(***************************************************************************)
EXTENDS Naturals, Sequences, FiniteSets, SequencesExt, FiniteSetsExt

CONSTANTS
  Ctl,        \* controller processes that may run, each again and again
  Pid,        \* process numbers the system hands out
  NoPid,      \* process number 0: what processId() says of a failed start
  NoTracker,  \* the null ProcessTracker pointer
  Service,    \* the services of this installation
  Modes,      \* the command lines controllers are started with
  MaxApps     \* bound on applicationTrackers, which the code lets grow

AllServices == {"adbd", "bootanimation", "installd", "servicemanager",
                "surfaceflinger", "zygote"}

\* The positional apk file and the options of main(); "gui" is no option.
\* Boot animation has no option of its own.
AllModes == {"apk", "am", "start", "restart", "stop", "status", "gui"}
              \cup (AllServices \ {"bootanimation"})

ASSUME PidAssumption     == IsFiniteSet(Pid) /\ NoPid \notin Pid
ASSUME ServiceAssumption == Service \subseteq AllServices
ASSUME ModesAssumption   == Modes \subseteq AllModes \ (AllServices \ Service)
ASSUME MaxAppsAssumption == MaxApps \in Nat

\* What can run under a pid: a service, or the launcher started by runApk() or
\* by runAM().  The zygote is the launcher too, with the argument -Xzygote.
Program == Service \cup {"apk", "am"}

\* A ProcessTracker.  It reports the exit of its process while its timer runs and
\* its signal is connected, which is so only of those the controller made itself:
\* the constructor leaves the ones it finds through /proc unconnected.
Tracker == [pid : Pid \cup {NoPid}, reports : BOOLEAN]
ASSUME NoTrackerAssumption == NoTracker \notin Tracker

\* What tells that a service runs: if its start failed, the next round of the timer
\* sets that right, for the tracker is connected.
ServiceTracker == [pid : Pid, reports : BOOLEAN] \cup [pid : {NoPid}, reports : {TRUE}]

\* The calls a handler is made of.
Call == Service \cup {"stop", "quit", "ensure", "check", "apk", "am"}

VARIABLES
  what,      \* what[p]: the program that runs as process p, "none" if p is free
  termed,    \* processes that were sent SIGTERM and have not exited yet
  mode,      \* mode[c]: how controller c was started, "off" if it does not run
  tracker,   \* tracker[c][s]: the tracker of service s, e.g. d->zygoteTracker
  apps,      \* apps[c]: d->applicationTrackers
  child,     \* child[c][p]: whose exit processExited() will take it for when the
             \* QProcess of process p reports finished; "none" if it never will
  todo,      \* todo[c]: calls left before control returns to the event loop
  boxes,     \* boxes[c]: modal windows, innermost first, each with the calls
             \* its closing resumes
  quitTimer  \* quitTimer[c]: a call of QCoreApplication::quit() is on its way

vars == <<what, termed, mode, tracker, apps, child, todo, boxes, quitTimer>>
osVars == <<what, termed>>

TypeOK ==
  /\ what \in [Pid -> Program \cup {"none"}]
  /\ termed \subseteq Pid
  /\ mode \in [Ctl -> Modes \cup {"off"}]
  /\ tracker \in [Ctl -> [Service -> ServiceTracker \cup {NoTracker}]]
  /\ apps \in [Ctl -> Seq(Tracker)]
  /\ child \in [Ctl -> [Pid -> Program \cup {"unknown", "none"}]]
  /\ todo \in [Ctl -> Seq(Call)]
  /\ boxes \in [Ctl -> Seq(Seq(Call))]
  /\ quitTimer \in [Ctl -> BOOLEAN]

Init ==
  /\ what = [p \in Pid |-> "none"]
  /\ termed = {}
  /\ mode = [c \in Ctl |-> "off"]
  /\ tracker = [c \in Ctl |-> [s \in Service |-> NoTracker]]
  /\ apps = [c \in Ctl |-> <<>>]
  /\ child = [c \in Ctl |-> [p \in Pid |-> "none"]]
  /\ todo = [c \in Ctl |-> <<>>]
  /\ boxes = [c \in Ctl |-> <<>>]
  /\ quitTimer = [c \in Ctl |-> FALSE]
-------------------------------------------------------------------------------
(* Processes *)

Live == {p \in Pid : what[p] # "none"}

PidsOf(s) == {p \in Pid : what[p] = s}

\* The system may hand out p: nothing runs under it and no QProcess is still to
\* report that its process p ended.
Free(p) == what[p] = "none" /\ \A c \in Ctl : child[c][p] = "none"

\* A process ends and is reaped, so /proc/p is gone.
ProcExit(p) ==
  /\ p \in Live
  /\ what' = [what EXCEPT ![p] = "none"]
  /\ termed' = termed \ {p}
  /\ UNCHANGED <<mode, tracker, apps, child, todo, boxes, quitTimer>>

-------------------------------------------------------------------------------
(* Control flow inside a controller *)

Calling(c, call) == mode[c] # "off" /\ todo[c] # <<>> /\ Head(todo[c]) = call

\* Control is in the event loop, or in the nested one of a modal box.
Idle(c) == mode[c] # "off" /\ todo[c] = <<>>

\* The window takes clicks: it is there and no modal box is in front of it.
Clickable(c) == Idle(c) /\ mode[c] = "gui" /\ boxes[c] = <<>>

Resume(c, calls) ==
  /\ todo' = [todo EXCEPT ![c] = calls]
  /\ UNCHANGED boxes

Return(c) == Resume(c, Tail(todo[c]))

\* A modal window opens; closing it resumes the calls.
Open(c, calls) ==
  /\ boxes' = [boxes EXCEPT ![c] = <<calls>> \o @]
  /\ todo' = [todo EXCEPT ![c] = <<>>]

\* haveGui of main(), which overlooks the option --adbd.
Graphical(c) == mode[c] \in {"gui", "adbd"}

\* emit error(...) of a warning or a critical error, then the calls.
Report(c, calls) == IF Graphical(c) THEN Open(c, calls) ELSE Resume(c, calls)

\* The controller process is gone and its memory with it.
Vanish(c) ==
  /\ mode' = [mode EXCEPT ![c] = "off"]
  /\ tracker' = [tracker EXCEPT ![c] = [s \in Service |-> NoTracker]]
  /\ apps' = [apps EXCEPT ![c] = <<>>]
  /\ child' = [child EXCEPT ![c] = [p \in Pid |-> "none"]]
  /\ todo' = [todo EXCEPT ![c] = <<>>]
  /\ boxes' = [boxes EXCEPT ![c] = <<>>]
  /\ quitTimer' = [quitTimer EXCEPT ![c] = FALSE]

-------------------------------------------------------------------------------
(* Construction and command line *)

Running(c, s) == s \in Service /\ tracker[c][s] # NoTracker

AllRunning(c) == \A s \in {"zygote", "servicemanager", "surfaceflinger"} \cap Service :
                   Running(c, s)

Present(s) == IF s \in Service THEN <<s>> ELSE <<>>

\* Slip: the zygote ahead of the service manager.
StartOrderZygoteFirst == Present("zygote") \o Present("servicemanager")
                           \o Present("installd") \o Present("surfaceflinger")

\* start()
StartOrder == Present("servicemanager") \o Present("installd")
                \o Present("surfaceflinger") \o Present("zygote") \o Present("adbd")

\* restart()
Restart == <<"stop">> \o StartOrder

\* What main() calls before it enters the event loop.
Calls(m) ==
  CASE m = "apk"     -> <<"ensure", "check", "apk">>
    [] m = "am"      -> <<"am">>
    [] m = "start"   -> StartOrder
    [] m = "restart" -> Restart
    [] m = "stop"    -> <<"stop", "quit">>
    [] m \in Service -> <<m>>
    [] OTHER         -> <<>>

Found(p) == IF p = NoPid THEN NoTracker ELSE [pid |-> p, reports |-> FALSE]

\* The trackers of the constructor: the first process of each service, and the
\* launchers sorted by the argument -Xzygote into zygotes, the last of which is
\* kept, and applications.  isZygote is read uninitialised when the argument is
\* absent, so any launcher may pass for a zygote.
Launchers == {p \in Pid : what[p] \in {"zygote", "apk", "am"}}

\* Slip: processes that run already are overlooked.
FirstOfNone(s, zygotes) == {NoPid}

FirstOf(s, zygotes) == LET S == IF s = "zygote" THEN zygotes ELSE PidsOf(s)
                       IN  IF S = {} THEN {NoPid} ELSE S

Scan(c) ==
  \E zygotes \in {Z \in SUBSET Launchers : PidsOf("zygote") \subseteq Z} :
    /\ \E first \in {f \in [Service -> Pid \cup {NoPid}] :
                       \A s \in Service : f[s] \in FirstOf(s, zygotes)} :
         tracker' = [tracker EXCEPT ![c] = [s \in Service |-> Found(first[s])]]
    /\ \E rest \in SetToSeqs(Launchers \ zygotes) :
         apps' = [apps EXCEPT ![c] = [i \in DOMAIN rest |-> Found(rest[i])]]

Launch(c, m) ==
  /\ mode[c] = "off"
  /\ mode' = [mode EXCEPT ![c] = m]
  /\ Scan(c)
  /\ Resume(c, Calls(m))
  /\ UNCHANGED <<what, termed, child, quitTimer>>
-------------------------------------------------------------------------------
(* The calls *)

\* What remains of child[c] when d->X is overwritten by a new QProcess: a former
\* process of s is no longer recognised by processExited().
Disowned(c, s) == [p \in Pid |-> IF child[c][p] = s THEN "unknown" ELSE child[c][p]]

\* startX() of a service that has a tracker; only startServicemanager() objects.
AlreadyRunning(c, s) ==
  /\ Calling(c, s)
  /\ tracker[c][s] # NoTracker
  /\ IF s = "servicemanager" THEN Report(c, <<"quit">> \o Tail(todo[c])) ELSE Return(c)
  /\ UNCHANGED <<what, termed, mode, tracker, apps, child, quitTimer>>

\* startX() with a process that comes up.
StartService(c, s) ==
  /\ Calling(c, s)
  /\ tracker[c][s] = NoTracker
  /\ \E p \in Pid :
       /\ Free(p)
       /\ what' = [what EXCEPT ![p] = s]
       /\ child' = [child EXCEPT ![c] = [Disowned(c, s) EXCEPT ![p] = s]]
       /\ tracker' = [tracker EXCEPT ![c][s] = [pid |-> p, reports |-> TRUE]]
  /\ Return(c)
  /\ UNCHANGED <<termed, mode, apps, quitTimer>>

\* Slip: the tracker is connected only when there is a process.
StartFailsUnconnected(c, s) ==
  /\ Calling(c, s)
  /\ tracker[c][s] = NoTracker
  /\ child' = [child EXCEPT ![c] = Disowned(c, s)]
  /\ tracker' = [tracker EXCEPT ![c][s] = [pid |-> NoPid, reports |-> FALSE]]
  /\ Return(c)
  /\ UNCHANGED <<what, termed, mode, apps, quitTimer>>

\* startX() when the start fails: nobody looks at waitForStarted(), the tracker is
\* made for process 0.
StartFails(c, s) ==
  /\ Calling(c, s)
  /\ tracker[c][s] = NoTracker
  /\ child' = [child EXCEPT ![c] = Disowned(c, s)]
  /\ tracker' = [tracker EXCEPT ![c][s] = [pid |-> NoPid, reports |-> TRUE]]
  /\ Return(c)
  /\ UNCHANGED <<what, termed, mode, apps, quitTimer>>

\* The order in which stop() kills, applications last.
KillRank == [surfaceflinger |-> 1, installd |-> 2, bootanimation |-> 3,
             servicemanager |-> 4, adbd |-> 5, zygote |-> 6]

\* kill(0, SIGTERM) goes to the controller's own process group.
KillsGroup(t) == t # NoTracker /\ t.pid = NoPid

\* Slip: only what this controller started is stopped.
SignalledOwnServices(c) ==
  {p \in Pid : \E s \in Service : tracker[c][s] = [pid |-> p, reports |-> TRUE]}

SignalledServices(c) ==
  {p \in Pid : \E s \in Service :
     /\ tracker[c][s] # NoTracker
     /\ tracker[c][s].pid = p
     /\ \A t \in Service : KillRank[t] < KillRank[s] => ~KillsGroup(tracker[c][t])}

SignalledApps(c) ==
  {p \in Pid : \E i \in DOMAIN apps[c] :
     /\ apps[c][i].pid = p
     /\ \A s \in Service : ~KillsGroup(tracker[c][s])
     /\ \A j \in 1..i : ~KillsGroup(apps[c][j])}

StopKillsGroup(c) ==
  \/ \E s \in Service : KillsGroup(tracker[c][s])
  \/ \E i \in DOMAIN apps[c] : KillsGroup(apps[c][i])

\* Slip: the service trackers are dropped as soon as the signal is sent, as those of
\* the applications are, so that restart() can start.
StopServicesForgets(c) ==
  /\ termed' = termed \cup (Live \cap (SignalledServices(c) \cup SignalledApps(c)))
  /\ apps' = [apps EXCEPT ![c] = <<>>]
  /\ tracker' = [tracker EXCEPT ![c] = [s \in Service |-> NoTracker]]
  /\ Return(c)
  /\ UNCHANGED <<what, mode, child, quitTimer>>

\* stop() as it comes through: the service trackers stay until they see their
\* processes gone, those of the applications are dropped at once.
StopServices(c) ==
  /\ termed' = termed \cup (Live \cap (SignalledServices(c) \cup SignalledApps(c)))
  /\ apps' = [apps EXCEPT ![c] = <<>>]
  /\ Return(c)
  /\ UNCHANGED <<what, mode, tracker, child, quitTimer>>

\* stop() with a tracker of process 0: the controller and all it started get the
\* signal, what comes later in the order does not.
StopItself(c) ==
  /\ termed' = termed \cup (Live \cap (SignalledServices(c) \cup SignalledApps(c)
                                         \cup {p \in Pid : child[c][p] # "none"}))
  /\ Vanish(c)
  /\ UNCHANGED what

Stop(c) ==
  /\ Calling(c, "stop")
  /\ IF StopKillsGroup(c) THEN StopItself(c) ELSE StopServices(c)

\* if(d->quitOnError) QTimer::singleShot(1000, qApp, SLOT(quit())); only the
\* graphical mode clears quitOnError.
Quit(c) ==
  /\ Calling(c, "quit")
  /\ quitTimer' = [quitTimer EXCEPT ![c] = @ \/ mode[c] # "gui"]
  /\ Return(c)
  /\ UNCHANGED <<what, termed, mode, tracker, apps, child>>

\* main() given an apk: restart everything unless the services run,
Ensure(c) ==
  /\ Calling(c, "ensure")
  /\ IF AllRunning(c) THEN Return(c) ELSE Resume(c, Restart \o Tail(todo[c]))
  /\ UNCHANGED <<what, termed, mode, tracker, apps, child, quitTimer>>

\* complain and arm the timer if that failed, and go on all the same.
Check(c) ==
  /\ Calling(c, "check")
  /\ quitTimer' = [quitTimer EXCEPT ![c] = @ \/ ~AllRunning(c)]
  /\ Return(c)
  /\ UNCHANGED <<what, termed, mode, tracker, apps, child>>

\* runApk() of a file that exists.  The tracker gets the pid of the fork; whether
\* the launcher was executed after it is not known yet (started).
RunApk(c) ==
  /\ Calling(c, "apk")
  /\ \E p \in {q \in Pid : Free(q)} \cup {NoPid}, started \in BOOLEAN :
       /\ apps' = [apps EXCEPT ![c] = Append(@, [pid |-> p, reports |-> TRUE])]
       /\ \/ /\ started
             /\ p # NoPid
             /\ what' = [what EXCEPT ![p] = "apk"]
             /\ child' = [child EXCEPT ![c][p] = "apk"]
          \/ ~started /\ UNCHANGED <<what, child>>
  /\ Return(c)
  /\ UNCHANGED <<termed, mode, tracker, quitTimer>>

\* runApk() of a file that does not exist.
NoSuchApk(c) ==
  /\ Calling(c, "apk")
  /\ Return(c)
  /\ UNCHANGED <<what, termed, mode, tracker, apps, child, quitTimer>>

\* runAM(): no tracker is kept; a failed start leaves nothing that can report.
RunAM(c) ==
  /\ Calling(c, "am")
  /\ \/ \E p \in Pid :
          /\ Free(p)
          /\ what' = [what EXCEPT ![p] = "am"]
          /\ child' = [child EXCEPT ![c][p] = "am"]
     \/ UNCHANGED <<what, child>>
  /\ Return(c)
  /\ UNCHANGED <<termed, mode, tracker, apps, quitTimer>>

-------------------------------------------------------------------------------
(* Slots the event loop runs *)

\* Slip: only the zygote's end stops the rest.
AftermathZygoteOnly(role) ==
  CASE role = "zygote" -> <<"stop", "quit">>
    [] role \in {"servicemanager", "surfaceflinger", "apk", "am"} -> <<"quit">>
    [] OTHER -> <<>>

\* Slip: a dead zygote stops everything and leaves the controller waiting.
AftermathNoQuit(role) ==
  CASE role = "zygote" -> <<"stop">>
    [] role = "servicemanager" -> <<"stop", "quit">>
    [] role \in {"surfaceflinger", "apk", "am"} -> <<"quit">>
    [] OTHER -> <<>>

\* processExited(int, ExitStatus), by what the sender is taken for.
Aftermath(role) ==
  CASE role \in {"zygote", "servicemanager"}      -> <<"stop", "quit">>
    [] role \in {"surfaceflinger", "apk", "am"}   -> <<"quit">>
    [] OTHER                                      -> <<>>

\* A QProcess reports finished.  Every branch emits an error except the one of an
\* application with an exit code other than 1, the number of CrashExit.
Finished(c, p) ==
  /\ Idle(c)
  /\ child[c][p] # "none"
  /\ what[p] = "none"
  /\ child' = [child EXCEPT ![c][p] = "none"]
  /\ \/ Report(c, Aftermath(child[c][p]))
     \/ child[c][p] \in {"apk", "am"} /\ Resume(c, Aftermath(child[c][p]))
  /\ UNCHANGED <<what, termed, mode, tracker, apps, quitTimer>>

\* Slip: the timer takes any round for the exit.
GoneAlways(t) == t.reports

\* Slip: only a failed start is noticed.
GoneIfFailed(t) == t.reports /\ t.pid = NoPid

\* The timer of a tracker finds /proc/<pid> gone.  There is no /proc/0.
Gone(t) == t.reports /\ t.pid \notin Live

\* processExited() of a service tracker.
ServiceGone(c, s) ==
  /\ Idle(c)
  /\ tracker[c][s] # NoTracker
  /\ Gone(tracker[c][s])
  /\ tracker' = [tracker EXCEPT ![c][s] = NoTracker]
  /\ UNCHANGED <<what, termed, mode, apps, child, todo, boxes, quitTimer>>

\* processExited() of the i-th application tracker: its timer has stopped, and the
\* tracker that is dropped is the first in the list with a process number.
AppGone(c, i) ==
  /\ Idle(c)
  /\ Gone(apps[c][i])
  /\ LET list  == [apps[c] EXCEPT ![i].reports = FALSE]
         valid == {j \in DOMAIN list : list[j].pid # NoPid}
     IN  \/ valid = {} /\ apps' = [apps EXCEPT ![c] = list]
         \/ \E j \in valid :
              /\ \A k \in valid : j <= k
              /\ apps' = [apps EXCEPT ![c] = RemoveAt(list, j)]
  /\ UNCHANGED <<what, termed, mode, tracker, child, todo, boxes, quitTimer>>

QuitFires(c) ==
  /\ Idle(c)
  /\ quitTimer[c]
  /\ Vanish(c)
  /\ UNCHANGED osVars

-------------------------------------------------------------------------------
(* The user *)

\* Buttons of the window.  The start button of a service is clickable even when it
\* is invisible because the service runs.
Click(c) ==
  /\ Clickable(c)
  /\ \E calls \in {<<s>> : s \in Service} \cup {Restart}
                    \cup IF \E s \in Service : Running(c, s) THEN {<<"stop">>} ELSE {} :
       Resume(c, calls)
  /\ UNCHANGED <<what, termed, mode, tracker, apps, child, quitTimer>>

\* "Run an apk..." opens the file dialog; what it returns is run whether or not the
\* zygote still is.
OpenDialog(c) ==
  /\ Clickable(c)
  /\ Running(c, "zygote")
  /\ Len(apps[c]) < MaxApps
  /\ Open(c, <<"apk">>)
  /\ UNCHANGED <<what, termed, mode, tracker, apps, child, quitTimer>>

\* The innermost modal window is closed; the file dialog may be cancelled.  Where there
\* is no View, the last box is the last window and its end the application's.
CloseBox(c) ==
  /\ Idle(c)
  /\ boxes[c] # <<>>
  /\ boxes' = [boxes EXCEPT ![c] = Tail(@)]
  /\ \/ todo' = [todo EXCEPT ![c] = Head(boxes[c])]
     \/ Head(boxes[c]) = <<"apk">> /\ UNCHANGED todo
  /\ quitTimer' = [quitTimer EXCEPT ![c] = @ \/ (mode[c] # "gui" /\ Len(boxes[c]) = 1)]
  /\ UNCHANGED <<what, termed, mode, tracker, apps, child>>

CloseWindow(c) ==
  /\ Clickable(c)
  /\ Vanish(c)
  /\ UNCHANGED osVars

\* The controller process is killed.
Crash(c) ==
  /\ mode[c] # "off"
  /\ Vanish(c)
  /\ UNCHANGED osVars

-------------------------------------------------------------------------------
Step(c) ==
  \/ \E s \in Service : AlreadyRunning(c, s) \/ StartService(c, s) \/ StartFails(c, s)
  \/ Stop(c) \/ Quit(c) \/ Ensure(c) \/ Check(c)
  \/ RunApk(c) \/ NoSuchApk(c) \/ RunAM(c)

Slots(c) ==
  \/ \E p \in Pid : Finished(c, p)
  \/ \E s \in Service : ServiceGone(c, s)
  \/ \E i \in DOMAIN apps[c] : AppGone(c, i)
  \/ QuitFires(c)

User(c) ==
  \/ \E m \in Modes : Launch(c, m)
  \/ Click(c) \/ OpenDialog(c) \/ CloseBox(c) \/ CloseWindow(c)

\* Nobody kills a controller.
SteadyNext ==
  \/ \E p \in Pid : ProcExit(p)
  \/ \E c \in Ctl : Step(c) \/ Slots(c) \/ User(c)

Next == SteadyNext \/ \E c \in Ctl : Crash(c)

Spec == Init /\ [][Next]_vars

(***************************************************************************)
(* Fairness.  The synchronous code runs on; the Qt event loop serves every *)
(* source that is ready in each of its rounds, so a timer or a finished    *)
(* process is not starved by clicks (strong fairness); a process with      *)
(* SIGTERM pending, which none of the services ignores, ends.  Users and   *)
(* healthy processes owe nothing.                                          *)
(***************************************************************************)
Fairness ==
  /\ \A c \in Ctl : WF_vars(Step(c)) /\ SF_vars(QuitFires(c))
  /\ \A c \in Ctl, p \in Pid : SF_vars(Finished(c, p))
  /\ \A c \in Ctl, s \in Service : SF_vars(ServiceGone(c, s))
  /\ \A p \in Pid : WF_vars(p \in termed /\ ProcExit(p))

FairSpec == Init /\ [][SteadyNext]_vars /\ Fairness

-------------------------------------------------------------------------------
(* Properties *)

\* A service process the controller started is what its tracker watches for as long
\* as the process lives, across stop(), failed starts and reuse of the pid; its
\* QProcess is replaced only once it is gone.  Hence the running flag is never
\* false while the controller's own process lives, and startX() never starts a
\* second one.
OwnServicesTracked ==
  \A c \in Ctl, p \in Live :
    /\ child[c][p] # "unknown"
    /\ child[c][p] \in Service =>
         what[p] = child[c][p] /\ tracker[c][child[c][p]] = [pid |-> p, reports |-> TRUE]

\* The stage a service has reached in the eyes of a controller.
StageOf(c, s) ==
  IF tracker[c][s] = NoTracker THEN "off"
  ELSE IF ~tracker[c][s].reports THEN "adopted"
  ELSE IF \E p \in Live : p = tracker[c][s].pid /\ child[c][p] = s THEN "own" ELSE "lost"

Lifecycle == INSTANCE ServiceLifecycle
               WITH up <- [c \in Ctl |-> mode[c] # "off"],
                    life <- [c \in Ctl |-> [s \in Service |-> StageOf(c, s)]]

\* Every controller, next to any number of others, keeps the promises of
\* ServiceLifecycle: a service it started is shown until its process has ended, and
\* started again only from there.
LifecycleKept == Lifecycle!Spec

\* At most one process of each service in the whole system, as long as one
\* controller runs at a time, also after it was killed and found the services
\* again through /proc.
SingleInstance == \A p, q \in Live : what[p] = what[q] /\ what[p] \in Service => p = q

\* With one controller at a time, its trackers cover every service process there
\* is, and all but the zygote's watch exactly that process.
Covered ==
  \A c \in Ctl, p \in Live : mode[c] # "off" /\ what[p] \in Service =>
    /\ tracker[c][what[p]] # NoTracker
    /\ what[p] # "zygote" \/ tracker[c][what[p]].reports => tracker[c][what[p]].pid = p

StopCall(c) == Calling(c, "stop") /\ todo'[c] = Tail(todo[c]) /\ mode'[c] = mode[c]

\* A stop() that comes through leaves no service process without SIGTERM, adopted or
\* not, except a zygote that the constructor may have taken an application for.
StopReachesServices ==
  [][\A c \in Ctl : StopCall(c) =>
       \A p \in Live : what[p] \in Service \ {"zygote"} => p \in termed']_vars

\* Outside the graphical mode no zygote is started before the service manager of the
\* same command line was: start() and the restart for an apk keep the order the
\* services need.
StartOrderKept ==
  [][\A c \in Ctl : mode[c] \in {"start", "restart", "apk"} /\ "servicemanager" \in Service
       /\ (\E p \in Pid : child[c][p] # "zygote" /\ child'[c][p] = "zygote")
       => Running(c, "servicemanager")]_vars

\* The death of a zygote or a service manager, noticed by a controller that is not
\* about to quit anyway, reaches every service process it started: each is sent SIGTERM
\* or ends by itself.  Command line modes only: in the graphical mode stop() waits until
\* the user closes the message.
DeathStopsServices ==
  \A c \in Ctl, p, q \in Pid :
    (/\ Idle(c) /\ mode[c] # "gui" /\ ~quitTimer[c]
     /\ child[c][p] \in {"zygote", "servicemanager"} /\ what[p] = "none"
     /\ child[c][q] \in Service /\ q \in Live)
      ~> (q \in termed \/ q \notin Live)

\* Outside the graphical mode the exit of a critical service, or of the application,
\* ends the controller.
CriticalExitQuits ==
  \A c \in Ctl, p \in Pid :
    (/\ mode[c] \notin {"off", "gui"}
     /\ child[c][p] \in {"zygote", "servicemanager", "surfaceflinger", "apk", "am"}
     /\ what[p] = "none")
      ~> mode[c] = "off"

\* A service the controller started and then stopped is eventually shown as stopped,
\* unless its pid was given to another program before the timer looked.
StoppedIsNoticed ==
  \A c \in Ctl, s \in Service, p \in Pid :
    (tracker[c][s] = [pid |-> p, reports |-> TRUE] /\ p \in termed /\ what[p] = s)
      ~> (tracker[c][s] # [pid |-> p, reports |-> TRUE] \/ what[p] \notin {s, "none"})
===============================================================================
