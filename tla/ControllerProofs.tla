--------------------------- MODULE ControllerProofs ---------------------------
(* Theorems about Controller, for every value of its constants. *)
EXTENDS Controller, SequenceTheorems, FiniteSetTheorems, TLAPS

-------------------------------------------------------------------------------
(* Types of the lists of calls *)

LEMMA ServiceCalls == Service \subseteq Call
  BY DEF Call

LEMMA PresentType == ASSUME NEW s PROVE Present(s) \in Seq(Call)
  BY ServiceCalls DEF Present

LEMMA StartOrderType == StartOrder \in Seq(Call)
  <1>1. /\ Present("servicemanager") \in Seq(Call)
        /\ Present("installd") \in Seq(Call)
        /\ Present("surfaceflinger") \in Seq(Call)
        /\ Present("zygote") \in Seq(Call)
        /\ Present("adbd") \in Seq(Call)
    BY PresentType
  <1> QED
    BY <1>1 DEF StartOrder

LEMMA RestartType == Restart \in Seq(Call)
  <1>1. <<"stop">> \in Seq(Call)
    BY DEF Call
  <1> QED
    BY <1>1, StartOrderType DEF Restart

LEMMA CallsType == ASSUME NEW m PROVE Calls(m) \in Seq(Call)
  <1>1. /\ {"ensure", "check", "apk", "am", "stop", "quit"} \subseteq Call
        /\ {"apk", "am", "start", "restart", "stop"} \cap Service = {}
    BY ServiceAssumption DEF Call, AllServices
  <1>2. CASE m = "apk"
    BY <1>1, <1>2 DEF Calls
  <1>3. CASE m = "am"
    BY <1>1, <1>3 DEF Calls
  <1>4. CASE m = "start"
    BY <1>1, <1>4, StartOrderType DEF Calls
  <1>5. CASE m = "restart"
    BY <1>1, <1>5, RestartType DEF Calls
  <1>6. CASE m = "stop"
    BY <1>1, <1>6 DEF Calls
  <1>7. CASE m \notin {"apk", "am", "start", "restart", "stop"}
    BY <1>1, <1>7, ServiceCalls DEF Calls
  <1> QED
    BY <1>2, <1>3, <1>4, <1>5, <1>6, <1>7

LEMMA AftermathType == ASSUME NEW role PROVE Aftermath(role) \in Seq(Call)
  <1>1. /\ <<"stop", "quit">> \in Seq(Call)
        /\ <<"quit">> \in Seq(Call)
        /\ <<>> \in Seq(Call)
    BY DEF Call
  <1> QED
    BY <1>1 DEF Aftermath

-------------------------------------------------------------------------------
(* Type correctness *)

LEMMA HeadTailType ==
  ASSUME NEW S, NEW q \in Seq(S), q # <<>>
  PROVE  Head(q) \in S /\ Tail(q) \in Seq(S)
  OBVIOUS

LEMMA AppendType ==
  ASSUME NEW S, NEW q \in Seq(S), NEW e \in S
  PROVE  Append(q, e) \in Seq(S)
  OBVIOUS

LEMMA RemoveAtType ==
  ASSUME NEW S, NEW q \in Seq(S), NEW j \in DOMAIN q
  PROVE  RemoveAt(q, j) \in Seq(S)
  <1>1. j \in 1..Len(q) /\ Len(q) \in Nat
    OBVIOUS
  <1>2. SubSeq(q, 1, j-1) \in Seq(S)
    BY <1>1, SubSeqProperties
  <1>3. SubSeq(q, j+1, Len(q)) \in Seq(S)
    BY <1>1, SubSeqProperties
  <1>4. \A u, v \in Seq(S) : u \o v \in Seq(S)
    OBVIOUS
  <1> QED
    BY <1>2, <1>3, <1>4 DEF RemoveAt

\* A process is entered for its exit report.
LEMMA ChildType ==
  ASSUME TypeOK, NEW c \in Ctl, NEW p \in Pid, NEW r \in Program \cup {"unknown", "none"},
         child' = [child EXCEPT ![c][p] = r]
  PROVE  child' \in [Ctl -> [Pid -> Program \cup {"unknown", "none"}]]
  <1>1. child[c] \in [Pid -> Program \cup {"unknown", "none"}]
    BY DEF TypeOK
  <1>2. [child[c] EXCEPT ![p] = r] \in [Pid -> Program \cup {"unknown", "none"}]
    BY <1>1
  <1>3. child' = [child EXCEPT ![c] = [child[c] EXCEPT ![p] = r]]
    OBVIOUS
  <1> QED
    BY <1>2, <1>3 DEF TypeOK

LEMMA ResumeType ==
  ASSUME TypeOK, NEW c \in Ctl, NEW calls \in Seq(Call), Resume(c, calls)
  PROVE  todo' \in [Ctl -> Seq(Call)] /\ boxes' \in [Ctl -> Seq(Seq(Call))]
  BY DEF TypeOK, Resume

LEMMA ReturnType ==
  ASSUME TypeOK, NEW c \in Ctl, todo[c] # <<>>, Return(c)
  PROVE  todo' \in [Ctl -> Seq(Call)] /\ boxes' \in [Ctl -> Seq(Seq(Call))]
  <1>1. Tail(todo[c]) \in Seq(Call)
    BY HeadTailType DEF TypeOK
  <1> QED
    BY <1>1, ResumeType DEF Return

LEMMA OpenType ==
  ASSUME TypeOK, NEW c \in Ctl, NEW calls \in Seq(Call), Open(c, calls)
  PROVE  todo' \in [Ctl -> Seq(Call)] /\ boxes' \in [Ctl -> Seq(Seq(Call))]
  <1>1. <<calls>> \o boxes[c] \in Seq(Seq(Call))
    BY DEF TypeOK
  <1>2. <<>> \in Seq(Call)
    OBVIOUS
  <1> QED
    BY <1>1, <1>2 DEF TypeOK, Open

LEMMA ReportType ==
  ASSUME TypeOK, NEW c \in Ctl, NEW calls \in Seq(Call), Report(c, calls)
  PROVE  todo' \in [Ctl -> Seq(Call)] /\ boxes' \in [Ctl -> Seq(Seq(Call))]
  BY OpenType, ResumeType DEF Report

\* A controller that vanishes leaves well-typed state.
LEMMA VanishType ==
  ASSUME TypeOK, NEW c \in Ctl, Vanish(c), what' \in [Pid -> Program \cup {"none"}],
         termed' \subseteq Pid
  PROVE  TypeOK'
  <1>1. /\ <<>> \in Seq(Call)
        /\ <<>> \in Seq(Seq(Call))
        /\ <<>> \in Seq(Tracker)
    OBVIOUS
  <1>2. /\ mode' \in [Ctl -> Modes \cup {"off"}]
        /\ quitTimer' \in [Ctl -> BOOLEAN]
    BY DEF TypeOK, Vanish
  <1>3. /\ apps' \in [Ctl -> Seq(Tracker)]
        /\ todo' \in [Ctl -> Seq(Call)]
        /\ boxes' \in [Ctl -> Seq(Seq(Call))]
    BY <1>1 DEF TypeOK, Vanish
  <1>4. tracker' \in [Ctl -> [Service -> ServiceTracker \cup {NoTracker}]]
    BY DEF TypeOK, Vanish
  <1>5. child' \in [Ctl -> [Pid -> Program \cup {"unknown", "none"}]]
    BY DEF TypeOK, Vanish
  <1> QED
    BY <1>2, <1>3, <1>4, <1>5 DEF TypeOK

LEMMA FoundType == ASSUME NEW p \in Pid \cup {NoPid} PROVE Found(p) \in ServiceTracker \cup {NoTracker}
  BY DEF Found, ServiceTracker

\* The trackers of the constructor are well typed.
LEMMA ScanType ==
  ASSUME TypeOK, NEW c \in Ctl, Scan(c)
  PROVE  /\ tracker' \in [Ctl -> [Service -> ServiceTracker \cup {NoTracker}]]
         /\ apps' \in [Ctl -> Seq(Tracker)]
  <1>1. PICK zygotes \in SUBSET Launchers :
          /\ \E first \in [Service -> Pid \cup {NoPid}] :
               tracker' = [tracker EXCEPT ![c] = [s \in Service |-> Found(first[s])]]
          /\ \E rest \in SetToSeqs(Launchers \ zygotes) :
               apps' = [apps EXCEPT ![c] = [i \in DOMAIN rest |-> Found(rest[i])]]
    BY DEF Scan
  <1>2. tracker' \in [Ctl -> [Service -> ServiceTracker \cup {NoTracker}]]
    BY <1>1, FoundType DEF TypeOK
  <1>3. PICK rest \in SetToSeqs(Launchers \ zygotes) :
          apps' = [apps EXCEPT ![c] = [i \in DOMAIN rest |-> Found(rest[i])]]
    BY <1>1
  <1>4. Launchers \ zygotes \subseteq Pid
    BY DEF Launchers
  <1>5. Cardinality(Launchers \ zygotes) \in Nat
    BY <1>4, PidAssumption, FS_Subset, FS_CardinalityType
  <1>6. PICK n \in Nat : rest \in [1..n -> Pid]
    BY <1>4, <1>5 DEF SetToSeqs
  <1>7. \A i \in 1..n : Found(rest[i]) \in Tracker
    BY <1>6, PidAssumption DEF Found, Tracker
  <1>8. [i \in DOMAIN rest |-> Found(rest[i])] \in [1..n -> Tracker]
    BY <1>6, <1>7
  <1>9. [i \in DOMAIN rest |-> Found(rest[i])] \in Seq(Tracker)
    BY <1>8, SeqDef
  <1> QED
    BY <1>2, <1>3, <1>9 DEF TypeOK

LEMMA LaunchType ==
  ASSUME TypeOK, NEW c \in Ctl, NEW m \in Modes, Launch(c, m)
  PROVE  TypeOK'
  <1>1. /\ todo' \in [Ctl -> Seq(Call)]
        /\ boxes' \in [Ctl -> Seq(Seq(Call))]
    BY CallsType, ResumeType DEF Launch
  <1>2. mode' \in [Ctl -> Modes \cup {"off"}]
    BY DEF TypeOK, Launch
  <1>3. /\ tracker' \in [Ctl -> [Service -> ServiceTracker \cup {NoTracker}]]
        /\ apps' \in [Ctl -> Seq(Tracker)]
    BY ScanType DEF Launch
  <1> QED
    BY <1>1, <1>2, <1>3 DEF TypeOK, Launch

\* The calls that start services keep the types.
LEMMA StartType ==
  ASSUME TypeOK, NEW c \in Ctl, NEW s \in Service,
         AlreadyRunning(c, s) \/ StartService(c, s) \/ StartFails(c, s)
  PROVE  TypeOK'
  <1> DEFINE Child == [Pid -> Program \cup {"unknown", "none"}]
  <1>1. child[c] \in Child
    BY DEF TypeOK
  <1>2. Disowned(c, s) \in Child
    BY <1>1 DEF Disowned
  <1>3. \A p \in Pid \cup {NoPid} : [pid |-> p, reports |-> TRUE] \in ServiceTracker
    BY DEF ServiceTracker
  <1>4. CASE AlreadyRunning(c, s)
    <2>1. /\ todo[c] \in Seq(Call)
          /\ todo[c] # <<>>
      BY <1>4 DEF TypeOK, AlreadyRunning, Calling
    <2>2. <<"quit">> \o Tail(todo[c]) \in Seq(Call)
      BY <2>1, HeadTailType DEF Call
    <2>3. /\ todo' \in [Ctl -> Seq(Call)]
          /\ boxes' \in [Ctl -> Seq(Seq(Call))]
      BY <1>4, <2>1, <2>2, ReportType, ReturnType DEF AlreadyRunning
    <2> QED
      BY <1>4, <2>3 DEF TypeOK, AlreadyRunning
  <1>5. CASE StartService(c, s)
    <2>1. /\ todo' \in [Ctl -> Seq(Call)]
          /\ boxes' \in [Ctl -> Seq(Seq(Call))]
      BY <1>5, ReturnType DEF StartService, Calling
    <2>2. PICK p \in Pid :
            /\ what' = [what EXCEPT ![p] = s]
            /\ child' = [child EXCEPT ![c] = [Disowned(c, s) EXCEPT ![p] = s]]
            /\ tracker' = [tracker EXCEPT ![c][s] = [pid |-> p, reports |-> TRUE]]
      BY <1>5 DEF StartService
    <2>3. what' \in [Pid -> Program \cup {"none"}]
      BY <2>2 DEF TypeOK, Program
    <2>4. [Disowned(c, s) EXCEPT ![p] = s] \in Child
      BY <1>2 DEF Program
    <2>5. child' \in [Ctl -> Child]
      BY <2>2, <2>4 DEF TypeOK
    <2>6. tracker' \in [Ctl -> [Service -> ServiceTracker \cup {NoTracker}]]
      BY <2>2, <1>3 DEF TypeOK
    <2> QED
      BY <1>5, <2>1, <2>3, <2>5, <2>6 DEF TypeOK, StartService
  <1>6. CASE StartFails(c, s)
    <2>1. /\ todo' \in [Ctl -> Seq(Call)]
          /\ boxes' \in [Ctl -> Seq(Seq(Call))]
      BY <1>6, ReturnType DEF StartFails, Calling
    <2>2. child' \in [Ctl -> Child]
      BY <1>6, <1>2 DEF TypeOK, StartFails
    <2>3. tracker' \in [Ctl -> [Service -> ServiceTracker \cup {NoTracker}]]
      BY <1>6, <1>3 DEF TypeOK, StartFails
    <2> QED
      BY <1>6, <2>1, <2>2, <2>3 DEF TypeOK, StartFails
  <1> QED
    BY <1>4, <1>5, <1>6

LEMMA StopType == ASSUME TypeOK, NEW c \in Ctl, Stop(c) PROVE TypeOK'
  <1>1. Live \subseteq Pid
    BY DEF Live
  <1>2. CASE StopServices(c)
    <2>1. /\ todo' \in [Ctl -> Seq(Call)]
          /\ boxes' \in [Ctl -> Seq(Seq(Call))]
      BY <1>2, ReturnType DEF Stop, Calling, StopServices
    <2>2. <<>> \in Seq(Tracker)
      OBVIOUS
    <2>3. apps' \in [Ctl -> Seq(Tracker)]
      BY <1>2, <2>2 DEF TypeOK, StopServices
    <2>4. termed' \subseteq Pid
      BY <1>1, <1>2 DEF TypeOK, StopServices
    <2> QED
      BY <1>2, <2>1, <2>3, <2>4 DEF TypeOK, StopServices
  <1>3. CASE StopItself(c)
    <2>1. termed' \subseteq Pid
      BY <1>1, <1>3 DEF TypeOK, StopItself
    <2>2. what' \in [Pid -> Program \cup {"none"}]
      BY <1>3 DEF TypeOK, StopItself
    <2> QED
      BY <1>3, <2>1, <2>2, VanishType DEF StopItself
  <1> QED
    BY <1>2, <1>3 DEF Stop

\* Those calls that start and stop no service.
LEMMA OtherCallsType ==
  ASSUME TypeOK, NEW c \in Ctl,
         Quit(c) \/ Ensure(c) \/ Check(c) \/ RunApk(c) \/ NoSuchApk(c) \/ RunAM(c)
  PROVE  TypeOK'
  <1>1. /\ todo' \in [Ctl -> Seq(Call)]
        /\ boxes' \in [Ctl -> Seq(Seq(Call))]
    <2>1. todo[c] # <<>> /\ todo[c] \in Seq(Call)
      BY DEF TypeOK, Quit, Ensure, Check, RunApk, NoSuchApk, RunAM, Calling
    <2>2. CASE Return(c)
      BY <2>1, <2>2, ReturnType
    <2>3. CASE Ensure(c)
      <3>1. Restart \o Tail(todo[c]) \in Seq(Call)
        BY <2>1, HeadTailType, RestartType
      <3> QED
        BY <2>1, <2>3, <3>1, ReturnType, ResumeType DEF Ensure
    <2> QED
      BY <2>2, <2>3 DEF Quit, Check, RunApk, NoSuchApk, RunAM
  <1>2. CASE Quit(c) \/ Check(c)
    <2>1. quitTimer' \in [Ctl -> BOOLEAN]
      BY <1>2 DEF TypeOK, Quit, Check
    <2> QED
      BY <1>1, <1>2, <2>1 DEF TypeOK, Quit, Check
  <1>3. CASE Ensure(c) \/ NoSuchApk(c)
    BY <1>1, <1>3 DEF TypeOK, Ensure, NoSuchApk
  <1>4. CASE RunApk(c)
    <2>1. PICK p \in Pid \cup {NoPid} :
            /\ apps' = [apps EXCEPT ![c] = Append(@, [pid |-> p, reports |-> TRUE])]
            /\ \/ p \in Pid /\ what' = [what EXCEPT ![p] = "apk"]
                          /\ child' = [child EXCEPT ![c][p] = "apk"]
               \/ UNCHANGED <<what, child>>
      BY <1>4 DEF RunApk
    <2>2. Append(apps[c], [pid |-> p, reports |-> TRUE]) \in Seq(Tracker)
      <3>1. apps[c] \in Seq(Tracker)
        BY DEF TypeOK
      <3>2. [pid |-> p, reports |-> TRUE] \in Tracker
        BY DEF Tracker
      <3> QED
        BY <3>1, <3>2, AppendType
    <2>3. apps' \in [Ctl -> Seq(Tracker)]
      BY <2>1, <2>2 DEF TypeOK
    <2>4. what' \in [Pid -> Program \cup {"none"}]
      BY <2>1 DEF TypeOK, Program
    <2>5. child' \in [Ctl -> [Pid -> Program \cup {"unknown", "none"}]]
      <3>1. UNCHANGED child => child' \in [Ctl -> [Pid -> Program \cup {"unknown", "none"}]]
        BY DEF TypeOK
      <3>2. "apk" \in Program
        BY DEF Program
      <3> QED
        BY <2>1, <3>1, <3>2, ChildType
    <2> QED
      BY <1>1, <1>4, <2>3, <2>4, <2>5 DEF TypeOK, RunApk
  <1>5. CASE RunAM(c)
    <2>1. what' \in [Pid -> Program \cup {"none"}]
      BY <1>5 DEF TypeOK, Program, RunAM
    <2>2. child' \in [Ctl -> [Pid -> Program \cup {"unknown", "none"}]]
      <3>1. UNCHANGED child => child' \in [Ctl -> [Pid -> Program \cup {"unknown", "none"}]]
        BY DEF TypeOK
      <3>2. "am" \in Program
        BY DEF Program
      <3> QED
        BY <1>5, <3>1, <3>2, ChildType DEF RunAM
    <2> QED
      BY <1>1, <1>5, <2>1, <2>2 DEF TypeOK, RunAM
  <1> QED
    BY <1>2, <1>3, <1>4, <1>5

\* The list of application trackers stays one.
LEMMA AppGoneType ==
  ASSUME TypeOK, NEW c \in Ctl, NEW i \in DOMAIN apps[c], AppGone(c, i)
  PROVE  TypeOK'
  <1> DEFINE list == [apps[c] EXCEPT ![i].reports = FALSE]
  <1>1. apps[c] \in Seq(Tracker)
    BY DEF TypeOK
  <1>2. [apps[c][i] EXCEPT !.reports = FALSE] \in Tracker
    <2>1. apps[c][i] \in Tracker
      BY <1>1, ElementOfSeq
    <2> QED
      BY <2>1 DEF Tracker
  <1>3. list \in Seq(Tracker)
    BY <1>1, <1>2
  <1>4. \A j \in DOMAIN list : RemoveAt(list, j) \in Seq(Tracker)
    BY <1>3, RemoveAtType
  <1>5. \/ apps' = [apps EXCEPT ![c] = list]
        \/ \E j \in DOMAIN list : apps' = [apps EXCEPT ![c] = RemoveAt(list, j)]
    BY DEF AppGone
  <1>6. apps' \in [Ctl -> Seq(Tracker)]
    BY <1>3, <1>4, <1>5 DEF TypeOK
  <1> QED
    BY <1>6 DEF TypeOK, AppGone

LEMMA SlotsType == ASSUME TypeOK, NEW c \in Ctl, Slots(c) PROVE TypeOK'
  <1>1. ASSUME NEW p \in Pid, Finished(c, p)
        PROVE  TypeOK'
    <2>1. /\ todo' \in [Ctl -> Seq(Call)]
          /\ boxes' \in [Ctl -> Seq(Seq(Call))]
      BY <1>1, AftermathType, ReportType, ResumeType DEF Finished
    <2>2. child' \in [Ctl -> [Pid -> Program \cup {"unknown", "none"}]]
      BY <1>1 DEF TypeOK, Finished
    <2> QED
      BY <1>1, <2>1, <2>2 DEF TypeOK, Finished
  <1>2. ASSUME NEW s \in Service, ServiceGone(c, s)
        PROVE  TypeOK'
    <2>1. tracker' \in [Ctl -> [Service -> ServiceTracker \cup {NoTracker}]]
      BY <1>2 DEF TypeOK, ServiceGone
    <2> QED
      BY <1>2, <2>1 DEF TypeOK, ServiceGone
  <1>3. ASSUME NEW i \in DOMAIN apps[c], AppGone(c, i)
        PROVE  TypeOK'
    BY <1>3, AppGoneType
  <1>4. CASE QuitFires(c)
    BY <1>4, VanishType DEF TypeOK, QuitFires, osVars
  <1> QED
    BY <1>1, <1>2, <1>3, <1>4 DEF Slots

LEMMA UserType == ASSUME TypeOK, NEW c \in Ctl, User(c) PROVE TypeOK'
  <1>1. ASSUME NEW m \in Modes, Launch(c, m)
        PROVE  TypeOK'
    BY <1>1, LaunchType
  <1>2. CASE Click(c)
    <2>1. /\ \A s \in Service : <<s>> \in Seq(Call)
          /\ <<"stop">> \in Seq(Call)
      BY DEF Call
    <2>2. \E calls \in Seq(Call) : Resume(c, calls)
      BY <1>2, <2>1, RestartType DEF Click
    <2> QED
      BY <1>2, <2>2, ResumeType DEF TypeOK, Click
  <1>3. CASE OpenDialog(c)
    <2>1. <<"apk">> \in Seq(Call)
      BY DEF Call
    <2> QED
      BY <1>3, <2>1, OpenType DEF TypeOK, OpenDialog
  <1>4. CASE CloseBox(c)
    <2>1. boxes[c] \in Seq(Seq(Call)) /\ boxes[c] # <<>>
      BY <1>4 DEF TypeOK, CloseBox
    <2>2. Head(boxes[c]) \in Seq(Call) /\ Tail(boxes[c]) \in Seq(Seq(Call))
      BY <2>1, HeadTailType
    <2>3. quitTimer' \in [Ctl -> BOOLEAN]
      BY <1>4 DEF TypeOK, CloseBox
    <2> QED
      BY <1>4, <2>2, <2>3 DEF TypeOK, CloseBox
  <1>5. CASE CloseWindow(c)
    BY <1>5, VanishType DEF TypeOK, CloseWindow, osVars
  <1> QED
    BY <1>1, <1>2, <1>3, <1>4, <1>5 DEF User

LEMMA TypeStep == TypeOK /\ [Next]_vars => TypeOK'
  <1> SUFFICES ASSUME TypeOK, [Next]_vars
               PROVE  TypeOK'
    OBVIOUS
  <1>1. ASSUME NEW p \in Pid, ProcExit(p)
        PROVE  TypeOK'
    BY <1>1 DEF TypeOK, ProcExit
  <1>2. ASSUME NEW c \in Ctl, Step(c)
        PROVE  TypeOK'
    BY <1>2, StartType, StopType, OtherCallsType DEF Step
  <1>3. ASSUME NEW c \in Ctl, Slots(c)
        PROVE  TypeOK'
    BY <1>3, SlotsType
  <1>4. ASSUME NEW c \in Ctl, User(c)
        PROVE  TypeOK'
    BY <1>4, UserType
  <1>5. ASSUME NEW c \in Ctl, Crash(c)
        PROVE  TypeOK'
    BY <1>5, VanishType DEF TypeOK, Crash, osVars
  <1>6. CASE UNCHANGED vars
    BY <1>6 DEF TypeOK, vars
  <1> QED
    BY <1>1, <1>2, <1>3, <1>4, <1>5, <1>6 DEF Next, SteadyNext

LEMMA TypeInit == Init => TypeOK
  BY DEF Init, TypeOK

\* The state stays well typed whatever controllers and processes do: the trackers, the
\* calls left and the modal boxes are what Controller.cpp and main.cpp put there.
THEOREM TypeCorrect == Spec => []TypeOK
  BY TypeInit, TypeStep, PTL DEF Spec

-------------------------------------------------------------------------------
(* The trackers of a controller's own services *)

\* No controller: no process whose exit it waits for.
OffClean == \A c \in Ctl : mode[c] = "off" => \A p \in Pid : child[c][p] = "none"

\* OwnServicesTracked is inductive with OffClean: the constructor replaces all trackers
\* of a controller, which is harmless because it has no children yet.
OwnInv == TypeOK /\ OffClean /\ OwnServicesTracked

LEMMA Names ==
  /\ {"none", "unknown", "apk", "am", "stop", "quit", "ensure", "check"} \cap Service = {}
  /\ "off" \notin Modes
  BY ServiceAssumption, ModesAssumption DEF AllServices, AllModes

\* Steps that touch neither processes nor trackers.
LEMMA OwnFrame ==
  ASSUME OwnInv, UNCHANGED <<what, tracker, child, mode>>
  PROVE  OffClean' /\ OwnServicesTracked'
  BY DEF OwnInv, OffClean, OwnServicesTracked, Live

LEMMA OwnVanish ==
  ASSUME OwnInv, NEW c \in Ctl, Vanish(c), UNCHANGED what
  PROVE  OffClean' /\ OwnServicesTracked'
  <1>1. \A p \in Pid : child'[c][p] = "none"
    BY DEF OwnInv, TypeOK, Vanish
  <1>2. \A d \in Ctl \ {c} : child'[d] = child[d] /\ tracker'[d] = tracker[d] /\ mode'[d] = mode[d]
    BY DEF OwnInv, TypeOK, Vanish
  <1>3. Live' = Live
    BY DEF Live
  <1>4. OffClean'
    BY <1>1, <1>2 DEF OwnInv, OffClean
  <1>5. OwnServicesTracked'
    <2> SUFFICES ASSUME NEW d \in Ctl, NEW p \in Live
                 PROVE  /\ child'[d][p] # "unknown"
                        /\ child'[d][p] \in Service =>
                             /\ what'[p] = child'[d][p]
                             /\ tracker'[d][child'[d][p]] = [pid |-> p, reports |-> TRUE]
      BY <1>3 DEF OwnServicesTracked
    <2>1. CASE d = c
      BY <1>1, <2>1, Names DEF Live
    <2>2. CASE d # c
      BY <1>2, <2>2 DEF OwnInv, OwnServicesTracked
    <2> QED
      BY <2>1, <2>2
  <1> QED
    BY <1>4, <1>5

\* A service whose tracker is null has no live process among the controller's own, so
\* the ones startX() disowns are dead.
LEMMA DisownedDead ==
  ASSUME OwnInv, NEW c \in Ctl, NEW s \in Service, tracker[c][s] = NoTracker, NEW p \in Live
  PROVE  child[c][p] # s /\ Disowned(c, s)[p] = child[c][p]
  <1>1. p \in Pid
    BY DEF Live
  <1>2. [pid |-> p, reports |-> TRUE] \in Tracker
    BY <1>1 DEF Tracker
  <1>3. child[c][p] # s
    BY <1>2, NoTrackerAssumption DEF OwnInv, OwnServicesTracked
  <1> QED
    BY <1>1, <1>3 DEF Disowned

LEMMA OwnStartService ==
  ASSUME OwnInv, NEW c \in Ctl, NEW s \in Service, StartService(c, s)
  PROVE  OffClean' /\ OwnServicesTracked'
  <1>1. PICK p \in Pid :
          /\ Free(p)
          /\ what' = [what EXCEPT ![p] = s]
          /\ child' = [child EXCEPT ![c] = [Disowned(c, s) EXCEPT ![p] = s]]
          /\ tracker' = [tracker EXCEPT ![c][s] = [pid |-> p, reports |-> TRUE]]
    BY DEF StartService
  <1>2. mode' = mode /\ mode[c] # "off" /\ tracker[c][s] = NoTracker
    BY DEF StartService, Calling
  <1>3. /\ what \in [Pid -> Program \cup {"none"}]
        /\ child \in [Ctl -> [Pid -> Program \cup {"unknown", "none"}]]
        /\ tracker \in [Ctl -> [Service -> ServiceTracker \cup {NoTracker}]]
    BY DEF OwnInv, TypeOK
  <1>4. \A d \in Ctl \ {c} : child'[d] = child[d] /\ tracker'[d] = tracker[d]
    BY <1>1, <1>3
  <1>5. OffClean'
    BY <1>2, <1>4 DEF OwnInv, OffClean
  <1>6. OwnServicesTracked'
    <2> SUFFICES ASSUME NEW d \in Ctl, NEW q \in Pid, what'[q] # "none"
                 PROVE  /\ child'[d][q] # "unknown"
                        /\ child'[d][q] \in Service =>
                             /\ what'[q] = child'[d][q]
                             /\ tracker'[d][child'[d][q]] = [pid |-> q, reports |-> TRUE]
      BY DEF OwnServicesTracked, Live
    <2>1. CASE d = c /\ q = p
      <3>1. what'[p] = s
        BY <1>1, <1>3
      <3>2. child'[c][p] = s
        BY <1>1, <1>3 DEF Disowned
      <3>3. tracker'[c][s] = [pid |-> p, reports |-> TRUE]
        BY <1>1, <1>3
      <3> QED
        BY <2>1, <3>1, <3>2, <3>3, Names
    <2>2. CASE d # c /\ q = p
      BY <1>1, <1>4, <2>2, Names DEF Free
    <2>3. CASE q # p
      <3>1. q \in Live /\ what'[q] = what[q]
        BY <1>1, <1>3, <2>3 DEF Live
      <3>2. CASE d = c
        <4>1. child'[c][q] = Disowned(c, s)[q]
          BY <1>1, <1>3, <2>3 DEF Disowned
        <4>2. child'[c][q] = child[c][q] /\ child[c][q] # s
          BY <4>1, <3>1, <1>2, DisownedDead
        <4>3. \A t \in Service \ {s} : tracker'[c][t] = tracker[c][t]
          BY <1>1, <1>3
        <4> QED
          BY <3>1, <3>2, <4>2, <4>3 DEF OwnInv, OwnServicesTracked
      <3>3. CASE d # c
        BY <1>4, <3>1, <3>3 DEF OwnInv, OwnServicesTracked
      <3> QED
        BY <3>2, <3>3
    <2> QED
      BY <2>1, <2>2, <2>3
  <1> QED
    BY <1>5, <1>6

LEMMA OwnStartFails ==
  ASSUME OwnInv, NEW c \in Ctl, NEW s \in Service, StartFails(c, s)
  PROVE  OffClean' /\ OwnServicesTracked'
  <1>1. /\ what' = what /\ mode' = mode /\ mode[c] # "off"
        /\ tracker[c][s] = NoTracker
        /\ child' = [child EXCEPT ![c] = Disowned(c, s)]
    BY DEF StartFails, Calling
  <1>2. /\ child \in [Ctl -> [Pid -> Program \cup {"unknown", "none"}]]
        /\ tracker \in [Ctl -> [Service -> ServiceTracker \cup {NoTracker}]]
    BY DEF OwnInv, TypeOK
  <1>3. \A d \in Ctl \ {c} : child'[d] = child[d] /\ tracker'[d] = tracker[d]
    BY <1>1, <1>2 DEF StartFails
  <1>4. \A q \in Live : child'[c][q] = child[c][q] /\ child[c][q] # s
    BY <1>1, <1>2, DisownedDead
  <1>5. \A t \in Service \ {s} : tracker'[c][t] = tracker[c][t]
    BY <1>2 DEF StartFails
  <1>6. Live' = Live
    BY <1>1 DEF Live
  <1>7. OffClean'
    BY <1>1, <1>3 DEF OwnInv, OffClean
  <1>8. OwnServicesTracked'
    <2> SUFFICES ASSUME NEW d \in Ctl, NEW q \in Live
                 PROVE  /\ child'[d][q] # "unknown"
                        /\ child'[d][q] \in Service =>
                             /\ what'[q] = child'[d][q]
                             /\ tracker'[d][child'[d][q]] = [pid |-> q, reports |-> TRUE]
      BY <1>6 DEF OwnServicesTracked
    <2>1. CASE d = c
      BY <1>1, <1>4, <1>5, <2>1 DEF OwnInv, OwnServicesTracked
    <2>2. CASE d # c
      BY <1>1, <1>3, <2>2 DEF OwnInv, OwnServicesTracked
    <2> QED
      BY <2>1, <2>2
  <1> QED
    BY <1>7, <1>8

\* A process that is no service is started under a free number.
LEMMA OwnLauncher ==
  ASSUME OwnInv, NEW c \in Ctl, NEW p \in Pid, NEW w \in {"apk", "am"},
         mode[c] # "off", Free(p),
         what' = [what EXCEPT ![p] = w], child' = [child EXCEPT ![c][p] = w],
         UNCHANGED <<mode, tracker>>
  PROVE  OffClean' /\ OwnServicesTracked'
  <1>1. /\ what \in [Pid -> Program \cup {"none"}]
        /\ child \in [Ctl -> [Pid -> Program \cup {"unknown", "none"}]]
    BY DEF OwnInv, TypeOK
  <1>2. /\ child'[c][p] = w
        /\ \A d \in Ctl, q \in Pid : d # c \/ q # p => child'[d][q] = child[d][q]
    BY <1>1
  <1>3. OffClean'
    BY <1>2 DEF OwnInv, OffClean
  <1>4. OwnServicesTracked'
    <2> SUFFICES ASSUME NEW d \in Ctl, NEW q \in Pid, what'[q] # "none"
                 PROVE  /\ child'[d][q] # "unknown"
                        /\ child'[d][q] \in Service =>
                             /\ what'[q] = child'[d][q]
                             /\ tracker'[d][child'[d][q]] = [pid |-> q, reports |-> TRUE]
      BY DEF OwnServicesTracked, Live
    <2>1. CASE d = c /\ q = p
      BY <1>2, <2>1, Names
    <2>2. CASE d # c /\ q = p
      BY <1>2, <2>2, Names DEF Free
    <2>3. CASE q # p
      BY <1>1, <1>2, <2>3 DEF OwnInv, OwnServicesTracked, Live
    <2> QED
      BY <2>1, <2>2, <2>3
  <1> QED
    BY <1>3, <1>4

LEMMA OwnFinished ==
  ASSUME OwnInv, NEW c \in Ctl, NEW p \in Pid, Finished(c, p)
  PROVE  OffClean' /\ OwnServicesTracked'
  <1>1. child \in [Ctl -> [Pid -> Program \cup {"unknown", "none"}]]
    BY DEF OwnInv, TypeOK
  <1>2. /\ what' = what /\ tracker' = tracker /\ mode' = mode
        /\ what[p] = "none" /\ mode[c] # "off"
        /\ child' = [child EXCEPT ![c][p] = "none"]
    BY DEF Finished, Idle
  <1>3. \A d \in Ctl, q \in Pid : child'[d][q] = child[d][q] \/ (q = p /\ child'[d][q] = "none")
    BY <1>1, <1>2
  <1>4. Live' = Live /\ p \notin Live
    BY <1>2 DEF Live
  <1>5. OffClean'
    BY <1>2, <1>3 DEF OwnInv, OffClean
  <1>6. OwnServicesTracked'
    <2> SUFFICES ASSUME NEW d \in Ctl, NEW q \in Live
                 PROVE  /\ child'[d][q] # "unknown"
                        /\ child'[d][q] \in Service =>
                             /\ what'[q] = child'[d][q]
                             /\ tracker'[d][child'[d][q]] = [pid |-> q, reports |-> TRUE]
      BY <1>4 DEF OwnServicesTracked
    <2>1. q \in Pid /\ child'[d][q] = child[d][q]
      BY <1>3, <1>4 DEF Live
    <2> QED
      BY <1>2, <2>1 DEF OwnInv, OwnServicesTracked
  <1> QED
    BY <1>5, <1>6

LEMMA OwnServiceGone ==
  ASSUME OwnInv, NEW c \in Ctl, NEW s \in Service, ServiceGone(c, s)
  PROVE  OffClean' /\ OwnServicesTracked'
  <1>1. tracker \in [Ctl -> [Service -> ServiceTracker \cup {NoTracker}]]
    BY DEF OwnInv, TypeOK
  <1>2. /\ what' = what /\ child' = child /\ mode' = mode
        /\ tracker[c][s].pid \notin Live
        /\ tracker' = [tracker EXCEPT ![c][s] = NoTracker]
    BY DEF ServiceGone, Gone
  <1>3. Live' = Live
    BY <1>2 DEF Live
  <1>4. \A d \in Ctl, t \in Service : d # c \/ t # s => tracker'[d][t] = tracker[d][t]
    BY <1>1, <1>2
  <1>5. \A q \in Live : child[c][q] # s
    <2> SUFFICES ASSUME NEW q \in Live, child[c][q] = s
                 PROVE  FALSE
      OBVIOUS
    <2>1. tracker[c][s] = [pid |-> q, reports |-> TRUE]
      BY DEF OwnInv, OwnServicesTracked
    <2> QED
      BY <1>2, <2>1
  <1>6. OffClean'
    BY <1>2 DEF OwnInv, OffClean
  <1>7. OwnServicesTracked'
    <2> SUFFICES ASSUME NEW d \in Ctl, NEW q \in Live
                 PROVE  /\ child'[d][q] # "unknown"
                        /\ child'[d][q] \in Service =>
                             /\ what'[q] = child'[d][q]
                             /\ tracker'[d][child'[d][q]] = [pid |-> q, reports |-> TRUE]
      BY <1>3 DEF OwnServicesTracked
    <2>1. /\ child[d][q] # "unknown"
          /\ child[d][q] \in Service =>
               /\ what[q] = child[d][q]
               /\ tracker[d][child[d][q]] = [pid |-> q, reports |-> TRUE]
      BY DEF OwnInv, OwnServicesTracked
    <2> QED
      BY <1>2, <1>4, <1>5, <2>1
  <1> QED
    BY <1>6, <1>7

LEMMA OwnLaunch ==
  ASSUME OwnInv, NEW c \in Ctl, NEW m \in Modes, Launch(c, m)
  PROVE  OffClean' /\ OwnServicesTracked'
  <1>1. /\ what' = what /\ child' = child /\ mode[c] = "off"
        /\ mode' = [mode EXCEPT ![c] = m]
    BY DEF Launch
  <1>2. \A d \in Ctl \ {c} : tracker'[d] = tracker[d] /\ mode'[d] = mode[d]
    BY DEF OwnInv, TypeOK, Launch, Scan
  <1>3. mode'[c] # "off"
    BY <1>1, Names DEF OwnInv, TypeOK
  <1>4. Live' = Live
    BY <1>1 DEF Live
  <1>5. OffClean'
    BY <1>1, <1>2, <1>3 DEF OwnInv, OffClean
  <1>6. OwnServicesTracked'
    <2> SUFFICES ASSUME NEW d \in Ctl, NEW q \in Live
                 PROVE  /\ child[d][q] # "unknown"
                        /\ child[d][q] \in Service =>
                             /\ what[q] = child[d][q]
                             /\ tracker'[d][child[d][q]] = [pid |-> q, reports |-> TRUE]
      BY <1>1, <1>4 DEF OwnServicesTracked
    <2>1. CASE d = c
      BY <1>1, <2>1, Names DEF OwnInv, OffClean, Live
    <2>2. CASE d # c
      BY <1>2, <2>2 DEF OwnInv, OwnServicesTracked
    <2> QED
      BY <2>1, <2>2
  <1> QED
    BY <1>5, <1>6

LEMMA OwnProcExit ==
  ASSUME OwnInv, NEW p \in Pid, ProcExit(p)
  PROVE  OffClean' /\ OwnServicesTracked'
  <1>1. \A q \in Live' : q \in Live /\ what'[q] = what[q]
    BY DEF OwnInv, TypeOK, ProcExit, Live
  <1>2. UNCHANGED <<mode, child, tracker>>
    BY DEF ProcExit
  <1> QED
    BY <1>1, <1>2 DEF OwnInv, OffClean, OwnServicesTracked

LEMMA OwnStep == OwnInv /\ [Next]_vars => OwnInv'
  <1> SUFFICES ASSUME OwnInv, [Next]_vars
               PROVE  OffClean' /\ OwnServicesTracked'
    BY TypeStep DEF OwnInv
  <1>1. ASSUME NEW p \in Pid, ProcExit(p)
        PROVE  OffClean' /\ OwnServicesTracked'
    BY <1>1, OwnProcExit
  <1>2. ASSUME NEW c \in Ctl, Step(c)
        PROVE  OffClean' /\ OwnServicesTracked'
    <2>1. ASSUME NEW s \in Service, StartService(c, s) \/ StartFails(c, s)
          PROVE  OffClean' /\ OwnServicesTracked'
      BY <2>1, OwnStartService, OwnStartFails
    <2>2. CASE Stop(c)
      BY <2>2, OwnFrame, OwnVanish DEF Stop, StopServices, StopItself
    <2>3. CASE RunApk(c) \/ RunAM(c)
      <3>1. mode[c] # "off"
        BY <2>3 DEF RunApk, RunAM, Calling
      <3>2. UNCHANGED <<mode, tracker>>
        BY <2>3 DEF RunApk, RunAM
      <3>3. \/ UNCHANGED <<what, child>>
            \/ \E p \in Pid, w \in {"apk", "am"} :
                 /\ Free(p)
                 /\ what' = [what EXCEPT ![p] = w]
                 /\ child' = [child EXCEPT ![c][p] = w]
        BY <2>3 DEF RunApk, RunAM
      <3> QED
        BY <3>1, <3>2, <3>3, OwnFrame, OwnLauncher
    <2>4. CASE (\E s \in Service : AlreadyRunning(c, s)) \/ Quit(c) \/ Ensure(c)
                 \/ Check(c) \/ NoSuchApk(c)
      BY <2>4, OwnFrame DEF AlreadyRunning, Quit, Ensure, Check, NoSuchApk
    <2> QED
      BY <1>2, <2>1, <2>2, <2>3, <2>4 DEF Step
  <1>3. ASSUME NEW c \in Ctl, Slots(c)
        PROVE  OffClean' /\ OwnServicesTracked'
    <2>1. ASSUME NEW i \in DOMAIN apps[c], AppGone(c, i)
          PROVE  OffClean' /\ OwnServicesTracked'
      BY <2>1, OwnFrame DEF AppGone
    <2>2. CASE QuitFires(c)
      BY <2>2, OwnVanish DEF QuitFires, osVars
    <2> QED
      BY <1>3, <2>1, <2>2, OwnFinished, OwnServiceGone DEF Slots
  <1>4. ASSUME NEW c \in Ctl, User(c) \/ Crash(c)
        PROVE  OffClean' /\ OwnServicesTracked'
    <2>1. CASE Click(c) \/ OpenDialog(c) \/ CloseBox(c)
      BY <2>1, OwnFrame DEF Click, OpenDialog, CloseBox
    <2>2. CASE CloseWindow(c) \/ Crash(c)
      BY <2>2, OwnVanish DEF CloseWindow, Crash, osVars
    <2> QED
      BY <1>4, <2>1, <2>2, OwnLaunch DEF User
  <1>5. CASE UNCHANGED vars
    BY <1>5, OwnFrame DEF vars
  <1> QED
    BY <1>1, <1>2, <1>3, <1>4, <1>5 DEF Next, SteadyNext

LEMMA OwnInit == Init => OwnInv
  <1> SUFFICES ASSUME Init PROVE OffClean /\ OwnServicesTracked
    BY TypeInit DEF OwnInv
  <1> QED
    BY Names DEF Init, OffClean, OwnServicesTracked, Live

\* Whatever processes, users and other controllers do, the tracker of a service watches
\* the live process the controller started for it: startX() replaces the QProcess of no
\* running service.
THEOREM OwnServicesAlwaysTracked == Spec => []OwnServicesTracked
  <1>1. OwnInv => OwnServicesTracked
    BY DEF OwnInv
  <1> QED
    BY <1>1, OwnInit, OwnStep, PTL DEF Spec

-------------------------------------------------------------------------------
(* One controller at a time, again and again *)

OneController == \A c, d \in Ctl : c = d

\* What SingleInstance needs to be inductive: a null tracker means that there is no
\* process of the service.
AloneInv == TypeOK /\ SingleInstance /\ Covered

\* Covered, for one process.
CoveredAt(c, p) ==
  mode[c] # "off" /\ what[p] \in Service =>
    /\ tracker[c][what[p]] # NoTracker
    /\ what[p] # "zygote" \/ tracker[c][what[p]].reports => tracker[c][what[p]].pid = p

LEMMA CoveredEverywhere == Covered <=> \A c \in Ctl, p \in Live : CoveredAt(c, p)
  BY DEF Covered, CoveredAt

\* Steps that touch neither processes nor trackers.
LEMMA AloneFrame ==
  ASSUME AloneInv, UNCHANGED <<what, tracker, mode>>
  PROVE  SingleInstance' /\ Covered'
  BY DEF AloneInv, SingleInstance, Covered, Live

LEMMA AloneVanish ==
  ASSUME AloneInv, NEW c \in Ctl, Vanish(c), UNCHANGED what
  PROVE  SingleInstance' /\ Covered'
  <1>1. Live' = Live /\ what' = what
    BY DEF Live
  <1>2. mode'[c] = "off" /\ \A d \in Ctl \ {c} : mode'[d] = mode[d] /\ tracker'[d] = tracker[d]
    BY DEF AloneInv, TypeOK, Vanish
  <1>3. SingleInstance'
    BY <1>1 DEF AloneInv, SingleInstance
  <1>4. ASSUME NEW d \in Ctl, NEW p \in Live
        PROVE  CoveredAt(d, p)'
    <2>1. CASE d = c
      BY <1>2, <2>1 DEF CoveredAt
    <2>2. CASE d # c
      <3>1. CoveredAt(d, p)
        BY CoveredEverywhere DEF AloneInv
      <3> QED
        BY <1>1, <1>2, <2>2, <3>1 DEF CoveredAt
    <2> QED
      BY <2>1, <2>2
  <1>5. Covered'
    BY <1>1, <1>4, CoveredEverywhere DEF Covered, CoveredAt
  <1> QED
    BY <1>3, <1>5

\* With its tracker null, a service has no process.
LEMMA NullMeansNone ==
  ASSUME AloneInv, NEW c \in Ctl, mode[c] # "off", NEW s \in Service,
         tracker[c][s] = NoTracker, NEW p \in Live
  PROVE  what[p] # s
  BY DEF AloneInv, Covered

LEMMA AloneStartService ==
  ASSUME OneController, AloneInv, NEW c \in Ctl, NEW s \in Service, StartService(c, s)
  PROVE  SingleInstance' /\ Covered'
  <1>1. PICK p \in Pid :
          /\ Free(p)
          /\ what' = [what EXCEPT ![p] = s]
          /\ tracker' = [tracker EXCEPT ![c][s] = [pid |-> p, reports |-> TRUE]]
    BY DEF StartService
  <1>2. mode' = mode /\ mode[c] # "off" /\ tracker[c][s] = NoTracker
    BY DEF StartService, Calling
  <1>3. /\ what \in [Pid -> Program \cup {"none"}]
        /\ tracker \in [Ctl -> [Service -> ServiceTracker \cup {NoTracker}]]
    BY DEF AloneInv, TypeOK
  <1>4. /\ what'[p] = s
        /\ \A q \in Live' : q # p => q \in Live /\ what'[q] = what[q] /\ what[q] # s
    <2>1. \A q \in Live : what[q] # s
      BY <1>2, NullMeansNone
    <2> QED
      BY <1>1, <1>3, <2>1 DEF Live
  <1>5. /\ tracker'[c][s] = [pid |-> p, reports |-> TRUE]
        /\ \A t \in Service \ {s} : tracker'[c][t] = tracker[c][t]
    BY <1>1, <1>3
  <1>6. SingleInstance'
    <2> SUFFICES ASSUME NEW q \in Live', NEW r \in Live', what'[q] = what'[r],
                        what'[q] \in Service
                 PROVE  q = r
      BY DEF SingleInstance
    <2>1. CASE q # p /\ r # p
      BY <1>4, <2>1 DEF AloneInv, SingleInstance
    <2>2. CASE q = p \/ r = p
      BY <1>4, <2>2
    <2> QED
      BY <2>1, <2>2
  <1>7. ASSUME NEW d \in Ctl, NEW q \in Live'
        PROVE  CoveredAt(d, q)'
    <2>1. d = c
      BY DEF OneController
    <2>2. CASE q = p
      <3>1. [pid |-> p, reports |-> TRUE] \in Tracker
        BY DEF Tracker
      <3>2. [pid |-> p, reports |-> TRUE] # NoTracker
        BY <3>1, NoTrackerAssumption
      <3> QED
        BY <1>4, <1>5, <2>1, <2>2, <3>2 DEF CoveredAt
    <2>3. CASE q # p
      <3>1. CoveredAt(c, q) /\ what'[q] = what[q] /\ what[q] # s
        BY <1>4, <2>3, CoveredEverywhere DEF AloneInv
      <3> QED
        BY <1>2, <1>5, <2>1, <3>1 DEF CoveredAt
    <2> QED
      BY <2>2, <2>3
  <1>8. Covered'
    BY <1>7 DEF Covered, CoveredAt
  <1> QED
    BY <1>6, <1>8

\* Only the tracker of a service without processes changes.
LEMMA AloneTracker ==
  ASSUME OneController, AloneInv, NEW c \in Ctl, NEW s \in Service,
         NEW t \in Tracker \cup {NoTracker},
         \A p \in Live : what[p] # s,
         tracker' = [tracker EXCEPT ![c][s] = t], UNCHANGED <<what, mode>>
  PROVE  SingleInstance' /\ Covered'
  <1>1. Live' = Live /\ what' = what /\ mode' = mode
    BY DEF Live
  <1>2. \A u \in Service \ {s} : tracker'[c][u] = tracker[c][u]
    BY DEF AloneInv, TypeOK
  <1>3. SingleInstance'
    BY <1>1 DEF AloneInv, SingleInstance
  <1>4. ASSUME NEW d \in Ctl, NEW p \in Live
        PROVE  CoveredAt(d, p)'
    <2>1. d = c
      BY DEF OneController
    <2>2. CoveredAt(c, p) /\ what[p] # s
      BY CoveredEverywhere DEF AloneInv
    <2> QED
      BY <1>1, <1>2, <2>1, <2>2 DEF CoveredAt
  <1>5. Covered'
    BY <1>1, <1>4 DEF Covered, CoveredAt
  <1> QED
    BY <1>3, <1>5

LEMMA AloneLauncher ==
  ASSUME AloneInv, NEW p \in Pid, NEW w \in {"apk", "am"}, Free(p),
         what' = [what EXCEPT ![p] = w], UNCHANGED <<mode, tracker>>
  PROVE  SingleInstance' /\ Covered'
  <1>1. what \in [Pid -> Program \cup {"none"}]
    BY DEF AloneInv, TypeOK
  <1>2. \A q \in Live' : what'[q] \in Service => q \in Live /\ what'[q] = what[q]
    BY <1>1, Names DEF Live
  <1> QED
    BY <1>2 DEF AloneInv, SingleInstance, Covered

\* A live service process is not one whose end a tracker notices.
LEMMA AloneServiceGone ==
  ASSUME OneController, AloneInv, NEW c \in Ctl, NEW s \in Service, ServiceGone(c, s)
  PROVE  SingleInstance' /\ Covered'
  <1>1. /\ mode[c] # "off"
        /\ tracker[c][s].reports
        /\ tracker[c][s].pid \notin Live
        /\ tracker' = [tracker EXCEPT ![c][s] = NoTracker]
        /\ UNCHANGED <<what, mode>>
    BY DEF ServiceGone, Gone, Idle
  <1>2. \A p \in Live : what[p] # s
    BY <1>1 DEF AloneInv, Covered
  <1> QED
    BY <1>1, <1>2, AloneTracker

\* The constructor finds what runs.
LEMMA ScanFinds ==
  ASSUME TypeOK, SingleInstance, NEW c \in Ctl, Scan(c), NEW p \in Live, what[p] \in Service
  PROVE  /\ tracker'[c][what[p]] # NoTracker
         /\ ~tracker'[c][what[p]].reports
         /\ what[p] # "zygote" => tracker'[c][what[p]].pid = p
  <1> DEFINE s == what[p]
  <1>1. PICK zygotes \in SUBSET Launchers, first \in [Service -> Pid \cup {NoPid}] :
          /\ PidsOf("zygote") \subseteq zygotes
          /\ \A t \in Service : first[t] \in FirstOf(t, zygotes)
          /\ tracker' = [tracker EXCEPT ![c] = [t \in Service |-> Found(first[t])]]
    BY DEF Scan
  <1>2. tracker'[c][s] = Found(first[s])
    BY <1>1 DEF TypeOK
  <1>3. p \in PidsOf(s)
    BY DEF Live, PidsOf
  <1>4. CASE s = "zygote"
    <2>1. first[s] \in zygotes
      BY <1>1, <1>3, <1>4 DEF FirstOf
    <2>2. first[s] \in Pid
      BY <2>1 DEF Launchers
    <2>3. Found(first[s]) = [pid |-> first[s], reports |-> FALSE]
      BY <2>2, PidAssumption DEF Found
    <2>4. [pid |-> first[s], reports |-> FALSE] \in Tracker
      BY <2>2 DEF Tracker
    <2>5. [pid |-> first[s], reports |-> FALSE] # NoTracker
      BY <2>4, NoTrackerAssumption
    <2>6. tracker'[c][s] = [pid |-> first[s], reports |-> FALSE]
      BY <1>2, <2>3
    <2>7. tracker'[c][s] # NoTracker /\ ~tracker'[c][s].reports
      BY <2>5, <2>6
    <2> QED
      BY <1>4, <2>7
  <1>5. CASE s # "zygote"
    <2>1. first[s] \in PidsOf(s)
      BY <1>1, <1>3, <1>5 DEF FirstOf
    <2>2. first[s] = p
      BY <1>3, <2>1, Names DEF SingleInstance, PidsOf, Live
    <2>3. Found(first[s]) = [pid |-> p, reports |-> FALSE]
      BY <2>2, PidAssumption DEF Found, Live
    <2>4. [pid |-> p, reports |-> FALSE] \in Tracker
      BY DEF Tracker, Live
    <2>5. [pid |-> p, reports |-> FALSE] # NoTracker
      BY <2>4, NoTrackerAssumption
    <2>6. tracker'[c][s] = [pid |-> p, reports |-> FALSE]
      BY <1>2, <2>3
    <2>7. tracker'[c][s] # NoTracker /\ ~tracker'[c][s].reports /\ tracker'[c][s].pid = p
      BY <2>5, <2>6
    <2> QED
      BY <2>7
  <1> QED
    BY <1>4, <1>5

LEMMA AloneLaunch ==
  ASSUME OneController, AloneInv, NEW c \in Ctl, NEW m \in Modes, Launch(c, m)
  PROVE  SingleInstance' /\ Covered'
  <1>1. what' = what /\ Live' = Live /\ Scan(c)
    BY DEF Launch, Live
  <1>2. SingleInstance'
    BY <1>1 DEF AloneInv, SingleInstance
  <1>3. ASSUME NEW d \in Ctl, NEW p \in Live
        PROVE  CoveredAt(d, p)'
    <2>1. d = c
      BY DEF OneController
    <2>2. what[p] \in Service =>
            /\ tracker'[c][what[p]] # NoTracker
            /\ ~tracker'[c][what[p]].reports
            /\ what[p] # "zygote" => tracker'[c][what[p]].pid = p
      BY <1>1, ScanFinds DEF AloneInv
    <2> QED
      BY <1>1, <2>1, <2>2 DEF CoveredAt
  <1>4. Covered'
    BY <1>1, <1>3 DEF Covered, CoveredAt
  <1> QED
    BY <1>2, <1>4

LEMMA AloneProcExit ==
  ASSUME AloneInv, NEW p \in Pid, ProcExit(p)
  PROVE  SingleInstance' /\ Covered'
  <1>1. \A q \in Live' : q \in Live /\ what'[q] = what[q]
    BY DEF AloneInv, TypeOK, ProcExit, Live
  <1>2. UNCHANGED <<mode, tracker>>
    BY DEF ProcExit
  <1> QED
    BY <1>1, <1>2 DEF AloneInv, SingleInstance, Covered

LEMMA AloneStep == ASSUME OneController PROVE AloneInv /\ [Next]_vars => AloneInv'
  <1> SUFFICES ASSUME AloneInv, [Next]_vars
               PROVE  SingleInstance' /\ Covered'
    BY TypeStep DEF AloneInv
  <1>1. ASSUME NEW p \in Pid, ProcExit(p)
        PROVE  SingleInstance' /\ Covered'
    BY <1>1, AloneProcExit
  <1>2. ASSUME NEW c \in Ctl, Step(c)
        PROVE  SingleInstance' /\ Covered'
    <2>1. ASSUME NEW s \in Service, StartService(c, s)
          PROVE  SingleInstance' /\ Covered'
      BY <2>1, AloneStartService
    <2>2. ASSUME NEW s \in Service, StartFails(c, s)
          PROVE  SingleInstance' /\ Covered'
      <3>1. \A p \in Live : what[p] # s
        BY <2>2, NullMeansNone DEF StartFails, Calling
      <3>2. [pid |-> NoPid, reports |-> TRUE] \in Tracker
        BY DEF Tracker
      <3> QED
        BY <2>2, <3>1, <3>2, AloneTracker DEF StartFails
    <2>3. CASE Stop(c)
      BY <2>3, AloneFrame, AloneVanish DEF Stop, StopServices, StopItself
    <2>4. CASE RunApk(c) \/ RunAM(c)
      <3>1. UNCHANGED <<mode, tracker>>
        BY <2>4 DEF RunApk, RunAM
      <3>2. \/ UNCHANGED what
            \/ \E p \in Pid, w \in {"apk", "am"} : Free(p) /\ what' = [what EXCEPT ![p] = w]
        BY <2>4 DEF RunApk, RunAM
      <3> QED
        BY <3>1, <3>2, AloneFrame, AloneLauncher
    <2>5. CASE (\E s \in Service : AlreadyRunning(c, s)) \/ Quit(c) \/ Ensure(c)
                 \/ Check(c) \/ NoSuchApk(c)
      BY <2>5, AloneFrame DEF AlreadyRunning, Quit, Ensure, Check, NoSuchApk
    <2> QED
      BY <1>2, <2>1, <2>2, <2>3, <2>4, <2>5 DEF Step
  <1>3. ASSUME NEW c \in Ctl, Slots(c)
        PROVE  SingleInstance' /\ Covered'
    <2>1. ASSUME NEW i \in DOMAIN apps[c], AppGone(c, i)
          PROVE  SingleInstance' /\ Covered'
      BY <2>1, AloneFrame DEF AppGone
    <2>2. ASSUME NEW p \in Pid, Finished(c, p)
          PROVE  SingleInstance' /\ Covered'
      BY <2>2, AloneFrame DEF Finished
    <2>3. CASE QuitFires(c)
      BY <2>3, AloneVanish DEF QuitFires, osVars
    <2> QED
      BY <1>3, <2>1, <2>2, <2>3, AloneServiceGone DEF Slots
  <1>4. ASSUME NEW c \in Ctl, User(c) \/ Crash(c)
        PROVE  SingleInstance' /\ Covered'
    <2>1. CASE Click(c) \/ OpenDialog(c) \/ CloseBox(c)
      BY <2>1, AloneFrame DEF Click, OpenDialog, CloseBox
    <2>2. CASE CloseWindow(c) \/ Crash(c)
      BY <2>2, AloneVanish DEF CloseWindow, Crash, osVars
    <2> QED
      BY <1>4, <2>1, <2>2, AloneLaunch DEF User
  <1>5. CASE UNCHANGED vars
    BY <1>5, AloneFrame DEF vars
  <1> QED
    BY <1>1, <1>2, <1>3, <1>4, <1>5 DEF Next, SteadyNext

LEMMA AloneInit == Init => AloneInv
  <1> SUFFICES ASSUME Init PROVE SingleInstance /\ Covered
    BY TypeInit DEF AloneInv
  <1> QED
    BY DEF Init, SingleInstance, Covered, Live

\* As long as one controller runs at a time there is at most one process of each service,
\* and its trackers cover every one there is, across its crashes and restarts: the scan of
\* the constructor and the early returns of startX() fit together.
THEOREM OneProcessPerService ==
  ASSUME OneController PROVE Spec => [](SingleInstance /\ Covered)
  <1>1. AloneInv => SingleInstance /\ Covered
    BY DEF AloneInv
  <1> QED
    BY <1>1, AloneInit, AloneStep, PTL DEF Spec

\* In particular, while it is up its trackers know of every service process, the ones that
\* an earlier controller left behind included: what stop() and the early returns rely on.
THEOREM EveryProcessCovered ==
  ASSUME OneController PROVE Spec => []Covered
  BY OneProcessPerService, PTL

-------------------------------------------------------------------------------
(* stop() *)

LEMMA TailDiffers == ASSUME NEW S, NEW q \in Seq(S), q # <<>> PROVE Tail(q) # q
  OBVIOUS

\* The step of a stop() call is the one that sends the signals.
LEMMA StopCallIsStop ==
  ASSUME OneController, TypeOK, [Next]_vars, NEW c \in Ctl, StopCall(c)
  PROVE  StopServices(c) /\ ~StopKillsGroup(c)
  <1>1. /\ Calling(c, "stop") /\ todo[c] # <<>> /\ Head(todo[c]) = "stop"
        /\ mode[c] # "off" /\ mode'[c] # "off"
    BY DEF StopCall, Calling
  <1>2. todo'[c] # todo[c]
    BY <1>1, TailDiffers DEF StopCall, TypeOK
  <1>3. ~Vanish(c) /\ ~Idle(c)
    BY <1>1 DEF Vanish, Idle, TypeOK
  <1>4. Step(c)
    <2>1. \A d \in Ctl : d = c
      BY DEF OneController
    <2>2. ~UNCHANGED vars /\ \A p \in Pid : ~ProcExit(p)
      BY <1>2 DEF vars, ProcExit
    <2>3. ~Slots(c)
      BY <1>3 DEF Slots, Finished, ServiceGone, AppGone, QuitFires
    <2>4. ~User(c) /\ ~Crash(c)
      BY <1>1, <1>3 DEF User, Launch, Click, OpenDialog, CloseBox, CloseWindow, Clickable, Crash
    <2> QED
      BY <2>1, <2>2, <2>3, <2>4 DEF Next, SteadyNext
  <1>5. Stop(c)
    BY <1>1, <1>4, Names DEF Step, Calling, AlreadyRunning, StartService, StartFails, Quit,
                              Ensure, Check, RunApk, NoSuchApk, RunAM
  <1> QED
    BY <1>3, <1>5 DEF Stop, StopItself

LEMMA StopReaches ==
  ASSUME OneController, AloneInv, [Next]_vars, NEW c \in Ctl, StopCall(c),
         NEW p \in Live, what[p] \in Service \ {"zygote"}
  PROVE  p \in termed'
  <1>1. StopServices(c) /\ ~StopKillsGroup(c)
    BY StopCallIsStop DEF AloneInv
  <1>2. /\ tracker[c][what[p]] # NoTracker
        /\ tracker[c][what[p]].pid = p
    BY DEF AloneInv, Covered, StopCall, Calling
  <1>3. p \in SignalledServices(c)
    BY <1>1, <1>2 DEF SignalledServices, StopKillsGroup, Live
  <1> QED
    BY <1>1, <1>3 DEF StopServices

\* A stop() that comes through signals every service process but a zygote that the
\* constructor mistook, whether this controller started it or found it.
THEOREM StopReachesAll ==
  ASSUME OneController PROVE Spec => StopReachesServices
  <1> DEFINE Reaches(c) == StopCall(c) =>
               \A p \in Live : what[p] \in Service \ {"zygote"} => p \in termed'
  <1>1. AloneInv /\ [Next]_vars => [\A c \in Ctl : Reaches(c)]_vars
    BY StopReaches
  <1>2. StopReachesServices <=> [][\A c \in Ctl : Reaches(c)]_vars
    BY PTL DEF StopReachesServices
  <1> QED
    BY <1>1, <1>2, AloneInit, AloneStep, PTL DEF Spec

-------------------------------------------------------------------------------
(* The order of the starts *)

\* In these calls no zygote comes before a service manager, unless one runs.
Orderly(calls, runs) ==
  \A i \in DOMAIN calls : calls[i] = "zygote" =>
    runs \/ \E j \in 1 .. i - 1 : calls[j] = "servicemanager"

\* What is left of a command line is in order, and outside the graphical mode nothing
\* waits behind a message.
OrderedAt(c) ==
  /\ ~Graphical(c) => boxes[c] = <<>>
  /\ mode[c] \in {"start", "restart", "apk"} =>
       Orderly(todo[c], Running(c, "servicemanager"))

OrderInv == TypeOK /\ \A c \in Ctl : OrderedAt(c)

LEMMA OrderlyTail ==
  ASSUME NEW q \in Seq(Call), q # <<>>, NEW r \in BOOLEAN, NEW now \in BOOLEAN,
         Orderly(q, r), r \/ Head(q) = "servicemanager" => now
  PROVE  Orderly(Tail(q), now)
  <1> SUFFICES ASSUME NEW i \in DOMAIN Tail(q), Tail(q)[i] = "zygote", ~now
               PROVE  \E j \in 1 .. i - 1 : Tail(q)[j] = "servicemanager"
    BY DEF Orderly
  <1>1. /\ i \in Nat /\ i + 1 \in DOMAIN q /\ q[i + 1] = "zygote"
        /\ Head(q) = q[1]
    OBVIOUS
  <1>2. PICK j \in 1 .. i : q[j] = "servicemanager"
    BY <1>1 DEF Orderly
  <1>3. j # 1
    BY <1>1, <1>2
  <1>4. j - 1 \in 1 .. i - 1 /\ Tail(q)[j - 1] = q[j]
    BY <1>1, <1>2, <1>3
  <1> QED
    BY <1>2, <1>4

LEMMA OrderlyConcat ==
  ASSUME NEW a \in Seq(Call), NEW b \in Seq(Call), NEW r \in BOOLEAN,
         Orderly(a, r), Orderly(b, r)
  PROVE  Orderly(a \o b, r)
  <1> SUFFICES ASSUME NEW i \in DOMAIN (a \o b), (a \o b)[i] = "zygote", ~r
               PROVE  \E j \in 1 .. i - 1 : (a \o b)[j] = "servicemanager"
    BY DEF Orderly
  <1>1. CASE i \in DOMAIN a
    <2>1. PICK j \in 1 .. i - 1 : a[j] = "servicemanager"
      BY <1>1 DEF Orderly
    <2>2. (a \o b)[j] = a[j]
      BY <1>1, <2>1
    <2> QED
      BY <2>1, <2>2
  <1>2. CASE i \notin DOMAIN a
    <2>1. i - Len(a) \in DOMAIN b /\ b[i - Len(a)] = "zygote"
      BY <1>2
    <2>2. PICK j \in 1 .. (i - Len(a)) - 1 : b[j] = "servicemanager"
      BY <2>1 DEF Orderly
    <2>3. j + Len(a) \in 1 .. i - 1 /\ (a \o b)[j + Len(a)] = b[j]
      BY <2>1, <2>2
    <2> QED
      BY <2>2, <2>3
  <1> QED
    BY <1>1, <1>2

LEMMA OrderlyWithout ==
  ASSUME NEW q, NEW r \in BOOLEAN, \A i \in DOMAIN q : q[i] # "zygote"
  PROVE  Orderly(q, r)
  BY DEF Orderly

LEMMA FirstStays ==
  ASSUME NEW m \in Seq(Call), m # <<>>, NEW x \in Seq(Call)
  PROVE  m \o x \in Seq(Call) /\ m \o x # <<>> /\ (m \o x)[1] = m[1]
  OBVIOUS

\* start() begins with the service manager.
LEMMA StartOrderOrderly ==
  ASSUME "servicemanager" \in Service, NEW r \in BOOLEAN
  PROVE  Orderly(StartOrder, r) /\ Orderly(Restart, r)
  <1>1. StartOrder[1] = "servicemanager" /\ StartOrder \in Seq(Call)
    <2>1. Present("servicemanager") = <<"servicemanager">>
      BY DEF Present
    <2>2. PICK m, i, s, z, a :
            /\ m = <<"servicemanager">>
            /\ i = Present("installd") /\ s = Present("surfaceflinger")
            /\ z = Present("zygote") /\ a = Present("adbd")
      OBVIOUS
    <2>3. /\ i \in Seq(Call) /\ s \in Seq(Call) /\ z \in Seq(Call) /\ a \in Seq(Call)
      BY <2>2, PresentType
    <2>4. m \in Seq(Call) /\ m # <<>> /\ m[1] = "servicemanager"
      BY <2>2 DEF Call
    <2>5. PICK x \in Seq(Call) : x = m \o i /\ x # <<>> /\ x[1] = "servicemanager"
      BY <2>3, <2>4, FirstStays
    <2>6. PICK y \in Seq(Call) : y = x \o s /\ y # <<>> /\ y[1] = "servicemanager"
      BY <2>3, <2>5, FirstStays
    <2>7. PICK v \in Seq(Call) : v = y \o z /\ v # <<>> /\ v[1] = "servicemanager"
      BY <2>3, <2>6, FirstStays
    <2>8. v \o a \in Seq(Call) /\ (v \o a)[1] = "servicemanager"
      BY <2>3, <2>7, FirstStays
    <2>9. StartOrder = v \o a
      BY <2>1, <2>2, <2>5, <2>6, <2>7 DEF StartOrder
    <2> QED
      BY <2>8, <2>9
  <1>2. Orderly(StartOrder, r)
    <2>1. StartOrder[1] = "servicemanager" /\ DOMAIN StartOrder \subseteq Nat \ {0}
      BY <1>1
    <2>2. ASSUME NEW i \in DOMAIN StartOrder, StartOrder[i] = "zygote"
          PROVE  1 \in 1 .. i - 1
      BY <2>1, <2>2
    <2> QED
      BY <2>1, <2>2 DEF Orderly
  <1>3. Orderly(<<"stop">>, r)
    BY OrderlyWithout
  <1>4. <<"stop">> \in Seq(Call)
    BY DEF Call
  <1> QED
    BY <1>2, <1>3, <1>4, StartOrderType, OrderlyConcat DEF Restart

LEMMA CallsOrderly ==
  ASSUME "servicemanager" \in Service, NEW r \in BOOLEAN, NEW m \in {"start", "restart", "apk"}
  PROVE  Orderly(Calls(m), r)
  <1>a. {"apk", "am", "start", "restart", "stop"} \cap Service = {}
    BY ServiceAssumption DEF AllServices
  <1>1. CASE m = "apk"
    <2>1. Calls(m) = <<"ensure", "check", "apk">>
      BY <1>a, <1>1 DEF Calls
    <2> QED
      BY <2>1, OrderlyWithout
  <1>2. CASE m = "start"
    BY <1>a, <1>2, StartOrderOrderly DEF Calls
  <1>3. CASE m = "restart"
    BY <1>a, <1>3, StartOrderOrderly DEF Calls
  <1> QED
    BY <1>1, <1>2, <1>3

LEMMA AftermathOrderly ==
  ASSUME NEW role, NEW r \in BOOLEAN
  PROVE  Orderly(Aftermath(role), r)
  <1>1. Aftermath(role) \in {<<"stop", "quit">>, <<"quit">>, <<>>}
    BY DEF Aftermath
  <1> QED
    BY <1>1, OrderlyWithout

\* What another controller has left is its own business.
LEMMA OrderedOthers ==
  ASSUME NEW d \in Ctl, OrderedAt(d), mode'[d] = mode[d], boxes'[d] = boxes[d],
         todo'[d] = todo[d], tracker'[d] = tracker[d]
  PROVE  OrderedAt(d)'
  BY DEF OrderedAt, Graphical, Running

LEMMA OrderedVanish ==
  ASSUME OrderInv, NEW c \in Ctl, Vanish(c)
  PROVE  \A d \in Ctl : OrderedAt(d)'
  <1>1. boxes'[c] = <<>> /\ mode'[c] = "off"
    BY DEF OrderInv, TypeOK, Vanish
  <1>2. OrderedAt(c)'
    BY <1>1 DEF OrderedAt
  <1>3. ASSUME NEW d \in Ctl, d # c PROVE OrderedAt(d)'
    <2>1. /\ mode'[d] = mode[d] /\ boxes'[d] = boxes[d]
          /\ todo'[d] = todo[d] /\ tracker'[d] = tracker[d]
      BY <1>3 DEF OrderInv, TypeOK, Vanish
    <2> QED
      BY <2>1, OrderedOthers DEF OrderInv
  <1> QED
    BY <1>2, <1>3

\* A controller goes on with calls that are in order.
LEMMA OrderedResume ==
  ASSUME OrderInv, NEW c \in Ctl, NEW calls \in Seq(Call), Resume(c, calls),
         mode'[c] \in {"start", "restart", "apk"} =>
           Orderly(calls, Running(c, "servicemanager")'),
         ~Graphical(c)' => ~Graphical(c),
         \A d \in Ctl \ {c} : mode'[d] = mode[d] /\ tracker'[d] = tracker[d]
  PROVE  \A d \in Ctl : OrderedAt(d)'
  <1>1. boxes' = boxes /\ todo' = [todo EXCEPT ![c] = calls] /\ todo'[c] = calls
    BY DEF OrderInv, TypeOK, Resume
  <1>2. OrderedAt(c)'
    BY <1>1 DEF OrderInv, OrderedAt
  <1>3. ASSUME NEW d \in Ctl, d # c PROVE OrderedAt(d)'
    <2>1. /\ mode'[d] = mode[d] /\ boxes'[d] = boxes[d]
          /\ todo'[d] = todo[d] /\ tracker'[d] = tracker[d]
      BY <1>1, <1>3 DEF OrderInv, TypeOK
    <2> QED
      BY <2>1, OrderedOthers DEF OrderInv
  <1> QED
    BY <1>2, <1>3

\* A call returns: the service manager it started, if that was it, runs.
LEMMA OrderedReturn ==
  ASSUME OrderInv, NEW c \in Ctl, todo[c] # <<>>, Return(c), UNCHANGED mode,
         Running(c, "servicemanager") \/ Head(todo[c]) = "servicemanager"
           => Running(c, "servicemanager")',
         \A d \in Ctl \ {c} : tracker'[d] = tracker[d]
  PROVE  \A d \in Ctl : OrderedAt(d)'
  <1>1. todo[c] \in Seq(Call) /\ Tail(todo[c]) \in Seq(Call)
    BY HeadTailType DEF OrderInv, TypeOK
  <1>2. Resume(c, Tail(todo[c]))
    BY DEF Return
  <1>3. Running(c, "servicemanager") \in BOOLEAN /\ Running(c, "servicemanager")' \in BOOLEAN
    BY DEF Running
  <1>4. mode'[c] \in {"start", "restart", "apk"} =>
          Orderly(Tail(todo[c]), Running(c, "servicemanager")')
    <2> SUFFICES ASSUME mode'[c] \in {"start", "restart", "apk"}
                 PROVE  Orderly(Tail(todo[c]), Running(c, "servicemanager")')
      OBVIOUS
    <2>1. Orderly(todo[c], Running(c, "servicemanager"))
      BY DEF OrderInv, OrderedAt
    <2> QED
      BY <1>1, <1>3, <2>1, OrderlyTail
  <1>5. Graphical(c)' <=> Graphical(c)
    BY DEF Graphical
  <1> QED
    BY <1>1, <1>2, <1>4, <1>5, OrderedResume

LEMMA OrderedStart ==
  ASSUME OrderInv, NEW c \in Ctl, NEW s \in Service,
         AlreadyRunning(c, s) \/ StartService(c, s) \/ StartFails(c, s)
  PROVE  \A d \in Ctl : OrderedAt(d)'
  <1>1. todo[c] # <<>> /\ Head(todo[c]) = s /\ todo[c] \in Seq(Call) /\ UNCHANGED mode
    BY DEF AlreadyRunning, StartService, StartFails, Calling, OrderInv, TypeOK
  <1>2. CASE StartService(c, s) \/ StartFails(c, s)
    <2>1. \E p \in Pid \cup {NoPid} :
            tracker' = [tracker EXCEPT ![c][s] = [pid |-> p, reports |-> TRUE]]
      BY <1>2 DEF StartService, StartFails
    <2>2. \A p \in Pid \cup {NoPid} : [pid |-> p, reports |-> TRUE] # NoTracker
      <3>1. \A p \in Pid \cup {NoPid} : [pid |-> p, reports |-> TRUE] \in Tracker
        BY DEF Tracker
      <3> QED
        BY <3>1, NoTrackerAssumption
    <2>3. /\ tracker'[c][s] # NoTracker
          /\ \A t \in Service \ {s} : tracker'[c][t] = tracker[c][t]
          /\ \A d \in Ctl \ {c} : tracker'[d] = tracker[d]
      BY <2>1, <2>2 DEF OrderInv, TypeOK
    <2>4. Running(c, "servicemanager") \/ s = "servicemanager" => Running(c, "servicemanager")'
      BY <2>3 DEF Running
    <2>5. Return(c)
      BY <1>2 DEF StartService, StartFails
    <2> QED
      BY <1>1, <2>3, <2>4, <2>5, OrderedReturn
  <1>3. CASE AlreadyRunning(c, s)
    <2>1. tracker' = tracker /\ tracker[c][s] # NoTracker
      BY <1>3 DEF AlreadyRunning
    <2>2. s = "servicemanager" => Running(c, "servicemanager")
      BY <2>1 DEF Running
    <2>3. Running(c, "servicemanager")' <=> Running(c, "servicemanager")
      BY <2>1 DEF Running
    <2>4. CASE Return(c)
      BY <1>1, <2>1, <2>2, <2>3, <2>4, OrderedReturn
    <2>5. CASE Report(c, <<"quit">> \o Tail(todo[c])) /\ s = "servicemanager"
      <3> DEFINE calls == <<"quit">> \o Tail(todo[c])
      <3>1. calls \in Seq(Call)
        BY <1>1, HeadTailType DEF Call
      <3>2. Orderly(calls, TRUE)
        BY DEF Orderly
      <3>3. CASE Graphical(c)
        <4>1. Open(c, calls) /\ Graphical(c)' /\ mode'[c] \in {"gui", "adbd"}
          BY <1>1, <2>5, <3>3 DEF Report, Graphical
        <4>2. OrderedAt(c)'
          BY <4>1 DEF OrderedAt
        <4>3. ASSUME NEW d \in Ctl, d # c PROVE OrderedAt(d)'
          <5>1. /\ mode'[d] = mode[d] /\ boxes'[d] = boxes[d]
                /\ todo'[d] = todo[d] /\ tracker'[d] = tracker[d]
            BY <1>1, <2>1, <4>1, <4>3 DEF OrderInv, TypeOK, Open
          <5> QED
            BY <5>1, OrderedOthers DEF OrderInv
        <4> QED
          BY <4>2, <4>3
      <3>4. CASE ~Graphical(c)
        <4>1. Resume(c, calls)
          BY <2>5, <3>4 DEF Report
        <4>2. Running(c, "servicemanager")' = TRUE
          BY <2>2, <2>3, <2>5 DEF Running
        <4> HIDE DEF calls
        <4> QED
          BY <1>1, <2>1, <3>1, <3>2, <3>4, <4>1, <4>2, OrderedResume
      <3> QED
        BY <3>3, <3>4
    <2> QED
      BY <1>3, <2>4, <2>5 DEF AlreadyRunning
  <1> QED
    BY <1>2, <1>3

LEMMA OrderedStop ==
  ASSUME OrderInv, NEW c \in Ctl, Stop(c)
  PROVE  \A d \in Ctl : OrderedAt(d)'
  <1>1. CASE StopItself(c)
    BY <1>1, OrderedVanish DEF StopItself
  <1>2. CASE StopServices(c)
    <2>1. todo[c] # <<>> /\ Head(todo[c]) = "stop"
      BY DEF Stop, Calling
    <2>2. Return(c) /\ UNCHANGED <<mode, tracker>>
      BY <1>2 DEF StopServices
    <2>3. Running(c, "servicemanager")' <=> Running(c, "servicemanager")
      BY <2>2 DEF Running
    <2> QED
      BY <2>1, <2>2, <2>3, OrderedReturn
  <1> QED
    BY <1>1, <1>2 DEF Stop

LEMMA OrderedOtherCalls ==
  ASSUME OrderInv, NEW c \in Ctl, "servicemanager" \in Service,
         Quit(c) \/ Ensure(c) \/ Check(c) \/ RunApk(c) \/ NoSuchApk(c) \/ RunAM(c)
  PROVE  \A d \in Ctl : OrderedAt(d)'
  <1>1. /\ todo[c] # <<>> /\ todo[c] \in Seq(Call) /\ UNCHANGED <<mode, tracker>>
        /\ Head(todo[c]) \in {"quit", "ensure", "check", "apk", "am"}
    BY DEF OrderInv, TypeOK, Quit, Ensure, Check, RunApk, NoSuchApk, RunAM, Calling
  <1>2. /\ Running(c, "servicemanager")' <=> Running(c, "servicemanager")
        /\ Running(c, "servicemanager") \in BOOLEAN
    BY <1>1 DEF Running
  <1>3. CASE Return(c)
    BY <1>1, <1>2, <1>3, OrderedReturn
  <1>4. CASE Resume(c, Restart \o Tail(todo[c]))
    <2>1. Tail(todo[c]) \in Seq(Call) /\ Restart \o Tail(todo[c]) \in Seq(Call)
      BY <1>1, HeadTailType, RestartType
    <2>2. ASSUME mode[c] \in {"start", "restart", "apk"}
          PROVE  Orderly(Restart \o Tail(todo[c]), Running(c, "servicemanager"))
      <3>1. Orderly(todo[c], Running(c, "servicemanager"))
        BY <2>2 DEF OrderInv, OrderedAt
      <3>2. Orderly(Tail(todo[c]), Running(c, "servicemanager"))
        BY <1>1, <1>2, <3>1, OrderlyTail
      <3>3. Orderly(Restart, Running(c, "servicemanager"))
        BY <1>2, StartOrderOrderly
      <3> QED
        BY <1>2, <2>1, <3>2, <3>3, RestartType, OrderlyConcat
    <2>3. Orderly(Restart \o Tail(todo[c]), Running(c, "servicemanager"))
            <=> Orderly(Restart \o Tail(todo[c]), Running(c, "servicemanager")')
      BY <1>2 DEF Orderly
    <2>4. Graphical(c)' <=> Graphical(c)
      BY <1>1 DEF Graphical
    <2> QED
      BY <1>1, <1>4, <2>1, <2>2, <2>3, <2>4, OrderedResume
  <1> QED
    BY <1>3, <1>4 DEF Quit, Ensure, Check, RunApk, NoSuchApk, RunAM

\* Trackers are dropped in the event loop alone, when no call is left.
LEMMA OrderedSlots ==
  ASSUME OrderInv, NEW c \in Ctl, Slots(c)
  PROVE  \A d \in Ctl : OrderedAt(d)'
  <1>1. ASSUME NEW p \in Pid, Finished(c, p)
        PROVE  \A d \in Ctl : OrderedAt(d)'
    <2> DEFINE calls == Aftermath(child[c][p])
    <2>1. calls \in Seq(Call) /\ Orderly(calls, Running(c, "servicemanager")')
      <3>1. Running(c, "servicemanager")' \in BOOLEAN
        BY DEF Running
      <3> QED
        BY <3>1, AftermathType, AftermathOrderly
    <2>2. UNCHANGED <<mode, tracker>> /\ (Graphical(c)' <=> Graphical(c))
      BY <1>1 DEF Finished, Graphical
    <2>3. CASE Resume(c, calls)
      <3> HIDE DEF calls
      <3> QED
        BY <2>1, <2>2, <2>3, OrderedResume
    <2>4. CASE Graphical(c) /\ Open(c, calls)
      <3>1. mode'[c] \in {"gui", "adbd"}
        BY <2>2, <2>4 DEF Graphical
      <3>2. OrderedAt(c)'
        BY <3>1 DEF OrderedAt, Graphical
      <3>3. ASSUME NEW d \in Ctl, d # c PROVE OrderedAt(d)'
        <4>1. /\ mode'[d] = mode[d] /\ boxes'[d] = boxes[d]
              /\ todo'[d] = todo[d] /\ tracker'[d] = tracker[d]
          BY <2>2, <2>4, <3>3 DEF OrderInv, TypeOK, Open
        <4> QED
          BY <4>1, OrderedOthers DEF OrderInv
      <3> QED
        BY <3>2, <3>3
    <2> QED
      BY <1>1, <2>3, <2>4 DEF Finished, Report
  <1>2. ASSUME NEW s \in Service, ServiceGone(c, s)
        PROVE  \A d \in Ctl : OrderedAt(d)'
    <2>1. /\ todo[c] = <<>> /\ UNCHANGED <<mode, boxes, todo>>
          /\ \A d \in Ctl \ {c} : tracker'[d] = tracker[d]
      BY <1>2 DEF ServiceGone, Idle, OrderInv, TypeOK
    <2>2. OrderedAt(c)'
      BY <2>1 DEF OrderInv, OrderedAt, Graphical, Orderly
    <2>3. ASSUME NEW d \in Ctl, d # c PROVE OrderedAt(d)'
      BY <2>1, <2>3, OrderedOthers DEF OrderInv
    <2> QED
      BY <2>2, <2>3
  <1>3. ASSUME NEW i \in DOMAIN apps[c], AppGone(c, i)
        PROVE  \A d \in Ctl : OrderedAt(d)'
    BY <1>3, OrderedOthers DEF AppGone, OrderInv
  <1>4. CASE QuitFires(c)
    BY <1>4, OrderedVanish DEF QuitFires
  <1> QED
    BY <1>1, <1>2, <1>3, <1>4 DEF Slots

LEMMA OrderedUser ==
  ASSUME OrderInv, NEW c \in Ctl, "servicemanager" \in Service, User(c)
  PROVE  \A d \in Ctl : OrderedAt(d)'
  <1>1. ASSUME NEW m \in Modes, Launch(c, m)
        PROVE  \A d \in Ctl : OrderedAt(d)'
    <2>1. Resume(c, Calls(m)) /\ mode[c] = "off" /\ mode'[c] = m
      BY <1>1 DEF Launch, OrderInv, TypeOK
    <2>2. \A d \in Ctl \ {c} : mode'[d] = mode[d] /\ tracker'[d] = tracker[d]
      BY <1>1 DEF Launch, Scan, OrderInv, TypeOK
    <2>3. ~Graphical(c)
      BY <2>1 DEF Graphical
    <2>4. Running(c, "servicemanager")' \in BOOLEAN
      BY DEF Running
    <2>5. mode'[c] \in {"start", "restart", "apk"} =>
            Orderly(Calls(m), Running(c, "servicemanager")')
      BY <2>1, <2>4, CallsOrderly
    <2> QED
      BY <2>1, <2>2, <2>3, <2>5, CallsType, OrderedResume
  <1>2. CASE Click(c) \/ OpenDialog(c)
    <2>1. mode[c] = "gui" /\ UNCHANGED <<mode, tracker>>
      BY <1>2 DEF Click, OpenDialog, Clickable
    <2>2. OrderedAt(c)'
      BY <2>1 DEF OrderedAt, Graphical
    <2>3. ASSUME NEW d \in Ctl, d # c PROVE OrderedAt(d)'
      <3>1. /\ mode'[d] = mode[d] /\ boxes'[d] = boxes[d]
            /\ todo'[d] = todo[d] /\ tracker'[d] = tracker[d]
        BY <1>2, <2>1, <2>3 DEF Click, OpenDialog, Resume, Open, OrderInv, TypeOK
      <3> QED
        BY <3>1, OrderedOthers DEF OrderInv
    <2> QED
      BY <2>2, <2>3
  <1>3. CASE CloseBox(c)
    <2>1. boxes[c] # <<>> /\ UNCHANGED <<mode, tracker>>
      BY <1>3 DEF CloseBox
    <2>2. Graphical(c)
      BY <2>1 DEF OrderInv, OrderedAt
    <2>3. OrderedAt(c)'
      BY <2>1, <2>2 DEF OrderedAt, Graphical
    <2>4. ASSUME NEW d \in Ctl, d # c PROVE OrderedAt(d)'
      <3>1. /\ mode'[d] = mode[d] /\ boxes'[d] = boxes[d]
            /\ todo'[d] = todo[d] /\ tracker'[d] = tracker[d]
        BY <1>3, <2>1, <2>4 DEF CloseBox, OrderInv, TypeOK
      <3> QED
        BY <3>1, OrderedOthers DEF OrderInv
    <2> QED
      BY <2>3, <2>4
  <1>4. CASE CloseWindow(c)
    BY <1>4, OrderedVanish DEF CloseWindow
  <1> QED
    BY <1>1, <1>2, <1>3, <1>4 DEF User

LEMMA OrderStep == ASSUME "servicemanager" \in Service PROVE OrderInv /\ [Next]_vars => OrderInv'
  <1> SUFFICES ASSUME OrderInv, [Next]_vars PROVE \A d \in Ctl : OrderedAt(d)'
    BY TypeStep DEF OrderInv
  <1>1. ASSUME NEW p \in Pid, ProcExit(p)
        PROVE  \A d \in Ctl : OrderedAt(d)'
    BY <1>1, OrderedOthers DEF ProcExit, OrderInv
  <1>2. ASSUME NEW c \in Ctl, Step(c)
        PROVE  \A d \in Ctl : OrderedAt(d)'
    BY <1>2, OrderedStart, OrderedStop, OrderedOtherCalls DEF Step
  <1>3. ASSUME NEW c \in Ctl, Slots(c)
        PROVE  \A d \in Ctl : OrderedAt(d)'
    BY <1>3, OrderedSlots
  <1>4. ASSUME NEW c \in Ctl, User(c)
        PROVE  \A d \in Ctl : OrderedAt(d)'
    BY <1>4, OrderedUser
  <1>5. ASSUME NEW c \in Ctl, Crash(c)
        PROVE  \A d \in Ctl : OrderedAt(d)'
    BY <1>5, OrderedVanish DEF Crash
  <1>6. CASE UNCHANGED vars
    BY <1>6, OrderedOthers DEF vars, OrderInv
  <1> QED
    BY <1>1, <1>2, <1>3, <1>4, <1>5, <1>6 DEF Next, SteadyNext

LEMMA OrderInit == Init => OrderInv
  <1> SUFFICES ASSUME Init, NEW c \in Ctl PROVE OrderedAt(c)
    BY TypeInit DEF OrderInv
  <1> QED
    BY DEF Init, OrderedAt

\* Only startZygote() makes a process of the zygote the controller's own.
LEMMA ZygoteStarts ==
  ASSUME TypeOK, NEW c \in Ctl, NEW p \in Pid, Next,
         child[c][p] # "zygote", child'[c][p] = "zygote"
  PROVE  Calling(c, "zygote")
  <1>1. ASSUME NEW d \in Ctl, NEW s \in Service, StartService(d, s) \/ StartFails(d, s)
        PROVE  Calling(c, "zygote")
    <2>1. Calling(d, s)
      BY <1>1 DEF StartService, StartFails
    <2>2. \/ child' = [child EXCEPT ![d] = Disowned(d, s)]
          \/ \E q \in Pid : child' = [child EXCEPT ![d] = [Disowned(d, s) EXCEPT ![q] = s]]
      BY <1>1 DEF StartService, StartFails
    <2>3. Disowned(d, s)[p] \in {child[d][p], "unknown"}
      BY DEF Disowned
    <2>4. d = c
      BY <2>2 DEF TypeOK
    <2>5. child'[c][p] \in {Disowned(c, s)[p], s}
      <3>1. CASE child' = [child EXCEPT ![d] = Disowned(d, s)]
        BY <2>4, <3>1 DEF TypeOK
      <3>2. ASSUME NEW q \in Pid,
                   child' = [child EXCEPT ![d] = [Disowned(d, s) EXCEPT ![q] = s]]
            PROVE  child'[c][p] \in {Disowned(c, s)[p], s}
        <4>1. child'[c] = [Disowned(c, s) EXCEPT ![q] = s]
          BY <2>4, <3>2 DEF TypeOK
        <4>2. DOMAIN Disowned(c, s) = Pid
          BY DEF Disowned
        <4> QED
          BY <4>1, <4>2
      <3> QED
        BY <2>2, <3>1, <3>2
    <2>6. s = "zygote"
      BY <2>3, <2>4, <2>5
    <2> QED
      BY <2>1, <2>4, <2>6
  <1>2. ASSUME NEW d \in Ctl,
               \/ \E s \in Service : AlreadyRunning(d, s)
               \/ Stop(d) \/ Quit(d) \/ Ensure(d) \/ Check(d) \/ NoSuchApk(d)
               \/ Slots(d) \/ User(d) \/ Crash(d)
        PROVE  FALSE
    <2>1. \/ UNCHANGED child
          \/ Vanish(d)
          \/ \E q \in Pid : child' = [child EXCEPT ![d][q] = "none"]
      BY <1>2 DEF AlreadyRunning, Stop, StopServices, StopItself, Quit, Ensure, Check,
                  NoSuchApk, Slots, Finished, ServiceGone, AppGone, QuitFires, User,
                  Launch, Click, OpenDialog, CloseBox, CloseWindow, Crash
    <2>2. CASE Vanish(d)
      BY <2>2 DEF Vanish, TypeOK
    <2>3. ASSUME NEW q \in Pid, child' = [child EXCEPT ![d][q] = "none"]
          PROVE  FALSE
      BY <2>3 DEF TypeOK
    <2> QED
      BY <2>1, <2>2, <2>3
  <1>3. ASSUME NEW d \in Ctl, RunApk(d) \/ RunAM(d)
        PROVE  FALSE
    <2>1. child' = child \/ \E q \in Pid, a \in {"apk", "am"} :
                              child' = [child EXCEPT ![d][q] = a]
      BY <1>3, PidAssumption DEF RunApk, RunAM
    <2>2. ASSUME NEW q \in Pid, NEW a \in {"apk", "am"},
                 child' = [child EXCEPT ![d][q] = a]
          PROVE  FALSE
      BY <2>2 DEF TypeOK
    <2> QED
      BY <2>1, <2>2
  <1>4. ASSUME NEW q \in Pid, ProcExit(q)
        PROVE  FALSE
    BY <1>4 DEF ProcExit
  <1> QED
    BY <1>1, <1>2, <1>3, <1>4 DEF Next, SteadyNext, Step

\* Outside the graphical mode no zygote is started before the service manager of the
\* same command line was, whatever else start(), restart() and the restart for an apk
\* find running, and whatever ends or fails meanwhile.
THEOREM ZygoteAfterServiceManager == Spec => StartOrderKept
  <1> DEFINE Kept == \A c \in Ctl :
               mode[c] \in {"start", "restart", "apk"} /\ "servicemanager" \in Service
               /\ (\E p \in Pid : child[c][p] # "zygote" /\ child'[c][p] = "zygote")
               => Running(c, "servicemanager")
  <1>1. CASE "servicemanager" \in Service
    <2>1. OrderInv /\ [Next]_vars => [Kept]_vars
      <3> SUFFICES ASSUME OrderInv, Next, NEW c \in Ctl, NEW p \in Pid,
                          mode[c] \in {"start", "restart", "apk"},
                          child[c][p] # "zygote", child'[c][p] = "zygote"
                   PROVE  Running(c, "servicemanager")
        OBVIOUS
      <3>1. todo[c] # <<>> /\ Head(todo[c]) = "zygote" /\ todo[c] \in Seq(Call)
        BY ZygoteStarts DEF OrderInv, TypeOK, Calling
      <3>2. 1 \in DOMAIN todo[c] /\ todo[c][1] = "zygote"
        BY <3>1
      <3>3. Orderly(todo[c], Running(c, "servicemanager"))
        BY DEF OrderInv, OrderedAt
      <3> QED
        BY <3>2, <3>3 DEF Orderly
    <2>2. OrderInv /\ [Next]_vars => OrderInv'
      BY <1>1, OrderStep
    <2> QED
      BY <2>1, <2>2, OrderInit, PTL DEF Spec, StartOrderKept
  <1>2. CASE "servicemanager" \notin Service
    <2>1. [Next]_vars => [Kept]_vars
      BY <1>2
    <2> QED
      BY <2>1, PTL DEF Spec, StartOrderKept
  <1> QED
    BY <1>1, <1>2
===============================================================================
