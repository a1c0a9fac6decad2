--------------------------- MODULE ControllerRefines ---------------------------
(* Controller implements ServiceLifecycle, for every value of its constants. *)
EXTENDS ControllerProofs

\* A process has one parent at most.
OneParent ==
  \A c, d \in Ctl, p \in Pid : child[c][p] # "none" /\ child[d][p] # "none" => c = d

\* No controller: no trackers.
OffNull == \A c \in Ctl : mode[c] = "off" => \A s \in Service : tracker[c][s] = NoTracker

ParentInv == OwnInv /\ OneParent /\ OffNull

LEMMA ParentFrame ==
  ASSUME ParentInv, UNCHANGED <<mode, tracker, child>>
  PROVE  OneParent' /\ OffNull'
  BY DEF ParentInv, OneParent, OffNull

LEMMA ParentVanish ==
  ASSUME ParentInv, NEW c \in Ctl, Vanish(c)
  PROVE  OneParent' /\ OffNull'
  <1>1. /\ \A p \in Pid : child'[c][p] = "none"
        /\ \A s \in Service : tracker'[c][s] = NoTracker
        /\ \A d \in Ctl \ {c} : child'[d] = child[d] /\ tracker'[d] = tracker[d] /\ mode'[d] = mode[d]
    BY DEF ParentInv, OwnInv, TypeOK, Vanish
  <1>2. OneParent'
    BY <1>1 DEF ParentInv, OneParent
  <1>3. OffNull'
    BY <1>1 DEF ParentInv, OffNull
  <1> QED
    BY <1>2, <1>3

\* A step of a running controller that enters at most a free process p for report.
LEMMA ParentStart ==
  ASSUME ParentInv, NEW c \in Ctl, mode[c] # "off", mode' = mode,
         \A d \in Ctl \ {c} : child'[d] = child[d] /\ tracker'[d] = tracker[d],
         \A q \in Pid : child'[c][q] # "none" => child[c][q] # "none" \/ Free(q)
  PROVE  OneParent' /\ OffNull'
  <1>1. OneParent'
    <2> SUFFICES ASSUME NEW d \in Ctl, NEW e \in Ctl, NEW p \in Pid,
                        child'[d][p] # "none", child'[e][p] # "none", d # e
                 PROVE  FALSE
      BY DEF OneParent
    <2>1. CASE d # c /\ e # c
      BY <2>1 DEF ParentInv, OneParent
    <2>2. CASE d = c /\ e # c
      BY <2>2 DEF ParentInv, OneParent, Free
    <2>3. CASE e = c /\ d # c
      BY <2>3 DEF ParentInv, OneParent, Free
    <2> QED
      BY <2>1, <2>2, <2>3
  <1>2. OffNull'
    BY DEF ParentInv, OffNull
  <1> QED
    BY <1>1, <1>2

LEMMA ParentStep == ParentInv /\ [Next]_vars => ParentInv'
  <1> SUFFICES ASSUME ParentInv, [Next]_vars
               PROVE  OneParent' /\ OffNull'
    BY OwnStep DEF ParentInv
  <1>0. /\ what \in [Pid -> Program \cup {"none"}]
        /\ mode \in [Ctl -> Modes \cup {"off"}]
        /\ child \in [Ctl -> [Pid -> Program \cup {"unknown", "none"}]]
        /\ tracker \in [Ctl -> [Service -> ServiceTracker \cup {NoTracker}]]
    BY DEF ParentInv, OwnInv, TypeOK
  <1>1. ASSUME NEW p \in Pid, ProcExit(p)
        PROVE  OneParent' /\ OffNull'
    BY <1>1, ParentFrame DEF ProcExit
  <1>2. ASSUME NEW c \in Ctl, Step(c)
        PROVE  OneParent' /\ OffNull'
    <2>1. ASSUME NEW s \in Service, StartService(c, s)
          PROVE  OneParent' /\ OffNull'
      <3>1. PICK p \in Pid :
              /\ Free(p)
              /\ child' = [child EXCEPT ![c] = [Disowned(c, s) EXCEPT ![p] = s]]
              /\ tracker' = [tracker EXCEPT ![c][s] = [pid |-> p, reports |-> TRUE]]
        BY <2>1 DEF StartService
      <3>2. \A q \in Pid : child'[c][q] # "none" => child[c][q] # "none" \/ Free(q)
        BY <1>0, <3>1, Names DEF Disowned
      <3>3. \A d \in Ctl \ {c} : child'[d] = child[d] /\ tracker'[d] = tracker[d]
        BY <1>0, <3>1
      <3> QED
        BY <2>1, <3>2, <3>3, ParentStart DEF StartService, Calling
    <2>2. ASSUME NEW s \in Service, StartFails(c, s)
          PROVE  OneParent' /\ OffNull'
      <3>1. \A q \in Pid : child'[c][q] # "none" => child[c][q] # "none"
        BY <1>0, <2>2, Names DEF StartFails, Disowned
      <3>2. \A d \in Ctl \ {c} : child'[d] = child[d] /\ tracker'[d] = tracker[d]
        BY <1>0, <2>2 DEF StartFails
      <3> QED
        BY <2>2, <3>1, <3>2, ParentStart DEF StartFails, Calling
    <2>3. CASE Stop(c)
      BY <2>3, ParentFrame, ParentVanish DEF Stop, StopServices, StopItself
    <2>4. CASE RunApk(c) \/ RunAM(c)
      <3>1. mode[c] # "off" /\ UNCHANGED <<mode, tracker>>
        BY <2>4 DEF RunApk, RunAM, Calling
      <3>2. \/ UNCHANGED child
            \/ \E p \in Pid, w \in {"apk", "am"} :
                 Free(p) /\ child' = [child EXCEPT ![c][p] = w]
        BY <2>4 DEF RunApk, RunAM
      <3>3. /\ \A q \in Pid : child'[c][q] # "none" => child[c][q] # "none" \/ Free(q)
            /\ \A d \in Ctl \ {c} : child'[d] = child[d]
        BY <1>0, <3>2
      <3> QED
        BY <3>1, <3>3, ParentStart
    <2>5. CASE (\E s \in Service : AlreadyRunning(c, s)) \/ Quit(c) \/ Ensure(c)
                 \/ Check(c) \/ NoSuchApk(c)
      BY <2>5, ParentFrame DEF AlreadyRunning, Quit, Ensure, Check, NoSuchApk
    <2> QED
      BY <1>2, <2>1, <2>2, <2>3, <2>4, <2>5 DEF Step
  <1>3. ASSUME NEW c \in Ctl, Slots(c)
        PROVE  OneParent' /\ OffNull'
    <2>1. ASSUME NEW i \in DOMAIN apps[c], AppGone(c, i)
          PROVE  OneParent' /\ OffNull'
      BY <2>1, ParentFrame DEF AppGone
    <2>2. ASSUME NEW p \in Pid, Finished(c, p)
          PROVE  OneParent' /\ OffNull'
      <3>1. /\ \A q \in Pid : child'[c][q] # "none" => child[c][q] # "none"
            /\ \A d \in Ctl \ {c} : child'[d] = child[d]
        BY <1>0, <2>2 DEF Finished
      <3> QED
        BY <2>2, <3>1, ParentStart DEF Finished, Idle
    <2>3. ASSUME NEW s \in Service, ServiceGone(c, s)
          PROVE  OneParent' /\ OffNull'
      <3>1. \A d \in Ctl \ {c} : tracker'[d] = tracker[d]
        BY <1>0, <2>3 DEF ServiceGone
      <3> QED
        BY <2>3, <3>1, ParentStart DEF ServiceGone, Idle
    <2>4. CASE QuitFires(c)
      BY <2>4, ParentVanish DEF QuitFires
    <2> QED
      BY <1>3, <2>1, <2>2, <2>3, <2>4 DEF Slots
  <1>4. ASSUME NEW c \in Ctl, User(c) \/ Crash(c)
        PROVE  OneParent' /\ OffNull'
    <2>1. ASSUME NEW m \in Modes, Launch(c, m)
          PROVE  OneParent' /\ OffNull'
      <3>1. /\ child' = child /\ mode'[c] # "off"
            /\ \A d \in Ctl \ {c} : tracker'[d] = tracker[d] /\ mode'[d] = mode[d]
        BY <1>0, <2>1, Names DEF Launch, Scan
      <3> QED
        BY <3>1 DEF ParentInv, OneParent, OffNull
    <2>2. CASE Click(c) \/ OpenDialog(c) \/ CloseBox(c)
      BY <2>2, ParentFrame DEF Click, OpenDialog, CloseBox
    <2>3. CASE CloseWindow(c) \/ Crash(c)
      BY <2>3, ParentVanish DEF CloseWindow, Crash
    <2> QED
      BY <1>4, <2>1, <2>2, <2>3 DEF User
  <1>5. CASE UNCHANGED vars
    BY <1>5, ParentFrame DEF vars
  <1> QED
    BY <1>1, <1>2, <1>3, <1>4, <1>5 DEF Next, SteadyNext

LEMMA ParentInit == Init => ParentInv
  BY OwnInit DEF Init, ParentInv, OneParent, OffNull

-------------------------------------------------------------------------------
(* Every step maps to a step of ServiceLifecycle or to a stutter. *)

Up == [c \in Ctl |-> mode[c] # "off"]

Life == [c \in Ctl |-> [s \in Service |-> StageOf(c, s)]]

LEMMA UpSame == ASSUME mode' = mode PROVE UNCHANGED Up
  BY DEF Up

\* The controller started the live process its tracker watches.
Owns(c, s) == \E p \in Live : p = tracker[c][s].pid /\ child[c][p] = s

LEMMA StageByOwns ==
  ASSUME NEW c, NEW s
  PROVE  StageOf(c, s) = IF tracker[c][s] = NoTracker THEN "off"
                         ELSE IF ~tracker[c][s].reports THEN "adopted"
                         ELSE IF Owns(c, s) THEN "own" ELSE "lost"
  BY DEF StageOf, Owns

\* Nothing changes for s in the eyes of c.
LEMMA StageSame ==
  ASSUME NEW c, NEW s, tracker'[c][s] = tracker[c][s], Owns(c, s)' <=> Owns(c, s)
  PROVE  StageOf(c, s)' = StageOf(c, s)
  BY DEF StageOf, Owns

LEMMA LifeSame ==
  ASSUME \A c \in Ctl, s \in Service : StageOf(c, s)' = StageOf(c, s)
  PROVE  UNCHANGED Life
  BY DEF Life

\* The stages of one controller change.
LEMMA LifeAll ==
  ASSUME NEW c \in Ctl, NEW f,
         f = [s \in Service |-> StageOf(c, s)'],
         \A d \in Ctl \ {c}, s \in Service : StageOf(d, s)' = StageOf(d, s)
  PROVE  Life' = [Life EXCEPT ![c] = f]
  BY DEF Life

\* The stage of one service changes.
LEMMA LifeOne ==
  ASSUME NEW c \in Ctl, NEW s \in Service,
         \A d \in Ctl, t \in Service : d # c \/ t # s => StageOf(d, t)' = StageOf(d, t)
  PROVE  Life' = [Life EXCEPT ![c][s] = StageOf(c, s)']
  <1> DEFINE g == [Life[c] EXCEPT ![s] = StageOf(c, s)']
  <1>1. Life[c] = [t \in Service |-> StageOf(c, t)]
    BY DEF Life
  <1>2. g = [t \in Service |-> StageOf(c, t)']
    BY <1>1
  <1>3. Life' = [Life EXCEPT ![c] = g]
    BY <1>2, LifeAll
  <1> QED
    BY <1>3

LEMMA StageVanish ==
  ASSUME ParentInv, NEW c \in Ctl, mode[c] # "off", Vanish(c), UNCHANGED what
  PROVE  Lifecycle!Vanish(c)
  <1>1. /\ \A s \in Service : tracker'[c][s] = NoTracker
        /\ \A d \in Ctl \ {c} : child'[d] = child[d] /\ tracker'[d] = tracker[d]
    BY DEF ParentInv, OwnInv, TypeOK, Vanish
  <1>2. Live' = Live
    BY DEF Live
  <1>3. Lifecycle!Off = [s \in Service |-> StageOf(c, s)']
    BY <1>1 DEF Lifecycle!Off, StageOf
  <1>4. \A d \in Ctl \ {c}, s \in Service : StageOf(d, s)' = StageOf(d, s)
    BY <1>1, <1>2, StageSame DEF Owns
  <1>5. Life' = [Life EXCEPT ![c] = Lifecycle!Off]
    BY <1>3, <1>4, LifeAll
  <1>6. Up[c] /\ Up' = [Up EXCEPT ![c] = FALSE]
    BY DEF Up, Vanish, ParentInv, OwnInv, TypeOK
  <1> QED
    BY <1>5, <1>6 DEF Lifecycle!Vanish, Life, Up

\* Steps that leave the trackers alone and change the report only of processes that are
\* not live, or become live for a program that is no service.
LEMMA StageFrame ==
  ASSUME tracker' = tracker,
         \A c \in Ctl, s \in Service, p \in Pid :
           (p \in Live' /\ child'[c][p] = s) <=> (p \in Live /\ child[c][p] = s)
  PROVE  UNCHANGED Life
  <1>1. Live \subseteq Pid /\ Live' \subseteq Pid
    BY DEF Live
  <1>2. \A c \in Ctl, s \in Service : Owns(c, s)' <=> Owns(c, s)
    BY <1>1 DEF Owns
  <1> QED
    BY <1>2, StageSame, LifeSame

\* The end of a process is the end of one service at most.
LEMMA StageProcExit ==
  ASSUME ParentInv, NEW p \in Pid, ProcExit(p)
  PROVE  Lifecycle!Next \/ UNCHANGED <<Up, Life>>
  <1>0. UNCHANGED Up
    BY UpSame DEF ProcExit
  <1>1. /\ tracker' = tracker /\ child' = child
        /\ p \in Live /\ Live' = Live \ {p}
    BY DEF ParentInv, OwnInv, TypeOK, ProcExit, Live
  <1>2. CASE \E c \in Ctl, s \in Service : StageOf(c, s) = "own" /\ tracker[c][s].pid = p
    <2>1. PICK c \in Ctl, s \in Service : StageOf(c, s) = "own" /\ tracker[c][s].pid = p
      BY <1>2
    <2>2. /\ child[c][p] = s
          /\ tracker[c][s] # NoTracker /\ tracker[c][s].reports
      BY <2>1, StageByOwns DEF Owns
    <2>3. StageOf(c, s)' = "lost"
      BY <1>1, <2>1, <2>2, StageByOwns DEF StageOf
    <2>4. ASSUME NEW d \in Ctl, NEW t \in Service, d # c \/ t # s
          PROVE  StageOf(d, t)' = StageOf(d, t)
      <3>1. child[d][p] # t
        BY <2>2, <2>4, Names DEF ParentInv, OneParent
      <3>2. Owns(d, t)' <=> Owns(d, t)
        BY <1>1, <3>1 DEF Owns
      <3> QED
        BY <1>1, <3>2, StageSame
    <2>5. Life' = [Life EXCEPT ![c][s] = "lost"]
      BY <2>3, <2>4, LifeOne
    <2>6. Life[c][s] = "own"
      BY <2>1 DEF Life
    <2>7. Lifecycle!Die(c, s)
      BY <1>0, <2>5, <2>6 DEF Lifecycle!Die, Life, Up
    <2> QED
      BY <2>7 DEF Lifecycle!Next
  <1>3. CASE \A c \in Ctl, s \in Service : StageOf(c, s) = "own" => tracker[c][s].pid # p
    <2>1. ASSUME NEW c \in Ctl, NEW s \in Service
          PROVE  StageOf(c, s)' = StageOf(c, s)
      <3>1. CASE StageOf(c, s) = "own"
        BY <1>1, <1>3, <3>1, StageSame DEF Owns
      <3>2. CASE StageOf(c, s) # "own"
        BY <1>1, <3>2 DEF StageOf
      <3> QED
        BY <3>1, <3>2
    <2> QED
      BY <1>0, <2>1, LifeSame
  <1> QED
    BY <1>2, <1>3

LEMMA StageStart ==
  ASSUME ParentInv, NEW c \in Ctl, NEW s \in Service, StartService(c, s) \/ StartFails(c, s)
  PROVE  Lifecycle!Start(c, s)
  <1>1. /\ what \in [Pid -> Program \cup {"none"}]
        /\ child \in [Ctl -> [Pid -> Program \cup {"unknown", "none"}]]
        /\ tracker \in [Ctl -> [Service -> ServiceTracker \cup {NoTracker}]]
    BY DEF ParentInv, OwnInv, TypeOK
  <1>2. PICK p \in Pid \cup {NoPid} :
          /\ tracker' = [tracker EXCEPT ![c][s] = [pid |-> p, reports |-> TRUE]]
          /\ tracker[c][s] = NoTracker
          /\ \/ /\ p \in Pid /\ Free(p)
                /\ what' = [what EXCEPT ![p] = s]
                /\ child' = [child EXCEPT ![c] = [Disowned(c, s) EXCEPT ![p] = s]]
             \/ what' = what /\ child' = [child EXCEPT ![c] = Disowned(c, s)]
    BY DEF StartService, StartFails
  <1>3. [pid |-> p, reports |-> TRUE] # NoTracker
    <2>1. [pid |-> p, reports |-> TRUE] \in Tracker
      BY DEF Tracker
    <2> QED
      BY <2>1, NoTrackerAssumption
  <1>4. \A d \in Ctl, t \in Service : d # c \/ t # s => tracker'[d][t] = tracker[d][t]
    BY <1>1, <1>2
  <1>5. ASSUME NEW d \in Ctl, NEW t \in Service, d # c \/ t # s
        PROVE  Owns(d, t)' <=> Owns(d, t)
    <2>1. ASSUME NEW q \in Pid
          PROVE  (what'[q] # "none" /\ child'[d][q] = t) <=> (what[q] # "none" /\ child[d][q] = t)
      <3>1. d = c => (Disowned(c, s)[q] = t <=> child[c][q] = t)
        BY <1>5, Names DEF Disowned
      <3>2. CASE what' = what /\ child' = [child EXCEPT ![c] = Disowned(c, s)]
        BY <1>1, <3>1, <3>2
      <3>3. CASE /\ p \in Pid /\ Free(p)
                 /\ what' = [what EXCEPT ![p] = s]
                 /\ child' = [child EXCEPT ![c] = [Disowned(c, s) EXCEPT ![p] = s]]
        <4>1. CASE q = p
          <5>1. child[d][p] = "none" /\ t # "none"
            BY <3>3, Names DEF Free
          <5>2. d = c => child'[d][p] = s
            BY <1>1, <3>3 DEF Disowned
          <5>3. d # c => child'[d][p] = child[d][p]
            BY <1>1, <3>3
          <5> QED
            BY <1>5, <4>1, <5>1, <5>2, <5>3
        <4>2. CASE q # p
          <5>1. what'[q] = what[q]
            BY <1>1, <3>3, <4>2
          <5>2. d = c => child'[d][q] = Disowned(c, s)[q]
            BY <1>1, <3>3, <4>2 DEF Disowned
          <5>3. d # c => child'[d][q] = child[d][q]
            BY <1>1, <3>3
          <5> QED
            BY <3>1, <5>1, <5>2, <5>3
        <4> QED
          BY <4>1, <4>2
      <3> QED
        BY <1>2, <3>2, <3>3
    <2> QED
      BY <1>4, <1>5, <2>1 DEF Owns, Live
  <1>6. \A d \in Ctl, t \in Service : d # c \/ t # s => StageOf(d, t)' = StageOf(d, t)
    BY <1>4, <1>5, StageSame
  <1>7. Life' = [Life EXCEPT ![c][s] = StageOf(c, s)']
    BY <1>6, LifeOne
  <1>8. tracker'[c][s] = [pid |-> p, reports |-> TRUE]
    BY <1>1, <1>2
  <1>9. StageOf(c, s)' \in {"own", "lost"}
    BY <1>3, <1>8 DEF StageOf
  <1>10. Life[c][s] = "off"
    BY <1>2 DEF Life, StageOf
  <1>11. Up[c] /\ UNCHANGED Up
    BY UpSame DEF StartService, StartFails, Calling, Up
  <1> QED
    BY <1>7, <1>9, <1>10, <1>11 DEF Lifecycle!Start, Life, Up

LEMMA StageServiceGone ==
  ASSUME ParentInv, NEW c \in Ctl, NEW s \in Service, ServiceGone(c, s)
  PROVE  Lifecycle!Notice(c, s)
  <1>1. tracker \in [Ctl -> [Service -> ServiceTracker \cup {NoTracker}]]
    BY DEF ParentInv, OwnInv, TypeOK
  <1>2. /\ what' = what /\ child' = child
        /\ tracker[c][s] # NoTracker /\ tracker[c][s].reports /\ tracker[c][s].pid \notin Live
        /\ tracker' = [tracker EXCEPT ![c][s] = NoTracker]
    BY DEF ServiceGone, Gone
  <1>3. Live' = Live
    BY <1>2 DEF Live
  <1>4. \A d \in Ctl, t \in Service : d # c \/ t # s => tracker'[d][t] = tracker[d][t]
    BY <1>1, <1>2
  <1>5. \A d \in Ctl, t \in Service : d # c \/ t # s => StageOf(d, t)' = StageOf(d, t)
    BY <1>2, <1>3, <1>4, StageSame DEF Owns
  <1>6. tracker'[c][s] = NoTracker
    BY <1>1, <1>2
  <1>7. StageOf(c, s)' = "off"
    BY <1>6 DEF StageOf
  <1>8. Life[c][s] = "lost"
    BY <1>2 DEF Life, StageOf
  <1>9. Life' = [Life EXCEPT ![c][s] = "off"]
    BY <1>5, <1>7, LifeOne
  <1>10. Up[c] /\ UNCHANGED Up
    BY UpSame DEF ServiceGone, Idle, Up
  <1> QED
    BY <1>8, <1>9, <1>10 DEF Lifecycle!Notice, Life, Up

LEMMA StageLaunch ==
  ASSUME ParentInv, NEW c \in Ctl, NEW m \in Modes, Launch(c, m)
  PROVE  Lifecycle!Adopt(c)
  <1>1. /\ what' = what /\ child' = child /\ mode[c] = "off"
        /\ Live' = Live
    BY DEF Launch, Live
  <1>2. PICK first \in [Service -> Pid \cup {NoPid}] :
          tracker' = [tracker EXCEPT ![c] = [s \in Service |-> Found(first[s])]]
    BY DEF Launch, Scan
  <1>3. /\ \A s \in Service : tracker'[c][s] = Found(first[s])
        /\ \A d \in Ctl \ {c} : tracker'[d] = tracker[d]
    BY <1>2 DEF ParentInv, OwnInv, TypeOK
  <1>4. ASSUME NEW s \in Service
        PROVE  StageOf(c, s)' \in {"off", "adopted"}
    <2>1. tracker'[c][s] = NoTracker \/ tracker'[c][s] = [pid |-> first[s], reports |-> FALSE]
      BY <1>3 DEF Found
    <2>2. [pid |-> first[s], reports |-> FALSE].reports = FALSE
      OBVIOUS
    <2> QED
      BY <2>1, <2>2 DEF StageOf
  <1>5. \A d \in Ctl \ {c}, s \in Service : StageOf(d, s)' = StageOf(d, s)
    BY <1>1, <1>3, StageSame DEF Owns
  <1> DEFINE f == [s \in Service |-> StageOf(c, s)']
  <1>6. f \in [Service -> {"off", "adopted"}]
    BY <1>4
  <1>7. Life' = [Life EXCEPT ![c] = f]
    BY <1>5, LifeAll
  <1>8. Life[c] = Lifecycle!Off
    BY <1>1 DEF Life, StageOf, Lifecycle!Off, ParentInv, OffNull
  <1>9. ~Up[c] /\ Up' = [Up EXCEPT ![c] = TRUE]
    BY Names DEF Launch, Up, ParentInv, OwnInv, TypeOK
  <1> QED
    BY <1>6, <1>7, <1>8, <1>9 DEF Lifecycle!Adopt, Life, Up

\* Steps that touch no tracker of a service and no report of one.
LEMMA StageUnchanged ==
  ASSUME UNCHANGED <<what, mode, tracker, child>>
  PROVE  UNCHANGED <<Up, Life>>
  BY StageFrame, UpSame DEF Live

LEMMA StageStep == ParentInv /\ [Next]_vars => [Lifecycle!Next]_<<Up, Life>>
  <1> SUFFICES ASSUME ParentInv, [Next]_vars
               PROVE  Lifecycle!Next \/ UNCHANGED <<Up, Life>>
    OBVIOUS
  <1>0. /\ what \in [Pid -> Program \cup {"none"}]
        /\ child \in [Ctl -> [Pid -> Program \cup {"unknown", "none"}]]
    BY DEF ParentInv, OwnInv, TypeOK
  <1>1. ASSUME NEW p \in Pid, ProcExit(p)
        PROVE  Lifecycle!Next \/ UNCHANGED <<Up, Life>>
    BY <1>1, StageProcExit
  <1>2. ASSUME NEW c \in Ctl, Step(c)
        PROVE  Lifecycle!Next \/ UNCHANGED <<Up, Life>>
    <2>1. ASSUME NEW s \in Service, StartService(c, s) \/ StartFails(c, s)
          PROVE  Lifecycle!Next
      BY <2>1, StageStart DEF Lifecycle!Next
    <2>2. CASE Stop(c)
      <3>1. CASE StopItself(c)
        BY <2>2, <3>1, StageVanish DEF Stop, Calling, StopItself, Lifecycle!Next
      <3>2. CASE StopServices(c)
        BY <3>2, StageUnchanged DEF StopServices
      <3> QED
        BY <2>2, <3>1, <3>2 DEF Stop
    <2>3. CASE RunApk(c) \/ RunAM(c)
      <3>1. tracker' = tracker /\ mode' = mode
        BY <2>3 DEF RunApk, RunAM
      <3>2. \/ UNCHANGED <<what, child>>
            \/ \E p \in Pid, w \in {"apk", "am"} :
                 /\ Free(p)
                 /\ what' = [what EXCEPT ![p] = w]
                 /\ child' = [child EXCEPT ![c][p] = w]
        BY <2>3 DEF RunApk, RunAM
      <3>3. ASSUME NEW p \in Pid, NEW w \in {"apk", "am"}, Free(p),
                   what' = [what EXCEPT ![p] = w], child' = [child EXCEPT ![c][p] = w]
            PROVE  UNCHANGED <<Up, Life>>
        <4>1. ASSUME NEW d \in Ctl, NEW s \in Service, NEW q \in Pid
              PROVE  (q \in Live' /\ child'[d][q] = s) <=> (q \in Live /\ child[d][q] = s)
          <5>1. CASE q = p
            <6>1. child[d][p] = "none" /\ child'[d][p] \in {"none", w}
              BY <1>0, <3>3 DEF Free
            <6> QED
              BY <5>1, <6>1, Names
          <5>2. CASE q # p
            BY <1>0, <3>3, <5>2 DEF Live
          <5> QED
            BY <5>1, <5>2
        <4> QED
          BY <3>1, <4>1, StageFrame, UpSame
      <3> QED
        BY <3>1, <3>2, <3>3, StageUnchanged
    <2>4. CASE (\E s \in Service : AlreadyRunning(c, s)) \/ Quit(c) \/ Ensure(c)
                 \/ Check(c) \/ NoSuchApk(c)
      BY <2>4, StageUnchanged DEF AlreadyRunning, Quit, Ensure, Check, NoSuchApk
    <2> QED
      BY <1>2, <2>1, <2>2, <2>3, <2>4 DEF Step
  <1>3. ASSUME NEW c \in Ctl, Slots(c)
        PROVE  Lifecycle!Next \/ UNCHANGED <<Up, Life>>
    <2>1. ASSUME NEW i \in DOMAIN apps[c], AppGone(c, i)
          PROVE  UNCHANGED <<Up, Life>>
      BY <2>1, StageUnchanged DEF AppGone
    <2>2. ASSUME NEW p \in Pid, Finished(c, p)
          PROVE  UNCHANGED <<Up, Life>>
      <3>1. /\ tracker' = tracker /\ what' = what /\ mode' = mode /\ what[p] = "none"
            /\ child' = [child EXCEPT ![c][p] = "none"]
        BY <2>2 DEF Finished
      <3>2. \A d \in Ctl, q \in Pid : q # p => child'[d][q] = child[d][q]
        BY <1>0, <3>1
      <3> QED
        BY <3>1, <3>2, StageFrame, UpSame DEF Live
    <2>3. ASSUME NEW s \in Service, ServiceGone(c, s)
          PROVE  Lifecycle!Next
      BY <2>3, StageServiceGone DEF Lifecycle!Next
    <2>4. CASE QuitFires(c)
      BY <2>4, StageVanish DEF QuitFires, Idle, osVars, Lifecycle!Next
    <2> QED
      BY <1>3, <2>1, <2>2, <2>3, <2>4 DEF Slots
  <1>4. ASSUME NEW c \in Ctl, User(c) \/ Crash(c)
        PROVE  Lifecycle!Next \/ UNCHANGED <<Up, Life>>
    <2>1. ASSUME NEW m \in Modes, Launch(c, m)
          PROVE  Lifecycle!Next
      BY <2>1, StageLaunch DEF Lifecycle!Next
    <2>2. CASE Click(c) \/ OpenDialog(c) \/ CloseBox(c)
      BY <2>2, StageUnchanged DEF Click, OpenDialog, CloseBox
    <2>3. CASE CloseWindow(c) \/ Crash(c)
      BY <2>3, StageVanish DEF CloseWindow, Clickable, Idle, Crash, osVars, Lifecycle!Next
    <2> QED
      BY <1>4, <2>1, <2>2, <2>3 DEF User
  <1>5. CASE UNCHANGED vars
    BY <1>5, StageUnchanged DEF vars
  <1> QED
    BY <1>1, <1>2, <1>3, <1>4, <1>5 DEF Next, SteadyNext

LEMMA StageInit == Init => Lifecycle!Init
  <1> SUFFICES ASSUME Init PROVE Lifecycle!Init
    OBVIOUS
  <1>1. Up = [c \in Ctl |-> FALSE]
    BY DEF Init, Up
  <1>2. \A c \in Ctl, s \in Service : StageOf(c, s) = "off"
    BY DEF Init, StageOf
  <1>3. Life = [c \in Ctl |-> Lifecycle!Off]
    BY <1>2 DEF Life, Lifecycle!Off
  <1> QED
    BY <1>1, <1>3 DEF Lifecycle!Init, Up, Life

\* Every controller, among any number of others that start, stop, crash and share the
\* process numbers, implements ServiceLifecycle: it shows a service it started until the
\* process has ended and starts it again only after that.
THEOREM ImplementsLifecycle == Spec => LifecycleKept
  <1>1. ParentInv /\ [Next]_vars => [Lifecycle!Next]_<<Up, Life>>
    BY StageStep
  <1> QED
    BY <1>1, StageInit, ParentInit, ParentStep, PTL
       DEF Spec, LifecycleKept, Lifecycle!Spec, Lifecycle!vars, Life, Up
===============================================================================
