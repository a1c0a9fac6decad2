----------------------------- MODULE LauncherProofs ----------------------------
(* Theorems about Launcher, for all command lines, settings and threads. *)
EXTENDS Launcher, VmOptionsProofs

\* Where Java code has run, and may still.
Late == {"java", "callMain", "down", "return", "gone"}

\* The VM is up before its code runs, and its code comes after the native functions.
VmReady ==
  /\ pc \in {"register", "java", "callMain", "down"} => vm = "up"
  /\ pc \in Late \ {"gone"} => registered = Natives

\* Threads come from code the VM runs, and none of them outlives it.
ThreadsFromCode ==
  \A t \in Thread :
    /\ thread[t] # "none" => pc \in Late
    /\ thread[t] = "running" => vm = "up"

\* So do the binder threads; an end is one.
PoolFromCode ==
  /\ pool => pc \in Late
  /\ ended # "no" => pc = "gone"

StartInv == TypeOK /\ VmReady /\ ThreadsFromCode /\ PoolFromCode /\ PoolStopped

-------------------------------------------------------------------------------
LEMMA TypeInit == Init => TypeOK
  <1> SUFFICES ASSUME Init PROVE TypeOK
    OBVIOUS
  <1>1. Len(argv) \in Nat /\ Natives \in Nat
    BY CommandLineAssumption, NativesAssumption DEF Init
  <1>2. i \in 1 .. Len(argv) + 1 /\ registered \in 0 .. Natives
    BY <1>1 DEF Init
  <1> QED
    BY <1>2 DEF Init, TypeOK, Flags

LEMMA TypeSetup ==
  ASSUME TypeOK, Setup
  PROVE  TypeOK'
  <1>1. Len(argv) \in Nat /\ i \in Nat /\ registered \in Nat
    BY CommandLineAssumption, NativesAssumption DEF TypeOK
  <1>2. CASE VmArgument \/ VmArgumentsEnd
    BY <1>1, <1>2 DEF VmArgument, VmArgumentsEnd, ForVm, Goto, TypeOK, input, runtime, life
  <1>5. CASE RuntimeArgument
    <2>1. i' \in 1 .. Len(argv') + 1
      BY <1>1, <1>5 DEF RuntimeArgument, input
    <2>2. seen' \subseteq Flags /\ pc' \in {"args", "main"} /\ dir' \in BOOLEAN
      BY <1>5 DEF RuntimeArgument, TypeOK
    <2> QED
      BY <1>5, <2>1, <2>2 DEF RuntimeArgument, TypeOK, input, runtime, life
  <1>6. CASE RuntimeArgumentsEnd
    BY <1>6 DEF RuntimeArgumentsEnd, Goto, TypeOK, input, parsed, runtime, life
  <1>3. CASE Main \/ RootDir \/ StartVm
    BY <1>3 DEF Main, RootDir, StartVm, OnVmCreated, Goto, Ends, TypeOK, input, parsed,
                runtime, life
  <1>4. CASE Register \/ CallJava
    BY <1>1, <1>4, NativesAssumption
       DEF Register, CallJava, Goto, Ends, TypeOK, input, parsed, runtime, life
  <1> QED
    BY <1>2, <1>3, <1>4, <1>5, <1>6 DEF Setup

LEMMA TypeRest ==
  ASSUME TypeOK, Java \/ Threads
  PROVE  TypeOK'
  <1>1. CASE FinishInit \/ Started
    BY <1>1 DEF FinishInit, OnStarted, Started, Goto, TypeOK, input, parsed, runtime
  <1>4. CASE Fork \/ ZygoteInit
    BY <1>4 DEF Fork, ZygoteInit, OnZygoteInit, TypeOK, input, parsed, runtime
  <1>5. CASE SetExitWithoutCleanup
    BY <1>5 DEF SetExitWithoutCleanup, TypeOK, input, parsed, runtime
  <1>2. CASE Exit \/ JavaReturns \/ Destroy \/ Return
    BY <1>2 DEF Exit, OnExit, JavaReturns, Destroy, Return, Goto, Ends, TypeOK, input,
                parsed, runtime, life
  <1>3. CASE Threads
    BY <1>3 DEF Threads, CreateThread, Shell, ThreadEnds, TypeOK, input, parsed, runtime, life
  <1> QED
    BY <1>1, <1>2, <1>3, <1>4, <1>5 DEF Java

LEMMA TypeStep ==
  ASSUME TypeOK, [Next]_vars
  PROVE  TypeOK'
  <1>1. CASE UNCHANGED vars
    BY <1>1 DEF vars, TypeOK, input, parsed, runtime, life
  <1> QED
    BY <1>1, TypeSetup, TypeRest DEF Next

-------------------------------------------------------------------------------
LEMMA StartStep == StartInv /\ [Next]_vars => StartInv'
  <1> SUFFICES ASSUME StartInv, [Next]_vars
               PROVE  VmReady' /\ ThreadsFromCode' /\ PoolFromCode' /\ PoolStopped'
    BY TypeStep DEF StartInv
  <1> USE DEF StartInv, VmReady, ThreadsFromCode, PoolFromCode, PoolStopped, Late
  <1>1. CASE VmArgument \/ VmArgumentsEnd \/ RuntimeArgument \/ RuntimeArgumentsEnd
    BY <1>1 DEF VmArgument, VmArgumentsEnd, RuntimeArgument, RuntimeArgumentsEnd, Goto,
                runtime, life
  <1>2. CASE Main \/ RootDir \/ StartVm
    BY <1>2 DEF Main, RootDir, StartVm, Goto, Ends, parsed, runtime, life
  <1>3. CASE Register \/ CallJava
    BY <1>3 DEF Register, CallJava, Goto, Ends, parsed, runtime, life
  <1>4. CASE FinishInit \/ Started
    BY <1>4 DEF FinishInit, OnStarted, Started, Goto, runtime
  <1>5. CASE Fork \/ ZygoteInit \/ SetExitWithoutCleanup
    BY <1>5 DEF Fork, ZygoteInit, OnZygoteInit, SetExitWithoutCleanup, InJava, runtime
  <1>8. CASE Exit
    <2>1. /\ pc' = "gone"
          /\ \/ ended' = "_exit" /\ pool' = pool
             \/ ended' = "exit" /\ (pool' => mode = "class")
          /\ UNCHANGED <<mode, vm, registered, forked, thread>>
      BY <1>8 DEF Exit, OnExit, Ends, runtime
    <2> QED
      BY <2>1
  <1>9. CASE JavaReturns \/ Destroy \/ Return
    BY <1>9 DEF JavaReturns, Destroy, Return, Goto, Ends, runtime, life
  <1>6. CASE Threads
    BY <1>6 DEF Threads, CreateThread, Shell, ThreadEnds, CodeRuns, InJava, runtime, life, TypeOK
  <1>7. CASE UNCHANGED vars
    BY <1>7 DEF vars, runtime, life
  <1> QED
    BY <1>1, <1>2, <1>3, <1>4, <1>5, <1>6, <1>7, <1>8, <1>9 DEF Next, Setup, Java

LEMMA StartInit == Init => StartInv
  BY TypeInit DEF Init, StartInv, VmReady, ThreadsFromCode, PoolFromCode, PoolStopped,
                   Late

LEMMA StartInvAlways == Spec => []StartInv
  BY StartInit, StartStep, PTL DEF Spec

\* The state of the launcher stays well typed; in particular it never reads beyond its
\* arguments or registers beyond gRegJNI.
THEOREM TypeCorrect == Spec => []TypeOK
  BY StartInvAlways, PTL DEF StartInv

\* Code runs in the VM only when it is up and has every native function.
THEOREM JavaIsAlwaysReady == Spec => []JavaIsReady
  <1>1. StartInv => JavaIsReady
    BY DEF StartInv, VmReady, ThreadsFromCode, Late, JavaIsReady, CodeRuns, InJava
  <1> QED
    BY <1>1, StartInvAlways, PTL

\* Wherever binder threads run, main() of the class does too, or ended the process from
\* within, or the process is a child of the zygote that has not exited with the cleanup.
THEOREM PoolOnlyAsStopped == Spec => []PoolStopped
  BY StartInvAlways, PTL DEF StartInv

-------------------------------------------------------------------------------
\* What tells the options of different groups apart.
LEMMA KindsDiffer ==
  /\ \A o \in ArgOption : o.extraInfo = "null" /\ o.value = "argument"
  /\ \A o \in PlainOption :
       /\ o.extraInfo = "null" /\ o.value \notin {"extra", "argument"}
       /\ At(o) \in 4 .. 32 /\ o.name = NameOrder[At(o)]
  /\ \A o \in ExtraOption : o.extraInfo = "null" /\ o.value = "extra"
  /\ \A p \in 1 .. 3 :
       LET h == Hook(p) IN
       h.extraInfo # "null" /\ h.value \notin {"extra", "argument"} /\ h.name = NameOrder[p] /\ At(h) = p
  <1>1. ASSUME NEW o \in PlainOption
        PROVE  /\ o.extraInfo = "null" /\ o.value \notin {"extra", "argument"}
               /\ At(o) \in 4 .. 32 /\ o.name = NameOrder[At(o)]
    <2>1. PICK p \in 4 .. 32, v \in Value : o = Opt(NameOrder[p], v)
      BY DEF PlainOption
    <2>2. o.name = NameOrder[p] /\ o.value = v /\ o.extraInfo = "null"
      BY <2>1 DEF Opt
    <2>3. At(o) = p
      BY <2>1, PlainIs
    <2> QED
      BY <2>2, <2>3 DEF Value
  <1>2. ASSUME NEW p \in 1 .. 3, NEW h, h = Hook(p)
        PROVE  h.extraInfo # "null" /\ h.value \notin {"extra", "argument"} /\ h.name = NameOrder[p] /\ At(h) = p
    <2>1. h.name = NameOrder[p]
      BY <1>2 DEF Hook
    <2>2. h.value = ""
      BY <1>2 DEF Hook
    <2>3. h.extraInfo # "null"
      <3>1. h.extraInfo = Function[p]
        BY <1>2 DEF Hook
      <3>2. p = 1 \/ p = 2 \/ p = 3
        OBVIOUS
      <3> QED
        BY <3>1, <3>2 DEF Function
    <2>4. p \in 1 .. 32
      OBVIOUS
    <2>5. At(h) = p
      BY <2>1, <2>4, AtName
    <2> QED
      BY <2>1, <2>2, <2>3, <2>5
  <1>3. \A o \in ArgOption : o.extraInfo = "null" /\ o.value = "argument"
    BY DEF ArgOption, Opt
  <1>4. \A o \in ExtraOption : o.extraInfo = "null" /\ o.value = "extra"
    BY DEF ExtraOption, Opt
  <1> QED
    BY <1>1, <1>2, <1>3, <1>4

-------------------------------------------------------------------------------
(* The arguments *)

\* The first a arguments are options of the VM, and no other argument is.
ForTheVm(a) ==
  /\ {k \in DOMAIN options : options[k].value = "argument"} = 1 .. a
  /\ \A k \in 1 .. a : argv[k] \in Dash \ {"--"} /\ options[k].name = argv[k]

\* The directory comes next.
DirNext(a) ==
  \/ i = a + 1 /\ (i <= Len(argv) => argv[i] \notin Dash)
  \/ i = a + 2 /\ argv[i - 1] = "--"

DirAt(a, d) == (d = a + 1 /\ argv[d] \notin Dash) \/ (d = a + 2 /\ argv[d - 1] = "--")

\* The last argument before the class.
LastFlag == IF class = "none" THEN i - 1 ELSE i - 2

ReadAs(a, d) ==
  /\ ForTheVm(a) /\ DirAt(a, d)
  /\ d \in 1 .. LastFlag
  /\ seen = {argv[k] : k \in d + 1 .. LastFlag}

Early == pc \in {"vmArgs", "args", "main"}

ArgsInv ==
  /\ options \in Seq(Option)
  /\ pc = "vmArgs" => ~dir /\ ForTheVm(i - 1) /\ Len(options) = i - 1
  /\ pc = "args" => class = "none"
  /\ ~dir => seen = {} /\ class = "none"
  /\ ~dir /\ pc = "args" => \E a \in Nat : ForTheVm(a) /\ DirNext(a)
  /\ dir => \E a, d \in Nat : ReadAs(a, d)
  /\ class # "none" => i >= 2 /\ argv[i - 1] = class /\ class \notin Flags
  /\ pc = "main" /\ class = "none" => i = Len(argv) + 1
  /\ mode # "none" => dir /\ ~Early /\ (class = "none" => i = Len(argv) + 1)
  /\ mode = "zygote" <=> mode # "none" /\ "--zygote" \in seen
  /\ mode = "class" => class # "none" /\ rest = SubSeq(argv, i, Len(argv))
  /\ mode # "class" => rest = <<>>

\* What is left alone after main() has read its arguments.
readings == <<argv, i, options, dir, seen, class, mode, rest>>

\* The inputs are those that VmOptionsProofs is about.
LEMMA InputType ==
  ASSUME TypeOK
  PROVE  IsSetting(setting) /\ text \in Seq(STRING)
  BY SettingAssumption, TextAssumption DEF TypeOK, IsSetting

LEMMA ArgvType == ASSUME TypeOK PROVE argv \in Seq(STRING) /\ Len(argv) \in Nat /\ i \in Nat
  <1>1. argv \in Seq(STRING)
    BY CommandLineAssumption DEF TypeOK
  <1> QED
    BY <1>1 DEF TypeOK

LEMMA ArgsFrame ==
  ASSUME ArgsInv, UNCHANGED readings, pc' = pc \/ (~Early /\ ~Early')
  PROVE  ArgsInv'
  <1>1. UNCHANGED <<argv, i, options, dir, seen, class, mode, rest>>
    BY DEF readings
  <1>2. \A a : ForTheVm(a) => ForTheVm(a)'
    BY <1>1 DEF ForTheVm
  <1>3. \A a, d \in Nat : (DirNext(a) => DirNext(a)') /\ (ReadAs(a, d) => ReadAs(a, d)')
    BY <1>1, <1>2 DEF DirNext, DirAt, LastFlag, ReadAs
  <1> QED
    BY <1>1, <1>2, <1>3 DEF ArgsInv, Early

LEMMA ArgsVm ==
  ASSUME TypeOK, ArgsInv, VmArgument
  PROVE  ArgsInv'
  <1>1. /\ pc = "vmArgs" /\ pc' = pc /\ i' = i + 1 /\ i \in 1 .. Len(argv) /\ argv[i] \in Dash \ {"--"}
        /\ options' = Append(options, Opt(argv[i], "argument"))
        /\ UNCHANGED <<argv, dir, seen, class, mode, rest>>
    BY ArgvType DEF VmArgument, ForVm, input, runtime, TypeOK
  <1>2. /\ options \in Seq(Option) /\ Len(options) = i - 1 /\ ForTheVm(i - 1) /\ ~dir
        /\ seen = {} /\ class = "none" /\ mode = "none"
    BY <1>1 DEF ArgsInv, Early
  <1>3. Opt(argv[i], "argument") \in Option /\ Opt(argv[i], "argument").name = argv[i]
    <2>1. argv[i] \in STRING
      BY <1>1, ArgvType
    <2> QED
      BY <2>1 DEF Opt, Option, ArgOption
  <1>4. options' \in Seq(Option) /\ Len(options') = i' - 1
    BY <1>1, <1>2, <1>3, ArgvType
  <1>5. \A k \in 1 .. i : options'[k].name = argv[k]
    BY <1>1, <1>2, <1>3, ArgvType DEF ForTheVm
  <1>6. ForTheVm(i - 1)'
    <2>1. /\ \A k \in 1 .. i - 1 : options'[k] = options[k]
          /\ options'[i] = Opt(argv[i], "argument")
      BY <1>1, <1>2, <1>3, ArgvType
    <2>2. \A k \in 1 .. i - 1 : options[k].value = "argument"
      <3>1. {k \in DOMAIN options : options[k].value = "argument"} = 1 .. i - 1
        BY <1>2 DEF ForTheVm
      <3> QED
        BY <3>1
    <2>3. DOMAIN options' = 1 .. i /\ i' - 1 = i
      BY <1>1, <1>4, ArgvType
    <2>4. \A k \in 1 .. i : options'[k].value = "argument"
      BY <2>1, <2>2, ArgvType DEF Opt
    <2>5. {k \in DOMAIN options' : options'[k].value = "argument"} = 1 .. i' - 1
      BY <2>3, <2>4
    <2>6. \A k \in 1 .. i : argv[k] \in Dash \ {"--"}
      BY <1>1, <1>2, ArgvType DEF ForTheVm
    <2> QED
      BY <1>1, <1>5, <2>3, <2>5, <2>6 DEF ForTheVm
  <1> QED
    BY <1>1, <1>2, <1>4, <1>6 DEF ArgsInv, Early

LEMMA ArgsVmEnd ==
  ASSUME TypeOK, ArgsInv, VmArgumentsEnd
  PROVE  ArgsInv'
  <1>1. /\ pc = "vmArgs" /\ pc' = "args" /\ (i <= Len(argv) => argv[i] \notin Dash \ {"--"})
        /\ i' = IF i <= Len(argv) /\ argv[i] = "--" THEN i + 1 ELSE i
        /\ UNCHANGED <<argv, options, dir, seen, class, mode, rest>>
    BY DEF VmArgumentsEnd, ForVm, Goto, input, runtime
  <1>2. /\ options \in Seq(Option) /\ ForTheVm(i - 1) /\ ~dir /\ i - 1 \in Nat
        /\ seen = {} /\ class = "none" /\ mode = "none"
    BY <1>1, ArgvType DEF ArgsInv, Early, TypeOK
  <1>3. PICK a \in Nat : a = i - 1
    BY <1>2
  <1>4. ForTheVm(a)'
    BY <1>1, <1>2, <1>3 DEF ForTheVm
  <1>5. DirNext(a)'
    <2>1. CASE i <= Len(argv) /\ argv[i] = "--"
      <3>1. i' = a + 2 /\ i' - 1 = i /\ argv'[i] = "--"
        BY <1>1, <1>3, <2>1, ArgvType
      <3> QED
        BY <3>1 DEF DirNext
    <2>2. CASE ~(i <= Len(argv) /\ argv[i] = "--")
      <3>1. i' = a + 1 /\ i' = i /\ argv' = argv /\ (i <= Len(argv) => argv[i] \notin Dash)
        BY <1>1, <1>3, <2>2, ArgvType
      <3> QED
        BY <3>1 DEF DirNext
    <2> QED
      BY <2>1, <2>2
  <1> QED
    BY <1>1, <1>2, <1>4, <1>5 DEF ArgsInv, Early

\* A flag or a class after the directory.
LEMMA ArgsRuntime ==
  ASSUME TypeOK, ArgsInv, RuntimeArgument
  PROVE  ArgsInv'
  <1>1. /\ pc = "args" /\ i \in 1 .. Len(argv) /\ i' = i + 1
        /\ \/ ~dir /\ dir' /\ UNCHANGED <<pc, seen, class>>
           \/ dir /\ argv[i] \in Flags /\ seen' = seen \cup {argv[i]} /\ UNCHANGED <<pc, dir, class>>
           \/ dir /\ argv[i] \notin Flags /\ class' = argv[i] /\ pc' = "main" /\ UNCHANGED <<dir, seen>>
        /\ UNCHANGED <<argv, options, mode, rest>>
    BY ArgvType DEF RuntimeArgument, input, runtime, TypeOK
  <1>2. class = "none" /\ mode = "none" /\ options \in Seq(Option)
    BY <1>1 DEF ArgsInv, Early
  <1>3. argv[i] # "none" /\ argv \in Seq(STRING) /\ Len(argv) \in Nat /\ i \in Nat
    BY <1>1, ArgvType, CommandLineAssumption DEF TypeOK
  <1>4. CASE ~dir
    <2>1. dir' /\ UNCHANGED <<pc, seen, class>>
      BY <1>1, <1>4
    <2>2. PICK a \in Nat : ForTheVm(a) /\ DirNext(a)
      BY <1>1, <1>4 DEF ArgsInv
    <2> PICK d \in Nat : d = i
      BY <1>3
    <2>3. DirAt(a, d)'
      BY <1>1, <2>2 DEF DirNext, DirAt
    <2>4. seen' = {argv[k] : k \in d + 1 .. d}
      <3>1. d + 1 .. d = {}
        OBVIOUS
      <3> QED
        BY <1>4, <2>1, <3>1 DEF ArgsInv
    <2>5. ReadAs(a, d)'
      <3>1. LastFlag' = d /\ d \in 1 .. d
        BY <1>1, <1>2, <1>3, <2>1 DEF LastFlag
      <3>2. ForTheVm(a)'
        BY <1>1, <2>2 DEF ForTheVm
      <3> QED
        BY <1>1, <2>3, <2>4, <3>1, <3>2 DEF ReadAs
    <2> QED
      BY <1>1, <1>2, <1>3, <2>1, <2>5 DEF ArgsInv, Early
  <1>5. CASE dir
    <2>1. PICK a \in Nat, d \in Nat : ReadAs(a, d)
      BY <1>5 DEF ArgsInv
    <2>2. /\ ForTheVm(a)' /\ DirAt(a, d)' /\ d \in 1 .. i - 1
          /\ seen = {argv[k] : k \in d + 1 .. i - 1}
      BY <1>1, <1>2, <2>1 DEF ReadAs, ForTheVm, DirAt, LastFlag
    <2>3. CASE argv[i] \in Flags /\ seen' = seen \cup {argv[i]} /\ UNCHANGED <<pc, dir, class>>
      <3>1. d + 1 .. i = (d + 1 .. i - 1) \cup {i}
        BY <1>3, <2>2
      <3>2. seen' = {argv[k] : k \in d + 1 .. i}
        BY <2>2, <2>3, <3>1
      <3>3. LastFlag' = i /\ d \in 1 .. i
        BY <1>1, <1>2, <1>3, <2>2, <2>3 DEF LastFlag
      <3>4. ReadAs(a, d)'
        BY <1>1, <2>2, <3>2, <3>3 DEF ReadAs
      <3> QED
        BY <1>1, <1>2, <1>3, <1>5, <2>3, <3>4 DEF ArgsInv, Early
    <2>4. CASE argv[i] \notin Flags /\ class' = argv[i] /\ pc' = "main" /\ UNCHANGED <<dir, seen>>
      <3>1. LastFlag' = i - 1 /\ i' - 1 = i /\ i' >= 2
        BY <1>1, <1>3, <2>4 DEF LastFlag
      <3>2. ReadAs(a, d)'
        BY <1>1, <2>2, <2>4, <3>1 DEF ReadAs
      <3> QED
        BY <1>1, <1>2, <1>3, <1>5, <2>4, <3>1, <3>2 DEF ArgsInv, Early
    <2> QED
      BY <1>1, <1>5, <2>3, <2>4
  <1> QED
    BY <1>4, <1>5 DEF TypeOK

LEMMA ArgsMain ==
  ASSUME TypeOK, ArgsInv, Main
  PROVE  ArgsInv'
  <1>1. /\ pc = "main" /\ pc' \in {"start", "gone"} /\ mode = "none"
        /\ UNCHANGED <<argv, i, options, dir, seen, class>>
    BY DEF Main, Goto, Ends, input, parsed, ArgsInv, Early
  <1>2. \/ "--zygote" \in seen /\ mode' = "zygote" /\ rest' = rest
        \/ "--zygote" \notin seen /\ class # "none" /\ mode' = "class" /\ rest' = Rest
        \/ mode' = "none" /\ rest' = rest
    BY <1>1 DEF Main, Goto, Ends
  <1>5. rest = <<>> /\ (class = "none" => i = Len(argv) + 1)
    BY <1>1 DEF ArgsInv
  <1>3. "--zygote" \in seen \/ class # "none" => dir
    BY DEF ArgsInv, TypeOK
  <1>4. \A a, d \in Nat : ReadAs(a, d) => ReadAs(a, d)'
    BY <1>1 DEF ReadAs, ForTheVm, DirAt, LastFlag
  <1> QED
    BY <1>1, <1>2, <1>3, <1>4, <1>5 DEF ArgsInv, Early, Rest

\* Options that come later leave those of the command line where they are.
LEMMA ArgsStartVm ==
  ASSUME TypeOK, ArgsInv, StartVm
  PROVE  ArgsInv'
  <1>1. /\ pc = "vm" /\ ~Early' /\ options' = options \o StartVmOptions(setting, text)
        /\ UNCHANGED <<argv, i, dir, seen, class, mode, rest>>
    BY DEF StartVm, Goto, Ends, input, parsed, Early
  <1>2. /\ options \in Seq(Option) /\ StartVmOptions(setting, text) \in Seq(Option)
        /\ StartVmOptions(setting, text) \in Seq(StartOption)
    <2>1. IsSetting(setting) /\ text \in Seq(STRING)
      BY InputType
    <2>2. StartVmOptions(setting, text) \in Seq(StartOption)
      BY <2>1, StartOptionsAre
    <2>3. options \in Seq(Option) /\ StartOption \subseteq Option
      BY DEF ArgsInv, Option
    <2> QED
      BY <2>2, <2>3, SeqWider
  <1>3. /\ options' \in Seq(Option) /\ Len(options') >= Len(options)
        /\ Len(options) \in Nat /\ Len(options') \in Nat
        /\ \A k \in 1 .. Len(options) : options'[k] = options[k]
    BY <1>1, <1>2
  <1>4. ASSUME NEW a \in Nat, ForTheVm(a) PROVE ForTheVm(a)'
    <2>1. {k \in DOMAIN options : options[k].value = "argument"} = 1 .. a
      BY <1>4 DEF ForTheVm
    <2>2. \A o \in StartOption : o.value # "argument"
      BY KindsDiffer DEF StartOption, HookOption
    <2>3. \A k \in DOMAIN options' : k \notin DOMAIN options => options'[k] \in StartOption
      BY <1>1, <1>2
    <2>4. DOMAIN options \subseteq DOMAIN options'
      BY <1>2, <1>3
    <2>5. {k \in DOMAIN options' : options'[k].value = "argument"} = 1 .. a
      <3>1. ASSUME NEW k \in DOMAIN options', options'[k].value = "argument"
            PROVE  k \in 1 .. a
        <4>1. k \in DOMAIN options
          BY <2>2, <2>3, <3>1
        <4>2. options'[k] = options[k]
          BY <1>2, <1>3, <4>1
        <4> QED
          BY <2>1, <3>1, <4>1, <4>2
      <3>2. ASSUME NEW k \in 1 .. a
            PROVE  k \in DOMAIN options' /\ options'[k].value = "argument"
        <4>1. k \in DOMAIN options /\ options[k].value = "argument"
          BY <2>1
        <4>2. options'[k] = options[k]
          BY <1>2, <1>3, <4>1
        <4> QED
          BY <2>4, <4>1, <4>2
      <3> QED
        BY <3>1, <3>2
    <2>6. \A k \in 1 .. a : options'[k].name = options[k].name
      BY <1>2, <1>3, <2>1
    <2> QED
      BY <1>1, <1>4, <2>5, <2>6 DEF ForTheVm
  <1>5. \A a, d \in Nat : ReadAs(a, d) => ReadAs(a, d)'
    BY <1>1, <1>4 DEF ReadAs, DirAt, LastFlag
  <1> QED
    BY <1>1, <1>3, <1>5 DEF ArgsInv, Early

LEMMA ArgsStep == StartInv /\ ArgsInv /\ [Next]_vars => ArgsInv'
  <1> SUFFICES ASSUME StartInv, TypeOK, ArgsInv, [Next]_vars PROVE ArgsInv'
    BY DEF StartInv
  <1>1. CASE RuntimeArgumentsEnd
    <2>1. pc = "args" /\ pc' = "main" /\ UNCHANGED readings /\ i = Len(argv) + 1
      BY <1>1, ArgvType DEF TypeOK, RuntimeArgumentsEnd, Goto, readings, input, parsed, runtime
    <2>2. \A a, d \in Nat : ReadAs(a, d) => ReadAs(a, d)'
      BY <2>1 DEF readings, ReadAs, ForTheVm, DirAt, LastFlag
    <2>3. \A a \in Nat : (ForTheVm(a) => ForTheVm(a)') /\ (DirNext(a) => DirNext(a)')
      BY <2>1 DEF readings, ForTheVm, DirNext
    <2> QED
      BY <2>1, <2>2, <2>3 DEF ArgsInv, Early, readings
  <1>2. CASE RootDir \/ Register \/ CallJava
    BY <1>2, ArgsFrame DEF RootDir, Register, CallJava, Goto, Ends, Early, readings, input,
                           parsed, runtime
  <1>3. CASE FinishInit \/ Started \/ Fork \/ ZygoteInit \/ SetExitWithoutCleanup
    BY <1>3, ArgsFrame DEF FinishInit, OnStarted, Started, Fork, ZygoteInit,
                           SetExitWithoutCleanup, Goto, Early, readings, input, parsed, runtime
  <1>5. CASE JavaReturns \/ Destroy \/ Return
    BY <1>5, ArgsFrame DEF JavaReturns, Destroy, Return, Goto, Ends, Early, readings, input, parsed,
                           runtime
  <1>6. CASE Exit
    <2>1. ~Early /\ ~Early'
      BY <1>6 DEF Exit, CodeRuns, InJava, Ends, Early, StartInv, ThreadsFromCode, Late
    <2> QED
      BY <1>6, <2>1, ArgsFrame DEF Exit, readings, input, parsed, runtime
  <1>4. CASE Threads \/ UNCHANGED vars
    BY <1>4, ArgsFrame DEF Threads, CreateThread, Shell, ThreadEnds, readings, input, parsed,
                           runtime, vars
  <1> QED
    BY <1>1, <1>2, <1>3, <1>4, <1>5, <1>6, ArgsVm, ArgsVmEnd, ArgsRuntime, ArgsMain,
       ArgsStartVm DEF Next, Setup, Java

LEMMA ArgsInit == Init => ArgsInv
  <1> SUFFICES ASSUME Init PROVE ArgsInv
    OBVIOUS
  <1>1. options = <<>> /\ i = 1 /\ <<>> \in Seq(Option) /\ Len(<<>>) = 0 /\ i - 1 = 0
    BY DEF Init
  <1>2. ForTheVm(i - 1)
    BY <1>1 DEF ForTheVm
  <1> QED
    BY <1>1, <1>2 DEF Init, ArgsInv

LEMMA ArgsAreRead == TypeOK /\ ArgsInv => ArgumentsRead
  <1> SUFFICES ASSUME TypeOK, ArgsInv, mode # "none" PROVE ArgumentsRead
    BY DEF ArgumentsRead
  <1>1. Len(argv) \in Nat /\ i \in 1 .. Len(argv) + 1
    BY ArgvType DEF TypeOK
  <1>2. PICK a \in Nat, d \in Nat : ReadAs(a, d)
    BY DEF ArgsInv
  <1>3. PICK e : e = LastFlag
    OBVIOUS
  <1>4. class = "none" => i = Len(argv) + 1
    BY DEF ArgsInv
  <1>5. class # "none" => i >= 2 /\ argv[i - 1] = class /\ class \notin Flags
    BY DEF ArgsInv
  <1>6. e \in 0 .. Len(argv) /\ d \in 1 .. e /\ a < d
    BY <1>1, <1>2, <1>3, <1>4, <1>5 DEF ReadAs, DirAt, LastFlag
  <1>7. IF e = Len(argv) THEN class = "none" ELSE class = argv[e + 1] /\ class \notin Flags
    BY <1>1, <1>3, <1>4, <1>5 DEF LastFlag
  <1>8. IF "--zygote" \in seen THEN mode = "zygote" /\ rest = <<>>
        ELSE mode = "class" /\ e < Len(argv) /\ rest = SubSeq(argv, e + 2, Len(argv))
    <2>1. CASE "--zygote" \in seen
      BY <2>1 DEF ArgsInv
    <2>2. CASE "--zygote" \notin seen
      <3>1. mode = "class" /\ class # "none" /\ rest = SubSeq(argv, i, Len(argv))
        BY <2>2 DEF ArgsInv, TypeOK
      <3>2. e + 2 = i /\ e < Len(argv)
        BY <1>1, <1>3, <3>1 DEF LastFlag
      <3> QED
        BY <2>2, <3>1, <3>2
    <2> QED
      BY <2>1, <2>2
  <1>9. /\ ForTheVm(a) /\ DirAt(a, d) /\ seen = {argv[k] : k \in d + 1 .. e}
        /\ seen \subseteq Flags
    BY <1>2, <1>3 DEF ReadAs, TypeOK
  <1>10. a \in 0 .. Len(argv) /\ d \in 1 .. Len(argv) /\ d <= e
    BY <1>1, <1>6
  <1> QED
    BY <1>6, <1>7, <1>8, <1>9, <1>10 DEF ForTheVm, DirAt, ArgumentsRead

\* For every command line that main() accepts: the VM has the arguments in front and no
\* other one, every flag counts, and what is behind the class is its own, or nobody's
\* where --zygote is among the flags.
THEOREM ArgumentsArePartitioned == Spec => []ArgumentsRead
  <1>1. Spec => []ArgsInv
    BY ArgsInit, ArgsStep, StartInvAlways, PTL DEF Spec
  <1> QED
    BY <1>1, TypeCorrect, ArgsAreRead, PTL
-------------------------------------------------------------------------------
(* The options *)

\* The arguments of the VM, and behind them at most once what startVm() adds.
OptionsInv ==
  /\ \/ options \in Seq(ArgOption)
     \/ \E a \in Seq(ArgOption) : options = a \o StartVmOptions(setting, text)
  /\ pc \in {"vmArgs", "args", "main", "start", "vm"} => options \in Seq(ArgOption)

LEMMA OptionsInit == Init => OptionsInv
  <1>1. <<>> \in Seq(ArgOption)
    OBVIOUS
  <1> QED
    BY <1>1 DEF Init, OptionsInv

LEMMA OptionsFrame ==
  ASSUME OptionsInv, UNCHANGED <<options, setting, text>>,
         \/ pc \in {"vmArgs", "args", "main", "start", "vm"}
         \/ pc' \notin {"vmArgs", "args", "main", "start", "vm"}
  PROVE  OptionsInv'
  BY DEF OptionsInv

\* Only a round of addVmArguments() and startVm() touch mOptions, the latter once.
LEMMA OptionsStep == StartInv /\ OptionsInv /\ [Next]_vars => OptionsInv'
  <1> SUFFICES ASSUME StartInv, TypeOK, OptionsInv, [Next]_vars PROVE OptionsInv'
    BY DEF StartInv
  <1>1. CASE VmArgument
    <2>1. /\ pc = "vmArgs" /\ pc' = pc /\ options' = Append(options, Opt(argv[i], "argument"))
          /\ UNCHANGED <<setting, text>> /\ i \in 1 .. Len(argv)
      BY <1>1, ArgvType DEF VmArgument, ForVm, input, TypeOK
    <2>2. Opt(argv[i], "argument") \in ArgOption /\ options \in Seq(ArgOption)
      <3>1. argv[i] \in STRING
        BY <2>1, ArgvType
      <3> QED
        BY <2>1, <3>1 DEF ArgOption, OptionsInv
    <2>3. PICK o : o = Opt(argv[i], "argument")
      OBVIOUS
    <2>4. options' \in Seq(ArgOption)
      BY <2>1, <2>2, <2>3
    <2> QED
      BY <2>4 DEF OptionsInv
  <1>2. CASE StartVm
    <2>1. /\ pc = "vm" /\ pc' \in {"register", "gone"} /\ UNCHANGED <<setting, text>>
          /\ options' = options \o StartVmOptions(setting, text)
      BY <1>2 DEF StartVm, Goto, Ends, input
    <2>2. options \in Seq(ArgOption)
      BY <2>1 DEF OptionsInv
    <2>3. \E a \in Seq(ArgOption) : options' = a \o StartVmOptions(setting', text')
      BY <2>1, <2>2
    <2> QED
      BY <2>1, <2>3 DEF OptionsInv
  <1>3. CASE VmArgumentsEnd \/ RuntimeArgument \/ RuntimeArgumentsEnd
    BY <1>3, OptionsFrame DEF VmArgumentsEnd, RuntimeArgument, RuntimeArgumentsEnd, Goto, input
  <1>4. CASE Main \/ RootDir \/ Register \/ CallJava
    BY <1>4, OptionsFrame DEF Main, RootDir, Register, CallJava, Goto, Ends, input
  <1>5. CASE FinishInit \/ Started \/ Fork \/ ZygoteInit \/ SetExitWithoutCleanup
    BY <1>5, OptionsFrame DEF FinishInit, OnStarted, Started, Fork, ZygoteInit,
                              SetExitWithoutCleanup, InJava, Goto, input
  <1>6. CASE Exit \/ JavaReturns \/ Destroy \/ Return
    BY <1>6, OptionsFrame DEF Exit, JavaReturns, Destroy, Return, Goto, Ends, input
  <1>7. CASE Threads \/ UNCHANGED vars
    <2>1. UNCHANGED <<pc, options, setting, text>>
      BY <1>7 DEF Threads, CreateThread, Shell, ThreadEnds, input, vars
    <2> QED
      BY <2>1 DEF OptionsInv
  <1> QED
    BY <1>1, <1>2, <1>3, <1>4, <1>5, <1>6, <1>7 DEF Next, Setup, Java

LEMMA OptionsInvAlways == Spec => [](TypeOK /\ OptionsInv)
  BY OptionsInit, OptionsStep, StartInvAlways, PTL DEF Spec, StartInv

\* n arguments, the hooks, the options b, the extra ones e, and the last ones l.
AssembledAs(n, b, e, l) ==
  /\ n \in Nat /\ Row(b, 4, 29) /\ TokensFrom(text, 1, e) /\ Row(l, 30, 32) /\ Len(l) = 3
  /\ l[1] = LocaleOptions(setting)[1] /\ l[2] = LocaleOptions(setting)[2]
  /\ options \in Seq(Option) /\ Len(options) = n + 3 + Len(b) + Len(e) + 3
  /\ \A k \in 1 .. n : options[k] \in ArgOption
  /\ \A k \in 1 .. 3 : options[n + k] = Hook(k)
  /\ \A k \in 1 .. Len(b) : options[n + 3 + k] = b[k]
  /\ \A k \in 1 .. Len(e) : options[n + 3 + Len(b) + k] = e[k]
  /\ \A k \in 1 .. 3 : options[n + 3 + Len(b) + Len(e) + k] = l[k]

\* Once startVm() has put them together the options are in these five groups.
LEMMA AssembledIs ==
  ASSUME TypeOK, OptionsInv, Assembled
  PROVE  \E n, b, e, l : AssembledAs(n, b, e, l)
  <1>1. options \notin Seq(ArgOption)
    <2> SUFFICES ASSUME options \in Seq(ArgOption) PROVE FALSE
      OBVIOUS
    <2>1. PICK k \in DOMAIN options : options[k].value = "/sdcard"
      BY DEF Assembled
    <2>2. options[k] \in ArgOption
      BY <2>1
    <2> QED
      BY <2>1, <2>2 DEF ArgOption, Opt
  <1>2. PICK a \in Seq(ArgOption) : options = a \o StartVmOptions(setting, text)
    BY <1>1 DEF OptionsInv
  <1>3. IsSetting(setting) /\ text \in Seq(STRING)
    BY InputType
  <1>4. /\ a \o StartVmOptions(setting, text) \in Seq(Option)
        /\ Placed(a \o StartVmOptions(setting, text), a, Hooks, BaseOptions(setting),
                  ParseExtraOpts(text), LastOptions(setting))
    BY <1>3, OptionsArePlaced
  <1>5. PICK n, b, e, l :
          /\ n = Len(a) /\ b = BaseOptions(setting) /\ e = ParseExtraOpts(text) /\ l = LastOptions(setting)
    OBVIOUS
  <1>6. options \in Seq(Option) /\ Placed(options, a, Hooks, b, e, l)
    BY <1>2, <1>4, <1>5
  <1>7. /\ Row(b, 4, 29) /\ TokensFrom(text, 1, e) /\ Row(l, 30, 32) /\ Len(l) = 3
        /\ l[1] = LocaleOptions(setting)[1] /\ l[2] = LocaleOptions(setting)[2]
    BY <1>3, <1>5, BaseRow, ExtraOptsAreTokens, LastRow
  <1>8. n \in Nat /\ \A k \in 1 .. n : a[k] \in ArgOption
    BY <1>5
  <1>9. Len(Hooks) = 3 /\ \A p \in 1 .. 3 : Hooks[p] = Hook(p)
    BY HooksAre
  <1>10. AssembledAs(n, b, e, l)
    BY <1>5, <1>6, <1>7, <1>8, <1>9 DEF Placed, AssembledAs
  <1> QED
    BY <1>10

\* What stands where.
Kinds(n, b, e) ==
  LET x == n + 3 + Len(b)  IN
  \A k \in DOMAIN options :
    LET o == options[k] IN
    \/ k \in 1 .. n /\ o.extraInfo = "null" /\ o.value = "argument"
    \/ /\ k \in n + 1 .. n + 3 /\ o.extraInfo # "null" /\ o.value # "extra"
       /\ o.name = NameOrder[k - n] /\ At(o) = k - n
    \/ /\ k \in n + 3 + 1 .. x /\ o.extraInfo = "null" /\ o.value # "extra"
       /\ At(o) \in 4 .. 29 /\ o.name = NameOrder[At(o)]
    \/ k \in x + 1 .. x + Len(e) /\ o.extraInfo = "null" /\ o.value = "extra"
    \/ /\ k \in x + Len(e) + 1 .. x + Len(e) + 3 /\ o.extraInfo = "null" /\ o.value # "extra"
       /\ At(o) \in 30 .. 32 /\ o.name = NameOrder[At(o)]

\* Each place of the list is in one of the groups.
LEMMA KindsAre ==
  ASSUME NEW n, NEW b, NEW e, NEW l, AssembledAs(n, b, e, l)
  PROVE  /\ Kinds(n, b, e) /\ n \in Nat /\ Len(b) \in Nat /\ Len(e) \in Nat
         /\ DOMAIN options = 1 .. n + 3 + Len(b) + Len(e) + 3
         /\ Len(options) = n + 3 + Len(b) + Len(e) + 3
  <1>1. /\ n \in Nat /\ Len(b) \in Nat /\ Len(e) \in Nat
        /\ DOMAIN options = 1 .. n + 3 + Len(b) + Len(e) + 3
        /\ Len(options) = n + 3 + Len(b) + Len(e) + 3
    BY DEF AssembledAs, Row, TokensFrom
  <1>2. ASSUME NEW k \in 1 .. n
        PROVE  options[k].extraInfo = "null" /\ options[k].value = "argument"
    BY KindsDiffer DEF AssembledAs
  <1>3. ASSUME NEW k \in 1 .. 3
        PROVE  LET o == options[n + k] IN
               o.extraInfo # "null" /\ o.value # "extra" /\ o.name = NameOrder[k] /\ At(o) = k
    <2>1. PICK o : o = options[n + k] /\ o = Hook(k)
      BY DEF AssembledAs
    <2> QED
      BY <2>1, KindsDiffer
  <1>4. ASSUME NEW k \in 1 .. Len(b)
        PROVE  LET o == options[n + 3 + k] IN
               /\ o.extraInfo = "null" /\ o.value # "extra" /\ At(o) \in 4 .. 29 /\ o.name = NameOrder[At(o)]
    <2>1. PICK o : o = options[n + 3 + k] /\ o = b[k]
      BY DEF AssembledAs
    <2>2. o \in PlainOption /\ At(o) \in 4 .. 29
      BY <2>1 DEF AssembledAs, Row
    <2> QED
      BY <2>1, <2>2, KindsDiffer
  <1>5. ASSUME NEW k \in 1 .. Len(e)
        PROVE  LET o == options[n + 3 + Len(b) + k] IN o.extraInfo = "null" /\ o.value = "extra"
    <2>1. PICK o : o = options[n + 3 + Len(b) + k] /\ o = e[k]
      BY DEF AssembledAs
    <2>2. o \in ExtraOption
      BY <2>1 DEF AssembledAs, TokensFrom
    <2> QED
      BY <2>1, <2>2, KindsDiffer
  <1>6. ASSUME NEW k \in 1 .. 3
        PROVE  LET o == options[n + 3 + Len(b) + Len(e) + k] IN
               /\ o.extraInfo = "null" /\ o.value # "extra" /\ At(o) \in 30 .. 32 /\ o.name = NameOrder[At(o)]
    <2>1. PICK o : o = options[n + 3 + Len(b) + Len(e) + k] /\ o = l[k]
      BY DEF AssembledAs
    <2>2. k \in DOMAIN l /\ l \in Seq(PlainOption)
      BY DEF AssembledAs, Row
    <2>3. o \in PlainOption
      BY <2>1, <2>2
    <2>4. At(o) \in 30 .. 32
      BY <2>1, <2>2 DEF AssembledAs, Row
    <2> QED
      BY <2>1, <2>3, <2>4, KindsDiffer
  <1>7. Kinds(n, b, e)
    <2> SUFFICES ASSUME NEW k \in 1 .. n + 3 + Len(b) + Len(e) + 3
                 PROVE  LET o == options[k]
                            x == n + 3 + Len(b)  IN
                        \/ k \in 1 .. n /\ o.extraInfo = "null" /\ o.value = "argument"
                        \/ /\ k \in n + 1 .. n + 3 /\ o.extraInfo # "null" /\ o.value # "extra"
                           /\ o.name = NameOrder[k - n] /\ At(o) = k - n
                        \/ /\ k \in n + 3 + 1 .. x /\ o.extraInfo = "null" /\ o.value # "extra"
                           /\ At(o) \in 4 .. 29 /\ o.name = NameOrder[At(o)]
                        \/ k \in x + 1 .. x + Len(e) /\ o.extraInfo = "null" /\ o.value = "extra"
                        \/ /\ k \in x + Len(e) + 1 .. x + Len(e) + 3 /\ o.extraInfo = "null"
                           /\ o.value # "extra" /\ At(o) \in 30 .. 32
                           /\ o.name = NameOrder[At(o)]
      BY <1>1 DEF Kinds
    <2>1. CASE k \in 1 .. n
      BY <1>2, <2>1
    <2>2. CASE k - n \in 1 .. 3
      <3>1. n + (k - n) = k /\ k \in n + 1 .. n + 3
        BY <1>1, <2>2
      <3> QED
        BY <1>3, <2>2, <3>1
    <2>3. CASE k - (n + 3) \in 1 .. Len(b)
      <3>1. n + 3 + (k - (n + 3)) = k /\ k \in n + 3 + 1 .. n + 3 + Len(b)
        BY <1>1, <2>3
      <3> QED
        BY <1>4, <2>3, <3>1
    <2>4. CASE k - (n + 3 + Len(b)) \in 1 .. Len(e)
      <3>1. /\ n + 3 + Len(b) + (k - (n + 3 + Len(b))) = k
            /\ k \in n + 3 + Len(b) + 1 .. n + 3 + Len(b) + Len(e)
        BY <1>1, <2>4
      <3> QED
        BY <1>5, <2>4, <3>1
    <2>5. CASE k - (n + 3 + Len(b) + Len(e)) \in 1 .. 3
      <3>1. /\ n + 3 + Len(b) + Len(e) + (k - (n + 3 + Len(b) + Len(e))) = k
            /\ k \in n + 3 + Len(b) + Len(e) + 1 .. n + 3 + Len(b) + Len(e) + 3
        BY <1>1, <2>5
      <3> QED
        BY <1>6, <2>5, <3>1
    <2>6. \/ k \in 1 .. n \/ k - n \in 1 .. 3 \/ k - (n + 3) \in 1 .. Len(b)
          \/ k - (n + 3 + Len(b)) \in 1 .. Len(e)
          \/ k - (n + 3 + Len(b) + Len(e)) \in 1 .. 3
      BY <1>1
    <2> QED
      BY <2>1, <2>2, <2>3, <2>4, <2>5, <2>6
  <1> QED
    BY <1>1, <1>7

-------------------------------------------------------------------------------
\* The options that carry a function are those right behind the arguments.
LEMMA HooksAreAlone == TypeOK /\ OptionsInv => HooksAlone
  <1> SUFFICES ASSUME TypeOK, OptionsInv, Assembled PROVE HooksAlone
    BY DEF HooksAlone
  <1>1. PICK n, b, e, l : AssembledAs(n, b, e, l)
    BY AssembledIs
  <1>2. /\ Kinds(n, b, e) /\ n \in Nat /\ Len(b) \in Nat /\ Len(e) \in Nat
        /\ DOMAIN options = 1 .. n + 3 + Len(b) + Len(e) + 3
    BY <1>1, KindsAre
  <1>3. PICK hooks : hooks = {k \in DOMAIN options : options[k].extraInfo # "null"}
    OBVIOUS
  <1>4. hooks = n + 1 .. n + 3
    <2>1. \A k \in DOMAIN options : options[k].extraInfo # "null" => k \in n + 1 .. n + 3
      BY <1>2 DEF Kinds
    <2>2. ASSUME NEW k \in n + 1 .. n + 3 PROVE k \in DOMAIN options /\ options[k].extraInfo # "null"
      <3>1. k \in DOMAIN options
        BY <1>2
      <3> QED
        BY <1>2, <3>1 DEF Kinds
    <2> QED
      BY <1>3, <2>1, <2>2
  <1>5. Cardinality(hooks) = 3
    <2>1. Cardinality(n + 1 .. n + 3) = IF n + 1 > n + 3 THEN 0 ELSE n + 3 - (n + 1) + 1
      BY <1>2, FS_Interval
    <2> QED
      BY <1>2, <1>4, <2>1
  <1>6. ASSUME NEW c \in 1 .. 3
        PROVE  <<options[n + c].name, options[n + c].extraInfo>> = <<NameOrder[c], Function[c]>>
    <2>1. PICK h : h = options[n + c] /\ h = Hook(c)
      BY <1>1 DEF AssembledAs
    <2>2. h = [name |-> NameOrder[c], value |-> "", extraInfo |-> Function[c]]
      BY <2>1, Zenon DEF Hook
    <2>3. PICK m, f : m = NameOrder[c] /\ f = Function[c]
      OBVIOUS
    <2>4. h = [name |-> m, value |-> "", extraInfo |-> f]
      BY <2>2, <2>3, Zenon
    <2>5. h.name = m /\ h.extraInfo = f
      BY <2>4
    <2> QED
      BY <2>1, <2>3, <2>5
  <1>7. hooks = {n + 1, n + 2, n + 3}
    BY <1>2, <1>4
  <1>8. {<<options[k].name, options[k].extraInfo>> : k \in hooks} =
          {<<NameOrder[c], Function[c]>> : c \in 1 .. 3}
    <2>1. {<<options[k].name, options[k].extraInfo>> : k \in hooks}
            = {<<options[n + 1].name, options[n + 1].extraInfo>>,
               <<options[n + 2].name, options[n + 2].extraInfo>>,
               <<options[n + 3].name, options[n + 3].extraInfo>>}
      BY <1>7
    <2>2. {<<NameOrder[c], Function[c]>> : c \in 1 .. 3}
            = {<<NameOrder[1], Function[1]>>, <<NameOrder[2], Function[2]>>,
               <<NameOrder[3], Function[3]>>}
      <3>1. 1 .. 3 = {1, 2, 3}
        OBVIOUS
      <3> QED
        BY <3>1
    <2>3. 1 \in 1 .. 3 /\ 2 \in 1 .. 3 /\ 3 \in 1 .. 3
      OBVIOUS
    <2> QED
      BY <1>6, <2>1, <2>2, <2>3
  <1>9. {<<NameOrder[c], Function[c]>> : c \in 1 .. 3} =
          {<<"exit", "runtime_exit">>, <<"vfprintf", "runtime_vfprintf">>,
           <<"sensitiveThread", "runtime_isSensitiveThread">>}
    <2>1. 1 .. 3 = {1, 2, 3}
      OBVIOUS
    <2>2. /\ Function[1] = "runtime_exit" /\ Function[2] = "runtime_vfprintf"
          /\ Function[3] = "runtime_isSensitiveThread"
      BY DEF Function
    <2> QED
      BY <2>1, <2>2, NameOrderIs
  <1> QED
    BY <1>3, <1>5, <1>8, <1>9 DEF HooksAlone

\* For every command line, setting and text of extra options: the functions that startVm()
\* passes in its one JavaVMOption stay with their three hooks.
THEOREM HooksAlwaysAlone == Spec => []HooksAlone
  BY OptionsInvAlways, HooksAreAlone, PTL

-------------------------------------------------------------------------------
\* The last options but one are the two of the locale, of the one or the other origin.
LEMMA LocaleIs == TypeOK /\ OptionsInv => LocaleOfOneOrigin
  <1> SUFFICES ASSUME TypeOK, OptionsInv, Assembled PROVE LocaleOfOneOrigin
    BY DEF LocaleOfOneOrigin
  <1>1. PICK n, b, e, l : AssembledAs(n, b, e, l)
    BY AssembledIs
  <1>2. /\ n \in Nat /\ Len(b) \in Nat /\ Len(e) \in Nat
        /\ DOMAIN options = 1 .. n + 3 + Len(b) + Len(e) + 3
    BY <1>1, KindsAre
  <1>3. PICK k : k = n + 3 + Len(b) + Len(e) + 1
    OBVIOUS
  <1>4. k \in DOMAIN options /\ k + 1 = n + 3 + Len(b) + Len(e) + 2
    BY <1>2, <1>3
  <1>5. options[k] = l[1] /\ options[k + 1] = l[2]
    BY <1>1, <1>3, <1>4 DEF AssembledAs
  <1>6. /\ options[k] = Opt("-Duser.language=", ReadLocale(setting)[1])
        /\ options[k + 1] = Opt("-Duser.region=", ReadLocale(setting)[2])
    BY <1>1, <1>5 DEF AssembledAs, LocaleOptions
  <1>7. PICK lang, country :
          lang = setting["persist.sys.language"] /\ country = setting["persist.sys.country"]
    OBVIOUS
  <1>8. CASE lang = "" /\ country = ""
    <2>1. /\ ReadLocale(setting)[1] = Get(setting, "ro.product.locale.language", "en")
          /\ ReadLocale(setting)[2] = Get(setting, "ro.product.locale.region", "US")
      BY <1>7, <1>8 DEF ReadLocale
    <2>2. PICK o : o = <<"ro.product.locale.language", "ro.product.locale.region", "en", "US">>
      OBVIOUS
    <2>3. /\ options[k] = Opt("-Duser.language=", Get(setting, o[1], o[3]))
          /\ options[k + 1] = Opt("-Duser.region=", Get(setting, o[2], o[4]))
      BY <1>6, <2>1, <2>2
    <2> QED
      BY <1>4, <2>2, <2>3 DEF LocaleOfOneOrigin
  <1>9. CASE ~(lang = "" /\ country = "")
    <2>1. ReadLocale(setting)[1] = lang /\ ReadLocale(setting)[2] = country
      BY <1>7, <1>9 DEF ReadLocale
    <2>2. /\ Get(setting, "persist.sys.language", "") = lang
          /\ Get(setting, "persist.sys.country", "") = country
      BY <1>7 DEF Get
    <2>3. PICK o : o = <<"persist.sys.language", "persist.sys.country", "", "">>
      OBVIOUS
    <2>4. /\ options[k] = Opt("-Duser.language=", Get(setting, o[1], o[3]))
          /\ options[k + 1] = Opt("-Duser.region=", Get(setting, o[2], o[4]))
      BY <1>6, <2>1, <2>2, <2>3
    <2> QED
      BY <1>4, <2>3, <2>4 DEF LocaleOfOneOrigin
  <1> QED
    BY <1>8, <1>9

\* For every setting of the properties, language and region of the VM have one origin.
THEOREM LocaleAlwaysOfOneOrigin == Spec => []LocaleOfOneOrigin
  BY OptionsInvAlways, LocaleIs, PTL

-------------------------------------------------------------------------------
\* Of two options of startVm() with one name, the later one is an extra one or behind
\* the extra ones.
LEMMA OverriddenIs == TypeOK /\ OptionsInv => OptionsOverridden
  <1> SUFFICES ASSUME TypeOK, OptionsInv, Assembled,
                      NEW j \in DOMAIN options, NEW k \in DOMAIN options,
                      j < k, options[j].name = options[k].name
               PROVE  \/ options[j].value = "argument"
                      \/ options[k].value = "extra"
                      \/ options[k].name \in {"-Duser.language=", "-Duser.region=",
                                              "-Djava.io.tmpdir="}
    BY DEF OptionsOverridden
  <1>1. PICK n, b, e, l : AssembledAs(n, b, e, l)
    BY AssembledIs
  <1>2. /\ Kinds(n, b, e) /\ n \in Nat /\ Len(b) \in Nat /\ Len(e) \in Nat
        /\ DOMAIN options = 1 .. n + 3 + Len(b) + Len(e) + 3
    BY <1>1, KindsAre
  <1>3. At(options[j]) = At(options[k])
    BY DEF At
  <1>4. PICK x, y : x = n + 3 + Len(b) /\ y = x + Len(e)
    OBVIOUS
  <1>5. x \in Nat /\ y \in Nat /\ n + 3 <= x /\ x <= y
    BY <1>2, <1>4
  <1>6. \A c \in DOMAIN options :
          \/ options[c].value = "argument" /\ c \in 1 .. n
          \/ options[c].value = "extra" /\ c \in x + 1 .. y
          \/ c \in n + 1 .. n + 3 /\ At(options[c]) = c - n
          \/ c \in n + 3 + 1 .. x /\ At(options[c]) \in 4 .. 29
          \/ /\ c \in y + 1 .. y + 3 /\ At(options[c]) \in 30 .. 32
             /\ options[c].name = NameOrder[At(options[c])]
    BY <1>2, <1>4 DEF Kinds
  <1>7. CASE options[j].value = "argument" \/ options[k].value = "extra"
    BY <1>7
  <1>8. CASE k \in 1 .. n
    BY <1>2, <1>5, <1>6, <1>8
  <1>9. CASE k \in y + 1 .. y + 3 /\ At(options[k]) \in 30 .. 32
               /\ options[k].name = NameOrder[At(options[k])]
    <2>1. At(options[k]) = 30 \/ At(options[k]) = 31 \/ At(options[k]) = 32
      BY <1>9
    <2> QED
      BY <1>9, <2>1, NameOrderIs
  <1>10. CASE k \in n + 1 .. n + 3 /\ At(options[k]) = k - n
    <2>1. options[j].value = "argument" \/ (j \in n + 1 .. n + 3 /\ At(options[j]) = j - n)
      BY <1>2, <1>5, <1>6, <1>10
    <2> QED
      BY <1>2, <1>3, <1>10, <2>1
  <1>11. CASE k \in n + 3 + 1 .. x /\ At(options[k]) \in 4 .. 29
    <2>1. CASE j \in n + 3 + 1 .. x
      <3>1. At(options[j]) < At(options[k])
        <4>1. PICK p, r : p = j - (n + 3) /\ r = k - (n + 3)
          OBVIOUS
        <4>2. /\ p \in 1 .. Len(b) /\ r \in 1 .. Len(b) /\ p < r
              /\ j = n + 3 + p /\ k = n + 3 + r
          <5>1. j \in n + 3 + 1 .. n + 3 + Len(b) /\ k \in n + 3 + 1 .. n + 3 + Len(b)
            BY <1>4, <1>11, <2>1
          <5> QED
            BY <1>2, <4>1, <5>1
        <4>3. options[j] = b[p] /\ options[k] = b[r]
          BY <1>1, <4>2 DEF AssembledAs
        <4>4. p \in DOMAIN b /\ r \in DOMAIN b
          BY <1>1, <4>2 DEF AssembledAs, Row
        <4>5. At(b[p]) < At(b[r])
          BY <1>1, <4>2, <4>4 DEF AssembledAs, Row
        <4> QED
          BY <4>3, <4>5
      <3>2. At(options[j]) \in Nat
        BY <1>3, <1>11
      <3> QED
        BY <1>3, <3>1, <3>2
    <2>2. CASE j \notin n + 3 + 1 .. x
      <3>1. options[j].value = "argument" \/ (j \in n + 1 .. n + 3 /\ At(options[j]) = j - n)
        BY <1>2, <1>5, <1>6, <1>11, <2>2
      <3>2. CASE options[j].value = "argument"
        BY <3>2
      <3>3. CASE j \in n + 1 .. n + 3 /\ At(options[j]) = j - n
        <4>1. At(options[j]) \in 1 .. 3
          BY <1>2, <3>3
        <4> QED
          BY <1>3, <1>11, <4>1
      <3> QED
        BY <3>1, <3>2, <3>3
    <2> QED
      BY <2>1, <2>2
  <1> QED
    BY <1>6, <1>7, <1>8, <1>9, <1>10, <1>11

\* For every setting and text, an option of startVm() is overridden by an extra one or
\* one of the last three, never by another property.
THEOREM OptionsAlwaysOverridden == Spec => []OptionsOverridden
  BY OptionsInvAlways, OverriddenIs, PTL

-------------------------------------------------------------------------------
\* The extra options stand one behind the other, a token each.
LEMMA ExtraIs == TypeOK /\ OptionsInv => ExtraOptionsRead
  <1> SUFFICES ASSUME TypeOK, OptionsInv, Assembled PROVE ExtraOptionsRead
    BY DEF ExtraOptionsRead
  <1>1. PICK n, b, e, l : AssembledAs(n, b, e, l)
    BY AssembledIs
  <1>2. /\ Kinds(n, b, e) /\ n \in Nat /\ Len(b) \in Nat /\ Len(e) \in Nat
        /\ DOMAIN options = 1 .. n + 3 + Len(b) + Len(e) + 3
        /\ Len(options) = n + 3 + Len(b) + Len(e) + 3
    BY <1>1, KindsAre
  <1>3. text \in Seq(STRING)
    BY InputType
  <1>4. PICK m : m = n + 3 + Len(b)
    OBVIOUS
  <1>5. m \in 0 .. Len(options) /\ m + Len(e) <= Len(options)
    BY <1>2, <1>4
  <1>6. {k \in DOMAIN options : options[k].value = "extra"} = m + 1 .. m + Len(e)
    <2>1. ASSUME NEW k \in DOMAIN options, options[k].value = "extra"
          PROVE  k \in m + 1 .. m + Len(e)
      BY <1>2, <1>4, <2>1 DEF Kinds
    <2>2. ASSUME NEW k \in m + 1 .. m + Len(e)
          PROVE  k \in DOMAIN options /\ options[k].value = "extra"
      <3>1. k \in DOMAIN options
        BY <1>2, <1>4
      <3> QED
        BY <1>2, <1>4, <3>1 DEF Kinds
    <2> QED
      BY <2>1, <2>2
  <1>7. StartsFrom(text, 1) = Starts
    BY <1>3 DEF StartsFrom, TokenStarts, Starts
  <1>8. Between(text, 1)
    BY DEF Between
  <1>9. /\ Len(e) = Cardinality(Starts)
        /\ \A k \in Starts : e[Cardinality(StartsTo(text, 1, k))].name = TokenName(text, k)
    BY <1>1, <1>7, <1>8 DEF AssembledAs, TokensFrom
  <1>10. ASSUME NEW k \in Starts
         PROVE  options[m + Cardinality({j \in Starts : j <= k})].name =
                  IF k = Len(text) \/ text[k + 1] = Blank THEN text[k] ELSE "unrecognised"
    <2>1. PICK c : c = Cardinality({j \in Starts : j <= k})
      OBVIOUS
    <2>2. StartsTo(text, 1, k) = {j \in Starts : j <= k}
      BY <1>3 DEF StartsTo, TokenStarts, Starts
    <2>3. c \in 1 .. Len(e)
      <3>1. IsFiniteSet(Starts)
        <4>1. IsFiniteSet(StartsFrom(text, 1))
          BY <1>3, StartsFinite
        <4> QED
          BY <1>7, <4>1
      <3>2. {j \in Starts : j <= k} \subseteq Starts
        OBVIOUS
      <3>3. /\ IsFiniteSet({j \in Starts : j <= k}) /\ c \in Nat
            /\ c <= Cardinality(Starts)
        BY <2>1, <3>1, <3>2, FS_Subset, FS_CardinalityType
      <3>4. k \in {j \in Starts : j <= k}
        BY <1>3 DEF Starts
      <3>5. c # 0
        BY <2>1, <3>3, <3>4, FS_EmptySet
      <3> QED
        BY <1>9, <3>3, <3>5
    <2>4. options[m + c] = e[c]
      BY <1>1, <1>4, <2>3 DEF AssembledAs
    <2>5. e[c].name = TokenName(text, k)
      BY <1>9, <2>1, <2>2
    <2> QED
      BY <2>1, <2>4, <2>5 DEF TokenName
  <1>11. {k \in DOMAIN options : options[k].value = "extra"} = m + 1 .. m + Cardinality(Starts)
    BY <1>6, <1>9
  <1> QED
    BY <1>5, <1>10, <1>11 DEF ExtraOptionsRead

\* For every text of extra options, each token becomes one option, in order, and
\* nothing else does.
THEOREM ExtraOptionsAlwaysRead == Spec => []ExtraOptionsRead
  BY OptionsInvAlways, ExtraIs, PTL
===============================================================================
