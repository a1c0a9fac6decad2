------------------------------- MODULE Launcher -------------------------------
(***************************************************************************)
(* shashlik_launcher: main() of src/src/launcher/main.cpp, AppRuntime, and *)
(* the runtime that it inherits, in the repository's copy                  *)
(* src/src/launcher/runtime/ShashlikRuntime.cpp.  The build links          *)
(* Android's own runtime in place of the copy; what the copy has disabled  *)
(* for now (gCurRuntime is never set) is modelled as it is there, enabled. *)
(*                                                                         *)
(* A process reads its arguments, creates the VM, registers the native     *)
(* functions and runs a Java class, which calls back.  The VM and the Java *)
(* code are external.  A fork of the zygote is followed into the child;    *)
(* the parent is where it was.                                             *)
(***************************************************************************)
EXTENDS VmOptions, FiniteSets

CONSTANTS
  CommandLine,  \* sequences of arguments
  Dashed,       \* arguments that begin with a dash, beside those below
  Setting,      \* what the properties may be
  Text,         \* what dalvik.vm.extra-opts may be
  Known,        \* options the VM recognises
  Natives,      \* the length of gRegJNI
  Thread        \* threads that exist at once

\* What main() compares with; "--nice-name=" with any name, even an empty one.
Flags == {"--zygote", "--start-system-server", "--application", "--nice-name="}
Dash == Dashed \cup Flags \cup {"--"}

ASSUME CommandLineAssumption ==
  \A a \in CommandLine : a \in Seq(STRING) /\ \A k \in DOMAIN a : a[k] # "none"

\* Strings; "extra" and "argument" mark where an option comes from, so that no
\* property has one of these two for its value here.
ASSUME SettingAssumption ==
  \A s \in Setting :
    s \in [Prop -> STRING] /\ \A p \in Prop : s[p] \notin {"extra", "argument"}

ASSUME TextAssumption == \A t \in Text : t \in Seq(STRING)
ASSUME NativesAssumption == Natives \in Nat

VARIABLES
  argv, i,      \* the arguments after the program's name, the next one to be read
  setting,      \* the properties, when startVm() reads them
  text,         \* dalvik.vm.extra-opts, when startVm() reads it
  pc,           \* where main() is
  options,      \* mOptions
  dir,          \* parentDir has been read
  seen,         \* the flags that have been read
  class,        \* className of main(), or "none"
  mode,         \* "zygote" if m_className is NULL, "class" if not
  rest,         \* m_argV
  found,        \* m_class is not NULL
  vm,           \* "none", "up" or "down"
  registered,   \* how many elements of gRegJNI are registered
  pool,         \* the pool of binder threads runs
  forked,       \* this process is a child of the zygote
  skip,         \* mExitWithoutCleanup
  ended,        \* how the process ended
  thread        \* thread[t]: where a thread of javaCreateThreadEtc() is

input == <<argv, setting, text>>
parsed == <<i, dir, seen, class>>
runtime == <<mode, rest, found, vm, registered>>
life == <<pool, forked, skip>>

vars == <<input, pc, options, parsed, runtime, life, ended, thread>>

TypeOK ==
  /\ argv \in CommandLine /\ setting \in Setting /\ text \in Text
  /\ i \in 1 .. Len(argv) + 1 /\ dir \in BOOLEAN /\ seen \subseteq Flags
  /\ pc \in {"vmArgs", "args", "main", "start", "vm", "register", "java", "callMain",
             "down", "return", "gone"}
  /\ mode \in {"none", "zygote", "class"}
  /\ found \in BOOLEAN /\ pool \in BOOLEAN /\ forked \in BOOLEAN /\ skip \in BOOLEAN
  /\ vm \in {"none", "up", "down"}
  /\ registered \in 0 .. Natives
  /\ ended \in {"no", "abort", "returned", "exit", "_exit"}
  /\ thread \in [Thread -> {"none", "new", "running"}]

Init ==
  /\ argv \in CommandLine /\ setting \in Setting /\ text \in Text
  /\ pc = "vmArgs" /\ options = <<>>
  /\ i = 1 /\ dir = FALSE /\ seen = {} /\ class = "none"
  /\ mode = "none" /\ rest = <<>> /\ found = FALSE /\ vm = "none" /\ registered = 0
  /\ pool = FALSE /\ forked = FALSE /\ skip = FALSE
  /\ ended = "no"
  /\ thread = [t \in Thread |-> "none"]

Ends(how) == pc' = "gone" /\ ended' = how
Goto(there) == pc' = there /\ UNCHANGED ended

-------------------------------------------------------------------------------
(* The arguments *)

ForVm == i <= Len(argv) /\ argv[i] \in Dash \ {"--"}

\* A round of addVmArguments().
VmArgument ==
  /\ pc = "vmArgs" /\ ForVm
  /\ options' = Append(options, Opt(argv[i], "argument"))
  /\ i' = i + 1
  /\ UNCHANGED <<input, pc, dir, seen, class, runtime, life, ended, thread>>

\* Slip: "--" is left to main().
VmArgumentsEndSlip ==
  /\ pc = "vmArgs" /\ ~ForVm
  /\ Goto("args")
  /\ UNCHANGED <<input, options, parsed, runtime, life, thread>>

\* addVmArguments() returns; "--" counts as one of its arguments.
VmArgumentsEnd ==
  /\ pc = "vmArgs" /\ ~ForVm
  /\ Goto("args")
  /\ i' = IF i <= Len(argv) /\ argv[i] = "--" THEN i + 1 ELSE i
  /\ UNCHANGED <<input, options, dir, seen, class, runtime, life, thread>>

\* A round of the loop in main(): the first argument is the directory, whatever it
\* is, and the first one that is no flag is the class.
RuntimeArgument ==
  /\ pc = "args" /\ i <= Len(argv)
  /\ i' = i + 1
  /\ \/ ~dir /\ dir' = TRUE /\ UNCHANGED <<pc, seen, class>>
     \/ dir /\ argv[i] \in Flags /\ seen' = seen \cup {argv[i]} /\ UNCHANGED <<pc, dir, class>>
     \/ dir /\ argv[i] \notin Flags /\ class' = argv[i] /\ pc' = "main" /\ UNCHANGED <<dir, seen>>
  /\ UNCHANGED <<input, options, runtime, life, ended, thread>>

\* The arguments end before a class is named.
RuntimeArgumentsEnd ==
  /\ pc = "args" /\ i > Len(argv)
  /\ Goto("main")
  /\ UNCHANGED <<input, options, parsed, runtime, life, thread>>

\* The arguments for main() of the class.
Rest == SubSeq(argv, i, Len(argv))

\* The zygote comes before a class; neither is fatal.
Main ==
  /\ pc = "main"
  /\ \/ "--zygote" \in seen /\ mode' = "zygote" /\ Goto("start") /\ UNCHANGED rest
     \/ "--zygote" \notin seen /\ class # "none" /\ mode' = "class" /\ Goto("start") /\ rest' = Rest
     \/ "--zygote" \notin seen /\ class = "none" /\ Ends("abort") /\ UNCHANGED <<mode, rest>>
  /\ UNCHANGED <<input, options, parsed, found, vm, registered, life, thread>>

-------------------------------------------------------------------------------
(* start() *)

\* Without ANDROID_ROOT and without /system it returns, and main() with it.
RootDir ==
  /\ pc = "start"
  /\ Goto("vm") \/ Ends("returned")
  /\ UNCHANGED <<input, options, parsed, runtime, life, thread>>

\* The VM knows the hooks, too.
Recognised(opts) ==
  \A k \in DOMAIN opts : opts[k].name \in {"exit", "vfprintf", "sensitiveThread"} \cup Known

\* AppRuntime::onVmCreated() looks for the class, early enough to find it.
OnVmCreated == found' \in IF mode = "class" THEN BOOLEAN ELSE {FALSE}

\* startVm() and what follows in start().
StartVm ==
  /\ pc = "vm"
  /\ options' = options \o StartVmOptions(setting, text)
  /\ \/ /\ Recognised(options') /\ vm' = "up" /\ Goto("register") /\ OnVmCreated
     \/ Ends("returned") /\ UNCHANGED <<found, vm>>
  /\ UNCHANGED <<input, parsed, mode, rest, registered, life, thread>>

\* Slip: a function that fails is passed over.
RegisterSlip ==
  /\ pc = "register" /\ registered < Natives
  /\ \/ registered' = registered + 1 /\ UNCHANGED <<pc, ended>>
     \/ Goto("java") /\ UNCHANGED registered
  /\ UNCHANGED <<input, options, parsed, mode, rest, found, vm, life, thread>>

\* Slip: one function too many.
RegisterBeyondSlip ==
  /\ pc = "register" /\ registered <= Natives
  /\ \/ registered' = registered + 1 /\ UNCHANGED <<pc, ended>>
     \/ Ends("returned") /\ UNCHANGED registered
  /\ UNCHANGED <<input, options, parsed, mode, rest, found, vm, life, thread>>

\* A round of register_jni_procs(); the first function that fails ends it all.
Register ==
  /\ pc = "register" /\ registered < Natives
  /\ \/ registered' = registered + 1 /\ UNCHANGED <<pc, ended>>
     \/ Ends("returned") /\ UNCHANGED registered
  /\ UNCHANGED <<input, options, parsed, mode, rest, found, vm, life, thread>>

\* main() of ZygoteInit or RuntimeInit is called, if it is there.
CallJava ==
  /\ pc = "register" /\ registered = Natives
  /\ Goto("java") \/ Goto("down")
  /\ UNCHANGED <<input, options, parsed, runtime, life, thread>>

JavaReturns ==
  /\ pc = "java"
  /\ Goto("down")
  /\ UNCHANGED <<input, options, parsed, runtime, life, thread>>

\* DestroyJavaVM() waits for the threads that are attached.
Destroy ==
  /\ pc = "down"
  /\ \A t \in Thread : thread[t] # "running"
  /\ vm' = "down" /\ Goto("return")
  /\ UNCHANGED <<input, options, parsed, mode, rest, found, registered, life, thread>>

\* start() returns, and main() with it; threads that are not attached are lost.
Return ==
  /\ pc = "return"
  /\ Ends("returned")
  /\ UNCHANGED <<input, options, parsed, runtime, life, thread>>

-------------------------------------------------------------------------------
(* What Java code calls *)

\* AppRuntime::onStarted() up to the call of main() of the class.
OnStarted == pool' = TRUE /\ Goto("callMain")

\* nativeFinishInit() of RuntimeInit.
FinishInit ==
  /\ pc = "java" /\ mode = "class"
  /\ OnStarted
  /\ UNCHANGED <<input, options, parsed, runtime, forked, skip, thread>>

\* Slip: an early return when there was no class to call.
StartedSlip ==
  /\ pc = "callMain"
  /\ pool' = (pool /\ ~found)
  /\ Goto("java")
  /\ UNCHANGED <<input, options, parsed, runtime, forked, skip, thread>>

\* callMain() returned, at once if the class was not found: onStarted() ends.
Started ==
  /\ pc = "callMain"
  /\ pool' = FALSE
  /\ Goto("java")
  /\ UNCHANGED <<input, options, parsed, runtime, forked, skip, thread>>

\* The zygote forks, alone in its process.
Fork ==
  /\ pc = "java" /\ mode = "zygote" /\ ~forked
  /\ \A t \in Thread : thread[t] = "none"
  /\ forked' = TRUE
  /\ UNCHANGED <<input, pc, options, parsed, runtime, pool, skip, ended, thread>>

OnZygoteInit == pool' = TRUE

\* nativeZygoteInit(), called in the child.
ZygoteInit ==
  /\ pc = "java" /\ forked
  /\ OnZygoteInit
  /\ UNCHANGED <<input, pc, options, parsed, runtime, forked, skip, ended, thread>>

InJava == pc = "java" \/ (pc = "callMain" /\ found)

\* Code that the VM runs, of main() or of a thread, can call back.
CodeRuns == InJava \/ (pc # "gone" /\ \E t \in Thread : thread[t] = "running")

SetExitWithoutCleanup ==
  /\ InJava
  /\ skip' \in BOOLEAN
  /\ UNCHANGED <<input, pc, options, parsed, runtime, pool, forked, ended, thread>>

\* AppRuntime::onExit(), also in the children of the zygote.
OnExit == pool' = (pool /\ mode = "class")

\* The exit hook of the VM.
Exit ==
  /\ CodeRuns
  /\ \/ skip /\ Ends("_exit") /\ UNCHANGED pool
     \/ ~skip /\ OnExit /\ Ends("exit")
  /\ UNCHANGED <<input, options, parsed, runtime, forked, skip, thread>>

-------------------------------------------------------------------------------
(* Threads of javaCreateThreadEtc(), set as the function that makes threads by *)
(* startReg().                                                                 *)

\* Made by code the VM runs; a thread that cannot be made is none.
CreateThread(t) ==
  /\ CodeRuns
  /\ mode = "zygote" => forked
  /\ thread[t] = "none"
  /\ thread' = [thread EXCEPT ![t] = "new"]
  /\ UNCHANGED <<input, pc, options, parsed, runtime, life, ended>>

\* javaThreadShell() attaches the thread to the VM and runs it, or returns; a VM
\* that is destroyed refuses.
Shell(t) ==
  /\ pc # "gone" /\ thread[t] = "new"
  /\ \/ vm = "up" /\ thread' = [thread EXCEPT ![t] = "running"]
     \/ thread' = [thread EXCEPT ![t] = "none"]
  /\ UNCHANGED <<input, pc, options, parsed, runtime, life, ended>>

\* It detaches.
ThreadEnds(t) ==
  /\ pc # "gone" /\ thread[t] = "running"
  /\ thread' = [thread EXCEPT ![t] = "none"]
  /\ UNCHANGED <<input, pc, options, parsed, runtime, life, ended>>

-------------------------------------------------------------------------------
Setup == VmArgument \/ VmArgumentsEnd \/ RuntimeArgument \/ RuntimeArgumentsEnd \/ Main
           \/ RootDir \/ StartVm \/ Register \/ CallJava
Java == FinishInit \/ Started \/ Fork \/ ZygoteInit \/ SetExitWithoutCleanup \/ Exit
          \/ JavaReturns \/ Destroy \/ Return
Threads == \E t \in Thread : CreateThread(t) \/ Shell(t) \/ ThreadEnds(t)

Next == Setup \/ Java \/ Threads

Spec == Init /\ [][Next]_vars

-------------------------------------------------------------------------------
(* Properties *)

\* The arguments fall into parts.  The VM got those in front that begin with a dash,
\* in order, and no other one; one "--" may follow, which nobody gets; then come the
\* directory, the flags, all of which count, and perhaps a class.  What is behind the
\* class, flags and "--" too, is all for its main(), as the usage text says; but with
\* --zygote the class and all behind it are for nobody, and no error either.
ArgumentsRead ==
  mode # "none" =>
    \E a, e \in 0 .. Len(argv), d \in 1 .. Len(argv) :
      /\ {k \in DOMAIN options : options[k].value = "argument"} = 1 .. a
      /\ \A k \in 1 .. a : argv[k] \in Dash \ {"--"} /\ options[k].name = argv[k]
      /\ \/ d = a + 1 /\ argv[d] \notin Dash
         \/ d = a + 2 /\ argv[d - 1] = "--"
      /\ d <= e /\ seen = {argv[k] : k \in d + 1 .. e} /\ seen \subseteq Flags
      /\ IF e = Len(argv) THEN class = "none" ELSE class = argv[e + 1] /\ class \notin Flags
      /\ IF "--zygote" \in seen THEN mode = "zygote" /\ rest = <<>>
         ELSE mode = "class" /\ e < Len(argv) /\ rest = SubSeq(argv, e + 2, Len(argv))

\* startVm() has put its options together: the last one is there.
Assembled ==
  \E k \in DOMAIN options :
    options[k].name = "-Djava.io.tmpdir=" /\ options[k].value = "/sdcard"

\* Options of startVm() come after those of the command line and before the locale
\* and the directory for temporary files; extra options are "late, so that it
\* overrides others" (ShashlikRuntime.cpp:759), all but those last three.
OptionsOverridden ==
  Assembled =>
    \A j, k \in DOMAIN options :
      j < k /\ options[j].name = options[k].name /\ options[j] # options[k] =>
        \/ options[j].value = "argument"
        \/ options[k].value = "extra"
        \/ options[k].name \in {"-Duser.language=", "-Duser.region=", "-Djava.io.tmpdir="}

\* Pieces that begin a token of the extra options.
Starts == {k \in DOMAIN text : text[k] # Blank /\ (k = 1 \/ text[k - 1] = Blank)}

\* The extra options, one behind the other, are the runs of pieces between blanks, each
\* once, in order, whatever blanks are in front, at the end or doubled.
ExtraOptionsRead ==
  Assembled =>
    \E m \in 0 .. Len(options) :
      /\ {k \in DOMAIN options : options[k].value = "extra"} = m + 1 .. m + Cardinality(Starts)
      /\ \A k \in Starts :
           options[m + Cardinality({j \in Starts : j <= k})].name =
             IF k = Len(text) \/ text[k + 1] = Blank THEN text[k] ELSE "unrecognised"

\* Although one JavaVMOption serves for all options of startVm(), each of the three
\* hooks carries its own function and no other option carries one.
HooksAlone ==
  Assembled =>
    LET hooks == {k \in DOMAIN options : options[k].extraInfo # "null"} IN
    /\ Cardinality(hooks) = 3
    /\ {<<options[k].name, options[k].extraInfo>> : k \in hooks} =
         {<<"exit", "runtime_exit">>, <<"vfprintf", "runtime_vfprintf">>,
          <<"sensitiveThread", "runtime_isSensitiveThread">>}

\* The locale is one that somebody set, or the product's: its language and region
\* have one origin.
LocaleOfOneOrigin ==
  Assembled =>
    \E o \in {<<"persist.sys.language", "persist.sys.country", "", "">>,
               <<"ro.product.locale.language", "ro.product.locale.region", "en", "US">>} :
      \E k \in DOMAIN options :
        /\ options[k] = Opt("-Duser.language=", Get(setting, o[1], o[3]))
        /\ options[k + 1] = Opt("-Duser.region=", Get(setting, o[2], o[4]))

\* Java code, that of a class or of a thread, runs in a VM that is up and with
\* every native function there is.
JavaIsReady ==
  CodeRuns \/ pc = "callMain" => vm = "up" /\ registered = Natives

\* The pool of binder threads runs only while main() of the class does, or when that
\* main() was ended by an exit, or in a child of the zygote that has not ended with the
\* cleanup.
PoolStopped ==
  pool =>
    \/ mode = "class" /\ (pc = "callMain" \/ ended \in {"exit", "_exit"})
    \/ forked /\ ended # "exit"
===============================================================================
