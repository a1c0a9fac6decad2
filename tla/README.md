# Shashlik in TLA+

Shashlik runs Android applications on a Linux desktop. `shashlik-controller`
starts the Android services of an installation and application launchers; the
services are Android's own, built against a thin layer that this repository
provides: a property daemon, a graphics allocator and hardware composer on top
of Wayland and OpenGL, a Wayland client inside SurfaceFlinger, and a launcher
that hosts the Android runtime. This directory holds TLA+ modules of that code,
the TLC runs that check them on small instances and proofs checked by TLAPS.

Paths below are relative to the repository.

## Inventory

| Component | State | Operations | Talks to | Hard parts |
|---|---|---|---|---|
| Controller (`src/controller/Controller.*`, `ProcessTracker.*`, `main.cpp`) | a `QProcess*` and a `ProcessTracker*` per service, lists of both for applications, `quitOnError`, pending quit timers | the command lines of `main()`, `startX`, `stop`, `start`, `restart`, `runApk`, `runAM`, the slots for exited processes | services by `fork`, `SIGTERM`, `/proc`; other controllers only through the processes | asynchronous exits, pid reuse, crashes, nested event loops, two controllers |
| Window (`src/controller/View.*`, `package/`) | which buttons are enabled, open dialogs | buttons, file dialog, close | calls the controller's slots | clicks between the steps above |
| Control sockets (`src/controller/init_util.c`, `main.cpp`) | socket files, descriptors in the environment | `create_socket` for installd, zygote, adbd | inherited by services | replaces sockets of running services, partial failure |
| Property daemon (`src/propertiesd`) | stored properties, open connections | get, set, list, defaults at start | Android's property clients over a local socket | message framing, defaults against stored values, error replies |
| Graphics allocator (`src/libs/gralloc-shashlik`) | the mapped framebuffer, `bufferMask` of its slots, registered buffers and their mappings | alloc, free, register, unregister, lock, post, open | SurfaceFlinger and applications, in several processes and threads | a mask changed outside its lock, mapping that fails half way |
| Hardware composer (`src/libs/hwcomposer-shashlik`) | one composer object, its devices and callbacks | open, close, prepare, set, blank, register callbacks | SurfaceFlinger | a singleton behind several opens and closes |
| Wayland client (`src/deps/surfaceflinger`, `src/deps/libjni`) | connection, globals, event queue, windows | connect, disconnect, registry events, create and destroy windows | compositor | pointers that outlive the connection |
| Launcher (`src/launcher`) | options, class name, VM, binder threads, attached threads | parse arguments, assemble the options of the VM, start it, register native functions, callbacks of the runtime, fork, exit | property daemon, zygote, VM | who reads which argument, order of options, starts that fail half way |
| HAL loader (`src/deps/libhardware`) | none | find and load a module | dynamic linker | search order, error paths |
| Installer stub, apk reader (`src/deps/installd`, `src/libs/libapk`) | none worth modelling | wrappers | files | - |
| Zip archive, 64-bit time (`src/deps/libziparchive`, `src/deps/stripped_bionic/time64.c`) | hash table of entries; none | lookups, iteration; calendar conversions | - | probing, wrap-around, calendar cycles |

What makes each correct: the *controller* never starts a second instance of a
service, always knows the live processes it started, reaches every service
when it stops, and acts on the death of a critical one. The *sockets* a service
holds are those its clients connect to. The *property daemon* answers each
request with the value last set, and its clients stay in step with it. The
*allocator* never gives one framebuffer slot to two buffers, never keeps its
lock, and a process uses only addresses of its own. The *launcher* gives every
argument the reader its place calls for and runs no Java code in a VM that is not ready.

## Plan and state

| | Modules | Abstract specification | Theorems |
|---|---|---|---|
| 1 | `Controller`, `ControllerClaims` | `ServiceLifecycle` | `ControllerProofs`, `ControllerRefines` |
| 2 | `Propertiesd` | `PropertyStore`, a register per key | `PropertiesdProofs` |
| 3 | `Gralloc` (framebuffer), `GrallocBuffers` (ordinary buffers) | stated as invariants on slots and mappings | `GrallocProofs`, `BuffersProofs` |
| 4 | `ControlSockets` | - | `SocketsProofs` |
| 5 | `VmOptions`, `Launcher` | - | `VmOptionsProofs`, `LauncherProofs` |

All of it is done. What the first plan had beyond it was dropped on reading the
code: the hardware composer consists of stubs, the Wayland client of a few
pointers around a library, and the HAL loader, the zip archive and the calendar
are vendored, sequential code (see "Not modelled"). Every safety
property of a passing run has its proof now. Worth adding next: abstract
specifications for the framebuffer (a set of free slots behind a lock) and for
the control sockets (a path belongs to the last who made it), with their
refinements.

`M.tla` is a component, `MCM.tla` with a `.cfg` an instance of it for TLC,
`MProofs.tla` its theorems.

## The controller

### How the model corresponds to the code

`Controller.tla` models any number of controller processes (`Ctl`) and the
processes of the system, named by their pid (`Pid`).

| Model | Code |
|---|---|
| `what[p]` | the program under `/proc/p`; a zombie counts as gone, since Qt reaps its children |
| `termed` | processes with a pending `SIGTERM` |
| `mode[c]` | the command line of the controller; `main()` looks at one option |
| `tracker[c][s]` | `d->zygoteTracker` and its five siblings; `reports` is true while the timer runs and the signal is connected |
| `apps[c]` | `d->applicationTrackers` |
| `child[c][p]` | what `processExited(int, ExitStatus)` will take the sender for when the `QProcess` of `p` reports: the comparison with `d->zygote` and its siblings, which fails ("unknown") after the pointer was overwritten |
| `todo[c]`, `boxes[c]` | the call stack: the calls left in the running handler, and the handlers suspended under modal message boxes |
| `quitTimer[c]` | a `QTimer::singleShot(..., quit)`, or the end of the last window, has been arranged |

A controller is single-threaded. A handler is a list of calls; one call is one
step, because other processes move between two calls. In the event loop
(`Idle`) it takes one event at a time: an exited child (`Finished`), a tracker
whose process is gone (`ServiceGone`, `AppGone`), the quit timer (`QuitFires`),
a click. In a graphical mode `emit error(...)` is a `QMessageBox`, which runs a
nested event loop: `Open` pushes the rest of the handler on `boxes` and control
is `Idle` again; `CloseBox` resumes it. `main()` forgets `--adbd` when it decides
whether there is a GUI, so that mode has message boxes too, and closing the last
one ends the program (`Graphical`, `CloseBox`). The file dialog is a frame whose
acceptance runs an apk.

`Launch` is `main()` with the constructor's scan of `/proc`. The scan may take
any process of a service for the first; `isZygote` is uninitialised, so any
launcher may count as a zygote (`Scan`). The trackers it makes are never
connected, hence never cleared. `StartService` and `StartFails` are `startX()`
with the two outcomes of `QProcess::start()`; `StopServices` is `stop()`, and
`StopItself` is what becomes of it when a tracker has process number 0, because
`kill(0, SIGTERM)` goes to the process group. `Vanish` forgets all state of a
controller; its children live on, because `main()` never deletes the controller
and `~Private()` never runs.

Pids are reused as soon as nothing runs under them and no `QProcess` is left to
report about them (`Free`: an exited child keeps its number until it is reaped).
Adopted trackers and application trackers do not hold a number, so they may come
to watch a stranger.

Abstracted: deferred deletion of trackers is immediate (a deleted tracker that
still ticks in a nested loop finds an empty list); process environments, logging
and message texts are absent; combinations of several options on one command
line are not modelled, `main()` obeys the first it tests. `kill(0)` reaches the
controller and its own children, not unrelated members of a shell's process
group. `create_socket()` is a component of its own.

### Properties

`ServiceLifecycle.tla` is what a controller promises of each service: it is
*off*, *own* (started, running), *lost* (ended, or never came up, not yet
noticed) or *adopted* (found at start), and moves only off -> own/lost -> off, or
to off when the controller ends (`up`). `LifecycleKept` says that every controller
implements it; `StageOf` is the refinement mapping.

`OwnServicesTracked` - a live process a controller started for a service is the
one its tracker watches. `SingleInstance`, `Covered` - with one controller at a
time, at most one process per service, each covered by a tracker. The zygote is
excepted from the second half, since the scan may confuse it with an application.
`StopReachesServices` - a `stop()` that comes through signals all service
processes. `StartOrderKept` - no zygote before the service manager.
`DeathStopsServices`, `CriticalExitQuits`, `StoppedIsNoticed` - liveness.

### Runs

| Run | Instance | Shows |
|---|---|---|
| `controller_one` | one controller, 3 pids, 3 services, apk/start/stop/gui, 1 application | type correctness, `OwnServicesTracked`, `SingleInstance`, `Covered`, `StopReachesServices`, `StartOrderKept`; 1.9 million states |
| `controller_two` | two controllers, 2 pids, `adbd` and `servicemanager`, adbd/restart/stop | `LifecycleKept` |
| `controller_live` | one controller, 2 pids, 2 services, am/start/gui | the liveness properties under `FairSpec` |
| `claim_restart`, `claim_killed`, `claim_stop` | one controller | three texts of the code that it does not keep (below) |

Bounds. Three pids let one process die, its number be reused and another stay;
one controller that starts any number of times covers crash and adoption. Two
controllers with two pids give every race between a scan, a start and a stop of
the other. The services are independent but for the order of `stop()` and
`start()`, the roles in `processExited()` and the three that an apk needs;
`controller_one` has a service of each role. `controller_live` has neither
surfaceflinger, whose end arms a quit timer of its own, nor the apk mode, so its
three properties say nothing of those two. `MaxApps` bounds the applications run
from the window; the lists are otherwise unbounded in the code. Pids and
controllers are interchangeable, so the two safety runs use symmetry; the
liveness run does not.

Fairness. Code outside the event loop runs on (weak fairness of `Step`). Every
source the event loop serves is served in each of its rounds, whatever the user
clicks in between: strong fairness of `Finished`, `ServiceGone`, `QuitFires`. A
process with `SIGTERM` pending ends: none of the services blocks it. Users and
healthy processes owe nothing, and nobody kills the controller in these runs
(`SteadyNext`). Deadlock is not checked in `controller_live`, since a controller
whose `--launcham` launcher failed to start waits in `exec()` for ever, nor in
the claims, whose instances have such idle controllers too.

### Where code and text disagree

- `--restart` (`main.cpp:123`): `stop()` leaves the trackers set, so `start()`
  returns early everywhere and the services are gone a moment later
  (`RestartReplaces`). The apk mode restarts in the same way.
- "if zygote exits, everything should be killed!" (`Controller.cpp:237`):
  `processExited()` drops the first application tracker instead of the sender's,
  so a live application can lose its tracker and survive (`EverythingKilled`).
- `--stop` (`main.cpp:121`): the uninitialised `isZygote` can put an application
  in the place of the zygote (`StopStopsZygote`).
- `--status` (`main.cpp:229`) prints the state of the zygote for SurfaceFlinger
  and the other way round. The line is plain to read; it has no run.
- The launcher of an `--launcham` that never comes up reports nothing, and the
  controller waits in `exec()` (`Controller.cpp:365`); no run either, since no
  text says otherwise.

### Proofs

All theorems hold for every value of the constants under the named assumptions
of `Controller.tla`: pids are finitely many and exclude 0, services and modes are
among those the code knows, the null tracker is no tracker.

- `ControllerProofs`: `TypeCorrect`, and `OwnServicesAlwaysTracked` by the
  invariant `OwnInv` = `TypeOK` and `OffClean` and `OwnServicesTracked`.
  `OffClean` (a controller that does not run waits for no process) is needed for
  `Launch`, which replaces all trackers of a controller: without it, a service
  started before could lose its tracker there. The step that carries the argument
  is `DisownedDead`: `startX()` overwrites the `QProcess` of `s` only when the
  tracker is null, and then no live child is `s`.
- With at most one controller at a time (`OneController`), in the same module,
  `OneProcessPerService` by `AloneInv` = `TypeOK` and `SingleInstance` and
  `Covered`. Neither is inductive alone: that no second process is started rests
  on the null tracker meaning that there is none, and that the scan finds *the*
  process rests on there being one. `StopReachesAll` follows: the step of a
  `stop()` call can be no other action, no tracker in it has process number 0,
  and every service process is the pid of its tracker. `EveryProcessCovered` is
  the half of the first theorem that `stop()` and the early returns rely on.
- `ZygoteAfterServiceManager`, for any number of controllers, by `OrderInv`: outside
  the graphical mode nothing waits behind a message, and what is left to call is
  `Orderly`: a zygote comes behind a service manager, unless one has a tracker.
  Each call keeps it, because `startServiceManager()` leaves a tracker whether
  the process comes up or not; a service manager that dies does not disturb it,
  since its tracker is only cleared in the event loop, which is reached with no
  call left; and the lists that `start()`, `restart()` and the apk mode begin
  with are orderly.
- `ControllerRefines`: `ImplementsLifecycle`, by step simulation under
  `ParentInv` = `OwnInv`, `OneParent` (a process has one parent, so its end is a
  step of one controller's service only) and `OffNull` (no controller, no
  trackers, so that `Launch` is `Adopt`).

Only model-checked: the liveness properties; liveness under fairness is out of the
prover's reach. The claims are refuted by TLC.

## The property daemon

`Propertiesd.tla` models the KDED module `src/propertiesd` and the processes that
use it; those run libcutils, which is external and modelled from what the daemon
expects of it: one connection per process, one call at a time, a request in one
piece, a reply by one `read()`.

| Model | Code |
|---|---|
| `up`, `Start`, `Quit` | the constructor (socket, `initProperties()`) and the end of the module or of kded |
| `store` | `m_properties`, a file; `ReadProperty`, `WriteProperty`, `ChildKeys` are `readProperty()`, `writeProperty()` and `QSettings::childKeys()` |
| `conn[c]` | "pending" is connected and not yet accepted, "lost" a connection whose daemon is gone |
| `toServer[c]`, `Unread` | the stream of requests, and what one `read()` of up to 125 bytes takes of it: a set of 125, or a get of 33 with up to 92 bytes of the next request, whose other 33 stay (`Tail33`) |
| `toClient[c]` | replies: flag and value of a get, the byte of a set, bytes nobody meant to send |
| `ready[c]` | `readyRead` is still to be delivered |
| `NewConnection`, `ReadRequest`, `Forget`, `Dies` | `newConnection()`, `readRequest()`, `disconnected`, and a request that ends kded |

The reply to a set is `dev->write(rv)` of a one-byte array without a zero
(`propertiesd.cpp:112`): how many bytes follow is the undefined part, and `Surplus`
says which numbers the build can produce. A client that was sent one has
*spilled*; nothing is promised to it from then on. The terminator of a reply to a
get is written one past its buffer for the longest value (`:100`) and
`groups.last()` is taken of no groups for a key of dots (`:139`): both may end kded
(`Fatal`). Abstracted: bytes within a field, values beyond the length libcutils
permits, and a process that forks and shares its connection.

`PropertyStore.tla` is the promise: a register per key in which each call takes
effect once, between its start and its return, and fails only if the daemon went
away. No value changes but by a request that a process made (`Serve`, `Spoil`,
`ServeWild`), and when a daemon starts (`Start`). A client that has spilled is
"wild": it may be told anything and have requests overlooked, but what it does to
the values are requests of its own, and it disturbs no other client.
`ServesStore` is the refinement, by mapping requests and replies under way to
requests asked and answers. `InSync` is why the code may take what it reads for a
request, or a reply, without looking: a client that has not spilled has at most
one of the two under way. `CallsReturn` - every call of such a client returns.

Run `properties` (513,781 states): two client processes, each again and again, one
that sets and gets and one that only gets what the other sets (`Asks`); two
keys (one with a group, which has a default, and one without), the longest and a
shorter value, the empty key and the key of dots, 0 or 1 stray byte. So a value is
set by one process, overwritten or kept by a restart, and read by another, whatever
becomes of the first and its stream; the theorems hold for any number of clients
that ask for anything. `MaxBacklog` bounds what a client that has spilled may pile
up; nobody else gets to it. Fairness: the event loop of kded accepts and reads
every socket, and a process reads a reply that is there. Neither starting the
module nor making a call is fair, and deadlock is not checked because the
model may stop with the module unloaded and no process.

Where code and comment disagree: `initProperties()` returns early when values are
stored, "we already have values, let's just use those" (`propertiesd.cpp:169`). But
`childKeys()` (`:168`) sees only keys without a group, and all keys the daemon
writes have one. Unless some client stored a key without a group, every start of the
module writes the defaults over what was set. `PropertyStore.Start` has this as the
code does it, so `ServesStore` does not promise what the comment says: a value
survives a restart only if such a key is stored or there is no default for its key.
The lines are plain to read; the disagreement has no run of its own.

Proofs. `PropertiesdProofs`: `TypeCorrect` and `StaysInSync`, by `Good(c)` for
each client, which says beside `InStep` what a connection leaves when its client
(`Orphan`: at most the one request that may still be unread) or the daemon
(`Left`) is gone; without it a new process under the same name would not begin in
step. Under it `ImplementsStore`, by a step simulation, one lemma per action: `Send`
is `Ask`, `ReadRequest` is `Serve`, or `Spoil` when stray bytes follow, or `ServeWild`
for a client out of step, `ClientRead` is `Return` or `Stray`, the end of the daemon
`Stop`, `Connect` is `Join`, `NewConnection` a stutter; the moment a call
takes effect is the read of the daemon.

## The graphics allocator

### The framebuffer

`Gralloc.tla` is one `private_module_t` and the threads of a process that open the
framebuffer device, allocate, free and post (`gralloc.cpp`, `framebuffer.cpp`).
`pc[t]` goes through `gralloc_alloc_framebuffer_locked()` step by step; a change of
`bufferMask` is two steps, a load (`Load`, `Free`) and a store (`SetBit`,
`ClearBit`), because `gralloc_free()` changes it without the lock
(`gralloc.cpp:354`) and other threads move in between. `MapsFramebuffer` has the
outcomes of `mapFrameBufferLocked()`: an error before `module->framebuffer` is
set, an error with `errno` 0, an error after it is set ("half"), success. The
process ends, and starts again with a fresh module, at a division by
zero (`OpenDies`), a copy to address 0 (`PostDies`) or, with every
framebuffer handle, at `wl_shm_pool_destroy()` of its null pool
(`DestroyPool`, `gralloc.cpp:361`). `fb_setSwapInterval()` and `fb_setUpdateRect()`
change nothing that is read.

`SlotsExclusive`, `MaskIsHandles` - no slot has two handles, and the mask is exactly
the slots that have one, *until* a store to it has undone another thread's
(`lost`): that race is in the code and nothing it says denies it, so there is
no claim to refute. `MutualExclusion`, and `LockReleased` under the fairness that
a thread inside the lock runs on.

Run `gralloc` (59,127 states, without symmetry because of the liveness property):
3 threads, of which two may free while one allocates, 3 handles for 2 slots, so
that the mask gets full and the bound `Spare` is met, and drivers that grant one
screen (no flipping, `ram`) or two.

`GrallocProofs`: `TypeCorrect`, `OneInside`, `SlotsStayExclusive`, `MaskStaysExact`
for any number of threads, handles and screens. The invariant that carries them
is `SeenCovers`: while an allocation is between its look at a copy of the mask
and its change, others only take bits away, so what was free in the copy is free
still.

### Ordinary buffers

`GrallocBuffers.tla` has the process that allocates, other processes, handles and
copies of handles, and the mappings (`gralloc_alloc()`, `gralloc_free()`,
`mapper.cpp`, `bufferhandler.c`). A handle is sent with its `base`, so a copy holds
an address of another process ("foreign") until `gralloc_register_buffer()` maps
it. `maps[p][b]` counts mappings, `stray` records a `munmap()` of what was not
mapped there. `AnonymousFile` is `os_create_anonymous_file()` with each of its
steps failing, and with the length it gives the file; `Shape` and `SizeMap` are the
arithmetic of rows, strides and that length, with the mask `& ~(align-1)` as a
division. That copies are registered once,
unregistered and then deleted is the graphics library's protocol, external.

`NoStrayUnmap`, `MappingsCounted` (each handle that may be locked has a mapping of
its own; other mappings exist in the allocator only), `FilesAnonymous` (no file
keeps a name on any path, descriptors are closed), `RowsFit` (below). Run `buffers`
(3,835 states): one buffer in two processes with three handles, which allows a copy of
a copy, one that comes back, and one in flight while another is mapped; buffers
do not interact. Sizes 1, 2 and 5 with all pixel sizes give every remainder
modulo 4.

`BuffersProofs` proves all of them for any processes, buffers, finitely many
handles, widths and heights. `BufInv` adds to them that a handle has a foreign
address only while it is received and not registered (`Addresses`), that one
handle of a buffer is the allocated one (`OneAllocated`), that nothing refers to
a buffer not yet made, and that the count of mappings is the cardinality of the
handles that are mapped (`Counted`), plus one in the allocator for `data_map`.

`RowsFit` has two halves, because the code has two lengths. The size in the
handle is what other processes map, and pixels fit into it, in rows of `pStride`
pixels. The file is made for `h * stride` bytes with the stride in pixels
(`gralloc.cpp:289`), and `data_map` and the Wayland pool have the same length: rows of
`stride` bytes, as the compositor is told, fit into that, but it is shorter than
the handle's size, down to a half, a third or a quarter of it. So a process that
maps a handle maps past the end of the file, and `os_create_anonymous_file()`'s
promise that the file can be mapped at the given size (`bufferhandler.c:69`) is kept
for a size that is too small. The model shows both lengths; no property says that
they agree, because they do not.

Read in the code, and in the model as it is: a failed allocation of the file
returns 0 and no handle (`gralloc.cpp:295`); a failed Wayland buffer
leaves file and mapping (`AllocFails`); `data_map` is never unmapped (`:298`).

## The control sockets

`ControlSockets.tla`: several controllers run the part of `main()` from
`main.cpp:130` on, and `create_socket()` of `init_util.c`, for each name in order:
`Unlink` (or `UnlinkFails`), then `Bind` (or `BindFails`, which unlinks the path
again, whoever bound it). `fd[c]` stands for the variables `ANDROID_SOCKET_*`;
`StartService` gives the descriptor to a process of a service, abstracting
`Controller`: which services a controller tracks is left open here, since its
trackers are as old as the scan of its constructor, so it may start a service that
another controller has started since, and one name may have several processes
(`service[n]` is the set of sockets they inherited). Services outlive controllers.
`--stop` makes no sockets.

`LatestIsBound` - if no other controller makes sockets meanwhile, what a
controller hands out is what its paths are bound to, wherever earlier ones failed.
`AllDescriptors`, `OwnPath` - no service starts without its descriptor or with
another's. `CutOffByMain` - a reachable service is cut off only by a controller
that makes sockets. Run `sockets` (2,441,583 states): two controllers and two of
the three sockets; `Sockets`, six of them at once, is enough for all descriptors of
both controllers and two that only earlier services hold; the loop over names has a
first and a last then, and two controllers give every order of unlink and bind at
one path.

`SocketsProofs` proves these four and the type invariant for any finite number of
controllers and of names, from what `main()` meets: the names differ and there is
one. `SocketsInv` adds to the types what
a controller has announced (`Announced`: exactly the names it has come past), that
a socket is only ever held for one name (`OneName`, over paths, descriptors and
services), and that while nobody else has made sockets the latest controller finds
at each path what it bound (`LatestAlone`), which holds through a failed `bind()`
because the path it unlinks is the one it has not announced. A new socket is one
that no path, descriptor or service holds (`SpareSocket`).

Disagreement (run `claim_socket`): "If the socket file already exists, assume it
was created for us, and just needs to be opened" (`main.cpp:131`). The test is for
a file `ANDROID_SOCKET_installd` while the file is called `installd`, so it
never holds, and any later controller, `--status` included, takes the paths of
the running services away (`SocketKept`).

Outside of the model's level: the text of each descriptor gets its zero one past
an `alloca()` (`main.cpp:140`, `:149`, `:158`).

## The launcher

`VmOptions.tla` is `startVm()` up to `JNI_CreateJavaVM()` as a function from
property settings to the list of options; `Launcher.tla` is `main()`, `AppRuntime`
and the runtime as actions. The build links Android's own runtime; the
repository's copy, `runtime/ShashlikRuntime.cpp`, is what is modelled, and what
it has switched off for now (`gCurRuntime`) is modelled as the text has it. The VM and the
Java code that calls back are external.

| Model | Code |
|---|---|
| `VmArgument`, `VmArgumentsEnd`, `RuntimeArgument`, `RuntimeArgumentsEnd`, `Main` | `addVmArguments()`, the loop and the end of `main()`, one round a step |
| `options` | `mOptions`; an option is its name, its value and what its `extraInfo` points to. `Fresh`, `Assign` and `Add` follow the one `JavaVMOption` that `startVm()` reuses, whose `extraInfo` stays what it was assigned last |
| `RootDir`, `StartVm`, `Register`, `CallJava`, `JavaReturns`, `Destroy`, `Return` | `start()` and what it calls, each with its early return, and the return of `main()` |
| `FinishInit`, `Started`, `ZygoteInit`, `Exit`, `SetExitWithoutCleanup` | `onStarted()`, `onZygoteInit()`, `onExit()`, the exit hook |
| `Fork` | the fork of the zygote, followed into the child |
| `CreateThread`, `Shell`, `ThreadEnds` | `javaCreateThreadEtc()`, `javaThreadShell()` |

`ArgumentsRead` - the arguments fall into parts: those in front with a dash, all of
which the VM got and no other; perhaps a `--` that nobody gets; the directory; flags,
all of which count; and a class with the rest for its `main()`. With `--zygote` the
class and the rest are for nobody (`main.cpp:153`), and no error either.
`OptionsOverridden`, `ExtraOptionsRead`, `HooksAlone`, `LocaleOfOneOrigin` - the list
of options: what overrides what, how the text of the extra options is cut, that
exactly three options carry a function, each its own, that language and region have
one origin. `JavaIsReady` - no Java code without the VM and all native functions.
`PoolStopped` - binder threads run only while `main()` of the class does, or after an
exit from inside it, or in a child of the zygote until it exits with the cleanup: a
child that returns, or skips the cleanup, leaves them running, and so does `_exit()`.

Run `launcher` (97,120 states): eight command lines (those the controller uses for
the zygote, an apk and `am`, and others with `--`, flags in odd places, a class and
more behind `--zygote`, no class, nothing), five property settings, every text of up
to three pieces (two options, or a blank) for the extra options, two native
functions, two threads. Three pieces give blanks in front, between, doubled and at
the end. Deadlock is not checked: the process ends. There is no liveness property:
nothing between `main()` and Java code waits for anything.

`LauncherProofs`: `TypeCorrect`, `JavaIsAlwaysReady`, `PoolOnlyAsStopped` by
`StartInv` (threads and binder threads come from code the VM runs, and that comes
after the native functions), and `ArgumentsArePartitioned` by `ArgsInv`, which
follows the two loops: the arguments before `i` are those of the VM, at most one
`--`, the directory and flags.

The list of options is proved in two parts. `VmOptionsProofs` is about
`startVm()` as a function, for every setting and every text. `ExtraOptsAreTokens`:
the recursion of `parseExtraOpts()` has a solution, and it returns one option per
token, in order. Induction over data is not available to the prover, so both
halves take a least counterexample: the shortest rest of the text for which it
fails, which does not exist because the recursion asks only for what lies behind
(`ParsedLater`). All other options have a number (`NameOrder`), and a `Row` is a
list in which the numbers grow; each group of `startVm()` is a row of a part of the
numbers, whatever the properties are, so no name comes twice. `StartVmOptionsAre`
puts the groups together: hooks, a row, the extra options, a row of three, and
follows the reused `extraInfo` through them.
`LauncherProofs` adds `OptionsInv` - the list is arguments of the VM, and behind them
at most once what `startVm()` adds - and reads the four properties off the places
of the groups (`AssembledAs`, `Kinds`). Assumptions: texts and values of properties
are strings, and no value is one of the two words by which the model marks where an
option comes from (`SettingAssumption`).

Read in the code, outside of the model's level: the locale options point to arrays
whose scope ends before the VM reads them (`ShashlikRuntime.cpp:765`), modelled as
a build that leaves them in place; the name of a thread that cannot be attached
leaks (`ShashlikRuntime.cpp:1016`).

## What is proved, what is checked

Proved for every value of the constants, under the named assumptions of the
modules: all invariants of the passing runs, the type invariants among them; the
action properties `StartOrderKept`, `StopReachesServices` and `CutOffByMain`; the
refinements of `ServiceLifecycle` and `PropertyStore`. `SingleInstance`, `Covered` and
`StopReachesServices` hold, and are proved, for one controller at a time.

Only model-checked: liveness (`DeathStopsServices`, `CriticalExitQuits`,
`StoppedIsNoticed`, `CallsReturn`, `LockReleased`), which is out of the prover's
reach. The four claims are refuted by TLC.

Every property has a plausible slip of the code that breaks it: the operators
marked `Slip`, each ahead of the definition it deviates from.

## Not modelled

- Hardware composer (`src/libs/hwcomposer-shashlik`): each operation tests
  `mInitialized`, logs and returns success, the work behind it being commented
  out. `blank()` returns before the lazy creation it would perform
  (`hwcomposer.cpp:99`).
- Wayland client (`src/deps/surfaceflinger`, `src/deps/libjni`): the protocol, the
  compositor and the event queue are outside of the repository; what remains is
  a few pointers. `disconnect()` leaves all but one of them set
  (`WaylandClient.cpp:121`), and destroys the event queue after its display.
- HAL loader, zip archive, 64-bit time, installer stub and apk reader: vendored
  code or thin wrappers, sequential, with no state over more than one call.
- `Launch.java`, `Stubs.cpp`, `appthread.cpp`, `ProcessGlobals.cpp`: one intent,
  functions that return success, code that nothing calls or builds.
- Build system, post-install scripts, generated event tags, images, and Android's
  own services, which are git submodules and empty here.
