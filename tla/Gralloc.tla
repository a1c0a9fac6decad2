------------------------------- MODULE Gralloc --------------------------------
(***************************************************************************)
(* The framebuffer of libgralloc-shashlik (src/src/libs/gralloc-shashlik): *)
(* one private_module_t in a process whose threads open the framebuffer    *)
(* device, allocate and free framebuffer handles and post them.            *)
(*                                                                         *)
(* The lock of the module covers the lazy mapping of the framebuffer and   *)
(* the whole of an allocation.  It does not cover gralloc_free(), which    *)
(* changes bufferMask by a load and a store as alloc does, nor fb_post().  *)
(* Allocations that are not for the framebuffer are in GrallocBuffers.     *)
(***************************************************************************)
EXTENDS Integers, FiniteSets

CONSTANTS
  Thread,   \* threads of the process
  Handle,   \* handles that may exist at once
  Screens,  \* values of yres_virtual / yres that drivers grant
  NoThread, \* the lock is free
  NoHandle, \* a thread frees nothing
  Ram,      \* where an ordinary, ashmem, buffer lies
  Gone      \* where a handle that does not exist lies

ASSUME ThreadAssumption == NoThread \notin Thread
ASSUME HandleAssumption == NoHandle \notin Handle
ASSUME ScreensAssumption == Screens \subseteq Nat
ASSUME PlaceAssumption == Ram \notin Nat /\ Gone \notin Nat /\ Ram # Gone

VARIABLES
  framebuffer, \* m->framebuffer: "none", "half" (not mapped: base is 0) or "mapped"
  numBuffers,  \* m->numBuffers
  bufferMask,  \* the bits that are set in m->bufferMask
  lock,        \* the thread that holds m->lock
  at,          \* at[h]: the slot of handle h, or Ram, or Gone
  device,      \* a framebuffer device has been opened
  pc,          \* pc[t]: where thread t is
  seen,        \* seen[t]: bufferMask, the local copy of the allocation
  loaded,      \* loaded[t]: m->bufferMask as loaded by |= or &=
  hand,        \* hand[t]: the handle that t frees
  lost         \* history: a store to bufferMask undid that of another thread

vars == <<framebuffer, numBuffers, bufferMask, lock, at, device, pc, seen, loaded,
          hand, lost>>
module == <<framebuffer, numBuffers>>
locals == <<seen, loaded, hand>>

\* Inside the lock.
Inside == {"open", "map", "pick", "ram", "set", "store", "unlock"}

TypeOK ==
  /\ framebuffer \in {"none", "half", "mapped"}
  /\ numBuffers \in Nat
  /\ bufferMask \subseteq Nat
  /\ lock \in Thread \cup {NoThread}
  /\ at \in [Handle -> Nat \cup {Ram, Gone}]
  /\ device \in BOOLEAN
  /\ pc \in [Thread -> Inside \cup {"idle", "toOpen", "toAlloc", "clear", "destroy"}]
  /\ seen \in [Thread -> SUBSET Nat]
  /\ loaded \in [Thread -> SUBSET Nat]
  /\ hand \in [Thread -> Handle \cup {NoHandle}]
  /\ lost \in BOOLEAN
  /\ \A t \in Thread : pc[t] = "clear" => hand[t] \in Handle /\ at[hand[t]] \in Nat

\* HAL_MODULE_INFO_SYM of a process that has just loaded the module.  Locals are
\* empty where the code does not need them.
Fresh ==
  /\ framebuffer' = "none" /\ numBuffers' = 0 /\ bufferMask' = {}
  /\ lock' = NoThread
  /\ at' = [h \in Handle |-> Gone]
  /\ device' = FALSE
  /\ pc' = [t \in Thread |-> "idle"]
  /\ seen' = [t \in Thread |-> {}] /\ loaded' = [t \in Thread |-> {}]
  /\ hand' = [t \in Thread |-> NoHandle]
  /\ lost' = FALSE

Init ==
  /\ framebuffer = "none" /\ numBuffers = 0 /\ bufferMask = {}
  /\ lock = NoThread
  /\ at = [h \in Handle |-> Gone]
  /\ device = FALSE
  /\ pc = [t \in Thread |-> "idle"]
  /\ seen = [t \in Thread |-> {}] /\ loaded = [t \in Thread |-> {}]
  /\ hand = [t \in Thread |-> NoHandle]
  /\ lost = FALSE

Goto(t, here, there) == pc[t] = here /\ pc' = [pc EXCEPT ![t] = there]

Slots == 0 .. (numBuffers - 1)
InSlot(h) == at[h] \notin {Ram, Gone}

-------------------------------------------------------------------------------
(* The lock and the mapping *)

\* Bound: each thread that may make a handle finds a name for it.
Spare == Cardinality({h \in Handle : at[h] = Gone})
           > Cardinality({u \in Thread : pc[u] \in Inside \cup {"toOpen", "toAlloc"}})

\* fb_device_open() or gralloc_alloc() for the framebuffer is called.
Call(t) ==
  /\ Spare
  /\ Goto(t, "idle", "toOpen") \/ Goto(t, "idle", "toAlloc")
  /\ UNCHANGED <<module, bufferMask, lock, at, device, locals, lost>>

Acquire(t) ==
  /\ lock = NoThread
  /\ lock' = t
  /\ Goto(t, "toOpen", "open") \/ Goto(t, "toAlloc", "map")
  /\ UNCHANGED <<module, bufferMask, at, device, locals, lost>>

Unlock(t) ==
  /\ lock' = NoThread
  /\ Goto(t, "unlock", "idle")
  /\ seen' = [seen EXCEPT ![t] = {}]
  /\ UNCHANGED <<module, bufferMask, at, device, loaded, hand, lost>>

\* mapFrameBufferLocked(), of a framebuffer that was not set: an ioctl fails or
\* the memory is nothing ("fails", or "silent" when errno happens to be 0), mmap
\* fails ("half"), or it succeeds.
MapsFramebuffer(outcome) ==
  CASE outcome \in {"fails", "silent"} -> UNCHANGED <<module, bufferMask>>
    [] outcome \in {"half", "mapped"} ->
         /\ framebuffer' = outcome
         /\ numBuffers' \in Screens
         /\ bufferMask' = {}

\* Slip: "already initialized" is not looked at.
OpenSlip(t) ==
  /\ \/ MapsFramebuffer("mapped") /\ device' = TRUE
     \/ MapsFramebuffer("fails") /\ UNCHANGED device
  /\ Goto(t, "open", "unlock")
  /\ UNCHANGED <<lock, at, locals, lost>>

\* mapFrameBuffer() and the rest of fb_device_open().
Open(t) ==
  /\ \/ framebuffer # "none" /\ device' = TRUE /\ UNCHANGED <<module, bufferMask>>
     \/ framebuffer = "none" /\ MapsFramebuffer("mapped") /\ device' = TRUE
     \/ \E outcome \in {"fails", "half"} :
          framebuffer = "none" /\ MapsFramebuffer(outcome) /\ UNCHANGED device
  /\ Goto(t, "open", "unlock")
  /\ UNCHANGED <<lock, at, locals, lost>>

\* Without an error and without a mapping, bits_per_pixel is 0: division by 0.
OpenDies(t) == framebuffer = "none" /\ pc[t] = "open" /\ Fresh

-------------------------------------------------------------------------------
(* Allocation *)

\* Slip: the error is returned past the unlock.
AllocMapSlip(t) ==
  /\ \/ framebuffer # "none" /\ UNCHANGED <<module, bufferMask>> /\ Goto(t, "map", "pick")
     \/ \E outcome \in {"mapped", "silent"} :
          framebuffer = "none" /\ MapsFramebuffer(outcome) /\ Goto(t, "map", "pick")
     \/ \E outcome \in {"fails", "half"} :
          framebuffer = "none" /\ MapsFramebuffer(outcome) /\ Goto(t, "map", "idle")
  /\ UNCHANGED <<lock, at, device, locals, lost>>

AllocMap(t) ==
  /\ \/ framebuffer # "none" /\ UNCHANGED <<module, bufferMask>> /\ Goto(t, "map", "pick")
     \/ \E outcome \in {"mapped", "silent"} :
          framebuffer = "none" /\ MapsFramebuffer(outcome) /\ Goto(t, "map", "pick")
     \/ \E outcome \in {"fails", "half"} :
          framebuffer = "none" /\ MapsFramebuffer(outcome) /\ Goto(t, "map", "unlock")
  /\ UNCHANGED <<lock, at, device, locals, lost>>

\* The local copy of the mask decides: an ordinary buffer if there is no second
\* screen to flip to, no buffer if all are taken.
Pick(t) ==
  /\ seen' = [seen EXCEPT ![t] = bufferMask]
  /\ \/ numBuffers = 1 /\ Goto(t, "pick", "ram")
     \/ numBuffers # 1 /\ Slots \subseteq bufferMask /\ Goto(t, "pick", "unlock")
     \/ numBuffers # 1 /\ ~(Slots \subseteq bufferMask) /\ Goto(t, "pick", "set")
  /\ UNCHANGED <<module, bufferMask, lock, at, device, loaded, hand, lost>>

\* gralloc_alloc_buffer(): no region, no mapping, or a handle.
AllocBuffer(t) ==
  /\ Goto(t, "ram", "unlock")
  /\ \/ UNCHANGED at
     \/ \E h \in Handle : at[h] = Gone /\ at' = [at EXCEPT ![h] = Ram]
  /\ UNCHANGED <<module, bufferMask, lock, device, locals, lost>>

Load(t) ==
  /\ Goto(t, "set", "store")
  /\ loaded' = [loaded EXCEPT ![t] = bufferMask]
  /\ UNCHANGED <<module, bufferMask, lock, at, device, seen, hand, lost>>

\* Slip: the first slot there is, taken or not.
FirstFreeSlip(t) == CHOOSE i \in Slots : \A j \in Slots : i <= j

FirstFree(t) == CHOOSE i \in Slots \ seen[t] : \A j \in Slots \ seen[t] : i <= j

\* The bit of the first free slot is set and the handle made.
SetBit(t) ==
  /\ Goto(t, "store", "unlock")
  /\ bufferMask' = loaded[t] \cup {FirstFree(t)}
  /\ lost' = (lost \/ loaded[t] # bufferMask)
  /\ \E h \in Handle : at[h] = Gone /\ at' = [at EXCEPT ![h] = FirstFree(t)]
  /\ loaded' = [loaded EXCEPT ![t] = {}]
  /\ UNCHANGED <<module, lock, device, seen, hand>>

-------------------------------------------------------------------------------
(* Freeing and posting, without the lock *)

\* Slip: PRIV_FLAGS_FRAMEBUFFER is not looked at.
FreeSlip(t, h) ==
  /\ at[h] # Gone
  /\ \A u \in Thread : hand[u] # h
  /\ Goto(t, "idle", "clear")
  /\ hand' = [hand EXCEPT ![t] = h]
  /\ loaded' = [loaded EXCEPT ![t] = bufferMask]
  /\ UNCHANGED <<module, bufferMask, lock, at, device, seen, lost>>

\* gralloc_free() of a handle that no other thread frees: the load of &=.
Free(t, h) ==
  /\ \A u \in Thread : hand[u] # h
  /\ \/ /\ InSlot(h) /\ Goto(t, "idle", "clear")
        /\ hand' = [hand EXCEPT ![t] = h]
        /\ loaded' = [loaded EXCEPT ![t] = bufferMask]
        /\ UNCHANGED at
     \/ /\ at[h] = Ram /\ Goto(t, "idle", "destroy")
        /\ at' = [at EXCEPT ![h] = Gone]
        /\ UNCHANGED <<hand, loaded>>
  /\ UNCHANGED <<module, bufferMask, lock, device, seen, lost>>

ClearBit(t) ==
  /\ Goto(t, "clear", "destroy")
  /\ bufferMask' = loaded[t] \ {at[hand[t]]}
  /\ lost' = (lost \/ loaded[t] # bufferMask)
  /\ at' = [at EXCEPT ![hand[t]] = Gone]
  /\ loaded' = [loaded EXCEPT ![t] = {}]
  /\ hand' = [hand EXCEPT ![t] = NoHandle]
  /\ UNCHANGED <<module, lock, device, seen>>

\* wl_shm_pool_destroy() of the null pool of such a handle ends the process; it
\* starts again with a module of its own.
DestroyPool(t) == pc[t] = "destroy" /\ Fresh

\* fb_post() of an ordinary buffer copies it to the framebuffer; that is mapped, or
\* the copy goes to address 0.  A flip, or a copy that succeeds, changes nothing of
\* the module but info and currentBuffer, which nothing reads.
PostDies(t) ==
  /\ device
  /\ pc[t] = "idle"
  /\ framebuffer = "half"
  /\ \E h \in Handle : at[h] = Ram
  /\ Fresh

-------------------------------------------------------------------------------
Locked(t) == Open(t) \/ OpenDies(t) \/ AllocMap(t) \/ Pick(t) \/ AllocBuffer(t)
               \/ Load(t) \/ SetBit(t) \/ Unlock(t)
Unlocked(t) == Call(t) \/ Acquire(t) \/ (\E h \in Handle : Free(t, h)) \/ ClearBit(t)
                 \/ DestroyPool(t) \/ PostDies(t)

\* The process is ended from outside and started again.
Killed == Fresh

Next == Killed \/ \E t \in Thread : Locked(t) \/ Unlocked(t)

\* A thread inside the lock runs on.
Fairness == \A t \in Thread : WF_vars(Locked(t))

Spec == Init /\ [][Next]_vars
FairSpec == Spec /\ Fairness

-------------------------------------------------------------------------------
(* Properties *)

\* A slot belongs to one handle, "a free slot" (gralloc.cpp:177) being one that no
\* handle has, unless a store to bufferMask has already undone another one.  It
\* rests on the lock, the single mapping and the first free bit together.
SlotsExclusive ==
  ~lost => \A g, h \in Handle : g # h /\ InSlot(g) => at[g] # at[h]

\* bufferMask is the slots of the handles, no more, so none is refused while a slot
\* is free, and no less, and all lie within the framebuffer.
MaskIsHandles ==
  ~lost => bufferMask = {at[h] : h \in {g \in Handle : InSlot(g)}}
             /\ bufferMask \subseteq Slots

\* Nobody else is inside while a thread is.
MutualExclusion == \A t \in Thread : pc[t] \in Inside <=> lock = t

\* Whatever fails inside, the lock is released.
LockReleased == \A t \in Thread : lock = t ~> lock # t
===============================================================================
