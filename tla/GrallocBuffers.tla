---------------------------- MODULE GrallocBuffers ----------------------------
(***************************************************************************)
(* Ordinary buffers of libgralloc-shashlik: the process that allocates all *)
(* of them (SurfaceFlinger), processes that get copies of their handles,   *)
(* and the mappings that each process has of a buffer.                     *)
(*                                                                         *)
(* A handle is sent with its fields, base among them, so that a copy holds *)
(* an address of another process until it is registered.  How handles are  *)
(* sent, registered once and unregistered is up to the graphics library of *)
(* Android, which is external; mapper.cpp:85-113 describes it.             *)
(***************************************************************************)
EXTENDS Integers, FiniteSets

CONSTANTS
  Process,     \* processes with the module loaded
  Allocator,   \* the one that allocates
  Buffer,      \* buffers that may be made, each once
  Handle,      \* handles and copies of handles that may exist at once
  Width,       \* widths that are asked for
  Height,      \* heights that are asked for
  NoBuffer     \* a handle that does not exist

ASSUME AllocatorAssumption == Allocator \in Process
ASSUME BufferAssumption == NoBuffer \notin Buffer
ASSUME HandleAssumption == IsFiniteSet(Handle)
ASSUME SizeAssumption == Width \subseteq Nat \ {0} /\ Height \subseteq Nat \ {0}

VARIABLES
  of,     \* of[h]: the buffer of handle h
  owner,  \* owner[h]: the process that has it
  state,  \* state[h]: "allocated" here, or "received", and whether "registered"
  base,   \* base[h]: "zero", an address "mapped" here, or "foreign"
  maps,   \* maps[p][b]: how often b is mapped in p
  file,   \* file[b]: the file behind b, and the length of the pool made of it
  shape,  \* shape[b]: size and stride of b
  stray   \* history: munmap() of what was not mapped there

vars == <<of, owner, state, base, maps, file, shape, stray>>
handles == <<of, owner, state, base>>

Exists(h) == of[h] # NoBuffer
Free(h) == ~Exists(h)

-------------------------------------------------------------------------------
(* The file: os_create_anonymous_file() *)

File == [open : BOOLEAN, linked : BOOLEAN, length : Nat]

NoFile == [open |-> FALSE, linked |-> FALSE, length |-> 0]
Created == [open |-> TRUE, linked |-> TRUE, length |-> 0]  \* by mkstemp

CloexecOrClose(f, ok) == IF ok THEN f ELSE [f EXCEPT !.open = FALSE]

\* Slip: the name is removed after the error is tested for.
TmpfileSlip(ok) ==
  LET f == CloexecOrClose(Created, ok) IN IF f.open THEN [f EXCEPT !.linked = FALSE] ELSE f

Tmpfile(ok) == [CloexecOrClose(Created, ok) EXCEPT !.linked = FALSE]

Steps == {"getenv", "malloc", "mkstemp", "cloexec", "ftruncate", "none"}

\* The file of that length when the named step fails.
AnonymousFile(fails, length) ==
  CASE fails \in {"getenv", "malloc", "mkstemp"} -> NoFile
    [] fails = "cloexec" -> Tmpfile(FALSE)
    [] fails = "ftruncate" -> CloexecOrClose(Tmpfile(TRUE), FALSE)
    [] fails = "none" -> [Tmpfile(TRUE) EXCEPT !.length = length]

-------------------------------------------------------------------------------
(* Sizes *)

BytesPerPixel == {2, 3, 4}

\* Slip: rounded down to the alignment.
BytesPerRowSlip(w, bpp) == ((w * bpp) \div 4) * 4

\* (w*bpp + (align-1)) & ~(align-1), align being 4.
BytesPerRow(w, bpp) == ((w * bpp + 3) \div 4) * 4

Shape(w, h, bpp) ==
  [w |-> w, h |-> h, bpp |-> bpp, size |-> BytesPerRow(w, bpp) * h,
   stride |-> BytesPerRow(w, bpp) \div bpp]

Shapes == {Shape(w, h, bpp) : w \in Width, h \in Height, bpp \in BytesPerPixel}

\* size_map, the length of the file: rows of stride bytes, although stride counts
\* pixels.
SizeMap(s) == s.h * s.stride

NoShape == [w |-> 0, h |-> 0, bpp |-> 1, size |-> 0, stride |-> 0]

-------------------------------------------------------------------------------
TypeOK ==
  /\ of \in [Handle -> Buffer \cup {NoBuffer}]
  /\ owner \in [Handle -> Process]
  /\ state \in [Handle -> {"allocated", "received", "registered"}]
  /\ base \in [Handle -> {"zero", "mapped", "foreign"}]
  /\ maps \in [Process -> [Buffer -> Nat]]
  /\ file \in [Buffer -> File]
  /\ shape \in [Buffer -> [w : Nat, h : Nat, bpp : Nat, size : Nat, stride : Nat]]
  /\ stray \in BOOLEAN

Init ==
  /\ of = [h \in Handle |-> NoBuffer]
  /\ owner = [h \in Handle |-> Allocator]
  /\ state = [h \in Handle |-> "received"]
  /\ base = [h \in Handle |-> "zero"]
  /\ maps = [p \in Process |-> [b \in Buffer |-> 0]]
  /\ file = [b \in Buffer |-> NoFile]
  /\ shape = [b \in Buffer |-> NoShape]
  /\ stray = FALSE

NewHandle(h, b, p, st, addr) ==
  /\ Free(h)
  /\ of' = [of EXCEPT ![h] = b]
  /\ owner' = [owner EXCEPT ![h] = p]
  /\ state' = [state EXCEPT ![h] = st]
  /\ base' = [base EXCEPT ![h] = addr]

DropHandle(h) ==
  /\ of' = [of EXCEPT ![h] = NoBuffer]
  /\ owner' = [owner EXCEPT ![h] = Allocator]
  /\ state' = [state EXCEPT ![h] = "received"]
  /\ base' = [base EXCEPT ![h] = "zero"]

-------------------------------------------------------------------------------
(* Allocation *)

Fresh(b) == shape[b] = NoShape

\* gralloc_alloc() for a new buffer.  The file fails, or mmap: 0 is returned and
\* no handle.  The Wayland buffer fails: the same, but the file stays open and
\* mapped.  mapBuffer() fails: an error is returned, file and mapping stay.
AllocFails(b) ==
  /\ Fresh(b)
  /\ \E s \in Shapes : LET f == AnonymousFile("none", SizeMap(s)) IN
       /\ shape' = [shape EXCEPT ![b] = s]
       /\ \/ \E t \in Steps \ {"none"} :
               file' = [file EXCEPT ![b] = AnonymousFile(t, SizeMap(s))] /\ UNCHANGED maps
          \/ file' = [file EXCEPT ![b] = CloexecOrClose(f, FALSE)] /\ UNCHANGED maps
          \/ file' = [file EXCEPT ![b] = f] /\ maps' = [maps EXCEPT ![Allocator][b] = 1]
  /\ UNCHANGED <<handles, stray>>

\* The mapping data_map stays beside the one that the handle has.
Alloc(b, hnd) ==
  /\ Fresh(b)
  /\ \E s \in Shapes :
       /\ shape' = [shape EXCEPT ![b] = s]
       /\ file' = [file EXCEPT ![b] = AnonymousFile("none", SizeMap(s))]
  /\ maps' = [maps EXCEPT ![Allocator][b] = 2]
  /\ NewHandle(hnd, b, Allocator, "allocated", "mapped")
  /\ UNCHANGED stray

\* munmap() in gralloc_unmap(), of a handle whose base is set.
Unmap(h) ==
  /\ base[h] # "zero"
  /\ maps' = IF base[h] = "foreign" THEN maps
             ELSE [maps EXCEPT ![owner[h]][of[h]] = @ - 1]
  /\ stray' = (stray \/ base[h] = "foreign" \/ maps[owner[h]][of[h]] = 0)

UnmapIfSet(h) == Unmap(h) \/ (base[h] = "zero" /\ UNCHANGED <<maps, stray>>)

\* gralloc_free(): the pool is there, the handle unmapped, closed and deleted.
FreeBuffer(h) ==
  /\ Exists(h) /\ state[h] = "allocated"
  /\ UnmapIfSet(h)
  /\ file' = [file EXCEPT ![of[h]] = CloexecOrClose(@, FALSE)]
  /\ DropHandle(h)
  /\ UNCHANGED shape

-------------------------------------------------------------------------------
(* Copies *)

\* A handle is sent, fields and all, to any process, back to its own too.
Send(h, g, p) ==
  /\ Exists(h)
  /\ NewHandle(g, of[h], p, "received", IF base[h] = "zero" THEN "zero" ELSE "foreign")
  /\ UNCHANGED <<maps, file, shape, stray>>

\* Slip: an address that is there already is kept.
RegisterSlip(h) ==
  /\ Exists(h) /\ state[h] = "received"
  /\ state' = [state EXCEPT ![h] = "registered"]
  /\ base' = [base EXCEPT ![h] = IF @ = "zero" THEN "mapped" ELSE @]
  /\ maps' = [maps EXCEPT ![owner[h]][of[h]] = @ + 1]
  /\ UNCHANGED <<of, owner, file, shape, stray>>

\* gralloc_register_buffer(): mapped whatever base was before.
Register(h) ==
  /\ Exists(h) /\ state[h] = "received"
  /\ state' = [state EXCEPT ![h] = "registered"]
  /\ base' = [base EXCEPT ![h] = "mapped"]
  /\ maps' = [maps EXCEPT ![owner[h]][of[h]] = @ + 1]
  /\ UNCHANGED <<of, owner, file, shape, stray>>

\* mmap fails: the error reaches the graphics library, which drops the copy.
RegisterFails(h) ==
  /\ Exists(h) /\ state[h] = "received"
  /\ DropHandle(h)
  /\ UNCHANGED <<maps, file, shape, stray>>

\* Slip: base keeps the address that is unmapped.
UnregisterSlip(h) ==
  /\ Exists(h) /\ state[h] = "registered"
  /\ Unmap(h)
  /\ UNCHANGED <<handles, file, shape>>

\* gralloc_unregister_buffer(); once more is as good as once.
Unregister(h) ==
  /\ Exists(h) /\ state[h] = "registered"
  /\ UnmapIfSet(h)
  /\ base' = [base EXCEPT ![h] = "zero"]
  /\ UNCHANGED <<of, owner, state, file, shape>>

\* The graphics library deletes a copy it has unregistered.
Discard(h) ==
  /\ Exists(h) /\ state[h] = "registered" /\ base[h] = "zero"
  /\ DropHandle(h)
  /\ UNCHANGED <<maps, file, shape, stray>>

\* A process that ends has no handles and no mappings.
Exit(p) ==
  /\ p # Allocator
  /\ LET kept == {h \in Handle : Exists(h) /\ owner[h] # p} IN
       /\ kept # {h \in Handle : Exists(h)}
       /\ of' = [h \in Handle |-> IF h \in kept THEN of[h] ELSE NoBuffer]
       /\ owner' = [h \in Handle |-> IF h \in kept THEN owner[h] ELSE Allocator]
       /\ state' = [h \in Handle |-> IF h \in kept THEN state[h] ELSE "received"]
       /\ base' = [h \in Handle |-> IF h \in kept THEN base[h] ELSE "zero"]
  /\ maps' = [maps EXCEPT ![p] = [b \in Buffer |-> 0]]
  /\ UNCHANGED <<file, shape, stray>>

Next ==
  \/ \E b \in Buffer : AllocFails(b) \/ \E h \in Handle : Alloc(b, h)
  \/ \E h \in Handle : FreeBuffer(h) \/ Register(h) \/ RegisterFails(h)
                         \/ Unregister(h) \/ Discard(h)
  \/ \E h, g \in Handle, p \in Process : Send(h, g, p)
  \/ \E p \in Process : Exit(p)

Spec == Init /\ [][Next]_vars

-------------------------------------------------------------------------------
(* Properties *)

Mapped(p, b) ==
  {h \in Handle : Exists(h) /\ owner[h] = p /\ of[h] = b /\ base[h] = "mapped"}

\* No address is unmapped in a process that did not map it, although handles carry
\* addresses from one process to another: gralloc_map() replaces them in time, and
\* gralloc_unmap() forgets them.
NoStrayUnmap == ~stray

\* What gralloc_lock() returns for a handle that was allocated here, or registered
\* and not unregistered, is a mapping of this process, and each such handle has
\* one of its own.  Elsewhere than in the allocator there is no other mapping.
MappingsCounted ==
  \A p \in Process, b \in Buffer :
    LET n == Cardinality(Mapped(p, b)) IN
      IF p = Allocator THEN maps[p][b] \in {n, n + 1} ELSE maps[p][b] = n

\* bufferhandler.c:75: no name of a buffer's file is left, on any path, the file is
\* open while its allocator has the handle, and not if it could not be mapped.
FilesAnonymous ==
  \A b \in Buffer :
    /\ ~file[b].linked
    /\ (\E h \in Handle : of[h] = b /\ state[h] = "allocated") => file[b].open
    /\ maps[Allocator][b] = 0 /\ (\A h \in Handle : of[h] # b) => ~file[b].open

\* The pixels of a buffer fit into the bytes that its handle maps, rows of them
\* aligned and pStride pixels apart, and the rows that the compositor is told of into
\* the pool it is given.  But the two do not fit each other: to the compositor stride is
\* a number of bytes, and as gralloc.cpp:289 reckons the file like that, its end comes
\* well before the end of what a handle maps.
RowsFit ==
  \A b \in Buffer : LET s == shape[b] IN
    /\ s.w * s.bpp * s.h <= s.size /\ s.size % 4 = 0
    /\ s.w <= s.stride
    /\ s.stride * s.bpp * s.h <= s.size
    /\ file[b].open => s.stride * s.h <= file[b].length /\ file[b].length * s.bpp <= s.size
===============================================================================
