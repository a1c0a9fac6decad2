----------------------------- MODULE BuffersProofs ----------------------------
(* Theorems about GrallocBuffers, for all processes, buffers, handles and sizes. *)
EXTENDS GrallocBuffers, FiniteSetTheorems, TLAPS

-------------------------------------------------------------------------------
(* Sizes *)

\* A row is the least multiple of four bytes that holds its pixels.
LEMMA RowHolds ==
  ASSUME NEW w \in Nat, NEW bpp \in BytesPerPixel
  PROVE  /\ BytesPerRow(w, bpp) \in Nat
         /\ w * bpp <= BytesPerRow(w, bpp)
         /\ \E q \in Nat : BytesPerRow(w, bpp) = 4 * q
  <1>1. w * bpp \in Nat
    BY DEF BytesPerPixel
  <1>2. PICK n \in Nat : n = w * bpp
    BY <1>1
  <1>3. (n + 3) \div 4 \in Nat /\ n <= ((n + 3) \div 4) * 4
    OBVIOUS
  <1> QED
    BY <1>2, <1>3 DEF BytesPerRow

LEMMA StrideHolds ==
  ASSUME NEW w \in Nat, NEW r \in Nat, NEW bpp \in BytesPerPixel, w * bpp <= r
  PROVE  r \div bpp \in Nat /\ w <= r \div bpp /\ (r \div bpp) * bpp <= r
  <1>1. CASE bpp = 2
    BY <1>1
  <1>2. CASE bpp = 3
    BY <1>2
  <1>3. CASE bpp = 4
    BY <1>3
  <1> QED
    BY <1>1, <1>2, <1>3 DEF BytesPerPixel

LEMMA TimesMonotonic ==
  ASSUME NEW x \in Nat, NEW y \in Nat, NEW h \in Nat, x <= y
  PROVE  x * h <= y * h /\ x * h \in Nat /\ y * h \in Nat
  <1>1. PICK e \in Nat : y = x + e
    <2>1. y - x \in Nat /\ y = x + (y - x)
      OBVIOUS
    <2> QED
      BY <2>1
  <1>2. e * h \in Nat /\ x * h \in Nat /\ y * h = x * h + e * h
    BY <1>1
  <1> QED
    BY <1>2

ShapeFits(s) ==
  /\ s \in [w : Nat, h : Nat, bpp : Nat, size : Nat, stride : Nat]
  /\ s.w * s.bpp * s.h <= s.size /\ s.size % 4 = 0
  /\ s.w <= s.stride
  /\ s.stride * s.bpp * s.h <= s.size

LEMMA ShapesFit ==
  ASSUME NEW w \in Width, NEW h \in Height, NEW bpp \in BytesPerPixel
  PROVE  ShapeFits(Shape(w, h, bpp)) /\ Shape(w, h, bpp) # NoShape
  <1>1. w \in Nat /\ h \in Nat /\ bpp \in Nat /\ w # 0
    BY SizeAssumption DEF BytesPerPixel
  <1>2. PICK r \in Nat : r = BytesPerRow(w, bpp) /\ w * bpp <= r /\ \E q \in Nat : r = 4 * q
    <2>1. /\ BytesPerRow(w, bpp) \in Nat /\ w * bpp <= BytesPerRow(w, bpp)
          /\ \E q \in Nat : BytesPerRow(w, bpp) = 4 * q
      BY <1>1, RowHolds
    <2> QED
      BY <2>1
  <1>3. PICK d \in Nat : d = r \div bpp /\ w <= d /\ d * bpp <= r
    BY <1>1, <1>2, StrideHolds
  <1>4. r * h \in Nat /\ (w * bpp) * h <= r * h /\ (d * bpp) * h <= r * h
    <2>1. w * bpp \in Nat /\ d * bpp \in Nat
      BY <1>1 DEF BytesPerPixel
    <2> QED
      BY <1>1, <1>2, <1>3, <2>1, TimesMonotonic
  <1>5. (r * h) % 4 = 0
    <2>1. PICK q \in Nat : r = 4 * q
      BY <1>2
    <2>2. q * h \in Nat /\ r * h = 4 * (q * h)
      BY <1>1, <2>1
    <2> QED
      BY <2>2
  <1>6. Shape(w, h, bpp) = [w |-> w, h |-> h, bpp |-> bpp, size |-> r * h, stride |-> d]
    BY <1>2, <1>3 DEF Shape
  <1> QED
    BY <1>1, <1>3, <1>4, <1>5, <1>6 DEF ShapeFits, NoShape

\* A shape that may be asked for, and the length of its file.
LEMMA EveryShapeFits ==
  ASSUME NEW s \in Shapes
  PROVE  ShapeFits(s) /\ s # NoShape /\ SizeMap(s) \in Nat
  <1>1. ShapeFits(s) /\ s # NoShape
    BY ShapesFit DEF Shapes
  <1>2. s.h \in Nat /\ s.stride \in Nat
    BY <1>1 DEF ShapeFits
  <1> QED
    BY <1>1, <1>2 DEF SizeMap

LEMMA NoShapeFits == ShapeFits(NoShape)
  BY DEF ShapeFits, NoShape

-------------------------------------------------------------------------------
(* Files *)

Nameless == [open : BOOLEAN, linked : {FALSE}, length : Nat]

\* No step of os_create_anonymous_file() leaves a name.
LEMMA FilesAreAnonymous ==
  \A n \in Nat :
    /\ \A fails \in Steps : AnonymousFile(fails, n) \in Nameless
    /\ \A fails \in Steps \ {"none"} : ~AnonymousFile(fails, n).open
    /\ AnonymousFile("none", n).open /\ AnonymousFile("none", n).length = n
  BY DEF Steps, AnonymousFile, NoFile, Tmpfile, CloexecOrClose, Created, Nameless

LEMMA RecordWider ==
  ASSUME NEW f \in Nameless
  PROVE  f \in File /\ f.linked = FALSE
  <1>1. {FALSE} \subseteq BOOLEAN
    OBVIOUS
  <1> QED
    BY <1>1 DEF File, Nameless

LEMMA Closed ==
  ASSUME NEW f \in Nameless
  PROVE  /\ CloexecOrClose(f, FALSE) \in Nameless
         /\ ~CloexecOrClose(f, FALSE).open
  BY DEF CloexecOrClose, Nameless

-------------------------------------------------------------------------------
(* The invariant *)

\* How many mappings p has of b, for the handles it has.
CountAt(p, b) ==
  LET n == Cardinality(Mapped(p, b)) IN
    IF p = Allocator THEN maps[p][b] \in {n, n + 1} ELSE maps[p][b] = n

Allocated(h) == Exists(h) /\ state[h] = "allocated"

\* Nothing refers to a buffer that is not made.
FreshUnused ==
  \A b \in Buffer : Fresh(b) =>
    /\ \A h \in Handle : of[h] # b
    /\ \A p \in Process : maps[p][b] = 0

\* The address of a handle is foreign until it is registered, never afterwards.
Addresses ==
  \A h \in Handle : Exists(h) =>
    /\ state[h] = "received" => base[h] # "mapped"
    /\ state[h] # "received" => base[h] # "foreign"
    /\ state[h] = "allocated" => owner[h] = Allocator

OneAllocated ==
  \A g, h \in Handle : Allocated(g) /\ Allocated(h) /\ of[g] = of[h] => g = h

\* A file is open for the handle of its allocator, or was left open by an allocation
\* that failed after it was mapped.
FilesOwned ==
  \A b \in Buffer :
    /\ file[b].linked = FALSE
    /\ \A h \in Handle : Allocated(h) /\ of[h] = b => file[b].open
    /\ file[b].open => \/ \E h \in Handle : Allocated(h) /\ of[h] = b
                       \/ maps[Allocator][b] # 0 /\ \A h \in Handle : of[h] # b

HandlesInv == FreshUnused /\ Addresses /\ OneAllocated /\ FilesOwned
Counted == \A p \in Process, b \in Buffer : CountAt(p, b)
ShapesInv ==
  \A b \in Buffer : /\ ShapeFits(shape[b])
                    /\ file[b].open => file[b].length = SizeMap(shape[b])

BufInv == TypeOK /\ HandlesInv /\ Counted /\ ShapesInv /\ ~stray

LEMMA MappedFinite ==
  ASSUME NEW p, NEW b
  PROVE  IsFiniteSet(Mapped(p, b)) /\ Cardinality(Mapped(p, b)) \in Nat
  <1>1. Mapped(p, b) \subseteq Handle
    BY DEF Mapped
  <1> QED
    BY <1>1, HandleAssumption, FS_Subset, FS_CardinalityType

\* A handle that is mapped counts.
LEMMA MappedPositive ==
  ASSUME Counted, NEW p \in Process, NEW b \in Buffer, NEW h \in Mapped(p, b)
  PROVE  maps[p][b] # 0
  <1>1. Cardinality(Mapped(p, b)) # 0
    BY MappedFinite, FS_EmptySet
  <1> QED
    BY <1>1, MappedFinite DEF Counted, CountAt

LEMMA CountSame ==
  ASSUME NEW p, NEW b, CountAt(p, b), Mapped(p, b)' = Mapped(p, b), maps'[p][b] = maps[p][b]
  PROVE  CountAt(p, b)'
  BY DEF CountAt

\* One handle more, one mapping more.
LEMMA CountAdd ==
  ASSUME NEW p, NEW b, CountAt(p, b), NEW h, h \notin Mapped(p, b),
         Mapped(p, b)' = Mapped(p, b) \cup {h}, maps'[p][b] = maps[p][b] + 1
  PROVE  CountAt(p, b)'
  <1>1. PICK n \in Nat : n = Cardinality(Mapped(p, b))
    BY MappedFinite
  <1>2. Cardinality(Mapped(p, b) \cup {h}) = n + 1
    BY <1>1, MappedFinite, FS_AddElement
  <1> QED
    BY <1>1, <1>2 DEF CountAt

LEMMA CountRemove ==
  ASSUME NEW p, NEW b, CountAt(p, b), NEW h \in Mapped(p, b),
         Mapped(p, b)' = Mapped(p, b) \ {h}, maps'[p][b] = maps[p][b] - 1
  PROVE  CountAt(p, b)'
  <1>1. PICK n \in Nat : n = Cardinality(Mapped(p, b))
    BY MappedFinite
  <1>2. Cardinality(Mapped(p, b) \ {h}) = n - 1
    BY <1>1, MappedFinite, FS_RemoveElement
  <1> QED
    BY <1>1, <1>2 DEF CountAt

-------------------------------------------------------------------------------
(* Steps that make buffers *)

LEMMA AllocFailsStep ==
  ASSUME BufInv, NEW b \in Buffer, AllocFails(b)
  PROVE  BufInv'
  <1> USE DEF BufInv, HandlesInv
  <1>1. /\ UNCHANGED handles /\ stray' = stray
        /\ \A h \in Handle : of[h] # b
        /\ \A p \in Process : maps[p][b] = 0
    BY DEF AllocFails, FreshUnused
  <1>2. PICK sh \in Shapes :
          /\ shape' = [shape EXCEPT ![b] = sh]
          /\ \/ \E t \in Steps \ {"none"} :
                  file' = [file EXCEPT ![b] = AnonymousFile(t, SizeMap(sh))] /\ UNCHANGED maps
             \/ file' = [file EXCEPT ![b] = CloexecOrClose(AnonymousFile("none", SizeMap(sh)), FALSE)]
                  /\ UNCHANGED maps
             \/ file' = [file EXCEPT ![b] = AnonymousFile("none", SizeMap(sh))]
                  /\ maps' = [maps EXCEPT ![Allocator][b] = 1]
    BY DEF AllocFails
  <1>10. ShapeFits(sh) /\ sh # NoShape /\ SizeMap(sh) \in Nat
    BY EveryShapeFits
  <1>3. PICK f \in Nameless, m \in {0, 1} :
          /\ file' = [file EXCEPT ![b] = f]
          /\ maps' = [maps EXCEPT ![Allocator][b] = m]
          /\ f.open => m = 1 /\ f.length = SizeMap(sh)
    <2>1. CASE \E t \in Steps \ {"none"} : file' = [file EXCEPT ![b] = AnonymousFile(t, SizeMap(sh))]
                                             /\ UNCHANGED maps
      <3>1. maps' = [maps EXCEPT ![Allocator][b] = 0]
        BY <1>1, <2>1, AllocatorAssumption DEF TypeOK
      <3> QED
        BY <1>10, <2>1, <3>1, FilesAreAnonymous
    <2> DEFINE whole == AnonymousFile("none", SizeMap(sh))
    <2>2. whole \in Nameless /\ whole.length = SizeMap(sh)
      BY <1>10, FilesAreAnonymous DEF Steps
    <2> HIDE DEF whole
    <2>3. CASE file' = [file EXCEPT ![b] = CloexecOrClose(whole, FALSE)] /\ UNCHANGED maps
      <3>1. maps' = [maps EXCEPT ![Allocator][b] = 0]
        BY <1>1, <2>3, AllocatorAssumption DEF TypeOK
      <3> QED
        BY <2>2, <2>3, <3>1, Closed
    <2>4. CASE file' = [file EXCEPT ![b] = whole] /\ maps' = [maps EXCEPT ![Allocator][b] = 1]
      BY <2>2, <2>4
    <2> QED
      BY <1>2, <2>1, <2>3, <2>4 DEF whole
  <1>4. TypeOK'
    <2>1. shape' \in [Buffer -> [w : Nat, h : Nat, bpp : Nat, size : Nat, stride : Nat]]
      BY <1>2, <1>10 DEF TypeOK, ShapeFits
    <2>2. f \in File
      BY RecordWider
    <2>5. m \in Nat
      OBVIOUS
    <2>3. file' \in [Buffer -> File]
      BY <1>3, <2>2 DEF TypeOK
    <2>4. maps' \in [Process -> [Buffer -> Nat]]
      BY <1>3, <2>5 DEF TypeOK
    <2> QED
      BY <1>1, <2>1, <2>3, <2>4 DEF TypeOK, handles
  <1>5. ShapesInv'
    BY <1>2, <1>3, <1>10 DEF ShapesInv, TypeOK
  <1>6. FreshUnused'
    BY <1>1, <1>2, <1>3, <1>10 DEF FreshUnused, Fresh, TypeOK, handles
  <1>7. Addresses' /\ OneAllocated'
    BY <1>1 DEF Addresses, OneAllocated, Allocated, Exists, handles
  <1>8. FilesOwned'
    <2> SUFFICES ASSUME NEW d \in Buffer
                 PROVE  /\ file'[d].linked = FALSE
                        /\ \A h \in Handle : Allocated(h)' /\ of'[h] = d => file'[d].open
                        /\ file'[d].open => \/ \E h \in Handle : Allocated(h)' /\ of'[h] = d
                                            \/ maps'[Allocator][d] # 0 /\ \A h \in Handle : of'[h] # d
      BY DEF FilesOwned
    <2>1. of' = of /\ \A h \in Handle : Allocated(h)' <=> Allocated(h)
      BY <1>1 DEF Allocated, Exists, handles
    <2>2. CASE d = b
      <3>1. file'[d] = f /\ maps'[Allocator][d] = m
        BY <1>3, <2>2, AllocatorAssumption DEF TypeOK
      <3> QED
        <4>1. f.linked = FALSE /\ \A h \in Handle : of'[h] # d
          BY <1>1, <2>1, <2>2, RecordWider
        <4>2. f.open => maps'[Allocator][d] # 0
          BY <1>3, <3>1
        <4> QED
          BY <3>1, <4>1, <4>2
    <2>3. CASE d # b
      <3>1. file'[d] = file[d] /\ maps'[Allocator][d] = maps[Allocator][d]
        BY <1>3, <2>3, AllocatorAssumption DEF TypeOK
      <3> QED
        BY <2>1, <3>1 DEF FilesOwned
    <2> QED
      BY <2>2, <2>3
  <1>9. Counted'
    <2> SUFFICES ASSUME NEW q \in Process, NEW d \in Buffer PROVE CountAt(q, d)'
      BY DEF Counted
    <2>1. Mapped(q, d)' = Mapped(q, d)
      BY <1>1 DEF Mapped, Exists, handles
    <2>2. CASE q = Allocator /\ d = b
      <3>1. Mapped(q, d) = {}
        BY <1>1, <2>2 DEF Mapped
      <3>2. maps'[q][d] \in {0, 1}
        BY <1>3, <2>2, AllocatorAssumption DEF TypeOK
      <3> QED
        BY <2>1, <2>2, <3>1, <3>2, FS_EmptySet DEF CountAt
    <2>3. CASE ~(q = Allocator /\ d = b)
      <3>1. maps'[q][d] = maps[q][d]
        BY <1>3, <2>3 DEF TypeOK
      <3> QED
        BY <2>1, <3>1, CountSame DEF Counted
    <2> QED
      BY <2>2, <2>3
  <1> QED
    BY <1>1, <1>4, <1>5, <1>6, <1>7, <1>8, <1>9

LEMMA AllocStep ==
  ASSUME BufInv, NEW b \in Buffer, NEW h \in Handle, Alloc(b, h)
  PROVE  BufInv'
  <1> USE DEF BufInv, HandlesInv
  <1>1. /\ Free(h) /\ of' = [of EXCEPT ![h] = b] /\ owner' = [owner EXCEPT ![h] = Allocator]
        /\ state' = [state EXCEPT ![h] = "allocated"] /\ base' = [base EXCEPT ![h] = "mapped"]
        /\ maps' = [maps EXCEPT ![Allocator][b] = 2] /\ stray' = stray
        /\ \A g \in Handle : of[g] # b
        /\ \A p \in Process : maps[p][b] = 0
    BY DEF Alloc, NewHandle, FreshUnused
  <1>2. PICK sh \in Shapes :
          /\ shape' = [shape EXCEPT ![b] = sh]
          /\ file' = [file EXCEPT ![b] = AnonymousFile("none", SizeMap(sh))]
          /\ ShapeFits(sh) /\ sh # NoShape /\ SizeMap(sh) \in Nat
    BY EveryShapeFits DEF Alloc
  <1>3. PICK f \in Nameless :
          file' = [file EXCEPT ![b] = f] /\ f.open /\ f.length = SizeMap(sh)
    BY <1>2, FilesAreAnonymous DEF Steps
  <1>4. TypeOK'
    <2>1. f \in File
      BY RecordWider
    <2>2. file' \in [Buffer -> File]
      BY <1>3, <2>1 DEF TypeOK
    <2> QED
      BY <1>1, <1>2, <2>2, AllocatorAssumption DEF TypeOK, ShapeFits
  <1>5. ShapesInv'
    BY <1>2, <1>3 DEF ShapesInv, TypeOK
  <1>6. FreshUnused'
    BY <1>1, <1>2 DEF FreshUnused, Fresh, TypeOK
  <1>7. Addresses' /\ OneAllocated'
    BY <1>1 DEF Addresses, OneAllocated, Allocated, Exists, TypeOK
  <1>8. FilesOwned'
    <2> SUFFICES ASSUME NEW d \in Buffer
                 PROVE  /\ file'[d].linked = FALSE
                        /\ \A g \in Handle : Allocated(g)' /\ of'[g] = d => file'[d].open
                        /\ file'[d].open => \/ \E g \in Handle : Allocated(g)' /\ of'[g] = d
                                            \/ maps'[Allocator][d] # 0 /\ \A g \in Handle : of'[g] # d
      BY DEF FilesOwned
    <2>1. CASE d = b
      <3>1. file'[d] = f /\ Allocated(h)' /\ of'[h] = d
        BY <1>1, <1>3, <2>1, BufferAssumption DEF TypeOK, Allocated, Exists
      <3> QED
        BY <1>3, <3>1, RecordWider
    <2>2. CASE d # b
      <3>1. file'[d] = file[d] /\ maps'[Allocator][d] = maps[Allocator][d]
        BY <1>1, <1>3, <2>2, AllocatorAssumption DEF TypeOK
      <3>2. \A g \in Handle : /\ (Allocated(g)' /\ of'[g] = d) <=> (Allocated(g) /\ of[g] = d)
                              /\ (of'[g] = d) <=> (of[g] = d)
        BY <1>1, <2>2, BufferAssumption DEF TypeOK, Allocated, Exists, Free
      <3> QED
        BY <3>1, <3>2 DEF FilesOwned
    <2> QED
      BY <2>1, <2>2
  <1>9. Counted'
    <2> SUFFICES ASSUME NEW q \in Process, NEW d \in Buffer PROVE CountAt(q, d)'
      BY DEF Counted
    <2>1. CASE q = Allocator /\ d = b
      <3>1. Mapped(q, d)' = {h}
        BY <1>1, <2>1, BufferAssumption DEF Mapped, Exists, TypeOK
      <3>2. maps'[q][d] = 2
        BY <1>1, <2>1, AllocatorAssumption DEF TypeOK
      <3> QED
        BY <2>1, <3>1, <3>2, FS_Singleton DEF CountAt
    <2>2. CASE ~(q = Allocator /\ d = b)
      <3>1. maps'[q][d] = maps[q][d]
        BY <1>1, <2>2 DEF TypeOK
      <3>2. Mapped(q, d)' = Mapped(q, d)
        BY <1>1, <2>2, BufferAssumption DEF Mapped, Exists, Free, TypeOK
      <3> QED
        BY <3>1, <3>2, CountSame DEF Counted
    <2> QED
      BY <2>1, <2>2
  <1> QED
    BY <1>1, <1>4, <1>5, <1>6, <1>7, <1>8, <1>9

-------------------------------------------------------------------------------
(* Steps of one handle *)

\* What a step of handle h of buffer b in process p leaves alone.
LEMMA CountOthers ==
  ASSUME BufInv, NEW p \in Process, NEW b \in Buffer,
         \A q \in Process, d \in Buffer : (q # p \/ d # b) =>
           maps'[q][d] = maps[q][d] /\ Mapped(q, d)' = Mapped(q, d),
         CountAt(p, b)'
  PROVE  Counted'
  <1> SUFFICES ASSUME NEW q \in Process, NEW d \in Buffer PROVE CountAt(q, d)'
    BY DEF Counted
  <1>1. CASE q = p /\ d = b
    BY <1>1
  <1>2. CASE q # p \/ d # b
    BY <1>2, CountSame DEF BufInv, Counted
  <1> QED
    BY <1>1, <1>2

LEMMA SendStep ==
  ASSUME BufInv, NEW h \in Handle, NEW g \in Handle, NEW p \in Process, Send(h, g, p)
  PROVE  BufInv'
  <1> USE DEF BufInv, HandlesInv
  <1>1. PICK a \in {"zero", "foreign"}, b \in Buffer :
          /\ b = of[h] /\ Exists(h) /\ Free(g) /\ of' = [of EXCEPT ![g] = b]
          /\ owner' = [owner EXCEPT ![g] = p] /\ state' = [state EXCEPT ![g] = "received"]
          /\ base' = [base EXCEPT ![g] = a]
          /\ UNCHANGED <<maps, file, shape, stray>>
    BY DEF Send, NewHandle, Exists, TypeOK
  <1>2. h # g /\ of[h] = b /\ b # NoBuffer /\ of[g] = NoBuffer
    BY <1>1, BufferAssumption DEF Free, Exists
  <1>3. TypeOK'
    BY <1>1 DEF TypeOK
  <1>4. FreshUnused' /\ ShapesInv'
    BY <1>1, <1>2 DEF FreshUnused, Fresh, ShapesInv, TypeOK
  <1>5. \A k \in Handle : /\ Allocated(k)' <=> Allocated(k)
                          /\ Allocated(k) => of'[k] = of[k]
    BY <1>1, <1>2 DEF Allocated, Exists, TypeOK
  <1>6. Addresses'
    BY <1>1 DEF Addresses, Exists, TypeOK
  <1>7. OneAllocated'
    BY <1>5 DEF OneAllocated
  <1>8. FilesOwned'
    <2>1. \A d \in Buffer : (\A k \in Handle : of[k] # d) => (\A k \in Handle : of'[k] # d)
      BY <1>1, <1>2 DEF TypeOK
    <2> QED
      BY <1>1, <1>5, <2>1 DEF FilesOwned
  <1>9. \A q \in Process, d \in Buffer : Mapped(q, d)' = Mapped(q, d)
    BY <1>1, <1>2 DEF Mapped, Exists, TypeOK
  <1>10. Counted'
    BY <1>1, <1>9, CountSame DEF Counted
  <1> QED
    BY <1>1, <1>3, <1>4, <1>6, <1>7, <1>8, <1>10

LEMMA RegisterStep ==
  ASSUME BufInv, NEW h \in Handle, Register(h)
  PROVE  BufInv'
  <1> USE DEF BufInv, HandlesInv
  <1>1. PICK p \in Process, b \in Buffer :
          /\ p = owner[h] /\ b = of[h] /\ Exists(h) /\ state[h] = "received"
          /\ state' = [state EXCEPT ![h] = "registered"]
          /\ base' = [base EXCEPT ![h] = "mapped"]
          /\ maps' = [maps EXCEPT ![p][b] = @ + 1]
          /\ UNCHANGED <<of, owner, file, shape, stray>>
    BY DEF Register, Exists, TypeOK
  <1>2. TypeOK'
    BY <1>1 DEF TypeOK
  <1>3. ShapesInv'
    BY <1>1 DEF ShapesInv
  <1>4. FreshUnused'
    BY <1>1 DEF FreshUnused, Fresh, TypeOK
  <1>5. \A k \in Handle : Allocated(k)' <=> Allocated(k)
    BY <1>1 DEF Allocated, Exists, TypeOK
  <1>6. Addresses'
    BY <1>1 DEF Addresses, Exists, TypeOK
  <1>7. OneAllocated'
    BY <1>1, <1>5 DEF OneAllocated
  <1>8. FilesOwned'
    <2>1. \A d \in Buffer : d # b => maps'[Allocator][d] = maps[Allocator][d]
      BY <1>1, AllocatorAssumption DEF TypeOK
    <2> QED
      BY <1>1, <1>5, <2>1 DEF FilesOwned
  <1>9. Counted'
    <2>1. \A q \in Process, d \in Buffer : q # p \/ d # b =>
            maps'[q][d] = maps[q][d] /\ Mapped(q, d)' = Mapped(q, d)
      BY <1>1 DEF Mapped, Exists, TypeOK
    <2>2. Mapped(p, b)' = Mapped(p, b) \cup {h} /\ h \notin Mapped(p, b)
      BY <1>1 DEF Mapped, Exists, TypeOK, Addresses
    <2>3. maps'[p][b] = maps[p][b] + 1
      BY <1>1 DEF TypeOK
    <2> QED
      BY <2>1, <2>2, <2>3, CountAdd, CountOthers DEF Counted
  <1> QED
    BY <1>1, <1>2, <1>3, <1>4, <1>6, <1>7, <1>8, <1>9

\* munmap() takes away a mapping of the handle's own, and no other.
LEMMA UnmapEffect ==
  ASSUME BufInv, NEW h \in Handle, Exists(h), state[h] # "received", UnmapIfSet(h)
  PROVE  /\ stray' = FALSE
         /\ maps' \in [Process -> [Buffer -> Nat]]
         /\ \A q \in Process, d \in Buffer :
              (q # owner[h] \/ d # of[h]) => maps'[q][d] = maps[q][d]
         /\ base[h] = "zero" => maps'[owner[h]][of[h]] = maps[owner[h]][of[h]]
         /\ base[h] # "zero" => /\ h \in Mapped(owner[h], of[h])
                                /\ maps'[owner[h]][of[h]] = maps[owner[h]][of[h]] - 1
  <1> USE DEF BufInv, HandlesInv
  <1>1. base[h] \in {"zero", "mapped"} /\ stray = FALSE
    BY DEF Addresses, TypeOK
  <1>2. CASE base[h] = "zero"
    BY <1>1, <1>2 DEF UnmapIfSet, Unmap, TypeOK
  <1>3. CASE base[h] = "mapped"
    <2>1. PICK p \in Process, b \in Buffer : p = owner[h] /\ b = of[h]
      BY DEF TypeOK, Exists
    <2>2. h \in Mapped(p, b)
      BY <1>3, <2>1 DEF Mapped
    <2>3. maps[p][b] \in Nat /\ maps[p][b] - 1 \in Nat /\ maps[p][b] # 0
      <3>1. maps[p][b] # 0
        BY <2>2, MappedPositive
      <3>2. maps[p][b] \in Nat
        BY DEF TypeOK
      <3> QED
        BY <3>1, <3>2
    <2>4. maps' = [maps EXCEPT ![p][b] = @ - 1] /\ stray' = FALSE
      BY <1>1, <1>3, <2>1, <2>3 DEF UnmapIfSet, Unmap
    <2>5. maps' \in [Process -> [Buffer -> Nat]]
      BY <2>3, <2>4 DEF TypeOK
    <2>6. /\ \A q \in Process, d \in Buffer : (q # p \/ d # b) => maps'[q][d] = maps[q][d]
          /\ maps'[p][b] = maps[p][b] - 1
      BY <2>4 DEF TypeOK
    <2>7. h \in Mapped(owner[h], of[h])
      BY <1>3 DEF Mapped
    <2> QED
      BY <1>3, <2>1, <2>4, <2>5, <2>6, <2>7
  <1> QED
    BY <1>1, <1>2, <1>3

LEMMA UnregisterStep ==
  ASSUME BufInv, NEW h \in Handle, Unregister(h)
  PROVE  BufInv'
  <1> USE DEF BufInv, HandlesInv
  <1>1. PICK p \in Process, b \in Buffer :
          /\ p = owner[h] /\ b = of[h] /\ Exists(h) /\ state[h] = "registered"
          /\ base' = [base EXCEPT ![h] = "zero"]
          /\ UNCHANGED <<of, owner, state, file, shape>>
    BY DEF Unregister, Exists, TypeOK
  <1>2. /\ stray' = FALSE
        /\ maps' \in [Process -> [Buffer -> Nat]]
        /\ \A q \in Process, d \in Buffer : (q # p \/ d # b) => maps'[q][d] = maps[q][d]
        /\ base[h] = "zero" => maps'[p][b] = maps[p][b]
        /\ base[h] # "zero" => h \in Mapped(p, b) /\ maps'[p][b] = maps[p][b] - 1
    <2>1. state[h] # "received" /\ UnmapIfSet(h)
      BY <1>1 DEF Unregister
    <2> HIDE DEF BufInv, HandlesInv
    <2> QED
      BY <1>1, <2>1, UnmapEffect
  <1>3. ~Fresh(b)
    BY <1>1 DEF FreshUnused
  <1>4. TypeOK'
    BY <1>1, <1>2 DEF TypeOK
  <1>5. ShapesInv' /\ FreshUnused'
    <2>1. ShapesInv' /\ \A d \in Buffer : Fresh(d)' <=> Fresh(d)
      BY <1>1 DEF ShapesInv, Fresh
    <2> QED
      BY <1>1, <1>2, <1>3, <2>1 DEF FreshUnused
  <1>6. \A k \in Handle : Allocated(k)' <=> Allocated(k)
    BY <1>1 DEF Allocated, Exists
  <1>7. Addresses' /\ OneAllocated'
    BY <1>1, <1>6 DEF Addresses, OneAllocated, Exists, TypeOK
  <1>8. FilesOwned'
    <2>1. \A d \in Buffer : d # b => maps'[Allocator][d] = maps[Allocator][d]
      BY <1>2, AllocatorAssumption
    <2> QED
      BY <1>1, <1>6, <2>1 DEF FilesOwned
  <1>9. Counted'
    <2>1. \A q \in Process, d \in Buffer : q # p \/ d # b =>
            maps'[q][d] = maps[q][d] /\ Mapped(q, d)' = Mapped(q, d)
      BY <1>1, <1>2 DEF Mapped, Exists, TypeOK
    <2>2. Mapped(p, b)' = Mapped(p, b) \ {h}
      BY <1>1 DEF Mapped, Exists, TypeOK
    <2>3. CASE base[h] = "zero"
      <3>1. Mapped(p, b)' = Mapped(p, b) /\ maps'[p][b] = maps[p][b]
        BY <1>2, <2>2, <2>3 DEF Mapped
      <3> QED
        BY <2>1, <3>1, CountSame, CountOthers DEF Counted
    <2>4. CASE base[h] # "zero"
      <3>1. maps'[p][b] = maps[p][b] - 1
        BY <1>2, <2>4 DEF TypeOK
      <3> QED
        BY <1>2, <2>1, <2>2, <2>4, <3>1, CountRemove, CountOthers DEF Counted
    <2> QED
      BY <2>3, <2>4
  <1> QED
    BY <1>1, <1>2, <1>4, <1>5, <1>7, <1>8, <1>9

LEMMA FreeStep ==
  ASSUME BufInv, NEW h \in Handle, FreeBuffer(h)
  PROVE  BufInv'
  <1> USE DEF BufInv, HandlesInv
  <1>1. PICK b \in Buffer :
          /\ owner[h] = Allocator /\ b = of[h] /\ Exists(h) /\ state[h] = "allocated"
          /\ file' = [file EXCEPT ![b] = CloexecOrClose(@, FALSE)]
          /\ DropHandle(h) /\ shape' = shape
    BY DEF FreeBuffer, Exists, TypeOK, Addresses
  <1>2. /\ stray' = FALSE
        /\ maps' \in [Process -> [Buffer -> Nat]]
        /\ \A q \in Process, d \in Buffer :
             (q # Allocator \/ d # b) => maps'[q][d] = maps[q][d]
        /\ base[h] = "zero" => maps'[Allocator][b] = maps[Allocator][b]
        /\ base[h] # "zero" => /\ h \in Mapped(Allocator, b)
                               /\ maps'[Allocator][b] = maps[Allocator][b] - 1
    <2>1. state[h] # "received" /\ UnmapIfSet(h)
      BY <1>1 DEF FreeBuffer
    <2> HIDE DEF BufInv, HandlesInv
    <2> QED
      BY <1>1, <2>1, UnmapEffect, AllocatorAssumption
  <1>3. ~Fresh(b)
    BY <1>1 DEF FreshUnused
  <1>4. file[b] \in Nameless
    <2>1. file[b] \in File /\ file[b].linked = FALSE
      BY DEF TypeOK, FilesOwned
    <2> QED
      BY <2>1 DEF File, Nameless
  <1>5. file'[b].linked = FALSE /\ ~file'[b].open /\ file'[b] \in File
    BY <1>1, <1>4, Closed, RecordWider DEF TypeOK
  <1>6. TypeOK'
    <2>1. file' \in [Buffer -> File]
      BY <1>1, <1>5 DEF TypeOK
    <2>2. /\ of' \in [Handle -> Buffer \cup {NoBuffer}] /\ owner' \in [Handle -> Process]
          /\ state' \in [Handle -> {"allocated", "received", "registered"}]
          /\ base' \in [Handle -> {"zero", "mapped", "foreign"}]
      BY <1>1, AllocatorAssumption DEF TypeOK, DropHandle
    <2>3. shape' \in [Buffer -> [w : Nat, h : Nat, bpp : Nat, size : Nat, stride : Nat]]
      BY <1>1 DEF TypeOK
    <2> QED
      BY <1>2, <2>1, <2>2, <2>3 DEF TypeOK
  <1>7. ShapesInv' /\ FreshUnused'
    <2>1. ShapesInv' /\ \A d \in Buffer : Fresh(d)' <=> Fresh(d)
      BY <1>1, <1>5 DEF ShapesInv, Fresh, TypeOK
    <2>2. \A k \in Handle : of'[k] = of[k] \/ of'[k] = NoBuffer
      BY <1>1 DEF DropHandle, TypeOK
    <2> QED
      BY <1>2, <1>3, <2>1, <2>2, BufferAssumption DEF FreshUnused
  <1>8. \A k \in Handle \ {h} : /\ Allocated(k)' <=> Allocated(k)
                                /\ Exists(k)' <=> Exists(k)
                                /\ of'[k] = of[k]
    BY <1>1 DEF Allocated, Exists, DropHandle, TypeOK
  <1>9. of'[h] = NoBuffer /\ ~Exists(h)' /\ ~Allocated(h)'
    BY <1>1 DEF Allocated, Exists, DropHandle, TypeOK
  <1>10. Addresses' /\ OneAllocated'
    BY <1>1, <1>8, <1>9 DEF Addresses, OneAllocated, DropHandle, TypeOK
  <1>11. FilesOwned'
    <2> SUFFICES ASSUME NEW d \in Buffer
                 PROVE  /\ file'[d].linked = FALSE
                        /\ \A k \in Handle : Allocated(k)' /\ of'[k] = d => file'[d].open
                        /\ file'[d].open => \/ \E k \in Handle : Allocated(k)' /\ of'[k] = d
                                            \/ maps'[Allocator][d] # 0 /\ \A k \in Handle : of'[k] # d
      BY DEF FilesOwned
    <2>1. CASE d = b
      <3>1. \A k \in Handle : ~(Allocated(k)' /\ of'[k] = d)
        BY <1>1, <1>8, <1>9, <2>1 DEF OneAllocated, Allocated
      <3> QED
        BY <1>5, <2>1, <3>1
    <2>2. CASE d # b
      <3>1. file'[d] = file[d] /\ maps'[Allocator][d] = maps[Allocator][d]
        BY <1>1, <1>2, <2>2, AllocatorAssumption DEF TypeOK
      <3>2. \A k \in Handle : /\ (Allocated(k)' /\ of'[k] = d) <=> (Allocated(k) /\ of[k] = d)
                              /\ (of'[k] = d) <=> (of[k] = d)
        BY <1>1, <1>8, <1>9, <2>2, BufferAssumption
      <3> QED
        BY <3>1, <3>2 DEF FilesOwned
    <2> QED
      BY <2>1, <2>2
  <1>12. Counted'
    <2>1. \A q \in Process, d \in Buffer : q # Allocator \/ d # b =>
            maps'[q][d] = maps[q][d] /\ Mapped(q, d)' = Mapped(q, d)
      BY <1>1, <1>2 DEF Mapped, Exists, DropHandle, TypeOK
    <2>2. Mapped(Allocator, b)' = Mapped(Allocator, b) \ {h}
      BY <1>1 DEF Mapped, Exists, DropHandle, TypeOK
    <2>3. CASE base[h] = "zero"
      <3>1. Mapped(Allocator, b)' = Mapped(Allocator, b) /\ maps'[Allocator][b] = maps[Allocator][b]
        BY <1>2, <2>2, <2>3 DEF Mapped
      <3> QED
        BY <2>1, <3>1, CountSame, CountOthers, AllocatorAssumption DEF Counted
    <2>4. CASE base[h] # "zero"
      <3>1. maps'[Allocator][b] = maps[Allocator][b] - 1
        BY <1>2, <2>4, AllocatorAssumption DEF TypeOK
      <3> QED
        BY <1>2, <2>1, <2>2, <2>4, <3>1, CountRemove, CountOthers, AllocatorAssumption DEF Counted
    <2> QED
      BY <2>3, <2>4
  <1> QED
    BY <1>2, <1>6, <1>7, <1>10, <1>11, <1>12

\* A handle that is not mapped and was not allocated is dropped.
LEMMA DropStep ==
  ASSUME BufInv, NEW h \in Handle, RegisterFails(h) \/ Discard(h)
  PROVE  BufInv'
  <1> USE DEF BufInv, HandlesInv
  <1>1. /\ Exists(h) /\ state[h] # "allocated" /\ base[h] # "mapped"
        /\ DropHandle(h) /\ UNCHANGED <<maps, file, shape, stray>>
    BY DEF RegisterFails, Discard, Addresses
  <1>2. TypeOK'
    BY <1>1, AllocatorAssumption DEF TypeOK, DropHandle
  <1>3. ShapesInv' /\ FreshUnused'
    BY <1>1, BufferAssumption DEF ShapesInv, FreshUnused, Fresh, TypeOK, DropHandle
  <1>4. \A k \in Handle : /\ Allocated(k)' <=> Allocated(k)
                          /\ k # h => of'[k] = of[k] /\ (Exists(k)' <=> Exists(k))
    BY <1>1 DEF Allocated, Exists, DropHandle, TypeOK
  <1>5. of'[h] = NoBuffer /\ ~Exists(h)' /\ ~Allocated(h)
    BY <1>1 DEF Exists, Allocated, DropHandle, TypeOK
  <1>6. Addresses' /\ OneAllocated'
    BY <1>1, <1>4, <1>5 DEF Addresses, OneAllocated, DropHandle, TypeOK
  <1>7. FilesOwned'
    <2>1. \A d \in Buffer, k \in Handle : of[k] # d => of'[k] # d
      BY <1>4, <1>5, BufferAssumption
    <2>2. \A d \in Buffer, k \in Handle : Allocated(k)' /\ of'[k] = d <=> Allocated(k) /\ of[k] = d
      BY <1>4, <1>5
    <2> QED
      BY <1>1, <2>1, <2>2 DEF FilesOwned
  <1>8. \A q \in Process, d \in Buffer : Mapped(q, d)' = Mapped(q, d)
    BY <1>1, <1>5, BufferAssumption DEF Mapped, Exists, DropHandle, TypeOK
  <1>9. Counted'
    BY <1>1, <1>8, CountSame DEF Counted
  <1> QED
    BY <1>1, <1>2, <1>3, <1>6, <1>7, <1>9

LEMMA ExitStep ==
  ASSUME BufInv, NEW p \in Process, Exit(p)
  PROVE  BufInv'
  <1> USE DEF BufInv, HandlesInv
  <1>1. /\ p # Allocator
        /\ \A k \in Handle :
             IF Exists(k) /\ owner[k] # p
             THEN of'[k] = of[k] /\ owner'[k] = owner[k] /\ state'[k] = state[k] /\ base'[k] = base[k]
             ELSE of'[k] = NoBuffer /\ owner'[k] = Allocator /\ state'[k] = "received"
                    /\ base'[k] = "zero"
        /\ maps' = [maps EXCEPT ![p] = [b \in Buffer |-> 0]]
        /\ UNCHANGED <<file, shape, stray>>
    BY DEF Exit
  <1>2. TypeOK'
    <2>1. /\ of' \in [Handle -> Buffer \cup {NoBuffer}] /\ owner' \in [Handle -> Process]
          /\ state' \in [Handle -> {"allocated", "received", "registered"}]
          /\ base' \in [Handle -> {"zero", "mapped", "foreign"}]
      BY AllocatorAssumption DEF Exit, TypeOK
    <2> QED
      BY <1>1, <2>1 DEF TypeOK
  <1>3. ShapesInv' /\ FreshUnused'
    BY <1>1, BufferAssumption DEF ShapesInv, FreshUnused, Fresh, TypeOK
  <1>4. \A k \in Handle : /\ Exists(k)' <=> Exists(k) /\ owner[k] # p
                          /\ Allocated(k)' <=> Allocated(k)
                          /\ Allocated(k) => of'[k] = of[k]
    BY <1>1 DEF Exists, Allocated, Addresses
  <1>5. Addresses' /\ OneAllocated'
    BY <1>1, <1>4 DEF Addresses, OneAllocated
  <1>6. FilesOwned'
    <2>1. \A d \in Buffer, k \in Handle : of[k] # d => of'[k] # d
      BY <1>1, BufferAssumption
    <2>2. maps'[Allocator] = maps[Allocator]
      BY <1>1, AllocatorAssumption DEF TypeOK
    <2> QED
      BY <1>1, <1>4, <2>1, <2>2 DEF FilesOwned
  <1>7. Counted'
    <2> SUFFICES ASSUME NEW q \in Process, NEW d \in Buffer PROVE CountAt(q, d)'
      BY DEF Counted
    <2>1. CASE q = p
      <3>1. Mapped(q, d)' = {} /\ maps'[q][d] = 0
        BY <1>1, <2>1, BufferAssumption DEF Mapped, Exists, TypeOK
      <3> QED
        BY <1>1, <2>1, <3>1, FS_EmptySet DEF CountAt
    <2>2. CASE q # p
      <3>1. Mapped(q, d)' = Mapped(q, d) /\ maps'[q][d] = maps[q][d]
        BY <1>1, <2>2, BufferAssumption DEF Mapped, Exists, TypeOK
      <3> QED
        BY <3>1, CountSame DEF Counted
    <2> QED
      BY <2>1, <2>2
  <1> QED
    BY <1>1, <1>2, <1>3, <1>5, <1>6, <1>7

-------------------------------------------------------------------------------
LEMMA InitBuf == Init => BufInv
  <1> SUFFICES ASSUME Init PROVE BufInv
    OBVIOUS
  <1>1. TypeOK
    BY AllocatorAssumption DEF Init, TypeOK, File, NoFile, NoShape
  <1>2. HandlesInv
    BY BufferAssumption DEF Init, HandlesInv, FreshUnused, Fresh, Addresses, OneAllocated,
                            FilesOwned, Allocated, Exists, NoFile
  <1>3. Counted
    <2>1. \A p \in Process, b \in Buffer : Mapped(p, b) = {} /\ maps[p][b] = 0
      BY DEF Init, Mapped, Exists
    <2> QED
      BY <2>1, FS_EmptySet DEF Counted, CountAt
  <1>4. ShapesInv
    BY NoShapeFits DEF Init, ShapesInv, NoFile
  <1> QED
    BY <1>1, <1>2, <1>3, <1>4 DEF Init, BufInv

LEMMA BufStep == BufInv /\ [Next]_vars => BufInv'
  <1> SUFFICES ASSUME BufInv, [Next]_vars PROVE BufInv'
    OBVIOUS
  <1>1. CASE UNCHANGED vars
    BY <1>1 DEF vars, handles, BufInv, TypeOK, HandlesInv, FreshUnused, Fresh, Addresses,
                OneAllocated, FilesOwned, Allocated, Exists, Counted, CountAt, Mapped, ShapesInv
  <1> QED
    BY <1>1, AllocFailsStep, AllocStep, FreeStep, RegisterStep, DropStep, UnregisterStep,
       SendStep, ExitStep DEF Next

LEMMA BufInvAlways == Spec => []BufInv
  BY InitBuf, BufStep, PTL DEF Spec

\* The state of the buffers stays well typed; in particular no count of mappings falls
\* below zero.
THEOREM TypeCorrect == Spec => []TypeOK
  BY BufInvAlways, PTL DEF BufInv

\* No process unmaps what it has not mapped, for any number of processes and copies.
THEOREM NeverStray == Spec => []NoStrayUnmap
  <1>1. BufInv => NoStrayUnmap
    BY DEF BufInv, NoStrayUnmap
  <1> QED
    BY <1>1, BufInvAlways, PTL

\* Every handle that may be locked has a mapping of its own, in its own process.
THEOREM MappingsAlwaysCounted == Spec => []MappingsCounted
  <1>1. BufInv => MappingsCounted
    BY DEF BufInv, Counted, CountAt, MappingsCounted
  <1> QED
    BY <1>1, BufInvAlways, PTL

\* No file of a buffer keeps a name, on whatever path it was made or given up.
THEOREM FilesStayAnonymous == Spec => []FilesAnonymous
  <1>1. BufInv => FilesAnonymous
    BY BufferAssumption DEF BufInv, HandlesInv, FilesOwned, FilesAnonymous, Allocated, Exists
  <1> QED
    BY <1>1, BufInvAlways, PTL

\* For every width, height and size of a pixel: the pixels fit into what a handle maps, and
\* the rows that the compositor is told of into the file, which is shorter.
THEOREM RowsAlwaysFit == Spec => []RowsFit
  <1>1. ASSUME BufInv PROVE RowsFit
    <2> SUFFICES ASSUME NEW b \in Buffer, NEW s, s = shape[b]
                 PROVE  /\ ShapeFits(s)
                        /\ file[b].open => s.stride * s.h <= file[b].length
                                              /\ file[b].length * s.bpp <= s.size
      BY DEF RowsFit, ShapeFits
    <2>1. ShapeFits(s) /\ (file[b].open => file[b].length = s.h * s.stride)
      BY <1>1 DEF BufInv, ShapesInv, SizeMap
    <2>2. s.h \in Nat /\ s.stride \in Nat /\ s.bpp \in Nat /\ s.size \in Nat
      BY <2>1 DEF ShapeFits
    <2>3. s.h * s.stride = s.stride * s.h /\ (s.h * s.stride) * s.bpp = s.stride * s.bpp * s.h
            /\ s.stride * s.h \in Nat
      BY <2>2
    <2> QED
      BY <2>1, <2>3 DEF ShapeFits
  <1> QED
    BY <1>1, BufInvAlways, PTL
===============================================================================
