----------------------------- MODULE GrallocProofs ----------------------------
(* Theorems about Gralloc, for any number of threads, handles and screens. *)
EXTENDS Gralloc, WellFoundedInduction, TLAPS

\* t has found the mask not full, and not yet changed it.
Chosen(t) == pc[t] \in {"set", "store"}

\* The slot that is looked for is there, and a handle is freed by one thread.
Local ==
  /\ \A t \in Thread : Chosen(t) => ~(Slots \subseteq seen[t])
  /\ \A t, u \in Thread : t # u /\ hand[t] # NoHandle => hand[t] # hand[u]
  /\ \A t \in Thread : hand[t] # NoHandle => pc[t] = "clear"

\* Without a mapping there is nothing to hand out.
Empty ==
  framebuffer = "none" =>
    /\ numBuffers = 0
    /\ \A h \in Handle : ~InSlot(h)

\* While an allocation is between its look at the mask and its change, others can
\* only take bits away.
SeenCovers == ~lost => \A t \in Thread : Chosen(t) => bufferMask \subseteq seen[t]

LockInv == TypeOK /\ MutualExclusion /\ Local /\ Empty
SlotInv == LockInv /\ SeenCovers /\ SlotsExclusive /\ MaskIsHandles

-------------------------------------------------------------------------------
LEMMA MinExists ==
  ASSUME NEW S, S \subseteq Nat, S # {}
  PROVE  \E i \in S : \A j \in S : i <= j
  <1> DEFINE R == {p \in Nat \X Nat : p[1] < p[2]}
  <1>1. IsWellFoundedOn(R, Nat)
    BY NatLessThanWellFounded DEF OpToRel
  <1>2. PICK i \in S : \A j \in S : <<j, i>> \notin R
    BY <1>1, WFMin
  <1>3. \A j \in S : ~(j < i)
    BY <1>2
  <1> QED
    BY <1>2, <1>3

\* The loop over the bits finds one that was clear.
LEMMA FirstFreeIsFree ==
  ASSUME LockInv, NEW t \in Thread, Chosen(t)
  PROVE  FirstFree(t) \in Slots \ seen[t] /\ FirstFree(t) \in Nat
  <1>1. Slots \ seen[t] # {} /\ Slots \ seen[t] \subseteq Nat
    BY DEF LockInv, Local, TypeOK, Slots
  <1>2. \E i \in Slots \ seen[t] : \A j \in Slots \ seen[t] : i <= j
    BY <1>1, MinExists
  <1> QED
    BY <1>1, <1>2 DEF FirstFree

LEMMA FreshEstablishes == ASSUME Fresh PROVE LockInv' /\ SlotInv'
  <1>1. TypeOK'
    BY HandleAssumption DEF Fresh, TypeOK
  <1>2. MutualExclusion'
    BY ThreadAssumption DEF Fresh, MutualExclusion, Inside
  <1>3. Local' /\ Empty' /\ SeenCovers'
    BY DEF Fresh, Local, Empty, SeenCovers, Chosen, InSlot
  <1>4. SlotsExclusive'
    BY DEF Fresh, SlotsExclusive, InSlot
  <1>5. MaskIsHandles'
    BY DEF Fresh, MaskIsHandles, InSlot
  <1> QED
    BY <1>1, <1>2, <1>3, <1>4, <1>5 DEF LockInv, SlotInv

LEMMA InitEstablishes == Init => SlotInv
  <1> SUFFICES ASSUME Init PROVE SlotInv
    OBVIOUS
  <1>1. TypeOK
    BY HandleAssumption DEF Init, TypeOK
  <1>2. MutualExclusion
    BY ThreadAssumption DEF Init, MutualExclusion, Inside
  <1>3. Local /\ Empty /\ SeenCovers
    BY DEF Init, Local, Empty, SeenCovers, Chosen, InSlot
  <1>4. SlotsExclusive
    BY DEF Init, SlotsExclusive, InSlot
  <1>5. MaskIsHandles
    BY DEF Init, MaskIsHandles, InSlot
  <1> QED
    BY <1>1, <1>2, <1>3, <1>4, <1>5 DEF LockInv, SlotInv

-------------------------------------------------------------------------------
(* The lock *)

LEMMA MapsType ==
  ASSUME LockInv, NEW outcome \in {"fails", "silent", "half", "mapped"},
         MapsFramebuffer(outcome)
  PROVE  /\ framebuffer' \in {"none", "half", "mapped"}
         /\ numBuffers' \in Nat
         /\ bufferMask' \subseteq Nat
  BY ScreensAssumption DEF LockInv, TypeOK, MapsFramebuffer, module

LEMMA TypeStep ==
  ASSUME LockInv, NEW t \in Thread, Locked(t) \/ Unlocked(t)
  PROVE  TypeOK'
  <1> USE DEF Goto, locals, module
  <1> TypeOK
    BY DEF LockInv
  <1>1. CASE Open(t)
    <2>1. /\ framebuffer' \in {"none", "half", "mapped"}
          /\ numBuffers' \in Nat
          /\ bufferMask' \subseteq Nat
      BY <1>1, MapsType DEF Open, TypeOK
    <2> QED
      BY <1>1, <2>1 DEF Open, TypeOK, Inside
  <1>2. CASE AllocMap(t)
    BY <1>2, MapsType DEF AllocMap, TypeOK, Inside
  <1>3. CASE Pick(t)
    BY <1>3 DEF Pick, TypeOK, Inside
  <1>4. CASE AllocBuffer(t)
    BY <1>4, PlaceAssumption DEF AllocBuffer, TypeOK, Inside
  <1>5. CASE Load(t)
    BY <1>5 DEF Load, TypeOK, Inside
  <1>6. CASE SetBit(t)
    <2>1. FirstFree(t) \in Nat
      BY <1>6, FirstFreeIsFree DEF SetBit, Chosen
    <2> QED
      BY <1>6, <2>1, PlaceAssumption DEF SetBit, TypeOK, Inside
  <1>7. CASE Unlock(t)
    BY <1>7 DEF Unlock, TypeOK, Inside
  <1>8. CASE Call(t) \/ Acquire(t)
    BY <1>8 DEF Call, Acquire, TypeOK, Inside
  <1>9. CASE \E h \in Handle : Free(t, h)
    <2>1. PICK h \in Handle : Free(t, h)
      BY <1>9
    <2>2. CASE InSlot(h)
      BY <2>1, <2>2, PlaceAssumption DEF Free, TypeOK, InSlot, Inside
    <2>3. CASE ~InSlot(h)
      <3>1. at' = [at EXCEPT ![h] = Gone] /\ \A u \in Thread : hand[u] # h
        BY <2>1, <2>3 DEF Free
      <3>2. \A u \in Thread : pc'[u] = "clear" => pc[u] = "clear"
        BY <2>1, <2>3 DEF Free, TypeOK
      <3>3. \A u \in Thread : pc'[u] = "clear" => hand[u] \in Handle /\ at'[hand[u]] \in Nat
        BY <3>1, <3>2 DEF TypeOK
      <3> QED
        BY <2>1, <2>3, <3>3 DEF Free, TypeOK, Inside
    <2> QED
      BY <2>2, <2>3
  <1>10. CASE ClearBit(t)
    <2>1. /\ hand[t] \in Handle
          /\ \A u \in Thread : u # t /\ pc[u] = "clear" => hand[u] # hand[t]
      BY <1>10, HandleAssumption DEF ClearBit, LockInv, Local, TypeOK
    <2>2. \A u \in Thread : pc'[u] = "clear" =>
            hand'[u] \in Handle /\ at'[hand'[u]] \in Nat
      BY <1>10, <2>1 DEF ClearBit, TypeOK
    <2>3. bufferMask' \subseteq Nat /\ lost' \in BOOLEAN
      BY <1>10 DEF ClearBit, TypeOK
    <2>4. at' \in [Handle -> Nat \cup {Ram, Gone}]
      BY <1>10 DEF ClearBit, TypeOK
    <2> QED
      BY <1>10, <2>2, <2>3, <2>4 DEF ClearBit, TypeOK, Inside
  <1>11. CASE OpenDies(t) \/ DestroyPool(t) \/ PostDies(t)
    BY <1>11, FreshEstablishes DEF OpenDies, DestroyPool, PostDies, LockInv
  <1> QED
    BY <1>1, <1>2, <1>3, <1>4, <1>5, <1>6, <1>7, <1>8, <1>9, <1>10, <1>11 DEF Locked, Unlocked

LEMMA LockStep ==
  ASSUME LockInv, NEW t \in Thread, Locked(t) \/ Unlocked(t)
  PROVE  MutualExclusion'
  <1> USE ThreadAssumption DEF Goto, locals, module, Inside, MutualExclusion
  <1> TypeOK /\ MutualExclusion
    BY DEF LockInv
  <1>1. CASE Open(t)
    BY <1>1 DEF Open, TypeOK
  <1>2. CASE AllocMap(t)
    BY <1>2 DEF AllocMap, TypeOK
  <1>3. CASE Pick(t) \/ AllocBuffer(t) \/ Load(t) \/ SetBit(t)
    BY <1>3 DEF Pick, AllocBuffer, Load, SetBit, TypeOK
  <1>4. CASE Unlock(t)
    BY <1>4 DEF Unlock, TypeOK
  <1>5. CASE Call(t) \/ Acquire(t)
    BY <1>5 DEF Call, Acquire, TypeOK
  <1>6. CASE (\E h \in Handle : Free(t, h)) \/ ClearBit(t)
    BY <1>6 DEF Free, ClearBit, TypeOK
  <1>7. CASE OpenDies(t) \/ DestroyPool(t) \/ PostDies(t)
    BY <1>7, FreshEstablishes DEF OpenDies, DestroyPool, PostDies, LockInv
  <1> QED
    BY <1>1, <1>2, <1>3, <1>4, <1>5, <1>6, <1>7 DEF Locked, Unlocked

LEMMA LocalStep ==
  ASSUME LockInv, NEW t \in Thread, Locked(t) \/ Unlocked(t)
  PROVE  Local'
  <1> USE DEF Goto, locals, module, Local, Chosen, Slots
  <1> TypeOK /\ MutualExclusion /\ Local
    BY DEF LockInv
  <1>1. CASE Open(t) \/ AllocMap(t)
    <2>1. \A u \in Thread : u # t => ~Chosen(u)
      BY <1>1 DEF Open, AllocMap, MutualExclusion, Inside
    <2>2. ~Chosen(t)' /\ \A u \in Thread : u # t => pc'[u] = pc[u]
      BY <1>1 DEF Open, AllocMap, TypeOK
    <2> QED
      BY <1>1, <2>1, <2>2 DEF Open, AllocMap, TypeOK
  <1>2. CASE Pick(t) \/ AllocBuffer(t) \/ Load(t) \/ SetBit(t)
    BY <1>2 DEF Pick, AllocBuffer, Load, SetBit, TypeOK
  <1>3. CASE Unlock(t) \/ Call(t) \/ Acquire(t)
    BY <1>3 DEF Unlock, Call, Acquire, TypeOK
  <1>4. CASE (\E h \in Handle : Free(t, h)) \/ ClearBit(t)
    BY <1>4 DEF Free, ClearBit, TypeOK
  <1>5. CASE OpenDies(t) \/ DestroyPool(t) \/ PostDies(t)
    BY <1>5, FreshEstablishes DEF OpenDies, DestroyPool, PostDies, LockInv
  <1> QED
    BY <1>1, <1>2, <1>3, <1>4, <1>5 DEF Locked, Unlocked

LEMMA EmptyStep ==
  ASSUME LockInv, NEW t \in Thread, Locked(t) \/ Unlocked(t)
  PROVE  Empty'
  <1> USE PlaceAssumption DEF Goto, locals, module, Empty, InSlot
  <1> TypeOK /\ Empty
    BY DEF LockInv
  <1>1. CASE Open(t) \/ AllocMap(t)
    BY <1>1 DEF Open, AllocMap, MapsFramebuffer
  <1>2. CASE Pick(t) \/ Load(t) \/ Unlock(t) \/ Call(t) \/ Acquire(t)
    BY <1>2 DEF Pick, Load, Unlock, Call, Acquire
  <1>3. CASE AllocBuffer(t) \/ (\E h \in Handle : Free(t, h)) \/ ClearBit(t)
    BY <1>3 DEF AllocBuffer, Free, ClearBit, TypeOK
  <1>4. CASE SetBit(t)
    <2>1. FirstFree(t) \in Slots
      BY <1>4, FirstFreeIsFree DEF SetBit, Chosen
    <2>2. framebuffer # "none"
      BY <2>1 DEF Slots
    <2> QED
      BY <1>4, <2>2 DEF SetBit
  <1>5. CASE OpenDies(t) \/ DestroyPool(t) \/ PostDies(t)
    BY <1>5, FreshEstablishes DEF OpenDies, DestroyPool, PostDies, LockInv
  <1> QED
    BY <1>1, <1>2, <1>3, <1>4, <1>5 DEF Locked, Unlocked

LEMMA LockInvStep ==
  ASSUME LockInv, [Next]_vars
  PROVE  LockInv'
  <1>1. CASE Killed
    BY <1>1, FreshEstablishes DEF Killed
  <1>2. ASSUME NEW t \in Thread, Locked(t) \/ Unlocked(t) PROVE LockInv'
    BY <1>2, TypeStep, LockStep, LocalStep, EmptyStep DEF LockInv
  <1>3. CASE UNCHANGED vars
    BY <1>3 DEF LockInv, vars, TypeOK, MutualExclusion, Local, Empty, Chosen, InSlot, Slots
  <1> QED
    BY <1>1, <1>2, <1>3 DEF Next

-------------------------------------------------------------------------------
(* The slots *)

\* Steps that change neither the mask nor who has a slot.
LEMMA SameSlots ==
  ASSUME SlotInv, UNCHANGED <<numBuffers, bufferMask, lost>>,
         \A h \in Handle : (InSlot(h)' <=> InSlot(h)) /\ (InSlot(h) => at'[h] = at[h])
  PROVE  SlotsExclusive' /\ MaskIsHandles'
  <1> USE DEF SlotInv
  <1>1. SlotsExclusive'
    BY DEF SlotsExclusive, InSlot
  <1>2. {at'[h] : h \in {g \in Handle : InSlot(g)'}} = {at[h] : h \in {g \in Handle : InSlot(g)}}
    OBVIOUS
  <1>3. Slots' = Slots
    BY DEF Slots
  <1> QED
    BY <1>1, <1>2, <1>3 DEF MaskIsHandles

LEMMA MapStep ==
  ASSUME SlotInv, NEW t \in Thread, Open(t) \/ AllocMap(t)
  PROVE  SeenCovers' /\ SlotsExclusive' /\ MaskIsHandles'
  <1> USE DEF SlotInv, LockInv, Goto, locals
  <1>1. UNCHANGED <<at, lost, seen>>
    BY DEF Open, AllocMap
  <1>2. \A u \in Thread : ~Chosen(u)'
    BY DEF Open, AllocMap, MutualExclusion, Inside, Chosen, TypeOK
  <1>3. SeenCovers'
    BY <1>2 DEF SeenCovers
  <1>4. CASE framebuffer = "none"
    <2>1. \A h \in Handle : ~InSlot(h)
      BY <1>4 DEF Empty
    <2>2. \A h \in Handle : ~InSlot(h)'
      BY <1>1, <2>1 DEF InSlot
    <2>3. {at[h] : h \in {g \in Handle : InSlot(g)}} = {}
      BY <2>1
    <2>4. bufferMask' = {} \/ bufferMask' = bufferMask
      BY DEF Open, AllocMap, MapsFramebuffer, module
    <2>5. ~lost => bufferMask' = {}
      BY <2>3, <2>4 DEF MaskIsHandles
    <2> QED
      BY <1>1, <1>3, <2>2, <2>5 DEF SlotsExclusive, MaskIsHandles
  <1>5. CASE framebuffer # "none"
    <2>1. UNCHANGED <<numBuffers, bufferMask>>
      BY <1>5 DEF Open, AllocMap, module
    <2> QED
      BY <1>1, <1>3, <2>1, SameSlots DEF InSlot
  <1> QED
    BY <1>4, <1>5

LEMMA SetBitStep ==
  ASSUME SlotInv, NEW t \in Thread, SetBit(t)
  PROVE  SeenCovers' /\ SlotsExclusive' /\ MaskIsHandles'
  <1> USE DEF SlotInv, LockInv, Goto
  <1>1. FirstFree(t) \in Slots \ seen[t] /\ FirstFree(t) \in Nat /\ Slots' = Slots
    BY FirstFreeIsFree DEF SetBit, Chosen, module, Slots
  <1>2. PICK h \in Handle : at[h] = Gone /\ at' = [at EXCEPT ![h] = FirstFree(t)]
    BY DEF SetBit
  <1>3. SeenCovers'
    BY DEF SetBit, SeenCovers, Chosen, MutualExclusion, Inside, TypeOK
  <1>4. CASE lost'
    BY <1>3, <1>4 DEF SlotsExclusive, MaskIsHandles
  <1>5. CASE ~lost'
    <2>1. ~lost /\ loaded[t] = bufferMask
      BY <1>5 DEF SetBit
    <2>2. bufferMask' = bufferMask \cup {FirstFree(t)}
      BY <2>1 DEF SetBit
    <2>3. FirstFree(t) \notin bufferMask
      BY <1>1, <2>1 DEF SeenCovers, Chosen, SetBit
    <2>4. /\ InSlot(h)' /\ ~InSlot(h) /\ at'[h] = FirstFree(t)
          /\ \A g \in Handle : g # h => (InSlot(g)' <=> InSlot(g)) /\ at'[g] = at[g]
      BY <1>1, <1>2, PlaceAssumption DEF InSlot, TypeOK
    <2>5. \A g \in Handle : InSlot(g) => at[g] \in bufferMask
      BY <2>1 DEF MaskIsHandles
    <2>6. SlotsExclusive'
      BY <2>1, <2>3, <2>4, <2>5 DEF SlotsExclusive, InSlot
    <2>7. bufferMask = {at[g] : g \in {f \in Handle : InSlot(f)}} /\ bufferMask \subseteq Slots
      BY <2>1 DEF MaskIsHandles
    <2>8. bufferMask' = {at'[g] : g \in {f \in Handle : InSlot(f)'}}
      BY <2>2, <2>4, <2>7
    <2>9. bufferMask' \subseteq Slots'
      BY <1>1, <2>2, <2>7
    <2> QED
      BY <1>3, <2>6, <2>8, <2>9 DEF MaskIsHandles
  <1> QED
    BY <1>4, <1>5

LEMMA ClearBitStep ==
  ASSUME SlotInv, NEW t \in Thread, ClearBit(t)
  PROVE  SeenCovers' /\ SlotsExclusive' /\ MaskIsHandles'
  <1> USE DEF SlotInv, LockInv, Goto, locals, module
  <1>1. PICK h \in Handle : h = hand[t] /\ at[h] \in Nat /\ InSlot(h)
    BY PlaceAssumption DEF ClearBit, TypeOK, InSlot
  <1>2. CASE lost'
    BY <1>2 DEF SeenCovers, SlotsExclusive, MaskIsHandles
  <1>3. CASE ~lost'
    <2>1. ~lost /\ bufferMask' = bufferMask \ {at[h]}
      BY <1>1, <1>3 DEF ClearBit
    <2>2. SeenCovers'
      BY <2>1 DEF ClearBit, SeenCovers, Chosen, TypeOK
    <2>3. /\ ~InSlot(h)'
          /\ \A g \in Handle : g # h => (InSlot(g)' <=> InSlot(g)) /\ at'[g] = at[g]
      <3>1. at' = [at EXCEPT ![h] = Gone] /\ at \in [Handle -> Nat \cup {Ram, Gone}]
        BY <1>1 DEF ClearBit, TypeOK
      <3> QED
        BY <1>1, <3>1, PlaceAssumption DEF InSlot
    <2>4. SlotsExclusive'
      <3> SUFFICES ASSUME NEW f \in Handle, NEW g \in Handle, f # g, InSlot(f)'
                   PROVE  at'[f] # at'[g]
        BY DEF SlotsExclusive
      <3>2. f # h /\ at'[f] = at[f] /\ InSlot(f) /\ at[f] # at[g] /\ (g # h => at'[g] = at[g])
        BY <2>1, <2>3 DEF SlotsExclusive
      <3>3. CASE g = h
        BY <2>3, <3>2, <3>3 DEF InSlot
      <3>4. CASE g # h
        BY <3>2, <3>4
      <3> QED
        BY <3>3, <3>4
    <2>5. \A g \in Handle : g # h /\ InSlot(g) => at[g] # at[h]
      BY <1>1, <2>1 DEF SlotsExclusive
    <2>6. bufferMask = {at[g] : g \in {f \in Handle : InSlot(f)}} /\ bufferMask \subseteq Slots
      BY <2>1 DEF MaskIsHandles
    <2>7. bufferMask' = {at'[g] : g \in {f \in Handle : InSlot(f)'}}
      <3>1. ASSUME NEW x \in bufferMask'
            PROVE  x \in {at'[g] : g \in {f \in Handle : InSlot(f)'}}
        <4>1. PICK g \in Handle : InSlot(g) /\ x = at[g] /\ x # at[h]
          BY <2>1, <2>6
        <4>2. g # h
          BY <4>1
        <4>3. InSlot(g)' /\ at'[g] = x
          BY <2>3, <4>1, <4>2
        <4> QED
          BY <4>3
      <3>2. ASSUME NEW g \in Handle, InSlot(g)' PROVE at'[g] \in bufferMask'
        <4>1. g # h /\ InSlot(g) /\ at'[g] = at[g]
          BY <2>3, <3>2
        <4> QED
          BY <2>1, <2>5, <2>6, <4>1
      <3> QED
        BY <3>1, <3>2
    <2>8. Slots' = Slots
      BY DEF ClearBit, Slots
    <2> QED
      BY <2>1, <2>2, <2>4, <2>6, <2>7, <2>8 DEF MaskIsHandles
  <1> QED
    BY <1>2, <1>3

LEMMA SlotInvStep ==
  ASSUME SlotInv, [Next]_vars
  PROVE  SlotInv'
  <1> USE PlaceAssumption DEF Goto, locals, module
  <1>0. LockInv'
    BY LockInvStep DEF SlotInv
  <1>1. CASE Killed
    BY <1>1, FreshEstablishes DEF Killed
  <1>2. ASSUME NEW t \in Thread, Locked(t) \/ Unlocked(t)
        PROVE  SeenCovers' /\ SlotsExclusive' /\ MaskIsHandles'
    <2>1. CASE Open(t) \/ AllocMap(t)
      BY <2>1, MapStep
    <2>2. CASE SetBit(t)
      BY <2>2, SetBitStep
    <2>3. CASE ClearBit(t)
      BY <2>3, ClearBitStep
    <2>4. CASE OpenDies(t) \/ DestroyPool(t) \/ PostDies(t)
      BY <2>4, FreshEstablishes DEF OpenDies, DestroyPool, PostDies, SlotInv
    <2>5. CASE Pick(t) \/ Load(t) \/ Unlock(t) \/ Call(t) \/ Acquire(t)
      <3>1. SeenCovers'
        BY <2>5 DEF Pick, Load, Unlock, Call, Acquire, SeenCovers, Chosen, SlotInv,
                    LockInv, TypeOK, Inside
      <3>2. UNCHANGED <<numBuffers, bufferMask, lost, at>>
        BY <2>5 DEF Pick, Load, Unlock, Call, Acquire
      <3> QED
        BY <3>1, <3>2, SameSlots DEF InSlot
    <2>6. CASE AllocBuffer(t) \/ \E h \in Handle : Free(t, h)
      <3>1. SeenCovers'
        BY <2>6 DEF AllocBuffer, Free, SeenCovers, Chosen, SlotInv, LockInv, TypeOK, Inside
      <3>2. UNCHANGED <<numBuffers, bufferMask, lost>>
        BY <2>6 DEF AllocBuffer, Free
      <3>3. \A h \in Handle : (InSlot(h)' <=> InSlot(h)) /\ (InSlot(h) => at'[h] = at[h])
        BY <2>6 DEF AllocBuffer, Free, InSlot, SlotInv, LockInv, TypeOK
      <3> QED
        BY <3>1, <3>2, <3>3, SameSlots
    <2> QED
      BY <1>2, <2>1, <2>2, <2>3, <2>4, <2>5, <2>6 DEF Locked, Unlocked
  <1>3. CASE UNCHANGED vars
    <2>1. SeenCovers'
      BY <1>3 DEF SlotInv, vars, SeenCovers, Chosen
    <2>2. UNCHANGED <<numBuffers, bufferMask, lost, at>>
      BY <1>3 DEF vars
    <2> QED
      BY <1>0, <2>1, <2>2, SameSlots DEF InSlot, SlotInv
  <1> QED
    BY <1>0, <1>1, <1>2, <1>3 DEF Next, SlotInv

-------------------------------------------------------------------------------
LEMMA SlotInvAlways == Spec => []SlotInv
  BY InitEstablishes, SlotInvStep, PTL DEF Spec

\* The state of the module stays well typed; in particular a handle that is being
\* freed by way of bufferMask is one with a slot.
THEOREM TypeCorrect == Spec => []TypeOK
  BY SlotInvAlways, PTL DEF SlotInv, LockInv

\* At most one thread maps the framebuffer or allocates, whatever fails inside.
THEOREM OneInside == Spec => []MutualExclusion
  BY SlotInvAlways, PTL DEF SlotInv, LockInv

\* No two handles share a slot of the framebuffer until an unlocked store of
\* gralloc_free() has lost another one.
THEOREM SlotsStayExclusive == Spec => []SlotsExclusive
  BY SlotInvAlways, PTL DEF SlotInv

\* bufferMask is the slots of the handles until then: none is refused while a slot
\* is free, and none lies outside of the framebuffer.
THEOREM MaskStaysExact == Spec => []MaskIsHandles
  BY SlotInvAlways, PTL DEF SlotInv
===============================================================================
