------------------------ MODULE MerkleSlotPoolProofs ------------------------
(* Machine-checked properties of MerkleSlotPool, for every number of files,  *)
(* slots and threads, in the two settings where the pool keeps its promise:  *)
(* mmap(MAP_FIXED) of a file on a reserved slot is never refused, or the     *)
(* process maps and drops layers from one thread.                            *)
EXTENDS MerkleSlotPool, FiniteSetTheorems, TLAPS

SafeSetting == ~MapFixedMayFail \/ ~Concurrent

(* No step takes a variable out of its type.                                 *)
LEMMA TypeStep == TypeOK /\ [Next]_vars => TypeOK'
<1>2. TypeOK /\ [Next]_vars => TypeOK'
  <2> SUFFICES ASSUME TypeOK, [Next]_vars PROVE TypeOK'
    OBVIOUS
  <2> USE DEF TypeOK, PCs, Goto
  <2>1. CASE UNCHANGED vars
    BY <2>1 DEF vars
  <2>2. ASSUME NEW f \in Files, Begin(f) PROVE TypeOK'
    BY <2>2 DEF Begin
  <2>3. ASSUME NEW f \in Files, Drop(f) PROVE TypeOK'
    BY <2>3 DEF Drop
  <2>4. ASSUME NEW f \in Files, Continue(f) PROVE TypeOK'
    <3>1. ASSUME NEW o \in {"ready", "none"}, InitPool(f, o) PROVE TypeOK'
      BY <3>1 DEF InitPool
    <3>2. CASE Reserve(f)
      BY <3>2 DEF Reserve
    <3>3. CASE NoReservation(f)
      BY <3>3 DEF NoReservation
    <3>4. CASE MapFixed(f)
      BY <3>4 DEF MapFixed
    <3>5. CASE MapFixedFails(f)
      <4>1. slotMap[lease[f]] \in Files \cup {Reserved, Hole} \/ lease[f] \notin Slots
        OBVIOUS
      <4>2. QED BY <3>5, <4>1 DEF MapFixedFails
    <3>6. CASE ReleaseOnMapFailure(f)
      BY <3>6 DEF ReleaseOnMapFailure
    <3>7. CASE Restore(f)
      BY <3>7 DEF Restore
    <3>8. CASE RestoreFails(f)
      <4>1. slotMap[lease[f]] \in Files \cup {Reserved, Hole} \/ lease[f] \notin Slots
        OBVIOUS
      <4>2. QED BY <3>8, <4>1 DEF RestoreFails
    <3>9. CASE Release(f)
      BY <3>9 DEF Release
    <3>10. CASE SystemMap(f)
      BY <3>10 DEF SystemMap
    <3>11. CASE SystemMapFails(f)
      BY <3>11 DEF SystemMapFails
    <3>12. CASE Track(f)
      BY <3>12 DEF Track
    <3>13. CASE Munmap(f)
      BY <3>13 DEF Munmap
    <3>14. QED
      BY <2>4, <3>1, <3>2, <3>3, <3>4, <3>5, <3>6, <3>7, <3>8, <3>9, <3>10,
         <3>11, <3>12, <3>13 DEF Continue
  <2>5. QED
    BY <2>1, <2>2, <2>3, <2>4 DEF Next
<1>3. QED
  BY <1>2

(* Every variable keeps its type, whatever the setting.                      *)
THEOREM TypeCorrect == Spec => []TypeOK
<1>1. Init => TypeOK
  BY PoolConstants DEF Init, TypeOK, PCs, Slots, NoSlot
<1>2. QED
  BY <1>1, TypeStep, PTL DEF Spec

(* The inductive invariant holds in every reachable state.                   *)
THEOREM InvariantHolds == ASSUME SafeSetting PROVE Spec => []IInv
<1> USE PoolConstants DEF Slots, NoSlot, Reserved, Hole
<1>1. Init => IInv
  BY DEF Init, IInv, TypeOK, PCs, OneAtATime, AtRest, ErrorPath, LeaseByStep,
     LeaseExclusive, LeasedIsTaken, MappedIsOwn, UnmappedIsEmpty,
     FreeSlotIsEmpty, NoSlotLost
<1>2. IInv /\ [Next]_vars => IInv'
  <2> SUFFICES ASSUME IInv, [Next]_vars, TypeOK' PROVE IInv'
    BY TypeStep DEF IInv
  <2> USE DEF IInv, TypeOK, OneAtATime, AtRest, ErrorPath, LeaseByStep,
          LeaseExclusive, LeasedIsTaken, MappedIsOwn, UnmappedIsEmpty,
          FreeSlotIsEmpty, NoSlotLost, Shown, Goto
  <2>1. CASE UNCHANGED vars
    BY <2>1 DEF vars
  <2>2. ASSUME NEW f \in Files, NEW o \in {"ready", "none"}, InitPool(f, o)
        PROVE  IInv'
    BY <2>2 DEF InitPool
  <2>3. ASSUME NEW f \in Files, Begin(f) PROVE IInv'
    BY <2>3, SMTT(30) DEF Begin, SafeSetting, CanReserve, IsFirstFree, FreeSlots, MayStart
  <2>4. ASSUME NEW f \in Files, Drop(f) PROVE IInv'
    BY <2>4, SMTT(30) DEF Drop, SafeSetting, CanReserve, IsFirstFree, FreeSlots, MayStart
  <2>5. ASSUME NEW f \in Files, Reserve(f) PROVE IInv'
    BY <2>5, SMTT(30) DEF Reserve, SafeSetting, CanReserve, IsFirstFree, FreeSlots, MayStart
  <2>6. ASSUME NEW f \in Files, NoReservation(f) PROVE IInv'
    BY <2>6, SMTT(30) DEF NoReservation, SafeSetting, CanReserve, IsFirstFree, FreeSlots, MayStart
  <2>7. ASSUME NEW f \in Files, MapFixed(f) PROVE IInv'
    BY <2>7, SMTT(30) DEF MapFixed, SafeSetting, CanReserve, IsFirstFree, FreeSlots, MayStart
  <2>8. ASSUME NEW f \in Files, MapFixedFails(f) PROVE IInv'
    BY <2>8, SMTT(30) DEF MapFixedFails, SafeSetting, CanReserve, IsFirstFree, FreeSlots, MayStart
  <2>9. ASSUME NEW f \in Files, ReleaseOnMapFailure(f) PROVE IInv'
    BY <2>9, SMTT(30) DEF ReleaseOnMapFailure, SafeSetting, CanReserve, IsFirstFree, FreeSlots, MayStart
  <2>10. ASSUME NEW f \in Files, Restore(f) PROVE IInv'
    BY <2>10, SMTT(30) DEF Restore, SafeSetting, CanReserve, IsFirstFree, FreeSlots, MayStart
  <2>11. ASSUME NEW f \in Files, RestoreFails(f) PROVE IInv'
    BY <2>11, SMTT(30) DEF RestoreFails, SafeSetting, CanReserve, IsFirstFree, FreeSlots, MayStart
  <2>12. ASSUME NEW f \in Files, Release(f) PROVE IInv'
    BY <2>12, SMTT(30) DEF Release, SafeSetting, CanReserve, IsFirstFree, FreeSlots, MayStart
  <2>13. ASSUME NEW f \in Files, SystemMap(f) PROVE IInv'
    BY <2>13, SMTT(30) DEF SystemMap, SafeSetting, CanReserve, IsFirstFree, FreeSlots, MayStart
  <2>14. ASSUME NEW f \in Files, SystemMapFails(f) PROVE IInv'
    BY <2>14, SMTT(30) DEF SystemMapFails, SafeSetting, CanReserve, IsFirstFree, FreeSlots, MayStart
  <2>15. ASSUME NEW f \in Files, Track(f) PROVE IInv'
    BY <2>15, SMTT(30) DEF Track, SafeSetting, CanReserve, IsFirstFree, FreeSlots, MayStart
  <2>16. ASSUME NEW f \in Files, Munmap(f) PROVE IInv'
    BY <2>16, SMTT(30) DEF Munmap, SafeSetting, CanReserve, IsFirstFree, FreeSlots, MayStart
  <2> HIDE DEF IInv, TypeOK, OneAtATime, AtRest, ErrorPath, LeaseByStep,
           LeaseExclusive, LeasedIsTaken, MappedIsOwn, UnmappedIsEmpty,
           FreeSlotIsEmpty, NoSlotLost, Shown, Goto
  <2>17. QED
    BY <2>1, <2>2, <2>3, <2>4, <2>5, <2>6, <2>7, <2>8, <2>9, <2>10, <2>11, <2>12, <2>13, <2>14, <2>15, <2>16 DEF Next, Continue
<1>3. QED
  BY <1>1, <1>2, PTL DEF Spec

(* A mapping that is held shows its own file, and no two leases share a      *)
(* slot: as_bytes reads the live mapping owned by self.                      *)
THEOREM HeldMappingsAreOwn ==
  ASSUME SafeSetting
  PROVE  Spec => [](HeldMappingIsOwn /\ LeaseExclusive)
<1>1. IInv => HeldMappingIsOwn /\ LeaseExclusive
  BY DEF IInv, MappedIsOwn, HeldMappingIsOwn
<1>2. QED
  BY <1>1, InvariantHolds, PTL

(* A slot on the free list shows no file, and when every restore succeeds    *)
(* every other slot is held by a lease: drops lose no slot.                  *)
THEOREM SlotsAreAccountedFor ==
  ASSUME SafeSetting
  PROVE  Spec => [](FreeSlotIsEmpty /\ NoSlotLost)
<1>1. IInv => FreeSlotIsEmpty /\ NoSlotLost
  BY DEF IInv
<1>2. QED
  BY <1>1, InvariantHolds, PTL

Held == {f \in Files : pc[f] = "live"}

(* ACTIVE_MMAPS is the number of mappings held, in every setting: it goes up *)
(* after the mmap and down before the munmap.                                *)
THEOREM CountIsExact == Spec => []CountMatchesHeld
<1>1. Init => CountMatchesHeld
  <2>1. Init => Held = {} /\ active = 0
    BY DEF Init, Held
  <2>2. QED
    BY <2>1, FS_EmptySet DEF CountMatchesHeld, Held
<1>2. TypeOK /\ CountMatchesHeld /\ [Next]_vars => CountMatchesHeld'
  <2> SUFFICES ASSUME TypeOK, CountMatchesHeld, [Next]_vars
               PROVE  CountMatchesHeld'
    OBVIOUS
  <2>1. IsFiniteSet(Held) /\ active = Cardinality(Held) /\ active \in Int
    <3>1. Held \in SUBSET Files
      BY DEF Held
    <3>2. QED
      BY <3>1, PoolConstants, FS_Subset DEF CountMatchesHeld, Held, TypeOK
  <2>2. ASSUME NEW f \in Files, Track(f) PROVE CountMatchesHeld'
    <3>1. Held' = Held \cup {f} /\ f \notin Held /\ active' = active + 1
      BY <2>2 DEF Track, Goto, Held, TypeOK
    <3>2. QED
      BY <2>1, <3>1, FS_AddElement DEF CountMatchesHeld, Held
  <2>3. ASSUME NEW f \in Files, Drop(f) PROVE CountMatchesHeld'
    <3>1. Held' = Held \ {f} /\ f \in Held /\ active' = active - 1
      BY <2>3 DEF Drop, Goto, Held, TypeOK
    <3>2. QED
      BY <2>1, <3>1, FS_RemoveElement DEF CountMatchesHeld, Held
  <2>4. CASE Held' = Held /\ active' = active
    BY <2>1, <2>4 DEF CountMatchesHeld, Held
  <2>5. \/ Held' = Held /\ active' = active
        \/ \E f \in Files : Track(f) \/ Drop(f)
    <3>1. CASE UNCHANGED vars
      BY <3>1 DEF vars, Held
    <3>2. ASSUME NEW f \in Files, Begin(f) \/ Continue(f), ~Track(f)
          PROVE  Held' = Held /\ active' = active
      <4> USE DEF Goto, Held, TypeOK, PCs
      <4>1. CASE Begin(f)
        BY <4>1 DEF Begin
      <4>2. CASE \E o \in {"ready", "none"} : InitPool(f, o)
        BY <4>2 DEF InitPool
      <4>3. CASE Reserve(f) \/ NoReservation(f)
        BY <4>3 DEF Reserve, NoReservation
      <4>4. CASE MapFixed(f) \/ MapFixedFails(f) \/ ReleaseOnMapFailure(f)
        BY <4>4 DEF MapFixed, MapFixedFails, ReleaseOnMapFailure
      <4>5. CASE Restore(f) \/ RestoreFails(f) \/ Release(f)
        BY <4>5 DEF Restore, RestoreFails, Release
      <4>6. CASE SystemMap(f) \/ SystemMapFails(f) \/ Munmap(f)
        BY <4>6 DEF SystemMap, SystemMapFails, Munmap
      <4>7. QED
        BY <3>2, <4>1, <4>2, <4>3, <4>4, <4>5, <4>6 DEF Continue
    <3>3. QED
      BY <3>1, <3>2 DEF Next
  <2>6. QED
    BY <2>2, <2>3, <2>4, <2>5
<1>3. QED
  BY <1>1, <1>2, TypeCorrect, PTL DEF Spec

(* The pool with its fallback implements FileMappings: every step of a       *)
(* thread is a step of the mapping it works on, or changes no mapping.       *)
THEOREM PoolImplementsMappings ==
  ASSUME SafeSetting
  PROVE  Spec => ImplementsMappings
<1> USE DEF StatusOf, ShowsOf
<1>1. Init => Mappings!Init
  BY DEF Init, Mappings!Init
<1>2. IInv /\ IInv' /\ [Next]_vars => [Mappings!Next]_Mappings!vars
  <2> SUFFICES ASSUME IInv, IInv', [Next]_vars
               PROVE  [Mappings!Next]_Mappings!vars
    OBVIOUS
  <2> USE DEF IInv, TypeOK, LeaseByStep, MappedIsOwn, LeaseExclusive, Shown,
          ShowsOf, Goto, PCs, Mappings!vars, Slots, NoSlot, ErrorPath
  <2>1. CASE UNCHANGED vars
    BY <2>1 DEF vars
  <2>2. ASSUME NEW f \in Files, NEW o \in {"ready", "none"}, InitPool(f, o)
        PROVE  UNCHANGED Mappings!vars
    BY <2>2 DEF InitPool
  <2>3. ASSUME NEW f \in Files, Begin(f) PROVE Mappings!Request(f)
    <3>1. StatusOf(f) = "absent"
      BY <2>3 DEF Begin
    <3>2. \A g \in Files :
            StatusOf(g)' = IF g = f THEN "requested" ELSE StatusOf(g)
      BY <2>3 DEF Begin
    <3>3. \A g \in Files :
            ShowsOf(g)' = ShowsOf(g)
      BY <2>3 DEF Begin
    <3> HIDE DEF StatusOf, ShowsOf, Shown, IInv, LeaseExclusive, MappedIsOwn, LeaseByStep
    <3>4. QED
      BY <2>3, <3>1, <3>2, <3>3 DEF Begin, Mappings!Request
  <2>4. ASSUME NEW f \in Files, Drop(f) PROVE Mappings!Unmap(f)
    <3>1. StatusOf(f) = "mapped"
      BY <2>4 DEF Drop
    <3>2. \A g \in Files :
            StatusOf(g)' = IF g = f THEN "absent" ELSE StatusOf(g)
      BY <2>4 DEF Drop
    <3>3. \A g \in Files :
            ShowsOf(g)' = IF g = f THEN "none" ELSE ShowsOf(g)
      BY <2>4 DEF Drop
    <3> HIDE DEF StatusOf, ShowsOf, Shown, IInv, LeaseExclusive, MappedIsOwn, LeaseByStep
    <3>4. QED
      BY <2>4, <3>1, <3>2, <3>3 DEF Drop, Mappings!Unmap
  <2>5. ASSUME NEW f \in Files, Reserve(f) PROVE UNCHANGED Mappings!vars
    BY <2>5, SMTT(30) DEF Reserve
  <2>6. ASSUME NEW f \in Files, NoReservation(f) PROVE UNCHANGED Mappings!vars
    BY <2>6, SMTT(30) DEF NoReservation
  <2>7. ASSUME NEW f \in Files, MapFixed(f) PROVE UNCHANGED Mappings!vars
    BY <2>7, SMTT(30) DEF MapFixed
  <2>8. ASSUME NEW f \in Files, MapFixedFails(f) PROVE UNCHANGED Mappings!vars
    BY <2>8, SMTT(30) DEF MapFixedFails
  <2>9. ASSUME NEW f \in Files, ReleaseOnMapFailure(f) PROVE UNCHANGED Mappings!vars
    BY <2>9, SMTT(30) DEF ReleaseOnMapFailure
  <2>10. ASSUME NEW f \in Files, Restore(f) PROVE UNCHANGED Mappings!vars
    BY <2>10, SMTT(30) DEF Restore
  <2>11. ASSUME NEW f \in Files, RestoreFails(f) PROVE UNCHANGED Mappings!vars
    BY <2>11, SMTT(30) DEF RestoreFails
  <2>12. ASSUME NEW f \in Files, Release(f) PROVE UNCHANGED Mappings!vars
    BY <2>12, SMTT(30) DEF Release
  <2>13. ASSUME NEW f \in Files, SystemMap(f) PROVE UNCHANGED Mappings!vars
    BY <2>13, SMTT(30) DEF SystemMap
  <2>14. ASSUME NEW f \in Files, SystemMapFails(f) PROVE Mappings!Refuse(f)
    <3>1. StatusOf(f) = "requested"
      BY <2>14 DEF SystemMapFails
    <3>2. \A g \in Files :
            StatusOf(g)' = IF g = f THEN "absent" ELSE StatusOf(g)
      BY <2>14 DEF SystemMapFails
    <3>3. \A g \in Files :
            ShowsOf(g)' = ShowsOf(g)
      BY <2>14 DEF SystemMapFails
    <3> HIDE DEF StatusOf, ShowsOf, Shown, IInv, LeaseExclusive, MappedIsOwn, LeaseByStep
    <3>4. QED
      BY <2>14, <3>1, <3>2, <3>3 DEF SystemMapFails, Mappings!Refuse
  <2>15. ASSUME NEW f \in Files, Track(f) PROVE Mappings!Grant(f)
    <3>1. StatusOf(f) = "requested"
      BY <2>15 DEF Track
    <3>2. \A g \in Files :
            StatusOf(g)' = IF g = f THEN "mapped" ELSE StatusOf(g)
      BY <2>15 DEF Track
    <3>3. \A g \in Files :
            ShowsOf(g)' = IF g = f THEN f ELSE ShowsOf(g)
      BY <2>15 DEF Track
    <3> HIDE DEF StatusOf, ShowsOf, Shown, IInv, LeaseExclusive, MappedIsOwn, LeaseByStep
    <3>4. QED
      BY <2>15, <3>1, <3>2, <3>3 DEF Track, Mappings!Grant
  <2>16. ASSUME NEW f \in Files, Munmap(f) PROVE UNCHANGED Mappings!vars
    BY <2>16, SMTT(30) DEF Munmap
  <2> HIDE DEF StatusOf, ShowsOf, Shown, IInv, LeaseExclusive, MappedIsOwn, LeaseByStep
  <2>17. QED
    BY <2>1, <2>2, <2>3, <2>4, <2>5, <2>6, <2>7, <2>8, <2>9, <2>10, <2>11, <2>12, <2>13, <2>14, <2>15, <2>16 DEF Next, Continue, Mappings!Next
<1>3. QED
  BY <1>1, <1>2, InvariantHolds, PTL DEF Spec, ImplementsMappings, Mappings!Spec
=============================================================================
