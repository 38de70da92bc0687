--------------------------- MODULE MerkleSlotPool ---------------------------
(* The process-wide pool of address-space slots that file-backed Merkle      *)
(* layers are mapped into (mod merkle_slot_pool of prover/spill.rs), with    *)
(* the creation and the drop of a FileBackedMapping around it.               *)
(*                                                                           *)
(* A thread that maps a file runs these steps, with those of other threads   *)
(* between any two of them, since the pool's mutex is released after each:   *)
(*   Reserve -> MapFixed -> Track -> (live) -> Drop -> Restore -> Release    *)
(* falling back to an ordinary mmap when no slot is available.  Each section *)
(* under the mutex is one step.  The two pools (state, hash) share nothing;  *)
(* the module is one of them.                                                *)
EXTENDS Integers, FiniteSets

CONSTANTS
  Files,            \* the temporary files that get mapped, one per mapping
  SlotCount,        \* slot_count
  Oversized,        \* the files longer than slot_size
  Concurrent,       \* more than one thread maps and drops layers
  MapFixedMayFail,  \* the kernel may refuse mmap(MAP_FIXED) of a file on a slot
  RestoreMayFail    \* ... or of the PROT_NONE reservation

Slots == 0 .. SlotCount - 1
NoSlot == -1
Reserved == "reserved"    \* the PROT_NONE reservation init_pool made
Hole == "hole"            \* nothing mapped: a failed MAP_FIXED may leave that;
                          \* no ordinary mapping is assumed to land in it

ASSUME PoolConstants ==
  /\ IsFiniteSet(Files)
  /\ Files \cap {Reserved, Hole, "none"} = {}
  /\ SlotCount \in Nat
  /\ Oversized \subseteq Files
  /\ Concurrent \in BOOLEAN
  /\ MapFixedMayFail \in BOOLEAN
  /\ RestoreMayFail \in BOOLEAN

VARIABLES
  pool,       \* the OnceLock: "uninit", "ready" or "none" (init_pool failed)
  free,       \* free_slots
  slotMap,    \* what the kernel has mapped at each slot's address
  sysMap,     \* the files mapped outside the pool
  lease,      \* the slot of the SlotLease that exists for a file, or NoSlot
  pc,         \* where the thread working on the file's mapping stands
  ret,        \* where the drop of the lease returns to
  active      \* ACTIVE_MMAPS

vars == <<pool, free, slotMap, sysMap, lease, pc, ret, active>>

PCs == {"idle", "reserve", "map", "unreserve", "restore", "release",
        "sysmap", "track", "live", "munmap"}

Init ==
  /\ pool = "uninit"
  /\ free = [s \in Slots |-> TRUE]
  /\ slotMap = [s \in Slots |-> Reserved]
  /\ sysMap = {}
  /\ lease = [f \in Files |-> NoSlot]
  /\ pc = [f \in Files |-> "idle"]
  /\ ret = [f \in Files |-> "idle"]
  /\ active = 0

Goto(f, label) == pc' = [pc EXCEPT ![f] = label]
AtRest(f) == pc[f] \in {"idle", "live"}

(* A thread can start an operation; with one thread, only between calls.     *)
MayStart == Concurrent \/ \A g \in Files : AtRest(g)

(* map_named_temp_file_with_reservation is called.                           *)
Begin(f) ==
  /\ pc[f] = "idle"
  /\ MayStart
  /\ Goto(f, "reserve")
  /\ UNCHANGED <<pool, free, slotMap, sysMap, lease, ret, active>>

(* pool_state: the first caller runs init_pool, which may fail for good.     *)
InitPool(f, outcome) ==
  /\ pc[f] = "reserve"
  /\ pool = "uninit"
  /\ pool' = outcome
  /\ UNCHANGED <<free, slotMap, sysMap, lease, pc, ret, active>>

FreeSlots == {s \in Slots : free[s]}
IsFirstFree(s) == s \in FreeSlots /\ \A r \in FreeSlots : s <= r
CanReserve(f) == pool = "ready" /\ f \notin Oversized /\ FreeSlots # {}

(* Mutant: the lease records the index after the slot's.                     *)
ReserveOffByOne(f) ==
  /\ pc[f] = "reserve"
  /\ CanReserve(f)
  /\ \E s \in Slots :
       /\ IsFirstFree(s)
       /\ free' = [free EXCEPT ![s] = FALSE]
       /\ lease' = [lease EXCEPT ![f] = s + 1]
  /\ Goto(f, "map")
  /\ UNCHANGED <<pool, slotMap, sysMap, ret, active>>

(* reserve_slot under the mutex: the first free slot.                        *)
Reserve(f) ==
  /\ pc[f] = "reserve"
  /\ CanReserve(f)
  /\ \E s \in Slots :
       /\ IsFirstFree(s)
       /\ free' = [free EXCEPT ![s] = FALSE]
       /\ lease' = [lease EXCEPT ![f] = s]
  /\ Goto(f, "map")
  /\ UNCHANGED <<pool, slotMap, sysMap, ret, active>>

(* No pool, a file too long, or no free slot: Ok(None), fall back.           *)
NoReservation(f) ==
  /\ pc[f] = "reserve"
  /\ pool # "uninit"
  /\ ~CanReserve(f)
  /\ Goto(f, "sysmap")
  /\ UNCHANGED <<pool, free, slotMap, sysMap, lease, ret, active>>

(* mmap(MAP_FIXED | MAP_SHARED) of the file over the slot.                   *)
MapFixed(f) ==
  /\ pc[f] = "map"
  /\ slotMap' = [slotMap EXCEPT ![lease[f]] = f]
  /\ Goto(f, "track")
  /\ UNCHANGED <<pool, free, sysMap, lease, ret, active>>

(* MAP_FAILED: the kernel may have removed what was there before.            *)
MapFixedFails(f) ==
  /\ pc[f] = "map"
  /\ MapFixedMayFail
  /\ \E left \in {slotMap[lease[f]], Hole} :
       slotMap' = [slotMap EXCEPT ![lease[f]] = left]
  /\ Goto(f, "unreserve")
  /\ UNCHANGED <<pool, free, sysMap, lease, ret, active>>

(* The error branch of try_map_file releases the slot under the mutex and    *)
(* returns; the lease it still holds has its kind set, so its Drop runs too. *)
ReleaseOnMapFailure(f) ==
  /\ pc[f] = "unreserve"
  /\ free' = [free EXCEPT ![lease[f]] = TRUE]
  /\ ret' = [ret EXCEPT ![f] = "sysmap"]
  /\ Goto(f, "restore")
  /\ UNCHANGED <<pool, slotMap, sysMap, lease, active>>

(* SlotLease::drop, first step: put the PROT_NONE reservation back.          *)
Restore(f) ==
  /\ pc[f] = "restore"
  /\ slotMap' = [slotMap EXCEPT ![lease[f]] = Reserved]
  /\ Goto(f, "release")
  /\ UNCHANGED <<pool, free, sysMap, lease, ret, active>>

(* Mutant: the slot is released although its reservation was not restored.   *)
RestoreFailureReleases(f) ==
  /\ pc[f] = "restore"
  /\ RestoreMayFail
  /\ Goto(f, "release")
  /\ UNCHANGED <<pool, free, slotMap, sysMap, lease, ret, active>>

(* ... which fails: the drop returns without releasing the slot.             *)
RestoreFails(f) ==
  /\ pc[f] = "restore"
  /\ RestoreMayFail
  /\ \E left \in {slotMap[lease[f]], Hole} :
       slotMap' = [slotMap EXCEPT ![lease[f]] = left]
  /\ lease' = [lease EXCEPT ![f] = NoSlot]
  /\ Goto(f, ret[f])
  /\ ret' = [ret EXCEPT ![f] = "idle"]
  /\ UNCHANGED <<pool, free, sysMap, active>>

(* Mutant: the drop restores the reservation and forgets release_slot.       *)
ReleaseForgotten(f) ==
  /\ pc[f] = "release"
  /\ lease' = [lease EXCEPT ![f] = NoSlot]
  /\ Goto(f, ret[f])
  /\ ret' = [ret EXCEPT ![f] = "idle"]
  /\ UNCHANGED <<pool, free, slotMap, sysMap, active>>

(* Mutant: after a refused MAP_FIXED the slot is tried again.                *)
ReleaseRetries(f) ==
  /\ pc[f] = "release"
  /\ free' = [free EXCEPT ![lease[f]] = TRUE]
  /\ lease' = [lease EXCEPT ![f] = NoSlot]
  /\ Goto(f, IF ret[f] = "sysmap" THEN "reserve" ELSE "idle")
  /\ ret' = [ret EXCEPT ![f] = "idle"]
  /\ UNCHANGED <<pool, slotMap, sysMap, active>>

(* SlotLease::drop, second step: release_slot under the mutex.               *)
Release(f) ==
  /\ pc[f] = "release"
  /\ free' = [free EXCEPT ![lease[f]] = TRUE]
  /\ lease' = [lease EXCEPT ![f] = NoSlot]
  /\ Goto(f, ret[f])
  /\ ret' = [ret EXCEPT ![f] = "idle"]
  /\ UNCHANGED <<pool, slotMap, sysMap, active>>

(* The fallback: an ordinary mmap, or an error for the caller.               *)
SystemMap(f) ==
  /\ pc[f] = "sysmap"
  /\ sysMap' = sysMap \cup {f}
  /\ Goto(f, "track")
  /\ UNCHANGED <<pool, free, slotMap, lease, ret, active>>

SystemMapFails(f) ==
  /\ pc[f] = "sysmap"
  /\ Goto(f, "idle")
  /\ UNCHANGED <<pool, free, slotMap, sysMap, lease, ret, active>>

(* track_mmap, and the mapping is returned.                                  *)
Track(f) ==
  /\ pc[f] = "track"
  /\ active' = active + 1
  /\ Goto(f, "live")
  /\ UNCHANGED <<pool, free, slotMap, sysMap, lease, ret>>

(* Mutant: the slot is released first and its reservation restored after.    *)
DropReleasesFirst(f) ==
  /\ pc[f] = "live"
  /\ MayStart
  /\ active' = active - 1
  /\ free' = [s \in Slots |-> free[s] \/ s = lease[f]]
  /\ Goto(f, IF lease[f] = NoSlot THEN "munmap" ELSE "restore")
  /\ UNCHANGED <<pool, slotMap, sysMap, lease, ret>>

(* FileBackedMapping::drop: track_munmap, then munmap for a system mapping   *)
(* or the drop of the lease for a slot.                                      *)
Drop(f) ==
  /\ pc[f] = "live"
  /\ MayStart
  /\ active' = active - 1
  /\ Goto(f, IF lease[f] = NoSlot THEN "munmap" ELSE "restore")
  /\ UNCHANGED <<pool, free, slotMap, sysMap, lease, ret>>

Munmap(f) ==
  /\ pc[f] = "munmap"
  /\ sysMap' = sysMap \ {f}
  /\ Goto(f, "idle")
  /\ UNCHANGED <<pool, free, slotMap, lease, ret, active>>

(* What the thread does by itself once it has started.                       *)
Continue(f) ==
  \/ \E outcome \in {"ready", "none"} : InitPool(f, outcome)
  \/ Reserve(f)
  \/ NoReservation(f)
  \/ MapFixed(f)
  \/ MapFixedFails(f)
  \/ ReleaseOnMapFailure(f)
  \/ Restore(f)
  \/ RestoreFails(f)
  \/ Release(f)
  \/ SystemMap(f)
  \/ SystemMapFails(f)
  \/ Track(f)
  \/ Munmap(f)

Next == \E f \in Files : Begin(f) \/ Drop(f) \/ Continue(f)

Spec == Init /\ [][Next]_vars

(* A running thread keeps running; nothing makes a prover map another layer  *)
(* or drop one.                                                              *)
FairSpec == Spec /\ \A f \in Files : WF_vars(Continue(f))

-----------------------------------------------------------------------------
(* Every variable of the pool has its type.                                  *)
TypeOK ==
  /\ pool \in {"uninit", "ready", "none"}
  /\ free \in [Slots -> BOOLEAN]
  /\ slotMap \in [Slots -> Files \cup {Reserved, Hole}]
  /\ sysMap \in SUBSET Files
  /\ lease \in [Files -> Slots \cup {NoSlot}]
  /\ pc \in [Files -> PCs]
  /\ ret \in [Files -> {"idle", "sysmap"}]
  /\ active \in Int

(* At most one SlotLease exists for a slot (reserve_slot / release_slot).    *)
LeaseExclusive ==
  \A f, g \in Files : lease[f] # NoSlot /\ lease[f] = lease[g] => f = g

(* The file that a read through f's mapping would return (as_bytes).         *)
Shown(f) ==
  IF lease[f] # NoSlot THEN slotMap[lease[f]]
  ELSE IF f \in sysMap THEN f ELSE Hole

(* A mapping that is held shows its own file, whatever other threads reserve,*)
(* map, fail to map and drop meanwhile: as_bytes covers the live mapping     *)
(* owned by self.                                                            *)
HeldMappingIsOwn == \A f \in Files : pc[f] = "live" => Shown(f) = f

(* A slot is out of the free list only while a lease holds it: nothing but a *)
(* failed restore can lose a slot for good.                                  *)
NoSlotLost ==
  RestoreMayFail \/ \A s \in Slots : free[s] \/ \E f \in Files : lease[f] = s

(* A slot that can be handed out shows no file: whoever had a mapping there  *)
(* before has no pages left in it (the drop restores PROT_NONE first).       *)
FreeSlotIsEmpty == \A s \in Slots : free[s] => slotMap[s] \notin Files

(* ACTIVE_MMAPS never counts a mapping that is not in the address space, and *)
(* counts each one that is held.                                             *)
CountMatchesHeld == active = Cardinality({f \in Files : pc[f] = "live"})

(* A call that maps a file returns: with a mapping, or with an error after   *)
(* the slot and the ordinary mmap have both been refused.                    *)
MapReturns == \A f \in Files : pc[f] = "reserve" ~> AtRest(f)

(* The slot of a dropped mapping is handed out again later.                  *)
SlotComesBack ==
  \A f \in Files, s \in Slots :
     (pc[f] = "restore" /\ lease[f] = s) ~> free[s]

-----------------------------------------------------------------------------
(* The parts of the inductive invariant that the proofs add to the above.    *)

(* With one thread, at most one call is in progress.                         *)
OneAtATime ==
  Concurrent \/ \A f, g \in Files : AtRest(f) \/ AtRest(g) \/ f = g

(* Only a refused MAP_FIXED leads to the error branch.                       *)
ErrorPath ==
  \A f \in Files :
    /\ ret[f] = "sysmap" => pc[f] \in {"restore", "release"}
    /\ pc[f] = "unreserve" \/ ret[f] = "sysmap" => MapFixedMayFail

(* Where a thread holds a lease.                                             *)
LeaseByStep ==
  \A f \in Files :
    /\ pc[f] \in {"map", "unreserve", "restore", "release"} => lease[f] # NoSlot
    /\ pc[f] \in {"idle", "reserve", "sysmap", "munmap"} => lease[f] = NoSlot

(* A leased slot is off the free list, but for the error branch, which has   *)
(* put it back while its lease still exists.                                 *)
LeasedIsTaken ==
  \A f \in Files :
    lease[f] # NoSlot => ~free[lease[f]] \/ ret[f] = "sysmap"

(* From the mmap on, the mapping shows its own file.                         *)
MappedIsOwn == \A f \in Files : pc[f] \in {"track", "live"} => Shown(f) = f

(* A slot that is leased but not mapped shows no file.                       *)
UnmappedIsEmpty ==
  \A f \in Files :
    pc[f] \in {"map", "unreserve", "release"} \/ ret[f] = "sysmap"
      => slotMap[lease[f]] \notin Files

IInv ==
  /\ TypeOK
  /\ OneAtATime
  /\ ErrorPath
  /\ LeaseByStep
  /\ LeaseExclusive
  /\ LeasedIsTaken
  /\ MappedIsOwn
  /\ UnmappedIsEmpty
  /\ FreeSlotIsEmpty
  /\ NoSlotLost

-----------------------------------------------------------------------------
(* The pool behind the interface: a mapping is held when it is counted.      *)
StatusOf(f) ==
  IF pc[f] = "live" THEN "mapped"
  ELSE IF pc[f] \in {"idle", "munmap"} \/ (pc[f] \in {"restore", "release"}
                                           /\ ret[f] = "idle")
       THEN "absent" ELSE "requested"

ShowsOf(f) == IF pc[f] = "live" THEN Shown(f) ELSE "none"

Mappings == INSTANCE FileMappings WITH
  status <- [f \in Files |-> StatusOf(f)],
  shows <- [f \in Files |-> ShowsOf(f)],
  active <- active

(* The pool with its fallback implements FileMappings.                       *)
ImplementsMappings == Mappings!Spec
=============================================================================
