------------------------------ MODULE EvalSpill ------------------------------
(* spill_eval_columns of prover/spill.rs, with the forget, take and unmap    *)
(* its callers do afterwards (new_with_memory_mode and drop_evaluations of   *)
(* prover/pcs/mod.rs).  The evaluations of a slice of polynomials are        *)
(* written to temporary files, several columns to a chunk, each chunk is     *)
(* mapped, and the columns are swapped to the map.  Every call of the        *)
(* operating system may fail.                                                *)
EXTENDS Integers, Sequences

CONSTANTS
  Columns,      \* the indices of the slice
  EvalIndices,  \* eval_indices: those with evaluations, in ascending order
  Packed,       \* the bytes of a column
  ChunkBytes    \* EVAL_SPILL_CHUNK_BYTES

ASSUME SpillConstants ==
  /\ Columns \in SUBSET Nat
  /\ EvalIndices \in Seq(Columns)
  /\ \A i, j \in DOMAIN EvalIndices : i < j => EvalIndices[i] < EvalIndices[j]
  /\ Packed \in [Columns -> Nat \ {0}]
  /\ ChunkBytes \in Nat \ {0}

(* The columns with evaluations.                                             *)
Present == {EvalIndices[i] : i \in DOMAIN EvalIndices}

VARIABLES
  pc, pos,      \* where the loop stands; the next entry of EvalIndices
  file,         \* the bytes of the current file, each named by its column
  entries,      \* the columns of the chunk with their offsets
  chunk,        \* chunk_bytes
  evals,        \* [column -> "none", "heap" or "map"]
  offset,       \* of a mapped column: its region and its offset in it
  regions,      \* the bytes of each live map
  spilled,      \* spilled_indices of the guard
  freed,        \* columns whose mapped Vec reached the allocator
  faults        \* some call failed

chunkVars == <<file, entries, chunk>>
columnVars == <<evals, offset, regions, spilled, freed>>
vars == <<pc, pos, chunkVars, columnVars, faults>>

Init ==
  /\ pc = "loop" /\ pos = 1
  /\ file = <<>> /\ entries = <<>> /\ chunk = 0
  /\ evals = [c \in Columns |-> IF c \in Present THEN "heap" ELSE "none"]
  /\ offset = [c \in Columns |-> <<0, 0>>]
  /\ regions = <<>> /\ spilled = <<>> /\ freed = {}
  /\ faults = FALSE

Failure == faults' = TRUE
AllSeen == pos > Len(EvalIndices)

(* The top of the outer loop: a new file, an empty chunk.                    *)
CreateFile ==
  /\ pc = "loop" /\ ~AllSeen
  /\ file' = <<>> /\ entries' = <<>> /\ chunk' = 0
  /\ pc' = "fill"
  /\ UNCHANGED <<pos, columnVars, faults>>

CreateFileFails ==
  /\ pc = "loop" /\ ~AllSeen
  /\ Failure
  /\ pc' = "return"
  /\ UNCHANGED <<pos, chunkVars, columnVars>>

LoopEnds ==
  /\ pc = "loop" /\ AllSeen
  /\ pc' = "return"
  /\ UNCHANGED <<pos, chunkVars, columnVars, faults>>

BytesOf(c, n) == [i \in 1 .. n |-> c]

(* Mutant: the offset is taken after the bytes are counted.                  *)
WriteOffsetLate ==
  /\ pc = "fill"
  /\ LET c == EvalIndices[pos] IN
       /\ file' = file \o BytesOf(c, Packed[c])
       /\ chunk' = chunk + Packed[c]
       /\ entries' = Append(entries, <<c, chunk'>>)
  /\ pos' = pos + 1
  /\ pc' = IF chunk' >= ChunkBytes \/ pos' > Len(EvalIndices) THEN "sync" ELSE "fill"
  /\ UNCHANGED <<columnVars, faults>>

(* Mutant: the size is compared before the column is counted.                *)
WriteCheckedLate ==
  /\ pc = "fill"
  /\ LET c == EvalIndices[pos] IN
       /\ file' = file \o BytesOf(c, Packed[c])
       /\ entries' = Append(entries, <<c, chunk>>)
       /\ chunk' = chunk + Packed[c]
  /\ pos' = pos + 1
  /\ pc' = IF chunk >= ChunkBytes \/ pos' > Len(EvalIndices) THEN "sync" ELSE "fill"
  /\ UNCHANGED <<columnVars, faults>>

(* One column is appended; the chunk is full once it reaches ChunkBytes.     *)
Write ==
  /\ pc = "fill"
  /\ LET c == EvalIndices[pos] IN
       /\ file' = file \o BytesOf(c, Packed[c])
       /\ entries' = Append(entries, <<c, chunk>>)
       /\ chunk' = chunk + Packed[c]
  /\ pos' = pos + 1
  /\ pc' = IF chunk' >= ChunkBytes \/ pos' > Len(EvalIndices) THEN "sync" ELSE "fill"
  /\ UNCHANGED <<columnVars, faults>>

(* write_all fails, possibly after some of the bytes: the chunk is what came *)
(* before, if anything did.                                                  *)
WriteFails ==
  /\ pc = "fill"
  /\ Failure
  /\ LET c == EvalIndices[pos] IN
       \E n \in 0 .. Packed[c] : file' = file \o BytesOf(c, n)
  /\ pc' = IF entries = <<>> THEN "return" ELSE "sync"
  /\ UNCHANGED <<pos, entries, chunk, columnVars>>

Sync ==
  /\ pc = "sync"
  /\ pc' = "map"
  /\ UNCHANGED <<pos, chunkVars, columnVars, faults>>

(* Mutant: the chunk that could not be synced is tried again.                *)
SyncRetries ==
  /\ pc = "sync"
  /\ Failure
  /\ pos' = pos - Len(entries)
  /\ pc' = "loop"
  /\ UNCHANGED <<chunkVars, columnVars>>

(* sync_all fails: the chunk's columns stay on the heap, the loop goes on.   *)
SyncFails ==
  /\ pc = "sync"
  /\ Failure
  /\ pc' = "loop"
  /\ UNCHANGED <<pos, chunkVars, columnVars>>

ChunkColumns == {entries[i][1] : i \in DOMAIN entries}
EntryOf(c) == CHOOSE i \in DOMAIN entries : entries[i][1] = c

(* The first chunk bytes are mapped, every column of the chunk is swapped,   *)
(* and its old Vec is dropped.                                               *)
Map ==
  /\ pc = "map"
  /\ regions' = Append(regions, SubSeq(file, 1, chunk))
  /\ freed' = freed \cup {c \in ChunkColumns : evals[c] = "map"}
  /\ evals' = [c \in Columns |-> IF c \in ChunkColumns THEN "map" ELSE evals[c]]
  /\ offset' = [c \in Columns |-> IF c \in ChunkColumns
                                  THEN <<Len(regions'), entries[EntryOf(c)][2]>>
                                  ELSE offset[c]]
  /\ spilled' = spilled \o [i \in DOMAIN entries |-> entries[i][1]]
  /\ pc' = "loop"
  /\ UNCHANGED <<pos, chunkVars, faults>>

MapFails ==
  /\ pc = "map"
  /\ Failure
  /\ pc' = "return"
  /\ UNCHANGED <<pos, chunkVars, columnVars>>

(* The guard, or None when no map was made.                                  *)
Return ==
  /\ pc = "return"
  /\ pc' = IF regions = <<>> THEN "unguarded" ELSE "guarded"
  /\ UNCHANGED <<pos, chunkVars, columnVars, faults>>

Noted == {spilled[i] : i \in DOMAIN spilled}

(* Mutant: the caller goes on to take the evaluations at once.               *)
ForgetSkipped ==
  /\ pc = "guarded"
  /\ pc' = "forgotten"
  /\ UNCHANGED <<pos, chunkVars, columnVars, faults>>

(* forget_mmap_backed_evals.                                                 *)
Forget ==
  /\ pc = "guarded"
  /\ evals' = [c \in Columns |-> IF c \in Noted THEN "none" ELSE evals[c]]
  /\ pc' = "forgotten"
  /\ UNCHANGED <<pos, chunkVars, offset, regions, spilled, freed, faults>>

(* The evaluations that are left are taken and dropped.                      *)
TakeRest ==
  /\ pc \in {"forgotten", "unguarded"}
  /\ freed' = freed \cup {c \in Columns : evals[c] = "map"}
  /\ evals' = [c \in Columns |-> "none"]
  /\ pc' = "taken"
  /\ UNCHANGED <<pos, chunkVars, offset, regions, spilled, faults>>

(* The guard is dropped, and its maps with it.                               *)
DropGuard ==
  /\ pc = "taken"
  /\ regions' = <<>> /\ spilled' = <<>>
  /\ pc' = "done"
  /\ UNCHANGED <<pos, chunkVars, evals, offset, freed, faults>>

Done == pc = "done" /\ UNCHANGED vars

Next ==
  \/ CreateFile \/ CreateFileFails \/ LoopEnds
  \/ Write \/ WriteFails \/ Sync \/ SyncFails \/ Map \/ MapFails
  \/ Return \/ Forget \/ TakeRest \/ DropGuard \/ Done

Spec == Init /\ [][Next]_vars
FairSpec == Spec /\ WF_vars(Next)

------------------------------------------------------------------------------
(* The state has its shape; no column of a chunk starts at the limit or past *)
(* it.                                                                       *)
TypeOK ==
  /\ pc \in {"loop", "fill", "sync", "map", "return", "guarded", "unguarded",
             "forgotten", "taken", "done"}
  /\ pos \in 1 .. Len(EvalIndices) + 1
  /\ file \in Seq(Columns)
  /\ entries \in Seq(Columns \X (0 .. ChunkBytes - 1))
  /\ chunk \in Nat
  /\ evals \in [Columns -> {"none", "heap", "map"}]
  /\ offset \in [Columns -> Nat \X Nat]
  /\ regions \in Seq(Seq(Columns))
  /\ spilled \in Seq(Columns)
  /\ freed \subseteq Columns
  /\ faults \in BOOLEAN

(* A swapped column reads the bytes that were written for it, and all of     *)
(* them, whatever partial writes the file holds.                             *)
ReadsOwnBytes ==
  \A c \in Columns : evals[c] = "map" =>
    /\ offset[c][1] \in DOMAIN regions
    /\ LET bytes == regions[offset[c][1]] IN
         \A i \in 1 .. Packed[c] :
           /\ offset[c][2] + i \in DOMAIN bytes
           /\ bytes[offset[c][2] + i] = c

(* Until the guard is used, it names exactly the columns that were swapped.  *)
GuardNamesMapped ==
  pc \notin {"forgotten", "taken", "done"} =>
    Noted = {c \in Columns : evals[c] = "map"}

(* No Vec that points into a map is handed to the allocator.                 *)
NoMappedFree == freed = {}

(* A map is closed by the column that fills it, never a column later; and    *)
(* without failures every map but the last is full.  The code's comment says *)
(* that chunks have "up to `CHUNK_BYTES` each" (spill.rs:1610); they have    *)
(* not: the size is tested after a column is written (spill.rs:1674), so a   *)
(* map may pass the limit, by less than its last column and by no more.      *)
FewRegions ==
  \A r \in DOMAIN regions :
    /\ Len(regions[r]) - Packed[regions[r][Len(regions[r])]] < ChunkBytes
    /\ r < Len(regions) => faults \/ Len(regions[r]) >= ChunkBytes

(* Whatever fails, the call returns and all is released.                     *)
Returns == <>(pc = "done" /\ regions = <<>>)

Spill == INSTANCE ColumnSpill WITH held <- Noted
ImplementsSpill == Spill!Spec
==============================================================================
