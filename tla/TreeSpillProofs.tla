--------------------------- MODULE TreeSpillProofs ---------------------------
(* Proofs about the two spills of a tree (TreeSpill), for any numbers of     *)
(* columns and polynomials of any sizes and any chunk limit.                 *)
(*                                                                           *)
(* First the evaluation columns alone (EvalSpill): a mapped column reads its *)
(* own bytes, the guard names exactly the mapped columns, no mapped Vec is   *)
(* freed, the maps are few, and the whole is what ColumnSpill promises.      *)
(*                                                                           *)
(* Then both spills: what either reads back is what it wrote, the            *)
(* coefficients move all together or not at all, and the evaluations keep    *)
(* the promise of ColumnSpill whatever is called between.                    *)
EXTENDS TreeSpill, FiniteSetTheorems, TLAPS

Filling == pc \in {"fill", "sync", "map"}
Swapping == pc \in {"loop", "fill", "sync", "map", "return", "guarded", "unguarded"}

(* The first entry of EvalIndices that the current chunk, or the next one,   *)
(* starts at.                                                                *)
Start == IF Filling THEN pos - Len(entries) ELSE pos

(* The entries of a chunk are the columns before pos, laid one after the     *)
(* other in the file; what a failed write left is past the chunk.            *)
ChunkLaidOut ==
  Filling =>
    /\ Len(entries) < pos
    /\ chunk <= Len(file)
    /\ entries = <<>> => chunk = 0
    /\ entries # <<>> =>
         chunk = entries[Len(entries)][2] + Packed[entries[Len(entries)][1]]
    /\ \A i \in DOMAIN entries :
         /\ entries[i][1] = EvalIndices[Start + i - 1]
         /\ entries[i][2] + Packed[entries[i][1]] <= chunk
         /\ \A k \in 1 .. Packed[entries[i][1]] : file[entries[i][2] + k] = entries[i][1]

(* What the loop is about to do can be done.                                 *)
ChunkProgress ==
  /\ pc = "fill" => ~AllSeen /\ chunk < ChunkBytes /\ chunk = Len(file)
  /\ pc \in {"sync", "map"} =>
       /\ entries # <<>>
       /\ chunk >= ChunkBytes \/ AllSeen \/ faults

(* Columns from the start of the chunk on were not moved yet, and no column  *)
(* with evaluations is without its bytes before the guard is used.           *)
NotYetMoved ==
  /\ pc \in {"loop", "fill", "sync", "map"} =>
       \A i \in DOMAIN EvalIndices : i >= Start => evals[EvalIndices[i]] = "heap"
  /\ pc \in {"unguarded"} => regions = <<>>
  /\ pc \in {"forgotten", "taken", "done"} => \A c \in Columns : evals[c] # "map"

(* Every map but one that ends the loop is full, unless something failed.    *)
FullMaps ==
  /\ \A r \in DOMAIN regions :
       /\ regions[r] # <<>>
       /\ Len(regions[r]) - Packed[regions[r][Len(regions[r])]] < ChunkBytes
       /\ faults \/ Len(regions[r]) >= ChunkBytes \/ (AllSeen /\ r = Len(regions) /\ ~Filling)

IInv ==
  /\ TypeOK /\ ChunkLaidOut /\ ChunkProgress /\ NotYetMoved
  /\ ReadsOwnBytes /\ GuardNamesMapped /\ NoMappedFree /\ FullMaps

------------------------------------------------------------------------------
(* What the assumption says of each constant.                                *)
LEMMA ConstantFacts ==
  /\ Len(EvalIndices) \in Nat
  /\ DOMAIN EvalIndices = 1 .. Len(EvalIndices)
  /\ \A i \in DOMAIN EvalIndices : EvalIndices[i] \in Columns
  /\ \A c \in Columns : c \in Nat /\ Packed[c] \in Nat /\ Packed[c] > 0
  /\ ChunkBytes \in Nat /\ ChunkBytes > 0
<1>1. EvalIndices \in Seq(Columns)
  BY SpillConstants
<1>2. /\ Len(EvalIndices) \in Nat
      /\ DOMAIN EvalIndices = 1 .. Len(EvalIndices)
      /\ \A i \in DOMAIN EvalIndices : EvalIndices[i] \in Columns
  BY <1>1
<1>3. \A c \in Columns : c \in Nat /\ Packed[c] \in Nat \ {0}
  BY SpillConstants
<1>4. ChunkBytes \in Nat \ {0}
  BY SpillConstants
<1>. QED
  BY <1>2, <1>3, <1>4

(* EvalIndices names a column at one place only.                             *)
LEMMA IndicesDiffer ==
  ASSUME NEW i \in DOMAIN EvalIndices, NEW j \in DOMAIN EvalIndices,
         EvalIndices[i] = EvalIndices[j]
  PROVE  i = j
<1>1. /\ i \in Nat /\ j \in Nat
      /\ EvalIndices[i] \in Nat /\ EvalIndices[j] \in Nat
  BY ConstantFacts
<1>2. ~(i < j) /\ ~(j < i)
  BY <1>1, SpillConstants
<1>. QED
  BY <1>1, <1>2

(* The bytes of a column, and what appending to a sequence leaves alone.     *)
LEMMA BytesOfColumn ==
  ASSUME NEW c \in Columns, NEW n \in Nat
  PROVE  /\ BytesOf(c, n) \in Seq(Columns)
         /\ Len(BytesOf(c, n)) = n
         /\ \A k \in 1 .. n : BytesOf(c, n)[k] = c
  BY DEF BytesOf

(* Two sequences of columns joined: what spill_eval_columns writes of a     *)
(* column goes behind what the file has.                                    *)
LEMMA Concatenation ==
  ASSUME NEW s \in Seq(Columns), NEW t \in Seq(Columns)
  PROVE  /\ s \o t \in Seq(Columns)
         /\ Len(s \o t) = Len(s) + Len(t)
         /\ \A k \in 1 .. Len(s) : (s \o t)[k] = s[k]
         /\ \A k \in 1 .. Len(t) : (s \o t)[Len(s) + k] = t[k]
<1>1. s \o t \in Seq(Columns) /\ Len(s \o t) = Len(s) + Len(t)
  OBVIOUS
<1>2. \A k \in 1 .. Len(s) : (s \o t)[k] = s[k]
  OBVIOUS
<1>3. ASSUME NEW k \in 1 .. Len(t) PROVE (s \o t)[Len(s) + k] = t[k]
  <2>1. Len(s) \in Nat /\ Len(t) \in Nat
    OBVIOUS
  <2>2. Len(s) + k \in 1 .. Len(s) + Len(t) /\ Len(s) + k > Len(s) /\ (Len(s) + k) - Len(s) = k
    BY <2>1
  <2>. QED
    BY <2>2
<1>. QED
  BY <1>1, <1>2, <1>3

(* One more element: what push does to the entries of a chunk.              *)
LEMMA Pushed ==
  ASSUME NEW S, NEW s \in Seq(S), NEW e \in S
  PROVE  /\ Append(s, e) \in Seq(S)
         /\ Len(s) \in Nat /\ Len(Append(s, e)) = Len(s) + 1
         /\ Append(s, e)[Len(s) + 1] = e
         /\ Append(s, e) # <<>>
         /\ \A i \in 1 .. Len(s) : Append(s, e)[i] = s[i]
  OBVIOUS

(* The entries of a chunk, one at a time.                                    *)
LEMMA EntryFacts ==
  ASSUME TypeOK, NEW i \in DOMAIN entries
  PROVE  /\ Len(entries) \in Nat /\ i \in 1 .. Len(entries)
         /\ entries[i][1] \in Columns
         /\ entries[i][2] \in Nat /\ entries[i][2] < ChunkBytes
         /\ Packed[entries[i][1]] \in Nat /\ Packed[entries[i][1]] > 0
<1>1. /\ Len(entries) \in Nat /\ i \in 1 .. Len(entries)
      /\ entries[i] \in Columns \X (0 .. ChunkBytes - 1)
  <2>1. entries \in Seq(Columns \X (0 .. ChunkBytes - 1))
    BY DEF TypeOK
  <2>2. i \in DOMAIN entries
    OBVIOUS
  <2>. QED
    BY ONLY <2>1, <2>2
<1>2. entries[i][1] \in Columns /\ entries[i][2] \in 0 .. ChunkBytes - 1
  BY <1>1
<1>. QED
  BY <1>1, <1>2, ConstantFacts

(* An entry of the current chunk names the column the loop met at its       *)
(* place, ends within the chunk and has the bytes of that column in the     *)
(* file.                                                                    *)
LEMMA EntryLaidOut ==
  ASSUME TypeOK, ChunkLaidOut, Filling, NEW i \in DOMAIN entries
  PROVE  /\ entries[i][1] = EvalIndices[Start + i - 1]
         /\ entries[i][2] + Packed[entries[i][1]] <= chunk
         /\ \A k \in 1 .. Packed[entries[i][1]] : file[entries[i][2] + k] = entries[i][1]
BY DEF ChunkLaidOut

(* The invariant holds before spill_eval_columns is called.                 *)
LEMMA InitIInv == Init => IInv
<1> SUFFICES ASSUME Init PROVE IInv
  OBVIOUS
<1>1. TypeOK
  <2>1. evals \in [Columns -> {"none", "heap", "map"}]
    BY DEF Init
  <2>2. offset \in [Columns -> Nat \X Nat]
    BY DEF Init
  <2>3. pos \in 1 .. Len(EvalIndices) + 1
    BY ConstantFacts DEF Init
  <2>4. /\ file \in Seq(Columns) /\ entries \in Seq(Columns \X (0 .. ChunkBytes - 1))
        /\ regions \in Seq(Seq(Columns)) /\ spilled \in Seq(Columns)
    BY DEF Init
  <2>. QED
    BY <2>1, <2>2, <2>3, <2>4 DEF Init, TypeOK
<1>2. ChunkLaidOut /\ ChunkProgress
  BY DEF Init, ChunkLaidOut, ChunkProgress, Filling
<1>3. \A c \in Columns : evals[c] # "map"
  BY DEF Init
<1>4. NotYetMoved
  <2>1. \A i \in DOMAIN EvalIndices : evals[EvalIndices[i]] = "heap"
    BY ConstantFacts DEF Init, Present
  <2>. QED
    BY <2>1 DEF Init, NotYetMoved
<1>5. ReadsOwnBytes /\ NoMappedFree
  BY <1>3 DEF Init, ReadsOwnBytes, NoMappedFree
<1>6. FullMaps
  BY DEF Init, FullMaps
<1>7. GuardNamesMapped
  <2>1. Noted = {}
    BY DEF Init, Noted
  <2>. QED
    BY <1>3, <2>1 DEF GuardNamesMapped
<1>. QED
  BY <1>1, <1>2, <1>4, <1>5, <1>6, <1>7 DEF IInv

(* The steps that leave chunk and columns alone.                             *)
LEMMA QuietSteps ==
  ASSUME IInv,
         CreateFileFails \/ LoopEnds \/ Sync \/ SyncFails \/ MapFails \/ Return \/ UNCHANGED vars
  PROVE  IInv'
<1>1. UNCHANGED <<pos, file, entries, chunk, evals, offset, regions, spilled, freed>>
  BY DEF CreateFileFails, LoopEnds, Sync, SyncFails, MapFails, Return, vars, chunkVars, columnVars
<1>2. faults' = faults \/ faults' = TRUE
  BY DEF CreateFileFails, LoopEnds, Sync, SyncFails, MapFails, Return, Failure, vars
<1>3. \/ pc = "loop" /\ pc' = "return"
      \/ pc = "sync" /\ pc' = "map"
      \/ pc = "sync" /\ pc' = "loop"
      \/ pc = "map" /\ pc' = "return"
      \/ pc = "return" /\ pc' = "unguarded" /\ regions = <<>>
      \/ pc = "return" /\ pc' = "guarded"
      \/ pc' = pc
  BY DEF CreateFileFails, LoopEnds, Sync, SyncFails, MapFails, Return, vars
<1>4. TypeOK'
  BY <1>1, <1>2, <1>3 DEF IInv, TypeOK
<1>5. ChunkLaidOut'
  BY <1>1, <1>3 DEF IInv, ChunkLaidOut, Filling, Start
<1>6. ChunkProgress'
  BY <1>1, <1>2, <1>3 DEF IInv, ChunkProgress, AllSeen
<1>7. NotYetMoved'
  <2>1. Len(entries) \in Nat /\ pos \in Nat
    BY DEF IInv, TypeOK
  <2>2. Start <= Start' \/ pc' \notin {"loop", "fill", "sync", "map"}
    BY <1>1, <1>3, <2>1 DEF Start, Filling
  <2>3. ASSUME NEW i \in DOMAIN EvalIndices, pc' \in {"loop", "fill", "sync", "map"}, i >= Start'
        PROVE  evals'[EvalIndices[i]] = "heap"
    <3>1. i \in Nat /\ Start \in Int /\ Start' \in Int
      BY <1>1, <2>1, ConstantFacts DEF Start
    <3>. QED
      BY <1>1, <1>3, <2>2, <2>3, <3>1 DEF IInv, NotYetMoved
  <2>. QED
    BY <1>1, <1>3, <2>3 DEF IInv, NotYetMoved
<1>8. FullMaps'
  BY <1>1, <1>2, <1>3 DEF IInv, FullMaps, AllSeen, Filling
<1>9. ReadsOwnBytes' /\ NoMappedFree' /\ GuardNamesMapped'
  BY <1>1, <1>3 DEF IInv, ReadsOwnBytes, NoMappedFree, GuardNamesMapped, Noted
<1>. QED
  BY <1>4, <1>5, <1>6, <1>7, <1>8, <1>9 DEF IInv

(* The invariant is kept when a temporary file is created for a chunk.      *)
LEMMA CreateFileStep == ASSUME IInv, CreateFile PROVE IInv'
<1>1. /\ UNCHANGED <<pos, evals, offset, regions, spilled, freed, faults>>
      /\ file' = <<>> /\ entries' = <<>> /\ chunk' = 0
      /\ pc = "loop" /\ pc' = "fill" /\ ~AllSeen
  BY DEF CreateFile, columnVars
<1>2. Start' = Start /\ pos \in Nat /\ pos > 0
  BY <1>1, ConstantFacts DEF Start, Filling, IInv, TypeOK
<1>3. TypeOK'
  BY <1>1 DEF IInv, TypeOK
<1>4. ChunkLaidOut'
  BY <1>1, <1>2 DEF ChunkLaidOut
<1>5. ChunkProgress'
  BY <1>1, ConstantFacts DEF ChunkProgress, AllSeen
<1>6. NotYetMoved'
  BY <1>1, <1>2 DEF IInv, NotYetMoved
<1>7. FullMaps'
  BY <1>1 DEF IInv, FullMaps, AllSeen
<1>8. ReadsOwnBytes' /\ NoMappedFree' /\ GuardNamesMapped'
  BY <1>1 DEF IInv, ReadsOwnBytes, NoMappedFree, GuardNamesMapped, Noted
<1>. QED
  BY <1>3, <1>4, <1>5, <1>6, <1>7, <1>8 DEF IInv

(* A column is appended to the file and to the chunk.                        *)
LEMMA WriteStep == ASSUME IInv, Write PROVE IInv'
<1> DEFINE c == EvalIndices[pos]
<1>1. /\ UNCHANGED <<evals, offset, regions, spilled, freed, faults>>
      /\ file' = file \o BytesOf(c, Packed[c])
      /\ entries' = Append(entries, <<c, chunk>>)
      /\ chunk' = chunk + Packed[c]
      /\ pos' = pos + 1
      /\ pc = "fill" /\ pc' \in {"fill", "sync"}
      /\ pc' = "fill" <=> ~(chunk' >= ChunkBytes \/ pos' > Len(EvalIndices))
  BY DEF Write, columnVars
<1>2. /\ file \in Seq(Columns) /\ chunk \in Nat /\ chunk < ChunkBytes
      /\ entries \in Seq(Columns \X (0 .. ChunkBytes - 1))
      /\ pos \in 1 .. Len(EvalIndices)
  BY <1>1, ConstantFacts DEF IInv, TypeOK, ChunkProgress, AllSeen
<1>3. c \in Columns /\ Packed[c] \in Nat /\ Packed[c] > 0
  BY <1>2, ConstantFacts
<1>4. /\ file' \in Seq(Columns)
      /\ Len(file') = Len(file) + Packed[c]
      /\ \A k \in 1 .. Len(file) : file'[k] = file[k]
      /\ \A k \in 1 .. Packed[c] : file'[Len(file) + k] = c
  <2> DEFINE b == BytesOf(c, Packed[c])
  <2>1. b \in Seq(Columns) /\ Len(b) = Packed[c] /\ \A k \in 1 .. Packed[c] : b[k] = c
    BY <1>3, BytesOfColumn
  <2> HIDE DEF b, c
  <2>2. /\ file \o b \in Seq(Columns)
        /\ Len(file \o b) = Len(file) + Len(b)
        /\ \A k \in 1 .. Len(file) : (file \o b)[k] = file[k]
        /\ \A k \in 1 .. Len(b) : (file \o b)[Len(file) + k] = b[k]
    BY <1>2, <2>1, Concatenation
  <2>3. file' = file \o b
    BY <1>1 DEF b
  <2>. QED
    BY <2>1, <2>2, <2>3
<1>5. /\ entries' \in Seq(Columns \X (0 .. ChunkBytes - 1))
      /\ Len(entries) \in Nat /\ Len(entries') = Len(entries) + 1 /\ entries' # <<>>
      /\ entries'[Len(entries) + 1] = <<c, chunk>>
      /\ \A i \in 1 .. Len(entries) : entries'[i] = entries[i]
  <2>1. <<c, chunk>> \in Columns \X (0 .. ChunkBytes - 1)
    BY <1>2, <1>3, ConstantFacts
  <2>2. entries' = Append(entries, <<c, chunk>>) /\ entries \in Seq(Columns \X (0 .. ChunkBytes - 1))
    BY <1>1, <1>2
  <2>. QED
    BY ONLY <2>1, <2>2, Pushed
<1>6. Start' = Start /\ Start \in Nat
  BY <1>1, <1>2, <1>5 DEF Start, Filling, IInv, ChunkLaidOut
<1>7. TypeOK'
  <2>1. pos' \in 1 .. Len(EvalIndices) + 1 /\ chunk' \in Nat
    BY <1>1, <1>2, <1>3, ConstantFacts
  <2>. QED
    BY <1>1, <1>4, <1>5, <2>1 DEF IInv, TypeOK
<1>8. ChunkLaidOut'
  <2>1. Len(entries) < pos /\ chunk = Len(file) /\ Len(entries) \in Nat
    BY <1>1, <1>2 DEF IInv, ChunkLaidOut, ChunkProgress, Filling
  <2>2. /\ Len(entries') < pos' /\ chunk' <= Len(file') /\ entries' # <<>>
        /\ chunk' = entries'[Len(entries')][2] + Packed[entries'[Len(entries')][1]]
    <3> HIDE DEF c
    <3>1. Len(entries') = Len(entries) + 1 /\ entries' # <<>> /\ pos' = pos + 1
      BY ONLY <1>1, <1>5
    <3>2. chunk' = chunk + Packed[c] /\ Len(file') = Len(file) + Packed[c]
      BY ONLY <1>1, <1>4
    <3>3. entries'[Len(entries')][2] = chunk /\ entries'[Len(entries')][1] = c
      BY ONLY <1>5, <3>1
    <3>4. Len(entries') < pos'
      <4>1. pos \in Nat
        BY ONLY <1>2, ConstantFacts
      <4>. QED
        BY ONLY <2>1, <3>1, <4>1
    <3>5. chunk' <= Len(file')
      BY ONLY <1>2, <1>3, <2>1, <3>2
    <3>. QED
      BY ONLY <3>1, <3>2, <3>3, <3>4, <3>5
  <2>3. ASSUME NEW i \in DOMAIN entries'
        PROVE  /\ entries'[i][1] = EvalIndices[Start' + i - 1]
               /\ entries'[i][2] + Packed[entries'[i][1]] <= chunk'
               /\ \A k \in 1 .. Packed[entries'[i][1]] :
                    file'[entries'[i][2] + k] = entries'[i][1]
    <3>1. CASE i = Len(entries) + 1
      <4>1. entries'[i][1] = c /\ entries'[i][2] = chunk
        BY <1>5, <3>1 DEF c
      <4>2. Start' + i - 1 = pos
        BY <1>1, <1>2, <1>6, <2>1, <3>1 DEF Start, Filling
      <4>3. c = EvalIndices[Start' + i - 1]
        BY <4>2 DEF c
      <4> HIDE DEF c
      <4>4. chunk + Packed[c] <= chunk'
        BY <1>1, <1>2, <1>3
      <4>5. \A k \in 1 .. Packed[c] : file'[chunk + k] = c
        BY <1>4, <2>1
      <4>. QED
        BY <4>1, <4>3, <4>4, <4>5
    <3>2. CASE i \in 1 .. Len(entries)
      <4> HIDE DEF c
      <4>0. i \in DOMAIN entries
        BY <1>2, <3>2
      <4>1. /\ entries[i][1] = EvalIndices[Start + i - 1]
            /\ entries[i][2] + Packed[entries[i][1]] <= chunk
            /\ \A k \in 1 .. Packed[entries[i][1]] : file[entries[i][2] + k] = entries[i][1]
        BY <1>1, <4>0, EntryLaidOut DEF IInv, Filling
      <4>2. /\ entries'[i] = entries[i] /\ entries[i][1] \in Columns
            /\ entries[i][2] \in Nat
        BY <1>5, <3>2, <4>0, EntryFacts DEF IInv
      <4>3. Packed[entries[i][1]] \in Nat
        BY <4>2, ConstantFacts
      <4>4. ASSUME NEW k \in 1 .. Packed[entries[i][1]]
            PROVE  file'[entries[i][2] + k] = entries[i][1]
        <5>1. entries[i][2] + k \in 1 .. Len(file)
          <6>1. entries[i][2] \in Nat /\ entries[i][2] + Packed[entries[i][1]] <= Len(file) /\ Len(file) \in Nat
            BY ONLY <1>2, <2>1, <4>1, <4>2
          <6>. QED
            BY ONLY <4>3, <4>4, <6>1
        <5>. QED
          BY <1>4, <4>1, <4>4, <5>1
      <4>5. chunk' \in Nat /\ chunk <= chunk'
        BY <1>1, <1>2, <1>3
      <4>6. entries[i][2] + Packed[entries[i][1]] <= chunk'
        <5>1. entries[i][2] + Packed[entries[i][1]] <= chunk /\ chunk \in Nat
          BY <1>2, <4>1
        <5>. QED
          BY ONLY <4>2, <4>3, <4>5, <5>1
      <4>. QED
        BY <1>6, <4>1, <4>2, <4>4, <4>6
    <3>. QED
      BY <1>2, <1>5, <2>3, <3>1, <3>2
  <2>. QED
    BY <2>2, <2>3 DEF ChunkLaidOut
<1>9. ChunkProgress'
  <2>1. entries' # <<>> /\ chunk' \in Nat /\ pos' \in Nat
    <3> HIDE DEF c
    <3>1. pos \in Nat
      BY ONLY <1>2, ConstantFacts
    <3>2. pos' = pos + 1 /\ chunk' = chunk + Packed[c] /\ chunk \in Nat
      BY ONLY <1>1, <1>2
    <3>3. Packed[c] \in Nat /\ entries' # <<>>
      BY ONLY <1>3, <1>5
    <3>. QED
      BY ONLY <3>1, <3>2, <3>3
  <2>2. chunk' = Len(file')
    <3>1. chunk = Len(file)
      BY <1>1 DEF IInv, ChunkProgress
    <3> HIDE DEF c
    <3>. QED
      BY ONLY <1>1, <1>4, <3>1
  <2>3. pc' = "fill" => ~(chunk' >= ChunkBytes \/ pos' > Len(EvalIndices))
    BY ONLY <1>1
  <2>4. pc' = "sync" => chunk' >= ChunkBytes \/ pos' > Len(EvalIndices)
    BY ONLY <1>1
  <2>. QED
    BY ONLY <1>1, <2>1, <2>2, <2>3, <2>4, ConstantFacts DEF ChunkProgress, AllSeen
<1>10. NotYetMoved'
  BY <1>1, <1>6 DEF IInv, NotYetMoved
<1>11. FullMaps'
  BY <1>1 DEF IInv, FullMaps, AllSeen, Filling
<1>12. ReadsOwnBytes' /\ NoMappedFree' /\ GuardNamesMapped'
  BY <1>1 DEF IInv, ReadsOwnBytes, NoMappedFree, GuardNamesMapped, Noted
<1>. QED
  BY <1>7, <1>8, <1>9, <1>10, <1>11, <1>12 DEF IInv

(* The invariant is kept when a write fails after part of its bytes: what   *)
(* the file has of the column lies behind the chunk.                        *)
LEMMA WriteFailsStep == ASSUME IInv, WriteFails PROVE IInv'
<1> DEFINE c == EvalIndices[pos]
<1>1. PICK n \in 0 .. Packed[c] : file' = file \o BytesOf(c, n)
  BY DEF WriteFails
<1>2. /\ UNCHANGED <<pos, entries, chunk, evals, offset, regions, spilled, freed>>
      /\ pc = "fill" /\ faults' = TRUE
      /\ pc' = IF entries = <<>> THEN "return" ELSE "sync"
  BY DEF WriteFails, columnVars, Failure
<1>3. /\ file \in Seq(Columns) /\ chunk \in Nat
      /\ entries \in Seq(Columns \X (0 .. ChunkBytes - 1))
      /\ pos \in 1 .. Len(EvalIndices)
  BY <1>2, ConstantFacts DEF IInv, TypeOK, ChunkProgress, AllSeen
<1>4. c \in Columns /\ n \in Nat
  <2>1. c \in Columns
    BY <1>3, ConstantFacts
  <2>2. Packed[c] \in Nat
    BY <2>1, ConstantFacts
  <2> HIDE DEF c
  <2>. QED
    BY <1>1, <2>1, <2>2
<1>5. /\ file' \in Seq(Columns)
      /\ Len(file') = Len(file) + n
      /\ \A k \in 1 .. Len(file) : file'[k] = file[k]
  <2> DEFINE b == BytesOf(c, n)
  <2>1. b \in Seq(Columns) /\ Len(b) = n
    BY <1>4, BytesOfColumn
  <2> HIDE DEF b, c
  <2>2. /\ file \o b \in Seq(Columns)
        /\ Len(file \o b) = Len(file) + Len(b)
        /\ \A k \in 1 .. Len(file) : (file \o b)[k] = file[k]
    BY <1>3, <2>1, Concatenation
  <2>3. file' = file \o b
    BY <1>1 DEF b
  <2>. QED
    BY <2>1, <2>2, <2>3
<1>6. TypeOK'
  BY <1>2, <1>5 DEF IInv, TypeOK
<1>7. Start' = Start \/ pc' = "return"
  BY <1>2 DEF Start, Filling
<1>8. ChunkLaidOut'
  <2>1. ASSUME pc' = "sync"
        PROVE  /\ Len(entries) < pos /\ chunk <= Len(file')
               /\ chunk = entries[Len(entries)][2] + Packed[entries[Len(entries)][1]]
    BY <1>2, <1>3, <1>4, <1>5, <2>1 DEF IInv, ChunkLaidOut, Filling
  <2>2. ASSUME pc' = "sync", NEW i \in DOMAIN entries
        PROVE  /\ entries[i][1] = EvalIndices[Start' + i - 1]
               /\ entries[i][2] + Packed[entries[i][1]] <= chunk
               /\ \A k \in 1 .. Packed[entries[i][1]] : file'[entries[i][2] + k] = entries[i][1]
    <3>1. /\ entries[i][1] = EvalIndices[Start' + i - 1]
          /\ entries[i][2] + Packed[entries[i][1]] <= chunk
          /\ chunk <= Len(file)
          /\ \A k \in 1 .. Packed[entries[i][1]] : file[entries[i][2] + k] = entries[i][1]
      BY <1>2, <1>7, <2>2 DEF IInv, ChunkLaidOut, Filling
    <3>2. entries[i][1] \in Columns /\ entries[i][2] \in Nat
      BY <1>3, <2>2, ConstantFacts
    <3>3. Packed[entries[i][1]] \in Nat
      BY <3>2, ConstantFacts
    <3>4. ASSUME NEW k \in 1 .. Packed[entries[i][1]]
          PROVE  file'[entries[i][2] + k] = entries[i][1]
      <4>1. entries[i][2] + k \in 1 .. Len(file)
        <5>1. Len(file) \in Nat /\ chunk \in Nat
          BY ONLY <1>3
        <5>2. entries[i][2] + Packed[entries[i][1]] <= chunk /\ chunk <= Len(file)
          BY ONLY <3>1
        <5>3. entries[i][2] + Packed[entries[i][1]] <= Len(file)
          BY ONLY <3>2, <3>3, <5>1, <5>2
        <5>. QED
          BY ONLY <3>2, <3>3, <3>4, <5>1, <5>3
      <4>. QED
        BY <1>5, <3>1, <3>4, <4>1
    <3>. QED
      BY <3>1, <3>4
  <2>. QED
    BY <1>2, <2>1, <2>2 DEF ChunkLaidOut, Filling
<1>9. ChunkProgress'
  BY <1>2 DEF ChunkProgress
<1>10. NotYetMoved'
  BY <1>2, <1>7 DEF IInv, NotYetMoved
<1>11. FullMaps'
  BY <1>2 DEF IInv, FullMaps
<1>12. ReadsOwnBytes' /\ NoMappedFree' /\ GuardNamesMapped'
  BY <1>2 DEF IInv, ReadsOwnBytes, NoMappedFree, GuardNamesMapped, Noted
<1>. QED
  BY <1>6, <1>8, <1>9, <1>10, <1>11, <1>12 DEF IInv

(* What a chunk that is mapped brings: its region is the chunk's bytes, and  *)
(* each of its columns was on the heap.                                      *)
LEMMA ChunkAtMap ==
  ASSUME IInv, pc = "map"
  PROVE  /\ SubSeq(file, 1, chunk) \in Seq(Columns)
         /\ Len(SubSeq(file, 1, chunk)) = chunk
         /\ \A k \in 1 .. chunk : SubSeq(file, 1, chunk)[k] = file[k]
         /\ ChunkColumns \subseteq Columns
         /\ \A c \in ChunkColumns : evals[c] = "heap"
         /\ \A c \in ChunkColumns : EntryOf(c) \in DOMAIN entries /\ entries[EntryOf(c)][1] = c
<1>1. file \in Seq(Columns) /\ chunk \in Nat /\ chunk <= Len(file)
  BY DEF IInv, TypeOK, ChunkLaidOut, Filling
<1>2. /\ SubSeq(file, 1, chunk) \in Seq(Columns)
      /\ Len(SubSeq(file, 1, chunk)) = chunk
      /\ \A k \in 1 .. chunk : SubSeq(file, 1, chunk)[k] = file[k]
  BY <1>1
<1>3. ASSUME NEW c \in ChunkColumns
      PROVE  /\ c \in Columns /\ evals[c] = "heap"
             /\ EntryOf(c) \in DOMAIN entries /\ entries[EntryOf(c)][1] = c
  <2>1. PICK i \in DOMAIN entries : entries[i][1] = c
    BY DEF ChunkColumns
  <2>2. EntryOf(c) \in DOMAIN entries /\ entries[EntryOf(c)][1] = c
    BY <2>1 DEF EntryOf
  <2>3. i \in 1 .. Len(entries) /\ Len(entries) \in Nat /\ c \in Columns
    BY <2>1, EntryFacts DEF IInv
  <2>4. c = EvalIndices[Start + i - 1]
    BY <2>1, EntryLaidOut DEF IInv, Filling
  <2>5. /\ pos \in 1 .. Len(EvalIndices) + 1 /\ Len(entries) < pos
        /\ Start = pos - Len(entries)
    BY DEF IInv, TypeOK, ChunkLaidOut, Filling, Start
  <2>6. Start + i - 1 \in DOMAIN EvalIndices /\ Start + i - 1 >= Start
    BY <2>3, <2>5, ConstantFacts
  <2>7. evals[EvalIndices[Start + i - 1]] = "heap"
    BY <2>6 DEF IInv, NotYetMoved
  <2>. QED
    BY <2>2, <2>3, <2>4, <2>7
<1>. QED
  BY <1>2, <1>3

(* The last byte of a chunk is of the column that filled it.                 *)
LEMMA LastByte ==
  ASSUME IInv, pc = "map"
  PROVE  /\ chunk > 0
         /\ file[chunk] \in Columns
         /\ chunk - Packed[file[chunk]] < ChunkBytes
<1> DEFINE last == entries[Len(entries)]
<1>1. Len(entries) \in DOMAIN entries
  BY DEF IInv, TypeOK, ChunkProgress
<1>2. /\ last[1] \in Columns /\ last[2] \in Nat /\ last[2] < ChunkBytes
      /\ Packed[last[1]] \in Nat /\ Packed[last[1]] > 0
  BY <1>1, EntryFacts DEF IInv
<1>3. chunk = last[2] + Packed[last[1]]
  BY DEF IInv, ChunkLaidOut, ChunkProgress, Filling
<1>4. \A k \in 1 .. Packed[last[1]] : file[last[2] + k] = last[1]
  BY <1>1, EntryLaidOut DEF IInv, Filling
<1> HIDE DEF last
<1>5. file[chunk] = last[1]
  BY <1>2, <1>3, <1>4
<1>. QED
  BY <1>2, <1>3, <1>5, ConstantFacts

(* The columns a guard names after another group.                            *)
LEMMA NotedByBoth ==
  ASSUME NEW s \in Seq(Columns), NEW t \in Seq(Columns)
  PROVE  {(s \o t)[i] : i \in DOMAIN (s \o t)}
           = {s[i] : i \in DOMAIN s} \cup {t[i] : i \in DOMAIN t}
<1>1. ASSUME NEW i \in DOMAIN (s \o t)
      PROVE  (s \o t)[i] \in {s[k] : k \in DOMAIN s} \cup {t[k] : k \in DOMAIN t}
  <2>1. i \in 1 .. Len(s) + Len(t) /\ Len(s) \in Nat /\ Len(t) \in Nat
    BY <1>1, Concatenation
  <2>2. CASE i \in 1 .. Len(s)
    BY <2>2, Concatenation
  <2>3. CASE i \notin 1 .. Len(s)
    <3>1. i - Len(s) \in 1 .. Len(t)
      BY <2>1, <2>3
    <3>2. (s \o t)[Len(s) + (i - Len(s))] = t[i - Len(s)]
      BY <3>1, Concatenation
    <3>3. Len(s) + (i - Len(s)) = i
      BY <2>1
    <3>. QED
      BY <3>1, <3>2, <3>3
  <2>. QED
    BY <2>2, <2>3
<1>2. ASSUME NEW i \in DOMAIN s
      PROVE  s[i] \in {(s \o t)[k] : k \in DOMAIN (s \o t)}
  <2>1. i \in 1 .. Len(s) /\ Len(s) \in Nat /\ Len(t) \in Nat
    BY <1>2
  <2>2. (s \o t)[i] = s[i] /\ DOMAIN (s \o t) = 1 .. Len(s) + Len(t)
    BY <2>1, Concatenation
  <2>3. i \in DOMAIN (s \o t)
    BY <2>1, <2>2
  <2>. QED
    BY <2>2, <2>3, Zenon
<1>3. ASSUME NEW i \in DOMAIN t
      PROVE  t[i] \in {(s \o t)[k] : k \in DOMAIN (s \o t)}
  <2>1. i \in 1 .. Len(t) /\ Len(s) \in Nat /\ Len(t) \in Nat
    BY <1>3
  <2>2. Len(s) + i \in DOMAIN (s \o t) /\ (s \o t)[Len(s) + i] = t[i]
    BY <2>1, Concatenation
  <2>. QED
    BY <2>2
<1>. QED
  BY <1>1, <1>2, <1>3

(* The columns of a chunk, in the order they were written.                   *)
LEMMA GroupIsSequence ==
  ASSUME TypeOK
  PROVE  [i \in DOMAIN entries |-> entries[i][1]] \in Seq(Columns)
<1>1. DOMAIN entries = 1 .. Len(entries) /\ Len(entries) \in Nat
  BY DEF TypeOK
<1>2. \A i \in 1 .. Len(entries) : entries[i][1] \in Columns
  BY <1>1, EntryFacts
<1>. QED
  BY <1>1, <1>2

(* A successful map notes the indices of its chunk in the guard, no more.   *)
LEMMA NotedAfterMap == ASSUME IInv, Map PROVE Noted' = Noted \cup ChunkColumns
<1> DEFINE group == [i \in DOMAIN entries |-> entries[i][1]]
<1>1. group \in Seq(Columns)
  BY GroupIsSequence DEF IInv
<1>2. {group[i] : i \in DOMAIN group} = ChunkColumns
  BY DEF ChunkColumns
<1>3. spilled' = spilled \o group /\ spilled \in Seq(Columns)
  BY DEF Map, IInv, TypeOK
<1> HIDE DEF group
<1>4. {(spilled \o group)[i] : i \in DOMAIN (spilled \o group)}
        = {spilled[i] : i \in DOMAIN spilled} \cup {group[i] : i \in DOMAIN group}
  BY <1>1, <1>3, NotedByBoth
<1>. QED
  BY <1>2, <1>3, <1>4 DEF Noted

(* The invariant is kept when a chunk is mapped and its columns are moved   *)
(* into the map.                                                            *)
LEMMA MapStep == ASSUME IInv, Map PROVE IInv'
<1> DEFINE bytes == SubSeq(file, 1, chunk)
<1>1. /\ UNCHANGED <<pos, file, entries, chunk, faults>>
      /\ pc = "map" /\ pc' = "loop"
      /\ regions' = Append(regions, bytes)
      /\ freed' = freed \cup {c \in ChunkColumns : evals[c] = "map"}
      /\ evals' = [c \in Columns |-> IF c \in ChunkColumns THEN "map" ELSE evals[c]]
      /\ offset' = [c \in Columns |-> IF c \in ChunkColumns
                                      THEN <<Len(regions'), entries[EntryOf(c)][2]>>
                                      ELSE offset[c]]
      /\ spilled' = spilled \o [i \in DOMAIN entries |-> entries[i][1]]
  BY DEF Map, chunkVars
<1>2. /\ bytes \in Seq(Columns) /\ Len(bytes) = chunk
      /\ \A k \in 1 .. chunk : bytes[k] = file[k]
      /\ ChunkColumns \subseteq Columns
      /\ \A c \in ChunkColumns : evals[c] = "heap"
      /\ \A c \in ChunkColumns : EntryOf(c) \in DOMAIN entries /\ entries[EntryOf(c)][1] = c
  BY <1>1, ChunkAtMap
<1> HIDE DEF bytes
<1>3. /\ regions \in Seq(Seq(Columns)) /\ Len(regions) \in Nat
      /\ regions' \in Seq(Seq(Columns)) /\ Len(regions') = Len(regions) + 1
      /\ regions'[Len(regions')] = bytes
      /\ \A r \in 1 .. Len(regions) : regions'[r] = regions[r]
  BY <1>1, <1>2 DEF IInv, TypeOK
<1>4. TypeOK'
  <2>1. evals' \in [Columns -> {"none", "heap", "map"}]
    BY <1>1 DEF IInv, TypeOK
  <2>2. ASSUME NEW c \in Columns PROVE offset'[c] \in Nat \X Nat
    <3>1. CASE c \in ChunkColumns
      <4>1. entries[EntryOf(c)][2] \in Nat
        BY <1>2, <3>1, EntryFacts DEF IInv
      <4>. QED
        BY <1>1, <1>3, <3>1, <4>1
    <3>2. CASE c \notin ChunkColumns
      BY <1>1, <3>2 DEF IInv, TypeOK
    <3>. QED
      BY <3>1, <3>2
  <2>3. offset' \in [Columns -> Nat \X Nat]
    BY <1>1, <2>2
  <2>4. spilled' \in Seq(Columns)
    <3> DEFINE group == [i \in DOMAIN entries |-> entries[i][1]]
    <3>1. group \in Seq(Columns)
      BY GroupIsSequence DEF IInv
    <3> HIDE DEF group
    <3>2. spilled \o group \in Seq(Columns)
      BY <3>1, Concatenation DEF IInv, TypeOK
    <3>. QED
      BY <1>1, <3>2 DEF group
  <2>5. freed' \subseteq Columns
    BY <1>1, <1>2 DEF IInv, TypeOK
  <2>. QED
    BY <1>1, <1>3, <2>1, <2>3, <2>4, <2>5 DEF IInv, TypeOK
<1>5. ChunkLaidOut' /\ ChunkProgress'
  BY <1>1 DEF ChunkLaidOut, ChunkProgress, Filling
<1>6. NotYetMoved'
  <2>1. ASSUME NEW i \in DOMAIN EvalIndices, i >= pos
        PROVE  evals'[EvalIndices[i]] = "heap"
    <3>1. /\ Len(entries) \in Nat /\ pos \in 1 .. Len(EvalIndices) + 1 /\ Len(entries) < pos
          /\ Start = pos - Len(entries)
      BY <1>1 DEF IInv, TypeOK, ChunkLaidOut, Filling, Start
    <3>2. evals[EvalIndices[i]] = "heap"
      BY <1>1, <2>1, <3>1, ConstantFacts DEF IInv, NotYetMoved
    <3>3. EvalIndices[i] \notin ChunkColumns
      <4>1. SUFFICES ASSUME NEW k \in DOMAIN entries, entries[k][1] = EvalIndices[i]
                     PROVE  FALSE
        BY DEF ChunkColumns
      <4>2. k \in 1 .. Len(entries) /\ EvalIndices[i] = EvalIndices[Start + k - 1]
        BY <1>1, <4>1, EntryFacts, EntryLaidOut DEF IInv, Filling
      <4>3. Start + k - 1 \in DOMAIN EvalIndices /\ Start + k - 1 < i
        BY <2>1, <3>1, <4>2, ConstantFacts
      <4>. QED
        BY <4>2, <4>3, IndicesDiffer, ConstantFacts
    <3>. QED
      BY <1>1, <3>2, <3>3, ConstantFacts
  <2>. QED
    BY <1>1, <2>1 DEF NotYetMoved, Start, Filling
<1>7. ReadsOwnBytes'
  <2>1. SUFFICES ASSUME NEW c \in Columns, evals'[c] = "map"
                 PROVE  /\ offset'[c][1] \in DOMAIN regions'
                        /\ \A i \in 1 .. Packed[c] :
                             /\ offset'[c][2] + i \in DOMAIN regions'[offset'[c][1]]
                             /\ regions'[offset'[c][1]][offset'[c][2] + i] = c
    BY DEF ReadsOwnBytes
  <2>2. CASE c \in ChunkColumns
    <3> DEFINE e == EntryOf(c)
    <3>1. e \in DOMAIN entries /\ entries[e][1] = c
      BY <1>2, <2>2
    <3>2. offset'[c] = <<Len(regions'), entries[e][2]>>
      BY <1>1, <2>2
    <3> HIDE DEF e
    <3>3. entries[e][2] \in Nat /\ Packed[c] \in Nat
      BY <3>1, EntryFacts DEF IInv
    <3>4. /\ entries[e][2] + Packed[c] <= chunk
          /\ \A k \in 1 .. Packed[c] : file[entries[e][2] + k] = c
      BY <1>1, <3>1, EntryLaidOut DEF IInv, Filling
    <3>5. ASSUME NEW k \in 1 .. Packed[c]
          PROVE  entries[e][2] + k \in DOMAIN bytes /\ bytes[entries[e][2] + k] = c
      <4>1. chunk \in Nat
        BY DEF IInv, TypeOK
      <4>2. entries[e][2] + k \in 1 .. chunk
        BY <3>3, <3>4, <4>1
      <4>3. DOMAIN bytes = 1 .. chunk
        BY <1>2
      <4>. QED
        BY <1>2, <3>4, <4>2, <4>3
    <3>. QED
      BY <1>3, <3>2, <3>5
  <2>3. CASE c \notin ChunkColumns
    <3>1. evals[c] = "map" /\ offset'[c] = offset[c]
      BY <1>1, <2>1, <2>3
    <3>2. offset[c][1] \in 1 .. Len(regions)
      BY <1>3, <3>1 DEF IInv, ReadsOwnBytes
    <3>3. regions'[offset[c][1]] = regions[offset[c][1]] /\ offset[c][1] \in DOMAIN regions'
      BY <1>3, <3>2
    <3>. QED
      BY <3>1, <3>3 DEF IInv, ReadsOwnBytes
  <2>. QED
    BY <2>2, <2>3
<1>8. GuardNamesMapped'
  <2>1. Noted' = Noted \cup ChunkColumns
    BY NotedAfterMap
  <2>2. Noted = {c \in Columns : evals[c] = "map"}
    BY <1>1 DEF IInv, GuardNamesMapped
  <2>3. {c \in Columns : evals'[c] = "map"} = {c \in Columns : evals[c] = "map"} \cup ChunkColumns
    BY <1>1, <1>2
  <2>. QED
    BY <2>1, <2>2, <2>3 DEF GuardNamesMapped
<1>9. NoMappedFree'
  BY <1>1, <1>2 DEF IInv, NoMappedFree
<1>10. FullMaps'
  <2>1. SUFFICES ASSUME NEW r \in DOMAIN regions'
                 PROVE  /\ regions'[r] # <<>>
                        /\ Len(regions'[r]) - Packed[regions'[r][Len(regions'[r])]] < ChunkBytes
                        /\ faults \/ Len(regions'[r]) >= ChunkBytes \/ (AllSeen /\ r = Len(regions'))
    BY <1>1 DEF FullMaps, AllSeen, Filling
  <2>2. r \in 1 .. Len(regions) + 1
    BY <1>3, <2>1
  <2>3. CASE r = Len(regions) + 1
    <3>1. regions'[r] = bytes /\ r = Len(regions')
      BY <1>3, <2>3
    <3>2. chunk \in Nat /\ chunk > 0 /\ chunk - Packed[file[chunk]] < ChunkBytes
      BY <1>1, LastByte DEF IInv, TypeOK
    <3>3. bytes # <<>> /\ bytes[Len(bytes)] = file[chunk]
      BY <1>2, <3>2
    <3>4. chunk >= ChunkBytes \/ AllSeen \/ faults
      BY <1>1 DEF IInv, ChunkProgress
    <3>. QED
      BY <1>2, <3>1, <3>2, <3>3, <3>4
  <2>4. CASE r \in 1 .. Len(regions)
    <3>1. r \in DOMAIN regions /\ regions'[r] = regions[r]
      BY <1>3, <2>4
    <3>. QED
      BY <1>1, <3>1 DEF IInv, FullMaps, Filling
  <2>. QED
    BY <1>3, <2>2, <2>3, <2>4
<1>. QED
  BY <1>4, <1>5, <1>6, <1>7, <1>8, <1>9, <1>10 DEF IInv

(* The guard is used: nothing is in a map any more.                          *)
LEMMA ForgetStep == ASSUME IInv, Forget PROVE IInv'
<1>1. /\ UNCHANGED <<pos, file, entries, chunk, offset, regions, spilled, freed, faults>>
      /\ pc = "guarded" /\ pc' = "forgotten"
      /\ evals' = [c \in Columns |-> IF c \in Noted THEN "none" ELSE evals[c]]
  BY DEF Forget, chunkVars
<1>2. Noted = {c \in Columns : evals[c] = "map"}
  BY <1>1 DEF IInv, GuardNamesMapped
<1>3. evals' \in [Columns -> {"none", "heap", "map"}] /\ \A c \in Columns : evals'[c] # "map"
  BY <1>1, <1>2 DEF IInv, TypeOK
<1>4. TypeOK'
  BY <1>1, <1>3 DEF IInv, TypeOK
<1>5. ChunkLaidOut' /\ ChunkProgress' /\ NotYetMoved' /\ GuardNamesMapped' /\ ReadsOwnBytes'
  BY <1>1, <1>3
     DEF ChunkLaidOut, ChunkProgress, NotYetMoved, GuardNamesMapped, ReadsOwnBytes, Filling
<1>6. NoMappedFree' /\ FullMaps'
  BY <1>1 DEF IInv, NoMappedFree, FullMaps, AllSeen, Filling
<1>. QED
  BY <1>4, <1>5, <1>6 DEF IInv

(* No column is in a map when the rest is taken.                             *)
LEMMA NoneMapped ==
  ASSUME IInv, pc \in {"forgotten", "unguarded", "taken"}, NEW c \in Columns
  PROVE  evals[c] # "map"
<1>1. CASE pc = "unguarded"
  <2>1. regions = <<>>
    BY <1>1 DEF IInv, NotYetMoved
  <2>2. DOMAIN regions = {}
    BY <2>1
  <2>. QED
    BY <2>2 DEF IInv, ReadsOwnBytes
<1>2. CASE pc # "unguarded"
  BY <1>2 DEF IInv, NotYetMoved
<1>. QED
  BY <1>1, <1>2

(* The invariant is kept when the columns that are on the heap are taken.   *)
LEMMA TakeRestStep == ASSUME IInv, TakeRest PROVE IInv'
<1>1. /\ UNCHANGED <<pos, file, entries, chunk, offset, regions, spilled, faults>>
      /\ pc \in {"forgotten", "unguarded"} /\ pc' = "taken"
      /\ freed' = freed \cup {c \in Columns : evals[c] = "map"}
      /\ evals' = [c \in Columns |-> "none"]
  BY DEF TakeRest, chunkVars
<1>2. {c \in Columns : evals[c] = "map"} = {}
  BY <1>1, NoneMapped
<1>3. NoMappedFree'
  BY <1>1, <1>2 DEF IInv, NoMappedFree
<1>4. TypeOK'
  BY <1>1, <1>2 DEF IInv, TypeOK
<1>5. ChunkLaidOut' /\ ChunkProgress' /\ NotYetMoved' /\ GuardNamesMapped' /\ ReadsOwnBytes'
  BY <1>1
     DEF ChunkLaidOut, ChunkProgress, NotYetMoved, GuardNamesMapped, ReadsOwnBytes, Filling
<1>6. FullMaps'
  BY <1>1 DEF IInv, FullMaps, AllSeen, Filling
<1>. QED
  BY <1>3, <1>4, <1>5, <1>6 DEF IInv

(* The invariant is kept when the guard is dropped, which unmaps the        *)
(* regions after the columns were forgotten.                                *)
LEMMA DropGuardStep == ASSUME IInv, DropGuard PROVE IInv'
<1>1. /\ UNCHANGED <<pos, file, entries, chunk, evals, offset, freed, faults>>
      /\ pc = "taken" /\ pc' = "done"
      /\ regions' = <<>> /\ spilled' = <<>>
  BY DEF DropGuard, chunkVars
<1>2. \A c \in Columns : evals[c] # "map"
  BY <1>1, NoneMapped
<1>3. TypeOK'
  BY <1>1 DEF IInv, TypeOK
<1>4. ChunkLaidOut' /\ ChunkProgress' /\ NotYetMoved' /\ GuardNamesMapped' /\ ReadsOwnBytes'
  BY <1>1, <1>2
     DEF ChunkLaidOut, ChunkProgress, NotYetMoved, GuardNamesMapped, ReadsOwnBytes, Filling
<1>5. NoMappedFree' /\ FullMaps'
  BY <1>1 DEF IInv, NoMappedFree, FullMaps
<1>. QED
  BY <1>3, <1>4, <1>5 DEF IInv

(* Every step keeps the invariant.                                          *)
LEMMA NextIInv == IInv /\ [Next]_vars => IInv'
BY QuietSteps, CreateFileStep, WriteStep, WriteFailsStep, MapStep, ForgetStep, TakeRestStep,
   DropGuardStep
   DEF Next, Done

------------------------------------------------------------------------------
(* The strengthened invariant holds of every run of the loop.                *)
THEOREM InductiveInvariant == Spec => []IInv
<1>1. Init => IInv
  BY InitIInv
<1>2. IInv /\ [Next]_vars => IInv'
  BY NextIInv
<1>. QED
  BY <1>1, <1>2, PTL DEF Spec

(* FewRegions follows from what is known of every map.                       *)
LEMMA MapsAreFew == IInv => FewRegions
BY DEF IInv, FullMaps, FewRegions, TypeOK

(* ReadsOwnBytes and the promises to the allocator, for every slice of       *)
(* columns and every chunk limit: a swapped column reads all the bytes that  *)
(* were written for it, the guard names exactly the swapped columns until it *)
(* is used, and none of their Vecs is freed.                                 *)
THEOREM MappedColumnsAreSound == Spec => [](TypeOK /\ ReadsOwnBytes /\ GuardNamesMapped /\ NoMappedFree)
<1>1. IInv => TypeOK /\ ReadsOwnBytes /\ GuardNamesMapped /\ NoMappedFree
  BY DEF IInv
<1>. QED
  BY <1>1, InductiveInvariant, PTL

(* FewRegions, for every slice of columns and every chunk limit.             *)
THEOREM RegionsAreFew == Spec => []FewRegions
BY InductiveInvariant, MapsAreFew, PTL

------------------------------------------------------------------------------
(* Each step is one of the abstract spill's, or changes nothing it speaks of.*)
LEMMA StepImplements == IInv /\ [Next]_vars => [Spill!Next]_(Spill!vars)
<1> SUFFICES ASSUME IInv, [Next]_vars PROVE [Spill!Next]_(Spill!vars)
  OBVIOUS
<1> USE DEF Spill!vars
<1>1. CASE UNCHANGED <<evals, spilled>>
  BY <1>1 DEF Noted
<1>2. CASE Map
  <2>1. /\ pc = "map"
        /\ evals' = [c \in Columns |-> IF c \in ChunkColumns THEN "map" ELSE evals[c]]
    BY <1>2 DEF Map
  <2>2. ChunkColumns # {}
    <3>1. 1 \in DOMAIN entries
      BY <2>1 DEF IInv, ChunkProgress, TypeOK
    <3>. QED
      BY <3>1 DEF ChunkColumns
  <2>3. ChunkColumns \subseteq Columns /\ \A c \in ChunkColumns : evals[c] = "heap"
    BY <2>1, ChunkAtMap
  <2>4. Noted' = Noted \cup ChunkColumns
    BY <1>2, NotedAfterMap
  <2>5. Spill!Move(ChunkColumns)
    BY <2>1, <2>2, <2>3, <2>4 DEF Spill!Move, Spill!OnHeap
  <2>. QED
    BY <2>3, <2>5 DEF Spill!Next
<1>3. CASE Forget
  <2>1. /\ evals' = [c \in Columns |-> IF c \in Noted THEN "none" ELSE evals[c]]
        /\ Noted' = Noted /\ pc = "guarded"
    BY <1>3 DEF Forget, Noted
  <2>2. Noted = Spill!Mapped
    BY <2>1 DEF IInv, GuardNamesMapped, Spill!Mapped
  <2>3. CASE Noted = {}
    <3>1. evals' = evals
      BY <2>1, <2>3 DEF IInv, TypeOK
    <3>. QED
      BY <2>1, <3>1
  <2>4. CASE Noted # {}
    BY <2>1, <2>2, <2>4 DEF Spill!Next, Spill!Forget
  <2>. QED
    BY <2>3, <2>4
<1>4. CASE TakeRest
  <2>1. /\ evals' = [c \in Columns |-> "none"] /\ Noted' = Noted
        /\ pc \in {"forgotten", "unguarded"}
    BY <1>4 DEF TakeRest, Noted
  <2>2. Spill!Mapped = {}
    BY <2>1, NoneMapped DEF Spill!Mapped
  <2>. QED
    BY <2>1, <2>2 DEF Spill!Next, Spill!Free
<1>5. CASE DropGuard
  <2>1. evals' = evals /\ spilled' = <<>> /\ pc = "taken"
    BY <1>5 DEF DropGuard
  <2>2. Noted' = {}
    BY <2>1 DEF Noted
  <2>3. Spill!Mapped = {}
    BY <2>1, NoneMapped DEF Spill!Mapped
  <2>. QED
    BY <2>1, <2>2, <2>3 DEF Spill!Next, Spill!Unmap
<1>. QED
  BY <1>1, <1>2, <1>3, <1>4, <1>5
     DEF Next, vars, chunkVars, columnVars, CreateFile, CreateFileFails, LoopEnds, Write,
         WriteFails, Sync, SyncFails, MapFails, Return, Done

(* The initial columns are initial columns of ColumnSpill.                  *)
LEMMA InitImplements == Init => Spill!Init
BY DEF Init, Spill!Init, Noted

(* The loop with all its failures does what ColumnSpill promises: groups of  *)
(* columns move to maps, the guard holds exactly those, and a mapped column  *)
(* is forgotten before its map goes and is never freed.                      *)
THEOREM Refinement == Spec => ImplementsSpill
<1>1. Init => Spill!Init
  BY InitImplements
<1>2. IInv /\ [Next]_vars => [Spill!Next]_(Spill!vars)
  BY StepImplements
<1>. QED
  BY <1>1, <1>2, InductiveInvariant, PTL DEF Spec, ImplementsSpill, Spill!Spec

------------------------------------------------------------------------------
(* The coefficients, and both spills of a tree *)

Index == Coefficients!Index
InMemory == Coefficients!InMemory

(* The polynomials with coefficients in memory up to p, whose number is the  *)
(* place of p's entry in the table.                                          *)
UpTo(p) == {q \in 1 .. p : q \in InMemory}
Place(p) == Cardinality(UpTo(p))

CoefficientTypeOK ==
  /\ call \in {"rest", "write"}
  /\ next \in 1 .. Polys + 1
  /\ coeffs \in [Index -> {"none", "heap", "file"}]
  /\ ref \in [Index -> Nat \X Nat]
  /\ frozen \in Seq([bytes : Seq(Index), entries : Seq(Nat \X Nat)])
  /\ buffer \in Seq(Index)
  /\ table \in Seq(Nat \X Nat)

(* While a file is written, each polynomial the loop has passed has its      *)
(* bytes where its entry says.                                               *)
TableLaidOut ==
  call = "write" =>
    /\ InMemory # {}
    /\ Len(table) = Place(next - 1)
    /\ \A p \in UpTo(next - 1) :
         LET e == table[Place(p)] IN
           /\ e[2] = Size[p]
           /\ e[1] + Size[p] <= Len(buffer)
           /\ \A i \in 1 .. Size[p] : buffer[e[1] + i] = p

CoefficientInv == CoefficientTypeOK /\ TableLaidOut /\ LoadsOwn

------------------------------------------------------------------------------
(* The instance CoefficientSpill has its polynomials and their sizes.       *)
LEMMA SizeFacts ==
  /\ Polys \in Nat /\ Index = 1 .. Polys
  /\ \A p \in Index : Size[p] \in Nat
BY CoefficientConstants DEF Index, Coefficients!Index

(* The place of a polynomial among those in memory grows by one at each.     *)
LEMMA PlaceFacts ==
  ASSUME NEW p \in Nat
  PROVE  /\ IsFiniteSet(UpTo(p)) /\ Place(p) \in Nat
         /\ UpTo(p + 1) = UpTo(p) \cup (IF p + 1 \in InMemory THEN {p + 1} ELSE {})
         /\ p + 1 \in InMemory => Place(p + 1) = Place(p) + 1
         /\ p + 1 \notin InMemory => Place(p + 1) = Place(p)
<1>1. IsFiniteSet(1 .. p)
  BY FS_Interval
<1>2. UpTo(p) \in SUBSET (1 .. p)
  BY DEF UpTo
<1>3. IsFiniteSet(UpTo(p))
  BY <1>1, <1>2, FS_Subset
<1>4. Place(p) \in Nat
  BY <1>3, FS_CardinalityType DEF Place
<1>5. UpTo(p + 1) = UpTo(p) \cup (IF p + 1 \in InMemory THEN {p + 1} ELSE {})
  BY DEF UpTo
<1>6. p + 1 \notin UpTo(p)
  BY DEF UpTo
<1>7. Cardinality(UpTo(p) \cup {p + 1}) = Cardinality(UpTo(p)) + 1
  BY <1>3, <1>6, FS_AddElement
<1>8. p + 1 \notin InMemory => UpTo(p + 1) = UpTo(p)
  BY <1>5
<1>. QED
  BY <1>3, <1>4, <1>5, <1>7, <1>8 DEF Place

(* The entry of a polynomial in memory comes no later than the entries of   *)
(* those after it.                                                          *)
LEMMA PlaceWithin ==
  ASSUME NEW n \in Nat, NEW p \in UpTo(n)
  PROVE  p \in 1 .. n /\ Place(p) \in 1 .. Place(n)
<1>1. p \in 1 .. n /\ p \in InMemory
  BY DEF UpTo
<1>2. UpTo(p) \in SUBSET UpTo(n)
  BY <1>1 DEF UpTo
<1>3. IsFiniteSet(UpTo(n)) /\ Place(n) \in Nat /\ Place(p) \in Nat
  BY <1>1, PlaceFacts
<1>4. Place(p) <= Place(n)
  BY <1>2, <1>3, FS_Subset DEF Place
<1>5. p - 1 \in Nat /\ (p - 1) + 1 = p
  BY <1>1
<1>6. Place(p) = Place(p - 1) + 1 /\ Place(p - 1) \in Nat
  BY <1>1, <1>5, PlaceFacts
<1>. QED
  BY <1>1, <1>3, <1>4, <1>6

(* Reading as many bytes as were written, from where they were written.      *)
LEMMA ReadBack ==
  ASSUME NEW b \in Seq(Index), NEW o \in Nat, NEW n \in Nat, NEW p \in Index,
         o + n <= Len(b), \A i \in 1 .. n : b[o + i] = p
  PROVE  SubSeq(b, o + 1, o + n) = [i \in 1 .. n |-> p]
<1>1. SubSeq(b, o + 1, o + n) = [i \in 1 .. n |-> b[o + i]]
  OBVIOUS
<1>. QED
  BY <1>1

(* The invariant holds before coefficients are spilled.                     *)
LEMMA CoefficientInit == Coefficients!Init => CoefficientInv
<1> SUFFICES ASSUME Coefficients!Init PROVE CoefficientInv
  OBVIOUS
<1> USE DEF Coefficients!Init
<1>1. CoefficientTypeOK
  BY SizeFacts DEF CoefficientTypeOK, Index
<1>2. LoadsOwn
  BY DEF LoadsOwn, Coefficients!LoadsOwn
<1>. QED
  BY <1>1, <1>2 DEF CoefficientInv, TableLaidOut

(* The invariant is kept when a spill file is created.                      *)
LEMMA NewFileStep ==
  ASSUME CoefficientInv, Coefficients!NewFile PROVE CoefficientInv'
<1> USE DEF CoefficientInv
<1>1. /\ UNCHANGED <<coeffs, ref, frozen>> /\ call' = "write" /\ next' = 1
      /\ buffer' = <<>> /\ table' = <<>> /\ InMemory # {}
  BY DEF Coefficients!NewFile, InMemory
<1>2. InMemory' = InMemory
  BY <1>1 DEF InMemory, Coefficients!InMemory, Coefficients!Index
<1>3. UpTo(0) = {} /\ Place(0) = 0
  <2>1. UpTo(0) = {}
    BY DEF UpTo
  <2>. QED
    BY <2>1, FS_EmptySet DEF Place
<1>4. UpTo(next - 1)' = {} /\ Place(next - 1)' = 0
  BY <1>1, <1>2, <1>3 DEF UpTo, Place
<1>5. CoefficientTypeOK'
  BY <1>1, SizeFacts DEF CoefficientTypeOK, Index
<1>6. TableLaidOut'
  BY <1>1, <1>2, <1>4 DEF TableLaidOut
<1>7. LoadsOwn'
  BY <1>1 DEF LoadsOwn, Coefficients!LoadsOwn, Coefficients!CanLoad, Coefficients!Load
<1>. QED
  BY <1>5, <1>6, <1>7

(* The invariant is kept when the loop passes a polynomial without          *)
(* coefficients.                                                            *)
LEMMA SkipStep ==
  ASSUME CoefficientInv, Coefficients!Skip PROVE CoefficientInv'
<1> USE DEF CoefficientInv
<1>1. /\ UNCHANGED <<call, coeffs, ref, frozen, buffer, table>> /\ call = "write"
      /\ next' = next + 1 /\ next \in Index /\ next \notin InMemory
  BY DEF Coefficients!Skip, InMemory, Index
<1>2. InMemory' = InMemory
  BY <1>1 DEF InMemory, Coefficients!InMemory, Coefficients!Index
<1>3. next - 1 \in Nat /\ (next - 1) + 1 = next /\ next' - 1 = next
  BY <1>1, SizeFacts
<1>4. UpTo(next) = UpTo(next - 1) /\ Place(next) = Place(next - 1)
  BY <1>1, <1>3, PlaceFacts
<1>5. UpTo(next - 1)' = UpTo(next - 1) /\ Place(next - 1)' = Place(next - 1)
  BY <1>2, <1>3, <1>4 DEF UpTo, Place
<1>6. CoefficientTypeOK'
  BY <1>1, SizeFacts DEF CoefficientTypeOK, Index
<1>7. TableLaidOut'
  <2>1. Len(table') = Place(next - 1)'
    BY <1>1, <1>5 DEF TableLaidOut
  <2>2. ASSUME NEW p \in UpTo(next - 1)
        PROVE  /\ table[Place(p)][2] = Size[p]
               /\ table[Place(p)][1] + Size[p] <= Len(buffer)
               /\ \A i \in 1 .. Size[p] : buffer[table[Place(p)][1] + i] = p
    BY <1>1 DEF TableLaidOut
  <2>3. \A p : Place(p)' = Place(p)
    BY <1>2 DEF Place, UpTo
  <2>. QED
    BY <1>1, <1>2, <1>5, <2>1, <2>2, <2>3 DEF TableLaidOut
<1>8. LoadsOwn'
  BY <1>1 DEF LoadsOwn, Coefficients!LoadsOwn, Coefficients!CanLoad, Coefficients!Load
<1>. QED
  BY <1>6, <1>7, <1>8

(* Counting is the same in the instance.                                     *)
LEMMA CountsAgree == ASSUME NEW S PROVE Coefficients!Cardinality(S) = Cardinality(S)
BY DEF Coefficients!Cardinality, Cardinality

(* The bytes of a polynomial written behind a file.                         *)
LEMMA BytesAppended ==
  ASSUME NEW p \in Index, NEW n \in Nat, NEW b \in Seq(Index)
  PROVE  /\ b \o [i \in 1 .. n |-> p] \in Seq(Index)
         /\ Len(b \o [i \in 1 .. n |-> p]) = Len(b) + n
         /\ \A k \in 1 .. Len(b) : (b \o [i \in 1 .. n |-> p])[k] = b[k]
         /\ \A k \in 1 .. n : (b \o [i \in 1 .. n |-> p])[Len(b) + k] = p
<1> DEFINE t == [i \in 1 .. n |-> p]
<1>1. t \in Seq(Index) /\ Len(t) = n /\ \A k \in 1 .. n : t[k] = p
  OBVIOUS
<1> HIDE DEF t
<1>2. /\ b \o t \in Seq(Index) /\ Len(b \o t) = Len(b) + Len(t)
      /\ \A k \in 1 .. Len(b) : (b \o t)[k] = b[k]
      /\ \A k \in 1 .. Len(t) : (b \o t)[Len(b) + k] = t[k]
  BY <1>1
<1>3. /\ b \o t \in Seq(Index) /\ Len(b \o t) = Len(b) + n
      /\ \A k \in 1 .. Len(b) : (b \o t)[k] = b[k]
      /\ \A k \in 1 .. n : (b \o t)[Len(b) + k] = p
  BY <1>1, <1>2
<1>. QED
  BY <1>3 DEF t

(* The invariant is kept when the coefficients of a polynomial are written  *)
(* and their entry noted.                                                   *)
LEMMA CoefficientWriteStep ==
  ASSUME CoefficientInv, Coefficients!Write PROVE CoefficientInv'
<1> USE DEF CoefficientInv
<1>1. /\ UNCHANGED <<call, coeffs, ref, frozen>> /\ call = "write"
      /\ buffer' = buffer \o [i \in 1 .. Size[next] |-> next]
      /\ table' = Append(table, <<Len(buffer), Size[next]>>)
      /\ next' = next + 1 /\ next \in InMemory
  BY DEF Coefficients!Write, InMemory
<1>2. InMemory' = InMemory
  BY <1>1 DEF InMemory, Coefficients!InMemory, Coefficients!Index
<1>3. next \in Index
  BY <1>1 DEF InMemory, Coefficients!InMemory, Index
<1>4. next - 1 \in Nat /\ (next - 1) + 1 = next /\ next' - 1 = next /\ Size[next] \in Nat
  BY <1>1, <1>3, SizeFacts
<1>5. UpTo(next) = UpTo(next - 1) \cup {next} /\ Place(next) = Place(next - 1) + 1
  BY <1>1, <1>4, PlaceFacts
<1>6. UpTo(next - 1)' = UpTo(next) /\ \A p : Place(p)' = Place(p)
  BY <1>2, <1>4 DEF UpTo, Place
<1>7. Place(next - 1)' = Place(next)
  BY <1>2, <1>4 DEF UpTo, Place
<1>8. /\ buffer \in Seq(Index) /\ buffer' \in Seq(Index) /\ Len(buffer) \in Nat
      /\ Len(buffer') = Len(buffer) + Size[next]
      /\ \A k \in 1 .. Len(buffer) : buffer'[k] = buffer[k]
      /\ \A k \in 1 .. Size[next] : buffer'[Len(buffer) + k] = next
  <2>1. buffer \in Seq(Index)
    BY DEF CoefficientTypeOK
  <2> DEFINE t == buffer \o [i \in 1 .. Size[next] |-> next]
  <2>2. /\ t \in Seq(Index) /\ Len(t) = Len(buffer) + Size[next]
        /\ \A k \in 1 .. Len(buffer) : t[k] = buffer[k]
        /\ \A k \in 1 .. Size[next] : t[Len(buffer) + k] = next
    BY <1>3, <1>4, <2>1, BytesAppended
  <2>3. buffer' = t
    BY <1>1
  <2> HIDE DEF t
  <2>. QED
    BY <2>1, <2>2, <2>3
<1>9. /\ table \in Seq(Nat \X Nat) /\ table' \in Seq(Nat \X Nat)
      /\ Len(table') = Len(table) + 1 /\ Len(table) \in Nat
      /\ \A k \in 1 .. Len(table) : table'[k] = table[k]
      /\ table'[Len(table) + 1] = <<Len(buffer), Size[next]>>
  <2>1. <<Len(buffer), Size[next]>> \in Nat \X Nat /\ table \in Seq(Nat \X Nat)
    BY <1>4, <1>8 DEF CoefficientTypeOK
  <2>. QED
    BY <1>1, <2>1
<1>10. Len(table) = Place(next - 1) /\ InMemory # {}
  BY <1>1 DEF TableLaidOut
<1>11. CoefficientTypeOK'
  BY <1>1, <1>3, <1>8, <1>9, SizeFacts DEF CoefficientTypeOK, Index
<1>12. ASSUME NEW p \in UpTo(next)
       PROVE  /\ table'[Place(p)][2] = Size[p]
              /\ table'[Place(p)][1] + Size[p] <= Len(buffer')
              /\ \A i \in 1 .. Size[p] : buffer'[table'[Place(p)][1] + i] = p
  <2>1. CASE p = next
    <3>1. Place(next) = Len(table) + 1
      BY ONLY <1>5, <1>10
    <3>2. table'[Place(next)] = <<Len(buffer), Size[next]>>
      BY ONLY <1>9, <3>1
    <3>3. table'[Place(next)][1] = Len(buffer) /\ table'[Place(next)][2] = Size[next]
      BY ONLY <3>2
    <3>4. Len(buffer) + Size[next] <= Len(buffer')
      BY ONLY <1>4, <1>8
    <3>. QED
      BY ONLY <1>8, <2>1, <3>3, <3>4
  <2>2. CASE p # next
    <3>1. p \in UpTo(next - 1)
      BY <1>5, <2>2
    <3>2. p \in 1 .. next - 1 /\ Place(p) \in 1 .. Len(table)
      BY <1>4, <1>10, <3>1, PlaceWithin
    <3>3. table'[Place(p)] = table[Place(p)] /\ table[Place(p)][1] \in Nat
      <4>1. table[Place(p)] \in Nat \X Nat
        BY ONLY <1>9, <3>2
      <4>. QED
        BY ONLY <1>9, <3>2, <4>1
    <3>4. /\ table[Place(p)][2] = Size[p]
          /\ table[Place(p)][1] + Size[p] <= Len(buffer)
          /\ \A i \in 1 .. Size[p] : buffer[table[Place(p)][1] + i] = p
      BY <1>1, <3>1 DEF TableLaidOut
    <3>5. Size[p] \in Nat
      BY <1>3, <1>4, <3>2, SizeFacts
    <3>6. ASSUME NEW i \in 1 .. Size[p]
          PROVE  buffer'[table[Place(p)][1] + i] = p
      <4>1. table[Place(p)][1] + i \in 1 .. Len(buffer)
        BY <1>8, <3>3, <3>4, <3>5
      <4>. QED
        BY <1>8, <3>4, <4>1
    <3>7. table[Place(p)][1] + Size[p] <= Len(buffer')
      BY <1>4, <1>8, <3>3, <3>4, <3>5
    <3>. QED
      BY <3>3, <3>4, <3>6, <3>7
  <2>. QED
    BY <2>1, <2>2
<1>13. TableLaidOut'
  <2>1. Len(table') = Place(next - 1)'
    BY <1>4, <1>5, <1>7, <1>9, <1>10
  <2>. QED
    BY <1>1, <1>2, <1>6, <1>10, <1>12, <2>1 DEF TableLaidOut
<1>14. LoadsOwn'
  BY <1>1 DEF LoadsOwn, Coefficients!LoadsOwn, Coefficients!CanLoad, Coefficients!Load
<1>. QED
  BY <1>11, <1>13, <1>14

(* The invariant is kept when a call fails: the file is dropped, the        *)
(* coefficients stay in memory.                                             *)
LEMMA FailStep ==
  ASSUME CoefficientInv, Coefficients!Fail PROVE CoefficientInv'
<1>1. UNCHANGED <<next, coeffs, ref, frozen, buffer, table>> /\ call' = "rest"
  BY DEF Coefficients!Fail
<1>. QED
  BY <1>1 DEF CoefficientInv, CoefficientTypeOK, TableLaidOut, Index, LoadsOwn,
     Coefficients!LoadsOwn, Coefficients!CanLoad, Coefficients!Load

(* The invariant is kept by freeze and the conversion after it: all         *)
(* coefficients that were in memory are in the file, at the place their     *)
(* entry says, and no polynomial gains or loses its coefficients.           *)
LEMMA FreezeStep ==
  ASSUME CoefficientInv, Coefficients!Freeze
  PROVE  /\ CoefficientInv'
         /\ InMemory # {} /\ InMemory' = {}
         /\ \A p \in Index : (coeffs[p] = "none") = (coeffs'[p] = "none")
<1> USE DEF CoefficientInv
<1> DEFINE f == [bytes |-> buffer, entries |-> table]
<1>1. /\ UNCHANGED <<next, buffer, table>> /\ call = "write" /\ next > Polys /\ call' = "rest"
      /\ frozen' = Append(frozen, f)
      /\ ref' = [p \in Index |-> IF p \in InMemory THEN <<Len(frozen'), Place(p)>> ELSE ref[p]]
      /\ coeffs' = [p \in Index |-> IF p \in InMemory THEN "file" ELSE coeffs[p]]
  <2>1. /\ UNCHANGED <<next, buffer, table>> /\ call = "write" /\ next > Polys /\ call' = "rest"
        /\ frozen' = Append(frozen, f)
    BY DEF Coefficients!Freeze
  <2>2. ref' = [p \in Index |-> IF p \in InMemory THEN <<Len(frozen'), Place(p)>> ELSE ref[p]]
    BY CountsAgree, Zenon DEF Coefficients!Freeze, InMemory, Index, Place, UpTo
  <2>3. coeffs' = [p \in Index |-> IF p \in InMemory THEN "file" ELSE coeffs[p]]
    BY Zenon DEF Coefficients!Freeze, InMemory, Index
  <2>. QED
    BY <2>1, <2>2, <2>3
<1>2. /\ coeffs \in [Index -> {"none", "heap", "file"}] /\ ref \in [Index -> Nat \X Nat]
      /\ buffer \in Seq(Index) /\ table \in Seq(Nat \X Nat)
  BY DEF CoefficientTypeOK
<1>3. f \in [bytes : Seq(Index), entries : Seq(Nat \X Nat)]
  BY <1>2
<1>4. /\ frozen' \in Seq([bytes : Seq(Index), entries : Seq(Nat \X Nat)])
      /\ Len(frozen) \in Nat /\ Len(frozen') = Len(frozen) + 1
      /\ frozen'[Len(frozen')] = f
      /\ \A r \in DOMAIN frozen : r \in DOMAIN frozen' /\ frozen'[r] = frozen[r]
      /\ Len(frozen') \in DOMAIN frozen'
  <2>1. frozen \in Seq([bytes : Seq(Index), entries : Seq(Nat \X Nat)])
    BY DEF CoefficientTypeOK
  <2> HIDE DEF f
  <2>2. DOMAIN frozen = 1 .. Len(frozen) /\ DOMAIN Append(frozen, f) = 1 .. Len(frozen) + 1
    BY ONLY <1>3, <2>1
  <2>3. /\ frozen' \in Seq([bytes : Seq(Index), entries : Seq(Nat \X Nat)])
        /\ Len(frozen) \in Nat /\ Len(frozen') = Len(frozen) + 1
        /\ frozen'[Len(frozen) + 1] = f
        /\ \A r \in 1 .. Len(frozen) : frozen'[r] = frozen[r]
    BY ONLY <1>1, <1>3, <2>1, Pushed
  <2>4. frozen' = Append(frozen, f)
    BY ONLY <1>1
  <2>. QED
    BY ONLY <2>2, <2>3, <2>4
<1>5. InMemory = {p \in Index : coeffs[p] = "heap"} /\ InMemory # {}
  BY <1>1 DEF TableLaidOut, InMemory, Coefficients!InMemory, Index
<1>6. InMemory' = {}
  <2>1. InMemory' = {p \in Index : coeffs'[p] = "heap"}
    BY DEF InMemory, Coefficients!InMemory, Index, Coefficients!Index
  <2>. QED
    BY <1>1, <1>5, <2>1
<1>7. \A p \in Index : (coeffs[p] = "none") = (coeffs'[p] = "none")
  BY <1>1, <1>5
<1>8. next = Polys + 1 /\ next - 1 = Polys /\ UpTo(next - 1) = InMemory
  BY <1>1, <1>5, SizeFacts DEF CoefficientTypeOK, UpTo
<1>9. \A p \in InMemory : p \in Nat /\ Place(p) \in 1 .. Len(table)
  BY <1>1, <1>8, SizeFacts, PlaceWithin DEF TableLaidOut
<1>10. CoefficientTypeOK'
  <2>1. coeffs' \in [Index -> {"none", "heap", "file"}]
    BY <1>1, <1>2
  <2>2. ref' \in [Index -> Nat \X Nat]
    BY <1>1, <1>2, <1>4, <1>9
  <2>. QED
    BY <1>1, <1>4, <2>1, <2>2 DEF CoefficientTypeOK, Index
<1>11. TableLaidOut'
  BY <1>1 DEF TableLaidOut
<1>12. LoadsOwn'
  <2>1. SUFFICES ASSUME NEW p \in Index, coeffs'[p] = "file"
                 PROVE  (/\ ref[p][1] \in DOMAIN frozen
                         /\ ref[p][2] \in DOMAIN frozen[ref[p][1]].entries
                         /\ Coefficients!Load(p) = [i \in 1 .. Size[p] |-> p])'
    BY DEF LoadsOwn, Coefficients!LoadsOwn, Coefficients!CanLoad, Index
  <2>2. CASE p \in InMemory
    <3> DEFINE e == table[Place(p)]
    <3>1. /\ e[2] = Size[p] /\ e[1] + Size[p] <= Len(buffer)
          /\ \A i \in 1 .. Size[p] : buffer[e[1] + i] = p
      BY <1>1, <1>8, <2>2 DEF TableLaidOut
    <3>2. Place(p) \in DOMAIN table /\ e[1] \in Nat /\ Size[p] \in Nat
      BY <1>2, <1>9, <2>2, SizeFacts
    <3>3. ref'[p][1] = Len(frozen') /\ ref'[p][2] = Place(p)
      BY <1>1, <2>2
    <3> HIDE DEF e
    <3>4. SubSeq(buffer, e[1] + 1, e[1] + Size[p]) = [i \in 1 .. Size[p] |-> p]
      <4>1. e[1] \in Nat /\ buffer \in Seq(Index)
        BY <1>2, <3>2
      <4> HIDE DEF CoefficientInv
      <4>. QED
        BY <3>1, <3>2, <4>1, ReadBack
    <3>5. /\ frozen'[ref'[p][1]].bytes = buffer /\ frozen'[ref'[p][1]].entries = table
          /\ ref'[p][1] \in DOMAIN frozen'
      BY <1>4, <3>3
    <3>6. Coefficients!Load(p)' = SubSeq(buffer, e[1] + 1, e[1] + e[2])
      BY <3>3, <3>5 DEF e, Coefficients!Load
    <3>. QED
      BY <3>1, <3>2, <3>3, <3>4, <3>5, <3>6
  <2>3. CASE p \notin InMemory
    <3>1. coeffs[p] = "file" /\ ref'[p] = ref[p]
      BY <1>1, <2>1, <2>3
    <3>2. /\ ref[p][1] \in DOMAIN frozen /\ ref[p][2] \in DOMAIN frozen[ref[p][1]].entries
          /\ Coefficients!Load(p) = [i \in 1 .. Size[p] |-> p]
      BY <3>1 DEF LoadsOwn, Coefficients!LoadsOwn, Coefficients!CanLoad, Index
    <3>3. frozen'[ref'[p][1]] = frozen[ref[p][1]] /\ ref'[p][1] \in DOMAIN frozen'
      BY <1>4, <3>1, <3>2
    <3>. QED
      BY <3>1, <3>2, <3>3 DEF Coefficients!Load
  <2>. QED
    BY <2>2, <2>3
<1>. QED
  BY <1>5, <1>6, <1>7, <1>10, <1>11, <1>12

(* Nothing but a freeze touches the coefficients of a tree.                  *)
LEMMA CoefficientNext ==
  ASSUME CoefficientInv, [Coefficients!Next]_(Coefficients!vars)
  PROVE  /\ CoefficientInv'
         /\ coeffs' # coeffs =>
              /\ InMemory # {} /\ InMemory' = {}
              /\ \A p \in Index : (coeffs[p] = "none") = (coeffs'[p] = "none")
<1>1. CASE Coefficients!NewFile
  BY <1>1, NewFileStep DEF Coefficients!NewFile
<1>2. CASE Coefficients!Skip
  BY <1>2, SkipStep DEF Coefficients!Skip
<1>3. CASE Coefficients!Write
  BY <1>3, CoefficientWriteStep DEF Coefficients!Write
<1>4. CASE Coefficients!Fail
  BY <1>4, FailStep DEF Coefficients!Fail
<1>5. CASE Coefficients!Freeze
  BY <1>5, FreezeStep
<1>6. CASE UNCHANGED Coefficients!vars
  <2>1. UNCHANGED <<call, next, coeffs, ref, frozen, buffer, table>>
    BY <1>6 DEF Coefficients!vars
  <2>2. InMemory' = InMemory
    BY <2>1 DEF InMemory, Coefficients!InMemory, Coefficients!Index
  <2>3. CoefficientTypeOK'
    BY <2>1 DEF CoefficientInv, CoefficientTypeOK, Index
  <2>4. TableLaidOut'
    <3>1. Place(next - 1)' = Place(next - 1) /\ UpTo(next - 1)' = UpTo(next - 1)
      BY <2>1, <2>2 DEF Place, UpTo
    <3>2. \A p : Place(p)' = Place(p)
      BY <2>2 DEF Place, UpTo
    <3>. QED
      BY <2>1, <2>2, <3>1, <3>2 DEF CoefficientInv, TableLaidOut
  <2>5. LoadsOwn'
    BY <2>1 DEF CoefficientInv, LoadsOwn, Coefficients!LoadsOwn, Coefficients!CanLoad,
       Coefficients!Load
  <2>. QED
    BY <2>1, <2>3, <2>4, <2>5 DEF CoefficientInv
<1>. QED
  BY <1>1, <1>2, <1>3, <1>4, <1>5, <1>6 DEF Coefficients!Next

------------------------------------------------------------------------------
(* One spill works at a time: the other's state stays as it is.              *)
LEMMA TreeSteps ==
  [TreeNext]_treeVars =>
    [Next]_vars /\ [Coefficients!Next]_(Coefficients!vars)
BY DEF TreeNext, SpillCoefficients, SpillEvaluations, treeVars, coefficientVars, Coefficients!vars

(* Both spills of a tree keep their invariants, in the order the code       *)
(* calls them and with retries.                                             *)
THEOREM TreeInvariant == TreeSpec => [](IInv /\ CoefficientInv)
<1>1. TreeInit => IInv /\ CoefficientInv
  BY InitIInv, CoefficientInit DEF TreeInit
<1>2. IInv /\ CoefficientInv /\ [TreeNext]_treeVars => IInv' /\ CoefficientInv'
  BY TreeSteps, NextIInv, CoefficientNext
<1>. QED
  BY <1>1, <1>2, PTL DEF TreeSpec

(* LoadsOwn, for any tree: whichever polynomials had coefficients in memory, *)
(* and however many attempts failed, what is read back for one are the bytes *)
(* that were written for it.                                                 *)
THEOREM CoefficientsLoadOwn == TreeSpec => []LoadsOwn
<1>1. CoefficientInv => LoadsOwn
  BY DEF CoefficientInv
<1>. QED
  BY <1>1, TreeInvariant, PTL

(* AllOrNothing, for any tree: a call moves all the coefficients in memory,  *)
(* of which there are some, or it leaves the tree as it was.                 *)
THEOREM CoefficientsAllOrNothing == TreeSpec => AllOrNothing
<1> DEFINE Whole == coeffs' # coeffs =>
      /\ Coefficients!InMemory # {} /\ Coefficients!InMemory' = {}
      /\ \A p \in Coefficients!Index : (coeffs[p] = "none") = (coeffs'[p] = "none")
<1>1. CoefficientInv /\ [TreeNext]_treeVars => [Whole]_(Coefficients!vars)
  BY TreeSteps, CoefficientNext DEF InMemory, Index
<1>. QED
  BY <1>1, TreeInvariant, PTL DEF TreeSpec, AllOrNothing, Coefficients!AllOrNothing

(* ReadsOwnBytes, with coefficients spilled at any point between.            *)
THEOREM TreeReadsOwnBytes == TreeSpec => []ReadsOwnBytes
<1>1. IInv => ReadsOwnBytes
  BY DEF IInv
<1>. QED
  BY <1>1, TreeInvariant, PTL

(* FewRegions, likewise.                                                     *)
THEOREM TreeRegionsAreFew == TreeSpec => []FewRegions
BY TreeInvariant, MapsAreFew, PTL

(* The evaluations of a tree keep the promise of ColumnSpill whatever is     *)
(* done to its coefficients.                                                 *)
THEOREM TreeRefinement == TreeSpec => ImplementsSpill
<1>1. TreeInit => Spill!Init
  BY InitImplements DEF TreeInit
<1>2. IInv /\ [TreeNext]_treeVars => [Spill!Next]_(Spill!vars)
  BY TreeSteps, StepImplements
<1>. QED
  BY <1>1, <1>2, TreeInvariant, PTL DEF TreeSpec, ImplementsSpill, Spill!Spec
==============================================================================
