-------------------------------- MODULE Grind --------------------------------
(* parallel_grind of prover/backend/simd/grind.rs: tasks that search chunks  *)
(* of nonces at the same time, each chunk handed out once, and tell each     *)
(* other through two relaxed atomics when to stop.  A nonce is named by its  *)
(* chunk, its 32 high bits: within a chunk one task finds the smallest.      *)
(*                                                                           *)
(* A relaxed load may return an old value of an atomic, though never one     *)
(* older than the thread saw before; a read-modify-write acts on the last.   *)
EXTENDS Integers, Sequences

CONSTANTS
  Workers,      \* n_workers
  MaxU32,       \* u32::MAX; next_chunk is bounded by it (in the code it would wrap)
  Cap           \* bound: from this chunk on, every chunk has a solution

ASSUME GrindConstants ==
  /\ Workers \in Nat \ {0}
  /\ MaxU32 \in Nat /\ Workers < MaxU32
  /\ Cap \in Nat

Tasks == 0 .. Workers - 1

VARIABLES
  good,         \* the chunks up to Cap with a solution: the hash decides
  pc, chunk_id, current,    \* of each task; current_smallest_chunk
  next_chunk,
  smallest,     \* smallest_good_chunk: the values it took, the last is its value
  seen,         \* the newest of them each task saw
  result        \* the nonce's chunk, -1 until all tasks are done

taskVars == <<pc, chunk_id, current, seen>>
vars == <<good, taskVars, next_chunk, smallest, result>>

Solves(c) == c \in good \/ c >= Cap

Init ==
  /\ good \in SUBSET (0 .. Cap)
  /\ pc = [w \in Tasks |-> "grind"]
  /\ chunk_id = [w \in Tasks |-> w]
  /\ current = [w \in Tasks |-> MaxU32]
  /\ next_chunk = Workers
  /\ smallest = <<MaxU32>>
  /\ seen = [w \in Tasks |-> 1]
  /\ result = -1

Goto(w, place) == pc' = [pc EXCEPT ![w] = place]

(* grind(digest, chunk_id, pow_bits).                                        *)
Search(w) ==
  /\ pc[w] = "grind"
  /\ Goto(w, IF Solves(chunk_id[w]) THEN "load" ELSE "fetch")
  /\ UNCHANGED <<good, chunk_id, current, next_chunk, smallest, seen, result>>

(* smallest_good_chunk.load, with the value it returned.                     *)
Visible(w) == seen[w] .. Len(smallest)
See(w, i) == seen' = [seen EXCEPT ![w] = i]

Load(w) ==
  /\ pc[w] = "load"
  /\ \E i \in Visible(w) :
       /\ See(w, i)
       /\ current' = [current EXCEPT ![w] = smallest[i]]
       /\ Goto(w, IF chunk_id[w] < smallest[i] THEN "swap" ELSE "found")
  /\ UNCHANGED <<good, chunk_id, next_chunk, smallest, result>>

(* Mutant: a failed exchange is tried again with the same expected value.    *)
SwapRetries(w) ==
  /\ pc[w] = "swap"
  /\ IF smallest[Len(smallest)] = current[w]
     THEN smallest' = Append(smallest, chunk_id[w]) /\ Goto(w, "found")
     ELSE UNCHANGED smallest /\ Goto(w, "swap")
  /\ UNCHANGED <<good, chunk_id, current, next_chunk, seen, result>>

(* compare_exchange; whether it fails is not looked at.                      *)
Swap(w) ==
  /\ pc[w] = "swap"
  /\ IF smallest[Len(smallest)] = current[w]
     THEN smallest' = Append(smallest, chunk_id[w])
     ELSE UNCHANGED smallest
  /\ Goto(w, "found")
  /\ UNCHANGED <<good, chunk_id, current, next_chunk, seen, result>>

(* next_chunk.fetch_add(1).                                                  *)
Fetch(w) ==
  /\ pc[w] = "fetch"
  /\ next_chunk < MaxU32
  /\ chunk_id' = [chunk_id EXCEPT ![w] = next_chunk]
  /\ next_chunk' = next_chunk + 1
  /\ Goto(w, "check")
  /\ UNCHANGED <<good, current, smallest, seen, result>>

(* Mutant: a task stops as soon as another published a solution.             *)
CheckStopsEarly(w) ==
  /\ pc[w] = "check"
  /\ \E i \in Visible(w) :
       See(w, i) /\ Goto(w, IF smallest[i] # MaxU32 THEN "none" ELSE "grind")
  /\ UNCHANGED <<good, chunk_id, current, next_chunk, smallest, result>>

(* A chunk past one with a solution is not searched.                         *)
Check(w) ==
  /\ pc[w] = "check"
  /\ \E i \in Visible(w) :
       See(w, i) /\ Goto(w, IF chunk_id[w] >= smallest[i] THEN "none" ELSE "grind")
  /\ UNCHANGED <<good, chunk_id, current, next_chunk, smallest, result>>

Found == {w \in Tasks : pc[w] = "found"}
Ended == \A w \in Tasks : pc[w] \in {"found", "none"}

(* .min() over what the tasks found; -2 stands for the panic of expect.      *)
Collect ==
  /\ Ended /\ result = -1
  /\ result' = IF Found = {} THEN -2
               ELSE CHOOSE c \in {chunk_id[w] : w \in Found} :
                      \A w \in Found : c <= chunk_id[w]
  /\ UNCHANGED <<good, taskVars, next_chunk, smallest>>

Stopped == result # -1 /\ UNCHANGED vars

Task(w) == Search(w) \/ Load(w) \/ Swap(w) \/ Fetch(w) \/ Check(w)
Next == (\E w \in Tasks : Task(w)) \/ Collect \/ Stopped

Spec == Init /\ [][Next]_vars

(* rayon runs every task to its end.                                         *)
FairSpec == Spec /\ WF_vars(Collect) /\ \A w \in Tasks : WF_vars(Task(w))

------------------------------------------------------------------------------
TypeOK ==
  /\ good \in SUBSET (0 .. Cap)
  /\ pc \in [Tasks -> {"grind", "load", "swap", "fetch", "check", "found", "none"}]
  /\ chunk_id \in [Tasks -> Nat]
  /\ current \in [Tasks -> Nat]
  /\ next_chunk \in Nat /\ next_chunk <= MaxU32
  /\ smallest \in Seq(Nat) /\ Len(smallest) > 0
  /\ seen \in [Tasks -> Nat \ {0}]
  /\ \A w \in Tasks : seen[w] <= Len(smallest)
  /\ result \in Int

(* "Deterministically finds the smallest nonce": whatever the schedule, the  *)
(* stale loads and the lost exchanges, the answer is the first chunk with a  *)
(* solution, and the search never comes back with nothing.                   *)
ResultIsSmallest ==
  result # -1 =>
    /\ result \in Nat /\ Solves(result)
    /\ \A c \in 0 .. result - 1 : ~Solves(c)

(* Every task ends and the search answers.                                   *)
GrindEnds == <>(result >= 0)
==============================================================================
