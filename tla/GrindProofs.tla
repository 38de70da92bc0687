----------------------------- MODULE GrindProofs -----------------------------
(* The parallel search of Grind answers with the smallest chunk that has a   *)
(* solution, for any number of tasks, whatever the hash decides, in every    *)
(* schedule, and whatever old values the relaxed loads return.               *)
EXTENDS Grind, WellFoundedInduction, TLAPS

(* A task still works on its chunk, or has a solution in it.                 *)
Working(w) == pc[w] \in {"grind", "check"}
Holds(w) == pc[w] \in {"load", "swap", "found"}

HandedOut == \A w \in Tasks : chunk_id[w] < next_chunk
HeldIsGood == \A w \in Tasks : Holds(w) => Solves(chunk_id[w])
LeftIsBad == \A w \in Tasks : pc[w] = "fetch" => ~Solves(chunk_id[w])

(* A chunk with a solution is not put aside before one is held at it or      *)
(* before it.                                                                *)
Covered(c) ==
  \E w \in Tasks : (Working(w) /\ chunk_id[w] = c) \/ (Holds(w) /\ chunk_id[w] <= c)
NothingSkipped == \A c \in Nat : c < next_chunk /\ Solves(c) => Covered(c)

(* What is published is held.                                                *)
PublishedIsHeld ==
  \A i \in DOMAIN smallest :
    smallest[i] # MaxU32 => \E w \in Tasks : Holds(w) /\ chunk_id[w] = smallest[i]

(* A task gives up only when another has a solution.                         *)
GivenUp == \A w \in Tasks : pc[w] = "none" => \E v \in Tasks : Holds(v)

IInv ==
  /\ TypeOK
  /\ HandedOut /\ HeldIsGood /\ LeftIsBad
  /\ NothingSkipped /\ PublishedIsHeld /\ GivenUp
  /\ ResultIsSmallest

(* A nonempty set of naturals has a smallest member.                         *)
LEMMA SmallestExists ==
  ASSUME NEW S, S \subseteq Nat, S # {}
  PROVE  \E m \in S : \A c \in S : m <= c
<1>1. PICK m \in S : \A c \in S : ~(<<c, m>> \in OpToRel(<, Nat))
  BY NatLessThanWellFounded, WFMin
<1>2. ASSUME NEW c \in S PROVE m <= c
  <2>1. m \in Nat /\ c \in Nat
    OBVIOUS
  <2>2. ~(c < m)
    BY <1>1, <2>1, Zenon DEF OpToRel
  <2>3. QED BY <2>1, <2>2
<1>3. QED BY <1>2

(* The history of the atomic grows by the value that was stored.            *)
LEMMA AppendLonger ==
  ASSUME NEW s \in Seq(Nat), NEW x \in Nat
  PROVE  Append(s, x) \in Seq(Nat) /\ Len(Append(s, x)) = Len(s) + 1
  OBVIOUS

(* No step takes a variable out of its type.                                 *)
LEMMA TypeStep == TypeOK /\ HandedOut /\ [Next]_vars => TypeOK'
<1> SUFFICES ASSUME TypeOK, HandedOut, [Next]_vars PROVE TypeOK'
  OBVIOUS
<1> USE GrindConstants DEF TypeOK, Goto, See, Visible
<1>1. CASE UNCHANGED vars
  BY <1>1 DEF vars, taskVars
<1>2. ASSUME NEW w \in Tasks, Search(w) PROVE TypeOK'
  BY <1>2 DEF Search
<1>3. ASSUME NEW w \in Tasks, Load(w) PROVE TypeOK'
  <2>1. PICK i \in Visible(w) :
          /\ See(w, i)
          /\ current' = [current EXCEPT ![w] = smallest[i]]
          /\ Goto(w, IF chunk_id[w] < smallest[i] THEN "swap" ELSE "found")
    BY <1>3 DEF Load
  <2>2. i \in 1 .. Len(smallest) /\ smallest[i] \in Nat
    OBVIOUS
  <2>3. QED BY <1>3, <2>1, <2>2 DEF Load
<1>4. ASSUME NEW w \in Tasks, Swap(w) PROVE TypeOK'
  <2>1. smallest' = smallest \/ smallest' = Append(smallest, chunk_id[w])
    BY <1>4 DEF Swap
  <2>2. smallest' \in Seq(Nat) /\ Len(smallest') >= Len(smallest)
    <3>1. CASE smallest' = smallest
      BY <3>1
    <3>2. CASE smallest' = Append(smallest, chunk_id[w])
      <4>1. Append(smallest, chunk_id[w]) \in Seq(Nat)
        BY AppendLonger
      <4>2. Len(Append(smallest, chunk_id[w])) = Len(smallest) + 1
        BY AppendLonger
      <4>3. QED BY <3>2, <4>1, <4>2
    <3>3. QED BY <2>1, <3>1, <3>2
  <2>3. \A v \in Tasks : seen[v] <= Len(smallest')
    BY <2>2
  <2>4. QED BY <1>4, <2>2, <2>3 DEF Swap
<1>5. ASSUME NEW w \in Tasks, Fetch(w) PROVE TypeOK'
  BY <1>5 DEF Fetch
<1>6. ASSUME NEW w \in Tasks, Check(w) PROVE TypeOK'
  BY <1>6 DEF Check
<1>7. CASE Collect
  <2>1. Found = {} \/ result' \in Int
    <3>1. ASSUME Found # {} PROVE result' \in Int
      <4> DEFINE S == {chunk_id[w] : w \in Found}
      <4>1. S \subseteq Nat
        BY DEF Found
      <4>5. S # {}
        <5>1. PICK w : w \in Found
          BY ONLY <3>1
        <5>2. chunk_id[w] \in S
          BY ONLY <5>1
        <5>3. QED BY ONLY <5>2
      <4>2. \E c \in S : \A d \in S : c <= d
        BY <4>1, <4>5, SmallestExists
      <4>3. \E c \in S : \A w \in Found : c <= chunk_id[w]
        BY <4>2
      <4>4. result' \in S
        BY <1>7, <3>1, <4>3 DEF Collect
      <4>6. QED BY <4>1, <4>4
    <3>2. QED BY <3>1
  <2>2. QED BY <1>7, <2>1 DEF Collect, taskVars
<1>8. QED
  BY <1>1, <1>2, <1>3, <1>4, <1>5, <1>6, <1>7 DEF Next, Task, Stopped

(* The initial state.                                                        *)
LEMMA InitIInv == Init => IInv
<1> SUFFICES ASSUME Init PROVE IInv
  OBVIOUS
<1> USE GrindConstants DEF Init, Tasks
<1>1. TypeOK
  BY DEF TypeOK
<1>2. HandedOut /\ HeldIsGood /\ LeftIsBad /\ PublishedIsHeld /\ GivenUp
  BY DEF HandedOut, HeldIsGood, LeftIsBad, PublishedIsHeld, GivenUp, Holds
<1>3. NothingSkipped
  BY DEF NothingSkipped, Covered, Working
<1>4. ResultIsSmallest
  BY DEF ResultIsSmallest
<1>5. QED BY <1>1, <1>2, <1>3, <1>4 DEF IInv

(* A load returns a value the atomic took.                                   *)
LEMMA VisibleValues ==
  ASSUME TypeOK, NEW w \in Tasks, NEW i \in Visible(w)
  PROVE  i \in DOMAIN smallest /\ smallest[i] \in Nat
  BY DEF TypeOK, Visible

(* What a task does keeps each part of the invariant.                        *)
LEMMA TaskStep ==
  ASSUME IInv, TypeOK', NEW w \in Tasks, Task(w) PROVE IInv'
<1> USE DEF IInv, TypeOK, Goto, Holds, Working
<1>0. result' = result /\ good' = good /\ \A c : Solves(c)' = Solves(c)
  BY DEF Task, Search, Load, Swap, Fetch, Check, Solves
<1> HIDE DEF Solves
<1>7. ResultIsSmallest'
  BY <1>0 DEF ResultIsSmallest
<1>1. CASE Search(w)
  <2> USE <1>0, <1>1 DEF Search
  <2>1. (HandedOut /\ HeldIsGood /\ LeftIsBad)'
    BY DEF HandedOut, HeldIsGood, LeftIsBad
  <2>2. NothingSkipped'
    <3> SUFFICES ASSUME NEW c \in Nat, c < next_chunk, Solves(c) PROVE Covered(c)'
      BY DEF NothingSkipped
    <3>1. PICK v \in Tasks : (Working(v) /\ chunk_id[v] = c) \/ (Holds(v) /\ chunk_id[v] <= c)
      BY DEF NothingSkipped, Covered
    <3>2. (Working(v)' /\ chunk_id'[v] = c) \/ (Holds(v)' /\ chunk_id'[v] <= c)
      BY <3>1
    <3>3. QED BY <3>2 DEF Covered
  <2>3. (PublishedIsHeld /\ GivenUp)'
    BY DEF PublishedIsHeld, GivenUp
  <2>4. QED BY <1>7, <2>1, <2>2, <2>3
<1>2. CASE Load(w)
  <2>1. PICK i \in Visible(w) :
          Goto(w, IF chunk_id[w] < smallest[i] THEN "swap" ELSE "found")
    BY <1>2 DEF Load
  <2>2. pc' = [pc EXCEPT ![w] = "swap"] \/ pc' = [pc EXCEPT ![w] = "found"]
    BY <2>1
  <2>3. chunk_id' = chunk_id /\ next_chunk' = next_chunk /\ smallest' = smallest /\ pc[w] = "load"
    BY <1>2 DEF Load
  <2>4. \A v \in Tasks : Holds(v)' = Holds(v) /\ Working(v)' = Working(v)
    BY <2>2, <2>3
  <2>5. (HandedOut /\ HeldIsGood /\ LeftIsBad)'
    BY <1>0, <2>2, <2>3 DEF HandedOut, HeldIsGood, LeftIsBad
  <2>6. NothingSkipped'
    BY <1>0, <2>3, <2>4 DEF NothingSkipped, Covered
  <2>7. (PublishedIsHeld /\ GivenUp)'
    BY <2>2, <2>3, <2>4 DEF PublishedIsHeld, GivenUp
  <2>8. QED BY <1>7, <2>5, <2>6, <2>7
<1>3. CASE Swap(w)
  <2>1. /\ pc' = [pc EXCEPT ![w] = "found"] /\ pc[w] = "swap"
        /\ chunk_id' = chunk_id /\ next_chunk' = next_chunk
        /\ smallest' = smallest \/ smallest' = Append(smallest, chunk_id[w])
    BY <1>3 DEF Swap
  <2>2. \A v \in Tasks : Holds(v)' = Holds(v) /\ Working(v)' = Working(v)
    <3>1. \A v \in Tasks : pc'[v] = IF v = w THEN "found" ELSE pc[v]
      BY <2>1
    <3>2. QED BY ONLY <2>1, <3>1 DEF Holds, Working
  <2>3. (HandedOut /\ HeldIsGood /\ LeftIsBad /\ GivenUp)'
    BY <1>0, <2>1, <2>2 DEF HandedOut, HeldIsGood, LeftIsBad, GivenUp
  <2>4. NothingSkipped'
    BY <1>0, <2>1, <2>2 DEF NothingSkipped, Covered
  <2>5. PublishedIsHeld'
    <3>1. CASE smallest' = smallest
      BY <2>1, <2>2, <3>1 DEF PublishedIsHeld
    <3>2. CASE smallest' = Append(smallest, chunk_id[w])
      <4> SUFFICES ASSUME NEW i \in DOMAIN smallest', smallest'[i] # MaxU32
                   PROVE  \E v \in Tasks : Holds(v)' /\ chunk_id'[v] = smallest'[i]
        BY DEF PublishedIsHeld
      <4>1. \/ i \in DOMAIN smallest /\ smallest'[i] = smallest[i]
            \/ smallest'[i] = chunk_id[w]
        BY <3>2
      <4>2. Holds(w)' /\ chunk_id'[w] = chunk_id[w]
        BY <2>1, <2>2
      <4>3. QED BY <2>1, <2>2, <4>1, <4>2 DEF PublishedIsHeld
    <3>3. QED BY <2>1, <3>1, <3>2
  <2>6. QED BY <1>7, <2>3, <2>4, <2>5
<1>4. CASE Fetch(w)
  <2>1. /\ pc' = [pc EXCEPT ![w] = "check"] /\ pc[w] = "fetch"
        /\ chunk_id' = [chunk_id EXCEPT ![w] = next_chunk] /\ next_chunk' = next_chunk + 1
        /\ smallest' = smallest
    BY <1>4 DEF Fetch
  <2>2. \A v \in Tasks : Holds(v)' = Holds(v) /\ (v # w => chunk_id'[v] = chunk_id[v])
    BY <2>1
  <2>3. (HandedOut /\ HeldIsGood /\ LeftIsBad /\ GivenUp)'
    BY <1>0, <2>1, <2>2 DEF HandedOut, HeldIsGood, LeftIsBad, GivenUp
  <2>4. NothingSkipped'
    <3> SUFFICES ASSUME NEW c \in Nat, c < next_chunk', Solves(c) PROVE Covered(c)'
      BY <1>0 DEF NothingSkipped
    <3>1. CASE c = next_chunk
      BY <2>1, <3>1 DEF Covered
    <3>2. CASE c # next_chunk
      <4>1. PICK v \in Tasks : (Working(v) /\ chunk_id[v] = c) \/ (Holds(v) /\ chunk_id[v] <= c)
        BY <2>1, <3>2 DEF NothingSkipped, Covered
      <4>2. v # w
        BY <2>1, <4>1
      <4>3. QED BY <2>1, <4>1, <4>2 DEF Covered
    <3>3. QED BY <3>1, <3>2
  <2>5. PublishedIsHeld'
    <3>1. \A v \in Tasks : Holds(v) => chunk_id'[v] = chunk_id[v]
      BY <2>1
    <3>2. QED BY <2>1, <2>2, <3>1 DEF PublishedIsHeld
  <2>6. QED BY <1>7, <2>3, <2>4, <2>5
<1>5. CASE Check(w)
  <2>1. PICK i \in Visible(w) : Goto(w, IF chunk_id[w] >= smallest[i] THEN "none" ELSE "grind")
    BY <1>5 DEF Check
  <2>9. i \in DOMAIN smallest /\ smallest[i] \in Nat
    BY VisibleValues
  <2>2. /\ pc[w] = "check" /\ chunk_id' = chunk_id /\ next_chunk' = next_chunk /\ smallest' = smallest
    BY <1>5 DEF Check
  <2>3. \A v \in Tasks : Holds(v)' = Holds(v) /\ (v # w => Working(v)' = Working(v))
    BY <2>1, <2>2
  <2>4. (HandedOut /\ HeldIsGood /\ LeftIsBad)'
    BY <1>0, <2>1, <2>2, <2>3 DEF HandedOut, HeldIsGood, LeftIsBad
  <2>5. PublishedIsHeld'
    BY <2>2, <2>3 DEF PublishedIsHeld
  <2>6. CASE chunk_id[w] >= smallest[i]
    <3>1. smallest[i] # MaxU32
      BY <2>6, <2>9 DEF HandedOut
    <3>2. PICK u \in Tasks : Holds(u) /\ chunk_id[u] = smallest[i]
      BY <2>9, <3>1 DEF PublishedIsHeld
    <3>3. NothingSkipped'
      <4> SUFFICES ASSUME NEW c \in Nat, c < next_chunk, Solves(c) PROVE Covered(c)'
        BY <1>0, <2>2 DEF NothingSkipped
      <4>1. PICK v \in Tasks : (Working(v) /\ chunk_id[v] = c) \/ (Holds(v) /\ chunk_id[v] <= c)
        BY DEF NothingSkipped, Covered
      <4>2. CASE v = w
        <5>1. c = chunk_id[w]
          BY <2>2, <4>1, <4>2
        <5>2. Holds(u)' /\ chunk_id'[u] <= c
          BY <2>2, <2>3, <2>6, <3>2, <5>1
        <5>3. QED BY <5>2 DEF Covered
      <4>3. CASE v # w
        BY <2>2, <2>3, <4>1, <4>3 DEF Covered
      <4>4. QED BY <4>2, <4>3
    <3>4. GivenUp'
      BY <2>3, <3>2 DEF GivenUp
    <3>5. QED BY <1>7, <2>4, <2>5, <3>3, <3>4
  <2>7. CASE ~(chunk_id[w] >= smallest[i])
    <3>1. pc' = [pc EXCEPT ![w] = "grind"]
      BY <2>1, <2>7
    <3>2. \A v \in Tasks : Working(v)' = Working(v)
      BY <2>2, <2>3, <3>1
    <3>3. NothingSkipped'
      BY <1>0, <2>2, <2>3, <3>2 DEF NothingSkipped, Covered
    <3>4. GivenUp'
      BY <2>2, <2>3, <3>1 DEF GivenUp
    <3>5. QED BY <1>7, <2>4, <2>5, <3>3, <3>4
  <2>8. QED BY <2>6, <2>7
<1>6. QED BY <1>1, <1>2, <1>3, <1>4, <1>5 DEF Task

(* The answer is collected.                                                  *)
LEMMA CollectStep == ASSUME IInv, Collect PROVE ResultIsSmallest'
<1> USE DEF IInv
<1>1. Found # {}
  <2>1. 0 \in Tasks
    BY GrindConstants DEF Tasks
  <2>2. CASE pc[0] = "none"
    <3>1. PICK v \in Tasks : Holds(v)
      BY <2>1, <2>2 DEF GivenUp
    <3>2. pc[v] \in {"found", "none"}
      BY DEF Collect, Ended
    <3>3. QED BY <3>1, <3>2 DEF Holds, Found
  <2>3. CASE pc[0] = "found"
    BY <2>1, <2>3 DEF Found
  <2>4. QED BY <2>1, <2>2, <2>3 DEF Collect, Ended
<1> DEFINE S == {chunk_id[w] : w \in Found}
<1>2. S \subseteq Nat
  BY DEF Found, TypeOK
<1>3. S # {}
  BY <1>1
<1>4. \E c \in S : \A d \in S : c <= d
  BY <1>2, <1>3, SmallestExists
<1>5. \E c \in S : \A w \in Found : c <= chunk_id[w]
  BY <1>4
<1>6. result' \in S /\ \A w \in Found : result' <= chunk_id[w]
  BY <1>1, <1>5 DEF Collect
<1>7. PICK u \in Found : chunk_id[u] = result'
  BY <1>6
<1>8. u \in Tasks /\ Holds(u) /\ result' \in Nat /\ result' < next_chunk
  BY <1>2, <1>6, <1>7 DEF Found, Holds, HandedOut
<1>9. Solves(result')
  BY <1>7, <1>8 DEF HeldIsGood
<1>10. ASSUME NEW c \in 0 .. result' - 1, Solves(c) PROVE FALSE
  <2>0. \A r, n \in Nat : r < n => \A d \in 0 .. r - 1 : d \in Nat /\ d < r /\ d < n
    OBVIOUS
  <2>1. c \in Nat /\ c < result' /\ c < next_chunk
    <3>1. next_chunk \in Nat
      BY DEF TypeOK
    <3>2. QED BY <1>8, <2>0, <3>1
  <2>2. PICK w \in Tasks : (Working(w) /\ chunk_id[w] = c) \/ (Holds(w) /\ chunk_id[w] <= c)
    BY <1>10, <2>1 DEF NothingSkipped, Covered
  <2>3. pc[w] \in {"found", "none"}
    BY DEF Collect, Ended
  <2>4. w \in Found /\ chunk_id[w] <= c
    BY <2>2, <2>3 DEF Working, Holds, Found
  <2>5. chunk_id[w] \in Nat
    BY DEF TypeOK
  <2>6. QED BY <1>6, <1>8, <2>1, <2>4, <2>5
<1>11. \A c : Solves(c)' = Solves(c)
  BY DEF Collect, Solves
<1>12. QED
  BY <1>8, <1>9, <1>10, <1>11 DEF ResultIsSmallest

(* The invariant holds in every reachable state.                             *)
THEOREM InvariantHolds == Spec => []IInv
<1>1. IInv /\ [Next]_vars => IInv'
  <2> SUFFICES ASSUME IInv, [Next]_vars PROVE IInv'
    OBVIOUS
  <2>1. TypeOK'
    BY TypeStep DEF IInv
  <2>2. ASSUME NEW w \in Tasks, Task(w) PROVE IInv'
    BY <2>1, <2>2, TaskStep
  <2>3. CASE Collect
    <3>1. ResultIsSmallest'
      BY <2>3, CollectStep
    <3>2. UNCHANGED <<good, pc, chunk_id, next_chunk, smallest>>
      BY <2>3 DEF Collect, taskVars
    <3>3. QED
      BY <2>1, <3>1, <3>2 DEF IInv, HandedOut, HeldIsGood, LeftIsBad, NothingSkipped,
         PublishedIsHeld, GivenUp, Covered, Working, Holds, Solves
  <2>4. CASE UNCHANGED vars
    BY <2>1, <2>4 DEF vars, taskVars, IInv, HandedOut, HeldIsGood, LeftIsBad,
       NothingSkipped, PublishedIsHeld, GivenUp, Covered, Working, Holds,
       ResultIsSmallest, Solves
  <2>5. QED BY <2>2, <2>3, <2>4 DEF Next, Stopped
<1>2. QED BY InitIInv, <1>1, PTL DEF Spec

(* Whatever the schedule and the stale loads, the search gives the smallest  *)
(* chunk with a solution and never nothing: the prover's nonce is a function *)
(* of the channel alone (the comment above parallel_grind).                  *)
THEOREM GrindIsDeterministic == Spec => []ResultIsSmallest
<1>1. IInv => ResultIsSmallest
  BY DEF IInv
<1>2. QED BY <1>1, InvariantHolds, PTL
================================================================================
