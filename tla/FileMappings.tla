---------------------------- MODULE FileMappings ----------------------------
(* What a FileBackedMapping of prover/spill.rs promises to the code that     *)
(* holds one, without saying where the bytes live: a request ends in a       *)
(* mapping or in an error, a mapping shows its own temporary file for as     *)
(* long as it is held ("ptr and byte_len cover the full live mapping owned   *)
(* by self"), and ACTIVE_MMAPS counts the mappings that are held.            *)
EXTENDS Integers, FiniteSets

CONSTANT Files    \* the temporary files, one per mapping

VARIABLES status,   \* "absent", "requested" or "mapped", per file
          shows,    \* the file a read of the mapping returns; "none" if not held
          active    \* ACTIVE_MMAPS

vars == <<status, shows, active>>

Init ==
  /\ status = [f \in Files |-> "absent"]
  /\ shows = [f \in Files |-> "none"]
  /\ active = 0

Request(f) ==
  /\ status[f] = "absent"
  /\ status' = [status EXCEPT ![f] = "requested"]
  /\ UNCHANGED <<shows, active>>

Grant(f) ==
  /\ status[f] = "requested"
  /\ status' = [status EXCEPT ![f] = "mapped"]
  /\ shows' = [shows EXCEPT ![f] = f]
  /\ active' = active + 1

Refuse(f) ==
  /\ status[f] = "requested"
  /\ status' = [status EXCEPT ![f] = "absent"]
  /\ UNCHANGED <<shows, active>>

Unmap(f) ==
  /\ status[f] = "mapped"
  /\ status' = [status EXCEPT ![f] = "absent"]
  /\ shows' = [shows EXCEPT ![f] = "none"]
  /\ active' = active - 1

Next == \E f \in Files : Request(f) \/ Grant(f) \/ Refuse(f) \/ Unmap(f)

Spec == Init /\ [][Next]_vars
=============================================================================
