--------------------------- MODULE ProvingProtocol ---------------------------
(* The order in which a proof absorbs commitments into the channel and draws *)
(* challenges from it (prove_ex of prover/mod.rs, prove_values of            *)
(* prover/pcs/mod.rs).  Soundness rests on it: a challenge is drawn after    *)
(* all that it must depend on.  Nothing here speaks of memory modes.         *)
EXTENDS Naturals, Sequences

VARIABLES channel,    \* the operations performed on the channel, in order
          answered    \* the queries were answered: there is a proof

vars == <<channel, answered>>

Root == "mix root"

(* After the trees' roots, and the same for every proof.                     *)
Script == <<"draw composition coefficient", Root, "draw OODS point",
            "mix sampled values", "draw quotient coefficient", "FRI commit",
            "mix nonce", "draw queries">>

Init == channel = <<>> /\ answered = FALSE

Roots == {n \in 0 .. Len(channel) : \A i \in 1 .. n : channel[i] = Root}
Trees == CHOOSE n \in Roots : \A m \in Roots : m <= n
Drawn == Len(channel) - Trees

CommitTree ==
  /\ Drawn = 0
  /\ channel' = Append(channel, Root)
  /\ UNCHANGED answered

Step ==
  /\ Drawn < Len(Script)
  /\ channel' = Append(channel, Script[Drawn + 1])
  /\ UNCHANGED answered

Answer ==
  /\ Drawn = Len(Script)
  /\ answered' = TRUE
  /\ UNCHANGED channel

Next == CommitTree \/ Step \/ Answer

Spec == Init /\ [][Next]_vars
==============================================================================
