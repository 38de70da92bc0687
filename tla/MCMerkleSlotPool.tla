-------------------------- MODULE MCMerkleSlotPool --------------------------
(* Instances of MerkleSlotPool for TLC.                                      *)
EXTENDS MerkleSlotPool
CONSTANTS f1, f2, f3
ThreeFiles == {f1, f2, f3}
OneLongFile == {f3}
NoFiles == {}
=============================================================================
