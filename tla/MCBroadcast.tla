----------------------------- MODULE MCBroadcast -----------------------------
(***************************************************************************)
(* Broadcast on small instances.                                           *)
(***************************************************************************)
EXTENDS Broadcast, TLC

BroadcastSymmetry == Permutations(Guest) \cup Permutations(Worker)
=============================================================================
