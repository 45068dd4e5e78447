------------------------------- MODULE MCVisits -------------------------------
(***************************************************************************)
(* Visits on small instances.                                              *)
(***************************************************************************)
EXTENDS Visits, TLC

VisitsSymmetry == Permutations(Table)
=============================================================================
