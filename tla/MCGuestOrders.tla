---------------------------- MODULE MCGuestOrders ----------------------------
(***************************************************************************)
(* GuestOrders on small instances.                                         *)
(***************************************************************************)
EXTENDS GuestOrders, TLC

CONSTANTS soup, cake

\* A soup is only sold at a table and a cake only to take away.  Both cost the same, so that
\* carts of the two kinds may have one total; half of it takes at most two units of bonuses.
Menu == [c \in Channel |-> IF c = "table" THEN {soup} ELSE {cake}]

Price == [S \in SUBSET {soup, cake} |->
             (IF soup \in S THEN 4 ELSE 0) + (IF cake \in S THEN 4 ELSE 0)]

Symmetry == Permutations(Tap)
==============================================================================
