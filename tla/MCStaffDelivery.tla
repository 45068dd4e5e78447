--------------------------- MODULE MCStaffDelivery ---------------------------
(***************************************************************************)
(* StaffDelivery on a small instance.                                      *)
(***************************************************************************)
EXTENDS StaffDelivery, TLC

CONSTANTS e1, e2

\* A part of ORDER_STATUS_TRANSITIONS; only the guest completes the order.
Transitions ==
    "new" :> {"accepted"} @@ "accepted" :> {"canceled"} @@ "completed" :> {} @@ "canceled" :> {}

Interests == e1 :> {"created"} @@ e2 :> {"call"}

Symmetry == Permutations(Worker)
==============================================================================
