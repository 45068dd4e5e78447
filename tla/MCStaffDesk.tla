----------------------------- MODULE MCStaffDesk -----------------------------
(***************************************************************************)
(* StaffDesk on a small instance.                                          *)
(***************************************************************************)
EXTENDS StaffDesk, TLC

CONSTANTS pickup, table, b1, b2, l1, l2, l3

\* The buttons of the cards, but those that cancel an order in work.
Transitions == "new" :> {"accepted", "canceled"} @@ "accepted" :> {"ready"}
               @@ "ready" :> {"completed"} @@ "completed" :> {} @@ "canceled" :> {}

OrderLines == pickup :> {l1, l2} @@ table :> {l3}
CheckoutBill == pickup :> b1
==============================================================================
