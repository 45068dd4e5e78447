----------------------------- MODULE MCQuickSale -----------------------------
(* One cashier, one guest, one item, a cashback program on the money paid  *)
(* that lets half of a sale be paid with bonuses, and a visit program.     *)
EXTENDS QuickSale, TLC

MCPrograms == {
  [kind |-> "cashback", percent |-> 1000, least |-> 10, base |-> "money_paid", fixed |-> 0,
   oncePerDay |-> FALSE, share |-> 5000],
  [kind |-> "visit", percent |-> 0, least |-> 0, base |-> "full_total", fixed |-> 3,
   oncePerDay |-> TRUE, share |-> 0],
  [kind |-> "milestone", percent |-> 0, least |-> 0, base |-> "full_total", fixed |-> 9,
   oncePerDay |-> FALSE, share |-> 0]}
MCPrices == {12}
Symmetry == Permutations(Updates)
=============================================================================
