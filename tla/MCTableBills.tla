----------------------------- MODULE MCTableBills -----------------------------
(***************************************************************************)
(* TableBills on small instances.                                          *)
(***************************************************************************)
EXTENDS TableBills, TLC

CONSTANTS g1, g2, g3

\* Two guests ask for the bill of the table, the third for another split; the staff splits the
\* visit into personal bills.
TwoShared == {<<g1, "shared">>, <<g2, "shared">>, <<g3, "custom_split">>, <<Manager, "personal">>}

\* Everybody orders, the guest who asks first as the last.
OneEach == {<<1, g3>>, <<2, g2>>, <<3, g1>>}

\* One guest asks for the bill of the table, the other for one of its own.
OwnAndShared == {<<g1, "shared">>, <<g2, "personal">>}

\* Whoever orders.
Anyone == Order \X Guest

\* Employees are alike.
Symmetry == Permutations(Cashier)
===============================================================================
