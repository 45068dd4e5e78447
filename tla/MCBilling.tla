------------------------------ MODULE MCBilling ------------------------------
(***************************************************************************)
(* Billing on small instances.  Every line costs 1, so that a payment can  *)
(* be partial and a bill can be reduced to what is already paid.           *)
(***************************************************************************)
EXTENDS Billing, TLC

CONSTANTS o1, o2, l1, l2, l3, b1, b2, g1, g2, visit

Price      == [l \in Line |-> 1]
PriceWorth == [S \in SUBSET Line |-> SumFunctionOnSet(Price, S)]

\* One line per order.
OneLineEach == l1 :> o1 @@ l2 :> o2
\* o1 has two lines: a removal may leave its order in the bill.
TwoLinesOne == l1 :> o1 @@ l2 :> o1 @@ l3 :> o2

SameGuest  == o1 :> g1 @@ o2 :> g1
TwoGuests  == o1 :> g1 @@ o2 :> g2
OneVisit   == [o \in Order |-> visit]

NoBonus    == [g \in Guest |-> 0]
OneBonus   == [g \in Guest |-> 1]

BillSymmetry == Permutations(Bill)
=============================================================================
